------------------------------- MODULE Address -------------------------------
(***************************************************************************)
(* Addresses as the screen shows them: a payload of bytes is regrouped into *)
(* symbols of five bits and written in bech32m, behind the prefix of the    *)
(* network (render_pkh and segwit_addr.c).  A text is a sequence of ASCII   *)
(* codes, without the null byte that ends it in memory.                     *)
(***************************************************************************)
EXTENDS Integers, Sequences, SequencesExt, Bitwise

CONSTANTS defaultLockScript, multisigLockScript,    \* code hashes
          MaxSymbols                                \* what render_pkh has room for, 256

\* The ASCII codes of a string of letters, digits, spaces and -./:;<=>?@.
Upper == "-./0123456789:;<=>?@ABCDEFGHIJKLMNOPQRSTUVWXYZ"
Lower == "abcdefghijklmnopqrstuvwxyz"
Codes(alphabet, offset, c) ==
    {offset + n : n \in {k \in 1 .. Len(alphabet) : SubSeq(alphabet, k, k) = c}}
Code(c) == CHOOSE n \in Codes(" ", 31, c) \cup Codes(Upper, 44, c) \cup Codes(Lower, 96, c) : TRUE
Ascii(string) == [i \in 1 .. Len(string) |-> Code(SubSeq(string, i, i))]

\* What a function that throws or fails leaves instead of a text.
Thrown == <<-1>>

\* FoldLeft of the community modules for sequences of hundreds of elements: it is
\* folded by halves, and nested as deep as the logarithm of the length.
FoldHalves(op(_, _), base, States, seq) ==
    LET fold[first \in DOMAIN seq, last \in DOMAIN seq, state \in States] ==
            IF first = last THEN op(state, seq[first])
            ELSE LET middle == (first + last) \div 2
                 IN fold[middle + 1, last, fold[first, middle, state]]
    IN IF seq = <<>> THEN base ELSE fold[1, Len(seq), base]

-----------------------------------------------------------------------------
\* val is a register of 32 bits, of which only those not yet given out count:
\* fewer than inbits + outbits.
KeptBits == 16
Shifted(val, inbits, byte) == (val * 2 ^ inbits + byte) % 2 ^ KeptBits

\* The groups that are full once n bits wait in val, and those still waiting.
FullGroups(val, n, outbits) ==
    [k \in 1 .. n \div outbits |-> (val \div 2 ^ (n - k * outbits)) % 2 ^ outbits]

\* The bits after the last full group, padded with zeros; without pad they must
\* be zeros, and too few for a group of the input.
LeftOver_Unshifted(val, bits, outbits) == val % 2 ^ bits
LeftOver(val, bits, outbits) == (val * 2 ^ (outbits - bits)) % 2 ^ outbits

convert_bits(max, outbits, in, inbits, pad) ==
    LET add(state, byte) ==
            LET val == Shifted(state.val, inbits, byte)
                n == state.bits + inbits
            IN [val |-> val, bits |-> n % outbits,
                out |-> state.out \o FullGroups(val, n, outbits)]
        end == FoldHalves(add, [val |-> 0, bits |-> 0, out |-> <<>>],
                          [val : Nat, bits : Nat, out : Seq(Nat)], in)
        rest == IF end.bits = 0 THEN <<>> ELSE <<LeftOver(end.val, end.bits, outbits)>>
        out == IF pad THEN end.out \o rest ELSE end.out
    IN IF Len(out) > max \/ (~pad /\ (rest \notin {<<>>, <<0>>} \/ end.bits >= inbits))
       THEN Thrown
       ELSE out

-----------------------------------------------------------------------------
\* The checksum: a polynomial over GF(32), its remainder in 30 bits.
Generators == <<\h3b6a57b2, \h26508e6d, \h1ea119fa, \h3d4233dd, \h2a1462b3>>
\* The sum of those a number of five bits selects, for each such number.
SumOf(b) ==
    LET xor[n \in 0 .. 5] ==
            IF n = 0 THEN 0
            ELSE IF (b \div 2 ^ (n - 1)) % 2 = 1 THEN xor[n - 1] ^^ Generators[n] ELSE xor[n - 1]
    IN xor[5]
Sums == <<>> \o [n \in 1 .. 32 |-> SumOf(n - 1)]
bech32_polymod_step(pre) == ((pre % 2 ^ 25) * 32) ^^ Sums[pre \div 2 ^ 25 + 1]

\* The remainder after the given symbols, unless one of them has more than five bits.
Failed == -1
Polymod(symbols) ==
    LET step(pre, symbol) ==
            IF pre = Failed \/ symbol > 31 THEN Failed ELSE bech32_polymod_step(pre) ^^ symbol
    IN FoldHalves(step, 1, Int, symbols)

Bech32mConstant == \h2bc830a3
charset == <<>> \o Ascii("qpzry9x8gf2tvdw0s3jn54khce6mua7l")

\* The prefix is hashed by its high bits, a zero, and its low bits.
Expanded(hrp) ==
    [i \in DOMAIN hrp |-> hrp[i] \div 32] \o <<0>> \o [i \in DOMAIN hrp |-> hrp[i] % 32]

ChecksumSymbols(chk) == [i \in 1 .. 6 |-> (chk \div 2 ^ (5 * (6 - i))) % 32]

\* The terminating null is not counted: it is written behind the last symbol
\* even if that one has taken the last byte of the buffer.
bech32_encode(out_len, hrp, data) ==
    LET chk == Polymod(Expanded(hrp) \o data \o <<0, 0, 0, 0, 0, 0>>)
        symbols == data \o ChecksumSymbols(chk ^^ Bech32mConstant)
        output == hrp \o Ascii("1") \o [i \in DOMAIN symbols |-> charset[symbols[i] + 1]]
    IN IF Len(hrp) + 7 + Len(data) > 1023 \/ chk = Failed \/ Len(output) > out_len
       THEN Thrown
       ELSE output

-----------------------------------------------------------------------------
hrbs == [MAINNET |-> Ascii("ckb"), TESTNET |-> Ascii("ckt")]

render_pkh(out_size, network, payload) ==
    LET symbols == convert_bits(MaxSymbols, 5, payload, 8, TRUE)
    IN IF symbols = Thrown THEN Thrown ELSE bech32_encode(out_size, hrbs[network], symbols)

\* Format byte, code hash, hash type "type", arguments.
ADDRESS_FORMAT_TYPE_FULL_VERSION == <<0>>
FullPayload(code_hash, args) == ADDRESS_FORMAT_TYPE_FULL_VERSION \o code_hash \o <<1>> \o args

lock_arg_to_sighash_address(size, network, lock_arg) ==
    render_pkh(size, network, FullPayload(defaultLockScript, lock_arg.hash))

HasTimelock_Always(lock_arg) == TRUE
HasTimelock(lock_arg) == \E i \in DOMAIN lock_arg.lock_period : lock_arg.lock_period[i] # 0

lock_arg_to_multisig_address(size, network, lock_arg) ==
    render_pkh(size, network,
               FullPayload(multisigLockScript,
                           IF HasTimelock(lock_arg) THEN lock_arg.hash \o lock_arg.lock_period
                           ELSE lock_arg.hash))

-----------------------------------------------------------------------------
\* What a wallet makes of an address on the screen (BIP-350, RFC 21): a prefix,
\* symbols whose remainder is that of bech32m, and bytes whose bits they are.
SymbolsOf(text) == [i \in DOMAIN text |-> (CHOOSE n \in 1 .. 32 : charset[n] = text[i]) - 1]
BitsOf(numbers, width) ==
    [i \in 1 .. Len(numbers) * width |->
        (numbers[(i - 1) \div width + 1] \div 2 ^ (width - 1 - ((i - 1) % width))) % 2]

SaysAddress(text, network, payload) ==
    /\ Len(text) > 10
    /\ SubSeq(text, 1, 4) = hrbs[network] \o Ascii("1")
    /\ \A i \in 5 .. Len(text) : text[i] \in ToSet(charset)
    /\ LET symbols == SymbolsOf(SubSeq(text, 5, Len(text)))
           data == SubSeq(symbols, 1, Len(symbols) - 6)
           bits == BitsOf(data, 5)
       IN /\ Polymod(Expanded(hrbs[network]) \o symbols) = Bech32mConstant
          /\ Len(data) * 5 - Len(payload) * 8 \in 0 .. 4
          /\ SubSeq(bits, 1, Len(payload) * 8) = BitsOf(payload, 8)
          /\ \A i \in Len(payload) * 8 + 1 .. Len(bits) : bits[i] = 0
=============================================================================
