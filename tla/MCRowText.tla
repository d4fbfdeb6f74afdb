------------------------------ MODULE MCRowText ------------------------------
(***************************************************************************)
(* Rows of every kind at the boundaries of their texts.                     *)
(***************************************************************************)
EXTENDS RowText

CodeHash(n) == [i \in 1 .. 32 |-> (n * 97 + i * 41) % 256]
DefaultScript == CodeHash(1)
MultisigScript == CodeHash(2)

Write(callback, network, arguments) ==
    {[callback |-> callback, network |-> network, argument |-> a] : a \in arguments}

\* Every place of the decimal point and of zeros before and behind it; the largest
\* number TLC has.
Amounts ==
    {d * 10 ^ n : d \in {1, 9}, n \in 0 .. 8}
    \cup {10 ^ 9 + 10 ^ n : n \in 0 .. 8}
    \cup {10 ^ n - 1 : n \in 0 .. 9}
    \cup {0, 12345678, 102030405, 2147483647}
Tuple(fst, snd) == [fst |-> fst, snd |-> snd]
SomeAmounts == {0, 1, 99999999, 100000000, 2147483647}
Numbers ==
    Write("frac_ckb_to_string", "MAINNET", Amounts)
    \cup Write("frac_ckb_tuple_to_string", "MAINNET", {Tuple(a, b) : a, b \in SomeAmounts})
    \cup Write("uint64_tuple_to_string", "MAINNET", {Tuple(a, b) : a, b \in {0, 1, 9, 10, 2147483647}})

\* Hashes of which each has a byte of every kind; periods that a byte tells from none.
Hash(n) == [i \in 1 .. 20 |-> (n * 59 + i * 83) % 256]
Constant(byte) == [i \in 1 .. 20 |-> byte]
NoPeriod == Zeros(8)
Period(i) == [NoPeriod EXCEPT ![i] = 32]
LockArg(hash, period) == [hash |-> hash, lock_period |-> period]
LockArgs ==
    {LockArg(h, NoPeriod) : h \in {Hash(1), Hash(2), Constant(0), Constant(255)}}
    \cup {LockArg(Hash(3), Period(i)) : i \in 1 .. 8}
Addresses ==
    UNION {Write(c, n, LockArgs) : c \in {"sighash_address", "multisig_address"}, n \in DOMAIN hrbs}

\* What an output may be; a lock with a period takes 12 or 13 symbols more.
Output(capacity, is_multisig, lock_arg) ==
    [capacity |-> capacity, is_multisig |-> is_multisig, destination |-> lock_arg]
Outputs ==
    {Output(c, FALSE, LockArg(Hash(4), NoPeriod)) : c \in SomeAmounts}
    \cup {Output(c, TRUE, LockArg(Hash(5), NoPeriod)) : c \in SomeAmounts}
    \cup {Output(c, FALSE, LockArg(Hash(6), Period(8))) : c \in SomeAmounts}
    \cup {Output(c, TRUE, LockArg(Hash(7), Period(8))) : c \in {0, 100000000, 123000000, 2100000000}}
TimelockedOutputs ==
    {Output(c, TRUE, LockArg(Hash(7), Period(8))) : c \in SomeAmounts}

Component(number, hardened) == [number |-> number, hardened |-> hardened]
Account == <<Component(44, TRUE), Component(309, TRUE), Component(0, TRUE)>>
Paths ==
    {Account, Account \o <<Component(0, FALSE)>>,
     Account \o <<Component(1, FALSE), Component(10, FALSE)>>,
     <<Component(44, TRUE), Component(309, TRUE), Component(2147483647, TRUE),
       Component(2147483647, FALSE), Component(1000000000, TRUE)>>}

\* A message is its first packet; all of it is well-formed UTF-8.
Pound == <<194, 163>>
Euro == <<226, 130, 172>>
Ledger == <<240, 159, 147, 146>>
Letters(n) == [i \in 1 .. n |-> 97 + (i % 26)]
Texts ==
    {<<>>, <<10>>, Ledger} \cup {Letters(n) : n \in {1, 61, 62, 63, 64, 65, 128, 240}}
    \cup {Ascii("Pay ") \o Euro \o Ascii("5"), Pound \o Euro \o Ledger}
    \cup {Letters(n) \o c \o Letters(k) : n \in {60, 62, 64}, c \in {Pound, Euro, Ledger}, k \in {0, 3}}
Packets(messages) == {MagicBytes \o m : m \in messages}
Messages ==
    Write("copy_buffer", "MAINNET", Packets(Texts))
    \cup Write("message in hex", "MAINNET", Packets({<<0, 255>>} \cup Texts))
    \cup Write("message hash", "MAINNET", {SubSeq(CodeHash(3), 1, n) : n \in 0 .. 32})

Titles ==
    {"Transaction", "Self-Transfer", "Multi-Input Transaction", "Deposit", "Prepare",
     "Withdrawal", "Extended Public Key", "Account", "Message", "Message Hash"}

AllRows ==
    Numbers \cup Addresses \cup Messages
    \cup Write("output", "TESTNET", Outputs)
    \cup Write("bip32_path_to_string", "MAINNET", Paths)
    \cup Write("copy_string", "MAINNET", {Ascii(t) : t \in Titles})

TimelockedRows == Write("output", "MAINNET", TimelockedOutputs)
=============================================================================
