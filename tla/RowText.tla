------------------------------- MODULE RowText -------------------------------
(***************************************************************************)
(* One row of a prompt: a function of string_generation_callback writes what *)
(* it is given into active_value, over the text of the row before, and the   *)
(* user reads it.  Prompts says which function is called for which datum.    *)
(***************************************************************************)
EXTENDS Rendering

CONSTANTS
    VALUE_WIDTH,    \* 128
    Rows            \* what is written: a function, its argument, the network

VARIABLES
    row,            \* the row to write
    active_value,   \* the text in the buffer
    written         \* history: whether the row has been

vars == <<row, active_value, written>>

BufferSize == VALUE_WIDTH + 1

\* Behind the capacity of an output comes its address; it is given the size of
\* the whole buffer, not of what is left.
Separator == Ascii(" CKB -> ")
Address(is_multisig, network, lock_arg) ==
    IF is_multisig THEN lock_arg_to_multisig_address(BufferSize, network, lock_arg)
    ELSE lock_arg_to_sighash_address(BufferSize, network, lock_arg)
OutputRow(network, output) ==
    frac_ckb_to_string_indirect(BufferSize, output.capacity) \o Separator
    \o Address(output.is_multisig, network, output.destination)

Generate(r, old) ==
    CASE r.callback = "frac_ckb_to_string" -> frac_ckb_to_string_indirect(BufferSize, r.argument)
      [] r.callback = "frac_ckb_tuple_to_string" ->
            frac_ckb_tuple_to_string_indirect(BufferSize, r.argument)
      [] r.callback = "uint64_tuple_to_string" -> uint64_tuple_to_string(r.argument)
      [] r.callback = "sighash_address" -> Address(FALSE, r.network, r.argument)
      [] r.callback = "multisig_address" -> Address(TRUE, r.network, r.argument)
      [] r.callback = "output" -> OutputRow(r.network, r.argument)
      [] r.callback = "bip32_path_to_string" -> bip32_path_to_string(BufferSize, r.argument)
      [] r.callback = "copy_string" -> copy_string(BufferSize, r.argument)
      [] r.callback = "copy_buffer" -> copy_buffer(BufferSize, display_as_buffer(r.argument, FALSE))
      [] r.callback = "message in hex" ->
            buffer_to_hex(BufferSize, display_as_buffer(r.argument, TRUE), old)
      [] r.callback = "message hash" ->
            buffer_to_hex(BufferSize, [size |-> Len(r.argument), ptr |-> r.argument], old)

string_generation_callback ==
    /\ ~written
    /\ active_value' = Generate(row, active_value)
    /\ written' = TRUE
    /\ UNCHANGED row

Init ==
    /\ row \in Rows
    /\ active_value = [i \in 1 .. VALUE_WIDTH |-> Stale]
    /\ written = FALSE

Next == string_generation_callback

Spec == Init /\ [][Next]_vars
-----------------------------------------------------------------------------
\* Properties.

Args(l) == IF \A i \in DOMAIN l.lock_period : l.lock_period[i] = 0 THEN l.hash ELSE l.hash \o l.lock_period
SaysLock(text, is_multisig, network, l) ==
    SaysAddress(text, network,
                IF is_multisig THEN FullPayload(multisigLockScript, Args(l))
                ELSE FullPayload(defaultLockScript, l.hash))

SaysTuple(text, Part(_, _), tuple) ==
    SaysBoth(text, LAMBDA first : Part(first, tuple.fst), Ascii(" of "),
             LAMBDA second : Part(second, tuple.snd))

\* The components of a path, between slashes.
SaysPath(text, path) ==
    LET slashes == {i \in DOMAIN text : text[i] = 47}
        before(k) == IF k = 0 THEN 0
                     ELSE IF k > Cardinality(slashes) THEN Len(text) + 1
                     ELSE CHOOSE i \in slashes : Cardinality({j \in slashes : j <= i}) = k
        part(k) == SubSeq(text, before(k - 1) + 1, before(k) - 1)
    IN /\ Cardinality(slashes) = Len(path) - 1
       /\ \A k \in DOMAIN path :
            LET digits == SelectSeq(part(k), LAMBDA c : c # 39)
            IN /\ SaysNumber(digits, path[k].number)
               /\ part(k) = digits \o (IF path[k].hardened THEN <<39>> ELSE <<>>)

Message(packet) == SubSeq(packet, Len(MagicBytes) + 1, Len(packet))

Says(text, r) ==
    CASE r.callback = "frac_ckb_to_string" -> SaysCKB(text, r.argument)
      [] r.callback = "frac_ckb_tuple_to_string" -> SaysTuple(text, SaysCKB, r.argument)
      [] r.callback = "uint64_tuple_to_string" -> SaysTuple(text, SaysNumber, r.argument)
      [] r.callback = "sighash_address" -> SaysLock(text, FALSE, r.network, r.argument)
      [] r.callback = "multisig_address" -> SaysLock(text, TRUE, r.network, r.argument)
      [] r.callback = "output" ->
            SaysBoth(text, LAMBDA first : SaysCKB(first, r.argument.capacity), Separator,
                     LAMBDA second : SaysLock(second, r.argument.is_multisig, r.network,
                                              r.argument.destination))
      [] r.callback = "bip32_path_to_string" -> SaysPath(text, r.argument)
      [] r.callback = "copy_string" -> text = r.argument
      [] r.callback = "copy_buffer" -> SaysMessage(text, Message(r.argument))
      [] r.callback = "message in hex" -> SaysHex(text, Abbreviated(Message(r.argument)))
      [] r.callback = "message hash" -> SaysHex(text, r.argument)

\* The text of a row reads back as exactly the datum it was written from: no digit,
\* decimal, byte, bit of an address or checksum symbol is lost, added or left from
\* the row before, and no function throws instead (to_string.c, segwit_addr.c,
\* apdu_pubkey.c:41-75, apdu_sign.c:110-125, 1098-1170).
RowTellsDatum == written => Says(active_value, row)

\* The text and its null fit the buffer, also where a function is given a size that
\* is not the size of what is left (apdu_sign.c:124).
RowFits == written => Len(active_value) <= VALUE_WIDTH
=============================================================================
