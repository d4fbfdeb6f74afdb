----------------------------- MODULE TransactionHash -----------------------------
(***************************************************************************)
(* The callbacks of apdu_sign.c that compute the hash of the transaction    *)
(* while its annotated encoding streams in: a client of MoleculeReader.     *)
(*                                                                          *)
(* In an AnnotatedRawTransaction every input carries the transaction whose  *)
(* output it spends.  The network knows the hash of the RawTransaction      *)
(* without these sources, whose inputs are <<since, hash of the source,     *)
(* index>>; so the device hashes an encoding it never sees: offsets moved   *)
(* by what the sources take, the bytes of most fields as they come, and for *)
(* an input the digest of its source instead of the source.                 *)
(***************************************************************************)
EXTENDS MoleculeSchema, MoleculeEncoding

CONSTANTS
    Digest(_),       \* blake2b of some bytes, HashWidth bytes
    PathWidth        \* bytes of G.u.temp_key.components

\* hash_state and input_state are the bytes hashed so far; transaction_hash is
\* what was hashed when the digest was taken, <<>> before.
hash_init ==
    [input_count |-> 0, hash_state |-> <<>>, index |-> <<0, 0, 0, 0>>, input_state |-> <<>>,
     transaction_hash |-> <<>>, hard_reject |-> FALSE]

Raw(field) == <<"raw", field>>
Input == <<"raw", "inputs", "item">>

-------------------------------------------------------------------------------
blake2b_chunk(g, bytes) == [g EXCEPT !.hash_state = @ \o bytes]

set_input_count(g, bytes) == [g EXCEPT !.input_count = Num(bytes)]

\* In the order they are hashed; the sources are in front of outputs and
\* outputs_data.
MovedOffsets_DataStays(s, to_subtract) ==
    <<s[1] - to_subtract, s[2], s[3], s[4], s[5], s[6] - to_subtract, s[7]>>
MovedOffsets(s, to_subtract) ==
    <<s[1] - to_subtract, s[2], s[3], s[4], s[5], s[6] - to_subtract, s[7] - to_subtract>>

\* s is the total size and the offsets of version, cell_deps, header_deps,
\* inputs, outputs and outputs_data.
computeNewOffsetsToHash(g, s) ==
    LET to_subtract == s[6] - s[5] - (CellInputWidth * g.input_count + 4)
        offsets == MovedOffsets(s, to_subtract)
    IN blake2b_chunk(g, FlattenSeq([i \in DOMAIN offsets |-> LE4(offsets[i])]))

blake2b_input_count_Unchecked(g, length) == blake2b_chunk(g, LE4(g.input_count))
blake2b_input_count(g, length) ==
    IF length # g.input_count THEN [g EXCEPT !.hard_reject = TRUE]
    ELSE blake2b_chunk(g, LE4(g.input_count))

input_start(g) == [g EXCEPT !.index = hash_init.index, !.input_state = <<>>]

input_save_index(g, bytes) == [g EXCEPT !.index = bytes]

context_blake2b_chunk(g, bytes) == [g EXCEPT !.input_state = @ \o bytes]

finish_context_txn(g) == input_start(blake2b_chunk(g, Digest(g.input_state) \o g.index))

finalize_raw_transaction(g) == [g EXCEPT !.transaction_hash = g.hash_state, !.hash_state = <<>>]

\* A path longer than the key path holds is refused by its size callback.
init_bip32(size) == 4 <= size /\ size - 4 <= PathWidth

-------------------------------------------------------------------------------
\* annotatedTransaction_callbacks, AnnotatedRawTransaction_callbacks and
\* annotatedCellInput_callbacks: which function is called for which field.
OnCall(g, c) ==
    CASE c.call = "chunk" /\ c.path \in {Raw("cell_deps"), Raw("header_deps"),
                                         Raw("outputs"), Raw("outputs_data")} ->
           blake2b_chunk(g, c.arg)
      [] c.call = "end" /\ c.path \in {Raw("version"), Input \o <<"input", "since">>} ->
           blake2b_chunk(g, c.arg)
      [] c.call = "end" /\ c.path = <<"inputCount">> -> set_input_count(g, c.arg)
      [] c.call = "offsets" /\ c.path = <<"raw">> -> computeNewOffsetsToHash(g, c.arg)
      [] c.call = "length" /\ c.path = Raw("inputs") -> blake2b_input_count(g, c.arg[1])
      [] c.call = "start" /\ c.path = Input -> input_start(g)
      [] c.call = "end" /\ c.path = Input \o <<"input", "previous_output", "index">> ->
           input_save_index(g, c.arg)
      [] c.call = "chunk" /\ c.path = Input \o <<"source">> -> context_blake2b_chunk(g, c.arg)
      [] c.call = "end" /\ c.path = Input \o <<"source">> -> finish_context_txn(g)
      [] c.call = "end" /\ c.path = <<"raw">> -> finalize_raw_transaction(g)
      [] c.call = "size" /\ c.path \in {<<"signPath">>, <<"changePath">>} ->
           [g EXCEPT !.hard_reject = @ \/ ~init_bip32(c.arg[1])]
      [] OTHER -> g

AcceptsSize(g, c) == c.path \in {<<"signPath">>, <<"changePath">>} => init_bip32(c.arg[1])
===============================================================================
