--------------------------- MODULE MCTransactionHash ---------------------------
(***************************************************************************)
(* Small annotated transactions, read by MoleculeReader with the callbacks  *)
(* of TransactionHash: sources with and without outputs, one and two        *)
(* inputs, a wrong count of inputs, a path that is too long.                *)
(***************************************************************************)
EXTENDS MoleculeReader, MoleculeValues, TransactionHash

since == <<1, 0, 0, 0, 0, 0, 0, 8>>
index == <<1, 0, 0, 0>>
script == << <<3, 4>>, <<1>>, <<5>> >>
output == << <<9, 0, 0, 0, 0, 0, 0, 0>>, script, <<>> >>
dep == << << <<1, 2>>, index >>, <<1>> >>
version == <<0, 0, 0, 0>>

\* A source: a RawTransaction with some inputs, outputs and data.
source(inputs, outputs, datas) == <<version, <<>>, << <<6, 6>> >>, inputs, outputs, datas>>
spent == <<since, << <<8, 8>>, index>> >>

Sources ==
    << source(<<spent>>, <<output>>, << <<2>> >>),
       source(<<spent>>, <<>>, << <<>> >>),
       source(<<>>, <<>>, <<>>) >>
SourceBytes == [i \in DOMAIN Sources |-> Encode("RawTransaction", Sources[i])]

\* A digest of two bytes: which source it is, if it is one.
SmallDigest(bytes) ==
    IF \E i \in DOMAIN Sources : SourceBytes[i] = bytes
    THEN <<100, CHOOSE i \in DOMAIN Sources : SourceBytes[i] = bytes>>
    ELSE <<0, 0>>

\* An input: what the host claims the hash of the source is does not count.
input(i) == << <<since, << <<77, 77>>, index>> >>, Sources[i]>>

Transaction(path, count, inputs, deps, outputs) ==
    <<path, path, LE4(count), <<version, deps, <<>>, inputs, outputs, << <<1>> >> >>, << <<>> >> >>

Transactions ==
    { Transaction(<<index>>, 1, <<input(1)>>, <<dep>>, <<output>>),
      Transaction(<<index>>, 2, <<input(3), input(2)>>, <<>>, <<>>),
      Transaction(<<>>, 2, <<input(3)>>, <<>>, <<>>),
      Transaction(<<index, index>>, 1, <<input(3)>>, <<>>, <<>>) }

\* The RawTransaction of the network: the inputs without their sources.
Plain(raw) ==
    [raw EXCEPT ![4] = [i \in DOMAIN raw[4] |->
        << raw[4][i][1][1],
           << Digest(Encode("RawTransaction", raw[4][i][2])), raw[4][i][1][2][2] >> >>]]

AnnotatedMessages ==
    { [type |-> "AnnotatedTransaction", bytes |-> Encode("AnnotatedTransaction", t),
       standard |-> Encode("RawTransaction", Plain(t[4])),
       honest |-> Num(t[3]) = Len(t[4][4]) /\ Len(t[1]) * 4 <= PathWidth] : t \in Transactions }

-------------------------------------------------------------------------------
Ended == rv # "PARSING" /\ (rv # "INCOMPLETE" \/ received = Len(message.bytes))

\* What the device signs the hash of is the encoding the network hashes, though
\* the device is never sent it: with the offsets of a RawTransaction and with
\* the digest of the source actually sent in every input, whatever the packets.
\* The only other outcome is a refusal.
HashIsOfStandardEncoding ==
    /\ message.honest => IsPrefix(client.hash_state, message.standard)
    /\ client.transaction_hash # <<>> /\ ~client.hard_reject =>
         client.transaction_hash = message.standard
    /\ Ended /\ ~client.hard_reject => rv = "COMPLETE" /\ client.transaction_hash # <<>>

\* A transaction that says how many inputs it has, with a path that fits, is
\* not refused; any other one is.
RefusesWrongCount == Ended => (client.hard_reject <=> ~message.honest)
===============================================================================
