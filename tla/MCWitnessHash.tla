----------------------------- MODULE MCWitnessHash -----------------------------
(***************************************************************************)
(* Small messages for WitnessHash.  A signature and a key hash are two      *)
(* bytes long instead of 65 and 20; packets of every length up to the whole *)
(* message, so that every number and every field is cut at every place.     *)
(***************************************************************************)
EXTENDS WitnessHash

TransactionHash == <<100, 101>>

Message(ws, multi) == [witnesses |-> ws, multisig |-> multi]

\* Options of input_type and output_type, and witnesses of other inputs.
TypeFields == {<<>>, Bytes(<<>>), Bytes(<<5, 6>>)}
Others == {<<>>, << <<>>, <<7>> >>}

\* One signer: no lock, a blank signature, a lock of another length.
SignerLocks == {<<>>, Bytes(<<0, 0>>), Bytes(<<9, 9, 9>>)}

SignerMessages ==
    { Message(<<WitnessArgs(l, i, o)>> \o others, FALSE) :
        l \in SignerLocks, i \in TypeFields, o \in {<<>>, Bytes(<<8>>)}, others \in Others }

\* Multisig locks: 1 of 2 keys with two signatures, no keys, flags cut short.
Script(reserved) == <<reserved, 0, 1, 2>> \o <<11, 12>> \o <<21, 22>>
MultisigLocks ==
    { <<>>, Bytes(<<>>), Bytes(Script(0) \o Zeros(4)),
      Bytes(<<0, 0, 1, 0, 4>>), Bytes(<<0, 0>>) }

MultisigMessages ==
    { Message(<<WitnessArgs(l, types[1], types[2])>> \o others, TRUE) :
        l \in MultisigLocks, types \in { << <<>>, <<>> >>, <<Bytes(<<5, 6>>), Bytes(<<>>)>> },
        others \in {<<>>, << <<7>> >>} }

StandardMessages == SignerMessages \union MultisigMessages

\* First witnesses that are not a WitnessArgs: nothing, a header cut short, a
\* length that does not fill its field, offsets that run backwards, a lock that
\* never ends, a table that ends before the witness.
MalformedWitnesses ==
    { <<>>, <<1, 2, 3>>, SubSeq(WitnessArgs(<<>>, <<>>, <<>>), 1, 14),
      LE4(24) \o LE4(16) \o LE4(22) \o LE4(22) \o LE4(1) \o <<4, 5, 0>>,
      LE4(20) \o LE4(16) \o LE4(15) \o LE4(16) \o LE4(3) \o <<1, 2>>,
      LE4(30) \o LE4(16) \o LE4(30) \o LE4(30) \o LE4(10) \o <<0, 1>>,
      WitnessArgs(<<>>, <<>>, <<>>) \o <<1, 2>> }

\* A multisig script with a reserved byte that is not zero.
ReservedMessages ==
    { Message(<<WitnessArgs(Bytes(Script(3) \o Zeros(4)), <<>>, <<>>)>>, TRUE) }

MalformedMessages ==
    { Message(<<w>> \o others, multi) :
        w \in MalformedWitnesses, others \in {<<>>, << <<7>> >>}, multi \in BOOLEAN }
    \union ReservedMessages

AllMessages == StandardMessages \union MalformedMessages

\* ComputesSighash has a digest to say of each of these.
ASSUME SignableAssumption == \A m \in StandardMessages : Sighash!Signable(m)
===============================================================================
