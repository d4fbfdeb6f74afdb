----------------------------- MODULE WitnessDigest -----------------------------
(***************************************************************************)
(* The digest the device signs, as the lock scripts of the chain compute it *)
(* and as checkSignature of tests/hooks.js recomputes it: the transaction   *)
(* hash, then every witness behind its length, the first one with a blank   *)
(* signature.  Nothing here knows of packets.                               *)
(***************************************************************************)
EXTENDS MoleculeEncoding

CONSTANTS
    Messages,          \* the messages: [witnesses, multisig]
    transaction_hash,  \* the bytes of the hash of the raw transaction
    SignatureSize,     \* bytes of a recoverable signature, 65
    KeyHashSize        \* bytes of a blake160 key hash, 20

VARIABLES message, digest

-------------------------------------------------------------------------------
\* The witness of one signer who attaches nothing else: 0x55 bytes on the device.
StandardWitness == WitnessArgs(Bytes(Zeros(SignatureSize)), <<>>, <<>>)

\* The script of a multisig lock ends after its four flags and the N key hashes.
ScriptLength(lock) == 4 + KeyHashSize * lock[4]

\* The lock with its signatures blank: all of it for one signer, what follows
\* the script for a multisig.
BlankLock(lock, multisig) ==
    IF ~multisig THEN Zeros(SignatureSize)
    ELSE IF Len(lock) < 4 \/ lock[4] = 0 THEN lock
    ELSE [i \in 1 .. Len(lock) |-> IF i > ScriptLength(lock) THEN 0 ELSE lock[i]]

\* A multisig witness keeps an absent lock absent; one signer's gets one.
BlankField(field, multisig) ==
    IF multisig /\ field = <<>> THEN <<>>
    ELSE Bytes(BlankLock(Slice(field, 4, Len(field)), multisig))

BlankWitness(w, multisig) ==
    IF IsWitnessArgs(w)
    THEN WitnessArgs(BlankField(Lock(w), multisig), InputType(w), OutputType(w))
    ELSE StandardWitness

Framed(w) == LE8(Len(w)) \o w

\* The digest when the first witness is read as w.
DigestWith(m, w) ==
    transaction_hash \o Framed(w)
      \o FlattenSeq([i \in 1 .. Len(m.witnesses) - 1 |-> Framed(m.witnesses[i + 1])])

Sighash(m) == DigestWith(m, BlankWitness(m.witnesses[1], m.multisig))

\* The messages for which the device signs that digest: a first witness that is
\* whole, and for a multisig one whose reserved byte is zero and whose signatures
\* are blank, as clients send it, since only the chunk in which the script ends is
\* zeroed.  Of any other message there is some digest.
Signable(m) ==
    LET w == m.witnesses[1]
        content == Slice(Lock(w), 4, Len(Lock(w)))
    IN  /\ IsWitnessArgs(w)
        /\ m.multisig => /\ content # <<>> => content[1] = 0
                         /\ BlankLock(content, TRUE) = content

-------------------------------------------------------------------------------
NoDigest == <<>>

Init == message \in Messages /\ digest = NoDigest

Finish ==
    /\ digest = NoDigest
    /\ digest' \in IF Signable(message) THEN {Sighash(message)} ELSE Seq(Byte)
    /\ UNCHANGED message

Next == Finish

Spec == Init /\ [][Next]_<<message, digest>>
===============================================================================
