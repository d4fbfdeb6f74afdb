------------------------------ MODULE WitnessHash ------------------------------
(***************************************************************************)
(* The digest of the witnesses, as the device computes it while they stream *)
(* in: BytesVec_parse and Bytes_parse of blockchain.h split the witnesses   *)
(* out of the packets, begin_witness .. finalize_witnesses of apdu_sign.c   *)
(* hash them, and the first witness goes through a WitnessArgs parser of    *)
(* its own whose callbacks rewrite the lock.                                *)
(*                                                                          *)
(* A packet may end anywhere, between two bytes of a number as well, so     *)
(* every parser below returns INCOMPLETE in the middle of its work and goes *)
(* on with the next packet.  The bytes are those of the message, the hash   *)
(* state is the sequence of the bytes hashed so far.                        *)
(***************************************************************************)
EXTENDS MoleculeEncoding, FiniteSets

CONSTANTS
    Messages,          \* the messages: [witnesses, multisig]
    transaction_hash,  \* the bytes of the hash of the raw transaction
    SignatureSize,     \* bytes of a recoverable signature, 65
    KeyHashSize,       \* bytes of a blake160 key hash, 20
    MaxPacket,         \* the most data bytes of a packet
    StaleBytes         \* what the buffer may hold behind the data of a packet

ASSUME MessagesAssumption ==
    \A m \in Messages : /\ m.witnesses \in Seq(Seq(Byte)) \ {<<>>}
                        /\ m.multisig \in BOOLEAN
ASSUME HashAssumption == transaction_hash \in Seq(Byte)
ASSUME SizesAssumption ==
    SignatureSize \in Nat /\ KeyHashSize \in Nat /\ MaxPacket \in Nat \ {0}
ASSUME StaleAssumption == StaleBytes \subseteq Byte /\ StaleBytes # {}

VARIABLES
    message,     \* what the host sends; multisig is G.signing_multisig_input
    packet,      \* data bytes of the packet not consumed yet
    at,          \* where the parser of the witnesses is
    item,        \* field_idx of BytesVec_state
    read,        \* bytes consumed of the length, then of the witness
    chunk,       \* what process_witness has not parsed yet of its bytes
    args,        \* the WitnessArgs_state kept in witness_stack
    tx,          \* the witness fields of G.u.tx
    hash,        \* the bytes hashed into G.hash_state
    final_hash,  \* the bytes of the digest, <<>> before it is known
    unsafe,      \* G.maybe_transaction.unsafe
    lock         \* history: the lock bytes hashed by the multisig callback

vars == <<message, packet, at, item, read, chunk, args, tx, hash, final_hash, unsafe, lock>>

-------------------------------------------------------------------------------
\* Positions of the parsers.

Fields == {"lock", "input_type", "output_type"}

\* "length" and "body" are the two halves of Bytes_parse, "more" waits for the
\* rest of the body, "parse" is inside process_witness for the first witness.
Positions == {"index", "length", "body", "more", "parse", "end", "finalize", "done"}

ArgsPositions == {"total_size", "offset", "length", "body", "complete"}

\* Init of MolReader_WitnessArgs.
ArgsStart ==
    [at |-> "total_size", field |-> "lock", num |-> <<>>, total_size |-> 0,
     offset |-> [f \in Fields |-> 0], length |-> 0, seen |-> 0]

NextField(f) == IF f = "lock" THEN "input_type" ELSE "output_type"

\* The size a field has by the offsets, as the callers of BytesOpt_parse compute it.
FieldSize(f) ==
    (IF f = "output_type" THEN args.total_size ELSE args.offset[NextField(f)]) - args.offset[f]

Witness == message.witnesses[item + 1]

\* copy of Bytes_parse: the unsigned minimum of what is needed and what is there.
Copy(needed, available) ==
    IF 0 <= needed /\ needed < available THEN needed ELSE available

-------------------------------------------------------------------------------
Init ==
    /\ message \in Messages
    /\ packet \in 0 .. MaxPacket
    /\ at = "index"
    /\ item = 0
    /\ read = 0
    /\ chunk = <<>>
    /\ args = ArgsStart
    /\ tx = [first |-> FALSE, done |-> FALSE, threshold |-> 0, pubkeys_cnt |-> 0, consumed |-> 0]
    /\ hash = <<>>
    /\ final_hash = <<>>
    /\ unsafe = FALSE
    /\ lock = <<>>

(***************************************************************************)
(* The vector of witnesses.                                                 *)
(***************************************************************************)

\* A parser has returned INCOMPLETE and the host sends the next packet.
NewPacket ==
    /\ at \in {"length", "more"}
    /\ packet = 0
    /\ packet' \in 1 .. MaxPacket
    /\ at' = IF at = "more" THEN "body" ELSE at
    /\ UNCHANGED <<message, item, read, chunk, args, tx, hash, final_hash, unsafe, lock>>

\* begin_witness, called before each witness and once more after the last one.
BeginWitness ==
    /\ at = "index"
    /\ at' = IF item < Len(message.witnesses) THEN "length" ELSE "finalize"
    /\ read' = 0
    /\ IF item = 0
       THEN /\ tx' = [tx EXCEPT !.first = TRUE, !.threshold = 0, !.pubkeys_cnt = 0, !.consumed = 0]
            /\ hash' = transaction_hash
            /\ args' = ArgsStart
            /\ lock' = <<>>
       ELSE /\ tx' = [tx EXCEPT !.first = FALSE]
            /\ UNCHANGED <<hash, args, lock>>
    /\ UNCHANGED <<message, packet, item, chunk, final_hash, unsafe>>

\* The count of the content starts anew behind the length.
BodyStart_AfterLength == 4
BodyStart == 0

\* The length prefix: hash_witness_length adds it, unless it is the first
\* witness, whose length witness_offsets or process_witness_end hashes.
WitnessLength ==
    LET n == Copy(4 - read, packet)
    IN /\ at = "length"
       /\ packet > 0
       /\ packet' = packet - n
       /\ IF read + n = 4
          THEN /\ at' = IF Len(Witness) = 0 THEN "end" ELSE "body"
               /\ read' = BodyStart
               /\ hash' = IF tx.first THEN hash ELSE hash \o LE8(Len(Witness))
          ELSE /\ read' = read + n
               /\ UNCHANGED <<at, hash>>
       /\ UNCHANGED <<message, item, chunk, args, tx, final_hash, unsafe, lock>>

\* process_witness on what the packet holds of the witness, which may be
\* nothing when the packet ended with the length.
ProcessWitness ==
    LET n == Copy(Len(Witness) - read, packet)
        buff == SubSeq(Witness, read + 1, read + n)
    IN /\ at = "body"
       /\ packet' = packet - n
       /\ read' = read + n
       /\ IF tx.first
          THEN /\ chunk' = buff
               /\ at' = "parse"
               /\ UNCHANGED hash
          ELSE /\ hash' = hash \o buff
               /\ at' = IF read' = Len(Witness) THEN "end" ELSE "more"
               /\ UNCHANGED chunk
       /\ UNCHANGED <<message, item, args, tx, final_hash, unsafe, lock>>

\* Bytes_parse after its callback: DONE or INCOMPLETE.
AfterChunk_Incomplete == "more"
AfterChunk == IF read = Len(Witness) THEN "end" ELSE "more"

\* The parser of the first witness has returned; the rest of the bytes it was
\* given is dropped, and whether it rejected them is not looked at.
Return ==
    /\ chunk' = <<>>
    /\ at' = AfterChunk

\* The hash with the standard witness, self_witness, as the first.
SelfWitness == WitnessArgs(Bytes(Zeros(SignatureSize)), <<>>, <<>>)
RestartedHash_Appends == hash \o LE8(Len(SelfWitness)) \o SelfWitness
RestartedHash == transaction_hash \o LE8(Len(SelfWitness)) \o SelfWitness

\* process_witness_end: a first witness that never parsed is taken for the
\* standard one, and the hash starts again.
ProcessWitnessEnd ==
    /\ at = "end"
    /\ at' = "index"
    /\ item' = item + 1
    /\ IF tx.first /\ ~tx.done
       THEN /\ tx' = [tx EXCEPT !.done = TRUE]
            /\ hash' = RestartedHash
       ELSE UNCHANGED <<tx, hash>>
    /\ UNCHANGED <<message, packet, read, chunk, args, final_hash, unsafe, lock>>

FinalizeWitnesses ==
    /\ at = "finalize"
    /\ at' = "done"
    /\ final_hash' = hash
    /\ UNCHANGED <<message, packet, item, read, chunk, args, tx, hash, unsafe, lock>>

(***************************************************************************)
(* WitnessArgs_parse on the first witness.                                  *)
(***************************************************************************)

\* mol_parse_num: the bytes of the number so far, whether it is whole, its
\* value, and what follows it.
NumBytes == args.num \o chunk
NumComplete == Len(NumBytes) >= 4
NumValue == Num(SubSeq(NumBytes, 1, 4))
AfterNum == SubSeq(NumBytes, 5, Len(NumBytes))
NumTaken == SubSeq(chunk, 1, Copy(4 - Len(args.num), Len(chunk)))

\* The chunk callbacks of input_type and output_type hash what passes.
HashField(bytes) == IF args.field = "lock" THEN hash ELSE hash \o bytes

\* An option of size 0 has no length to read.
Absent == args.at = "length" /\ FieldSize(args.field) = 0

\* A number stops at the end of the chunk: INCOMPLETE.
NumKept_ChunkOnly == chunk
NumKept == NumBytes

NumIncomplete ==
    /\ at = "parse"
    /\ args.at \in {"total_size", "offset", "length"}
    /\ ~Absent
    /\ ~NumComplete
    /\ args' = [args EXCEPT !.num = NumKept]
    /\ hash' = IF args.at = "length" THEN HashField(chunk) ELSE hash
    /\ Return
    /\ UNCHANGED <<message, packet, item, read, tx, final_hash, unsafe, lock>>

ParseTotalSize ==
    /\ at = "parse"
    /\ args.at = "total_size"
    /\ NumComplete
    /\ args' = [args EXCEPT !.at = "offset", !.total_size = NumValue, !.num = <<>>]
    /\ chunk' = AfterNum
    /\ UNCHANGED <<message, packet, at, item, read, tx, hash, final_hash, unsafe, lock>>

\* witness_offsets: the header is hashed as it came for a multisig, and for one
\* signer as if the lock were a blank signature, which is hashed right away.
HashedHeader(total_size, offset) ==
    LET shift == 4 + SignatureSize - (offset["input_type"] - offset["lock"])
        header(by) == LE4(total_size + by) \o LE4(offset["lock"])
                        \o LE4(offset["input_type"] + by) \o LE4(offset["output_type"] + by)
    IN IF message.multisig
       THEN LE8(total_size) \o header(0)
       ELSE LE8(total_size + shift) \o header(shift) \o Bytes(Zeros(SignatureSize))

ParseOffset ==
    LET offset == [args.offset EXCEPT ![args.field] = NumValue]
    IN /\ at = "parse"
       /\ args.at = "offset"
       /\ NumComplete
       /\ IF args.field = "output_type"
          THEN /\ args' = [args EXCEPT !.at = "length", !.field = "lock", !.offset = offset,
                                       !.num = <<>>, !.seen = 0]
               /\ hash' = hash \o HashedHeader(args.total_size, offset)
          ELSE /\ args' = [args EXCEPT !.field = NextField(args.field), !.offset = offset,
                                       !.num = <<>>]
               /\ UNCHANGED hash
       /\ chunk' = AfterNum
       /\ UNCHANGED <<message, packet, at, item, read, tx, final_hash, unsafe, lock>>

\* A field is done: the next one, or COMPLETE and first_witness_done.
FieldDone(rest) ==
    IF args.field = "output_type"
    THEN /\ args' = [args EXCEPT !.at = "complete"]
         /\ tx' = [tx EXCEPT !.done = TRUE]
         /\ Return
    ELSE /\ args' = [args EXCEPT !.at = "length", !.field = NextField(args.field),
                                 !.num = <<>>, !.seen = 0]
         /\ chunk' = rest
         /\ UNCHANGED <<at, tx>>

ParseAbsentField ==
    /\ at = "parse"
    /\ Absent
    /\ FieldDone(chunk)
    /\ UNCHANGED <<message, packet, item, read, hash, final_hash, unsafe, lock>>

\* The length of a field has to fill the field, unless the size says nothing
\* (MOL_NUM_MAX) or the length wraps.  The parser has moved on to the body
\* already when it rejects.
LengthFits(length, size) ==
    /\ length \notin -4 .. -1
    /\ size # -1 => length + 4 = size

\* Bytes_parse reads the length; witness_lock_arg_size hashes that of a multisig lock.
ParseFieldLength ==
    /\ at = "parse"
    /\ args.at = "length"
    /\ ~Absent
    /\ NumComplete
    /\ args' = [args EXCEPT !.at = "body", !.length = NumValue]
    /\ IF LengthFits(NumValue, FieldSize(args.field))
       THEN /\ hash' = IF args.field = "lock" /\ message.multisig THEN hash \o LE4(NumValue)
                       ELSE HashField(NumTaken)
            /\ chunk' = AfterNum
            /\ UNCHANGED at
       ELSE /\ hash' = HashField(NumTaken)
            /\ Return
    /\ UNCHANGED <<message, packet, item, read, tx, final_hash, unsafe, lock>>

\* multisig_script_len: the flags and the key hashes.
ScriptLength_NoFlags(pubkeys_cnt) == KeyHashSize * pubkeys_cnt
ScriptLength(pubkeys_cnt) == 4 + KeyHashSize * pubkeys_cnt

\* The signatures of the chunk are zeroed when they start inside it.  The start
\* is computed in a size_t, so a chunk behind the script zeroes nothing.
ZeroSignatures(buf, pubkeys_cnt, consumed) ==
    LET signatures_start == ScriptLength(pubkeys_cnt) - consumed
    IN IF pubkeys_cnt > 0 /\ signatures_start > 0 /\ Len(buf) > signatures_start
       THEN [i \in 1 .. Len(buf) |-> IF i > signatures_start THEN 0 ELSE buf[i]]
       ELSE buf

\* Which flags have not been consumed by the earlier chunks.
ReservedAhead_WholeFlags(buf) == tx.consumed = 0 /\ Len(buf) >= 4
ReservedAhead(buf) == tx.consumed = 0
ThresholdAhead_FirstChunk == tx.consumed = 0
ThresholdAhead == tx.consumed < 3

\* witness_lock_arg_body_chunk: takes the threshold and the number of keys from
\* the flags, in whatever chunk they are, and hashes the chunk.  It indexes buf
\* without looking at its length: behind it lies what an earlier packet left.
LockBodyChunk(buf) ==
    \E stale \in [{i \in 0 .. 3 : i >= Len(buf)} -> StaleBytes] :
        LET flag(i) == IF i < Len(buf) THEN buf[i + 1] ELSE stale[i]
            consumed == tx.consumed
            pubkeys_cnt == IF consumed < 4 THEN flag(3 - consumed) ELSE tx.pubkeys_cnt
            zeroed == ZeroSignatures(buf, pubkeys_cnt, consumed)
        IN IF ReservedAhead(buf) /\ flag(0) # 0
           THEN /\ unsafe' = TRUE
                /\ UNCHANGED <<tx, hash, lock>>
           ELSE /\ tx' = [tx EXCEPT !.threshold = IF ThresholdAhead THEN flag(2 - consumed) ELSE @,
                                    !.pubkeys_cnt = pubkeys_cnt,
                                    !.consumed = consumed + Len(buf)]
                /\ hash' = hash \o zeroed
                /\ lock' = lock \o zeroed
                /\ UNCHANGED unsafe

\* Bytes_parse reads the content.  The callback comes first, then the next field
\* or, when the chunk ends inside the content, INCOMPLETE.
NeededOfField == args.length - args.seen
FieldChunk == SubSeq(chunk, 1, Copy(NeededOfField, Len(chunk)))

ParseLockBody ==
    /\ at = "parse"
    /\ args.at = "body"
    /\ args.field = "lock"
    /\ IF message.multisig /\ NeededOfField # 0
       THEN LockBodyChunk(FieldChunk)
       ELSE UNCHANGED <<tx, hash, unsafe, lock>>
    /\ IF Len(FieldChunk) = NeededOfField
       THEN /\ args' = [args EXCEPT !.at = "length", !.field = "input_type", !.num = <<>>, !.seen = 0]
            /\ chunk' = SubSeq(chunk, Len(FieldChunk) + 1, Len(chunk))
            /\ UNCHANGED at
       ELSE /\ args' = [args EXCEPT !.seen = @ + Len(FieldChunk)]
            /\ Return
    /\ UNCHANGED <<message, packet, item, read, final_hash>>

ParseTypeBody ==
    /\ at = "parse"
    /\ args.at = "body"
    /\ args.field # "lock"
    /\ hash' = hash \o FieldChunk
    /\ IF Len(FieldChunk) = NeededOfField
       THEN FieldDone(SubSeq(chunk, Len(FieldChunk) + 1, Len(chunk)))
       ELSE /\ args' = [args EXCEPT !.seen = @ + Len(FieldChunk)]
            /\ UNCHANGED tx
            /\ Return
    /\ UNCHANGED <<message, packet, item, read, final_hash, unsafe, lock>>

\* The parser was complete before the witness was: it says so again.
ParseComplete ==
    /\ at = "parse"
    /\ args.at = "complete"
    /\ tx' = [tx EXCEPT !.done = TRUE]
    /\ Return
    /\ UNCHANGED <<message, packet, item, read, args, hash, final_hash, unsafe, lock>>

-------------------------------------------------------------------------------
ParseFirstWitness ==
    \/ NumIncomplete \/ ParseTotalSize \/ ParseOffset
    \/ ParseAbsentField \/ ParseFieldLength
    \/ ParseLockBody \/ ParseTypeBody \/ ParseComplete

Device ==
    \/ BeginWitness \/ WitnessLength \/ ProcessWitness
    \/ ProcessWitnessEnd \/ FinalizeWitnesses
    \/ ParseFirstWitness

Next == Device \/ NewPacket

Spec == Init /\ [][Next]_vars

\* The parser runs to the end of what it has; the host sends what is missing.
FairSpec == Spec /\ WF_vars(Device) /\ WF_vars(NewPacket)

-------------------------------------------------------------------------------
\* Properties.

\* The witness fields of G.u.tx: unsigned bytes, and what has been consumed.
Witnesses ==
    [first : BOOLEAN, done : BOOLEAN, threshold : Byte, pubkeys_cnt : Byte, consumed : Nat]

ArgsStates ==
    [at : ArgsPositions, field : Fields, num : Seq(Byte), total_size : Int,
     offset : [Fields -> Int], length : Int, seen : Nat]

\* Every variable keeps its type: the flags a multisig lock gives stay bytes
\* although they may come from behind the packet, and what is hashed are bytes.
TypeOK ==
    /\ message \in Messages
    /\ packet \in 0 .. MaxPacket
    /\ at \in Positions
    /\ item \in 0 .. Len(message.witnesses)
    /\ at \in {"length", "body", "more", "parse", "end"} => item < Len(message.witnesses)
    /\ read \in Nat
    /\ at \in {"body", "more", "parse", "end"} => read <= Len(Witness)
    /\ at = "length" => read < 4
    /\ chunk \in Seq(Byte)
    /\ args \in ArgsStates
    /\ tx \in Witnesses
    /\ hash \in Seq(Byte)
    /\ final_hash \in Seq(Byte)
    /\ unsafe \in BOOLEAN
    /\ lock \in Seq(Byte)

\* However the packets cut the multisig script, once its four flags have been
\* hashed the threshold and the number of keys are the bytes that were hashed as
\* R|M|N, although witness_lock_arg_body_chunk indexes its buffer without
\* looking at its length and first takes bytes from behind the packet.
ScriptParameters ==
    /\ tx.consumed = Len(lock)
    /\ tx.consumed >= 3 => tx.threshold = lock[3]
    /\ tx.consumed >= 4 => tx.pubkeys_cnt = lock[4]

\* The first witness of a message that is a whole WitnessArgs.
WholeFirstWitness == IsWitnessArgs(message.witnesses[1])

\* A reserved byte that is not zero has been seen when the witnesses are done.
ReservedSeen ==
    at = "done" /\ message.multisig /\ WholeFirstWitness /\ Len(Lock(message.witnesses[1])) > 4
        => (Lock(message.witnesses[1])[5] # 0 => unsafe)

-------------------------------------------------------------------------------
\* The digest the chain computes of the message.
Sighash == INSTANCE WitnessDigest WITH digest <- final_hash

\* However the packets cut the message, process_witness and its callbacks come
\* to one digest, at the end, and if the message is one that clients send, to the
\* one the chain computes: WitnessHash implements WitnessDigest.
ComputesSighash == Sighash!Spec

\* When the parser of the first witness has not completed, what it has hashed is
\* gone: the digest is that of the standard witness, as process_witness_end
\* says, followed by the other witnesses untouched.
StandardDigest == Sighash!DigestWith(message, Sighash!StandardWitness)
IncompleteIsStandard ==
    at = "done" /\ args.at # "complete" => final_hash = StandardDigest

\* The device comes to a digest whatever the first witness holds, if the host
\* sends all of the message.
DigestComes == <>(at = "done")
===============================================================================
