--------------------------- MODULE WitnessHashProofs ---------------------------
(***************************************************************************)
(* Proofs about WitnessHash, for all messages, signature and hash sizes,    *)
(* packet lengths and contents of the buffer behind a packet: the types,    *)
(* that the parameters of a multisig script are those that were hashed and  *)
(* its reserved byte was looked at, and that the digest is the one of       *)
(* WitnessDigest, or that of the standard witness.                          *)
(***************************************************************************)
EXTENDS WitnessHash, SequenceTheorems, WellFoundedInduction, TLAPS

-------------------------------------------------------------------------------
(* Bytes.                                                                  *)

LEMMA ByteInt == \A x \in Byte : x \in Int
  BY SMT DEF Byte

LEMMA LE4Bytes ==
    ASSUME NEW n \in Int
    PROVE  LE4(n) \in Seq(Byte)
  <1>1. /\ n % 256 \in Byte
        /\ (n \div 256) % 256 \in Byte
        /\ (n \div 65536) % 256 \in Byte
        /\ (n \div 16777216) % 256 \in Byte
    BY SMT DEF Byte
  <1>2. QED
    BY <1>1, SMT DEF LE4

LEMMA LE8Bytes ==
    ASSUME NEW n \in Int
    PROVE  LE8(n) \in Seq(Byte)
  <1>1. LE4(n) \in Seq(Byte)
    BY LE4Bytes
  <1>2. <<0, 0, 0, 0>> \in Seq(Byte)
    BY SMT DEF Byte
  <1>3. QED
    BY <1>1, <1>2, ConcatProperties DEF LE8

LEMMA NumInt ==
    ASSUME NEW b \in Seq(Byte), Len(b) >= 4
    PROVE  Num(b) \in Int
  <1>1. 1 \in 1 .. Len(b) /\ 2 \in 1 .. Len(b) /\ 3 \in 1 .. Len(b) /\ 4 \in 1 .. Len(b)
    BY LenProperties, SMT
  <1>2. b[1] \in Int /\ b[2] \in Int /\ b[3] \in Int /\ b[4] \in Int
    <2>1. b[1] \in Byte /\ b[2] \in Byte /\ b[3] \in Byte /\ b[4] \in Byte
      BY <1>1, ElementOfSeq
    <2>2. QED
      BY <2>1, ByteInt
  <1>3. (IF b[4] < 128 THEN b[4] ELSE b[4] - 256) \in Int
    BY <1>2, SMT
  <1>4. PICK p, q, r, t : /\ p = b[1] /\ q = b[2] /\ r = b[3]
                          /\ t = IF b[4] < 128 THEN b[4] ELSE b[4] - 256
    OBVIOUS
  <1>5. Num(b) = p + 256 * q + 65536 * r + 16777216 * t
    BY ONLY <1>4, SMTT(30) DEF Num
  <1>6. p \in Int /\ q \in Int /\ r \in Int /\ t \in Int
    BY <1>2, <1>3, <1>4, Zenon
  <1>7. p + 256 * q + 65536 * r + 16777216 * t \in Int
    BY ONLY <1>6, SMTT(30)
  <1>8. QED
    BY ONLY <1>5, <1>7, SMTT(30)

LEMMA ZerosBytes ==
    ASSUME NEW n \in Nat
    PROVE  Zeros(n) \in Seq(Byte) /\ Len(Zeros(n)) = n
  <1>1. Zeros(n) \in [1 .. n -> Byte]
    BY SMT DEF Zeros, Byte
  <1>2. QED
    BY <1>1, SMT

LEMMA BytesBytes ==
    ASSUME NEW content \in Seq(Byte)
    PROVE  Bytes(content) \in Seq(Byte)
  <1>1. LE4(Len(content)) \in Seq(Byte)
    BY LE4Bytes, LenProperties, SMT
  <1>2. QED
    BY <1>1, ConcatProperties DEF Bytes

LEMMA CopyBounds ==
    ASSUME NEW needed \in Int, NEW available \in Nat
    PROVE  Copy(needed, available) \in 0 .. available
  BY SMT DEF Copy

LEMMA SubSeqBytes ==
    ASSUME NEW b \in Seq(Byte), NEW m \in Int, NEW n \in Int, m >= 1, n <= Len(b)
    PROVE  SubSeq(b, m, n) \in Seq(Byte)
  BY SMT
LEMMA StandardBytes ==
    ASSUME NEW total \in Int, NEW a \in Int, NEW b \in Int, NEW c \in Int
    PROVE  LE4(total) \o LE4(a) \o LE4(b) \o LE4(c) \in Seq(Byte)
  BY LE4Bytes, ConcatProperties

LEMMA WitnessArgsBytes ==
    ASSUME NEW l \in Seq(Byte), NEW i \in Seq(Byte), NEW o \in Seq(Byte)
    PROVE  WitnessArgs(l, i, o) \in Seq(Byte)
  <1>1. Len(l) \in Int /\ Len(i) \in Int /\ Len(o) \in Int
    BY LenProperties, SMT
  <1> DEFINE header == LE4(16 + Len(l) + Len(i) + Len(o)) \o LE4(16)
                         \o LE4(16 + Len(l)) \o LE4(16 + Len(l) + Len(i))
  <1>2. header \in Seq(Byte)
    <2>1. 16 + Len(l) + Len(i) + Len(o) \in Int /\ 16 + Len(l) \in Int
            /\ 16 + Len(l) + Len(i) \in Int /\ 16 \in Int
      BY <1>1, SMT
    <2>2. QED
      BY <2>1, StandardBytes
  <1>3. WitnessArgs(l, i, o) = header \o l \o i \o o
    BY DEF WitnessArgs
  <1> HIDE DEF header
  <1>4. QED
    BY <1>2, <1>3, ConcatProperties

LEMMA ZeroSignaturesBytes ==
    ASSUME NEW buf \in Seq(Byte), NEW cnt \in Byte, NEW consumed \in Nat
    PROVE  LET zeroed == ZeroSignatures(buf, cnt, consumed)
           IN /\ zeroed \in Seq(Byte)
              /\ Len(zeroed) = Len(buf)
              /\ \A i \in 1 .. Len(buf) : i + consumed <= 4 => zeroed[i] = buf[i]
  <1> DEFINE start == ScriptLength(cnt) - consumed
             blank == [i \in 1 .. Len(buf) |-> IF i > start THEN 0 ELSE buf[i]]
  <1>1. KeyHashSize * cnt \in Nat
    BY SizesAssumption, SMT DEF Byte
  <1>2. Len(buf) \in Nat /\ buf \in [1 .. Len(buf) -> Byte]
    BY LenProperties
  <1>3. blank \in [1 .. Len(buf) -> Byte]
    BY <1>2, SMT DEF Byte
  <1>4. blank \in Seq(Byte) /\ Len(blank) = Len(buf)
    BY <1>2, <1>3, SMT
  <1>5. \A i \in 1 .. Len(buf) : i + consumed <= 4 => blank[i] = buf[i]
    BY <1>1, <1>2, SMT DEF ScriptLength
  <1>6. ZeroSignatures(buf, cnt, consumed) \in {blank, buf}
    BY DEF ZeroSignatures
  <1> HIDE DEF blank, start
  <1>7. QED
    BY <1>4, <1>5, <1>6

LEMMA HashedHeaderBytes ==
    ASSUME TypeOK, NEW total \in Int, NEW offset \in [Fields -> Int]
    PROVE  HashedHeader(total, offset) \in Seq(Byte)
  <1> DEFINE shift == 4 + SignatureSize - (offset["input_type"] - offset["lock"])
             header(by) == LE4(total + by) \o LE4(offset["lock"])
                             \o LE4(offset["input_type"] + by) \o LE4(offset["output_type"] + by)
  <1>1. offset["lock"] \in Int /\ offset["input_type"] \in Int /\ offset["output_type"] \in Int
    BY DEF Fields
  <1>2. shift \in Int
    BY <1>1, SizesAssumption, SMT
  <1>3. ASSUME NEW by \in Int PROVE header(by) \in Seq(Byte)
    <2>1. total + by \in Int /\ offset["input_type"] + by \in Int /\ offset["output_type"] + by \in Int
      BY <1>1, SMT
    <2>2. QED
      BY <1>1, <2>1, StandardBytes
  <1>4. Bytes(Zeros(SignatureSize)) \in Seq(Byte)
    BY SizesAssumption, ZerosBytes, BytesBytes
  <1>5. LE8(total) \in Seq(Byte) /\ LE8(total + shift) \in Seq(Byte)
    <2>1. total + shift \in Int
      BY <1>2, SMT
    <2>2. QED
      BY <2>1, LE8Bytes
  <1>7. HashedHeader(total, offset)
          = IF message.multisig THEN LE8(total) \o header(0)
            ELSE LE8(total + shift) \o header(shift) \o Bytes(Zeros(SignatureSize))
    BY DEF HashedHeader
  <1> HIDE DEF header, shift
  <1>6. header(0) \in Seq(Byte) /\ header(shift) \in Seq(Byte)
    <2>1. 0 \in Int
      OBVIOUS
    <2>2. QED
      BY <1>2, <1>3, <2>1
  <1>8. QED
    BY <1>4, <1>5, <1>6, <1>7, ConcatProperties
-------------------------------------------------------------------------------
(* What the parsers take from the message.                                 *)

LEMMA WitnessBytes ==
    ASSUME TypeOK, item < Len(message.witnesses)
    PROVE  Witness \in Seq(Byte) /\ Len(Witness) \in Nat
  <1>1. message.witnesses \in Seq(Seq(Byte))
    BY MessagesAssumption DEF TypeOK
  <1>2. item + 1 \in 1 .. Len(message.witnesses)
    BY <1>1, LenProperties, SMT DEF TypeOK
  <1>3. Witness \in Seq(Byte)
    BY <1>1, <1>2, ElementOfSeq DEF Witness
  <1>4. QED
    BY <1>3, LenProperties

LEMMA NumberBytes ==
    ASSUME TypeOK
    PROVE  /\ NumBytes \in Seq(Byte)
           /\ NumTaken \in Seq(Byte)
           /\ NumComplete => NumValue \in Int /\ AfterNum \in Seq(Byte)
  <1>1. args.num \in Seq(Byte) /\ chunk \in Seq(Byte)
    BY DEF TypeOK, ArgsStates
  <1>2. Len(args.num) \in Nat /\ Len(chunk) \in Nat
    BY <1>1, LenProperties
  <1>3. NumBytes \in Seq(Byte)
    BY <1>1, ConcatProperties DEF NumBytes
  <1>4. NumTaken \in Seq(Byte)
    <2>1. 4 - Len(args.num) \in Int
      BY <1>2, SMT
    <2>2. Copy(4 - Len(args.num), Len(chunk)) \in 0 .. Len(chunk)
      BY <1>2, <2>1, CopyBounds
    <2>3. QED
      BY <1>1, <1>2, <2>2, SubSeqBytes, SMT DEF NumTaken
  <1>5. ASSUME NumComplete PROVE NumValue \in Int /\ AfterNum \in Seq(Byte)
    <2>1. Len(NumBytes) \in Nat /\ Len(NumBytes) >= 4
      BY <1>3, <1>5, LenProperties DEF NumComplete
    <2>2. SubSeq(NumBytes, 1, 4) \in Seq(Byte) /\ Len(SubSeq(NumBytes, 1, 4)) >= 4
      BY <1>3, <2>1, SMT
    <2>3. AfterNum \in Seq(Byte)
      BY <1>3, <2>1, SubSeqBytes, SMT DEF AfterNum
    <2>4. QED
      BY <2>2, <2>3, NumInt DEF NumValue
  <1>6. QED
    BY <1>3, <1>4, <1>5

LEMMA FieldBytes ==
    ASSUME TypeOK
    PROVE  /\ FieldChunk \in Seq(Byte)
           /\ Len(FieldChunk) \in Nat
           /\ SubSeq(chunk, Len(FieldChunk) + 1, Len(chunk)) \in Seq(Byte)
  <1>1. chunk \in Seq(Byte) /\ Len(chunk) \in Nat
    BY LenProperties DEF TypeOK
  <1>2. NeededOfField \in Int
    BY SMT DEF NeededOfField, TypeOK, ArgsStates
  <1>3. Copy(NeededOfField, Len(chunk)) \in 0 .. Len(chunk)
    BY <1>1, <1>2, CopyBounds
  <1>4. FieldChunk \in Seq(Byte)
    BY <1>1, <1>3, SubSeqBytes, SMT DEF FieldChunk
  <1>5. Len(FieldChunk) \in Nat
    BY <1>4, LenProperties
  <1>6. QED
    BY <1>1, <1>4, <1>5, SubSeqBytes, SMT

-------------------------------------------------------------------------------
(* The parts of the invariant that a step of a parser leaves alone.        *)

IInv == TypeOK /\ ScriptParameters

\* What Return and a step of the parser of the first witness preserve.
LEMMA ParseStep ==
    ASSUME IInv, at = "parse",
           UNCHANGED <<message, packet, item, read, final_hash>>,
           at' \in {"parse", "end", "more"},
           chunk' \in Seq(Byte), args' \in ArgsStates, hash' \in Seq(Byte)
    PROVE  /\ tx' = tx /\ unsafe' = unsafe /\ lock' = lock => IInv'
           /\ /\ tx' \in Witnesses /\ unsafe' \in BOOLEAN /\ lock' \in Seq(Byte)
              /\ ScriptParameters'
              => IInv'
  <1>1. ASSUME tx' \in Witnesses, unsafe' \in BOOLEAN, lock' \in Seq(Byte) PROVE TypeOK'
    <2>1. at' \in Positions
      BY DEF Positions
    <2>2. Witness' = Witness
      BY DEF Witness
    <2>3. QED
      BY <1>1, <2>1, <2>2 DEF IInv, TypeOK
  <1>2. tx' = tx /\ lock' = lock => ScriptParameters'
    BY DEF IInv, ScriptParameters
  <1>3. QED
    BY <1>1, <1>2 DEF IInv, TypeOK
-------------------------------------------------------------------------------
LEMMA InitInv == Init => IInv
  <1>1. ASSUME Init PROVE TypeOK
    <2>1. message.witnesses \in Seq(Seq(Byte)) /\ message \in Messages
      BY <1>1, MessagesAssumption DEF Init
    <2>2. 0 \in 0 .. Len(message.witnesses)
      BY <2>1, LenProperties, SMT
    <2>3. <<>> \in Seq(Byte)
      BY EmptySeq
    <2>4. args \in ArgsStates
      BY <1>1, <2>3 DEF Init, ArgsStart, ArgsStates, ArgsPositions, Fields
    <2>5. tx \in Witnesses
      BY <1>1, SMT DEF Init, Witnesses, Byte
    <2>6. packet \in 0 .. MaxPacket /\ at \in Positions /\ read \in Nat
      BY <1>1 DEF Init, Positions
    <2>7. at \notin {"length", "body", "more", "parse", "end"}
      BY <1>1 DEF Init
    <2>8. QED
      BY <1>1, <2>1, <2>2, <2>3, <2>4, <2>5, <2>6, <2>7 DEF Init, TypeOK
  <1>2. ASSUME Init PROVE ScriptParameters
    <2>1. tx.consumed = 0 /\ Len(lock) = 0
      BY <1>2, EmptySeq DEF Init
    <2>2. QED
      BY <2>1, SMT DEF ScriptParameters
  <1>3. QED
    BY <1>1, <1>2 DEF IInv

LEMMA VectorStep ==
    ASSUME IInv, NewPacket \/ WitnessLength \/ ProcessWitness \/ FinalizeWitnesses
    PROVE  IInv'
  <1>1. /\ message' = message /\ item' = item /\ args' = args /\ tx' = tx
        /\ unsafe' = unsafe /\ lock' = lock
    BY DEF NewPacket, WitnessLength, ProcessWitness, FinalizeWitnesses
  <1>2. ScriptParameters'
    BY <1>1 DEF IInv, ScriptParameters
  <1>3. /\ packet \in Nat /\ read \in Nat /\ hash \in Seq(Byte) /\ MaxPacket \in Nat
        /\ packet <= MaxPacket
    BY SizesAssumption, SMT DEF IInv, TypeOK
  <1>4. Witness' = Witness
    BY <1>1 DEF Witness
  <1>5. CASE NewPacket
    <2>1. packet' \in 0 .. MaxPacket
      BY <1>3, <1>5, SMT DEF NewPacket
    <2>2. at' \in Positions
      BY <1>5 DEF NewPacket, Positions
    <2>3. item < Len(message.witnesses)
      BY <1>5 DEF NewPacket, IInv, TypeOK
    <2>4. (at' = at /\ at = "length") \/ (at' = "body" /\ at = "more")
      <3>1. at \in {"length", "more"} /\ at' = IF at = "more" THEN "body" ELSE at
        BY <1>5 DEF NewPacket
      <3>2. QED
        BY <3>1
    <2>5. read' = read /\ chunk' = chunk /\ hash' = hash /\ final_hash' = final_hash
      BY <1>5 DEF NewPacket
    <2>6. QED
      BY <1>1, <1>2, <1>4, <2>1, <2>2, <2>3, <2>4, <2>5 DEF IInv, TypeOK
  <1>6. CASE WitnessLength
    <2>1. item < Len(message.witnesses) /\ read < 4
      BY <1>6 DEF WitnessLength, IInv, TypeOK
    <2>2. Len(Witness) \in Nat
      BY <2>1, WitnessBytes DEF IInv
    <2>3. 4 - read \in Int
      BY <1>3, SMT
    <2>4. Copy(4 - read, packet) \in 0 .. packet /\ Copy(4 - read, packet) <= 4 - read
      BY <1>3, <2>1, SMT DEF Copy
    <2>5. packet' \in 0 .. MaxPacket
      BY <1>3, <1>6, <2>4, SMT DEF WitnessLength
    <2>6. LE8(Len(Witness)) \in Seq(Byte)
      BY <2>2, LE8Bytes
    <2>7. hash' \in Seq(Byte)
      BY <1>3, <1>6, <2>6, ConcatProperties DEF WitnessLength
    <2>8. /\ at' \in Positions /\ read' \in Nat
          /\ at' \in {"body", "more", "parse", "end"} => read' <= Len(Witness)
          /\ at' = "length" => read' < 4
      <3>1. CASE read + Copy(4 - read, packet) = 4
        BY <1>6, <2>2, <3>1, SMT DEF WitnessLength, BodyStart, Positions
      <3>2. CASE read + Copy(4 - read, packet) # 4
        <4>1. at' = "length" /\ read' = read + Copy(4 - read, packet)
          BY <1>6, <3>2 DEF WitnessLength
        <4>2. QED
          BY <1>3, <2>1, <2>4, <3>2, <4>1, SMT DEF Positions
      <3>3. QED
        BY <3>1, <3>2
    <2>9. chunk' = chunk /\ final_hash' = final_hash
      BY <1>6 DEF WitnessLength
    <2>10. QED
      BY <1>1, <1>2, <1>4, <2>1, <2>5, <2>7, <2>8, <2>9 DEF IInv, TypeOK
  <1>7. CASE ProcessWitness
    <2> DEFINE n == Copy(Len(Witness) - read, packet)
               buff == SubSeq(Witness, read + 1, read + n)
    <2>1. item < Len(message.witnesses) /\ read <= Len(Witness)
      BY <1>7 DEF ProcessWitness, IInv, TypeOK
    <2>2. Witness \in Seq(Byte) /\ Len(Witness) \in Nat
      BY <2>1, WitnessBytes DEF IInv
    <2>3. n \in 0 .. packet /\ read + n <= Len(Witness)
      BY <1>3, <2>1, <2>2, SMT DEF Copy
    <2>4. packet' = packet - n /\ read' = read + n
      BY <1>7 DEF ProcessWitness
    <2>5. hash' \in {hash, hash \o buff} /\ chunk' \in {chunk, buff}
      BY <1>7 DEF ProcessWitness
    <2>6. at' \in {"parse", "end", "more"} /\ final_hash' = final_hash
      BY <1>7 DEF ProcessWitness
    <2> HIDE DEF n
    <2>7. buff \in Seq(Byte)
      BY <1>3, <2>2, <2>3, SubSeqBytes, SMT
    <2> HIDE DEF buff
    <2>8. packet' \in 0 .. MaxPacket /\ read' \in Nat /\ read' <= Len(Witness)
      BY <1>3, <2>3, <2>4, SMT
    <2>9. hash' \in Seq(Byte) /\ chunk' \in Seq(Byte)
      <3>1. chunk \in Seq(Byte)
        BY DEF IInv, TypeOK
      <3>2. hash \o buff \in Seq(Byte)
        BY <1>3, <2>7, ConcatProperties
      <3>3. QED
        BY <1>3, <2>5, <2>7, <3>1, <3>2
    <2>10. at' \in Positions
      BY <2>6 DEF Positions
    <2>11. QED
      BY <1>1, <1>2, <1>4, <2>1, <2>6, <2>8, <2>9, <2>10 DEF IInv, TypeOK
  <1>8. CASE FinalizeWitnesses
    <2>1. at' = "done" /\ at' \in Positions
      BY <1>8 DEF FinalizeWitnesses, Positions
    <2>2. /\ packet' = packet /\ read' = read /\ chunk' = chunk /\ hash' = hash
          /\ final_hash' = hash
      BY <1>8 DEF FinalizeWitnesses
    <2>3. QED
      BY <1>1, <1>2, <2>1, <2>2 DEF IInv, TypeOK
  <1>9. QED
    BY <1>5, <1>6, <1>7, <1>8

LEMMA BeginWitnessStep ==
    ASSUME IInv, BeginWitness
    PROVE  IInv'
  <1>1. at' = IF item < Len(message.witnesses) THEN "length" ELSE "finalize"
    BY DEF BeginWitness
  <1>2. /\ message' = message /\ packet' = packet /\ item' = item /\ read' = 0
        /\ chunk' = chunk /\ final_hash' = final_hash /\ unsafe' = unsafe
    BY DEF BeginWitness
  <1>3. tx \in Witnesses /\ <<>> \in Seq(Byte)
    BY EmptySeq DEF IInv, TypeOK
  <1>4. CASE item = 0
    <2>1. /\ tx' = [tx EXCEPT !.first = TRUE, !.threshold = 0, !.pubkeys_cnt = 0, !.consumed = 0]
          /\ hash' = transaction_hash /\ args' = ArgsStart /\ lock' = <<>>
      BY <1>4 DEF BeginWitness
    <2>2. tx' \in Witnesses /\ tx'.consumed = 0
      <3>1. 0 \in Byte /\ 0 \in Nat /\ TRUE \in BOOLEAN
        BY SMT DEF Byte
      <3>2. QED
        BY <1>3, <2>1, <3>1 DEF Witnesses
    <2>3. args' \in ArgsStates
      BY <1>3, <2>1 DEF ArgsStart, ArgsStates, ArgsPositions, Fields
    <2>4. Len(lock') = 0
      BY <2>1
    <2>5. ScriptParameters'
      BY <2>2, <2>4, SMT DEF ScriptParameters
    <2>6. TypeOK'
      BY <1>1, <1>2, <1>3, <2>1, <2>2, <2>3, HashAssumption, SMT DEF IInv, TypeOK, Positions
    <2>7. QED
      BY <2>5, <2>6 DEF IInv
  <1>5. CASE item # 0
    <2>1. /\ tx' = [tx EXCEPT !.first = FALSE] /\ hash' = hash /\ args' = args /\ lock' = lock
      BY <1>5 DEF BeginWitness
    <2>2. /\ tx' \in Witnesses /\ tx'.consumed = tx.consumed /\ tx'.threshold = tx.threshold
          /\ tx'.pubkeys_cnt = tx.pubkeys_cnt
      BY <1>3, <2>1 DEF Witnesses
    <2>3. ScriptParameters'
      BY <2>1, <2>2 DEF IInv, ScriptParameters
    <2>4. TypeOK'
      BY <1>1, <1>2, <2>1, <2>2, SMT DEF IInv, TypeOK, Positions
    <2>5. QED
      BY <2>3, <2>4 DEF IInv
  <1>6. QED
    BY <1>4, <1>5
LEMMA ProcessWitnessEndStep ==
    ASSUME IInv, ProcessWitnessEnd
    PROVE  IInv'
  <1>1. /\ at = "end" /\ at' = "index" /\ item' = item + 1
        /\ message' = message /\ packet' = packet /\ read' = read /\ chunk' = chunk
        /\ args' = args /\ final_hash' = final_hash /\ unsafe' = unsafe /\ lock' = lock
    BY DEF ProcessWitnessEnd
  <1>2. item' \in 0 .. Len(message.witnesses)
    <2>1. item \in 0 .. Len(message.witnesses) /\ item < Len(message.witnesses)
      BY <1>1 DEF IInv, TypeOK
    <2>2. message.witnesses \in Seq(Seq(Byte))
      BY MessagesAssumption DEF IInv, TypeOK
    <2>3. Len(message.witnesses) \in Nat
      BY <2>2, LenProperties
    <2>4. QED
      BY <1>1, <2>1, <2>3, SMT
  <1>3. hash' \in Seq(Byte)
    <2>1. SelfWitness \in Seq(Byte)
      BY SizesAssumption, ZerosBytes, BytesBytes, WitnessArgsBytes, EmptySeq DEF SelfWitness
    <2>2. hash' = hash \/ hash' = RestartedHash
      BY DEF ProcessWitnessEnd
    <2>3. LE8(Len(SelfWitness)) \in Seq(Byte)
      BY <2>1, LenProperties, LE8Bytes, SMT
    <2>4. RestartedHash \in Seq(Byte)
      BY <2>1, <2>3, HashAssumption, ConcatProperties DEF RestartedHash
    <2>5. QED
      BY <2>2, <2>4 DEF IInv, TypeOK
  <1>4. /\ tx' \in Witnesses /\ tx'.consumed = tx.consumed /\ tx'.threshold = tx.threshold
        /\ tx'.pubkeys_cnt = tx.pubkeys_cnt
    <2>1. tx \in Witnesses
      BY DEF IInv, TypeOK
    <2>2. tx' = tx \/ tx' = [tx EXCEPT !.done = TRUE]
      BY DEF ProcessWitnessEnd
    <2>3. QED
      BY <2>1, <2>2 DEF Witnesses
  <1>5. ScriptParameters'
    BY <1>1, <1>4 DEF IInv, ScriptParameters
  <1>6. at' \in Positions
    BY <1>1 DEF Positions
  <1>7. TypeOK'
    BY <1>1, <1>2, <1>3, <1>4, <1>6 DEF IInv, TypeOK
  <1>8. QED
    BY <1>5, <1>7 DEF IInv

-------------------------------------------------------------------------------
(* The parser of the first witness.                                        *)

LEMMA ReturnPosition ==
    ASSUME Return
    PROVE  chunk' \in Seq(Byte) /\ at' \in {"parse", "end", "more"}
  BY EmptySeq DEF Return, AfterChunk

LEMMA NumberStep ==
    ASSUME IInv, NumIncomplete \/ ParseTotalSize \/ ParseOffset \/ ParseFieldLength
    PROVE  IInv'
  <1>1. /\ at = "parse" /\ message' = message /\ packet' = packet /\ item' = item
        /\ read' = read /\ final_hash' = final_hash /\ tx' = tx /\ unsafe' = unsafe
        /\ lock' = lock
    BY DEF NumIncomplete, ParseTotalSize, ParseOffset, ParseFieldLength
  <1>2. args \in ArgsStates /\ hash \in Seq(Byte) /\ chunk \in Seq(Byte) /\ TypeOK
    BY DEF IInv, TypeOK
  <1>3. /\ NumBytes \in Seq(Byte)
        /\ NumTaken \in Seq(Byte)
        /\ NumComplete => NumValue \in Int /\ AfterNum \in Seq(Byte)
    BY <1>2, NumberBytes
  <1>4. ASSUME NEW b \in Seq(Byte) PROVE HashField(b) \in Seq(Byte)
    BY <1>2, ConcatProperties DEF HashField
  <1>5. CASE NumIncomplete
    <2>1. args' = [args EXCEPT !.num = NumBytes]
      BY <1>5 DEF NumIncomplete, NumKept
    <2>2. args' \in ArgsStates
      BY <1>2, <1>3, <2>1 DEF ArgsStates
    <2>3. hash' \in Seq(Byte)
      BY <1>2, <1>4, <1>5 DEF NumIncomplete
    <2>4. QED
      BY <1>1, <1>5, <2>2, <2>3, ReturnPosition, ParseStep DEF NumIncomplete
  <1>6. CASE ParseTotalSize
    <2>1. args' = [args EXCEPT !.at = "offset", !.total_size = NumValue, !.num = <<>>]
      BY <1>6 DEF ParseTotalSize
    <2>2. NumValue \in Int /\ AfterNum \in Seq(Byte)
      BY <1>3, <1>6 DEF ParseTotalSize
    <2>3. args' \in ArgsStates
      BY <1>2, <2>1, <2>2, EmptySeq DEF ArgsStates, ArgsPositions
    <2>4. chunk' \in Seq(Byte) /\ hash' = hash /\ at' = at
      BY <1>6, <2>2 DEF ParseTotalSize
    <2>5. QED
      BY <1>1, <1>2, <2>3, <2>4, ParseStep
  <1>7. CASE ParseOffset
    <2> DEFINE offset == [args.offset EXCEPT ![args.field] = NumValue]
    <2>1. NumValue \in Int /\ AfterNum \in Seq(Byte)
      BY <1>3, <1>7 DEF ParseOffset
    <2>2. args.offset \in [Fields -> Int] /\ args.field \in Fields /\ args.total_size \in Int
      BY <1>2 DEF ArgsStates
    <2>3. offset \in [Fields -> Int]
      BY <2>1, <2>2
    <2>4. chunk' = AfterNum /\ at' = at
      BY <1>7 DEF ParseOffset
    <2>5. CASE args.field = "output_type"
      <3>1. /\ args' = [args EXCEPT !.at = "length", !.field = "lock", !.offset = offset,
                                    !.num = <<>>, !.seen = 0]
            /\ hash' = hash \o HashedHeader(args.total_size, offset)
        BY <1>7, <2>5 DEF ParseOffset
      <3> HIDE DEF offset
      <3>2. HashedHeader(args.total_size, offset) \in Seq(Byte)
        BY <1>2, <2>2, <2>3, HashedHeaderBytes
      <3>3. hash' \in Seq(Byte)
        BY <1>2, <3>1, <3>2, ConcatProperties
      <3>4. 0 \in Nat
        OBVIOUS
      <3>5. args' \in ArgsStates
        BY <1>2, <2>3, <3>1, <3>4, EmptySeq DEF ArgsStates, ArgsPositions, Fields
      <3>6. QED
        BY <1>1, <2>1, <2>4, <3>3, <3>5, ParseStep
    <2>6. CASE args.field # "output_type"
      <3>1. /\ args' = [args EXCEPT !.field = NextField(args.field), !.offset = offset,
                                    !.num = <<>>]
            /\ hash' = hash
        BY <1>7, <2>6 DEF ParseOffset
      <3>2. NextField(args.field) \in Fields
        BY DEF NextField, Fields
      <3> HIDE DEF offset
      <3>3. args' \in ArgsStates
        BY <1>2, <2>3, <3>1, <3>2, EmptySeq DEF ArgsStates
      <3>4. QED
        BY <1>1, <1>2, <2>1, <2>4, <3>1, <3>3, ParseStep
    <2>7. QED
      BY <2>5, <2>6
  <1>8. CASE ParseFieldLength
    <2>1. NumValue \in Int /\ AfterNum \in Seq(Byte)
      BY <1>3, <1>8 DEF ParseFieldLength
    <2>2. args' = [args EXCEPT !.at = "body", !.length = NumValue]
      BY <1>8 DEF ParseFieldLength
    <2>3. args' \in ArgsStates
      BY <1>2, <2>1, <2>2 DEF ArgsStates, ArgsPositions
    <2>4. LE4(NumValue) \in Seq(Byte)
      BY <2>1, LE4Bytes
    <2>5. hash' = hash \o LE4(NumValue) \/ hash' = HashField(NumTaken)
      BY <1>8 DEF ParseFieldLength
    <2>6. hash' \in Seq(Byte)
      <3>1. hash \o LE4(NumValue) \in Seq(Byte)
        BY <1>2, <2>4, ConcatProperties
      <3>2. HashField(NumTaken) \in Seq(Byte)
        BY <1>3, <1>4
      <3>3. QED
        BY <2>5, <3>1, <3>2
    <2>7. (chunk' = AfterNum /\ at' = at) \/ Return
      BY <1>8 DEF ParseFieldLength
    <2>8. chunk' \in Seq(Byte) /\ at' \in {"parse", "end", "more"}
      BY <1>1, <2>1, <2>7, ReturnPosition
    <2>9. QED
      BY <1>1, <2>3, <2>6, <2>8, ParseStep
  <1>9. QED
    BY <1>5, <1>6, <1>7, <1>8
\* What FieldDone leaves behind, for any rest of the chunk.
LEMMA FieldDoneTypes ==
    ASSUME IInv, at = "parse", NEW rest \in Seq(Byte), FieldDone(rest)
    PROVE  /\ args' \in ArgsStates
           /\ chunk' \in Seq(Byte)
           /\ at' \in {"parse", "end", "more"}
           /\ tx' \in Witnesses
           /\ tx'.consumed = tx.consumed /\ tx'.threshold = tx.threshold
           /\ tx'.pubkeys_cnt = tx.pubkeys_cnt
  <1>1. args \in ArgsStates /\ tx \in Witnesses
    BY DEF IInv, TypeOK
  <1>2. CASE args.field = "output_type"
    <2>1. args' = [args EXCEPT !.at = "complete"] /\ tx' = [tx EXCEPT !.done = TRUE] /\ Return
      BY <1>2 DEF FieldDone
    <2>2. args' \in ArgsStates
      BY <1>1, <2>1 DEF ArgsStates, ArgsPositions
    <2>3. /\ tx' \in Witnesses /\ tx'.consumed = tx.consumed /\ tx'.threshold = tx.threshold
          /\ tx'.pubkeys_cnt = tx.pubkeys_cnt
      BY <1>1, <2>1 DEF Witnesses
    <2>4. QED
      BY <2>1, <2>2, <2>3, ReturnPosition
  <1>3. CASE args.field # "output_type"
    <2>1. /\ args' = [args EXCEPT !.at = "length", !.field = NextField(args.field),
                                  !.num = <<>>, !.seen = 0]
          /\ chunk' = rest /\ at' = at /\ tx' = tx
      BY <1>3 DEF FieldDone
    <2>2. NextField(args.field) \in Fields /\ 0 \in Nat
      BY DEF NextField, Fields
    <2>3. args' \in ArgsStates
      BY <1>1, <2>1, <2>2, EmptySeq DEF ArgsStates, ArgsPositions
    <2>4. QED
      BY <1>1, <2>1, <2>3
  <1>4. QED
    BY <1>2, <1>3

LEMMA SameParameters ==
    ASSUME ScriptParameters, lock' = lock, tx'.consumed = tx.consumed,
           tx'.threshold = tx.threshold, tx'.pubkeys_cnt = tx.pubkeys_cnt
    PROVE  ScriptParameters'
  BY DEF ScriptParameters

\* The flags come from the bytes that are hashed as soon as those are there: a
\* chunk that reaches the third byte of the lock gives the threshold, one that
\* reaches the fourth the number of keys, and zeroing leaves both alone.
LEMMA LockBodyChunkParameters ==
    ASSUME IInv, NEW buf \in Seq(Byte), LockBodyChunk(buf)
    PROVE  /\ tx' \in Witnesses
           /\ hash' \in Seq(Byte)
           /\ lock' \in Seq(Byte)
           /\ unsafe' \in BOOLEAN
           /\ ScriptParameters'
  <1> DEFINE n == Len(buf)
             c == tx.consumed
             Outside == {i \in 0 .. 3 : i >= n}
  <1>1. PICK stale \in [Outside -> StaleBytes] :
          LET flag(i) == IF i < n THEN buf[i + 1] ELSE stale[i]
              pubkeys_cnt == IF c < 4 THEN flag(3 - c) ELSE tx.pubkeys_cnt
              zeroed == ZeroSignatures(buf, pubkeys_cnt, c)
          IN IF c = 0 /\ flag(0) # 0
             THEN /\ unsafe' = TRUE
                  /\ UNCHANGED <<tx, hash, lock>>
             ELSE /\ tx' = [tx EXCEPT !.threshold = IF c < 3 THEN flag(2 - c) ELSE @,
                                      !.pubkeys_cnt = pubkeys_cnt,
                                      !.consumed = c + n]
                  /\ hash' = hash \o zeroed
                  /\ lock' = lock \o zeroed
                  /\ UNCHANGED unsafe
    BY DEF LockBodyChunk, ReservedAhead, ThresholdAhead
  <1>2. /\ tx \in Witnesses /\ hash \in Seq(Byte) /\ lock \in Seq(Byte) /\ unsafe \in BOOLEAN
        /\ c \in Nat /\ n \in Nat
    BY LenProperties DEF IInv, TypeOK, Witnesses
  <1> DEFINE flag(i) == IF i < n THEN buf[i + 1] ELSE stale[i]
             threshold == IF c < 3 THEN flag(2 - c) ELSE tx.threshold
             pubkeys_cnt == IF c < 4 THEN flag(3 - c) ELSE tx.pubkeys_cnt
             zeroed == ZeroSignatures(buf, pubkeys_cnt, c)
  <1>3. ASSUME NEW i \in 0 .. 3 PROVE flag(i) \in Byte
    <2>1. CASE i < n
      <3>1. i + 1 \in 1 .. Len(buf)
        BY <1>2, <2>1, SMT
      <3>2. buf[i + 1] \in Byte
        BY <3>1, ElementOfSeq
      <3>3. QED
        BY <2>1, <3>2
    <2>2. CASE ~(i < n)
      <3>1. i \in Outside
        BY <1>2, <2>2, SMT
      <3>2. stale[i] \in StaleBytes
        BY <3>1
      <3>3. QED
        BY <2>2, <3>2, StaleAssumption
    <2>3. QED
      BY <2>1, <2>2
  <1>4. threshold \in Byte /\ pubkeys_cnt \in Byte
    <2>1. c < 3 => 2 - c \in 0 .. 3
      BY <1>2, SMTT(30)
    <2>2. c < 4 => 3 - c \in 0 .. 3
      BY <1>2, SMTT(30)
    <2>3. tx.threshold \in Byte /\ tx.pubkeys_cnt \in Byte
      BY <1>2 DEF Witnesses
    <2> HIDE DEF flag
    <2>4. QED
      BY <1>3, <2>1, <2>2, <2>3
  <1>5. /\ c + n >= 3 /\ c < 3 => threshold = buf[3 - c]
        /\ c + n >= 4 /\ c < 4 => pubkeys_cnt = buf[4 - c]
    BY <1>2, SMT
  <1>6. \/ unsafe' = TRUE /\ tx' = tx /\ hash' = hash /\ lock' = lock
        \/ /\ tx' = [tx EXCEPT !.threshold = threshold, !.pubkeys_cnt = pubkeys_cnt,
                                !.consumed = c + n]
           /\ hash' = hash \o zeroed /\ lock' = lock \o zeroed /\ unsafe' = unsafe
    BY <1>1
  <1> HIDE DEF threshold, pubkeys_cnt, flag
  <1>7. /\ zeroed \in Seq(Byte)
        /\ Len(zeroed) = n
        /\ \A i \in 1 .. n : i + c <= 4 => zeroed[i] = buf[i]
    BY <1>2, <1>4, ZeroSignaturesBytes
  <1> HIDE DEF zeroed
  <1>8. CASE unsafe' = TRUE /\ tx' = tx /\ hash' = hash /\ lock' = lock
    BY <1>2, <1>8, SameParameters DEF IInv
  <1>9. CASE /\ tx' = [tx EXCEPT !.threshold = threshold, !.pubkeys_cnt = pubkeys_cnt,
                                 !.consumed = c + n]
             /\ hash' = hash \o zeroed /\ lock' = lock \o zeroed /\ unsafe' = unsafe
    <2>1. c + n \in Nat
      BY <1>2, SMT
    <2>2. /\ tx' \in Witnesses /\ tx'.threshold = threshold /\ tx'.pubkeys_cnt = pubkeys_cnt
          /\ tx'.consumed = c + n
      BY <1>2, <1>4, <1>9, <2>1 DEF Witnesses
    <2>3. hash' \in Seq(Byte) /\ lock' \in Seq(Byte)
      BY <1>2, <1>7, <1>9, ConcatProperties
    <2>4. Len(lock) = c /\ (c >= 3 => tx.threshold = lock[3]) /\ (c >= 4 => tx.pubkeys_cnt = lock[4])
      BY DEF IInv, ScriptParameters
    <2>5. /\ Len(lock') = c + n
          /\ \A i \in 1 .. c + n : lock'[i] = IF i <= c THEN lock[i] ELSE zeroed[i - c]
      <3>1. /\ Len(lock \o zeroed) = Len(lock) + Len(zeroed)
            /\ \A i \in 1 .. Len(lock) + Len(zeroed) :
                  (lock \o zeroed)[i] = IF i <= Len(lock) THEN lock[i] ELSE zeroed[i - Len(lock)]
        BY <1>2, <1>7, ConcatProperties
      <3>2. Len(lock) = c /\ Len(zeroed) = n /\ lock' = lock \o zeroed
        BY <1>7, <1>9, <2>4
      <3> HIDE DEF c, n
      <3>3. QED
        BY <3>1, <3>2
    <2>6. c + n >= 3 => threshold = lock'[3]
      <3>1. CASE c < 3 /\ c + n >= 3
        <4>1. 3 - c \in 1 .. n /\ (3 - c) + c <= 4 /\ 3 \in 1 .. c + n /\ ~(3 <= c)
          BY <1>2, <3>1, SMT
        <4>2. lock'[3] = zeroed[3 - c] /\ zeroed[3 - c] = buf[3 - c]
          BY <1>7, <2>5, <4>1
        <4>3. QED
          BY <1>5, <3>1, <4>2
      <3>2. CASE c >= 3
        <4>1. 3 \in 1 .. c + n /\ 3 <= c /\ ~(c < 3)
          BY <1>2, <3>2, SMT
        <4>2. QED
          BY <2>4, <2>5, <3>2, <4>1 DEF threshold
      <3>3. QED
        BY <1>2, <3>1, <3>2, SMT
    <2>7. c + n >= 4 => pubkeys_cnt = lock'[4]
      <3>1. CASE c < 4 /\ c + n >= 4
        <4>1. 4 - c \in 1 .. n /\ (4 - c) + c <= 4 /\ 4 \in 1 .. c + n /\ ~(4 <= c)
          BY <1>2, <3>1, SMT
        <4>2. lock'[4] = zeroed[4 - c] /\ zeroed[4 - c] = buf[4 - c]
          BY <1>7, <2>5, <4>1
        <4>3. QED
          BY <1>5, <3>1, <4>2
      <3>2. CASE c >= 4
        <4>1. 4 \in 1 .. c + n /\ 4 <= c /\ ~(c < 4)
          BY <1>2, <3>2, SMT
        <4>2. QED
          BY <2>4, <2>5, <3>2, <4>1 DEF pubkeys_cnt
      <3>3. QED
        BY <1>2, <3>1, <3>2, SMT
    <2>8. ScriptParameters'
      BY <2>2, <2>5, <2>6, <2>7 DEF ScriptParameters
    <2>9. QED
      BY <1>2, <1>9, <2>2, <2>3, <2>8
  <1>10. QED
    BY <1>6, <1>8, <1>9
LEMMA FieldStep ==
    ASSUME IInv, ParseAbsentField \/ ParseLockBody \/ ParseTypeBody \/ ParseComplete
    PROVE  IInv'
  <1>1. /\ at = "parse" /\ message' = message /\ packet' = packet /\ item' = item
        /\ read' = read /\ final_hash' = final_hash
    BY DEF ParseAbsentField, ParseLockBody, ParseTypeBody, ParseComplete
  <1>2. /\ args \in ArgsStates /\ hash \in Seq(Byte) /\ chunk \in Seq(Byte)
        /\ tx \in Witnesses /\ lock \in Seq(Byte) /\ unsafe \in BOOLEAN
        /\ TypeOK /\ ScriptParameters
    BY DEF IInv, TypeOK
  <1> DEFINE rest == SubSeq(chunk, Len(FieldChunk) + 1, Len(chunk))
  <1>3. FieldChunk \in Seq(Byte) /\ Len(FieldChunk) \in Nat /\ rest \in Seq(Byte)
    BY <1>2, FieldBytes
  <1>4. args.seen + Len(FieldChunk) \in Nat
    BY <1>2, <1>3, SMT DEF ArgsStates
  <1>5. CASE ParseAbsentField
    <2>1. FieldDone(chunk) /\ hash' = hash /\ lock' = lock /\ unsafe' = unsafe
      BY <1>5 DEF ParseAbsentField
    <2>2. /\ args' \in ArgsStates /\ chunk' \in Seq(Byte) /\ at' \in {"parse", "end", "more"}
          /\ tx' \in Witnesses
          /\ tx'.consumed = tx.consumed /\ tx'.threshold = tx.threshold
          /\ tx'.pubkeys_cnt = tx.pubkeys_cnt
      BY <1>1, <1>2, <2>1, FieldDoneTypes
    <2>3. ScriptParameters'
      BY <1>2, <2>1, <2>2, SameParameters
    <2>4. QED
      BY <1>1, <1>2, <2>1, <2>2, <2>3, ParseStep
  <1>6. CASE ParseTypeBody
    <2>1. hash' = hash \o FieldChunk /\ lock' = lock /\ unsafe' = unsafe
      BY <1>6 DEF ParseTypeBody
    <2>2. hash' \in Seq(Byte)
      BY <1>2, <1>3, <2>1, ConcatProperties
    <2>3. CASE FieldDone(rest)
      <3>1. /\ args' \in ArgsStates /\ chunk' \in Seq(Byte) /\ at' \in {"parse", "end", "more"}
            /\ tx' \in Witnesses
            /\ tx'.consumed = tx.consumed /\ tx'.threshold = tx.threshold
            /\ tx'.pubkeys_cnt = tx.pubkeys_cnt
        BY <1>1, <1>3, <2>3, FieldDoneTypes
      <3>2. ScriptParameters'
        BY <1>2, <2>1, <3>1, SameParameters
      <3>3. QED
        BY <1>1, <1>2, <2>1, <2>2, <3>1, <3>2, ParseStep
    <2>4. CASE /\ args' = [args EXCEPT !.seen = @ + Len(FieldChunk)]
               /\ tx' = tx /\ Return
      <3>1. args' \in ArgsStates
        BY <1>2, <1>4, <2>4 DEF ArgsStates
      <3>2. QED
        BY <1>1, <2>1, <2>2, <2>4, <3>1, ReturnPosition, ParseStep
    <2>5. QED
      BY <1>6, <2>3, <2>4 DEF ParseTypeBody
  <1>7. CASE ParseLockBody
    <2>1. /\ tx' \in Witnesses /\ hash' \in Seq(Byte) /\ lock' \in Seq(Byte)
          /\ unsafe' \in BOOLEAN /\ ScriptParameters'
      <3>1. CASE LockBodyChunk(FieldChunk)
        BY <1>3, <3>1, LockBodyChunkParameters
      <3>2. CASE tx' = tx /\ hash' = hash /\ unsafe' = unsafe /\ lock' = lock
        BY <1>2, <3>2, SameParameters
      <3>3. QED
        BY <1>7, <3>1, <3>2 DEF ParseLockBody
    <2>2. args' \in ArgsStates /\ chunk' \in Seq(Byte) /\ at' \in {"parse", "end", "more"}
      <3>1. CASE /\ args' = [args EXCEPT !.at = "length", !.field = "input_type", !.num = <<>>, !.seen = 0]
                 /\ chunk' = rest /\ at' = at
        <4>1. 0 \in Nat
          OBVIOUS
        <4>2. args' \in ArgsStates
          BY <1>2, <3>1, <4>1, EmptySeq DEF ArgsStates, ArgsPositions, Fields
        <4>3. QED
          BY <1>1, <1>3, <3>1, <4>2
      <3>2. CASE args' = [args EXCEPT !.seen = @ + Len(FieldChunk)] /\ Return
        <4>1. args' \in ArgsStates
          BY <1>2, <1>4, <3>2 DEF ArgsStates
        <4>2. QED
          BY <3>2, <4>1, ReturnPosition
      <3>3. QED
        BY <1>7, <3>1, <3>2 DEF ParseLockBody
    <2>3. QED
      BY <1>1, <2>1, <2>2, ParseStep
  <1>8. CASE ParseComplete
    <2>1. /\ tx' = [tx EXCEPT !.done = TRUE] /\ Return /\ args' = args /\ hash' = hash
          /\ unsafe' = unsafe /\ lock' = lock
      BY <1>8 DEF ParseComplete
    <2>2. /\ tx' \in Witnesses
          /\ tx'.consumed = tx.consumed /\ tx'.threshold = tx.threshold
          /\ tx'.pubkeys_cnt = tx.pubkeys_cnt
      BY <1>2, <2>1 DEF Witnesses
    <2>3. ScriptParameters'
      BY <1>2, <2>1, <2>2, SameParameters
    <2>4. QED
      BY <1>1, <1>2, <2>1, <2>2, <2>3, ReturnPosition, ParseStep
  <1>9. QED
    BY <1>5, <1>6, <1>7, <1>8

-------------------------------------------------------------------------------
LEMMA StepInv == IInv /\ [Next]_vars => IInv'
  <1> SUFFICES ASSUME IInv, [Next]_vars PROVE IInv'
    OBVIOUS
  <1>1. CASE NewPacket \/ WitnessLength \/ ProcessWitness \/ FinalizeWitnesses
    BY <1>1, VectorStep
  <1>2. CASE BeginWitness
    BY <1>2, BeginWitnessStep
  <1>3. CASE ProcessWitnessEnd
    BY <1>3, ProcessWitnessEndStep
  <1>4. CASE NumIncomplete \/ ParseTotalSize \/ ParseOffset \/ ParseFieldLength
    BY <1>4, NumberStep
  <1>5. CASE ParseAbsentField \/ ParseLockBody \/ ParseTypeBody \/ ParseComplete
    BY <1>5, FieldStep
  <1>6. CASE UNCHANGED vars
    BY <1>6 DEF vars, IInv, TypeOK, ScriptParameters, Witness
  <1>7. QED
    BY <1>1, <1>2, <1>3, <1>4, <1>5, <1>6 DEF Next, Device, ParseFirstWitness

LEMMA Invariance == Spec => []IInv
  BY InitInv, StepInv, PTL DEF Spec

(* The types of WitnessHash hold in every state: no message, and no byte    *)
(* behind a packet, brings the parsers of the witnesses outside of the      *)
(* witness they are in or makes the callbacks hash anything but bytes.      *)
THEOREM TypeCorrect == Spec => []TypeOK
  <1>1. IInv => TypeOK
    BY DEF IInv
  <1>2. QED
    BY <1>1, Invariance, PTL

(* The threshold and the number of keys witness_lock_arg_body_chunk keeps   *)
(* are the bytes it hashed, wherever the packets cut the script and whatever *)
(* it read from behind them.                                                *)
THEOREM ParametersWereHashed == Spec => []ScriptParameters
  <1>1. IInv => ScriptParameters
    BY DEF IInv
  <1>2. QED
    BY <1>1, Invariance, PTL

-------------------------------------------------------------------------------
(* Where a first witness that is a whole WitnessArgs is being read: which   *)
(* of its fields, and that the numbers kept are those it holds there.       *)

FirstWitness == message.witnesses[1]

FieldStart(w, f) ==
    IF f = "lock" THEN 16 ELSE IF f = "input_type" THEN NumAt(w, 8) ELSE NumAt(w, 12)
FieldStop(w, f) == IF f = "output_type" THEN Len(w) ELSE FieldStart(w, NextField(f))
Offsets(w) == [f \in Fields |-> FieldStart(w, f)]

(* The offset of the number or of the content that the parser is in.        *)
Place(w, a) ==
    IF a.at = "total_size" THEN 0
    ELSE IF a.at = "offset"
    THEN IF a.field = "lock" THEN 4 ELSE IF a.field = "input_type" THEN 8 ELSE 12
    ELSE IF a.at = "length" THEN FieldStart(w, a.field)
    ELSE FieldStart(w, a.field) + 4

(* In a number p bytes into w: its first bytes are kept.                    *)
InNumber(w, a, p) ==
    /\ p = Place(w, a) + Len(a.num) /\ Len(a.num) < 4
    /\ a.num = SubSeq(w, Place(w, a) + 1, p)

InContent(w, a, p) ==
    /\ p = Place(w, a) + a.seen /\ a.seen <= a.length
    /\ FieldStart(w, a.field) + 4 + a.length = FieldStop(w, a.field)

ArgsInPlace(w, a, p) ==
    /\ a.at # "complete"
    /\ IF a.at = "body" THEN InContent(w, a, p) ELSE InNumber(w, a, p)
    /\ a.at = "total_size" => a.field = "lock"
    /\ a.at # "total_size" => a.total_size = Len(w)
    /\ a.at = "offset" =>
        /\ a.field # "lock" => a.offset["lock"] = 16
        /\ a.field = "output_type" => a.offset["input_type"] = NumAt(w, 8)
    /\ a.at \in {"length", "body"} => a.offset = Offsets(w)
    /\ a.at = "length" =>
        a.seen = 0 /\ (FieldStart(w, a.field) = FieldStop(w, a.field) => a.num = <<>>)

(* The parser of the witnesses: the first witness is the one whose parser   *)
(* is kept, and what it did stays as it was behind it.                      *)
VectorInPlace ==
    /\ item = 0 /\ at # "index" => tx.first
    /\ item # 0 /\ at \notin {"index", "finalize", "done"} => ~ tx.first
    /\ at = "parse" => item = 0
    /\ at = "end" => read = Len(Witness)
    /\ at \in {"finalize", "done"} => item = Len(message.witnesses)
    /\ item = 0 => (tx.done <=> args.at = "complete")
    /\ item = 0 /\ at \in {"index", "length"} =>
        args = ArgsStart /\ chunk = <<>> /\ tx.consumed = 0 /\ lock = <<>>
    /\ final_hash = IF at = "done" THEN hash ELSE <<>>

FirstInPlace ==
    WholeFirstWitness =>
        /\ item = 0 /\ at \in {"body", "more", "parse"} =>
            /\ ArgsInPlace(FirstWitness, args, read - Len(chunk))
            /\ chunk = IF at = "parse"
                       THEN SubSeq(FirstWitness, read - Len(chunk) + 1, read) ELSE <<>>
        /\ item # 0 \/ at = "end" => args.at = "complete"

-------------------------------------------------------------------------------
(* The lock of a multisig: nothing of it was consumed before its content,   *)
(* and its reserved byte was looked at with the first byte of it.           *)

BeforeLock == args.at \in {"total_size", "offset"} \/ (args.at = "length" /\ args.field = "lock")
InLock == args.at = "body" /\ args.field = "lock"
ReservedPassed == ~ BeforeLock /\ (InLock => args.seen > 0)

Reserved(m) ==
    m.multisig /\ Len(Lock(m.witnesses[1])) > 4 /\ Lock(m.witnesses[1])[5] # 0

LockInPlace ==
    /\ WholeFirstWitness /\ item = 0 /\ ~ ReservedPassed => tx.consumed = 0
    /\ WholeFirstWitness /\ Reserved(message) /\ ReservedPassed => unsafe

-------------------------------------------------------------------------------
(* Parts of a witness.                                                     *)

(* A part of a part of a witness (SubSeq of the buffer given to the parser). *)
LEMMA Part ==
    ASSUME NEW w \in Seq(Byte), NEW from \in Nat, NEW to \in Nat, from <= to, to <= Len(w)
    PROVE  /\ SubSeq(w, from + 1, to) \in Seq(Byte)
           /\ Len(SubSeq(w, from + 1, to)) = to - from
           /\ \A i, j \in Nat : i <= j /\ j <= to - from =>
                SubSeq(SubSeq(w, from + 1, to), i + 1, j) = SubSeq(w, from + i + 1, from + j)
  OBVIOUS

(* Two parts next to each other (a buffer goes on where the last one ended). *)
LEMMA Pieces ==
    ASSUME NEW w \in Seq(Byte), NEW from \in Nat, NEW mid \in Nat, NEW to \in Nat,
           from <= mid, mid <= to, to <= Len(w)
    PROVE  SubSeq(w, from + 1, mid) \o SubSeq(w, mid + 1, to) = SubSeq(w, from + 1, to)
  BY ConcatAdjacentSubSeq

(* The fields of a whole WitnessArgs lie one behind the other, and the length *)
(* of each fills it.                                                        *)
LEMMA WholeFields ==
    ASSUME NEW w \in Seq(Byte), IsWitnessArgs(w)
    PROVE  /\ Len(w) \in Nat /\ NumAt(w, 0) = Len(w) /\ NumAt(w, 4) = 16
           /\ \A f \in Fields :
                /\ FieldStart(w, f) \in Nat /\ FieldStop(w, f) \in Nat
                /\ 16 <= FieldStart(w, f) /\ FieldStart(w, f) <= FieldStop(w, f)
                /\ FieldStop(w, f) <= Len(w)
                /\ FieldStart(w, f) # FieldStop(w, f) =>
                    /\ FieldStart(w, f) + 4 <= FieldStop(w, f)
                    /\ NumAt(w, FieldStart(w, f)) = FieldStop(w, f) - FieldStart(w, f) - 4
  <1> DEFINE a == NumAt(w, 8)
             b == NumAt(w, 12)
  <1>1. Len(w) \in Nat /\ Len(w) >= 16
    BY LenProperties DEF IsWitnessArgs
  <1>2. a \in Int /\ b \in Int
    <2>1. \A n \in {8, 12} : SubSeq(w, n + 1, n + 4) \in Seq(Byte) /\ Len(SubSeq(w, n + 1, n + 4)) >= 4
      BY <1>1
    <2>2. Num(SubSeq(w, 8 + 1, 8 + 4)) \in Int /\ Num(SubSeq(w, 12 + 1, 12 + 4)) \in Int
      BY <2>1, NumInt
    <2> QED BY <2>2 DEF NumAt
  <1>3. /\ NumAt(w, 0) = Len(w) /\ NumAt(w, 4) = 16 /\ 16 <= a /\ a <= b /\ b <= Len(w)
        /\ IsBytesOpt(SubSeq(w, 17, a)) /\ IsBytesOpt(SubSeq(w, a + 1, b))
        /\ IsBytesOpt(SubSeq(w, b + 1, Len(w)))
    BY DEF IsWitnessArgs, Slice
  <1> HIDE DEF a, b
  <1>4. ASSUME NEW from \in Nat, NEW to \in Nat, from <= to, to <= Len(w),
               IsBytesOpt(SubSeq(w, from + 1, to)), from # to
        PROVE  from + 4 <= to /\ NumAt(w, from) = to - from - 4
    <2>1. SubSeq(w, from + 1, to) # <<>> /\ Len(SubSeq(w, from + 1, to)) = to - from
      BY <1>4
    <2>2. to - from >= 4 /\ NumAt(SubSeq(w, from + 1, to), 0) = to - from - 4
      BY <1>4, <2>1 DEF IsBytesOpt
    <2> DEFINE part == SubSeq(w, from + 1, to)
    <2>3. 0 <= 4 /\ 4 <= to - from /\ 0 \in Nat /\ 4 \in Nat /\ from + 0 + 1 = from + 1
      BY <1>4, <2>2
    <2>4. SubSeq(part, 0 + 1, 4) = SubSeq(w, from + 0 + 1, from + 4)
      <3> HIDE DEF part
      <3>1. \A i, j \in Nat : i <= j /\ j <= to - from =>
                SubSeq(part, i + 1, j) = SubSeq(w, from + i + 1, from + j)
        BY <1>4, Part DEF part
      <3> QED BY <2>3, <3>1
    <2>5. NumAt(part, 0) = NumAt(w, from)
      <3> HIDE DEF part
      <3>1. 0 + 4 = 4
        OBVIOUS
      <3> QED BY <2>3, <2>4, <3>1, Zenon DEF NumAt
    <2> QED BY <2>2, <2>5
  <1>5. /\ FieldStart(w, "lock") = 16 /\ FieldStop(w, "lock") = a
        /\ FieldStart(w, "input_type") = a /\ FieldStop(w, "input_type") = b
        /\ FieldStart(w, "output_type") = b /\ FieldStop(w, "output_type") = Len(w)
    BY DEF FieldStart, FieldStop, NextField, a, b
  <1>6. a \in Nat /\ b \in Nat /\ 16 \in Nat
    BY <1>1, <1>2, <1>3
  <1>7. /\ 16 # a => 16 + 4 <= a /\ NumAt(w, 16) = a - 16 - 4
        /\ a # b => a + 4 <= b /\ NumAt(w, a) = b - a - 4
        /\ b # Len(w) => b + 4 <= Len(w) /\ NumAt(w, b) = Len(w) - b - 4
    <2>1. a <= Len(w) /\ b <= Len(w) /\ 16 + 1 = 17
      BY <1>1, <1>2, <1>3
    <2>2. IsBytesOpt(SubSeq(w, 16 + 1, a))
      BY <1>3, <2>1
    <2>3. 16 # a => 16 + 4 <= a /\ NumAt(w, 16) = a - 16 - 4
      BY <1>3, <1>4, <1>6, <2>1, <2>2
    <2>4. a # b => a + 4 <= b /\ NumAt(w, a) = b - a - 4
      BY <1>3, <1>4, <1>6, <2>1
    <2>5. b # Len(w) => b + 4 <= Len(w) /\ NumAt(w, b) = Len(w) - b - 4
      BY <1>1, <1>3, <1>4, <1>6, <2>1
    <2> QED BY <2>3, <2>4, <2>5
  <1>8. ASSUME NEW f \in Fields
        PROVE  /\ FieldStart(w, f) \in Nat /\ FieldStop(w, f) \in Nat
               /\ 16 <= FieldStart(w, f) /\ FieldStart(w, f) <= FieldStop(w, f)
               /\ FieldStop(w, f) <= Len(w)
               /\ FieldStart(w, f) # FieldStop(w, f) =>
                    /\ FieldStart(w, f) + 4 <= FieldStop(w, f)
                    /\ NumAt(w, FieldStart(w, f)) = FieldStop(w, f) - FieldStart(w, f) - 4
    <2>1. f = "lock" \/ f = "input_type" \/ f = "output_type"
      BY DEF Fields
    <2>2. /\ 16 <= 16 /\ 16 <= a /\ a <= b /\ b <= Len(w) /\ a <= Len(w) /\ 16 <= b /\ Len(w) <= Len(w)
      BY <1>1, <1>3, <1>6
    <2> QED BY <1>1, <1>5, <1>6, <1>7, <2>1, <2>2, Zenon
  <1> QED BY <1>1, <1>3, <1>8

-------------------------------------------------------------------------------
(* Reading the first witness.                                              *)

(* Where the parser is stays inside the witness, and a number it is to read  *)
(* is there as a whole.                                                    *)
LEMMA PlaceInside ==
    ASSUME NEW w \in Seq(Byte), IsWitnessArgs(w), NEW a \in ArgsStates, NEW p, ArgsInPlace(w, a, p)
    PROVE  /\ Place(w, a) \in Nat /\ p \in Nat
           /\ a.at # "body" =>
                /\ Place(w, a) + Len(a.num) = p
                /\ a.at # "length" \/ FieldStart(w, a.field) # FieldStop(w, a.field) =>
                        Place(w, a) + 4 <= Len(w)
  <1>1. Len(w) >= 16 /\ Len(w) \in Nat
    BY LenProperties DEF IsWitnessArgs
  <1>2. a.field \in Fields /\ a.num \in Seq(Byte) /\ a.seen \in Nat /\ a.at \in ArgsPositions
    BY DEF ArgsStates
  <1>3. Len(a.num) \in Nat
    BY <1>2, LenProperties
  <1>4. /\ FieldStart(w, a.field) \in Nat /\ FieldStop(w, a.field) \in Nat
        /\ FieldStop(w, a.field) <= Len(w)
        /\ FieldStart(w, a.field) # FieldStop(w, a.field) =>
             FieldStart(w, a.field) + 4 <= FieldStop(w, a.field)
    BY <1>2, WholeFields
  <1>5. Place(w, a) \in Nat
    BY <1>4 DEF Place
  <1>6. CASE a.at = "body"
    <2>1. p = Place(w, a) + a.seen
      BY <1>6 DEF ArgsInPlace, InContent
    <2> QED BY <1>2, <1>5, <1>6, <2>1
  <1>7. CASE a.at # "body"
    <2>1. p = Place(w, a) + Len(a.num)
      BY <1>7 DEF ArgsInPlace, InNumber
    <2>2. a.at # "complete"
      BY DEF ArgsInPlace
    <2>3. CASE a.at = "length"
      <3>1. Place(w, a) = FieldStart(w, a.field)
        BY <2>3 DEF Place
      <3> QED BY <1>1, <1>3, <1>4, <1>5, <2>1, <2>3, <3>1
    <2>4. CASE a.at \in {"total_size", "offset"}
      <3>1. Place(w, a) <= 12
        BY <2>4 DEF Place
      <3> QED BY <1>1, <1>3, <1>5, <2>1, <2>4, <3>1
    <2> QED BY <1>2, <1>7, <2>2, <2>3, <2>4 DEF ArgsPositions
  <1> QED BY <1>6, <1>7

(* What the parser is given of the first witness (process_witness).         *)
Given(w) ==
    /\ w \in Seq(Byte) /\ IsWitnessArgs(w) /\ Len(w) \in Nat
    /\ w = Witness /\ w = FirstWitness /\ item = 0
    /\ args \in ArgsStates /\ chunk \in Seq(Byte) /\ hash \in Seq(Byte)
    /\ read \in Nat /\ read <= Len(w)

LEMMA InParse ==
    ASSUME TypeOK, VectorInPlace, FirstInPlace, WholeFirstWitness, at = "parse"
    PROVE  /\ Given(FirstWitness)
           /\ ArgsInPlace(FirstWitness, args, read - Len(chunk))
           /\ read - Len(chunk) \in Nat /\ Len(chunk) \in Nat
           /\ chunk = SubSeq(FirstWitness, read - Len(chunk) + 1, read)
  <1>1. item = 0 /\ item < Len(message.witnesses)
    BY DEF VectorInPlace, TypeOK
  <1>2. Witness = FirstWitness
    BY <1>1 DEF Witness, FirstWitness
  <1>3. /\ FirstWitness \in Seq(Byte) /\ Len(FirstWitness) \in Nat
        /\ read \in Nat /\ read <= Len(FirstWitness)
        /\ args \in ArgsStates /\ chunk \in Seq(Byte) /\ hash \in Seq(Byte)
    BY <1>1, <1>2, WitnessBytes DEF TypeOK
  <1>4. IsWitnessArgs(FirstWitness)
    BY DEF WholeFirstWitness, FirstWitness
  <1>5. /\ ArgsInPlace(FirstWitness, args, read - Len(chunk))
        /\ chunk = SubSeq(FirstWitness, read - Len(chunk) + 1, read)
    BY <1>1 DEF FirstInPlace
  <1>6. read - Len(chunk) \in Nat
    BY <1>3, <1>4, <1>5, PlaceInside
  <1>7. Len(chunk) \in Nat
    BY <1>3, LenProperties
  <1> QED BY <1>1, <1>2, <1>3, <1>4, <1>5, <1>6, <1>7 DEF Given

(* mol_parse_num puts a number together from what is kept of it and what the *)
(* buffer holds.                                                           *)
NumberParsed(w, pl, p, r, num, buf) ==
    LET whole == num \o buf
    IN  /\ whole = SubSeq(w, pl + 1, r) /\ Len(whole) = r - pl
        /\ Len(num) = p - pl /\ Len(buf) = r - p
        /\ r - pl >= 4 =>
             /\ Num(SubSeq(whole, 1, 4)) = NumAt(w, pl)
             /\ SubSeq(whole, 5, Len(whole)) = SubSeq(w, pl + 4 + 1, r)
             /\ Len(SubSeq(whole, 5, Len(whole))) = r - (pl + 4)
             /\ SubSeq(buf, 1, Copy(4 - Len(num), Len(buf))) = SubSeq(w, p + 1, pl + 4)

LEMMA NumberFrom ==
    ASSUME NEW w \in Seq(Byte), NEW pl \in Nat, NEW p \in Nat, NEW r \in Nat,
           pl <= p, p <= r, r <= Len(w), p - pl < 4,
           NEW num, num = SubSeq(w, pl + 1, p), NEW buf, buf = SubSeq(w, p + 1, r)
    PROVE  NumberParsed(w, pl, p, r, num, buf)
  <1> DEFINE whole == num \o buf
  <1>1. Len(num) = p - pl /\ Len(buf) = r - p
    BY Part
  <1>2. whole = SubSeq(w, pl + 1, r)
    BY Pieces
  <1>3. Len(whole) = r - pl
    BY <1>2, Part
  <1> HIDE DEF whole
  <1>4. ASSUME r - pl >= 4
        PROVE  /\ Num(SubSeq(whole, 1, 4)) = NumAt(w, pl)
               /\ SubSeq(whole, 5, Len(whole)) = SubSeq(w, pl + 4 + 1, r)
               /\ Len(SubSeq(whole, 5, Len(whole))) = r - (pl + 4)
               /\ SubSeq(buf, 1, Copy(4 - Len(num), Len(buf))) = SubSeq(w, p + 1, pl + 4)
    <2>1. \A i, j \in Nat : i <= j /\ j <= r - pl =>
              SubSeq(whole, i + 1, j) = SubSeq(w, pl + i + 1, pl + j)
      <3>1. pl <= r
        OBVIOUS
      <3> QED BY <1>2, <3>1, Part
    <2>2. SubSeq(whole, 0 + 1, 4) = SubSeq(w, pl + 0 + 1, pl + 4)
      <3>1. 0 <= 4 /\ 4 <= r - pl
        BY <1>4
      <3> QED BY <2>1, <3>1
    <2>3. Num(SubSeq(whole, 1, 4)) = NumAt(w, pl)
      <3>1. 0 + 1 = 1 /\ pl + 0 + 1 = pl + 1
        OBVIOUS
      <3> QED BY <2>2, <3>1, Zenon DEF NumAt
    <2>4. SubSeq(whole, 4 + 1, r - pl) = SubSeq(w, pl + 4 + 1, pl + (r - pl))
      <3>1. 4 <= r - pl /\ r - pl <= r - pl /\ 4 \in Nat /\ r - pl \in Nat
        BY <1>4
      <3> QED BY <2>1, <3>1
    <2>5. SubSeq(whole, 5, Len(whole)) = SubSeq(w, pl + 4 + 1, r)
      <3>1. 4 + 1 = 5 /\ pl + (r - pl) = r
        OBVIOUS
      <3> QED BY <1>3, <2>4, <3>1, Zenon
    <2>6. Len(SubSeq(whole, 5, Len(whole))) = r - (pl + 4)
      <3>1. pl + 4 <= r /\ pl + 4 \in Nat
        BY <1>4
      <3>2. Len(SubSeq(w, (pl + 4) + 1, r)) = r - (pl + 4)
        BY <3>1, Part
      <3> QED BY <2>5, <3>2, Zenon
    <2>7. Copy(4 - Len(num), Len(buf)) = pl + 4 - p
      BY <1>1, <1>4 DEF Copy
    <2>8. SubSeq(buf, 0 + 1, pl + 4 - p) = SubSeq(w, p + 0 + 1, p + (pl + 4 - p))
      <3>1. 0 <= pl + 4 - p /\ pl + 4 - p <= r - p /\ pl + 4 - p \in Nat /\ 0 \in Nat
        BY <1>4
      <3>2. \A i, j \in Nat : i <= j /\ j <= r - p =>
              SubSeq(buf, i + 1, j) = SubSeq(w, p + i + 1, p + j)
        BY Part
      <3> QED BY <3>1, <3>2
    <2>9. SubSeq(buf, 1, Copy(4 - Len(num), Len(buf))) = SubSeq(w, p + 1, pl + 4)
      <3>1. 0 + 1 = 1 /\ p + 0 + 1 = p + 1 /\ p + (pl + 4 - p) = pl + 4
        OBVIOUS
      <3> QED BY <2>7, <2>8, <3>1, Zenon
    <2> QED BY <2>3, <2>5, <2>6, <2>9
  <1> QED BY <1>1, <1>2, <1>3, <1>4 DEF whole, NumberParsed

LEMMA NumberInPlace ==
    ASSUME TypeOK, VectorInPlace, FirstInPlace, WholeFirstWitness, at = "parse",
           args.at \in {"total_size", "offset", "length"}
    PROVE  LET w == FirstWitness
               pl == Place(w, args)
           IN  /\ pl \in Nat
               /\ NumBytes = SubSeq(w, pl + 1, read) /\ Len(NumBytes) = read - pl
               /\ read - Len(chunk) = pl + Len(args.num) /\ Len(args.num) < 4 /\ Len(args.num) \in Nat
               /\ NumComplete =>
                    /\ pl + 4 <= read
                    /\ NumValue = NumAt(w, pl)
                    /\ AfterNum = SubSeq(w, pl + 4 + 1, read) /\ Len(AfterNum) = read - (pl + 4)
                    /\ NumTaken = SubSeq(w, read - Len(chunk) + 1, pl + 4)
  <1> DEFINE w == FirstWitness
             pl == Place(w, args)
             p == read - Len(chunk)
  <1>1. Given(w) /\ ArgsInPlace(w, args, p) /\ p \in Nat /\ Len(chunk) \in Nat
          /\ chunk = SubSeq(w, p + 1, read)
    BY InParse
  <1>2. InNumber(w, args, p)
    BY <1>1 DEF ArgsInPlace
  <1>3. pl \in Nat
    BY <1>1, PlaceInside DEF Given
  <1>4. /\ args.num = SubSeq(w, pl + 1, p) /\ p = pl + Len(args.num) /\ Len(args.num) < 4
        /\ Len(args.num) \in Nat /\ w \in Seq(Byte) /\ read \in Nat /\ read <= Len(w)
    <2>1. Len(args.num) \in Nat
      BY <1>1, LenProperties DEF Given, ArgsStates
    <2> QED BY <1>1, <1>2, <2>1 DEF InNumber, Given
  <1> HIDE DEF w, pl, p
  <1>5. pl <= p /\ p <= read /\ p - pl < 4
    BY <1>1, <1>3, <1>4 DEF p
  <1>6. /\ NumBytes = SubSeq(w, pl + 1, read) /\ Len(NumBytes) = read - pl
        /\ read - pl >= 4 =>
             /\ Num(SubSeq(NumBytes, 1, 4)) = NumAt(w, pl)
             /\ SubSeq(NumBytes, 5, Len(NumBytes)) = SubSeq(w, pl + 4 + 1, read)
             /\ Len(SubSeq(NumBytes, 5, Len(NumBytes))) = read - (pl + 4)
             /\ SubSeq(chunk, 1, Copy(4 - Len(args.num), Len(chunk))) = SubSeq(w, p + 1, pl + 4)
    <2>1. NumberParsed(w, pl, p, read, args.num, chunk)
      BY <1>1, <1>3, <1>4, <1>5, NumberFrom
    <2> QED BY <2>1, Zenon DEF NumBytes, NumberParsed
  <1>7. NumComplete => read - pl >= 4 /\ pl + 4 <= read
    BY <1>3, <1>4, <1>6 DEF NumComplete
  <1> QED BY <1>3, <1>4, <1>6, <1>7 DEF NumValue, AfterNum, NumTaken, w, pl, p

-------------------------------------------------------------------------------
(* The parser of the witnesses, for every message.                         *)

(* What a step of the parser of the first witness keeps.                   *)
LEMMA ParseKeepsVector ==
    ASSUME TypeOK, VectorInPlace, at = "parse", UNCHANGED <<message, item, read, final_hash>>,
           at' = "parse" \/ Return,
           tx'.first = tx.first, tx'.done <=> args'.at = "complete"
    PROVE  VectorInPlace'
  <1>1. Witness' = Witness
    BY DEF Witness
  <1>2. item = 0 /\ tx.first /\ final_hash = <<>>
    BY DEF VectorInPlace
  <1>3. at' \in {"parse", "more", "end"} /\ (at' = "end" => read = Len(Witness))
    BY DEF Return, AfterChunk
  <1> QED BY <1>1, <1>2, <1>3, Zenon DEF VectorInPlace

LEMMA FieldDoneVector ==
    ASSUME TypeOK, VectorInPlace, at = "parse", args.at # "complete", NEW rest, FieldDone(rest)
    PROVE  /\ at' = "parse" \/ Return
           /\ tx'.first = tx.first /\ (tx'.done <=> args'.at = "complete")
  <1>1. tx \in Witnesses /\ args \in ArgsStates /\ (tx.done <=> args.at = "complete")
    BY DEF TypeOK, VectorInPlace
  <1>2. CASE args.field = "output_type"
    BY <1>1, <1>2 DEF FieldDone, Witnesses, ArgsStates
  <1>3. CASE args.field # "output_type"
    BY <1>1, <1>3 DEF FieldDone, ArgsStates
  <1> QED BY <1>2, <1>3

(* What witness_lock_arg_body_chunk does with a chunk, without the bytes      *)
(* behind it: a reserved byte it rejects is one of the chunk, if the chunk    *)
(* holds any, and the number of keys is taken from it when it reaches so far. *)
ChunkTaken(buf) ==
    \/ /\ tx.consumed = 0 /\ (Len(buf) > 0 => buf[1] # 0)
       /\ unsafe' = TRUE /\ UNCHANGED <<tx, hash, lock>>
    \/ \E threshold, cnt \in Byte :
        /\ tx.consumed = 0 /\ Len(buf) > 0 => buf[1] = 0
        /\ tx.consumed >= 4 => cnt = tx.pubkeys_cnt
        /\ tx.consumed < 4 /\ tx.consumed + Len(buf) >= 4 => cnt = buf[4 - tx.consumed]
        /\ tx' = [tx EXCEPT !.threshold = threshold, !.pubkeys_cnt = cnt,
                            !.consumed = tx.consumed + Len(buf)]
        /\ hash' = hash \o ZeroSignatures(buf, cnt, tx.consumed)
        /\ lock' = lock \o ZeroSignatures(buf, cnt, tx.consumed)
        /\ unsafe' = unsafe

LEMMA LockChunkTaken ==
    ASSUME TypeOK, NEW buf \in Seq(Byte), LockBodyChunk(buf)
    PROVE  ChunkTaken(buf)
  <1> DEFINE n == Len(buf)
             c == tx.consumed
  <1>1. PICK stale \in [{i \in 0 .. 3 : i >= n} -> StaleBytes] :
          LET flag(i) == IF i < n THEN buf[i + 1] ELSE stale[i]
              cnt == IF c < 4 THEN flag(3 - c) ELSE tx.pubkeys_cnt
              zeroed == ZeroSignatures(buf, cnt, c)
          IN IF c = 0 /\ flag(0) # 0
             THEN /\ unsafe' = TRUE
                  /\ UNCHANGED <<tx, hash, lock>>
             ELSE /\ tx' = [tx EXCEPT !.threshold = IF c < 3 THEN flag(2 - c) ELSE @,
                                      !.pubkeys_cnt = cnt,
                                      !.consumed = c + n]
                  /\ hash' = hash \o zeroed
                  /\ lock' = lock \o zeroed
                  /\ UNCHANGED unsafe
    BY DEF LockBodyChunk, ReservedAhead, ThresholdAhead
  <1>2. tx \in Witnesses /\ c \in Nat /\ n \in Nat
    BY LenProperties DEF TypeOK, Witnesses
  <1> DEFINE flag(i) == IF i < n THEN buf[i + 1] ELSE stale[i]
             threshold == IF c < 3 THEN flag(2 - c) ELSE tx.threshold
             cnt == IF c < 4 THEN flag(3 - c) ELSE tx.pubkeys_cnt
             zeroed == ZeroSignatures(buf, cnt, c)
  <1>3. ASSUME NEW i \in 0 .. 3 PROVE flag(i) \in Byte
    <2>1. CASE i < n
      <3>1. i + 1 \in 1 .. Len(buf)
        BY <1>2, <2>1, SMT
      <3>2. buf[i + 1] \in Byte
        BY <3>1, ElementOfSeq
      <3>3. QED
        BY <2>1, <3>2
    <2>2. CASE ~(i < n)
      <3>1. i \in {k \in 0 .. 3 : k >= n}
        BY <1>2, <2>2, SMT
      <3>2. stale[i] \in StaleBytes
        BY <3>1
      <3>3. QED
        BY <2>2, <3>2, StaleAssumption
    <2>3. QED
      BY <2>1, <2>2
  <1>4. threshold \in Byte /\ cnt \in Byte
    <2>1. c < 3 => 2 - c \in 0 .. 3
      BY <1>2, SMTT(30)
    <2>2. c < 4 => 3 - c \in 0 .. 3
      BY <1>2, SMTT(30)
    <2>3. tx.threshold \in Byte /\ tx.pubkeys_cnt \in Byte
      BY <1>2 DEF Witnesses
    <2> HIDE DEF flag
    <2>4. QED
      BY <1>3, <2>1, <2>2, <2>3
  <1>5. /\ c >= 4 => cnt = tx.pubkeys_cnt
        /\ c < 4 /\ c + n >= 4 => cnt = buf[4 - c]
        /\ n > 0 => flag(0) = buf[1]
    BY <1>2, SMT
  <1>6. \/ c = 0 /\ flag(0) # 0 /\ unsafe' = TRUE /\ tx' = tx /\ hash' = hash /\ lock' = lock
        \/ /\ ~ (c = 0 /\ flag(0) # 0)
           /\ tx' = [tx EXCEPT !.threshold = threshold, !.pubkeys_cnt = cnt, !.consumed = c + n]
           /\ hash' = hash \o zeroed /\ lock' = lock \o zeroed /\ unsafe' = unsafe
    BY <1>1, Zenon
  <1> HIDE DEF threshold, cnt, flag
  <1> QED BY <1>4, <1>5, <1>6, Zenon DEF ChunkTaken

LEMMA ChunkTakenTx ==
    ASSUME TypeOK, NEW buf \in Seq(Byte), ChunkTaken(buf)
    PROVE  /\ tx'.first = tx.first /\ tx'.done = tx.done
           /\ tx'.consumed = tx.consumed \/ tx'.consumed = tx.consumed + Len(buf)
  <1>1. tx \in Witnesses
    BY DEF TypeOK
  <1> QED BY <1>1 DEF ChunkTaken, Witnesses

(* process_witness and its callbacks stay in the first witness.              *)
LEMMA ParseVectorStep ==
    ASSUME TypeOK, VectorInPlace, ParseFirstWitness
    PROVE  VectorInPlace'
  <1>1. /\ at = "parse" /\ UNCHANGED <<message, item, read, final_hash>>
        /\ tx \in Witnesses /\ args \in ArgsStates
    BY DEF ParseFirstWitness, NumIncomplete, ParseTotalSize, ParseOffset, ParseAbsentField,
           ParseFieldLength, ParseLockBody, ParseTypeBody, ParseComplete, TypeOK
  <1>2. tx.done <=> args.at = "complete"
    BY <1>1 DEF VectorInPlace
  <1>3. CASE NumIncomplete \/ ParseTotalSize \/ ParseOffset \/ ParseFieldLength
    <2>1. tx' = tx /\ (at' = "parse" \/ Return) /\ args.at # "complete"
      BY <1>3 DEF NumIncomplete, ParseTotalSize, ParseOffset, ParseFieldLength
    <2>2. args'.at # "complete"
      <3>1. CASE NumIncomplete
        <4>1. args' = [args EXCEPT !.num = NumBytes]
          BY <3>1 DEF NumIncomplete, NumKept
        <4> QED BY <1>1, <2>1, <4>1 DEF ArgsStates
      <3>2. CASE ParseTotalSize
        <4>1. args' = [args EXCEPT !.at = "offset", !.total_size = NumValue, !.num = <<>>]
          BY <3>2 DEF ParseTotalSize
        <4> QED BY <1>1, <4>1 DEF ArgsStates
      <3>3. CASE ParseOffset
        <4> DEFINE offset == [args.offset EXCEPT ![args.field] = NumValue]
        <4>1. \/ args' = [args EXCEPT !.at = "length", !.field = "lock", !.offset = offset,
                                      !.num = <<>>, !.seen = 0]
              \/ args' = [args EXCEPT !.field = NextField(args.field), !.offset = offset,
                                      !.num = <<>>]
          BY <3>3 DEF ParseOffset
        <4> HIDE DEF offset
        <4> QED BY <1>1, <2>1, <4>1 DEF ArgsStates
      <3>4. CASE ParseFieldLength
        <4>1. args' = [args EXCEPT !.at = "body", !.length = NumValue]
          BY <3>4 DEF ParseFieldLength
        <4> QED BY <1>1, <4>1 DEF ArgsStates
      <3> QED BY <1>3, <3>1, <3>2, <3>3, <3>4
    <2> QED BY <1>1, <1>2, <2>1, <2>2, ParseKeepsVector
  <1>4. CASE ParseAbsentField
    <2>1. FieldDone(chunk) /\ args.at # "complete"
      BY <1>4 DEF ParseAbsentField, Absent
    <2> QED BY <1>1, <2>1, FieldDoneVector, ParseKeepsVector
  <1>5. CASE ParseTypeBody
    <2>1. args.at # "complete"
      BY <1>5 DEF ParseTypeBody
    <2>2. CASE FieldDone(SubSeq(chunk, Len(FieldChunk) + 1, Len(chunk)))
      BY <1>1, <2>1, <2>2, FieldDoneVector, ParseKeepsVector
    <2>3. CASE args' = [args EXCEPT !.seen = @ + Len(FieldChunk)] /\ tx' = tx /\ Return
      <3>1. args'.at # "complete"
        BY <1>1, <2>1, <2>3 DEF ArgsStates
      <3> QED BY <1>1, <1>2, <2>1, <2>3, <3>1, ParseKeepsVector
    <2> QED BY <1>5, <2>2, <2>3 DEF ParseTypeBody
  <1>6. CASE ParseLockBody
    <2>1. args.at # "complete" /\ (at' = "parse" \/ Return)
      BY <1>6 DEF ParseLockBody
    <2>2. args'.at # "complete"
      <3>1. \/ args' = [args EXCEPT !.at = "length", !.field = "input_type", !.num = <<>>, !.seen = 0]
            \/ args' = [args EXCEPT !.seen = @ + Len(FieldChunk)]
        BY <1>6 DEF ParseLockBody
      <3> QED BY <1>1, <2>1, <3>1 DEF ArgsStates
    <2>3. tx'.first = tx.first /\ tx'.done = tx.done
      <3>1. CASE LockBodyChunk(FieldChunk)
        <4>1. FieldChunk \in Seq(Byte)
          BY FieldBytes
        <4>2. ChunkTaken(FieldChunk)
          BY <3>1, <4>1, LockChunkTaken
        <4> QED BY <4>1, <4>2, ChunkTakenTx
      <3>2. CASE tx' = tx
        BY <3>2
      <3> QED BY <1>6, <3>1, <3>2 DEF ParseLockBody
    <2> QED BY <1>1, <1>2, <2>1, <2>2, <2>3, ParseKeepsVector
  <1>7. CASE ParseComplete
    <2>1. tx' = [tx EXCEPT !.done = TRUE] /\ args' = args /\ Return /\ args.at = "complete"
      BY <1>7 DEF ParseComplete
    <2>2. tx'.first = tx.first /\ tx'.done
      BY <1>1, <2>1 DEF Witnesses
    <2> QED BY <1>1, <2>1, <2>2, ParseKeepsVector
  <1> QED BY <1>3, <1>4, <1>5, <1>6, <1>7 DEF ParseFirstWitness

(* A message has witnesses.                                                *)
LEMMA ItemBounds ==
    ASSUME TypeOK
    PROVE  /\ item \in Nat /\ Len(message.witnesses) \in Nat /\ Len(message.witnesses) # 0
           /\ item <= Len(message.witnesses) /\ tx \in Witnesses /\ read \in Nat
  <1>1. message.witnesses \in Seq(Seq(Byte)) \ {<<>>}
    BY MessagesAssumption DEF TypeOK
  <1>2. Len(message.witnesses) \in Nat /\ Len(message.witnesses) # 0
    BY <1>1
  <1> QED BY <1>2 DEF TypeOK

(* begin_witness, process_witness, process_witness_end and the packets.      *)
LEMMA VectorInPlaceStep ==
    ASSUME TypeOK, VectorInPlace, [Next]_vars
    PROVE  VectorInPlace'
  <1>1. /\ item \in Nat /\ Len(message.witnesses) \in Nat /\ Len(message.witnesses) # 0
        /\ item <= Len(message.witnesses) /\ tx \in Witnesses /\ read \in Nat
    BY ItemBounds
  <1>2. CASE NewPacket
    <2>1. /\ at \in {"length", "more"} /\ at' \in {"length", "body"}
          /\ at' = "length" <=> at = "length"
          /\ UNCHANGED <<message, item, read, chunk, args, tx, hash, final_hash, unsafe, lock>>
      BY <1>2 DEF NewPacket
    <2> QED BY <2>1, Zenon DEF VectorInPlace
  <1>3. CASE BeginWitness
    <2>1. /\ at = "index" /\ UNCHANGED <<message, item, chunk, final_hash>>
          /\ at' = IF item < Len(message.witnesses) THEN "length" ELSE "finalize"
      BY <1>3 DEF BeginWitness
    <2>2. final_hash = <<>>
      BY <2>1 DEF VectorInPlace
    <2>3. CASE item = 0
      <3>1. /\ at' = "length" /\ args' = ArgsStart /\ lock' = <<>>
            /\ tx' = [tx EXCEPT !.first = TRUE, !.threshold = 0, !.pubkeys_cnt = 0, !.consumed = 0]
        BY <1>1, <1>3, <2>1, <2>3 DEF BeginWitness
      <3>2. tx'.first /\ tx'.consumed = 0 /\ tx'.done = tx.done
        BY <1>1, <3>1 DEF Witnesses
      <3>3. args = ArgsStart /\ chunk = <<>> /\ (tx.done <=> args.at = "complete")
        BY <2>1, <2>3 DEF VectorInPlace
      <3> QED BY <2>1, <2>2, <2>3, <3>1, <3>2, <3>3, Zenon DEF VectorInPlace
    <2>4. CASE item # 0
      <3>1. tx' = [tx EXCEPT !.first = FALSE]
        BY <1>3, <2>4 DEF BeginWitness
      <3>2. ~ tx'.first
        BY <1>1, <3>1 DEF Witnesses
      <3>3. at' = "finalize" => item = Len(message.witnesses)
        BY <1>1, <2>1
      <3> QED BY <2>1, <2>2, <2>4, <3>2, <3>3, Zenon DEF VectorInPlace
    <2> QED BY <2>3, <2>4
  <1>4. CASE WitnessLength
    <2>1. /\ at = "length" /\ at' \in {"end", "body", "length"}
          /\ UNCHANGED <<message, item, chunk, args, tx, final_hash, lock>>
          /\ at' = "end" => Len(Witness) = 0 /\ read' = 0
      BY <1>4 DEF WitnessLength, BodyStart
    <2>2. Witness' = Witness
      BY <2>1 DEF Witness
    <2> QED BY <2>1, <2>2, Zenon DEF VectorInPlace
  <1>5. CASE ProcessWitness
    <2>1. /\ at = "body" /\ UNCHANGED <<message, item, args, tx, final_hash, lock>>
          /\ at' \in {"parse", "end", "more"} /\ (at' = "parse" => tx.first)
          /\ at' = "end" => read' = Len(Witness)
      BY <1>5 DEF ProcessWitness
    <2>2. Witness' = Witness
      BY <2>1 DEF Witness
    <2> QED BY <2>1, <2>2, Zenon DEF VectorInPlace
  <1>6. CASE ProcessWitnessEnd
    <2>1. /\ at = "end" /\ at' = "index" /\ item' = item + 1
          /\ UNCHANGED <<message, final_hash>>
      BY <1>6 DEF ProcessWitnessEnd
    <2>2. item' # 0
      BY <1>1, <2>1
    <2> QED BY <2>1, <2>2, Zenon DEF VectorInPlace
  <1>7. CASE FinalizeWitnesses
    <2>1. /\ at = "finalize" /\ at' = "done" /\ final_hash' = hash
          /\ UNCHANGED <<message, packet, item, read, chunk, args, tx, hash, unsafe, lock>>
      BY <1>7 DEF FinalizeWitnesses
    <2> QED BY <2>1, Zenon DEF VectorInPlace
  <1>8. CASE ParseFirstWitness
    BY <1>8, ParseVectorStep
  <1>9. CASE UNCHANGED vars
    BY <1>9, Zenon DEF vars, VectorInPlace, Witness
  <1> QED BY <1>2, <1>3, <1>4, <1>5, <1>6, <1>7, <1>8, <1>9 DEF Next, Device

-------------------------------------------------------------------------------
(* The steps of the parser of a whole first witness.                       *)

(* The size of a field by the offsets is what lies between its ends.        *)
LEMMA FieldSizeIs ==
    ASSUME NEW w \in Seq(Byte), args \in ArgsStates, args.total_size = Len(w),
           args.offset = Offsets(w)
    PROVE  FieldSize(args.field) = FieldStop(w, args.field) - FieldStart(w, args.field)
  <1>1. args.field \in Fields
    BY DEF ArgsStates
  <1>2. \A f \in Fields : args.offset[f] = FieldStart(w, f)
    BY DEF Offsets
  <1>3. NextField(args.field) \in Fields
    BY DEF NextField, Fields
  <1> QED BY <1>1, <1>2, <1>3 DEF FieldSize, FieldStop

(* A number begins where its place is.                                      *)
LEMMA NumberBegins ==
    ASSUME NEW w \in Seq(Byte), NEW a, NEW p \in Nat, Place(w, a) = p, a.num = <<>>
    PROVE  InNumber(w, a, p)
  <1>1. Len(a.num) = 0 /\ SubSeq(w, p + 1, p) = <<>>
    OBVIOUS
  <1> QED BY <1>1 DEF InNumber

(* What FieldDone leaves when a field is not the last: the next one.        *)
FieldAfter(a) == [a EXCEPT !.at = "length", !.field = NextField(a.field), !.num = <<>>, !.seen = 0]

LEMMA NextFieldInPlace ==
    ASSUME NEW w \in Seq(Byte), IsWitnessArgs(w), NEW a \in ArgsStates, a.field # "output_type",
           a.total_size = Len(w), a.offset = Offsets(w)
    PROVE  ArgsInPlace(w, FieldAfter(a), FieldStop(w, a.field))
  <1> DEFINE b == FieldAfter(a)
  <1>1. /\ b.at = "length" /\ b.field = NextField(a.field) /\ b.num = <<>> /\ b.seen = 0
        /\ b.total_size = Len(w) /\ b.offset = Offsets(w)
    BY DEF FieldAfter, ArgsStates
  <1>2. a.field \in Fields
    BY DEF ArgsStates
  <1>3. FieldStop(w, a.field) \in Nat
    BY <1>2, WholeFields
  <1>4. FieldStop(w, a.field) = FieldStart(w, NextField(a.field))
    BY DEF FieldStop
  <1> HIDE DEF b
  <1>5. Place(w, b) = FieldStop(w, a.field)
    BY <1>1, <1>4 DEF Place
  <1>6. InNumber(w, b, FieldStop(w, a.field))
    BY <1>1, <1>3, <1>5, NumberBegins
  <1>7. ArgsInPlace(w, b, FieldStop(w, a.field))
    BY <1>1, <1>6 DEF ArgsInPlace
  <1> QED BY <1>7 DEF b

LEMMA Goes ==
    ASSUME Given(FirstWitness), UNCHANGED <<message, item, read>>, at' = "parse", NEW q \in Nat,
           ArgsInPlace(FirstWitness, args', q), q <= read,
           chunk' = SubSeq(FirstWitness, q + 1, read)
    PROVE  FirstInPlace'
  <1>1. FirstWitness' = FirstWitness
    BY DEF FirstWitness
  <1>2. Len(chunk') = read - q
    BY Part DEF Given
  <1>3. read' - Len(chunk') = q
    BY <1>2 DEF Given
  <1>4. item' = 0
    BY DEF Given
  <1> QED BY <1>1, <1>3, <1>4, Zenon DEF FirstInPlace

LEMMA Returns ==
    ASSUME Given(FirstWitness), UNCHANGED <<message, item, read>>, Return,
           ArgsInPlace(FirstWitness, args', read), read < Len(FirstWitness)
    PROVE  FirstInPlace'
  <1>1. FirstWitness' = FirstWitness /\ item' = 0
    BY DEF FirstWitness, Given
  <1>2. at' = "more" /\ chunk' = <<>>
    BY DEF Return, AfterChunk, Given
  <1>3. read' - Len(chunk') = read
    BY <1>2 DEF Given
  <1> QED BY <1>1, <1>2, <1>3, Zenon DEF FirstInPlace

LEMMA Completes ==
    ASSUME Given(FirstWitness), UNCHANGED <<message, item, read>>, Return,
           args'.at = "complete", read = Len(FirstWitness)
    PROVE  FirstInPlace'
  <1>1. at' = "end" /\ item' = 0
    BY DEF Return, AfterChunk, Given
  <1> QED BY <1>1 DEF FirstInPlace

(* mol_parse_num, witness_offsets and the lengths of the fields.            *)
LEMMA NumberFirstStep ==
    ASSUME TypeOK, VectorInPlace, FirstInPlace, WholeFirstWitness,
           NumIncomplete \/ ParseTotalSize \/ ParseOffset \/ ParseFieldLength
    PROVE  /\ FirstInPlace'
           /\ ParseFieldLength =>
                /\ LengthFits(NumValue, FieldSize(args.field))
                /\ NumValue = FieldStop(FirstWitness, args.field)
                                - FieldStart(FirstWitness, args.field) - 4
                /\ NumValue \in Nat
  <1> DEFINE w == FirstWitness
             pl == Place(w, args)
  <1>1. at = "parse" /\ UNCHANGED <<message, item, read>> /\ args.at \in {"total_size", "offset", "length"}
    BY DEF NumIncomplete, ParseTotalSize, ParseOffset, ParseFieldLength
  <1>2. Given(w) /\ ArgsInPlace(w, args, read - Len(chunk))
    BY <1>1, InParse
  <1>3. /\ pl \in Nat
        /\ NumBytes = SubSeq(w, pl + 1, read) /\ Len(NumBytes) = read - pl
        /\ Len(args.num) < 4 /\ Len(args.num) \in Nat /\ read - Len(chunk) = pl + Len(args.num)
        /\ NumComplete =>
             /\ pl + 4 <= read
             /\ NumValue = NumAt(w, pl)
             /\ AfterNum = SubSeq(w, pl + 4 + 1, read)
    BY <1>1, NumberInPlace
  <1>4. /\ w \in Seq(Byte) /\ IsWitnessArgs(w) /\ args \in ArgsStates /\ args.field \in Fields
        /\ read \in Nat /\ Len(w) \in Nat /\ NumAt(w, 0) = Len(w) /\ NumAt(w, 4) = 16
    BY <1>2, WholeFields DEF Given, ArgsStates
  <1>5. args.at = "length" =>
            FieldSize(args.field) = FieldStop(w, args.field) - FieldStart(w, args.field)
    BY <1>2, <1>4, FieldSizeIs DEF ArgsInPlace
  <1>6. /\ FieldStart(w, args.field) \in Nat /\ FieldStop(w, args.field) \in Nat
        /\ FieldStart(w, args.field) <= FieldStop(w, args.field)
        /\ FieldStart(w, args.field) # FieldStop(w, args.field) =>
             /\ FieldStart(w, args.field) + 4 <= FieldStop(w, args.field)
             /\ NumAt(w, FieldStart(w, args.field))
                  = FieldStop(w, args.field) - FieldStart(w, args.field) - 4
    BY <1>4, WholeFields
  <1>7. args.at = "length" /\ ~ Absent => FieldStart(w, args.field) # FieldStop(w, args.field)
    BY <1>5, <1>6 DEF Absent
  <1> HIDE DEF w, pl
  <1>8. CASE NumIncomplete
    <2>1. args' = [args EXCEPT !.num = NumBytes] /\ Return /\ ~ Absent /\ ~ NumComplete
      BY <1>8 DEF NumIncomplete, NumKept
    <2>2. /\ args'.num = NumBytes /\ args'.at = args.at /\ args'.field = args.field
          /\ args'.seen = args.seen /\ args'.total_size = args.total_size
          /\ args'.offset = args.offset
      BY <1>4, <2>1 DEF ArgsStates
    <2>3. Place(w, args') = pl
      BY <2>2 DEF Place, pl
    <2>4. read - pl < 4 /\ pl <= read
      <3>1. Len(chunk) \in Nat
        BY <1>2, LenProperties DEF Given
      <3> QED BY <1>3, <1>4, <2>1, <3>1 DEF NumComplete
    <2>5. InNumber(w, args', read)
      <3>1. Len(args'.num) = read - pl /\ args'.num = SubSeq(w, pl + 1, read)
        BY <1>3, <2>2
      <3> QED BY <1>3, <1>4, <2>3, <2>4, <3>1 DEF InNumber
    <2>6. ArgsInPlace(w, args', read)
      BY <1>1, <1>2, <1>7, <2>1, <2>2, <2>5 DEF ArgsInPlace
    <2>7. pl + 4 <= Len(w)
      BY <1>1, <1>2, <1>4, <1>7, <2>1, PlaceInside DEF pl
    <2>8. read < Len(w)
      BY <1>3, <1>4, <2>4, <2>7
    <2>9. ~ ParseFieldLength
      BY <2>1 DEF ParseFieldLength
    <2> QED BY <1>1, <1>2, <2>1, <2>6, <2>8, <2>9, Returns DEF w
  <1>9. CASE ParseTotalSize
    <2>1. /\ args' = [args EXCEPT !.at = "offset", !.total_size = NumValue, !.num = <<>>]
          /\ chunk' = AfterNum /\ at' = "parse" /\ args.at = "total_size" /\ NumComplete
      BY <1>1, <1>9 DEF ParseTotalSize
    <2>2. /\ args'.num = <<>> /\ args'.at = "offset" /\ args'.field = args.field
          /\ args'.total_size = NumValue
      BY <1>4, <2>1 DEF ArgsStates
    <2>3. pl = 0 /\ args.field = "lock"
      BY <1>2, <2>1 DEF Place, pl, ArgsInPlace
    <2>4. Place(w, args') = 4 /\ pl + 4 = 4 /\ args'.total_size = Len(w)
      BY <1>3, <1>4, <2>1, <2>2, <2>3 DEF Place
    <2>5. ArgsInPlace(w, args', 4)
      <3>1. InNumber(w, args', 4)
        BY <1>4, <2>2, <2>4, NumberBegins
      <3> QED BY <2>2, <2>3, <2>4, <3>1 DEF ArgsInPlace
    <2>6. chunk' = SubSeq(w, 4 + 1, read) /\ 4 <= read
      BY <1>3, <2>1, <2>3
    <2>7. ~ ParseFieldLength
      BY <2>1 DEF ParseFieldLength
    <2> QED BY <1>1, <1>2, <2>1, <2>5, <2>6, <2>7, Goes DEF w
  <1>10. CASE ParseOffset
    <2> DEFINE offset == [args.offset EXCEPT ![args.field] = NumValue]
    <2>1. chunk' = AfterNum /\ at' = "parse" /\ args.at = "offset" /\ NumComplete
      BY <1>1, <1>10 DEF ParseOffset
    <2>2. /\ NumValue = NumAt(w, pl) /\ pl + 4 <= read /\ chunk' = SubSeq(w, pl + 4 + 1, read)
          /\ args.total_size = Len(w) /\ args.offset \in [Fields -> Int]
      BY <1>2, <1>3, <1>4, <2>1 DEF ArgsInPlace, ArgsStates
    <2>3. ~ ParseFieldLength
      BY <2>1 DEF ParseFieldLength
    <2>4. CASE args.field # "output_type"
      <3>1. args' = [args EXCEPT !.field = NextField(args.field), !.offset = offset, !.num = <<>>]
        BY <1>10, <2>4 DEF ParseOffset
      <3>2. /\ args'.at = "offset" /\ args'.field = NextField(args.field) /\ args'.num = <<>>
            /\ args'.total_size = Len(w) /\ args'.offset = offset
        <4> HIDE DEF offset
        <4> QED BY <1>4, <2>1, <2>2, <3>1 DEF ArgsStates
      <3>3. \/ args.field = "lock" /\ pl = 4 /\ NextField(args.field) = "input_type"
            \/ args.field = "input_type" /\ pl = 8 /\ NextField(args.field) = "output_type"
        BY <1>4, <2>1, <2>4 DEF Place, pl, Fields, NextField
      <3>4. Place(w, args') = pl + 4
        BY <3>2, <3>3 DEF Place
      <3>5. /\ args'.offset["lock"] = 16
            /\ args'.field = "output_type" => args'.offset["input_type"] = NumAt(w, 8)
        BY <1>2, <1>4, <2>1, <2>2, <3>2, <3>3 DEF ArgsInPlace, Fields
      <3>6. ArgsInPlace(w, args', pl + 4)
        <4>1. pl + 4 \in Nat
          BY <1>3
        <4>2. InNumber(w, args', pl + 4)
          BY <1>4, <3>2, <3>4, <4>1, NumberBegins
        <4>3. args'.at = "offset" /\ args'.total_size = Len(w)
          BY <3>2
        <4> QED BY <3>5, <4>2, <4>3 DEF ArgsInPlace
      <3>7. pl + 4 \in Nat
        BY <1>3
      <3> QED BY <1>1, <1>2, <2>1, <2>2, <2>3, <3>6, <3>7, Goes DEF w
    <2>5. CASE args.field = "output_type"
      <3>1. args' = [args EXCEPT !.at = "length", !.field = "lock", !.offset = offset,
                                 !.num = <<>>, !.seen = 0]
        BY <1>10, <2>5 DEF ParseOffset
      <3>2. /\ args'.at = "length" /\ args'.field = "lock" /\ args'.num = <<>>
            /\ args'.total_size = Len(w) /\ args'.offset = offset /\ args'.seen = 0
        <4> HIDE DEF offset
        <4> QED BY <1>4, <2>1, <2>2, <3>1 DEF ArgsStates
      <3>3. pl = 12
        BY <2>1, <2>5 DEF Place, pl
      <3>4. offset = Offsets(w)
        <4>1. args.offset["lock"] = 16 /\ args.offset["input_type"] = NumAt(w, 8)
          BY <1>2, <2>1, <2>5 DEF ArgsInPlace
        <4>2. offset["lock"] = 16 /\ offset["input_type"] = NumAt(w, 8) /\ offset["output_type"] = NumAt(w, 12)
          BY <2>2, <2>5, <3>3, <4>1 DEF Fields
        <4>3. /\ Offsets(w)["lock"] = 16 /\ Offsets(w)["input_type"] = NumAt(w, 8)
              /\ Offsets(w)["output_type"] = NumAt(w, 12)
          BY DEF Offsets, FieldStart, Fields
        <4>4. \A f \in Fields : offset[f] = Offsets(w)[f]
          BY <4>2, <4>3, Zenon DEF Fields
        <4>5. offset = [f \in Fields |-> offset[f]] /\ Offsets(w) = [f \in Fields |-> Offsets(w)[f]]
          BY <2>2 DEF Offsets
        <4> HIDE DEF offset
        <4> QED BY <4>4, <4>5
      <3>5. Place(w, args') = pl + 4 /\ pl + 4 \in Nat
        BY <3>2, <3>3 DEF Place, FieldStart
      <3>6. ArgsInPlace(w, args', pl + 4)
        <4>1. InNumber(w, args', pl + 4)
          BY <1>4, <3>2, <3>5, NumberBegins
        <4> HIDE DEF offset
        <4> QED BY <3>2, <3>4, <4>1 DEF ArgsInPlace
      <3> QED BY <1>1, <1>2, <2>1, <2>2, <2>3, <3>5, <3>6, Goes DEF w
    <2> QED BY <2>4, <2>5
  <1>11. CASE ParseFieldLength
    <2>1. /\ args' = [args EXCEPT !.at = "body", !.length = NumValue]
          /\ args.at = "length" /\ ~ Absent /\ NumComplete
      BY <1>11 DEF ParseFieldLength
    <2>2. pl = FieldStart(w, args.field)
      BY <2>1 DEF pl, Place
    <2>3. /\ NumValue = FieldStop(w, args.field) - FieldStart(w, args.field) - 4
          /\ NumValue \in Nat /\ pl + 4 <= read
      BY <1>3, <1>6, <1>7, <2>1, <2>2
    <2>4. LengthFits(NumValue, FieldSize(args.field))
      BY <1>5, <1>6, <2>1, <2>3 DEF LengthFits
    <2>5. chunk' = SubSeq(w, pl + 4 + 1, read) /\ at' = "parse"
      BY <1>1, <1>3, <1>11, <2>1, <2>4 DEF ParseFieldLength
    <2>6. /\ args'.at = "body" /\ args'.length = NumValue /\ args'.field = args.field
          /\ args'.seen = args.seen /\ args'.total_size = args.total_size
          /\ args'.offset = args.offset
      BY <1>4, <2>1 DEF ArgsStates
    <2>7. InContent(w, args', pl + 4)
      <3>1. args'.seen = 0
        BY <1>2, <2>1, <2>6 DEF ArgsInPlace
      <3>2. Place(w, args') = pl + 4
        BY <2>2, <2>6 DEF Place
      <3> QED BY <1>3, <1>6, <2>3, <2>6, <3>1, <3>2 DEF InContent
    <2>8. ArgsInPlace(w, args', pl + 4)
      BY <1>2, <2>1, <2>6, <2>7 DEF ArgsInPlace
    <2>9. pl + 4 \in Nat
      BY <1>3
    <2> QED BY <1>1, <1>2, <2>3, <2>4, <2>5, <2>8, <2>9, Goes DEF w
  <1> QED BY <1>8, <1>9, <1>10, <1>11

(* A buffer that is a part of a witness, cut after k bytes.                 *)
BufferCut(w, p, r, k, buf) ==
    /\ SubSeq(buf, 1, k) = SubSeq(w, p + 1, p + k)
    /\ Len(SubSeq(buf, 1, k)) = k
    /\ SubSeq(buf, k + 1, Len(buf)) = SubSeq(w, p + k + 1, r)

LEMMA BufferIsCut ==
    ASSUME NEW w \in Seq(Byte), NEW p \in Nat, NEW r \in Nat, p <= r, r <= Len(w),
           NEW k \in Nat, k <= r - p, NEW buf, buf = SubSeq(w, p + 1, r)
    PROVE  BufferCut(w, p, r, k, buf)
  <1>1. Len(buf) = r - p
    BY Part
  <1>2. \A i, j \in Nat : i <= j /\ j <= r - p =>
            SubSeq(buf, i + 1, j) = SubSeq(w, p + i + 1, p + j)
    BY Part
  <1>3. SubSeq(buf, 0 + 1, k) = SubSeq(w, p + 0 + 1, p + k)
    BY <1>2
  <1>4. 0 + 1 = 1 /\ p + 0 + 1 = p + 1
    OBVIOUS
  <1>5. SubSeq(buf, 1, k) = SubSeq(w, p + 1, p + k)
    BY <1>3, <1>4, Zenon
  <1>6. Len(SubSeq(w, p + 1, p + k)) = k
    <2>1. p <= p + k /\ p + k <= Len(w) /\ p + k \in Nat
      BY LenProperties
    <2>2. Len(SubSeq(w, p + 1, p + k)) = (p + k) - p
      BY <2>1, Part
    <2> QED BY <2>2
  <1>7. SubSeq(buf, k + 1, r - p) = SubSeq(w, p + k + 1, p + (r - p))
    <2>1. r - p \in Nat /\ k <= r - p /\ r - p <= r - p
      OBVIOUS
    <2> QED BY <1>2, <2>1
  <1>8. p + (r - p) = r
    OBVIOUS
  <1>9. SubSeq(buf, k + 1, Len(buf)) = SubSeq(w, p + k + 1, r)
    BY <1>1, <1>7, <1>8, Zenon
  <1> QED BY <1>5, <1>6, <1>9, Zenon DEF BufferCut

(* What Bytes_parse passes on of the content of a field.                    *)
LEMMA ContentInPlace ==
    ASSUME TypeOK, VectorInPlace, FirstInPlace, WholeFirstWitness, at = "parse", args.at = "body"
    PROVE  LET w == FirstWitness
               p == FieldStart(w, args.field) + 4 + args.seen
               n == Len(FieldChunk)
           IN  /\ p \in Nat /\ n \in Nat /\ p = read - Len(chunk) /\ p + n <= read
               /\ FieldChunk = SubSeq(w, p + 1, p + n)
               /\ SubSeq(chunk, n + 1, Len(chunk)) = SubSeq(w, p + n + 1, read)
               /\ p + n <= FieldStop(w, args.field)
               /\ IF n = NeededOfField THEN p + n = FieldStop(w, args.field)
                  ELSE p + n = read /\ read < FieldStop(w, args.field)
               /\ (NeededOfField = 0 => n = 0)
  <1> DEFINE w == FirstWitness
             p == FieldStart(w, args.field) + 4 + args.seen
             n == Len(FieldChunk)
  <1>1. Given(w) /\ ArgsInPlace(w, args, read - Len(chunk)) /\ Len(chunk) \in Nat
          /\ chunk = SubSeq(w, read - Len(chunk) + 1, read) /\ read - Len(chunk) \in Nat
    BY InParse
  <1>2. /\ args.seen <= args.length /\ read - Len(chunk) = Place(w, args) + args.seen
        /\ FieldStart(w, args.field) + 4 + args.length = FieldStop(w, args.field)
    BY <1>1 DEF ArgsInPlace, InContent
  <1>3. Place(w, args) = FieldStart(w, args.field) + 4
    BY DEF Place
  <1>4. /\ args.field \in Fields /\ args.seen \in Nat /\ args.length \in Int
        /\ w \in Seq(Byte) /\ IsWitnessArgs(w) /\ read \in Nat /\ Len(w) \in Nat /\ read <= Len(w)
    BY <1>1 DEF Given, ArgsStates
  <1>5. FieldStart(w, args.field) \in Nat /\ FieldStop(w, args.field) \in Nat
    BY <1>4, WholeFields
  <1> HIDE DEF w
  <1>6. p \in Nat /\ p = read - Len(chunk) /\ p <= read
    BY <1>1, <1>2, <1>3, <1>4, <1>5
  <1>7. NeededOfField = FieldStop(w, args.field) - p /\ NeededOfField \in Nat
    BY <1>2, <1>4, <1>5 DEF NeededOfField
  <1> HIDE DEF p
  <1>8. Copy(NeededOfField, Len(chunk))
           = IF NeededOfField < read - p THEN NeededOfField ELSE read - p
    BY <1>1, <1>4, <1>6, <1>7 DEF Copy
  <1>9. PICK k \in Nat : k = Copy(NeededOfField, Len(chunk))
    BY <1>4, <1>6, <1>7, <1>8
  <1>10. k <= read - p /\ (IF k = NeededOfField THEN TRUE ELSE k = read - p /\ k < NeededOfField)
           /\ k <= NeededOfField
    BY <1>4, <1>6, <1>7, <1>8, <1>9
  <1>11. chunk = SubSeq(w, p + 1, read)
    BY <1>1, <1>6
  <1>12. BufferCut(w, p, read, k, chunk)
    BY <1>4, <1>6, <1>9, <1>10, <1>11, BufferIsCut
  <1>13. FieldChunk = SubSeq(w, p + 1, p + k) /\ n = k
    BY <1>9, <1>12, Zenon DEF FieldChunk, BufferCut
  <1>14. SubSeq(chunk, n + 1, Len(chunk)) = SubSeq(w, p + n + 1, read)
    BY <1>12, <1>13, Zenon DEF BufferCut
  <1> HIDE DEF n
  <1>15. /\ p + n <= FieldStop(w, args.field) /\ p + n <= read
         /\ IF n = NeededOfField THEN p + n = FieldStop(w, args.field)
            ELSE p + n = read /\ read < FieldStop(w, args.field)
         /\ (NeededOfField = 0 => n = 0) /\ n \in Nat
    <2> DEFINE stop == FieldStop(w, args.field)
               needed == NeededOfField
    <2>1. stop \in Nat /\ p \in Nat /\ read \in Nat /\ needed \in Nat /\ needed = stop - p /\ n = k
          /\ k \in Nat /\ k <= read - p /\ k <= needed
      BY <1>4, <1>5, <1>6, <1>7, <1>10, <1>13
    <2>2. k = needed \/ (k = read - p /\ k < needed)
      BY <1>10
    <2> HIDE DEF stop, needed
    <2>3. /\ p + n <= stop /\ p + n <= read
          /\ IF n = needed THEN p + n = stop ELSE p + n = read /\ read < stop
          /\ (needed = 0 => n = 0) /\ n \in Nat
      BY <2>1, <2>2
    <2> QED BY <2>3 DEF stop, needed
  <1>16. FieldChunk = SubSeq(w, p + 1, p + n)
    BY <1>13
  <1> QED BY <1>6, <1>14, <1>15, <1>16 DEF w, p, n

(* A content that goes on in the next packet.                               *)
LEMMA ContentReturns ==
    ASSUME TypeOK, VectorInPlace, FirstInPlace, WholeFirstWitness, at = "parse", args.at = "body",
           UNCHANGED <<message, item, read>>, Return, Len(FieldChunk) # NeededOfField,
           args' = [args EXCEPT !.seen = @ + Len(FieldChunk)]
    PROVE  FirstInPlace'
  <1> DEFINE w == FirstWitness
             p == FieldStart(w, args.field) + 4 + args.seen
             n == Len(FieldChunk)
  <1>1. Given(w) /\ ArgsInPlace(w, args, read - Len(chunk))
    BY InParse
  <1>2. p \in Nat /\ n \in Nat /\ p + n = read /\ read < FieldStop(w, args.field)
    BY ContentInPlace
  <1>3. /\ args.field \in Fields /\ args.seen \in Nat /\ args.length \in Int /\ args \in ArgsStates
        /\ w \in Seq(Byte) /\ IsWitnessArgs(w) /\ Len(w) \in Nat
    BY <1>1 DEF Given, ArgsStates
  <1>4. FieldStart(w, args.field) \in Nat /\ FieldStop(w, args.field) \in Nat /\ FieldStop(w, args.field) <= Len(w)
    BY <1>3, WholeFields
  <1>5. /\ args'.at = "body" /\ args'.field = args.field /\ args'.seen = args.seen + n
        /\ args'.length = args.length /\ args'.total_size = args.total_size
        /\ args'.offset = args.offset
    BY <1>3 DEF ArgsStates
  <1>6. FieldStart(w, args.field) + 4 + args.length = FieldStop(w, args.field)
    BY <1>1 DEF ArgsInPlace, InContent
  <1> HIDE DEF w, n
  <1>7. InContent(w, args', read)
    <2>1. Place(w, args') = FieldStart(w, args.field) + 4
      BY <1>5 DEF Place
    <2> QED BY <1>2, <1>3, <1>4, <1>5, <1>6, <2>1, SMTT(30) DEF InContent
  <1>8. ArgsInPlace(w, args', read)
    BY <1>1, <1>5, <1>7 DEF ArgsInPlace
  <1>9. read < Len(w)
    BY <1>1, <1>2, <1>3, <1>4 DEF Given
  <1> QED BY <1>1, <1>8, <1>9, Returns DEF w

(* A field that is done: the next one, or COMPLETE.                         *)
LEMMA FieldDoneFirst ==
    ASSUME TypeOK, VectorInPlace, FirstInPlace, WholeFirstWitness, at = "parse",
           args.at \in {"length", "body"}, UNCHANGED <<message, item, read>>,
           NEW rest, FieldDone(rest), FieldStop(FirstWitness, args.field) <= read,
           rest = SubSeq(FirstWitness, FieldStop(FirstWitness, args.field) + 1, read)
    PROVE  FirstInPlace'
  <1> DEFINE w == FirstWitness
  <1>1. Given(w) /\ ArgsInPlace(w, args, read - Len(chunk))
    BY InParse
  <1>2. args.total_size = Len(w) /\ args.offset = Offsets(w)
    BY <1>1 DEF ArgsInPlace
  <1>3. /\ args.field \in Fields /\ args \in ArgsStates /\ w \in Seq(Byte) /\ IsWitnessArgs(w)
        /\ read \in Nat /\ read <= Len(w) /\ Len(w) \in Nat
    BY <1>1 DEF Given, ArgsStates
  <1>4. FieldStop(w, args.field) \in Nat
    BY <1>3, WholeFields
  <1>5. CASE args.field # "output_type"
    <2>1. args' = FieldAfter(args) /\ chunk' = rest /\ at' = "parse"
      BY <1>5 DEF FieldDone, FieldAfter
    <2>2. ArgsInPlace(w, args', FieldStop(w, args.field))
      BY <1>2, <1>3, <1>5, <2>1, NextFieldInPlace
    <2> QED BY <1>1, <1>4, <2>1, <2>2, Goes
  <1>6. CASE args.field = "output_type"
    <2>1. args' = [args EXCEPT !.at = "complete"] /\ Return
      BY <1>6 DEF FieldDone
    <2>2. args'.at = "complete"
      BY <1>3, <2>1 DEF ArgsStates
    <2>3. read = Len(w)
      BY <1>3, <1>6 DEF FieldStop
    <2> QED BY <1>1, <2>1, <2>2, <2>3, Completes
  <1> QED BY <1>5, <1>6

LEMMA FieldFirstStep ==
    ASSUME TypeOK, VectorInPlace, FirstInPlace, WholeFirstWitness,
           ParseAbsentField \/ ParseLockBody \/ ParseTypeBody \/ ParseComplete
    PROVE  FirstInPlace'
  <1> DEFINE w == FirstWitness
             p == FieldStart(w, args.field) + 4 + args.seen
             n == Len(FieldChunk)
  <1>1. at = "parse" /\ UNCHANGED <<message, item, read>>
    BY DEF ParseAbsentField, ParseLockBody, ParseTypeBody, ParseComplete
  <1>2. /\ Given(w) /\ ArgsInPlace(w, args, read - Len(chunk)) /\ read - Len(chunk) \in Nat
        /\ chunk = SubSeq(w, read - Len(chunk) + 1, read) /\ Len(chunk) \in Nat
    BY <1>1, InParse
  <1>3. /\ args.field \in Fields /\ args \in ArgsStates /\ w \in Seq(Byte) /\ IsWitnessArgs(w)
        /\ read \in Nat /\ read <= Len(w) /\ Len(w) \in Nat
    BY <1>2 DEF Given, ArgsStates
  <1>4. FieldStart(w, args.field) \in Nat /\ FieldStop(w, args.field) \in Nat
    BY <1>3, WholeFields
  <1>5. CASE ParseAbsentField
    <2>1. FieldDone(chunk) /\ args.at = "length" /\ FieldSize(args.field) = 0
      BY <1>5 DEF ParseAbsentField, Absent
    <2>2. FieldSize(args.field) = FieldStop(w, args.field) - FieldStart(w, args.field)
      BY <1>2, <1>3, <2>1, FieldSizeIs DEF ArgsInPlace
    <2>3. FieldStop(w, args.field) = FieldStart(w, args.field)
      BY <1>4, <2>1, <2>2
    <2>4. args.num = <<>> /\ Place(w, args) = FieldStop(w, args.field)
            /\ read - Len(chunk) = Place(w, args) + Len(args.num)
      BY <1>2, <2>1, <2>3 DEF ArgsInPlace, Place, InNumber
    <2>5. read - Len(chunk) = FieldStop(w, args.field) /\ FieldStop(w, args.field) <= read
      BY <1>2, <1>3, <1>4, <2>4
    <2>6. chunk = SubSeq(w, FieldStop(w, args.field) + 1, read)
      BY <1>2, <2>5
    <2> QED BY <1>1, <2>1, <2>5, <2>6, FieldDoneFirst
  <1>6. CASE ParseTypeBody
    <2>1. args.at = "body" /\ args.field # "lock"
      BY <1>6 DEF ParseTypeBody
    <2>2. CASE n = NeededOfField
      <3>1. FieldDone(SubSeq(chunk, n + 1, Len(chunk)))
        BY <1>6, <2>2 DEF ParseTypeBody
      <3>2. /\ p + n = FieldStop(w, args.field) /\ p + n <= read
            /\ SubSeq(chunk, n + 1, Len(chunk)) = SubSeq(w, p + n + 1, read)
        BY <1>1, <2>1, <2>2, ContentInPlace
      <3> QED BY <1>1, <2>1, <3>1, <3>2, FieldDoneFirst
    <2>3. CASE n # NeededOfField
      <3>1. args' = [args EXCEPT !.seen = @ + n] /\ Return
        BY <1>6, <2>3 DEF ParseTypeBody
      <3> QED BY <1>1, <2>1, <2>3, <3>1, ContentReturns
    <2> QED BY <2>2, <2>3
  <1>7. CASE ParseLockBody
    <2>1. args.at = "body" /\ args.field = "lock"
      BY <1>7 DEF ParseLockBody
    <2>2. CASE n = NeededOfField
      <3>1. /\ args' = [args EXCEPT !.at = "length", !.field = "input_type", !.num = <<>>, !.seen = 0]
            /\ chunk' = SubSeq(chunk, n + 1, Len(chunk)) /\ at' = "parse"
        BY <1>1, <1>7, <2>2 DEF ParseLockBody
      <3>2. /\ p + n = FieldStop(w, args.field) /\ p + n <= read
            /\ SubSeq(chunk, n + 1, Len(chunk)) = SubSeq(w, p + n + 1, read)
        BY <1>1, <2>1, <2>2, ContentInPlace
      <3>3. FieldDone(SubSeq(chunk, n + 1, Len(chunk))) \/ args' = FieldAfter(args)
        BY <2>1, <3>1 DEF FieldAfter, NextField
      <3>4. args' = FieldAfter(args)
        BY <2>1, <3>1 DEF FieldAfter, NextField
      <3>5. ArgsInPlace(w, args', FieldStop(w, args.field))
        BY <1>2, <1>3, <2>1, <3>4, NextFieldInPlace DEF ArgsInPlace
      <3> QED BY <1>1, <1>2, <1>4, <3>1, <3>2, <3>5, Goes
    <2>3. CASE n # NeededOfField
      <3>1. args' = [args EXCEPT !.seen = @ + n] /\ Return
        BY <1>7, <2>3 DEF ParseLockBody
      <3> QED BY <1>1, <2>1, <2>3, <3>1, ContentReturns
    <2> QED BY <2>2, <2>3
  <1>8. CASE ParseComplete
    BY <1>2, <1>8 DEF ParseComplete, ArgsInPlace
  <1> QED BY <1>5, <1>6, <1>7, <1>8

(* The parser of a whole first witness starts at its first byte.            *)
LEMMA StartInPlace ==
    ASSUME NEW w \in Seq(Byte)
    PROVE  ArgsInPlace(w, ArgsStart, 0)
  <1>1. /\ ArgsStart.at = "total_size" /\ ArgsStart.field = "lock" /\ ArgsStart.num = <<>>
    BY DEF ArgsStart
  <1>2. Place(w, ArgsStart) = 0
    BY <1>1 DEF Place
  <1>3. InNumber(w, ArgsStart, 0)
    BY <1>1, <1>2, NumberBegins
  <1> QED BY <1>1, <1>3 DEF ArgsInPlace

(* process_witness is given the bytes that follow those it had.             *)
LEMMA ProcessFirstStep ==
    ASSUME TypeOK, VectorInPlace, FirstInPlace, WholeFirstWitness, ProcessWitness, item = 0
    PROVE  FirstInPlace'
  <1>1. /\ at = "body" /\ tx.first /\ UNCHANGED <<message, item, args>>
        /\ at' = "parse"
    BY DEF ProcessWitness, VectorInPlace
  <1>2. item < Len(message.witnesses) /\ read \in Nat /\ packet \in 0 .. MaxPacket
    BY <1>1 DEF TypeOK
  <1>3. Witness \in Seq(Byte) /\ Len(Witness) \in Nat /\ Witness = FirstWitness /\ read <= Len(Witness)
    BY <1>1, <1>2, WitnessBytes DEF TypeOK, Witness, FirstWitness
  <1> DEFINE n == Copy(Len(Witness) - read, packet)
  <1>4. n \in Nat /\ n <= Len(Witness) - read
    BY <1>2, <1>3, SizesAssumption DEF Copy
  <1>5. read' = read + n /\ chunk' = SubSeq(Witness, read + 1, read + n)
    BY <1>1 DEF ProcessWitness
  <1> HIDE DEF n
  <1>6. Len(chunk') = n
    <2>1. read <= read + n /\ read + n <= Len(Witness) /\ read + n \in Nat /\ (read + n) - read = n
      BY <1>2, <1>3, <1>4
    <2>2. Len(SubSeq(Witness, read + 1, read + n)) = (read + n) - read
      BY <1>2, <1>3, <2>1, Part
    <2> QED BY <1>5, <2>1, <2>2
  <1>7. read' - Len(chunk') = read
    BY <1>2, <1>4, <1>5, <1>6
  <1>8. chunk = <<>> /\ ArgsInPlace(FirstWitness, args, read - Len(chunk))
    BY <1>1 DEF FirstInPlace
  <1>9. ArgsInPlace(FirstWitness, args, read)
    <2>1. read - Len(chunk) = read
      BY <1>2, <1>8
    <2> QED BY <1>8, <2>1
  <1>10. FirstWitness' = FirstWitness
    BY <1>1 DEF FirstWitness
  <1>11. ArgsInPlace(FirstWitness', args', read' - Len(chunk'))
    BY <1>1, <1>7, <1>9, <1>10, Zenon
  <1>12. chunk' = SubSeq(FirstWitness', read' - Len(chunk') + 1, read')
    BY <1>3, <1>5, <1>7, <1>10, Zenon
  <1> QED BY <1>1, <1>11, <1>12, Zenon DEF FirstInPlace

LEMMA FirstInPlaceStep ==
    ASSUME TypeOK, VectorInPlace, FirstInPlace, [Next]_vars
    PROVE  FirstInPlace'
  <1>1. /\ message' = message \/ ~ WholeFirstWitness'
        /\ WholeFirstWitness' => WholeFirstWitness
    <2>1. message' = message
      BY DEF Next, Device, ParseFirstWitness, NewPacket, BeginWitness, WitnessLength,
             ProcessWitness, ProcessWitnessEnd, FinalizeWitnesses, NumIncomplete,
             ParseTotalSize, ParseOffset, ParseAbsentField, ParseFieldLength, ParseLockBody,
             ParseTypeBody, ParseComplete, vars
    <2> QED BY <2>1 DEF WholeFirstWitness
  <1> SUFFICES ASSUME WholeFirstWitness, message' = message PROVE FirstInPlace'
    BY <1>1 DEF FirstInPlace
  <1>2. FirstWitness' = FirstWitness /\ Witness' = IF item' = item THEN Witness ELSE Witness'
    BY DEF FirstWitness, Witness
  <1>3. /\ item \in Nat /\ Len(message.witnesses) \in Nat /\ Len(message.witnesses) # 0
        /\ item <= Len(message.witnesses) /\ tx \in Witnesses /\ read \in Nat
    BY ItemBounds
  <1>4. CASE NewPacket
    <2>1. /\ (at = "length" /\ at' = "length") \/ (at = "more" /\ at' = "body")
          /\ UNCHANGED <<item, read, chunk, args>>
      BY <1>4 DEF NewPacket
    <2>2. CASE at' = "length"
      BY <2>1, <2>2 DEF FirstInPlace
    <2>3. CASE at = "more" /\ at' = "body"
      BY <1>2, <2>1, <2>3 DEF FirstInPlace
    <2> QED BY <2>1, <2>2, <2>3
  <1>5. CASE BeginWitness
    <2>1. /\ at' \in {"length", "finalize"} /\ item' = item /\ (item # 0 => args' = args)
      BY <1>5 DEF BeginWitness
    <2> QED BY <2>1 DEF FirstInPlace
  <1>6. CASE WitnessLength
    <2>1. /\ at = "length" /\ at' \in {"end", "body", "length"}
          /\ UNCHANGED <<item, chunk, args>>
          /\ at' = "end" => Len(Witness) = 0
          /\ at' = "body" => read' = 0
      BY <1>6 DEF WitnessLength, BodyStart
    <2>2. CASE item = 0
      <3>1. args = ArgsStart /\ chunk = <<>>
        BY <2>1, <2>2 DEF VectorInPlace
      <3>2. Witness = FirstWitness /\ item < Len(message.witnesses)
        BY <1>3, <2>2 DEF Witness, FirstWitness
      <3>3. FirstWitness \in Seq(Byte) /\ Len(FirstWitness) >= 16
        BY <3>2, WitnessBytes DEF WholeFirstWitness, IsWitnessArgs, FirstWitness
      <3>4. at' # "end"
        BY <2>1, <3>2, <3>3
      <3>5. at' = "body" => read' - Len(chunk') = 0
        BY <2>1, <3>1
      <3>6. ArgsInPlace(FirstWitness, ArgsStart, 0)
        BY <3>3, StartInPlace
      <3> QED BY <1>2, <2>1, <2>2, <3>1, <3>4, <3>5, <3>6, Zenon DEF FirstInPlace
    <2>3. CASE item # 0
      BY <2>1, <2>3 DEF FirstInPlace
    <2> QED BY <2>2, <2>3
  <1>7. CASE ProcessWitness
    <2>1. CASE item = 0
      BY <1>7, <2>1, ProcessFirstStep
    <2>2. CASE item # 0
      <3>1. UNCHANGED <<item, args>>
        BY <1>7 DEF ProcessWitness
      <3> QED BY <2>2, <3>1 DEF FirstInPlace
    <2> QED BY <2>1, <2>2
  <1>8. CASE ProcessWitnessEnd
    <2>1. at = "end" /\ at' = "index" /\ item' = item + 1 /\ args' = args
      BY <1>8 DEF ProcessWitnessEnd
    <2> QED BY <2>1 DEF FirstInPlace
  <1>9. CASE FinalizeWitnesses
    <2>1. at' = "done" /\ UNCHANGED <<item, args>>
      BY <1>9 DEF FinalizeWitnesses
    <2> QED BY <2>1 DEF FirstInPlace
  <1>10. CASE ParseFirstWitness
    BY <1>10, NumberFirstStep, FieldFirstStep DEF ParseFirstWitness
  <1>11. CASE UNCHANGED vars
    BY <1>2, <1>11, Zenon DEF vars, FirstInPlace
  <1> QED BY <1>4, <1>5, <1>6, <1>7, <1>8, <1>9, <1>10, <1>11 DEF Next, Device

-------------------------------------------------------------------------------
(* The reserved byte of a multisig script.                                  *)

LEMMA LockOfMessage ==
    ASSUME NEW w \in Seq(Byte), IsWitnessArgs(w)
    PROVE  /\ Lock(w) = SubSeq(w, 16 + 1, FieldStop(w, "lock"))
           /\ Len(Lock(w)) = FieldStop(w, "lock") - 16
           /\ Len(Lock(w)) > 4 => Lock(w)[5] = w[21]
  <1>1. FieldStop(w, "lock") \in Nat /\ FieldStop(w, "lock") >= 16 /\ FieldStop(w, "lock") <= Len(w)
    BY WholeFields DEF Fields, FieldStart
  <1>2. Lock(w) = SubSeq(w, 16 + 1, FieldStop(w, "lock"))
    BY DEF Lock, Slice, FieldStop, FieldStart, NextField
  <1>3. Len(Lock(w)) = FieldStop(w, "lock") - 16
    BY <1>1, <1>2, Part
  <1> DEFINE stop == FieldStop(w, "lock")
  <1> HIDE DEF stop
  <1>4. ASSUME stop > 20, stop \in Nat, stop <= Len(w), Len(w) \in Nat
        PROVE  SubSeq(w, 16 + 1, stop)[5] = w[21]
    BY <1>4
  <1>5. Len(Lock(w)) > 4 => Lock(w)[5] = w[21]
    BY <1>1, <1>2, <1>3, <1>4, LenProperties DEF stop
  <1> QED BY <1>2, <1>3, <1>5

(* Where a step of another parser leaves the lock of the first witness.      *)
LEMMA LockKept ==
    ASSUME LockInPlace, message' = message, args' = args,
           (item' = item /\ tx'.consumed = tx.consumed) \/ item' # 0,
           unsafe' = unsafe
    PROVE  LockInPlace'
  <1>1. /\ WholeFirstWitness' <=> WholeFirstWitness
        /\ Reserved(message)' <=> Reserved(message)
        /\ ReservedPassed' <=> ReservedPassed
    BY DEF WholeFirstWitness, Reserved, ReservedPassed, BeforeLock, InLock
  <1> QED BY <1>1, Zenon DEF LockInPlace

(* The content of the lock begins: the byte looked at is the reserved one.   *)
LEMMA LockContentSeen ==
    ASSUME TypeOK, VectorInPlace, FirstInPlace, LockInPlace, WholeFirstWitness,
           Reserved(message), ParseLockBody, args.seen = 0, Len(FieldChunk) > 0
    PROVE  unsafe'
  <1> DEFINE w == FirstWitness
  <1>1. at = "parse" /\ args.at = "body" /\ args.field = "lock"
    BY DEF ParseLockBody
  <1>2. /\ args.seen \in Nat /\ args.length \in Int /\ w \in Seq(Byte) /\ IsWitnessArgs(w)
        /\ Len(w) \in Nat
        /\ FieldStart(w, "lock") + 4 + args.length = FieldStop(w, "lock")
    BY <1>1, InParse DEF Given, ArgsStates, ArgsInPlace, InContent
  <1>3. message.multisig /\ Len(Lock(w)) > 4 /\ Lock(w)[5] # 0
    BY DEF Reserved, FirstWitness
  <1>4. tx.consumed = 0
    <2>1. item = 0 /\ ~ ReservedPassed
      BY <1>1 DEF VectorInPlace, ReservedPassed, InLock
    <2> QED BY <2>1 DEF LockInPlace
  <1>5. /\ FieldChunk = SubSeq(w, 20 + 1, 20 + Len(FieldChunk)) /\ FieldChunk \in Seq(Byte)
        /\ Len(FieldChunk) \in Nat /\ 20 + Len(FieldChunk) <= Len(w) /\ NeededOfField # 0
    <2>1. LET p == FieldStart(w, args.field) + 4 + args.seen
          IN  /\ p + Len(FieldChunk) <= read
              /\ FieldChunk = SubSeq(w, p + 1, p + Len(FieldChunk))
              /\ (NeededOfField = 0 => Len(FieldChunk) = 0)
      BY <1>1, ContentInPlace
    <2>2. FieldStart(w, args.field) + 4 + args.seen = 20
      BY <1>1 DEF FieldStart
    <2>3. read \in Nat /\ read <= Len(w)
      BY <1>1, InParse DEF Given
    <2>4. FieldChunk \in Seq(Byte) /\ Len(FieldChunk) \in Nat
      BY FieldBytes
    <2> QED BY <1>2, <2>1, <2>2, <2>3, <2>4
  <1>6. FieldChunk[1] = w[21]
    <2>1. ASSUME NEW n \in Nat, n > 0, 20 + n <= Len(w) PROVE SubSeq(w, 20 + 1, 20 + n)[1] = w[21]
      BY <1>2, <2>1
    <2> QED BY <1>5, <2>1
  <1>7. FieldChunk[1] # 0
    BY <1>2, <1>3, <1>6, LockOfMessage
  <1>8. ChunkTaken(FieldChunk)
    <2>1. LockBodyChunk(FieldChunk)
      BY <1>3, <1>5 DEF ParseLockBody
    <2> QED BY <1>5, <2>1, LockChunkTaken
  <1> QED BY <1>4, <1>7, <1>8 DEF ChunkTaken

LEMMA LockBodyLockStep ==
    ASSUME TypeOK, VectorInPlace, FirstInPlace, LockInPlace, WholeFirstWitness, ParseLockBody
    PROVE  LockInPlace'
  <1>1. /\ at = "parse" /\ args.at = "body" /\ args.field = "lock" /\ message' = message
    BY DEF ParseLockBody
  <1>2. args \in ArgsStates /\ args.seen \in Nat /\ args.length \in Int
    BY DEF TypeOK, ArgsStates
  <1>3. FieldChunk \in Seq(Byte) /\ Len(FieldChunk) \in Nat
    BY FieldBytes
  <1>4. WholeFirstWitness' = WholeFirstWitness /\ Reserved(message') = Reserved(message)
    BY <1>1 DEF WholeFirstWitness
  <1>5. item = 0 /\ tx \in Witnesses
    BY <1>1 DEF VectorInPlace, TypeOK
  <1>6. ReservedPassed <=> args.seen > 0
    BY <1>1 DEF ReservedPassed, BeforeLock, InLock
  <1>7. \/ ChunkTaken(FieldChunk)
        \/ UNCHANGED <<tx, unsafe>>
    BY <1>3, LockChunkTaken DEF ParseLockBody
  <1>8. /\ ReservedPassed' \/ (args.seen = 0 /\ Len(FieldChunk) = 0)
        /\ ReservedPassed' => args.seen > 0 \/ Len(FieldChunk) > 0 \/ args.length = 0
    <2>1. CASE args' = [args EXCEPT !.at = "length", !.field = "input_type", !.num = <<>>, !.seen = 0]
                 /\ Len(FieldChunk) = NeededOfField
      <3>1. args'.at = "length" /\ args'.field = "input_type"
        BY <1>2, <2>1 DEF ArgsStates
      <3>2. ReservedPassed'
        BY <3>1 DEF ReservedPassed, BeforeLock, InLock
      <3>3. args.seen = 0 /\ Len(FieldChunk) = 0 => args.length = 0
        BY <1>2, <2>1 DEF NeededOfField
      <3> QED BY <1>2, <1>3, <3>2, <3>3
    <2>2. CASE args' = [args EXCEPT !.seen = @ + Len(FieldChunk)]
      <3>1. args'.at = "body" /\ args'.field = "lock" /\ args'.seen = args.seen + Len(FieldChunk)
        BY <1>1, <1>2, <2>2 DEF ArgsStates
      <3>2. ReservedPassed' <=> args.seen + Len(FieldChunk) > 0
        BY <3>1 DEF ReservedPassed, BeforeLock, InLock
      <3> QED BY <1>2, <1>3, <3>2
    <2> QED BY <2>1, <2>2 DEF ParseLockBody
  <1>9. ~ ReservedPassed' => tx'.consumed = 0
    <2>1. SUFFICES ASSUME ~ ReservedPassed' PROVE tx'.consumed = 0
      OBVIOUS
    <2>2. ~ ReservedPassed /\ Len(FieldChunk) = 0
      BY <1>6, <1>8, <2>1
    <2>3. tx.consumed = 0
      BY <1>5, <2>2 DEF LockInPlace
    <2>4. CASE ChunkTaken(FieldChunk)
      <3>1. tx'.consumed = tx.consumed \/ tx'.consumed = tx.consumed + Len(FieldChunk)
        BY <1>3, <2>4, ChunkTakenTx
      <3> QED BY <2>2, <2>3, <3>1
    <2>5. CASE tx' = tx
      BY <2>3, <2>5
    <2> QED BY <1>7, <2>4, <2>5
  <1>10. Reserved(message) /\ ReservedPassed' => unsafe'
    <2>1. SUFFICES ASSUME Reserved(message), ReservedPassed' PROVE unsafe'
      OBVIOUS
    <2>2. CASE args.seen > 0
      <3>1. unsafe
        BY <1>6, <2>1, <2>2 DEF LockInPlace
      <3> QED BY <1>7, <3>1 DEF ChunkTaken
    <2>3. CASE ~ (args.seen > 0)
      <3>1. args.seen = 0
        BY <1>2, <2>3
      <3>2. args.length # 0
        <4>1. Len(Lock(FirstWitness)) > 4
          BY <2>1 DEF Reserved, FirstWitness
        <4>2. /\ FirstWitness \in Seq(Byte) /\ IsWitnessArgs(FirstWitness)
              /\ FieldStart(FirstWitness, "lock") + 4 + args.length = FieldStop(FirstWitness, "lock")
          BY <1>1, InParse DEF Given, ArgsInPlace, InContent
        <4>3. Len(Lock(FirstWitness)) = FieldStop(FirstWitness, "lock") - 16
          BY <4>2, LockOfMessage
        <4>4. FieldStart(FirstWitness, "lock") = 16
          BY DEF FieldStart
        <4> DEFINE stop == FieldStop(FirstWitness, "lock")
        <4>5. stop \in Nat
          BY <4>2, WholeFields DEF Fields
        <4> HIDE DEF stop
        <4> QED BY <1>2, <4>1, <4>2, <4>3, <4>4, <4>5 DEF stop
      <3>3. Len(FieldChunk) > 0
        BY <1>8, <2>1, <2>3, <3>2
      <3> QED BY <2>1, <3>1, <3>3, LockContentSeen
    <2> QED BY <2>2, <2>3
  <1> QED BY <1>4, <1>9, <1>10 DEF LockInPlace

LEMMA ParseLockStep ==
    ASSUME TypeOK, VectorInPlace, FirstInPlace, LockInPlace, WholeFirstWitness, ParseFirstWitness
    PROVE  LockInPlace'
  <1>1. at = "parse" /\ message' = message /\ item' = item /\ item = 0 /\ args \in ArgsStates
          /\ tx \in Witnesses
    BY DEF ParseFirstWitness, NumIncomplete, ParseTotalSize, ParseOffset, ParseAbsentField,
           ParseFieldLength, ParseLockBody, ParseTypeBody, ParseComplete, VectorInPlace, TypeOK
  <1>2. ArgsInPlace(FirstWitness, args, read - Len(chunk)) /\ Given(FirstWitness)
    BY <1>1, InParse
  <1>3. Reserved(message') = Reserved(message)
    BY <1>1
  <1>4. CASE NumIncomplete \/ ParseTotalSize \/ ParseOffset \/ ParseFieldLength
    <2>1. UNCHANGED <<tx, unsafe>>
      BY <1>4 DEF NumIncomplete, ParseTotalSize, ParseOffset, ParseFieldLength
    <2>2. ReservedPassed' <=> ReservedPassed
      <3>1. CASE NumIncomplete
        <4>1. args' = [args EXCEPT !.num = NumBytes] /\ args.at # "body"
          BY <3>1 DEF NumIncomplete, NumKept
        <4>2. args'.at = args.at /\ args'.field = args.field
          BY <1>1, <4>1 DEF ArgsStates
        <4> QED BY <4>1, <4>2 DEF ReservedPassed, BeforeLock, InLock
      <3>2. CASE ParseTotalSize
        <4>1. args' = [args EXCEPT !.at = "offset", !.total_size = NumValue, !.num = <<>>]
                /\ args.at = "total_size"
          BY <3>2 DEF ParseTotalSize
        <4>2. args'.at = "offset"
          BY <1>1, <4>1 DEF ArgsStates
        <4> QED BY <4>1, <4>2 DEF ReservedPassed, BeforeLock, InLock
      <3>3. CASE ParseOffset
        <4> DEFINE offset == [args.offset EXCEPT ![args.field] = NumValue]
        <4>1. /\ args.at = "offset"
              /\ \/ args' = [args EXCEPT !.at = "length", !.field = "lock", !.offset = offset,
                                      !.num = <<>>, !.seen = 0]
                 \/ args' = [args EXCEPT !.field = NextField(args.field), !.offset = offset,
                                      !.num = <<>>]
          BY <3>3 DEF ParseOffset
        <4> HIDE DEF offset
        <4>2. args'.at = "offset" \/ (args'.at = "length" /\ args'.field = "lock")
          BY <1>1, <4>1 DEF ArgsStates
        <4> QED BY <4>1, <4>2 DEF ReservedPassed, BeforeLock, InLock
      <3>4. CASE ParseFieldLength
        <4>1. args' = [args EXCEPT !.at = "body", !.length = NumValue] /\ args.at = "length"
          BY <3>4 DEF ParseFieldLength
        <4>2. args'.at = "body" /\ args'.field = args.field /\ args'.seen = args.seen
          BY <1>1, <4>1 DEF ArgsStates
        <4>3. args.seen = 0
          BY <1>2, <4>1 DEF ArgsInPlace
        <4> QED BY <4>1, <4>2, <4>3 DEF ReservedPassed, BeforeLock, InLock
      <3> QED BY <1>4, <3>1, <3>2, <3>3, <3>4
    <2> QED BY <1>1, <1>3, <2>1, <2>2 DEF LockInPlace
  <1>5. CASE ParseAbsentField \/ ParseTypeBody
    <2>1. /\ unsafe' = unsafe /\ args.at \in {"length", "body"}
          /\ args.at = "body" => args.field # "lock"
      BY <1>5 DEF ParseAbsentField, ParseTypeBody, Absent
    <2>2. ReservedPassed'
      <3>1. \/ args' = [args EXCEPT !.at = "complete"]
            \/ args' = [args EXCEPT !.at = "length", !.field = NextField(args.field), !.num = <<>>, !.seen = 0]
            \/ args' = [args EXCEPT !.seen = @ + Len(FieldChunk)] /\ ParseTypeBody
        BY <1>5 DEF ParseAbsentField, ParseTypeBody, FieldDone
      <3>2. \/ args'.at = "complete"
            \/ args'.at = "length" /\ args'.field = NextField(args.field)
            \/ args'.at = args.at /\ args'.field = args.field /\ ParseTypeBody
        BY <1>1, <3>1 DEF ArgsStates
      <3>3. NextField(args.field) # "lock"
        BY DEF NextField
      <3> QED BY <2>1, <3>2, <3>3 DEF ReservedPassed, BeforeLock, InLock, ParseTypeBody
    <2>3. Reserved(message) => ReservedPassed
      <3>1. CASE args.at = "length" /\ args.field = "lock"
        <4>1. ParseAbsentField /\ FieldSize("lock") = 0
          BY <1>5, <3>1 DEF ParseAbsentField, ParseTypeBody, Absent
        <4>2. /\ FirstWitness \in Seq(Byte) /\ IsWitnessArgs(FirstWitness)
              /\ args.total_size = Len(FirstWitness) /\ args.offset = Offsets(FirstWitness)
          BY <1>2, <3>1 DEF ArgsInPlace, Given
        <4>3. FieldStop(FirstWitness, "lock") - FieldStart(FirstWitness, "lock") = 0
          BY <1>1, <3>1, <4>1, <4>2, FieldSizeIs
        <4>4. Len(Lock(FirstWitness)) = FieldStop(FirstWitness, "lock") - 16
          BY <4>2, LockOfMessage
        <4>5. FieldStart(FirstWitness, "lock") = 16
          BY DEF FieldStart
        <4>6. ~ (Len(Lock(FirstWitness)) > 4)
          BY <4>3, <4>4, <4>5
        <4> QED BY <4>6 DEF Reserved, FirstWitness
      <3>2. CASE ~ (args.at = "length" /\ args.field = "lock")
        BY <2>1, <3>2 DEF ReservedPassed, BeforeLock, InLock
      <3> QED BY <3>1, <3>2
    <2> QED BY <1>1, <1>3, <2>1, <2>2, <2>3 DEF LockInPlace
  <1>6. CASE ParseLockBody
    BY <1>6, LockBodyLockStep
  <1>7. CASE ParseComplete
    BY <1>2, <1>7 DEF ParseComplete, ArgsInPlace
  <1> QED BY <1>4, <1>5, <1>6, <1>7 DEF ParseFirstWitness

LEMMA LockInPlaceStep ==
    ASSUME TypeOK, VectorInPlace, FirstInPlace, LockInPlace, [Next]_vars
    PROVE  LockInPlace'
  <1>1. /\ item \in Nat /\ Len(message.witnesses) \in Nat /\ tx \in Witnesses /\ read \in Nat
    BY ItemBounds
  <1>2. CASE NewPacket \/ WitnessLength \/ ProcessWitness \/ FinalizeWitnesses \/ UNCHANGED vars
    <2>1. UNCHANGED <<message, item, args, tx, unsafe>>
      BY <1>2 DEF NewPacket, WitnessLength, ProcessWitness, FinalizeWitnesses, vars
    <2> QED BY <2>1, LockKept
  <1>3. CASE BeginWitness
    <2>1. message' = message /\ item' = item /\ unsafe' = unsafe
      BY <1>3 DEF BeginWitness
    <2>2. CASE item = 0
      <3>1. /\ args' = ArgsStart
            /\ tx' = [tx EXCEPT !.first = TRUE, !.threshold = 0, !.pubkeys_cnt = 0, !.consumed = 0]
        BY <1>3, <2>2 DEF BeginWitness
      <3>2. tx'.consumed = 0
        BY <1>1, <3>1 DEF Witnesses
      <3>3. ~ ReservedPassed'
        BY <3>1 DEF ReservedPassed, BeforeLock, ArgsStart
      <3> QED BY <3>2, <3>3 DEF LockInPlace
    <2>3. CASE item # 0
      <3>1. args' = args
        BY <1>3, <2>3 DEF BeginWitness
      <3> QED BY <2>1, <2>3, <3>1, LockKept
    <2> QED BY <2>2, <2>3
  <1>4. CASE ProcessWitnessEnd
    <2>1. message' = message /\ args' = args /\ unsafe' = unsafe /\ item' = item + 1
      BY <1>4 DEF ProcessWitnessEnd
    <2>2. item' # 0
      BY <1>1, <2>1
    <2> QED BY <2>1, <2>2, LockKept
  <1>5. CASE ParseFirstWitness
    <2>1. CASE WholeFirstWitness
      BY <1>5, <2>1, ParseLockStep
    <2>2. CASE ~ WholeFirstWitness
      <3>1. message' = message
        BY <1>5 DEF ParseFirstWitness, NumIncomplete, ParseTotalSize, ParseOffset,
               ParseAbsentField, ParseFieldLength, ParseLockBody, ParseTypeBody, ParseComplete
      <3>2. ~ WholeFirstWitness'
        BY <2>2, <3>1 DEF WholeFirstWitness
      <3> QED BY <3>2 DEF LockInPlace
    <2> QED BY <2>1, <2>2
  <1> QED BY <1>2, <1>3, <1>4, <1>5 DEF Next, Device

-------------------------------------------------------------------------------
PlaceInv == IInv /\ VectorInPlace /\ FirstInPlace /\ LockInPlace

LEMMA InitPlaces == Init => PlaceInv
  <1> SUFFICES ASSUME Init PROVE PlaceInv
    OBVIOUS
  <1>1. IInv
    BY InitInv
  <1>2. /\ at = "index" /\ item = 0 /\ args = ArgsStart /\ chunk = <<>> /\ lock = <<>>
        /\ tx = [first |-> FALSE, done |-> FALSE, threshold |-> 0, pubkeys_cnt |-> 0, consumed |-> 0]
        /\ final_hash = <<>>
    BY DEF Init
  <1>3. ~ tx.done /\ tx.consumed = 0 /\ args.at # "complete"
    BY <1>2 DEF ArgsStart
  <1>4. VectorInPlace
    BY <1>2, <1>3 DEF VectorInPlace
  <1>5. FirstInPlace
    BY <1>2 DEF FirstInPlace
  <1>6. ~ ReservedPassed
    BY <1>2 DEF ReservedPassed, BeforeLock, ArgsStart
  <1>7. LockInPlace
    BY <1>3, <1>6 DEF LockInPlace
  <1> QED BY <1>1, <1>4, <1>5, <1>7 DEF PlaceInv

LEMMA PlaceInvariance == Spec => []PlaceInv
  <1>1. PlaceInv /\ [Next]_vars => PlaceInv'
    BY StepInv, VectorInPlaceStep, FirstInPlaceStep, LockInPlaceStep DEF PlaceInv, IInv
  <1> QED BY <1>1, InitPlaces, PTL DEF Spec

(* witness_lock_arg_body_chunk has looked at the reserved byte of a multisig *)
(* script when the digest is there: wherever the packets cut the first       *)
(* witness, a byte that is not zero has made the transaction unsafe.         *)
THEOREM ReservedByteSeen == Spec => []ReservedSeen
  <1>1. PlaceInv => ReservedSeen
    <2> SUFFICES ASSUME PlaceInv, at = "done", message.multisig, WholeFirstWitness,
                        Len(Lock(message.witnesses[1])) > 4, Lock(message.witnesses[1])[5] # 0
                 PROVE  unsafe
      BY DEF ReservedSeen
    <2>1. item # 0
      BY ItemBounds DEF PlaceInv, IInv, VectorInPlace
    <2>2. args.at = "complete"
      BY <2>1 DEF PlaceInv, FirstInPlace
    <2>3. ReservedPassed
      BY <2>2 DEF ReservedPassed, BeforeLock, InLock
    <2>4. Reserved(message)
      BY DEF Reserved
    <2> QED BY <2>3, <2>4 DEF PlaceInv, LockInPlace
  <1> QED BY <1>1, PlaceInvariance, PTL

-------------------------------------------------------------------------------
(* What has been hashed when it is the digest of the chain that comes out:  *)
(* w is the first witness of m, p bytes into it.                            *)

First(m) == m.witnesses[1]

HeaderHashed(m) ==
    LET w == First(m)
        shift == 4 + SignatureSize - (NumAt(w, 8) - 16)
        header(by) == LE4(Len(w) + by) \o LE4(16) \o LE4(NumAt(w, 8) + by) \o LE4(NumAt(w, 12) + by)
    IN IF m.multisig
       THEN LE8(Len(w)) \o header(0)
       ELSE LE8(Len(w) + shift) \o header(shift) \o Bytes(Zeros(SignatureSize))

LockLength(m) ==
    IF m.multisig /\ NumAt(First(m), 8) # 16 THEN LE4(NumAt(First(m), 8) - 20) ELSE <<>>
LockContent(m, p) ==
    IF m.multisig /\ NumAt(First(m), 8) # 16 THEN SubSeq(First(m), 21, p) ELSE <<>>
LockHashed(m) ==
    HeaderHashed(m) \o LockLength(m) \o LockContent(m, NumAt(First(m), 8))

HashedOf(m, a, p) ==
    IF a.at \in {"total_size", "offset"} THEN <<>>
    ELSE IF a.at = "complete" \/ a.field # "lock"
    THEN LockHashed(m) \o SubSeq(First(m), NumAt(First(m), 8) + 1, p)
    ELSE IF a.at = "body" THEN HeaderHashed(m) \o LockLength(m) \o LockContent(m, p)
    ELSE HeaderHashed(m)

FirstHashed(m, complete) ==
    Sighash!Framed(IF complete THEN Sighash!BlankWitness(First(m), m.multisig)
                   ELSE Sighash!StandardWitness)

(* The witnesses behind the first, and the first k of them in one piece.    *)
OtherWitnesses(m) ==
    [i \in 1 .. Len(m.witnesses) - 1 |-> Sighash!Framed(m.witnesses[i + 1])]
Flattened(seqs) ==
    LET flatten[i \in 1 .. Len(seqs)] ==
            IF i = 1 THEN seqs[i] ELSE flatten[i - 1] \o seqs[i]
    IN  flatten
Joined(seqs, k) == IF k = 0 THEN <<>> ELSE Flattened(seqs)[k]

OfThisWitness ==
    IF at \in {"index", "length", "finalize", "done"} THEN <<>>
    ELSE LE8(Len(Witness)) \o SubSeq(Witness, 1, read)

(* A message with a digest, in the encodings of this module.                *)
Signable(m) ==
    LET w == m.witnesses[1]
        content == Slice(Lock(w), 4, Len(Lock(w)))
    IN  /\ IsWitnessArgs(w)
        /\ m.multisig => /\ content # <<>> => content[1] = 0
                         /\ Sighash!BlankLock(content, TRUE) = content

ScriptHashed ==
    Signable(message) /\ message.multisig /\ item = 0 /\ InLock =>
        /\ tx.consumed = args.seen
        /\ lock = SubSeq(FirstWitness, 21, 20 + args.seen)

HashInPlace ==
    /\ item = 0 /\ at = "length" => hash = transaction_hash
    /\ Signable(message) /\ item = 0 /\ at \in {"body", "more", "parse"} =>
        hash = transaction_hash \o HashedOf(message, args, read - Len(chunk))
    /\ Signable(message) /\ item = 0 /\ at = "end" =>
        hash = transaction_hash \o HashedOf(message, args, Len(FirstWitness))
    /\ item # 0 /\ (args.at = "complete" => Signable(message)) =>
        hash = transaction_hash \o FirstHashed(message, args.at = "complete")
                 \o Joined(OtherWitnesses(message), item - 1) \o OfThisWitness

-------------------------------------------------------------------------------
(* The pieces that are hashed of a whole first witness.                     *)

LEMMA FirstBytes ==
    ASSUME NEW m \in Messages
    PROVE  /\ First(m) \in Seq(Byte) /\ Len(First(m)) \in Nat /\ m.multisig \in BOOLEAN
           /\ m.witnesses \in Seq(Seq(Byte)) /\ Len(m.witnesses) \in Nat /\ Len(m.witnesses) # 0
  <1>1. m.witnesses \in Seq(Seq(Byte)) \ {<<>>} /\ m.multisig \in BOOLEAN
    BY MessagesAssumption
  <1>2. Len(m.witnesses) \in Nat /\ Len(m.witnesses) # 0
    BY <1>1
  <1>3. First(m) \in Seq(Byte)
    BY <1>1, <1>2 DEF First
  <1> QED BY <1>1, <1>2, <1>3, LenProperties

LEMMA LockEnds ==
    ASSUME NEW m \in Messages, IsWitnessArgs(First(m))
    PROVE  /\ NumAt(First(m), 8) \in Nat /\ NumAt(First(m), 12) \in Nat
           /\ NumAt(First(m), 8) = 16 \/ NumAt(First(m), 8) >= 20
           /\ 16 <= NumAt(First(m), 8) /\ NumAt(First(m), 8) <= NumAt(First(m), 12)
           /\ NumAt(First(m), 12) <= Len(First(m)) /\ Len(First(m)) \in Nat
  <1> DEFINE w == First(m)
  <1>1. w \in Seq(Byte) /\ IsWitnessArgs(w) /\ Len(w) \in Nat
    BY FirstBytes
  <1> HIDE DEF w
  <1>2. /\ FieldStart(w, "lock") = 16 /\ FieldStop(w, "lock") = NumAt(w, 8)
        /\ FieldStart(w, "input_type") = NumAt(w, 8) /\ FieldStop(w, "input_type") = NumAt(w, 12)
    BY DEF FieldStart, FieldStop, NextField
  <1>3. "lock" \in Fields /\ "input_type" \in Fields
    BY DEF Fields
  <1>4. /\ FieldStop(w, "lock") \in Nat /\ FieldStop(w, "input_type") \in Nat
        /\ 16 <= FieldStop(w, "lock") /\ FieldStop(w, "lock") <= FieldStop(w, "input_type")
        /\ FieldStop(w, "input_type") <= Len(w)
        /\ 16 # FieldStop(w, "lock") => 16 + 4 <= FieldStop(w, "lock")
    BY <1>1, <1>2, <1>3, WholeFields
  <1> QED BY <1>1, <1>2, <1>4 DEF w

LEMMA HashedBytes ==
    ASSUME NEW m \in Messages, IsWitnessArgs(First(m))
    PROVE  /\ HeaderHashed(m) \in Seq(Byte) /\ LockLength(m) \in Seq(Byte)
           /\ \A p \in Nat : p <= Len(First(m)) => LockContent(m, p) \in Seq(Byte)
           /\ LockHashed(m) \in Seq(Byte)
  <1> DEFINE w == First(m)
             o1 == NumAt(w, 8)
             o2 == NumAt(w, 12)
  <1>1. /\ w \in Seq(Byte) /\ Len(w) \in Nat /\ o1 \in Nat /\ o2 \in Nat /\ o1 <= Len(w)
    BY FirstBytes, LockEnds
  <1>2. LockLength(m) \in Seq(Byte)
    <2>1. LE4(o1 - 20) \in Seq(Byte) /\ <<>> \in Seq(Byte)
      <3>1. o1 - 20 \in Int
        BY <1>1
      <3> QED BY <3>1, LE4Bytes
    <2> QED BY <2>1 DEF LockLength
  <1>3. ASSUME NEW p \in Nat, p <= Len(w) PROVE LockContent(m, p) \in Seq(Byte)
    <2>1. SubSeq(w, 21, p) \in Seq(Byte) /\ <<>> \in Seq(Byte)
      BY <1>1, <1>3, SubSeqBytes
    <2> QED BY <2>1 DEF LockContent
  <1>4. HeaderHashed(m) \in Seq(Byte)
    <2> DEFINE shift == 4 + SignatureSize - (o1 - 16)
               header(by) == LE4(Len(w) + by) \o LE4(16) \o LE4(o1 + by) \o LE4(o2 + by)
    <2>1. shift \in Int
      BY <1>1, SizesAssumption
    <2>2. ASSUME NEW by \in Int PROVE header(by) \in Seq(Byte)
      <3>1. Len(w) + by \in Int /\ 16 \in Int /\ o1 + by \in Int /\ o2 + by \in Int
        BY <1>1
      <3> HIDE DEF o1, o2, w
      <3> QED BY <3>1, StandardBytes
    <2>3. Bytes(Zeros(SignatureSize)) \in Seq(Byte)
      BY SizesAssumption, ZerosBytes, BytesBytes
    <2>4. LE8(Len(w)) \in Seq(Byte) /\ LE8(Len(w) + shift) \in Seq(Byte)
      <3>1. Len(w) \in Int /\ Len(w) + shift \in Int
        BY <1>1, <2>1
      <3> HIDE DEF shift
      <3> QED BY <3>1, LE8Bytes
    <2>5. HeaderHashed(m)
            = IF m.multisig THEN LE8(Len(w)) \o header(0)
              ELSE LE8(Len(w) + shift) \o header(shift) \o Bytes(Zeros(SignatureSize))
      BY DEF HeaderHashed
    <2> HIDE DEF header, shift
    <2>6. header(0) \in Seq(Byte) /\ header(shift) \in Seq(Byte)
      BY <2>1, <2>2
    <2> QED BY <2>3, <2>4, <2>5, <2>6, ConcatProperties
  <1>5. LockHashed(m) \in Seq(Byte)
    <2>1. LockContent(m, o1) \in Seq(Byte)
      BY <1>1, <1>3
    <2> QED BY <1>2, <1>4, <2>1, ConcatProperties DEF LockHashed
  <1> QED BY <1>2, <1>3, <1>4, <1>5

(* What the chunk callbacks of the type fields and of the lock append.      *)
LEMMA TypeGrows ==
    ASSUME NEW m \in Messages, IsWitnessArgs(First(m)), NEW p \in Nat, NEW q \in Nat,
           NumAt(First(m), 8) <= p, p <= q, q <= Len(First(m))
    PROVE  (LockHashed(m) \o SubSeq(First(m), NumAt(First(m), 8) + 1, p)) \o SubSeq(First(m), p + 1, q)
             = LockHashed(m) \o SubSeq(First(m), NumAt(First(m), 8) + 1, q)
  <1>1. PICK w, o : w = First(m) /\ o = NumAt(First(m), 8)
    OBVIOUS
  <1>2. w \in Seq(Byte) /\ o \in Nat /\ Len(w) \in Nat /\ o <= p /\ q <= Len(w)
    BY <1>1, FirstBytes, LockEnds
  <1>3. SubSeq(w, o + 1, p) \o SubSeq(w, p + 1, q) = SubSeq(w, o + 1, q)
    BY <1>2, Pieces
  <1>4. SubSeq(w, o + 1, p) \in Seq(Byte) /\ SubSeq(w, p + 1, q) \in Seq(Byte)
    BY <1>2, SubSeqBytes
  <1>5. (LockHashed(m) \o SubSeq(w, o + 1, p)) \o SubSeq(w, p + 1, q)
          = LockHashed(m) \o (SubSeq(w, o + 1, p) \o SubSeq(w, p + 1, q))
    <2>1. LockHashed(m) \in Seq(Byte)
      BY HashedBytes
    <2>2. PICK x, y, z : /\ x = LockHashed(m) /\ y = SubSeq(w, o + 1, p)
                         /\ z = SubSeq(w, p + 1, q)
      OBVIOUS
    <2>3. x \in Seq(Byte) /\ y \in Seq(Byte) /\ z \in Seq(Byte)
      BY <1>4, <2>1, <2>2
    <2>4. (x \o y) \o z = x \o (y \o z)
      BY <2>3, ConcatAssociative
    <2> QED BY <2>2, <2>4
  <1> QED BY <1>1, <1>3, <1>5

LEMMA LockGrows ==
    ASSUME NEW m \in Messages, IsWitnessArgs(First(m)), m.multisig, NumAt(First(m), 8) # 16,
           NEW p \in Nat, NEW q \in Nat, 20 <= p, p <= q, q <= Len(First(m))
    PROVE  (HeaderHashed(m) \o LockLength(m) \o LockContent(m, p)) \o SubSeq(First(m), p + 1, q)
             = HeaderHashed(m) \o LockLength(m) \o LockContent(m, q)
  <1>1. PICK w : w = First(m)
    OBVIOUS
  <1>2. w \in Seq(Byte) /\ Len(w) \in Nat /\ q <= Len(w)
    BY <1>1, FirstBytes
  <1>3. SubSeq(w, 20 + 1, p) \o SubSeq(w, p + 1, q) = SubSeq(w, 20 + 1, q)
    BY <1>2, Pieces
  <1>4. LockContent(m, p) = SubSeq(w, 20 + 1, p) /\ LockContent(m, q) = SubSeq(w, 20 + 1, q)
    BY <1>1 DEF LockContent
  <1>5. /\ LockContent(m, p) \in Seq(Byte) /\ SubSeq(w, p + 1, q) \in Seq(Byte)
        /\ HeaderHashed(m) \o LockLength(m) \in Seq(Byte)
    BY <1>1, <1>2, HashedBytes, SubSeqBytes, ConcatProperties
  <1>6. ((HeaderHashed(m) \o LockLength(m)) \o LockContent(m, p)) \o SubSeq(w, p + 1, q)
          = (HeaderHashed(m) \o LockLength(m)) \o (LockContent(m, p) \o SubSeq(w, p + 1, q))
    <2>1. PICK x, y, z : /\ x = HeaderHashed(m) \o LockLength(m) /\ y = LockContent(m, p)
                         /\ z = SubSeq(w, p + 1, q)
      OBVIOUS
    <2>2. x \in Seq(Byte) /\ y \in Seq(Byte) /\ z \in Seq(Byte)
      BY <1>5, <2>1
    <2>3. (x \o y) \o z = x \o (y \o z)
      BY ONLY <2>2, ConcatAssociative, SMTT(30)
    <2> QED BY <2>1, <2>3
  <1> QED BY <1>1, <1>3, <1>4, <1>6

(* The content of the lock.                                                 *)
LEMMA LockContentIs ==
    ASSUME NEW m \in Messages, IsWitnessArgs(First(m)), NEW w, w = First(m),
           NEW stop, stop = NumAt(w, 8), stop # 16
    PROVE  Slice(Lock(w), 4, Len(Lock(w))) = SubSeq(w, 20 + 1, stop)
  <1>1. w \in Seq(Byte) /\ Len(w) \in Nat /\ stop \in Nat /\ stop >= 20 /\ stop <= Len(w)
    BY FirstBytes, LockEnds
  <1>2. Lock(w) = SubSeq(w, 16 + 1, stop)
    BY DEF Lock, Slice
  <1>3. BufferCut(w, 16, stop, 4, Lock(w))
    <2>1. 16 \in Nat /\ 4 \in Nat /\ 16 <= stop /\ 4 <= stop - 16
      BY <1>1
    <2> QED BY <1>1, <1>2, <2>1, BufferIsCut
  <1>4. SubSeq(Lock(w), 4 + 1, Len(Lock(w))) = SubSeq(w, 16 + 4 + 1, stop)
    BY <1>3, Zenon DEF BufferCut
  <1>5. 16 + 4 + 1 = 20 + 1
    OBVIOUS
  <1> QED BY <1>4, <1>5, Zenon DEF Slice

(* A message for which the digest is signed holds no byte that the callback   *)
(* of a multisig lock would reject or zero.                                  *)
LEMMA SignableScript ==
    ASSUME NEW m \in Messages, Signable(m), m.multisig, NEW w, w = First(m),
           NEW stop, stop = NumAt(w, 8), stop # 16
    PROVE  /\ stop > 20 => w[21] = 0
           /\ stop >= 24 /\ w[24] # 0 =>
                \A i \in 21 .. stop : i > 24 + KeyHashSize * w[24] => w[i] = 0
  <1>1. IsWitnessArgs(w) /\ IsWitnessArgs(First(m))
    BY DEF Signable, First
  <1>2. w \in Seq(Byte) /\ Len(w) \in Nat /\ stop \in Nat /\ stop >= 20 /\ stop <= Len(w)
    BY <1>1, FirstBytes, LockEnds
  <1> DEFINE content == Slice(Lock(w), 4, Len(Lock(w)))
  <1>3. content = SubSeq(w, 20 + 1, stop)
    BY <1>1, LockContentIs
  <1>4. /\ content # <<>> => content[1] = 0
        /\ Sighash!BlankLock(content, TRUE) = content
    BY DEF Signable, First
  <1> HIDE DEF content
  <1>5. Len(content) = stop - 20 /\ \A i \in 1 .. stop - 20 : content[i] = w[20 + i]
    BY <1>2, <1>3
  <1>6. stop > 20 => w[21] = 0
    <2> SUFFICES ASSUME stop > 20 PROVE w[21] = 0
      OBVIOUS
    <2>1. Len(content) # 0 /\ 1 \in 1 .. stop - 20
      BY <1>2, <1>5
    <2>2. content # <<>>
      BY <2>1
    <2> QED BY <1>4, <1>5, <2>1, <2>2
  <1>7. ASSUME stop >= 24, w[24] # 0, NEW i \in 21 .. stop, i > 24 + KeyHashSize * w[24]
        PROVE  w[i] = 0
    <2>1. content[4] = w[24] /\ Len(content) >= 4
      BY <1>2, <1>5, <1>7
    <2>2. content = [k \in 1 .. Len(content) |->
                       IF k > 4 + KeyHashSize * content[4] THEN 0 ELSE content[k]]
      BY <1>4, <1>7, <2>1 DEF Sighash!BlankLock, Sighash!ScriptLength
    <2>3. i - 20 \in 1 .. stop - 20 /\ 20 + (i - 20) = i
      BY <1>2
    <2>4. KeyHashSize * w[24] \in Int
      <3>1. w[24] \in Byte
        BY <1>2, <1>7
      <3> QED BY <3>1, SizesAssumption DEF Byte
    <2>5. PICK len : len = KeyHashSize * w[24]
      OBVIOUS
    <2>6. i - 20 > 4 + len
      BY <1>2, <1>7, <2>4, <2>5
    <2>7. content[i - 20] = IF i - 20 > 4 + len THEN 0 ELSE content[i - 20]
      BY <1>5, <2>1, <2>2, <2>3, <2>5
    <2>8. content[i - 20] = 0
      BY <2>6, <2>7
    <2>9. content[i - 20] = w[20 + (i - 20)]
      BY <1>5, <2>3
    <2> QED BY <2>3, <2>8, <2>9
  <1> QED BY <1>6, <1>7

(* A chunk of the content of the lock of m, from byte `from` of the witness on, *)
(* before which c bytes of the script were seen, and the number of keys known.  *)
ScriptChunk(m, c, from, to, cnt, buf) ==
    /\ c \in Nat /\ from \in Nat /\ to \in Nat /\ from = 20 + c /\ from <= to
    /\ to <= NumAt(First(m), 8) /\ cnt \in Byte
    /\ buf = SubSeq(First(m), from + 1, to)
    /\ to >= 24 => cnt = First(m)[24]

LEMMA NothingZeroed ==
    ASSUME NEW m \in Messages, Signable(m), m.multisig, NumAt(First(m), 8) # 16,
           NEW c, NEW from, NEW to, NEW cnt, NEW buf, ScriptChunk(m, c, from, to, cnt, buf)
    PROVE  ZeroSignatures(buf, cnt, c) = buf
  <1>13. PICK w, stop : w = First(m) /\ stop = NumAt(w, 8)
    OBVIOUS
  <1>14. /\ c \in Nat /\ from \in Nat /\ to \in Nat /\ from = 20 + c /\ from <= to
         /\ to <= stop /\ cnt \in Byte /\ buf = SubSeq(w, from + 1, to) /\ (to >= 24 => cnt = w[24])
    BY <1>13 DEF ScriptChunk
  <1>1. IsWitnessArgs(First(m))
    BY DEF Signable, First
  <1>2. w \in Seq(Byte) /\ Len(w) \in Nat /\ stop \in Nat /\ stop >= 20 /\ stop <= Len(w)
    BY <1>1, <1>13, FirstBytes, LockEnds
  <1>12. PICK n \in Nat : n = to - from
    BY <1>14
  <1>3. /\ buf \in Seq(Byte) /\ Len(buf) = n
        /\ \A i \in 1 .. n : buf[i] = w[20 + c + i]
    <2>1. to <= Len(w) /\ to - from = n
      BY <1>2, <1>12, <1>14
    <2>2. buf \in Seq(Byte) /\ Len(buf) = n /\ \A i \in 1 .. n : buf[i] = w[from + i]
      BY <1>2, <1>14, <2>1
    <2> QED BY <1>14, <2>2
  <1> SUFFICES ASSUME cnt > 0, ScriptLength(cnt) - c > 0, Len(buf) > ScriptLength(cnt) - c
               PROVE  ZeroSignatures(buf, cnt, c) = buf
    BY DEF ZeroSignatures
  <1>4. PICK len : len = KeyHashSize * cnt
    OBVIOUS
  <1>5. len \in Nat /\ ScriptLength(cnt) = 4 + len
    <2>1. KeyHashSize * cnt \in Nat
      BY <1>14, SizesAssumption DEF Byte
    <2> QED BY <1>4, <2>1 DEF ScriptLength
  <1>6. cnt = w[24] /\ stop >= 24 /\ w[24] # 0
    <2>1. c + n > 4 + len
      BY <1>3, <1>5, <1>14
    <2>2. to >= 24 /\ stop >= 24
      BY <1>2, <1>5, <1>12, <1>14, <2>1
    <2> QED BY <1>14, <2>2 DEF Byte
  <1>7. \A i \in 21 .. stop : i > 24 + len => w[i] = 0
    BY <1>4, <1>6, <1>13, SignableScript
  <1>8. ASSUME NEW i \in 1 .. n PROVE (IF i > 4 + len - c THEN 0 ELSE buf[i]) = buf[i]
    <2>1. CASE i > 4 + len - c
      <3>1. 20 + c + i \in 21 .. stop /\ 20 + c + i > 24 + len
        BY <1>2, <1>5, <1>12, <1>14, <2>1
      <3>2. w[20 + c + i] = 0
        BY <1>7, <3>1
      <3> QED BY <1>3, <2>1, <3>2
    <2>2. CASE ~ (i > 4 + len - c)
      BY <2>2
    <2> QED BY <2>1, <2>2
  <1>9. buf = [i \in 1 .. n |-> buf[i]]
    <2>1. buf \in [1 .. n -> Byte]
      BY <1>3, LenProperties
    <2> QED BY <2>1
  <1>10. [i \in 1 .. n |-> IF i > 4 + len - c THEN 0 ELSE buf[i]] = [i \in 1 .. n |-> buf[i]]
    BY <1>8
  <1>11. ZeroSignatures(buf, cnt, c) = [i \in 1 .. Len(buf) |-> IF i > 4 + len - c THEN 0 ELSE buf[i]]
    BY <1>5, <1>14 DEF ZeroSignatures
  <1> QED BY <1>3, <1>9, <1>10, <1>11

(* The digest of the chain is stated with the same encodings.                *)
LEMMA SameEncoding ==
    /\ \A n : Sighash!LE4(n) = LE4(n) /\ Sighash!LE8(n) = LE8(n) /\ Sighash!Zeros(n) = Zeros(n)
    /\ \A b : /\ Sighash!Bytes(b) = Bytes(b) /\ Sighash!Lock(b) = Lock(b)
              /\ Sighash!InputType(b) = InputType(b) /\ Sighash!OutputType(b) = OutputType(b)
              /\ Sighash!IsWitnessArgs(b) = IsWitnessArgs(b)
    /\ \A b, from, to : Sighash!Slice(b, from, to) = Slice(b, from, to)
    /\ \A l, i, o : Sighash!WitnessArgs(l, i, o) = WitnessArgs(l, i, o)
  <1>1. \A n : Sighash!LE4(n) = LE4(n)
    BY DEF LE4, Sighash!LE4
  <1>2. \A n : Sighash!LE8(n) = LE8(n) /\ Sighash!Zeros(n) = Zeros(n)
    BY <1>1, Zenon DEF LE8, Sighash!LE8, Zeros, Sighash!Zeros
  <1>3. \A b : Sighash!Bytes(b) = Bytes(b)
    BY <1>1, Zenon DEF Bytes, Sighash!Bytes
  <1>4. \A b, from, to : Sighash!Slice(b, from, to) = Slice(b, from, to)
    BY Zenon DEF Slice, Sighash!Slice
  <1>5. \A l, i, o : Sighash!WitnessArgs(l, i, o) = WitnessArgs(l, i, o)
    BY <1>1, Zenon DEF WitnessArgs, Sighash!WitnessArgs
  <1>6. \A b, n : Sighash!NumAt(b, n) = NumAt(b, n)
    <2>1. \A b : Sighash!Num(b) = Num(b)
      BY DEF Num, Sighash!Num
    <2> QED BY <2>1, Zenon DEF NumAt, Sighash!NumAt
  <1>7. \A b : Sighash!IsBytesOpt(b) = IsBytesOpt(b)
    BY <1>6, Zenon DEF IsBytesOpt, Sighash!IsBytesOpt
  <1>8. \A b : /\ Sighash!Lock(b) = Lock(b)
               /\ Sighash!InputType(b) = InputType(b) /\ Sighash!OutputType(b) = OutputType(b)
    BY <1>4, <1>6, Zenon DEF Lock, Sighash!Lock, InputType, Sighash!InputType, OutputType, Sighash!OutputType
  <1>9. \A b : Sighash!IsWitnessArgs(b) = IsWitnessArgs(b)
    <2> SUFFICES ASSUME NEW b PROVE Sighash!IsWitnessArgs(b) = IsWitnessArgs(b)
      OBVIOUS
    <2>1. /\ Sighash!NumAt(b, 0) = NumAt(b, 0) /\ Sighash!NumAt(b, 4) = NumAt(b, 4)
          /\ Sighash!NumAt(b, 8) = NumAt(b, 8) /\ Sighash!NumAt(b, 12) = NumAt(b, 12)
      BY <1>6, Zenon
    <2>2. \A from, to : Sighash!IsBytesOpt(Sighash!Slice(b, from, to)) = IsBytesOpt(Slice(b, from, to))
      BY <1>4, <1>7, Zenon
    <2> QED BY <2>1, <2>2, Zenon DEF IsWitnessArgs, Sighash!IsWitnessArgs
  <1> QED BY <1>1, <1>2, <1>3, <1>4, <1>5, <1>8, <1>9

LEMMA SameSignable == \A m : Sighash!Signable(m) = Signable(m)
  BY SameEncoding, Zenon DEF Signable, Sighash!Signable

LEMMA EncodedLengths ==
    /\ \A n \in Int : Len(LE4(n)) = 4 /\ Len(LE8(n)) = 8
    /\ \A l, i, o \in Seq(Byte) :
         Len(WitnessArgs(l, i, o)) = 16 + Len(l) + Len(i) + Len(o)
  <1>1. \A n \in Int : Len(LE4(n)) = 4
    BY DEF LE4
  <1>2. \A n \in Int : Len(LE8(n)) = 8
    <2> SUFFICES ASSUME NEW n \in Int PROVE Len(LE8(n)) = 8
      OBVIOUS
    <2>1. PICK x \in Seq(Byte) : x = LE4(n)
      BY LE4Bytes
    <2>2. <<0, 0, 0, 0>> \in Seq(Byte)
      BY SMT DEF Byte
    <2>4. PICK y \in Seq(Byte) : y = <<0, 0, 0, 0>>
      BY <2>2
    <2>5. Len(y) = 4
      BY <2>4
    <2>6. x \in Seq(Byte) /\ y \in Seq(Byte) /\ Len(x) = 4
      BY <1>1, <2>1, <2>4
    <2>3. Len(x \o y) = Len(x) + Len(y)
      BY <2>6, ConcatProperties
    <2>7. LE8(n) = x \o y
      BY <2>1, <2>4 DEF LE8
    <2> QED BY <2>3, <2>5, <2>6, <2>7
  <1>3. ASSUME NEW l \in Seq(Byte), NEW i \in Seq(Byte), NEW o \in Seq(Byte)
        PROVE  Len(WitnessArgs(l, i, o)) = 16 + Len(l) + Len(i) + Len(o)
    <2>1. Len(l) \in Int /\ Len(i) \in Int /\ Len(o) \in Int
      BY LenProperties
    <2>2. PICK t, p, q : t = 16 + Len(l) + Len(i) + Len(o) /\ p = 16 + Len(l) /\ q = 16 + Len(l) + Len(i)
      OBVIOUS
    <2>3. t \in Int /\ p \in Int /\ q \in Int /\ 16 \in Int
      BY <2>1, <2>2
    <2>4. PICK a, b, c, d : a = LE4(t) /\ b = LE4(16) /\ c = LE4(p) /\ d = LE4(q)
      OBVIOUS
    <2>5. /\ a \in Seq(Byte) /\ b \in Seq(Byte) /\ c \in Seq(Byte) /\ d \in Seq(Byte)
          /\ Len(a) = 4 /\ Len(b) = 4 /\ Len(c) = 4 /\ Len(d) = 4
      BY <1>1, <2>3, <2>4, LE4Bytes
    <2>10. a \o b \o c \o d \in Seq(Byte) /\ Len(a \o b \o c \o d) = 16
      <3>1. a \o b \in Seq(Byte) /\ Len(a \o b) = Len(a) + Len(b)
        BY <2>5, ConcatProperties
      <3>2. PICK x : x = a \o b
        OBVIOUS
      <3>3. x \in Seq(Byte) /\ Len(x) = 8
        BY <2>5, <3>1, <3>2
      <3>4. x \o c \in Seq(Byte) /\ Len(x \o c) = Len(x) + Len(c)
        BY <2>5, <3>3, ConcatProperties
      <3>5. PICK y : y = x \o c
        OBVIOUS
      <3>6. y \in Seq(Byte) /\ Len(y) = 12
        BY <2>5, <3>3, <3>4, <3>5
      <3>7. y \o d \in Seq(Byte) /\ Len(y \o d) = Len(y) + Len(d)
        BY <2>5, <3>6, ConcatProperties
      <3>8. a \o b \o c \o d = y \o d
        BY <3>2, <3>5
      <3> QED BY <2>5, <3>6, <3>7, <3>8
    <2>11. PICK x \in Seq(Byte) : x = a \o b \o c \o d /\ Len(x) = 16
      BY <2>10
    <2>12. x \o l \in Seq(Byte) /\ Len(x \o l) = 16 + Len(l)
      BY <2>11, ConcatProperties
    <2>13. x \o l \o i \in Seq(Byte) /\ Len(x \o l \o i) = 16 + Len(l) + Len(i)
      BY <2>12, ConcatProperties
    <2>14. Len(x \o l \o i \o o) = 16 + Len(l) + Len(i) + Len(o)
      BY <2>13, ConcatProperties
    <2>6. Len(a \o b \o c \o d \o l \o i \o o) = 16 + Len(l) + Len(i) + Len(o)
      BY <2>11, <2>14
    <2>7. WitnessArgs(l, i, o) = a \o b \o c \o d \o l \o i \o o
      BY <2>2, <2>4 DEF WitnessArgs
    <2> QED BY <2>6, <2>7
  <1> QED BY <1>1, <1>2, <1>3

LEMMA InOnePiece ==
    \A a, b, c \in Seq(Byte) : (a \o b) \o c = a \o (b \o c)
  BY ConcatAssociative

LEMMA FiveParts ==
    \A a, b, c, d, e \in Seq(Byte) : ((a \o b) \o c) \o (d \o e) = a \o (((b \o c) \o d) \o e)
  <1> SUFFICES ASSUME NEW a \in Seq(Byte), NEW b \in Seq(Byte), NEW c \in Seq(Byte),
                      NEW d \in Seq(Byte), NEW e \in Seq(Byte)
               PROVE  ((a \o b) \o c) \o (d \o e) = a \o (((b \o c) \o d) \o e)
    BY Zenon
  <1>1. b \o c \in Seq(Byte) /\ d \o e \in Seq(Byte)
    BY ConcatProperties
  <1>2. PICK f, g : f = b \o c /\ g = d \o e
    OBVIOUS
  <1>3. f \in Seq(Byte) /\ g \in Seq(Byte)
    BY <1>1, <1>2, Zenon
  <1>4. (a \o b) \o c = a \o (b \o c)
    BY InOnePiece, ZenonT(60)
  <1>5. (a \o f) \o g = a \o (f \o g)
    BY <1>3, InOnePiece, ZenonT(60)
  <1>6. (f \o d) \o e = f \o (d \o e)
    <2>1. f \in Seq(Byte)
      BY <1>3
    <2> QED BY <2>1, InOnePiece, Zenon
  <1> QED BY <1>2, <1>4, <1>5, <1>6, Zenon

(* The header and the lock that are hashed are those of the blank witness:   *)
(* with a lock of b bytes in place of the one that came.                     *)
BlankLockOf(m) == Sighash!BlankField(Lock(First(m)), m.multisig)
BlankHeader(m, b) ==
    LE4(16 + b + (NumAt(First(m), 12) - NumAt(First(m), 8)) + (Len(First(m)) - NumAt(First(m), 12)))
      \o LE4(16) \o LE4(16 + b) \o LE4(16 + b + (NumAt(First(m), 12) - NumAt(First(m), 8)))

LEMMA LockAndHeader ==
    ASSUME NEW m \in Messages, Signable(m), NEW b, b = Len(BlankLockOf(m))
    PROVE  /\ BlankLockOf(m) \in Seq(Byte) /\ b \in Nat
           /\ LockHashed(m)
                = (LE8(16 + b + (NumAt(First(m), 12) - NumAt(First(m), 8))
                          + (Len(First(m)) - NumAt(First(m), 12)))
                     \o BlankHeader(m, b)) \o BlankLockOf(m)
           /\ BlankHeader(m, b) \in Seq(Byte)
  <1>1. IsWitnessArgs(First(m))
    BY DEF Signable, First
  <1>2. PICK w, o1, o2, len : /\ w = First(m) /\ o1 = NumAt(First(m), 8) /\ o2 = NumAt(First(m), 12)
                              /\ len = Len(First(m))
    OBVIOUS
  <1>3. /\ w \in Seq(Byte) /\ len \in Nat /\ o1 \in Nat /\ o2 \in Nat
        /\ (o1 = 16 \/ o1 >= 20) /\ 16 <= o1 /\ o1 <= o2 /\ o2 <= len
        /\ len = Len(w) /\ m.multisig \in BOOLEAN
    BY <1>1, <1>2, FirstBytes, LockEnds
  <1> DEFINE t == 16 + b + (o2 - o1) + (len - o2)
  <1> SUFFICES /\ BlankLockOf(m) \in Seq(Byte) /\ b \in Nat /\ BlankHeader(m, b) \in Seq(Byte)
               /\ LockHashed(m) = (LE8(t) \o BlankHeader(m, b)) \o BlankLockOf(m)
    BY <1>2
  <1>4. /\ Lock(w) = SubSeq(w, 16 + 1, o1) /\ Len(Lock(w)) = o1 - 16
    <2>1. FieldStop(w, "lock") = o1
      BY <1>2 DEF FieldStop, FieldStart, NextField
    <2> QED BY <1>1, <1>2, <1>3, <2>1, LockOfMessage
  <1>5. CASE m.multisig /\ o1 = 16
    <2>1. Lock(w) = <<>>
      BY <1>4, <1>5
    <2>2. BlankLockOf(m) = <<>>
      BY <1>2, <1>5, <2>1, Zenon DEF BlankLockOf, Sighash!BlankField
    <2>3. b = 0
      BY <2>2
    <2>4. BlankHeader(m, b) = LE4(len) \o LE4(16) \o LE4(o1) \o LE4(o2)
      <3>1. 16 + b + (o2 - o1) + (len - o2) = len /\ 16 + b = o1 /\ 16 + b + (o2 - o1) = o2
        BY <1>3, <1>5, <2>3
      <3> QED BY <1>2, <3>1 DEF BlankHeader
    <2>5. HeaderHashed(m) = LE8(len) \o BlankHeader(m, b)
      <3>1. len + 0 = len /\ o1 + 0 = o1 /\ o2 + 0 = o2
        BY <1>3
      <3> QED BY <1>2, <1>5, <2>4, <3>1 DEF HeaderHashed
    <2>6. LockLength(m) = <<>> /\ LockContent(m, o1) = <<>>
      BY <1>2, <1>5 DEF LockLength, LockContent
    <2>7. HeaderHashed(m) \in Seq(Byte)
      BY <1>1, HashedBytes
    <2>8. LockHashed(m) = HeaderHashed(m) \o BlankLockOf(m)
      BY <1>2, <2>2, <2>6, <2>7, ConcatEmptySeq DEF LockHashed
    <2>9. BlankHeader(m, b) \in Seq(Byte)
      BY <1>3, <2>4, StandardBytes
    <2>10. t = len
      BY <1>3, <1>5, <2>3
    <2> HIDE DEF t
    <2>11. <<>> \in Seq(Byte) /\ 0 \in Nat
      OBVIOUS
    <2> QED BY <2>2, <2>3, <2>5, <2>8, <2>9, <2>10, <2>11, Zenon
  <1>6. CASE m.multisig /\ o1 # 16
    <2> DEFINE content == SubSeq(w, 20 + 1, o1)
    <2>1. /\ Slice(Lock(w), 4, Len(Lock(w))) = content /\ content \in Seq(Byte)
          /\ Len(content) = o1 - 20
      <3>1. Slice(Lock(w), 4, Len(Lock(w))) = content
        BY <1>1, <1>2, <1>6, LockContentIs
      <3>2. 20 <= o1 /\ o1 <= Len(w) /\ 20 \in Nat
        BY <1>3, <1>6
      <3> QED BY <1>3, <3>1, <3>2, Part
    <2>2. Lock(w) # <<>>
      BY <1>3, <1>4, <1>6
    <2>3. Sighash!BlankLock(content, TRUE) = content
      BY <1>2, <1>6, <2>1 DEF Signable, First
    <2>4. BlankLockOf(m) = LE4(o1 - 20) \o content
      <3>1. BlankLockOf(m) = Bytes(Sighash!BlankLock(Slice(Lock(w), 4, Len(Lock(w))), m.multisig))
        BY <1>2, <1>6, <2>2, SameEncoding, Zenon DEF BlankLockOf, Sighash!BlankField
      <3>2. m.multisig = TRUE
        BY <1>3, <1>6
      <3>3. BlankLockOf(m) = Bytes(content)
        BY <2>1, <2>3, <3>1, <3>2, Zenon
      <3> HIDE DEF content
      <3> QED BY <2>1, <3>3 DEF Bytes
    <2> HIDE DEF content
    <2>5. PICK x \in Seq(Byte) : x = LE4(o1 - 20) /\ Len(x) = 4
      <3>1. o1 - 20 \in Int
        BY <1>3
      <3> QED BY <3>1, LE4Bytes, EncodedLengths
    <2>6. BlankLockOf(m) \in Seq(Byte) /\ b = o1 - 16 /\ b \in Nat
      <3>1. x \o content \in Seq(Byte) /\ Len(x \o content) = Len(x) + Len(content)
        <4>1. x \in Seq(Byte) /\ content \in Seq(Byte)
          BY <2>1, <2>5
        <4> QED BY <4>1, ConcatProperties
      <3>2. Len(x) = 4 /\ BlankLockOf(m) = x \o content
        BY <2>4, <2>5
      <3> QED BY <1>3, <1>6, <2>1, <3>1, <3>2
    <2>7. BlankHeader(m, b) = LE4(len) \o LE4(16) \o LE4(o1) \o LE4(o2)
      <3>1. 16 + b + (o2 - o1) + (len - o2) = len /\ 16 + b = o1 /\ 16 + b + (o2 - o1) = o2
        BY <1>3, <2>6
      <3> QED BY <1>2, <3>1 DEF BlankHeader
    <2>8. HeaderHashed(m) = LE8(len) \o BlankHeader(m, b)
      <3>1. len + 0 = len /\ o1 + 0 = o1 /\ o2 + 0 = o2
        BY <1>3
      <3> QED BY <1>2, <1>6, <2>7, <3>1 DEF HeaderHashed
    <2>9. LockLength(m) = x /\ LockContent(m, o1) = content
      <3>1. 20 + 1 = 21
        OBVIOUS
      <3> QED BY <1>2, <1>6, <2>5, <3>1, Zenon DEF LockLength, LockContent, content
    <2>10. HeaderHashed(m) \in Seq(Byte)
      BY <1>1, HashedBytes
    <2>11. LockHashed(m) = HeaderHashed(m) \o BlankLockOf(m)
      <3>1. PICK h \in Seq(Byte) : h = HeaderHashed(m)
        BY <2>10
      <3>2. (h \o x) \o content = h \o (x \o content)
        <4>1. x \in Seq(Byte) /\ content \in Seq(Byte) /\ h \in Seq(Byte)
          BY <2>1, <2>5, <3>1
        <4> QED BY <4>1, ConcatAssociative
      <3> QED BY <1>2, <2>4, <2>5, <2>9, <3>1, <3>2 DEF LockHashed
    <2>12. BlankHeader(m, b) \in Seq(Byte)
      BY <1>3, <2>7, StandardBytes
    <2>13. t = len
      BY <1>3, <2>6
    <2> HIDE DEF t
    <2> QED BY <2>6, <2>8, <2>11, <2>12, <2>13, Zenon
  <1>7. CASE ~ m.multisig
    <2> DEFINE blank == Bytes(Zeros(SignatureSize))
    <2>1. BlankLockOf(m) = blank
      BY <1>7, SameEncoding, Zenon DEF BlankLockOf, Sighash!BlankField, Sighash!BlankLock
    <2>2. blank \in Seq(Byte) /\ Len(blank) = 4 + SignatureSize
      <3>1. Zeros(SignatureSize) \in Seq(Byte) /\ Len(Zeros(SignatureSize)) = SignatureSize
        BY SizesAssumption, ZerosBytes
      <3>2. SignatureSize \in Int
        BY SizesAssumption
      <3>3. PICK x \in Seq(Byte), z \in Seq(Byte) :
              x = LE4(SignatureSize) /\ Len(x) = 4 /\ z = Zeros(SignatureSize)
        BY <3>1, <3>2, LE4Bytes, EncodedLengths
      <3>4. x \o z \in Seq(Byte) /\ Len(x \o z) = Len(x) + Len(z)
        BY ConcatProperties
      <3>5. blank = x \o z
        BY <3>1, <3>3 DEF Bytes
      <3> QED BY <3>1, <3>3, <3>4, <3>5
    <2> HIDE DEF blank
    <2>3. b = 4 + SignatureSize /\ b \in Nat
      BY <2>1, <2>2, SizesAssumption
    <2>4. PICK shift \in Int : shift = 4 + SignatureSize - (o1 - 16)
      BY <1>3, SizesAssumption
    <2>5. BlankHeader(m, b) = LE4(len + shift) \o LE4(16) \o LE4(o1 + shift) \o LE4(o2 + shift)
      <3>1. /\ 16 + b + (o2 - o1) + (len - o2) = len + shift /\ 16 + b = o1 + shift
            /\ 16 + b + (o2 - o1) = o2 + shift
        BY <1>3, <2>3, <2>4, SizesAssumption
      <3> QED BY <1>2, <3>1 DEF BlankHeader
    <2>6. HeaderHashed(m) = (LE8(len + shift) \o BlankHeader(m, b)) \o blank
      BY <1>2, <1>7, <2>4, <2>5 DEF HeaderHashed, blank
    <2>7. LockLength(m) = <<>> /\ LockContent(m, o1) = <<>>
      BY <1>7 DEF LockLength, LockContent
    <2>8. LockHashed(m) = HeaderHashed(m)
      <3>1. HeaderHashed(m) \in Seq(Byte)
        BY <1>1, HashedBytes
      <3> QED BY <1>2, <2>7, <3>1, ConcatEmptySeq DEF LockHashed
    <2>9. BlankHeader(m, b) \in Seq(Byte)
      <3>1. len + shift \in Int /\ o1 + shift \in Int /\ o2 + shift \in Int /\ 16 \in Int
        BY <1>3
      <3> QED BY <2>5, <3>1, StandardBytes
    <2>10. t = len + shift
      BY <1>3, <2>3, <2>4, SizesAssumption
    <2> HIDE DEF t
    <2> QED BY <2>1, <2>2, <2>3, <2>6, <2>8, <2>9, <2>10, Zenon
  <1> QED BY <1>5, <1>6, <1>7

(* All that the parser hashes of a first witness is the witness with a blank  *)
(* signature, behind its length.                                             *)
LEMMA FirstIsHashed ==
    ASSUME NEW m \in Messages, Signable(m)
    PROVE  /\ LockHashed(m) \o SubSeq(First(m), NumAt(First(m), 8) + 1, Len(First(m)))
                = FirstHashed(m, TRUE)
           /\ FirstHashed(m, TRUE) \in Seq(Byte)
  <1>1. IsWitnessArgs(First(m))
    BY DEF Signable, First
  <1>2. PICK w, o1, o2, len : /\ w = First(m) /\ o1 = NumAt(First(m), 8) /\ o2 = NumAt(First(m), 12)
                              /\ len = Len(First(m))
    OBVIOUS
  <1>3. /\ w \in Seq(Byte) /\ len \in Nat /\ o1 \in Nat /\ o2 \in Nat
        /\ o1 <= o2 /\ o2 <= len /\ len = Len(w)
    BY <1>1, <1>2, FirstBytes, LockEnds
  <1>4. PICK l, b : l = BlankLockOf(m) /\ b = Len(BlankLockOf(m))
    OBVIOUS
  <1>5. PICK t : t = 16 + b + (o2 - o1) + (len - o2)
    OBVIOUS
  <1>6. PICK h : h = BlankHeader(m, b)
    OBVIOUS
  <1>7. /\ l \in Seq(Byte) /\ b \in Nat /\ b = Len(l) /\ h \in Seq(Byte)
        /\ LockHashed(m) = (LE8(t) \o h) \o l
    BY <1>2, <1>4, <1>5, <1>6, LockAndHeader
  <1>8. PICK i, o : i = SubSeq(w, o1 + 1, o2) /\ o = SubSeq(w, o2 + 1, len)
    OBVIOUS
  <1>9. /\ i \in Seq(Byte) /\ o \in Seq(Byte) /\ Len(i) = o2 - o1 /\ Len(o) = len - o2
    <2>1. o2 <= Len(w) /\ len <= Len(w)
      BY <1>3
    <2> QED BY <1>3, <1>8, <2>1, Part
  <1>10. i \o o = SubSeq(w, o1 + 1, len)
    <2>1. len <= Len(w)
      BY <1>3
    <2>2. SubSeq(w, o1 + 1, o2) \o SubSeq(w, o2 + 1, len) = SubSeq(w, o1 + 1, len)
      BY <1>3, <2>1, Pieces
    <2> QED BY <1>8, <2>2
  <1>11. PICK f \in Seq(Byte) : f = LE8(t)
    <2>1. t \in Int
      BY <1>3, <1>5, <1>7
    <2> QED BY <2>1, LE8Bytes
  <1>12. ((f \o h) \o l) \o (i \o o) = f \o (((h \o l) \o i) \o o)
    <2>1. \A c, d, e \in Seq(Byte) : ((f \o h) \o c) \o (d \o e) = f \o (((h \o c) \o d) \o e)
      BY <1>7, <1>11, FiveParts, Zenon
    <2>2. l \in Seq(Byte) /\ i \in Seq(Byte) /\ o \in Seq(Byte)
      BY <1>7, <1>9
    <2> QED BY <2>1, <2>2, Zenon
  <1>13. Sighash!BlankWitness(w, m.multisig) = WitnessArgs(l, i, o)
    <2>1. InputType(w) = i /\ OutputType(w) = o
      BY <1>2, <1>8 DEF InputType, OutputType, Slice
    <2> QED BY <1>1, <1>2, <1>4, <2>1, SameEncoding, Zenon DEF Sighash!BlankWitness, BlankLockOf
  <1>14. WitnessArgs(l, i, o) = ((h \o l) \o i) \o o
    <2>1. h = LE4(t) \o LE4(16) \o LE4(16 + b) \o LE4(16 + b + (o2 - o1))
      BY <1>2, <1>5, <1>6 DEF BlankHeader
    <2>2. 16 + Len(l) + Len(i) + Len(o) = t /\ 16 + Len(l) = 16 + b /\ 16 + Len(l) + Len(i) = 16 + b + (o2 - o1)
      BY <1>5, <1>7, <1>9
    <2> QED BY <2>1, <2>2, Zenon DEF WitnessArgs
  <1>15. Len(WitnessArgs(l, i, o)) = t
    <2>1. Len(WitnessArgs(l, i, o)) = 16 + Len(l) + Len(i) + Len(o)
      BY <1>7, <1>9, EncodedLengths
    <2> QED BY <1>3, <1>5, <1>7, <1>9, <2>1
  <1>16. FirstHashed(m, TRUE) = f \o WitnessArgs(l, i, o)
    BY <1>2, <1>11, <1>13, <1>15, SameEncoding, Zenon DEF FirstHashed, Sighash!Framed
  <1>17. f \o WitnessArgs(l, i, o) \in Seq(Byte)
    BY <1>7, <1>9, <1>11, WitnessArgsBytes, ConcatProperties
  <1>18. LockHashed(m) \o SubSeq(w, o1 + 1, len) = FirstHashed(m, TRUE)
    BY <1>7, <1>10, <1>11, <1>12, <1>14, <1>16, Zenon
  <1> QED BY <1>2, <1>16, <1>17, <1>18

-------------------------------------------------------------------------------
(* The witnesses behind the first in one piece: FlattenSeq is a recursive     *)
(* function, and that it satisfies its equation takes that the recursion has  *)
(* a solution, by induction.                                                 *)

LEMMA LeastNumber ==
    ASSUME NEW T, T \subseteq Nat, T # {}
    PROVE  \E x \in T : \A y \in T : x <= y
  <1> DEFINE R == {ss \in Nat \X Nat : ss[1] < ss[2]}
  <1>1. IsWellFoundedOn(R, Nat)
    BY NatLessThanWellFounded, Zenon DEF OpToRel
  <1> HIDE DEF R
  <1>2. PICK x \in T : \A y \in T : ~ (<<y, x>> \in R)
    BY <1>1, WFMin
  <1>3. ASSUME NEW y \in T PROVE x <= y
    <2>1. ~ (<<y, x>> \in R) /\ x \in Nat /\ y \in Nat
      BY <1>2
    <2>2. ~ (y < x)
      BY <2>1 DEF R
    <2> QED BY <2>1, <2>2
  <1> QED BY <1>2, <1>3

LEMMA UpFromZero ==
    ASSUME NEW S, 0 \in S, \A n \in Nat : n \in S => n + 1 \in S
    PROVE  \A n \in Nat : n \in S
  <1> SUFFICES ASSUME Nat \ S # {} PROVE FALSE
    OBVIOUS
  <1>1. PICK x \in Nat \ S : \A y \in Nat \ S : x <= y
    BY LeastNumber
  <1>2. x # 0 /\ x - 1 \in Nat /\ x - 1 \in S
    BY <1>1
  <1> QED BY <1>1, <1>2

Flattens(g, seqs, n) == g = [i \in 1 .. n |-> IF i = 1 THEN seqs[i] ELSE g[i - 1] \o seqs[i]]

LEMMA FlattenedIs ==
    ASSUME NEW seqs, Len(seqs) \in Nat
    PROVE  Flattens(Flattened(seqs), seqs, Len(seqs))
  <1> DEFINE S == {n \in Nat : \E g : Flattens(g, seqs, n)}
  <1>1. 0 \in S
    <2> DEFINE g == [i \in 1 .. 0 |-> 0]
    <2>1. g = [i \in 1 .. 0 |-> IF i = 1 THEN seqs[i] ELSE g[i - 1] \o seqs[i]]
      OBVIOUS
    <2> HIDE DEF g
    <2>2. Flattens(g, seqs, 0)
      BY <2>1 DEF Flattens
    <2> QED BY <2>2
  <1>2. ASSUME NEW n \in Nat, n \in S PROVE n + 1 \in S
    <2>1. PICK g : Flattens(g, seqs, n)
      BY <1>2
    <2>2. PICK h : h = [i \in 1 .. n + 1 |-> IF i = 1 THEN seqs[i] ELSE g[i - 1] \o seqs[i]]
      OBVIOUS
    <2>3. ASSUME NEW i \in 1 .. n PROVE h[i] = g[i]
      <3>1. h[i] = IF i = 1 THEN seqs[i] ELSE g[i - 1] \o seqs[i]
        BY <2>2
      <3>2. g[i] = IF i = 1 THEN seqs[i] ELSE g[i - 1] \o seqs[i]
        BY <2>1 DEF Flattens
      <3> QED BY <3>1, <3>2, Zenon
    <2>4. ASSUME NEW i \in 1 .. n + 1
          PROVE  (IF i = 1 THEN seqs[i] ELSE g[i - 1] \o seqs[i])
                   = (IF i = 1 THEN seqs[i] ELSE h[i - 1] \o seqs[i])
      <3>1. CASE i # 1
        <4>1. i - 1 \in 1 .. n
          BY <3>1
        <4>2. h[i - 1] = g[i - 1]
          BY <2>3, <4>1
        <4> QED BY <4>2
      <3> QED BY <3>1
    <2>5. h = [i \in 1 .. n + 1 |-> IF i = 1 THEN seqs[i] ELSE h[i - 1] \o seqs[i]]
      BY <2>2, <2>4, Zenon
    <2>6. Flattens(h, seqs, n + 1)
      BY <2>5 DEF Flattens
    <2> QED BY <2>6
  <1>3. Len(seqs) \in S
    <2> HIDE DEF S
    <2> QED BY <1>1, <1>2, UpFromZero
  <1>4. PICK joined : Flattens(joined, seqs, Len(seqs))
    BY <1>3
  <1>5. Flattened(seqs)
          = CHOOSE g : g = [i \in 1 .. Len(seqs) |-> IF i = 1 THEN seqs[i] ELSE g[i - 1] \o seqs[i]]
    BY Zenon DEF Flattened
  <1> QED BY <1>4, <1>5, Zenon DEF Flattens

LEMMA JoinedStep ==
    ASSUME NEW seqs \in Seq(Seq(Byte)), NEW k \in Nat, k < Len(seqs)
    PROVE  Joined(seqs, k + 1) = Joined(seqs, k) \o seqs[k + 1]
  <1>1. Len(seqs) \in Nat
    BY LenProperties
  <1>2. Flattens(Flattened(seqs), seqs, Len(seqs))
    BY <1>1, FlattenedIs
  <1>3. PICK f : f = Flattened(seqs)
    OBVIOUS
  <1>4. k + 1 \in 1 .. Len(seqs) /\ k + 1 # 0 /\ (k + 1) - 1 = k
    BY <1>1
  <1>5. f[k + 1] = IF k + 1 = 1 THEN seqs[k + 1] ELSE f[k] \o seqs[k + 1]
    BY <1>2, <1>3, <1>4 DEF Flattens
  <1>6. seqs[k + 1] \in Seq(Byte)
    BY <1>4, ElementOfSeq
  <1>7. CASE k = 0
    <2>1. <<>> \o seqs[k + 1] = seqs[k + 1]
      BY <1>6, ConcatEmptySeq
    <2> QED BY <1>3, <1>4, <1>5, <1>7, <2>1 DEF Joined
  <1>8. CASE k # 0
    <2>1. k + 1 # 1
      BY <1>8
    <2>2. Joined(seqs, k + 1) = f[k + 1] /\ Joined(seqs, k) = f[k]
      BY <1>3, <1>4, <1>8, Zenon DEF Joined
    <2> QED BY <1>5, <2>1, <2>2, Zenon
  <1> QED BY <1>7, <1>8

LEMMA JoinedBytes ==
    ASSUME NEW seqs \in Seq(Seq(Byte))
    PROVE  \A k \in Nat : k <= Len(seqs) => Joined(seqs, k) \in Seq(Byte)
  <1> DEFINE S == {k \in Nat : k <= Len(seqs) => Joined(seqs, k) \in Seq(Byte)}
  <1>1. 0 \in S
    BY DEF Joined
  <1>2. ASSUME NEW k \in Nat, k \in S PROVE k + 1 \in S
    <2> SUFFICES ASSUME k + 1 <= Len(seqs) PROVE Joined(seqs, k + 1) \in Seq(Byte)
      OBVIOUS
    <2>1. Len(seqs) \in Nat /\ k < Len(seqs)
      BY LenProperties
    <2>2. Joined(seqs, k) \in Seq(Byte)
      BY <1>2, <2>1
    <2>3. Joined(seqs, k + 1) = Joined(seqs, k) \o seqs[k + 1]
      BY <2>1, JoinedStep
    <2>4. seqs[k + 1] \in Seq(Byte)
      <3>1. k + 1 \in 1 .. Len(seqs)
        BY <2>1
      <3> QED BY <3>1, ElementOfSeq
    <2> QED BY <2>2, <2>3, <2>4, ConcatProperties
  <1>3. \A k \in Nat : k \in S
    <2> HIDE DEF S
    <2> QED BY <1>1, <1>2, UpFromZero
  <1> QED BY <1>3

LEMMA JoinedAll ==
    ASSUME NEW seqs \in Seq(Seq(Byte))
    PROVE  Joined(seqs, Len(seqs)) = Sighash!FlattenSeq(seqs)
  <1>1. Len(seqs) = 0 => seqs = <<>>
    BY EmptySeq
  <1>2. CASE Len(seqs) = 0
    BY <1>1, <1>2, Zenon DEF Joined, Sighash!FlattenSeq
  <1>3. CASE Len(seqs) # 0
    <2>1. Sighash!FlattenSeq(seqs)
            = (CHOOSE g : g = [i \in 1 .. Len(seqs) |->
                                 IF i = 1 THEN seqs[i] ELSE g[i - 1] \o seqs[i]])[Len(seqs)]
      BY <1>3, Zenon DEF Sighash!FlattenSeq
    <2>2. Flattened(seqs)
            = CHOOSE g : g = [i \in 1 .. Len(seqs) |->
                                IF i = 1 THEN seqs[i] ELSE g[i - 1] \o seqs[i]]
      BY Zenon DEF Flattened
    <2> QED BY <1>3, <2>1, <2>2, Zenon DEF Joined
  <1> QED BY <1>2, <1>3

(* The witnesses behind the first are joined one by one.                     *)
LEMMA OtherBytes ==
    ASSUME NEW m \in Messages
    PROVE  /\ OtherWitnesses(m) \in Seq(Seq(Byte))
           /\ Len(OtherWitnesses(m)) = Len(m.witnesses) - 1
           /\ \A i \in 1 .. Len(m.witnesses) - 1 :
                OtherWitnesses(m)[i] = LE8(Len(m.witnesses[i + 1])) \o m.witnesses[i + 1]
  <1>1. m.witnesses \in Seq(Seq(Byte)) /\ Len(m.witnesses) \in Nat /\ Len(m.witnesses) # 0
    BY FirstBytes
  <1>2. PICK n \in Nat : n = Len(m.witnesses) - 1
    <2>1. Len(m.witnesses) - 1 \in Nat
      BY <1>1
    <2> QED BY <2>1
  <1>3. ASSUME NEW i \in 1 .. n
        PROVE  /\ Sighash!Framed(m.witnesses[i + 1]) = LE8(Len(m.witnesses[i + 1])) \o m.witnesses[i + 1]
               /\ Sighash!Framed(m.witnesses[i + 1]) \in Seq(Byte)
    <2>1. i + 1 \in 1 .. Len(m.witnesses)
      BY <1>1, <1>2
    <2>2. m.witnesses[i + 1] \in Seq(Byte)
      BY <1>1, <2>1, ElementOfSeq
    <2>3. LE8(Len(m.witnesses[i + 1])) \in Seq(Byte)
      <3>1. Len(m.witnesses[i + 1]) \in Int
        BY <2>2, LenProperties
      <3> QED BY <3>1, LE8Bytes
    <2>4. Sighash!Framed(m.witnesses[i + 1]) = LE8(Len(m.witnesses[i + 1])) \o m.witnesses[i + 1]
      BY SameEncoding, Zenon DEF Sighash!Framed
    <2> QED BY <2>2, <2>3, <2>4, ConcatProperties
  <1>4. OtherWitnesses(m) = [i \in 1 .. n |-> Sighash!Framed(m.witnesses[i + 1])]
    BY <1>2, Zenon DEF OtherWitnesses
  <1>5. OtherWitnesses(m) \in [1 .. n -> Seq(Byte)]
    BY <1>3, <1>4
  <1>6. OtherWitnesses(m) \in Seq(Seq(Byte)) /\ Len(OtherWitnesses(m)) = n
    BY <1>5
  <1> QED BY <1>2, <1>3, <1>4, <1>6

-------------------------------------------------------------------------------
(* What the steps of the parser of a first witness append to the hash, when  *)
(* the digest of the message is signed.                                      *)

(* p bytes into the first witness.                                          *)
Here(p) ==
    /\ WholeFirstWitness /\ message \in Messages /\ IsWitnessArgs(First(message)) /\ item = 0
    /\ p \in Nat /\ read \in Nat /\ Len(First(message)) \in Nat
    /\ p <= read /\ read <= Len(First(message))
    /\ chunk = SubSeq(First(message), p + 1, read) /\ Len(chunk) = read - p
    /\ args \in ArgsStates /\ ArgsInPlace(First(message), args, p)
    /\ hash = transaction_hash \o HashedOf(message, args, p)

LEMMA ParsedHere ==
    ASSUME TypeOK, VectorInPlace, FirstInPlace, HashInPlace, Signable(message), at = "parse",
           NEW p, p = read - Len(chunk)
    PROVE  Here(p) /\ FirstWitness = First(message)
  <1>1. WholeFirstWitness /\ IsWitnessArgs(First(message)) /\ FirstWitness = First(message)
    BY DEF Signable, WholeFirstWitness, First, FirstWitness
  <1>2. /\ Given(FirstWitness) /\ ArgsInPlace(FirstWitness, args, p)
        /\ p \in Nat /\ Len(chunk) \in Nat
        /\ chunk = SubSeq(FirstWitness, p + 1, read)
    BY <1>1, InParse
  <1>3. /\ read \in Nat /\ Len(First(message)) \in Nat /\ read <= Len(First(message)) /\ item = 0
        /\ args \in ArgsStates
    BY <1>1, <1>2 DEF Given
  <1>4. p <= read /\ Len(chunk) = read - p
    BY <1>2, <1>3
  <1>5. hash = transaction_hash \o HashedOf(message, args, p)
    BY <1>3 DEF HashInPlace
  <1>6. message \in Messages
    BY DEF TypeOK
  <1> QED BY <1>1, <1>2, <1>3, <1>4, <1>5, <1>6, Zenon DEF Here

(* The parser goes on in the chunk, or returns at its end.                   *)
LEMMA HashGoes ==
    ASSUME VectorInPlace, Signable(message), NEW p, Here(p), UNCHANGED <<message, item, read>>,
           NEW q, hash' = transaction_hash \o HashedOf(message, args', q),
           (at' = "parse" /\ chunk' = SubSeq(First(message), q + 1, read) /\ q \in Nat /\ q <= read)
             \/ (Return /\ q = read)
    PROVE  HashInPlace'
  <1>1. Signable(message)' = Signable(message) /\ FirstWitness' = First(message)
    BY DEF FirstWitness, First
  <1>2. item' = 0
    BY DEF Here
  <1>3. CASE at' = "parse" /\ chunk' = SubSeq(First(message), q + 1, read) /\ q \in Nat /\ q <= read
    <2>1. First(message) \in Seq(Byte) /\ read \in Nat /\ read <= Len(First(message))
      BY FirstBytes DEF Here
    <2>2. Len(chunk') = read - q
      BY <1>3, <2>1, Part
    <2>3. read' - Len(chunk') = q
      BY <1>3, <2>1, <2>2
    <2> QED BY <1>2, <1>3, <2>3, Zenon DEF HashInPlace
  <1>4. CASE Return /\ q = read
    <2>1. at' \in {"more", "end"} /\ chunk' = <<>>
      BY <1>4 DEF Return, AfterChunk
    <2>2. read' - Len(chunk') = q
      <3>1. Len(chunk') = 0 /\ read \in Nat
        BY <2>1 DEF Here
      <3> QED BY <1>4, <3>1
    <2>3. at' = "end" => q = Len(First(message))
      <3>1. Witness = First(message)
        BY DEF Witness, First, Here
      <3> QED BY <1>4, <3>1 DEF Return, AfterChunk
    <2> QED BY <1>1, <1>2, <2>1, <2>2, <2>3, Zenon DEF HashInPlace
  <1> QED BY <1>3, <1>4

LEMMA Appends ==
    ASSUME NEW x \in Seq(Byte), NEW c \in Seq(Byte), NEW h, h = transaction_hash \o x
    PROVE  h \o c = transaction_hash \o (x \o c)
  <1>1. transaction_hash \in Seq(Byte)
    BY HashAssumption
  <1> QED BY <1>1, InOnePiece, Zenon

AtTypes(a) == a.at = "complete" \/ (a.at \in {"length", "body"} /\ a.field # "lock")

LEMMA AtTypesHashed ==
    ASSUME NEW m, NEW a, AtTypes(a), NEW p
    PROVE  HashedOf(m, a, p) = LockHashed(m) \o SubSeq(First(m), NumAt(First(m), 8) + 1, p)
  BY DEF HashedOf, AtTypes

(* The chunk callbacks of the two types hash what passes.                    *)
LEMMA TypeHashed ==
    ASSUME NEW m \in Messages, IsWitnessArgs(First(m)), NEW a, AtTypes(a), NEW b, AtTypes(b),
           NEW p \in Nat, NEW q \in Nat,
           NumAt(First(m), 8) <= p, p <= q, q <= Len(First(m))
    PROVE  (transaction_hash \o HashedOf(m, a, p)) \o SubSeq(First(m), p + 1, q)
             = transaction_hash \o HashedOf(m, b, q)
  <1>1. First(m) \in Seq(Byte) /\ NumAt(First(m), 8) \in Nat /\ Len(First(m)) \in Nat
    BY FirstBytes, LockEnds
  <1>2. PICK c : c = SubSeq(First(m), p + 1, q)
    OBVIOUS
  <1>3. PICK x : x = LockHashed(m) \o SubSeq(First(m), NumAt(First(m), 8) + 1, p)
    OBVIOUS
  <1>4. c \in Seq(Byte)
    BY <1>1, <1>2, SubSeqBytes
  <1>5. x \in Seq(Byte)
    <2>1. LockHashed(m) \in Seq(Byte)
      BY HashedBytes
    <2>2. SubSeq(First(m), NumAt(First(m), 8) + 1, p) \in Seq(Byte)
      BY <1>1, SubSeqBytes
    <2> QED BY <1>3, <2>1, <2>2, ConcatProperties
  <1>6. x \o c = HashedOf(m, b, q)
    <2>1. x \o c = LockHashed(m) \o SubSeq(First(m), NumAt(First(m), 8) + 1, q)
      BY <1>2, <1>3, TypeGrows
    <2> QED BY <2>1, AtTypesHashed
  <1>7. PICK h : h = transaction_hash \o x
    OBVIOUS
  <1>9. HashedOf(m, a, p) = x
    BY <1>3, AtTypesHashed
  <1>8. h \o c = transaction_hash \o (x \o c)
    BY <1>4, <1>5, <1>7, Appends
  <1> QED BY <1>2, <1>6, <1>7, <1>8, <1>9, Zenon

(* Nothing is hashed for the lock itself: of one signer the blank one was     *)
(* hashed with the header, and an absent one of a multisig has no length.     *)
NoLockHashed(m) == ~ m.multisig \/ NumAt(First(m), 8) = 16
AtLock(a) == a.at \in {"length", "body"} /\ a.field = "lock"

LEMMA LockSkipped ==
    ASSUME NEW m \in Messages, IsWitnessArgs(First(m)), NoLockHashed(m),
           NEW a, AtLock(a), NEW p, NEW b, NEW q,
           AtLock(b) \/ (AtTypes(b) /\ q = NumAt(First(m), 8))
    PROVE  HashedOf(m, b, q) = HashedOf(m, a, p)
  <1>1. \A r : LockLength(m) = <<>> /\ LockContent(m, r) = <<>>
    BY DEF LockLength, LockContent, NoLockHashed
  <1>2. HeaderHashed(m) \in Seq(Byte)
    BY HashedBytes
  <1>3. HeaderHashed(m) \o <<>> = HeaderHashed(m)
    BY <1>2, ConcatEmptySeq
  <1>4. \A c, r : AtLock(c) => HashedOf(m, c, r) = HeaderHashed(m)
    BY <1>1, <1>3, Zenon DEF HashedOf, AtLock
  <1>5. CASE AtTypes(b) /\ q = NumAt(First(m), 8)
    <2>1. SubSeq(First(m), q + 1, q) = <<>>
      <3>1. First(m) \in Seq(Byte) /\ q \in Nat
        BY <1>5, FirstBytes, LockEnds
      <3> QED BY <3>1
    <2>2. LockHashed(m) = HeaderHashed(m)
      BY <1>1, <1>3, Zenon DEF LockHashed
    <2> QED BY <1>3, <1>4, <1>5, <2>1, <2>2, AtTypesHashed, Zenon
  <1> QED BY <1>4, <1>5

(* witness_lock_arg_size: the length of a multisig lock.                     *)
LEMMA LockLengthHashed ==
    ASSUME NEW m \in Messages, IsWitnessArgs(First(m)), m.multisig, NumAt(First(m), 8) # 16,
           NEW a, AtLock(a), a.at = "length", NEW p, NEW b, AtLock(b), b.at = "body"
    PROVE  (transaction_hash \o HashedOf(m, a, p)) \o LE4(NumAt(First(m), 8) - 20)
             = transaction_hash \o HashedOf(m, b, 20)
  <1>1. HashedOf(m, a, p) = HeaderHashed(m)
    BY DEF HashedOf, AtLock
  <1>2. HashedOf(m, b, 20) = (HeaderHashed(m) \o LE4(NumAt(First(m), 8) - 20)) \o SubSeq(First(m), 21, 20)
    BY DEF HashedOf, AtLock, LockLength, LockContent
  <1>3. HeaderHashed(m) \in Seq(Byte)
    BY HashedBytes
  <1>4. PICK c \in Seq(Byte) : c = LE4(NumAt(First(m), 8) - 20)
    <2>1. NumAt(First(m), 8) - 20 \in Int
      BY LockEnds
    <2> QED BY <2>1, LE4Bytes
  <1>5. SubSeq(First(m), 21, 20) = <<>>
    <2>1. First(m) \in Seq(Byte)
      BY FirstBytes
    <2> QED BY <2>1
  <1>6. (HeaderHashed(m) \o c) \o <<>> = HeaderHashed(m) \o c
    BY <1>3, <1>4, ConcatProperties, ConcatEmptySeq
  <1>7. (transaction_hash \o HeaderHashed(m)) \o c = transaction_hash \o (HeaderHashed(m) \o c)
    BY <1>3, Appends
  <1> QED BY <1>1, <1>2, <1>4, <1>5, <1>6, <1>7, Zenon

(* witness_lock_arg_body_chunk: the content of a multisig lock.               *)
LockTaken(m, a, p, b, q) ==
    /\ AtLock(a) /\ a.at = "body" /\ p \in Nat /\ q \in Nat /\ 20 <= p /\ p <= q
    /\ q <= Len(First(m))
    /\ (AtLock(b) /\ b.at = "body") \/ (AtTypes(b) /\ q = NumAt(First(m), 8))

\* The bytes between p and q bring the hash of p to that of q.
Extended(m, a, p, b, q) ==
    (transaction_hash \o HashedOf(m, a, p)) \o SubSeq(First(m), p + 1, q)
      = transaction_hash \o HashedOf(m, b, q)

LEMMA LockContentHashed ==
    ASSUME NEW m \in Messages, IsWitnessArgs(First(m)), m.multisig, NumAt(First(m), 8) # 16,
           NEW a, NEW p, NEW b, NEW q, LockTaken(m, a, p, b, q)
    PROVE  Extended(m, a, p, b, q)
  <1>10. /\ AtLock(a) /\ a.at = "body" /\ p \in Nat /\ q \in Nat /\ 20 <= p /\ p <= q
         /\ q <= Len(First(m))
         /\ (AtLock(b) /\ b.at = "body") \/ (AtTypes(b) /\ q = NumAt(First(m), 8))
    BY DEF LockTaken
  <1>1. First(m) \in Seq(Byte) /\ NumAt(First(m), 8) \in Nat /\ Len(First(m)) \in Nat
    BY FirstBytes, LockEnds
  <1>2. PICK c : c = SubSeq(First(m), p + 1, q)
    OBVIOUS
  <1>3. PICK x : x = HeaderHashed(m) \o LockLength(m) \o LockContent(m, p)
    OBVIOUS
  <1>4. c \in Seq(Byte)
    BY <1>1, <1>2, <1>10, SubSeqBytes
  <1>5. x \in Seq(Byte)
    <2>1. p <= Len(First(m))
      BY <1>1, <1>10
    <2>2. HeaderHashed(m) \in Seq(Byte) /\ LockLength(m) \in Seq(Byte) /\ LockContent(m, p) \in Seq(Byte)
      BY <1>10, <2>1, HashedBytes
    <2> QED BY <1>3, <2>2, ConcatProperties
  <1>6. HashedOf(m, a, p) = x
    BY <1>3, <1>10 DEF HashedOf, AtLock
  <1>7. x \o c = HeaderHashed(m) \o LockLength(m) \o LockContent(m, q)
    BY <1>2, <1>3, <1>10, LockGrows
  <1>8. x \o c = HashedOf(m, b, q)
    <2>1. CASE AtLock(b) /\ b.at = "body"
      BY <1>7, <2>1 DEF HashedOf, AtLock
    <2>2. CASE AtTypes(b) /\ q = NumAt(First(m), 8)
      <3>1. x \o c = LockHashed(m)
        BY <1>7, <2>2 DEF LockHashed
      <3>2. SubSeq(First(m), q + 1, q) = <<>>
        BY <1>1, <1>10, <2>2
      <3>3. LockHashed(m) \o <<>> = LockHashed(m)
        <4>1. LockHashed(m) \in Seq(Byte)
          BY HashedBytes
        <4> QED BY <4>1, ConcatEmptySeq
      <3> QED BY <2>2, <3>1, <3>2, <3>3, AtTypesHashed, Zenon
    <2> QED BY <1>10, <2>1, <2>2
  <1>9. (transaction_hash \o x) \o c = transaction_hash \o (x \o c)
    BY <1>4, <1>5, Appends
  <1> QED BY <1>2, <1>6, <1>8, <1>9, Zenon DEF Extended

LEMMA BehindLock ==
    ASSUME NEW p, Here(p), AtTypes(args)
    PROVE  NumAt(First(message), 8) <= p
  <1> DEFINE w == First(message)
  <1>1. args \in ArgsStates /\ ArgsInPlace(w, args, p) /\ IsWitnessArgs(w) /\ message \in Messages
    BY DEF Here
  <1>2. /\ NumAt(w, 8) \in Nat /\ NumAt(w, 12) \in Nat /\ NumAt(w, 8) <= NumAt(w, 12)
    BY <1>1, LockEnds
  <1>3. args.at \in {"length", "body"} /\ args.field # "lock"
    BY <1>1 DEF AtTypes, ArgsInPlace
  <1>4. FieldStart(w, args.field) \in Nat /\ NumAt(w, 8) <= FieldStart(w, args.field)
    BY <1>1, <1>2, <1>3 DEF FieldStart, ArgsStates, Fields
  <1>5. args.seen \in Nat /\ Len(args.num) \in Nat
    BY <1>1, LenProperties DEF ArgsStates
  <1> HIDE DEF w
  <1>6. p = FieldStart(w, args.field) + Len(args.num) \/ p = FieldStart(w, args.field) + 4 + args.seen
    BY <1>1, <1>3 DEF ArgsInPlace, InNumber, InContent, Place
  <1>7. NumAt(w, 8) <= p
    BY <1>2, <1>4, <1>5, <1>6
  <1> QED BY <1>7 DEF w

(* mol_parse_num stops at the end of the chunk.                              *)
LEMMA NumIncompleteHash ==
    ASSUME TypeOK, VectorInPlace, Signable(message), NEW p, Here(p), NumIncomplete
    PROVE  HashInPlace'
  <1>1. /\ args \in ArgsStates /\ p \in Nat /\ read \in Nat /\ p <= read /\ message \in Messages
        /\ IsWitnessArgs(First(message)) /\ read <= Len(First(message))
        /\ chunk = SubSeq(First(message), p + 1, read)
        /\ hash = transaction_hash \o HashedOf(message, args, p)
    BY DEF Here
  <1>2. /\ UNCHANGED <<message, item, read>> /\ Return /\ args' = [args EXCEPT !.num = NumBytes]
        /\ args.at \in {"total_size", "offset", "length"}
        /\ hash' = IF args.at = "length" /\ args.field # "lock" THEN hash \o chunk ELSE hash
    BY DEF NumIncomplete, NumKept, HashField
  <1>3. args'.at = args.at /\ args'.field = args.field
    BY <1>1, <1>2 DEF ArgsStates
  <1>4. hash' = transaction_hash \o HashedOf(message, args', read)
    <2>1. CASE args.at \in {"total_size", "offset"}
      <3>1. HashedOf(message, args', read) = <<>> /\ HashedOf(message, args, p) = <<>>
        BY <1>3, <2>1 DEF HashedOf
      <3> QED BY <1>1, <1>2, <2>1, <3>1
    <2>2. CASE args.at = "length" /\ args.field = "lock"
      <3>1. HashedOf(message, args', read) = HashedOf(message, args, p)
        BY <1>3, <2>2 DEF HashedOf
      <3> QED BY <1>1, <1>2, <2>2, <3>1
    <2>3. CASE args.at = "length" /\ args.field # "lock"
      <3>1. AtTypes(args) /\ AtTypes(args')
        BY <1>3, <2>3 DEF AtTypes
      <3>2. NumAt(First(message), 8) <= p
        BY <3>1, BehindLock
      <3>3. hash \o SubSeq(First(message), p + 1, read) = transaction_hash \o HashedOf(message, args', read)
        <4>1. (transaction_hash \o HashedOf(message, args, p)) \o SubSeq(First(message), p + 1, read)
                = transaction_hash \o HashedOf(message, args', read)
          BY <1>1, <3>1, <3>2, TypeHashed
        <4> QED BY <1>1, <4>1, Zenon
      <3>4. hash \o chunk = transaction_hash \o HashedOf(message, args', read)
        BY <1>1, <3>3, Zenon
      <3> QED BY <1>2, <2>3, <3>4, Zenon
    <2> QED BY <1>2, <2>1, <2>2, <2>3
  <1> QED BY <1>2, <1>4, HashGoes

(* The total size and the offsets; witness_offsets hashes the header.        *)
LEMMA OffsetsHash ==
    ASSUME TypeOK, VectorInPlace, FirstInPlace, Signable(message), NEW p, Here(p), at = "parse",
           ParseTotalSize \/ ParseOffset
    PROVE  HashInPlace'
  <1> DEFINE w == First(message)
             pl == Place(w, args)
  <1>1. /\ args \in ArgsStates /\ read \in Nat /\ WholeFirstWitness /\ ArgsInPlace(w, args, p)
        /\ hash = transaction_hash \o HashedOf(message, args, p) /\ FirstWitness = w
        /\ message \in Messages /\ IsWitnessArgs(w)
    BY DEF Here, First, FirstWitness
  <1>2. /\ UNCHANGED <<message, item, read, at>> /\ args.at \in {"total_size", "offset"} /\ NumComplete
        /\ chunk' = AfterNum
    BY DEF ParseTotalSize, ParseOffset
  <1>3. /\ pl \in Nat /\ pl + 4 <= read /\ NumValue = NumAt(w, pl)
        /\ AfterNum = SubSeq(w, pl + 4 + 1, read)
    BY <1>1, <1>2, NumberInPlace
  <1>4. HashedOf(message, args, p) = <<>>
    BY <1>2 DEF HashedOf
  <1>5. hash' = transaction_hash \o HashedOf(message, args', pl + 4)
    <2>1. CASE ParseTotalSize
      <3>1. hash' = hash /\ args' = [args EXCEPT !.at = "offset", !.total_size = NumValue, !.num = <<>>]
        BY <2>1 DEF ParseTotalSize
      <3>2. args'.at = "offset"
        BY <1>1, <3>1 DEF ArgsStates
      <3>3. HashedOf(message, args', pl + 4) = <<>>
        BY <3>2 DEF HashedOf
      <3> QED BY <1>1, <1>4, <3>1, <3>3
    <2>2. CASE ParseOffset /\ args.field # "output_type"
      <3>1. args.at = "offset" /\ hash' = hash
        BY <2>2 DEF ParseOffset
      <3>2. PICK offset : args' = [args EXCEPT !.field = NextField(args.field), !.offset = offset,
                                               !.num = <<>>]
        BY <2>2 DEF ParseOffset
      <3>3. args'.at = "offset"
        BY <1>1, <3>1, <3>2 DEF ArgsStates
      <3>4. HashedOf(message, args', pl + 4) = <<>>
        BY <3>3 DEF HashedOf
      <3> QED BY <1>1, <1>4, <3>1, <3>4
    <2>3. CASE ParseOffset /\ args.field = "output_type"
      <3>1. PICK offset :
                /\ offset = [args.offset EXCEPT !["output_type"] = NumValue]
                /\ args' = [args EXCEPT !.at = "length", !.field = "lock", !.offset = offset,
                                       !.num = <<>>, !.seen = 0]
                /\ hash' = hash \o HashedHeader(args.total_size, offset)
        BY <2>3 DEF ParseOffset
      <3>2. args.at = "offset"
        BY <2>3 DEF ParseOffset
      <3>3. pl = 12
        BY <2>3, <3>2 DEF Place
      <3>4. /\ offset["lock"] = 16 /\ offset["input_type"] = NumAt(w, 8) /\ offset["output_type"] = NumAt(w, 12)
        <4>1. /\ args.offset \in [Fields -> Int] /\ args.offset["lock"] = 16
              /\ args.offset["input_type"] = NumAt(w, 8)
          BY <1>1, <2>3, <3>2 DEF ArgsStates, ArgsInPlace
        <4>2. NumValue = NumAt(w, 12)
          BY <1>3, <3>3
        <4> QED BY <3>1, <4>1, <4>2 DEF Fields
      <3>5. args.total_size = Len(w)
        BY <1>1, <3>2 DEF ArgsInPlace
      <3>6. HashedHeader(args.total_size, offset) = HeaderHashed(message)
        BY <3>4, <3>5, Zenon DEF HashedHeader, HeaderHashed
      <3>7. args'.at = "length" /\ args'.field = "lock"
        BY <1>1, <3>1 DEF ArgsStates
      <3>8. HashedOf(message, args', pl + 4) = HeaderHashed(message)
        BY <3>7 DEF HashedOf
      <3>9. <<>> \o HeaderHashed(message) = HeaderHashed(message)
        <4>1. HeaderHashed(message) \in Seq(Byte)
          BY <1>1, HashedBytes
        <4> QED BY <4>1, ConcatEmptySeq
      <3>10. hash \o HeaderHashed(message) = transaction_hash \o (<<>> \o HeaderHashed(message))
        <4>1. HeaderHashed(message) \in Seq(Byte) /\ <<>> \in Seq(Byte)
          BY <1>1, HashedBytes
        <4>2. hash = transaction_hash \o <<>>
          BY <1>1, <1>4
        <4>3. PICK c : c = HeaderHashed(message)
          OBVIOUS
        <4>4. c \in Seq(Byte)
          BY <4>1, <4>3
        <4>5. hash \o c = transaction_hash \o (<<>> \o c)
          BY <4>1, <4>2, <4>4, Appends
        <4> QED BY <4>3, <4>5
      <3> QED BY <3>1, <3>6, <3>8, <3>9, <3>10, Zenon
    <2> QED BY <2>1, <2>2, <2>3
  <1>6. chunk' = SubSeq(w, pl + 4 + 1, read) /\ pl + 4 \in Nat
    BY <1>2, <1>3
  <1>7. at' = "parse"
    BY <1>2
  <1> HIDE DEF pl
  <1> QED BY <1>2, <1>3, <1>5, <1>6, <1>7, HashGoes

(* An option of size 0: of the lock nothing is hashed.                       *)
LEMMA AbsentHash ==
    ASSUME TypeOK, VectorInPlace, FirstInPlace, Signable(message), NEW p, Here(p), ParseAbsentField
    PROVE  HashInPlace'
  <1> DEFINE w == First(message)
  <1>1. /\ args \in ArgsStates /\ read \in Nat /\ p \in Nat /\ p <= read /\ ArgsInPlace(w, args, p)
        /\ hash = transaction_hash \o HashedOf(message, args, p)
        /\ message \in Messages /\ IsWitnessArgs(w) /\ chunk = SubSeq(w, p + 1, read)
        /\ read <= Len(w)
    BY DEF Here
  <1>2. /\ UNCHANGED <<message, item, read, hash>> /\ FieldDone(chunk)
        /\ args.at = "length" /\ FieldSize(args.field) = 0 /\ at = "parse"
    BY DEF ParseAbsentField, Absent
  <1>3. w \in Seq(Byte) /\ args.field \in Fields
    BY <1>1, FirstBytes DEF ArgsStates
  <1>4. FieldStart(w, args.field) \in Nat /\ FieldStop(w, args.field) \in Nat
    BY <1>1, <1>3, WholeFields
  <1>5. FieldStop(w, args.field) = FieldStart(w, args.field)
    <2>1. FieldSize(args.field) = FieldStop(w, args.field) - FieldStart(w, args.field)
      BY <1>1, <1>2, <1>3, FieldSizeIs DEF ArgsInPlace
    <2> QED BY <1>2, <1>4, <2>1
  <1>6. p = FieldStart(w, args.field)
    <2>1. args.num = <<>> /\ p = FieldStart(w, args.field) + Len(args.num)
      BY <1>1, <1>2, <1>5 DEF ArgsInPlace, InNumber, Place
    <2> QED BY <1>4, <2>1
  <1>7. CASE args.field = "lock"
    <2>1. at' = at /\ chunk' = chunk /\ args'.at = "length" /\ args'.field = "input_type"
      BY <1>1, <1>2, <1>7 DEF FieldDone, NextField, ArgsStates
    <2>2. NumAt(w, 8) = 16 /\ p = 16
      BY <1>5, <1>6, <1>7 DEF FieldStart, FieldStop, NextField
    <2>3. NoLockHashed(message) /\ AtLock(args) /\ AtTypes(args')
      BY <1>2, <1>7, <2>1, <2>2 DEF NoLockHashed, AtLock, AtTypes
    <2>4. HashedOf(message, args', p) = HashedOf(message, args, p)
      BY <1>1, <2>2, <2>3, LockSkipped
    <2>5. hash' = transaction_hash \o HashedOf(message, args', p)
      BY <1>1, <1>2, <2>4
    <2> QED BY <1>1, <1>2, <2>1, <2>5, HashGoes
  <1>8. CASE args.field # "lock"
    <2>1. AtTypes(args) /\ AtTypes(args')
      <3>1. \/ args' = [args EXCEPT !.at = "complete"]
            \/ args' = [args EXCEPT !.at = "length", !.field = NextField(args.field), !.num = <<>>, !.seen = 0]
        BY <1>2 DEF FieldDone
      <3>2. args'.at = "complete" \/ (args'.at = "length" /\ args'.field = NextField(args.field))
        BY <1>1, <3>1 DEF ArgsStates
      <3>3. NextField(args.field) # "lock"
        BY DEF NextField
      <3> QED BY <1>2, <1>8, <3>2, <3>3 DEF AtTypes
    <2>2. HashedOf(message, args', p) = HashedOf(message, args, p)
      BY <2>1, AtTypesHashed, Zenon
    <2>3. hash' = transaction_hash \o HashedOf(message, args', p)
      BY <1>1, <1>2, <2>2
    <2>4. CASE args.field # "output_type"
      <3>1. at' = "parse" /\ chunk' = chunk
        BY <1>2, <2>4 DEF FieldDone
      <3> QED BY <1>1, <1>2, <2>3, <3>1, HashGoes
    <2>5. CASE args.field = "output_type"
      <3>1. Return
        BY <1>2, <2>5 DEF FieldDone
      <3>2. p = read
        <4>1. FieldStop(w, args.field) = Len(w)
          BY <2>5 DEF FieldStop
        <4>2. Len(w) \in Nat
          BY DEF Here
        <4> QED BY <1>1, <1>5, <1>6, <4>1, <4>2
      <3> QED BY <1>2, <2>3, <3>1, <3>2, HashGoes
    <2> QED BY <2>4, <2>5
  <1> QED BY <1>7, <1>8

(* Bytes_parse reads the length of a field.                                  *)
LEMMA FieldLengthHash ==
    ASSUME TypeOK, VectorInPlace, FirstInPlace, Signable(message), NEW p, Here(p), ParseFieldLength
    PROVE  HashInPlace'
  <1> DEFINE w == First(message)
             start == FieldStart(w, args.field)
             stop == FieldStop(w, args.field)
  <1>1. /\ args \in ArgsStates /\ read \in Nat /\ p \in Nat /\ p <= read /\ ArgsInPlace(w, args, p)
        /\ hash = transaction_hash \o HashedOf(message, args, p)
        /\ message \in Messages /\ IsWitnessArgs(w) /\ chunk = SubSeq(w, p + 1, read)
        /\ read <= Len(w) /\ Len(w) \in Nat /\ WholeFirstWitness /\ FirstWitness = w
        /\ Len(chunk) = read - p
    BY DEF Here, First, FirstWitness
  <1>2. /\ at = "parse" /\ args.at = "length" /\ ~ Absent /\ NumComplete
        /\ UNCHANGED <<message, item, read>>
        /\ args' = [args EXCEPT !.at = "body", !.length = NumValue]
    BY DEF ParseFieldLength
  <1>3. w \in Seq(Byte) /\ args.field \in Fields
    BY <1>1, FirstBytes DEF ArgsStates
  <1>4. FieldSize(args.field) = stop - start
    BY <1>1, <1>2, <1>3, FieldSizeIs DEF ArgsInPlace
  <1>5. /\ start \in Nat /\ stop \in Nat /\ start <= stop /\ stop <= Len(w)
        /\ start # stop => start + 4 <= stop /\ NumAt(w, start) = stop - start - 4
    BY <1>1, <1>3, WholeFields
  <1>6. Place(w, args) = start
    BY <1>2 DEF Place
  <1> HIDE DEF start, stop
  <1>7. start + 4 <= stop /\ NumAt(w, start) = stop - start - 4
    <2>1. FieldSize(args.field) # 0
      BY <1>2 DEF Absent
    <2> QED BY <1>4, <1>5, <2>1
  <1>8. /\ start + 4 <= read /\ NumValue = stop - start - 4
        /\ AfterNum = SubSeq(w, start + 4 + 1, read)
        /\ NumTaken = SubSeq(w, p + 1, start + 4)
        /\ p <= start + 4
    <2>1. /\ Place(w, args) + 4 <= read
          /\ NumValue = NumAt(w, Place(w, args))
          /\ AfterNum = SubSeq(w, Place(w, args) + 4 + 1, read)
          /\ NumTaken = SubSeq(w, read - Len(chunk) + 1, Place(w, args) + 4)
          /\ read - Len(chunk) = Place(w, args) + Len(args.num) /\ Len(args.num) < 4 /\ Len(args.num) \in Nat
      BY <1>1, <1>2, NumberInPlace
    <2>2. read - Len(chunk) = p
      BY <1>1
    <2>3. p <= start + 4
      BY <1>5, <1>6, <2>1, <2>2
    <2> QED BY <1>6, <1>7, <2>1, <2>2, <2>3
  <1>9. LengthFits(NumValue, FieldSize(args.field))
    <2>1. NumValue \in Nat /\ NumValue + 4 = FieldSize(args.field)
      BY <1>4, <1>5, <1>7, <1>8
    <2> QED BY <2>1 DEF LengthFits
  <1>10. /\ hash' = IF args.field = "lock" /\ message.multisig THEN hash \o LE4(NumValue)
                    ELSE IF args.field = "lock" THEN hash ELSE hash \o NumTaken
         /\ chunk' = AfterNum /\ at' = "parse"
    BY <1>2, <1>9 DEF ParseFieldLength, HashField
  <1>11. args'.at = "body" /\ args'.field = args.field
    BY <1>1, <1>2 DEF ArgsStates
  <1>12. PICK a, b, h : a = args /\ b = args' /\ h = hash
    OBVIOUS
  <1>15. h = transaction_hash \o HashedOf(message, a, p)
    BY <1>1, <1>12, Zenon
  <1>13. hash' = transaction_hash \o HashedOf(message, args', start + 4)
    <2>1. CASE args.field = "lock"
      <3>1. start = 16 /\ stop = NumAt(w, 8)
        BY <2>1 DEF start, stop, FieldStart, FieldStop, NextField
      <3>2. AtLock(a) /\ a.at = "length" /\ AtLock(b) /\ b.at = "body"
        BY <1>2, <1>11, <1>12, <2>1 DEF AtLock
      <3>3. CASE message.multisig
        <4>1. NumValue = NumAt(w, 8) - 20 /\ NumAt(w, 8) # 16
          BY <1>5, <1>7, <1>8, <3>1
        <4>2. (transaction_hash \o HashedOf(message, a, p)) \o LE4(NumAt(w, 8) - 20)
                = transaction_hash \o HashedOf(message, b, 20)
          BY <1>1, <3>2, <3>3, <4>1, LockLengthHashed
        <4>3. start + 4 = 20
          BY <3>1
        <4> QED BY <1>10, <1>12, <1>15, <2>1, <3>3, <4>1, <4>2, <4>3, Zenon
      <3>4. CASE ~ message.multisig
        <4>1. HashedOf(message, b, start + 4) = HashedOf(message, a, p)
          BY <1>1, <3>2, <3>4, LockSkipped DEF NoLockHashed
        <4> QED BY <1>1, <1>10, <1>12, <2>1, <3>4, <4>1, Zenon
      <3> QED BY <3>3, <3>4
    <2>2. CASE args.field # "lock"
      <3>1. AtTypes(a) /\ AtTypes(b) /\ AtTypes(args)
        BY <1>2, <1>11, <1>12, <2>2 DEF AtTypes
      <3>2. NumAt(w, 8) <= p
        BY <3>1, BehindLock
      <3>3. PICK q \in Nat : q = start + 4 /\ p <= q /\ q <= Len(w)
        <4>1. start + 4 \in Nat /\ start + 4 <= Len(w)
          BY <1>1, <1>5, <1>8
        <4> QED BY <1>8, <4>1
      <3>4. (transaction_hash \o HashedOf(message, a, p)) \o SubSeq(w, p + 1, q)
              = transaction_hash \o HashedOf(message, b, q)
        <4>1. /\ message \in Messages /\ IsWitnessArgs(First(message)) /\ AtTypes(a) /\ AtTypes(b)
              /\ p \in Nat /\ q \in Nat /\ NumAt(First(message), 8) <= p /\ p <= q
              /\ q <= Len(First(message))
          BY <1>1, <3>1, <3>2, <3>3
        <4> QED BY <4>1, TypeHashed, Zenon
      <3> QED BY <1>8, <1>10, <1>12, <1>15, <2>2, <3>3, <3>4, Zenon
    <2> QED BY <2>1, <2>2
  <1>14. chunk' = SubSeq(w, start + 4 + 1, read) /\ start + 4 \in Nat /\ start + 4 <= read
    BY <1>5, <1>8, <1>10
  <1> QED BY <1>2, <1>10, <1>13, <1>14, HashGoes

(* A type field: its content.                                                *)
LEMMA TypeBodyHash ==
    ASSUME TypeOK, VectorInPlace, FirstInPlace, Signable(message), NEW p, Here(p), ParseTypeBody
    PROVE  HashInPlace'
  <1> DEFINE w == First(message)
             n == Len(FieldChunk)
             stop == FieldStop(w, args.field)
  <1>1. /\ args \in ArgsStates /\ read \in Nat /\ p \in Nat /\ p <= read /\ ArgsInPlace(w, args, p)
        /\ hash = transaction_hash \o HashedOf(message, args, p)
        /\ message \in Messages /\ IsWitnessArgs(w) /\ chunk = SubSeq(w, p + 1, read)
        /\ read <= Len(w) /\ Len(w) \in Nat /\ WholeFirstWitness /\ FirstWitness = w
        /\ Len(chunk) = read - p
    BY DEF Here, First, FirstWitness
  <1>2. /\ at = "parse" /\ args.at = "body" /\ args.field # "lock"
        /\ UNCHANGED <<message, item, read>> /\ hash' = hash \o FieldChunk
    BY DEF ParseTypeBody
  <1>3. /\ n \in Nat /\ p + n <= read
        /\ FieldChunk = SubSeq(w, p + 1, p + n)
        /\ SubSeq(chunk, n + 1, Len(chunk)) = SubSeq(w, p + n + 1, read)
        /\ IF n = NeededOfField THEN p + n = stop ELSE p + n = read
    <2>1. LET q == FieldStart(FirstWitness, args.field) + 4 + args.seen
          IN  /\ n \in Nat /\ q = read - Len(chunk) /\ q + n <= read
              /\ FieldChunk = SubSeq(FirstWitness, q + 1, q + n)
              /\ SubSeq(chunk, n + 1, Len(chunk)) = SubSeq(FirstWitness, q + n + 1, read)
              /\ IF n = NeededOfField THEN q + n = FieldStop(FirstWitness, args.field)
                 ELSE q + n = read /\ read < FieldStop(FirstWitness, args.field)
      BY <1>1, <1>2, ContentInPlace
    <2>2. p = read - Len(chunk)
      BY <1>1
    <2>3. FieldStart(FirstWitness, args.field) + 4 + args.seen = p
      BY <2>1, <2>2
    <2> QED BY <1>1, <2>1, <2>3, Zenon
  <1>4. PICK a, b, h : a = args /\ b = args' /\ h = hash
    OBVIOUS
  <1>10. h = transaction_hash \o HashedOf(message, a, p)
    BY <1>1, <1>4, Zenon
  <1> HIDE DEF n, stop
  <1>5. AtTypes(a) /\ AtTypes(b) /\ AtTypes(args)
    <2>1. \/ args' = [args EXCEPT !.at = "complete"]
          \/ args' = [args EXCEPT !.at = "length", !.field = NextField(args.field), !.num = <<>>, !.seen = 0]
          \/ args' = [args EXCEPT !.seen = @ + n]
      BY DEF ParseTypeBody, FieldDone, n
    <2>2. \/ args'.at = "complete"
          \/ args'.at = "length" /\ args'.field = NextField(args.field)
          \/ args'.at = args.at /\ args'.field = args.field
      BY <1>1, <2>1 DEF ArgsStates
    <2>3. NextField(args.field) # "lock"
      BY DEF NextField
    <2> QED BY <1>2, <1>4, <2>2, <2>3 DEF AtTypes
  <1>6. hash' = transaction_hash \o HashedOf(message, args', p + n)
    <2>1. NumAt(w, 8) <= p
      BY <1>5, BehindLock
    <2>2. PICK q \in Nat : q = p + n /\ p <= q /\ q <= Len(w)
      <3>1. p + n \in Nat /\ p <= p + n /\ p + n <= Len(w)
        BY <1>1, <1>3
      <3> QED BY <3>1
    <2>3. (transaction_hash \o HashedOf(message, a, p)) \o SubSeq(w, p + 1, q)
            = transaction_hash \o HashedOf(message, b, q)
      <3>1. /\ message \in Messages /\ IsWitnessArgs(First(message)) /\ AtTypes(a) /\ AtTypes(b)
            /\ p \in Nat /\ q \in Nat /\ NumAt(First(message), 8) <= p /\ p <= q
            /\ q <= Len(First(message))
        BY <1>1, <1>5, <2>1, <2>2
      <3> QED BY <3>1, TypeHashed, Zenon
    <2> QED BY <1>2, <1>3, <1>4, <1>10, <2>2, <2>3, Zenon
  <1>7. CASE n = NeededOfField /\ args.field # "output_type"
    <2>1. at' = "parse" /\ chunk' = SubSeq(chunk, n + 1, Len(chunk))
      BY <1>2, <1>7 DEF ParseTypeBody, FieldDone, n
    <2>2. chunk' = SubSeq(w, p + n + 1, read) /\ p + n \in Nat
      BY <1>1, <1>3, <2>1
    <2> QED BY <1>2, <1>3, <1>6, <2>1, <2>2, HashGoes
  <1>8. CASE n = NeededOfField /\ args.field = "output_type"
    <2>1. Return
      BY <1>2, <1>8 DEF ParseTypeBody, FieldDone, n
    <2>2. p + n = read
      <3>1. stop = Len(w)
        BY <1>8 DEF FieldStop, stop
      <3> QED BY <1>1, <1>3, <1>8, <3>1
    <2> QED BY <1>2, <1>6, <2>1, <2>2, HashGoes
  <1>9. CASE n # NeededOfField
    <2>1. Return
      BY <1>9 DEF ParseTypeBody, n
    <2> QED BY <1>2, <1>3, <1>6, <1>9, <2>1, HashGoes
  <1> QED BY <1>7, <1>8, <1>9

LEMMA PartElements ==
    ASSUME NEW w \in Seq(Byte), NEW from \in Nat, NEW to \in Nat, from <= to, to <= Len(w)
    PROVE  /\ SubSeq(w, from + 1, to) \in Seq(Byte)
           /\ Len(SubSeq(w, from + 1, to)) = to - from
           /\ \A i \in 1 .. to - from : SubSeq(w, from + 1, to)[i] = w[from + i]
  OBVIOUS

(* The content of a multisig lock: what the callback hashes is the chunk, for *)
(* no byte of it is rejected or zeroed, and it counts what it hashed.        *)
LEMMA LockChunkHashed ==
    ASSUME TypeOK, ScriptParameters, ScriptHashed, VectorInPlace, Signable(message),
           NEW p, Here(p), args.at = "body", args.field = "lock", message.multisig,
           p = 20 + args.seen, NEW buf, NEW n \in Nat, buf = SubSeq(First(message), p + 1, p + n),
           p + n <= NumAt(First(message), 8), ChunkTaken(buf)
    PROVE  /\ hash' = hash \o buf
           /\ tx'.consumed = args.seen + n
           /\ lock' = SubSeq(First(message), 21, 20 + args.seen + n)
  <1>1. message \in Messages /\ IsWitnessArgs(First(message)) /\ args.seen \in Nat /\ item = 0
    BY DEF Here, ArgsStates
  <1>2. PICK w, stop : w = First(message) /\ stop = NumAt(First(message), 8)
    OBVIOUS
  <1>13. PICK c \in Nat : c = args.seen
    BY <1>1
  <1>3. /\ w \in Seq(Byte) /\ Len(w) \in Nat
        /\ stop \in Nat /\ stop <= Len(w) /\ (stop = 16 \/ stop >= 20)
    <2>1. /\ w \in Seq(Byte) /\ Len(w) \in Nat
      BY <1>1, <1>2, FirstBytes
    <2>2. /\ stop \in Nat /\ (stop = 16 \/ stop >= 20)
      BY <1>1, <1>2, LockEnds, Zenon
    <2>3. stop <= NumAt(w, 12) /\ NumAt(w, 12) <= Len(w) /\ NumAt(w, 12) \in Nat
      BY <1>1, <1>2, LockEnds, Zenon
    <2> QED BY <2>1, <2>2, <2>3
  <1>4. /\ tx.consumed = c /\ lock = SubSeq(w, 20 + 1, 20 + c)
        /\ tx.consumed >= 4 => tx.pubkeys_cnt = lock[4]
        /\ tx \in Witnesses /\ hash \in Seq(Byte) /\ lock \in Seq(Byte)
    <2>1. InLock /\ FirstWitness = w
      BY <1>2 DEF InLock, FirstWitness, First
    <2>2. tx \in Witnesses /\ hash \in Seq(Byte) /\ lock \in Seq(Byte)
      BY DEF TypeOK
    <2>3. tx.consumed = args.seen /\ lock = SubSeq(FirstWitness, 21, 20 + args.seen)
      BY <1>1, <2>1 DEF ScriptHashed
    <2>4. tx.consumed >= 4 => tx.pubkeys_cnt = lock[4]
      BY DEF ScriptParameters
    <2>5. 20 + 1 = 21
      OBVIOUS
    <2> QED BY <1>2, <1>13, <2>1, <2>2, <2>3, <2>4, <2>5, Zenon
  <1>5. p = 20 + c /\ p + n <= stop /\ buf = SubSeq(w, p + 1, p + n)
    BY <1>2, <1>13, Zenon
  <1>6. PICK r \in Nat : r = p + n /\ p <= r /\ r <= stop /\ r <= Len(w) /\ p \in Nat /\ 20 <= p
    <2>1. n \in Nat /\ c \in Nat
      BY <1>13
    <2>2. p \in Nat /\ p + n \in Nat
      <3>1. p = 20 + c
        BY <1>5
      <3>2. p \in Nat
        BY ONLY <2>1, <3>1
      <3> QED BY ONLY <2>1, <3>2
    <2>3. p <= p + n /\ 20 <= p
      BY <1>5, <2>1
    <2>4. p + n <= stop /\ p + n <= Len(w)
      BY <1>3, <1>5, <2>2
    <2> QED BY <2>2, <2>3, <2>4
  <1>11. stop # 16
    BY <1>3, <1>6
  <1>12. message \in Messages /\ w = First(message) /\ stop = NumAt(w, 8) /\ stop # 16
    BY <1>1, <1>2, <1>11
  <1>7. /\ buf \in Seq(Byte) /\ Len(buf) = n
        /\ \A i \in 1 .. n : buf[i] = w[20 + c + i]
    <2>1. r - p = n
      BY <1>6
    <2>4. buf = SubSeq(w, p + 1, r)
      BY <1>5, <1>6, Zenon
    <2>5. w \in Seq(Byte) /\ p \in Nat /\ r \in Nat /\ p <= r /\ r <= Len(w)
      BY <1>3, <1>6
    <2>2. buf \in Seq(Byte) /\ Len(buf) = n /\ \A i \in 1 .. n : buf[i] = w[p + i]
      BY ONLY <2>1, <2>4, <2>5, PartElements
    <2>3. \A i \in 1 .. n : p + i = 20 + c + i
      BY <1>5
    <2> QED BY <2>2, <2>3
  <1>8. lock \o buf = SubSeq(w, 21, 20 + args.seen + n)
    <2>1. SubSeq(w, 20 + 1, p) \o SubSeq(w, p + 1, r) = SubSeq(w, 20 + 1, r)
      <3>1. /\ 20 \in Nat /\ w \in Seq(Byte) /\ p \in Nat /\ r \in Nat /\ 20 <= p /\ p <= r
            /\ r <= Len(w)
        BY <1>3, <1>6
      <3> QED BY ONLY <3>1, Pieces
    <2>2. 20 + 1 = 21 /\ 20 + args.seen + n = r
      BY <1>13, <1>5, <1>6
    <2> QED BY <1>4, <1>5, <1>6, <2>1, <2>2, Zenon
  <1>9. CASE /\ tx.consumed = 0 /\ (Len(buf) > 0 => buf[1] # 0)
             /\ UNCHANGED <<tx, hash, lock>>
    <2>1. n = 0
      <3>1. SUFFICES ASSUME n # 0 PROVE FALSE
        OBVIOUS
      <3>2. c = 0 /\ 1 \in 1 .. n /\ stop > 20
        BY <1>3, <1>4, <1>5, <1>6, <1>9, <1>13, <3>1
      <3>3. buf[1] = w[21]
        BY <1>7, <3>2, SMTT(30)
      <3>4. w[21] = 0
        BY <1>12, <3>2, SignableScript
      <3> QED BY <1>7, <1>9, <1>13, <3>1, <3>2, <3>3, <3>4
    <2>2. buf = <<>>
      BY <1>7, <2>1, EmptySeq
    <2>3. hash \o <<>> = hash /\ lock \o <<>> = lock
      BY <1>4, ConcatEmptySeq
    <2>4. tx'.consumed = args.seen + n
      BY <1>13, <1>4, <1>9, <2>1
    <2> QED BY <1>2, <1>8, <1>9, <2>2, <2>3, <2>4, Zenon
  <1>10. CASE \E threshold, cnt \in Byte :
              /\ tx.consumed >= 4 => cnt = tx.pubkeys_cnt
              /\ tx.consumed < 4 /\ tx.consumed + Len(buf) >= 4 => cnt = buf[4 - tx.consumed]
              /\ tx' = [tx EXCEPT !.threshold = threshold, !.pubkeys_cnt = cnt,
                                  !.consumed = tx.consumed + Len(buf)]
              /\ hash' = hash \o ZeroSignatures(buf, cnt, tx.consumed)
              /\ lock' = lock \o ZeroSignatures(buf, cnt, tx.consumed)
    <2>1. PICK threshold \in Byte, cnt \in Byte :
              /\ tx.consumed >= 4 => cnt = tx.pubkeys_cnt
              /\ tx.consumed < 4 /\ tx.consumed + Len(buf) >= 4 => cnt = buf[4 - tx.consumed]
              /\ tx' = [tx EXCEPT !.threshold = threshold, !.pubkeys_cnt = cnt,
                                  !.consumed = tx.consumed + Len(buf)]
              /\ hash' = hash \o ZeroSignatures(buf, cnt, tx.consumed)
              /\ lock' = lock \o ZeroSignatures(buf, cnt, tx.consumed)
      BY <1>10, ZenonT(30)
    <2>2. c + n >= 4 => cnt = w[24]
      <3>1. CASE c >= 4
        <4>1. 20 + c <= Len(w) /\ 4 \in 1 .. c
          BY <1>3, <1>5, <1>6, <3>1
        <4>2. SubSeq(w, 20 + 1, 20 + c)[4] = w[24]
          BY <1>3, <4>1
        <4>3. tx.pubkeys_cnt = w[24]
          BY <1>4, <3>1, <4>2
        <4> QED BY <1>4, <2>1, <3>1, <4>3
      <3>2. CASE ~ (c >= 4)
        <4>1. SUFFICES ASSUME c + n >= 4 PROVE cnt = w[24]
          OBVIOUS
        <4>2. 4 - c \in 1 .. n /\ 20 + c + (4 - c) = 24 /\ c < 4
          BY <3>2, <4>1
        <4>3. buf[4 - c] = w[24]
          <5>1. PICK i : i = 4 - c
            OBVIOUS
          <5>2. \A k \in 1 .. n : buf[k] = w[20 + c + k]
            BY <1>7
          <5>3. i \in 1 .. n /\ 20 + c + i = 24
            BY ONLY <4>2, <5>1, Zenon
          <5> QED BY ONLY <5>1, <5>2, <5>3, Zenon
        <4> QED BY <1>4, <1>7, <2>1, <4>1, <4>2, <4>3
      <3> QED BY <3>1, <3>2
    <2>3. ZeroSignatures(buf, cnt, c) = buf
      <3>1. /\ p \in Nat /\ r \in Nat /\ p = 20 + c /\ p <= r /\ r <= stop /\ buf = SubSeq(w, p + 1, r)
        BY <1>5, <1>6, Zenon
      <3>2. c \in Nat /\ cnt \in Byte
        BY <1>13, <2>1
      <3>3. Signable(message) /\ message.multisig
        OBVIOUS
      <3>4. r >= 24 => c + n >= 4
        BY ONLY <1>6, <3>1, <3>2
      <3>5. r >= 24 => cnt = w[24]
        BY ONLY <2>2, <3>4, Zenon
      <3>6. ScriptChunk(message, c, p, r, cnt, buf)
        BY ONLY <1>12, <3>1, <3>2, <3>5, Zenon DEF ScriptChunk
      <3>7. message \in Messages /\ NumAt(First(message), 8) # 16
        BY ONLY <1>12
      <3> QED BY ONLY <3>3, <3>6, <3>7, NothingZeroed
    <2>4. tx'.consumed = args.seen + n
      BY <1>13, <1>4, <1>7, <2>1, SMTT(30) DEF Witnesses
    <2> QED BY <1>2, <1>4, <1>8, <2>1, <2>3, <2>4, ZenonT(60)
  <1> QED BY <1>9, <1>10, ZenonT(30) DEF ChunkTaken

(* The content of the lock: of one signer nothing is hashed, of a multisig   *)
(* what passes.                                                            *)
LEMMA LockBodyHash ==
    ASSUME TypeOK, ScriptParameters, ScriptHashed, VectorInPlace, FirstInPlace, Signable(message),
           NEW p, Here(p), ParseLockBody
    PROVE  HashInPlace' /\ ScriptHashed'
  <1>1. /\ args \in ArgsStates /\ read \in Nat /\ p \in Nat /\ p <= read
        /\ ArgsInPlace(First(message), args, p)
        /\ hash = transaction_hash \o HashedOf(message, args, p)
        /\ message \in Messages /\ IsWitnessArgs(First(message)) /\ chunk = SubSeq(First(message), p + 1, read)
        /\ read <= Len(First(message)) /\ Len(First(message)) \in Nat /\ WholeFirstWitness
        /\ FirstWitness = First(message) /\ Len(chunk) = read - p /\ item = 0
    BY DEF Here, First, FirstWitness
  <1>2. /\ at = "parse" /\ args.at = "body" /\ args.field = "lock"
        /\ UNCHANGED <<message, item, read>>
    BY DEF ParseLockBody
  <1>3. PICK w, stop, n : w = First(message) /\ stop = NumAt(First(message), 8) /\ n = Len(FieldChunk)
    OBVIOUS
  <1>4. /\ n \in Nat /\ p + n <= read /\ p = 20 + args.seen /\ p + n <= stop
        /\ FieldChunk = SubSeq(w, p + 1, p + n)
        /\ SubSeq(chunk, n + 1, Len(chunk)) = SubSeq(w, p + n + 1, read)
        /\ IF n = NeededOfField THEN p + n = stop ELSE p + n = read
        /\ (NeededOfField = 0 => n = 0)
    <2>1. LET q == FieldStart(FirstWitness, args.field) + 4 + args.seen
              k == Len(FieldChunk)
          IN  /\ k \in Nat /\ q = read - Len(chunk) /\ q + k <= read
              /\ FieldChunk = SubSeq(FirstWitness, q + 1, q + k)
              /\ SubSeq(chunk, k + 1, Len(chunk)) = SubSeq(FirstWitness, q + k + 1, read)
              /\ q + k <= FieldStop(FirstWitness, args.field)
              /\ IF k = NeededOfField THEN q + k = FieldStop(FirstWitness, args.field)
                 ELSE q + k = read /\ read < FieldStop(FirstWitness, args.field)
              /\ (NeededOfField = 0 => k = 0)
      BY <1>1, <1>2, ContentInPlace
    <2>2. p = read - Len(chunk)
      BY <1>1
    <2>3. /\ FieldStart(FirstWitness, args.field) = 16
          /\ FieldStop(FirstWitness, args.field) = NumAt(FirstWitness, 8)
      BY <1>2 DEF FieldStart, FieldStop, NextField
    <2>4. 16 + 4 + args.seen = 20 + args.seen
      BY <1>1 DEF ArgsStates
    <2>5. FieldStart(FirstWitness, args.field) + 4 + args.seen = p
      BY <2>1, <2>2
    <2>6. p = 20 + args.seen
      BY <2>3, <2>4, <2>5, Zenon
    <2> QED BY <1>1, <1>3, <2>1, <2>3, <2>5, <2>6, Zenon
  <1>5. PICK q \in Nat : q = p + n /\ p <= q /\ q <= read /\ q <= Len(First(message)) /\ 20 <= p
    <2>1. n \in Nat /\ p \in Nat /\ args.seen \in Nat
      BY <1>1, <1>4 DEF ArgsStates
    <2>2. p + n \in Nat /\ p <= p + n
      BY <2>1
    <2>3. p + n <= read /\ p + n <= Len(First(message))
      BY <1>1, <1>4, <2>2
    <2>4. 20 <= p
      BY <1>4, <2>1
    <2> QED BY <2>2, <2>3, <2>4
  <1>6. FieldChunk = SubSeq(First(message), p + 1, q)
    BY <1>3, <1>4, <1>5, Zenon
  <1>7. AtLock(args)
    BY <1>2 DEF AtLock
  <1>8. \/ AtLock(args') /\ args'.at = "body"
        \/ AtTypes(args') /\ q = NumAt(First(message), 8)
    <2>1. CASE n = NeededOfField
      <3>1. args' = [args EXCEPT !.at = "length", !.field = "input_type", !.num = <<>>, !.seen = 0]
        BY <1>3, <2>1 DEF ParseLockBody
      <3>2. AtTypes(args')
        BY <1>1, <3>1 DEF ArgsStates, AtTypes
      <3> QED BY <1>3, <1>4, <1>5, <2>1, <3>2
    <2>2. CASE n # NeededOfField
      <3>1. args' = [args EXCEPT !.seen = @ + n]
        BY <1>3, <2>2 DEF ParseLockBody
      <3> QED BY <1>1, <1>2, <3>1 DEF ArgsStates, AtLock
    <2> QED BY <2>1, <2>2
  <1>9. message.multisig /\ NeededOfField # 0 =>
            /\ hash' = hash \o FieldChunk
            /\ tx'.consumed = args.seen + n
            /\ lock' = SubSeq(First(message), 21, 20 + args.seen + n)
    <2> SUFFICES ASSUME message.multisig, NeededOfField # 0
                 PROVE  /\ hash' = hash \o FieldChunk
                        /\ tx'.consumed = args.seen + n
                        /\ lock' = SubSeq(First(message), 21, 20 + args.seen + n)
      OBVIOUS
    <2>1. FieldChunk \in Seq(Byte)
      BY FieldBytes
    <2>2. ChunkTaken(FieldChunk)
      BY <2>1, LockChunkTaken DEF ParseLockBody
    <2>3. PICK buf : buf = FieldChunk
      OBVIOUS
    <2>4. ChunkTaken(buf)
      BY <2>2, <2>3
    <2>5. n \in Nat /\ p = 20 + args.seen /\ buf = SubSeq(First(message), p + 1, p + n)
            /\ p + n <= NumAt(First(message), 8)
      BY <1>3, <1>4, <2>3, Zenon
    <2>6. /\ hash' = hash \o buf /\ tx'.consumed = args.seen + n
          /\ lock' = SubSeq(First(message), 21, 20 + args.seen + n)
      BY <1>2, <2>4, <2>5, LockChunkHashed
    <2> QED BY <2>3, <2>6, Zenon
  <1>10. hash' = transaction_hash \o HashedOf(message, args', q)
    <2>1. CASE ~ message.multisig
      <3>1. hash' = hash
        BY <2>1 DEF ParseLockBody
      <3>2. NoLockHashed(message) /\ (AtLock(args') \/ (AtTypes(args') /\ q = NumAt(First(message), 8)))
        BY <1>8, <2>1 DEF NoLockHashed
      <3>3. HashedOf(message, args', q) = HashedOf(message, args, p)
        BY <1>1, <1>7, <3>2, LockSkipped
      <3> QED BY <1>1, <3>1, <3>3, Zenon
    <2>2. CASE message.multisig
      <3>1. hash' = hash \o FieldChunk
        <4>1. CASE NeededOfField = 0
          <5>1. hash' = hash
            BY <4>1 DEF ParseLockBody
          <5>2. FieldChunk = <<>>
            <6>1. FieldChunk \in Seq(Byte) /\ Len(FieldChunk) = 0
              BY <1>3, <1>4, <4>1, FieldBytes
            <6> QED BY <6>1, EmptySeq
          <5>3. hash \o <<>> = hash
            <6>1. hash \in Seq(Byte)
              BY DEF TypeOK
            <6> QED BY <6>1, ConcatEmptySeq
          <5> QED BY <5>1, <5>2, <5>3
        <4> QED BY <1>9, <2>2, <4>1
      <3>2. NumAt(First(message), 8) # 16
        <4>1. stop \in Nat
          BY <1>1, <1>3, LockEnds
        <4>2. n \in Nat /\ p \in Nat /\ p + n <= stop /\ 20 <= p
          BY <1>1, <1>4, <1>5
        <4>3. stop # 16
          BY ONLY <4>1, <4>2
        <4> QED BY <1>3, <4>3
      <3>3. (transaction_hash \o HashedOf(message, args, p)) \o SubSeq(First(message), p + 1, q)
              = transaction_hash \o HashedOf(message, args', q)
        <4>1. p \in Nat /\ q \in Nat /\ 20 <= p /\ p <= q /\ q <= Len(First(message))
          BY <1>1, <1>5
        <4>2. message \in Messages /\ IsWitnessArgs(First(message)) /\ args.at = "body"
          BY <1>1, <1>2
        <4>3. LockTaken(message, args, p, args', q)
          BY <1>7, <1>8, <4>1, <4>2, Zenon DEF LockTaken
        <4>4. Extended(message, args, p, args', q)
          BY <2>2, <3>2, <4>2, <4>3, LockContentHashed
        <4> QED BY <4>4, Zenon DEF Extended
      <3> QED BY <1>1, <1>6, <3>1, <3>3, Zenon
    <2> QED BY <2>1, <2>2
  <1>11. CASE n = NeededOfField
    <2>1. /\ args' = [args EXCEPT !.at = "length", !.field = "input_type", !.num = <<>>, !.seen = 0]
          /\ at' = "parse" /\ chunk' = SubSeq(chunk, n + 1, Len(chunk))
      BY <1>2, <1>3, <1>11 DEF ParseLockBody
    <2>2. chunk' = SubSeq(First(message), q + 1, read)
      BY <1>3, <1>4, <1>5, <2>1, Zenon
    <2>3. ~ InLock'
      BY <1>1, <2>1 DEF ArgsStates, InLock
    <2>4. HashInPlace'
      BY <1>2, <1>5, <1>10, <2>1, <2>2, HashGoes
    <2> QED BY <2>3, <2>4 DEF ScriptHashed
  <1>12. CASE n # NeededOfField
    <2>1. args' = [args EXCEPT !.seen = @ + n] /\ Return
      BY <1>3, <1>12 DEF ParseLockBody
    <2>2. q = read
      BY <1>4, <1>5, <1>12
    <2>3. HashInPlace'
      BY <1>2, <1>10, <2>1, <2>2, HashGoes
    <2>4. args'.seen = args.seen + n
      BY <1>1, <2>1 DEF ArgsStates
    <2>5. FirstWitness' = First(message)
      BY <1>2 DEF FirstWitness, First
    <2>6. ScriptHashed'
      <3>1. SUFFICES ASSUME message'.multisig
                     PROVE  tx'.consumed = args'.seen /\ lock' = SubSeq(FirstWitness', 21, 20 + args'.seen)
        BY DEF ScriptHashed
      <3>2. NeededOfField # 0
        BY <1>4, <1>12
      <3>3. message.multisig
        BY <1>2, <3>1
      <3>4. 20 + (args.seen + n) = 20 + args.seen + n
        BY <1>1, <1>4 DEF ArgsStates
      <3> QED BY <1>9, <2>4, <2>5, <3>2, <3>3, <3>4, Zenon
    <2> QED BY <2>3, <2>6
  <1> QED BY <1>11, <1>12

(* A step of the parser of the first witness.                                *)
LEMMA ParseHashStep ==
    ASSUME TypeOK, ScriptParameters, VectorInPlace, FirstInPlace, LockInPlace, HashInPlace,
           ScriptHashed, ParseFirstWitness
    PROVE  HashInPlace' /\ ScriptHashed'
  <1>1. at = "parse" /\ item = 0 /\ UNCHANGED <<message, item, read>> /\ at' \in {"parse", "more", "end"}
    <2>1. at = "parse" /\ UNCHANGED <<message, item, read>>
      BY DEF ParseFirstWitness, NumIncomplete, ParseTotalSize, ParseOffset, ParseAbsentField,
             ParseFieldLength, ParseLockBody, ParseTypeBody, ParseComplete
    <2>2. at' = at \/ Return
      BY DEF ParseFirstWitness, NumIncomplete, ParseTotalSize, ParseOffset, ParseAbsentField,
             ParseFieldLength, ParseLockBody, ParseTypeBody, ParseComplete, FieldDone
    <2> QED BY <2>1, <2>2 DEF VectorInPlace, Return, AfterChunk
  <1>2. CASE ~ Signable(message)
    <2>1. ~ Signable(message)'
      BY <1>1, <1>2
    <2> QED BY <1>1, <2>1 DEF HashInPlace, ScriptHashed
  <1>3. CASE Signable(message)
    <2>1. PICK p : p = read - Len(chunk)
      OBVIOUS
    <2>2. Here(p) /\ FirstWitness = First(message)
      BY <1>1, <1>3, <2>1, ParsedHere
    <2>3. /\ args \in ArgsStates /\ ArgsInPlace(First(message), args, p) /\ WholeFirstWitness
          /\ First(message) \in Seq(Byte)
      BY <2>2, FirstBytes DEF Here
    <2>4. ~ InLock' => ScriptHashed'
      BY DEF ScriptHashed
    <2>5. CASE NumIncomplete
      <3>1. ~ InLock'
        BY <2>3, <2>5 DEF NumIncomplete, InLock, ArgsStates
      <3> QED BY <1>3, <2>2, <2>4, <2>5, <3>1, NumIncompleteHash
    <2>6. CASE ParseTotalSize \/ ParseOffset
      <3>1. ~ InLock'
        BY <2>3, <2>6 DEF ParseTotalSize, ParseOffset, InLock, ArgsStates
      <3> QED BY <1>1, <1>3, <2>2, <2>4, <2>6, <3>1, OffsetsHash
    <2>7. CASE ParseAbsentField
      <3>1. ~ InLock'
        BY <2>3, <2>7 DEF ParseAbsentField, FieldDone, InLock, ArgsStates
      <3> QED BY <1>3, <2>2, <2>4, <2>7, <3>1, AbsentHash
    <2>8. CASE ParseFieldLength
      <3>1. HashInPlace'
        BY <1>3, <2>2, <2>8, FieldLengthHash
      <3>2. ScriptHashed'
        <4> SUFFICES ASSUME InLock'
                     PROVE  tx'.consumed = args'.seen
                            /\ lock' = SubSeq(FirstWitness', 21, 20 + args'.seen)
          BY DEF ScriptHashed
        <4>1. args' = [args EXCEPT !.at = "body", !.length = NumValue] /\ UNCHANGED <<tx, lock>>
              /\ args.at = "length"
          BY <2>8 DEF ParseFieldLength
        <4>2. args'.seen = args.seen /\ args.field = "lock"
          BY <2>3, <4>1 DEF ArgsStates, InLock
        <4>3. args.seen = 0
          BY <2>3, <4>1 DEF ArgsInPlace
        <4>4. tx.consumed = 0
          BY <1>1, <2>3, <4>1, <4>2 DEF LockInPlace, ReservedPassed, BeforeLock
        <4>5. lock = <<>>
          <5>1. Len(lock) = 0 /\ lock \in Seq(Byte)
            BY <4>4 DEF ScriptParameters, TypeOK
          <5> QED BY <5>1, EmptySeq
        <4>6. SubSeq(First(message), 21, 20 + 0) = <<>>
          BY <2>3
        <4>7. FirstWitness' = First(message)
          BY <1>1 DEF FirstWitness, First
        <4> QED BY <4>1, <4>2, <4>3, <4>4, <4>5, <4>6, <4>7, Zenon
      <3> QED BY <3>1, <3>2
    <2>9. CASE ParseLockBody
      BY <1>3, <2>2, <2>9, LockBodyHash
    <2>10. CASE ParseTypeBody
      <3>1. ~ InLock'
        BY <2>3, <2>10 DEF ParseTypeBody, FieldDone, InLock, ArgsStates
      <3> QED BY <1>3, <2>2, <2>4, <2>10, <3>1, TypeBodyHash
    <2>11. CASE ParseComplete
      BY <2>3, <2>11 DEF ParseComplete, ArgsInPlace
    <2> QED BY <2>5, <2>6, <2>7, <2>8, <2>9, <2>10, <2>11 DEF ParseFirstWitness
  <1> QED BY <1>2, <1>3

-------------------------------------------------------------------------------
(* The parser of the witnesses.                                             *)

(* process_witness_end: the restarted hash is that of the standard witness.  *)
LEMMA RestartedIs ==
    ASSUME NEW m
    PROVE  /\ RestartedHash = transaction_hash \o FirstHashed(m, FALSE)
           /\ FirstHashed(m, FALSE) \in Seq(Byte)
           /\ FirstHashed(m, FALSE) = Sighash!Framed(Sighash!StandardWitness)
  <1>1. PICK s, l : s = SelfWitness /\ l = LE8(Len(SelfWitness))
    OBVIOUS
  <1>2. s \in Seq(Byte) /\ l \in Seq(Byte)
    <2>1. s \in Seq(Byte)
      BY <1>1, SizesAssumption, ZerosBytes, BytesBytes, WitnessArgsBytes, EmptySeq DEF SelfWitness
    <2>2. Len(s) \in Int
      BY <2>1
    <2>3. l \in Seq(Byte)
      BY <1>1, <2>2, LE8Bytes
    <2> QED BY <2>1, <2>3
  <1>3. Sighash!StandardWitness = s
    BY <1>1, SameEncoding, Zenon DEF SelfWitness, Sighash!StandardWitness
  <1>4. Sighash!Framed(Sighash!StandardWitness) = l \o s
    BY <1>1, <1>3, SameEncoding, Zenon DEF Sighash!Framed
  <1>5. FirstHashed(m, FALSE) = l \o s /\ l \o s \in Seq(Byte)
    BY <1>2, <1>4, ConcatProperties DEF FirstHashed
  <1>6. RestartedHash = (transaction_hash \o l) \o s
    BY <1>1, Zenon DEF RestartedHash
  <1>7. (transaction_hash \o l) \o s = transaction_hash \o (l \o s)
    BY <1>2, HashAssumption, InOnePiece
  <1> QED BY <1>4, <1>5, <1>6, <1>7, Zenon

LEMMA FirstHashedBytes ==
    ASSUME NEW m \in Messages, NEW c \in BOOLEAN, c => Signable(m)
    PROVE  FirstHashed(m, c) \in Seq(Byte)
  <1>1. c => FirstHashed(m, TRUE) \in Seq(Byte)
    BY FirstIsHashed
  <1> QED BY <1>1, RestartedIs

(* The hash before the i-th witness, the first being the 0th.                *)
HashBefore(m, a, i) ==
    transaction_hash \o FirstHashed(m, a.at = "complete") \o Joined(OtherWitnesses(m), i - 1)

LEMMA HashBeforeBytes ==
    ASSUME NEW m \in Messages, NEW a, a.at = "complete" => Signable(m),
           NEW i \in Nat, i # 0, i <= Len(m.witnesses)
    PROVE  HashBefore(m, a, i) \in Seq(Byte)
  <1>1. PICK f : f = FirstHashed(m, a.at = "complete")
    OBVIOUS
  <1>2. f \in Seq(Byte)
    <2>1. PICK c \in BOOLEAN : c <=> a.at = "complete"
      OBVIOUS
    <2>2. CASE c
      BY <1>1, <2>1, <2>2, FirstHashedBytes, FirstIsHashed
    <2>3. CASE ~ c
      <3>1. f = FirstHashed(m, FALSE)
        BY <1>1, <2>1, <2>3, Zenon DEF FirstHashed
      <3> QED BY <3>1, RestartedIs
    <2> QED BY <2>2, <2>3
  <1>3. PICK j : j = Joined(OtherWitnesses(m), i - 1)
    OBVIOUS
  <1>4. j \in Seq(Byte)
    <2>1. /\ OtherWitnesses(m) \in Seq(Seq(Byte)) /\ Len(OtherWitnesses(m)) = Len(m.witnesses) - 1
          /\ Len(m.witnesses) \in Nat
      BY OtherBytes, FirstBytes
    <2>2. i - 1 \in Nat /\ i - 1 <= Len(OtherWitnesses(m))
      BY <2>1
    <2> QED BY <1>3, <2>1, <2>2, JoinedBytes
  <1>5. (transaction_hash \o f) \o j \in Seq(Byte)
    BY <1>2, <1>4, HashAssumption, ConcatProperties
  <1> QED BY <1>1, <1>3, <1>5, Zenon DEF HashBefore

(* When only the position moves within the same witness.                     *)
LEMMA HashStays ==
    ASSUME HashInPlace, ScriptHashed, UNCHANGED <<message, item, args, hash, chunk, read>>,
           tx'.consumed = tx.consumed, UNCHANGED lock,
           \/ at = "length" /\ at' = "length"
           \/ at = "more" /\ at' = "body"
           \/ at = "finalize" /\ at' = "done" /\ item # 0
           \/ at' = at
    PROVE  HashInPlace' /\ ScriptHashed'
  <1>1. FirstWitness' = FirstWitness /\ Witness' = Witness /\ InLock' = InLock
    BY DEF FirstWitness, Witness, InLock
  <1>2. ScriptHashed'
    BY <1>1, Zenon DEF ScriptHashed
  <1>3. OfThisWitness' = OfThisWitness
    BY <1>1, Zenon DEF OfThisWitness
  <1>4. HashInPlace'
    BY <1>1, <1>3, Zenon DEF HashInPlace
  <1> QED BY <1>2, <1>4

(* begin_witness starts the hash with that of the transaction.               *)
LEMMA BeginHash ==
    ASSUME TypeOK, VectorInPlace, HashInPlace, ScriptHashed, BeginWitness
    PROVE  HashInPlace' /\ ScriptHashed'
  <1>1. /\ at = "index" /\ at' \in {"length", "finalize"} /\ UNCHANGED <<message, item, chunk>>
    BY DEF BeginWitness
  <1>2. OfThisWitness = <<>> /\ OfThisWitness' = <<>>
    BY <1>1 DEF OfThisWitness
  <1>3. CASE item = 0
    <2>1. hash' = transaction_hash /\ args' = ArgsStart
      BY <1>3 DEF BeginWitness
    <2>2. ~ InLock'
      BY <2>1 DEF InLock, ArgsStart
    <2> QED BY <1>1, <1>3, <2>1, <2>2, Zenon DEF HashInPlace, ScriptHashed
  <1>4. CASE item # 0
    <2>1. UNCHANGED <<hash, args>>
      BY <1>4 DEF BeginWitness
    <2> QED BY <1>1, <1>2, <1>4, <2>1, Zenon DEF HashInPlace, ScriptHashed
  <1> QED BY <1>3, <1>4

(* hash_witness_length for a witness behind the first.                       *)
LEMMA LengthHash ==
    ASSUME TypeOK, VectorInPlace, HashInPlace, ScriptHashed, WitnessLength
    PROVE  HashInPlace' /\ ScriptHashed'
  <1>1. /\ at = "length" /\ at' \in {"length", "body", "end"}
        /\ UNCHANGED <<message, item, chunk, args, tx, lock>>
    BY DEF WitnessLength
  <1>2. Witness' = Witness /\ FirstWitness' = FirstWitness /\ InLock' = InLock
    BY <1>1 DEF Witness, FirstWitness, InLock
  <1>3. ScriptHashed'
    BY <1>1, <1>2, Zenon DEF ScriptHashed
  <1>4. message \in Messages /\ item \in Nat /\ item <= Len(message.witnesses)
        /\ item < Len(message.witnesses)
    BY <1>1, ItemBounds DEF TypeOK
  <1>5. CASE at' = "length"
    <2>1. hash' = hash
      BY <1>5 DEF WitnessLength
    <2>2. OfThisWitness = <<>> /\ OfThisWitness' = <<>>
      BY <1>1, <1>5 DEF OfThisWitness
    <2>3. HashInPlace'
      BY <1>1, <1>5, <2>1, <2>2, Zenon DEF HashInPlace
    <2> QED BY <1>3, <2>3
  <1>6. CASE at' # "length" /\ item = 0
    <2>1. /\ read' = 0 /\ hash' = hash /\ tx.first /\ args = ArgsStart /\ chunk = <<>>
          /\ at' = IF Len(Witness) = 0 THEN "end" ELSE "body"
      BY <1>1, <1>6 DEF WitnessLength, VectorInPlace, BodyStart
    <2>2. hash' = transaction_hash
      BY <1>1, <1>6, <2>1 DEF HashInPlace
    <2>3. Signable(message) => at' = "body"
      <3>1. ASSUME Signable(message) PROVE Len(Witness) # 0
        <4>1. IsWitnessArgs(First(message)) /\ Witness = First(message)
          BY <1>6, <3>1 DEF Signable, First, Witness
        <4>2. /\ NumAt(First(message), 8) \in Nat /\ NumAt(First(message), 12) \in Nat
              /\ 16 <= NumAt(First(message), 8) /\ NumAt(First(message), 8) <= NumAt(First(message), 12)
              /\ NumAt(First(message), 12) <= Len(First(message)) /\ Len(First(message)) \in Nat
          BY <1>4, <4>1, LockEnds
        <4>3. Len(First(message)) # 0
          BY <4>2
        <4> QED BY <4>1, <4>3
      <3> QED BY <2>1, <3>1
    <2>4. hash' = transaction_hash \o HashedOf(message, args', read' - Len(chunk'))
      <3>1. \A p : HashedOf(message, ArgsStart, p) = <<>>
        BY DEF HashedOf, ArgsStart
      <3>2. transaction_hash \o <<>> = transaction_hash
        BY HashAssumption, ConcatEmptySeq
      <3> QED BY <1>1, <2>1, <2>2, <3>1, <3>2, Zenon
    <2>5. message' = message /\ item' = 0 /\ at' # "length"
      BY <1>1, <1>6
    <2>6. HashInPlace'
      BY <2>3, <2>4, <2>5, Zenon DEF HashInPlace
    <2> QED BY <1>3, <2>6
  <1>7. CASE at' # "length" /\ item # 0
    <2>1. read' = 0 /\ hash' = hash \o LE8(Len(Witness)) /\ at' \in {"body", "end"}
      BY <1>1, <1>7 DEF WitnessLength, VectorInPlace, BodyStart
    <2>2. Witness \in Seq(Byte)
      BY <1>4, WitnessBytes DEF TypeOK
    <2>3. PICK l : l = LE8(Len(Witness))
      OBVIOUS
    <2>4. l \in Seq(Byte)
      <3>1. Len(Witness) \in Int
        BY <2>2
      <3> QED BY <2>3, <3>1, LE8Bytes
    <2>5. OfThisWitness = <<>>
      BY <1>1 DEF OfThisWitness
    <2>6. OfThisWitness' = l
      <3>1. SubSeq(Witness, 1, 0) = <<>>
        BY <2>2
      <3>2. l \o <<>> = l
        BY <2>4, ConcatEmptySeq
      <3>3. OfThisWitness' = l \o SubSeq(Witness, 1, 0)
        BY <1>2, <2>1, <2>3, Zenon DEF OfThisWitness
      <3> QED BY <3>1, <3>2, <3>3
    <2>7. ASSUME args.at = "complete" => Signable(message)
          PROVE  hash' = HashBefore(message, args, item) \o l
      <3>1. HashBefore(message, args, item) \in Seq(Byte)
        BY <1>4, <1>7, <2>7, HashBeforeBytes
      <3>2. hash = HashBefore(message, args, item) \o <<>>
        BY <1>7, <2>5, <2>7, Zenon DEF HashInPlace, HashBefore
      <3>3. hash = HashBefore(message, args, item)
        BY <3>1, <3>2, ConcatEmptySeq
      <3> QED BY <2>1, <2>3, <3>3, Zenon
    <2>8. message' = message /\ item' = item /\ args' = args
      BY <1>1
    <2>9. HashInPlace'
      BY <1>7, <2>6, <2>7, <2>8, Zenon DEF HashInPlace, HashBefore
    <2> QED BY <1>3, <2>9
  <1> QED BY <1>5, <1>6, <1>7

(* process_witness: the bytes of the first witness wait for its parser, those *)
(* of the others are hashed.                                                 *)
LEMMA ProcessHash ==
    ASSUME TypeOK, VectorInPlace, FirstInPlace, HashInPlace, ScriptHashed, ProcessWitness
    PROVE  HashInPlace' /\ ScriptHashed'
  <1> DEFINE n == Copy(Len(Witness) - read, packet)
  <1>1. /\ at = "body" /\ UNCHANGED <<message, item, args, tx, lock>>
        /\ read' = read + n
    BY DEF ProcessWitness
  <1>2. Witness' = Witness /\ FirstWitness' = FirstWitness /\ InLock' = InLock
    BY <1>1 DEF Witness, FirstWitness, InLock
  <1>3. ScriptHashed'
    BY <1>1, <1>2, Zenon DEF ScriptHashed
  <1>4. message \in Messages /\ item \in Nat /\ item <= Len(message.witnesses)
        /\ item < Len(message.witnesses) /\ read \in Nat /\ packet \in 0 .. MaxPacket
        /\ read <= Len(Witness)
    BY <1>1, ItemBounds DEF TypeOK
  <1>5. Witness \in Seq(Byte) /\ Len(Witness) \in Nat
    BY <1>4, WitnessBytes
  <1>6. n \in Nat /\ n <= Len(Witness) - read
    BY <1>4, <1>5, SizesAssumption DEF Copy
  <1>7. PICK q \in Nat : q = read + n /\ read <= q /\ q <= Len(Witness)
    <2>1. read + n \in Nat /\ read <= read + n /\ read + n <= Len(Witness)
      BY <1>4, <1>5, <1>6
    <2> QED BY <2>1
  <1>8. CASE item = 0
    <2>1. tx.first
      BY <1>1, <1>8 DEF VectorInPlace
    <2>2. chunk' = SubSeq(Witness, read + 1, read + n) /\ at' = "parse" /\ hash' = hash
      BY <2>1 DEF ProcessWitness
    <2>3. Signable(message) => hash' = transaction_hash \o HashedOf(message, args', read' - Len(chunk'))
      <3> SUFFICES ASSUME Signable(message)
                   PROVE  hash' = transaction_hash \o HashedOf(message, args', read' - Len(chunk'))
        OBVIOUS
      <3>1. chunk = <<>>
        BY <1>1, <1>8 DEF FirstInPlace, Signable, WholeFirstWitness
      <3>2. read - Len(chunk) = read
        BY <1>4, <3>1
      <3>3. Len(chunk') = q - read
        <4>1. Len(SubSeq(Witness, read + 1, q)) = q - read
          BY <1>4, <1>5, <1>7, Part
        <4>2. chunk' = SubSeq(Witness, read + 1, q)
          BY <1>7, <2>2, Zenon
        <4> QED BY <4>1, <4>2, Zenon
      <3>4. read' - Len(chunk') = read
        <4>1. read' = q
          BY <1>1, <1>7
        <4>2. q - (q - read) = read
          BY <1>4, <1>7
        <4> QED BY <3>3, <4>1, <4>2, Zenon
      <3>5. hash = transaction_hash \o HashedOf(message, args, read)
        BY <1>1, <1>8, <3>2, Zenon DEF HashInPlace
      <3> QED BY <1>1, <2>2, <3>4, <3>5, Zenon
    <2>4. message' = message /\ item' = 0
      BY <1>1, <1>8
    <2>5. HashInPlace'
      BY <2>2, <2>3, <2>4, Zenon DEF HashInPlace
    <2> QED BY <1>3, <2>5
  <1>9. CASE item # 0
    <2>1. ~ tx.first
      BY <1>1, <1>9 DEF VectorInPlace
    <2>2. hash' = hash \o SubSeq(Witness, read + 1, q) /\ at' \in {"end", "more"}
      <3>1. hash' = hash \o SubSeq(Witness, read + 1, read + n) /\ at' \in {"end", "more"}
        BY <2>1 DEF ProcessWitness
      <3> QED BY <1>7, <3>1, Zenon
    <2>3. PICK l, x, c : /\ l = LE8(Len(Witness)) /\ x = SubSeq(Witness, 1, read)
                         /\ c = SubSeq(Witness, read + 1, q)
      OBVIOUS
    <2>4. l \in Seq(Byte)
      <3>1. Len(Witness) \in Int
        BY <1>5
      <3> QED BY <2>3, <3>1, LE8Bytes
    <2>5. x \in Seq(Byte)
      <3>1. SubSeq(Witness, 1, read) \in Seq(Byte)
        BY <1>4, <1>5, SubSeqBytes
      <3> QED BY <2>3, <3>1
    <2>6. c \in Seq(Byte)
      <3>1. SubSeq(Witness, read + 1, q) \in Seq(Byte)
        BY <1>4, <1>5, <1>7, SubSeqBytes
      <3> QED BY <2>3, <3>1
    <2>7. OfThisWitness = l \o x
      BY <1>1, <2>3, Zenon DEF OfThisWitness
    <2>8. x \o c = SubSeq(Witness, 1, q)
      <3>1. SubSeq(Witness, 1, read) \o SubSeq(Witness, read + 1, q) = SubSeq(Witness, 1, q)
        BY <1>4, <1>5, <1>7, Pieces
      <3> QED BY <2>3, <3>1, Zenon
    <2>9. OfThisWitness' = l \o (x \o c)
      <3>1. read' = q
        BY <1>1, <1>7
      <3>2. at' \notin {"index", "length", "finalize", "done"}
        BY <2>2
      <3>3. OfThisWitness' = LE8(Len(Witness')) \o SubSeq(Witness', 1, read')
        BY <3>2, Zenon DEF OfThisWitness
      <3> QED BY <1>2, <2>3, <2>8, <3>1, <3>3, Zenon
    <2>10. ASSUME args.at = "complete" => Signable(message)
           PROVE  hash' = HashBefore(message, args, item) \o OfThisWitness'
      <3>1. PICK b : b = HashBefore(message, args, item)
        OBVIOUS
      <3>2. b \in Seq(Byte)
        BY <1>4, <1>9, <2>10, <3>1, HashBeforeBytes
      <3>3. hash = b \o (l \o x)
        BY <1>9, <2>7, <2>10, <3>1, Zenon DEF HashInPlace, HashBefore
      <3>4. l \o x \in Seq(Byte)
        BY <2>4, <2>5, ConcatProperties
      <3>5. (b \o (l \o x)) \o c = b \o ((l \o x) \o c)
        BY <2>6, <3>2, <3>4, InOnePiece
      <3>6. (l \o x) \o c = l \o (x \o c)
        BY <2>4, <2>5, <2>6, InOnePiece
      <3> QED BY <2>2, <2>3, <2>9, <3>1, <3>3, <3>5, <3>6, Zenon
    <2>11. message' = message /\ item' = item /\ args' = args
      BY <1>1
    <2>12. at' # "length"
      BY <2>2
    <2>13. HashInPlace'
      BY <1>9, <2>10, <2>11, <2>12, Zenon DEF HashInPlace, HashBefore
    <2> QED BY <1>3, <2>13
  <1> QED BY <1>8, <1>9

(* process_witness_end: of the first witness all has been hashed, as it is or *)
(* as the standard one, and each further one joins those before it.         *)
LEMMA EndHash ==
    ASSUME TypeOK, VectorInPlace, FirstInPlace, HashInPlace, ScriptHashed, ProcessWitnessEnd
    PROVE  HashInPlace' /\ ScriptHashed'
  <1>1. /\ at = "end" /\ at' = "index" /\ item' = item + 1 /\ UNCHANGED <<message, args>>
        /\ read = Len(Witness)
    BY DEF ProcessWitnessEnd, VectorInPlace
  <1>2. message \in Messages /\ item \in Nat /\ item < Len(message.witnesses)
        /\ Len(message.witnesses) \in Nat /\ tx \in Witnesses
    BY <1>1, ItemBounds DEF TypeOK
  <1>3. item' # 0 /\ (item + 1) - 1 = item
    BY <1>1, <1>2
  <1>4. OfThisWitness' = <<>>
    BY <1>1 DEF OfThisWitness
  <1>5. ASSUME (args.at = "complete" => Signable(message)) =>
                 hash' = HashBefore(message, args, item + 1)
        PROVE  HashInPlace' /\ ScriptHashed'
    <2>1. ASSUME args.at = "complete" => Signable(message)
          PROVE  hash' = HashBefore(message, args, item + 1) \o <<>>
      <3>1. HashBefore(message, args, item + 1) \in Seq(Byte)
        <4>1. item + 1 \in Nat /\ item + 1 # 0 /\ item + 1 <= Len(message.witnesses)
          BY <1>2
        <4> QED BY <1>2, <2>1, <4>1, HashBeforeBytes
      <3> QED BY <1>5, <2>1, <3>1, ConcatEmptySeq
    <2>2. HashInPlace'
      BY <1>1, <1>3, <1>4, <2>1, Zenon DEF HashInPlace, HashBefore
    <2> QED BY <1>3, <2>2 DEF ScriptHashed
  <1>6. Joined(OtherWitnesses(message), 0) = <<>>
    BY DEF Joined
  <1>7. CASE item = 0 /\ ~ tx.done
    <2>1. args.at # "complete" /\ hash' = RestartedHash
      BY <1>1, <1>7 DEF ProcessWitnessEnd, VectorInPlace
    <2>2. hash' = HashBefore(message, args, item + 1)
      <3>1. PICK f : f = FirstHashed(message, FALSE)
        OBVIOUS
      <3>2. f = FirstHashed(message, args.at = "complete")
        BY <2>1, <3>1, Zenon DEF FirstHashed
      <3>3. hash' = transaction_hash \o f /\ f \in Seq(Byte)
        BY <2>1, <3>1, RestartedIs
      <3>4. (transaction_hash \o f) \o <<>> = transaction_hash \o f
        <4>1. transaction_hash \o f \in Seq(Byte)
          BY <3>3, HashAssumption, ConcatProperties
        <4> QED BY <4>1, ConcatEmptySeq
      <3>5. Joined(OtherWitnesses(message), (item + 1) - 1) = <<>>
        BY <1>3, <1>6, <1>7, Zenon
      <3> QED BY <3>2, <3>3, <3>4, <3>5, Zenon DEF HashBefore
    <2> QED BY <1>5, <2>2
  <1>8. CASE item = 0 /\ tx.done
    <2>1. args.at = "complete" /\ hash' = hash
      BY <1>1, <1>8 DEF ProcessWitnessEnd, VectorInPlace
    <2>2. ASSUME Signable(message) PROVE hash' = HashBefore(message, args, item + 1)
      <3>1. FirstWitness = First(message) /\ IsWitnessArgs(First(message))
        BY <2>2 DEF FirstWitness, First, Signable
      <3>2. hash = transaction_hash \o HashedOf(message, args, Len(First(message)))
        BY <1>1, <1>8, <2>2, <3>1, Zenon DEF HashInPlace
      <3>3. PICK f : f = FirstHashed(message, TRUE)
        OBVIOUS
      <3>4. HashedOf(message, args, Len(First(message))) = f /\ f \in Seq(Byte)
        <4>1. HashedOf(message, args, Len(First(message)))
                = LockHashed(message) \o SubSeq(First(message), NumAt(First(message), 8) + 1,
                                                Len(First(message)))
          BY <2>1 DEF HashedOf
        <4> QED BY <1>2, <2>2, <3>3, <4>1, FirstIsHashed, Zenon
      <3>5. f = FirstHashed(message, args.at = "complete")
        BY <2>1, <3>3, Zenon DEF FirstHashed
      <3>6. (transaction_hash \o f) \o <<>> = transaction_hash \o f
        <4>1. transaction_hash \o f \in Seq(Byte)
          BY <3>4, HashAssumption, ConcatProperties
        <4> QED BY <4>1, ConcatEmptySeq
      <3>7. Joined(OtherWitnesses(message), (item + 1) - 1) = <<>>
        BY <1>3, <1>6, <1>8, Zenon
      <3> QED BY <2>1, <3>2, <3>4, <3>5, <3>6, <3>7, Zenon DEF HashBefore
    <2> QED BY <1>5, <2>1, <2>2
  <1>9. CASE item # 0
    <2>1. ~ tx.first /\ hash' = hash
      BY <1>1, <1>9 DEF ProcessWitnessEnd, VectorInPlace
    <2>2. ASSUME args.at = "complete" => Signable(message)
          PROVE  hash' = HashBefore(message, args, item + 1)
      <3>1. PICK s : s = OtherWitnesses(message)
        OBVIOUS
      <3>2. /\ s \in Seq(Seq(Byte)) /\ Len(s) = Len(message.witnesses) - 1
            /\ \A i \in 1 .. Len(message.witnesses) - 1 :
                 s[i] = LE8(Len(message.witnesses[i + 1])) \o message.witnesses[i + 1]
        BY <1>2, <3>1, OtherBytes
      <3>3. PICK k \in Nat : k = item - 1
        <4>1. item - 1 \in Nat
          BY <1>2, <1>9
        <4> QED BY <4>1
      <3>4. k + 1 = item /\ k < Len(s) /\ item \in 1 .. Len(message.witnesses) - 1
        BY <1>2, <1>9, <3>2, <3>3
      <3>5. Witness \in Seq(Byte) /\ Len(Witness) \in Nat
        BY <1>2, WitnessBytes
      <3>6. s[item] = LE8(Len(Witness)) \o Witness
        BY <3>2, <3>4, Zenon DEF Witness
      <3>7. OfThisWitness = s[item]
        <4>1. SubSeq(Witness, 1, Len(Witness)) = Witness
          BY <3>5
        <4> QED BY <1>1, <3>6, <4>1, Zenon DEF OfThisWitness
      <3>8. PICK b, j, o : /\ b = transaction_hash \o FirstHashed(message, args.at = "complete")
                           /\ j = Joined(s, k) /\ o = s[item]
        OBVIOUS
      <3>9. hash = (b \o j) \o o
        BY <1>1, <1>9, <2>2, <3>1, <3>3, <3>7, <3>8, Zenon DEF HashInPlace
      <3>10. Joined(s, item) = j \o o
        <4>1. Joined(s, k + 1) = Joined(s, k) \o s[k + 1]
          BY <3>2, <3>4, JoinedStep
        <4> QED BY <3>4, <3>8, <4>1, Zenon
      <3>11. j \in Seq(Byte) /\ o \in Seq(Byte)
        <4>1. Joined(s, k) \in Seq(Byte)
          <5>1. k <= Len(s)
            BY <3>2, <3>4, <1>2
          <5> QED BY <3>2, <5>1, JoinedBytes
        <4>2. item \in 1 .. Len(s)
          BY <3>2, <3>4
        <4>3. s[item] \in Seq(Byte)
          BY <3>2, <4>2, ElementOfSeq
        <4> QED BY <3>8, <4>1, <4>3, Zenon
      <3>12. b \in Seq(Byte)
        <4>1. PICK f : f = FirstHashed(message, args.at = "complete")
          OBVIOUS
        <4>2. f \in Seq(Byte)
          <5>1. CASE args.at = "complete"
            <6>1. f = FirstHashed(message, TRUE)
              BY <4>1, <5>1, Zenon DEF FirstHashed
            <6> QED BY <1>2, <2>2, <5>1, <6>1, FirstIsHashed
          <5>2. CASE args.at # "complete"
            <6>1. f = FirstHashed(message, FALSE)
              BY <4>1, <5>2, Zenon DEF FirstHashed
            <6> QED BY <6>1, RestartedIs
          <5> QED BY <5>1, <5>2
        <4>3. transaction_hash \o f \in Seq(Byte)
          BY <4>2, HashAssumption, ConcatProperties
        <4> QED BY <3>8, <4>1, <4>3, Zenon
      <3>13. (b \o j) \o o = b \o (j \o o)
        BY <3>11, <3>12, InOnePiece
      <3>14. HashBefore(message, args, item + 1) = b \o Joined(s, item)
        BY <1>3, <3>1, <3>8, Zenon DEF HashBefore
      <3> QED BY <2>1, <3>9, <3>10, <3>13, <3>14, Zenon
    <2> QED BY <1>5, <2>2
  <1> QED BY <1>7, <1>8, <1>9

LEMMA HashInPlaceStep ==
    ASSUME TypeOK, ScriptParameters, VectorInPlace, FirstInPlace, LockInPlace, HashInPlace,
           ScriptHashed, [Next]_vars
    PROVE  HashInPlace' /\ ScriptHashed'
  <1>1. CASE NewPacket
    <2>1. /\ UNCHANGED <<message, item, args, hash, chunk, read, tx, lock>>
          /\ (at = "length" /\ at' = "length") \/ (at = "more" /\ at' = "body")
      BY <1>1 DEF NewPacket
    <2> QED BY <2>1, HashStays
  <1>2. CASE FinalizeWitnesses
    <2>1. /\ UNCHANGED <<message, item, args, hash, chunk, read, tx, lock>>
          /\ at = "finalize" /\ at' = "done"
      BY <1>2 DEF FinalizeWitnesses
    <2>2. item # 0
      BY <2>1, ItemBounds DEF VectorInPlace
    <2> QED BY <2>1, <2>2, HashStays
  <1>3. CASE UNCHANGED vars
    BY <1>3, HashStays DEF vars
  <1> QED BY <1>1, <1>2, <1>3, BeginHash, LengthHash, ProcessHash, EndHash, ParseHashStep
          DEF Next, Device

-------------------------------------------------------------------------------
(* The digest.                                                             *)

HashInv == PlaceInv /\ ScriptHashed /\ HashInPlace

LEMMA HashInvariance == Spec => []HashInv
  <1>1. Init => ScriptHashed /\ HashInPlace
    BY DEF Init, ScriptHashed, HashInPlace, InLock, ArgsStart
  <1>2. HashInv /\ [Next]_vars /\ PlaceInv' => HashInv'
    BY HashInPlaceStep DEF HashInv, PlaceInv, IInv
  <1>3. Spec => []PlaceInv
    BY PlaceInvariance
  <1>4. PlaceInv /\ ScriptHashed /\ HashInPlace => HashInv
    BY DEF HashInv
  <1>5. Init /\ PlaceInv => HashInv
    BY <1>1, <1>4
  <1> QED BY <1>2, <1>3, <1>5, PTL DEF Spec

(* What has been hashed behind the last witness is the digest of one message *)
(* or another: with the blank witness, or with the standard one.             *)
LEMMA DigestIs ==
    ASSUME HashInv, at \in {"finalize", "done"},
           args.at = "complete" => Signable(message)
    PROVE  hash = Sighash!DigestWith(message,
                    IF args.at = "complete"
                    THEN Sighash!BlankWitness(First(message), message.multisig)
                    ELSE Sighash!StandardWitness)
  <1>1. /\ item = Len(message.witnesses) /\ item # 0 /\ item \in Nat /\ message \in Messages
        /\ OfThisWitness = <<>>
    BY ItemBounds DEF HashInv, PlaceInv, IInv, VectorInPlace, OfThisWitness, TypeOK
  <1>2. PICK s : s = OtherWitnesses(message)
    OBVIOUS
  <1>3. s \in Seq(Seq(Byte)) /\ Len(s) = item - 1
    BY <1>1, <1>2, OtherBytes
  <1>4. Joined(s, item - 1) = Sighash!FlattenSeq(s)
    BY <1>3, JoinedAll, Zenon
  <1>5. HashBefore(message, args, item) \in Seq(Byte)
    BY <1>1, HashBeforeBytes
  <1>6. hash = HashBefore(message, args, item) \o <<>>
    BY <1>1, Zenon DEF HashInv, HashInPlace, HashBefore
  <1>7. hash = HashBefore(message, args, item)
    BY <1>5, <1>6, ConcatEmptySeq
  <1>8. hash = transaction_hash \o FirstHashed(message, args.at = "complete") \o Sighash!FlattenSeq(s)
    BY <1>2, <1>4, <1>7, Zenon DEF HashBefore
  <1> QED BY <1>2, <1>8, Zenon DEF FirstHashed, OtherWitnesses, Sighash!DigestWith

(* Whatever the messages are: when the parser of the first witness has not   *)
(* completed, process_witness_end starts the hash again and the digest is    *)
(* that of the standard witness, followed by the others untouched.           *)
THEOREM IncompleteWasStandard == Spec => []IncompleteIsStandard
  <1>1. HashInv => IncompleteIsStandard
    <2> SUFFICES ASSUME HashInv, at = "done", args.at # "complete"
                 PROVE  final_hash = StandardDigest
      BY DEF IncompleteIsStandard
    <2>1. hash = Sighash!DigestWith(message,
                   IF args.at = "complete"
                   THEN Sighash!BlankWitness(First(message), message.multisig)
                   ELSE Sighash!StandardWitness)
      BY DigestIs
    <2>2. final_hash = hash
      BY DEF HashInv, PlaceInv, VectorInPlace
    <2> QED BY <2>1, <2>2, Zenon DEF StandardDigest
  <1> QED BY <1>1, HashInvariance, PTL

(* However the packets cut a message, process_witness and its callbacks come *)
(* to one digest, at the end, and if it is a message that clients send to    *)
(* the one the chain computes of it: WitnessHash implements WitnessDigest.   *)
THEOREM ComputesTheSighash == Spec => ComputesSighash
  <1>1. Init => Sighash!Init
    BY DEF Init, Sighash!Init, Sighash!NoDigest
  <1>2. HashInv /\ [Next]_vars => [Sighash!Next]_<<message, final_hash>>
    <2> SUFFICES ASSUME HashInv, [Next]_vars
                 PROVE  [Sighash!Next]_<<message, final_hash>>
      OBVIOUS
    <2>1. CASE FinalizeWitnesses
      <3>1. /\ at = "finalize" /\ final_hash' = hash /\ UNCHANGED message
            /\ final_hash = <<>>
        BY <2>1 DEF FinalizeWitnesses, HashInv, PlaceInv, VectorInPlace
      <3>2. message \in Messages /\ item # 0
        BY <3>1, ItemBounds DEF HashInv, PlaceInv, IInv, TypeOK, VectorInPlace
      <3>3. ASSUME Signable(message) PROVE hash = Sighash!Sighash(message)
        <4>1. WholeFirstWitness
          BY <3>2, <3>3 DEF Signable, WholeFirstWitness
        <4>2. args.at = "complete" /\ Signable(message)
          BY <3>2, <3>3, <4>1 DEF HashInv, PlaceInv, FirstInPlace
        <4>3. hash = Sighash!DigestWith(message, Sighash!BlankWitness(First(message), message.multisig))
          BY <3>1, <4>2, DigestIs
        <4> QED BY <4>3, Zenon DEF Sighash!Sighash, First
      <3>4. hash \in Seq(Sighash!Byte)
        BY DEF HashInv, PlaceInv, IInv, TypeOK, Byte, Sighash!Byte
      <3>5. final_hash' \in IF Sighash!Signable(message) THEN {Sighash!Sighash(message)} ELSE Seq(Sighash!Byte)
        BY <3>1, <3>3, <3>4, SameSignable
      <3> QED BY <3>1, <3>5, Zenon DEF Sighash!Next, Sighash!Finish, Sighash!NoDigest
    <2>2. CASE ~ FinalizeWitnesses
      <3>1. UNCHANGED <<message, final_hash>>
        BY <2>2 DEF Next, Device, ParseFirstWitness, NewPacket, BeginWitness, WitnessLength,
               ProcessWitness, ProcessWitnessEnd, NumIncomplete, ParseTotalSize, ParseOffset,
               ParseAbsentField, ParseFieldLength, ParseLockBody, ParseTypeBody, ParseComplete,
               vars
      <3> QED BY <3>1
    <2> QED BY <2>1, <2>2
  <1> QED BY <1>1, <1>2, HashInvariance, PTL DEF Spec, ComputesSighash, Sighash!Spec
===============================================================================
