-------------------------- MODULE MoleculeReaderProofs --------------------------
(***************************************************************************)
(* Proofs about MoleculeReader, for all messages, packet sizes, clients and *)
(* widths of a hash: the parsers stay within the packet and their types, a  *)
(* packet that is answered with INCOMPLETE is consumed to its end, and the  *)
(* chunk callbacks are given every byte once.                               *)
(***************************************************************************)
EXTENDS MoleculeReader, SequenceTheorems, TLAPS

-------------------------------------------------------------------------------
(* The types of blockchain.h and annotated.h.                              *)

Kinds == {"byte", "fixed", "bytes", "fixvec", "dynvec", "option", "table", "struct"}

\* The fields of the structs, which have one size each.
Sized == {"byte", "Uint32", "Uint64", "Byte32", "OutPoint"}

\* What is known of a type without knowing which it is.
Shape(s) ==
    /\ s.kind \in Kinds
    /\ s.kind \in {"byte", "fixed", "bytes", "fixvec", "struct"} => s.width \in Nat
    /\ s.kind \in {"fixvec", "dynvec", "option"} => s.item \in Types
    /\ s.kind \in {"table", "struct"} =>
         /\ Len(s.fields) \in Nat \ {0}
         /\ \A i \in 1 .. Len(s.fields) : s.fields[i][2] \in Types
    /\ s.kind = "struct" => \A i \in 1 .. Len(s.fields) : s.fields[i][2] \in Sized

\* The parse functions of blockchain.h and annotated.h are of these types.
LEMMA TypesNamed ==
    Types =
      {"byte", "Uint32", "Uint64", "Uint128", "Byte32", "Uint256", "Bytes", "BytesOpt",
       "BytesVec", "Byte32Vec", "Script", "ScriptOpt", "OutPoint", "CellInput",
       "CellInputVec", "CellOutput", "CellOutputVec", "CellDep", "CellDepVec",
       "RawTransaction", "Transaction", "WitnessArgs", "AnnotatedCellInput",
       "AnnotatedCellInputVec", "AnnotatedRawTransaction", "Bip32", "AnnotatedTransaction"}
  BY DEF Types, Schema

\* The leaves and the vectors: what mol_parse_bytes or an item parser is called for.
LEMMA FlatShapes ==
    /\ Shape(byte_parse) /\ Shape(Uint32_parse) /\ Shape(Uint64_parse) /\ Shape(Uint128_parse)
    /\ Shape(Byte32_parse) /\ Shape(Uint256_parse) /\ Shape(Bytes_parse)
    /\ Shape(BytesOpt_parse) /\ Shape(ScriptOpt_parse)
    /\ Shape(BytesVec_parse) /\ Shape(CellOutputVec_parse) /\ Shape(AnnotatedCellInputVec_parse)
    /\ Shape(Byte32Vec_parse) /\ Shape(CellInputVec_parse) /\ Shape(CellDepVec_parse)
    /\ Shape(Bip32_parse)
  BY HashWidthAssumption, TypesNamed
  DEF Shape, Kinds, Fixed, FixVec, DynVec, Option, byte_parse, Uint32_parse, Uint64_parse,
      Uint128_parse, Byte32_parse, Uint256_parse, Bytes_parse, BytesOpt_parse, ScriptOpt_parse,
      BytesVec_parse, CellOutputVec_parse, AnnotatedCellInputVec_parse, Byte32Vec_parse,
      CellInputVec_parse, CellDepVec_parse, Bip32_parse, CellInputWidth, CellDepWidth,
      OutPointWidth

\* The structs, whose fields have a size each.
LEMMA StructShapes ==
    Shape(OutPoint_parse) /\ Shape(CellInput_parse) /\ Shape(CellDep_parse)
  BY HashWidthAssumption, TypesNamed
  DEF Shape, Kinds, Sized, Struct, OutPoint_parse, CellInput_parse, CellDep_parse,
      CellInputWidth, CellDepWidth, OutPointWidth

\* The tables, whose fields have an offset each.
LEMMA TableShapes ==
    /\ Shape(Script_parse) /\ Shape(CellOutput_parse) /\ Shape(RawTransaction_parse)
    /\ Shape(Transaction_parse) /\ Shape(WitnessArgs_parse) /\ Shape(AnnotatedCellInput_parse)
    /\ Shape(AnnotatedRawTransaction_parse) /\ Shape(AnnotatedTransaction_parse)
  BY TypesNamed
  DEF Shape, Kinds, Table, Script_parse, CellOutput_parse, RawTransaction_parse,
      Transaction_parse, WitnessArgs_parse, AnnotatedCellInput_parse,
      AnnotatedRawTransaction_parse, AnnotatedTransaction_parse

\* Whatever type is parsed, its parser is one of the generated shapes.
LEMMA SchemaShape == \A t \in Types : Shape(Schema[t])
  <1>1. SUFFICES ASSUME NEW t \in Types PROVE Shape(Schema[t])
    OBVIOUS
  <1>2. QED
    BY FlatShapes, StructShapes, TableShapes, TypesNamed DEF Schema

\* The sub-parser of a struct is called with a size of its own.
LEMMA SizedWidths == \A t \in Sized : t \in Types /\ Schema[t].width \in Nat
  BY HashWidthAssumption, TypesNamed
  DEF Sized, Schema, byte_parse, Uint32_parse, Uint64_parse, Byte32_parse, OutPoint_parse,
      Fixed, Struct, OutPointWidth

-------------------------------------------------------------------------------
(* Frames.                                                                 *)

Names == {"root"} \cup {SubParser(t, i)[1] : t \in Types, i \in Nat}
States == {"bytes", "body", "total_size", "length", "offsets", "fields", "done"}
Nesting == {"fixvec", "dynvec", "option", "table", "struct"}

Frames ==
    [name : Names, type : Types, size : Int, start : Nat, field_idx : Nat, fill : Seq(Byte),
     numbers : Seq(Int), begin : Nat, given : Seq(Byte), state : States]

Fields(f) == Schema[f.type].fields

\* What a parser has read when it is in a state.
StateFits(f) ==
    /\ f.state = "bytes" => Leaf(f.type)
    /\ f.state = "body" => Kind(f) = "bytes" /\ Len(f.numbers) >= 1
    /\ f.state = "length" => Kind(f) \in {"bytes", "fixvec"}
    /\ f.state = "total_size" => Kind(f) \in {"table", "dynvec"} /\ f.field_idx = 0
    /\ f.state = "offsets" =>
         /\ Kind(f) \in {"table", "dynvec"}
         /\ Kind(f) = "table" => f.field_idx = 0 /\ Len(f.numbers) \in 1 .. Len(Fields(f))
    /\ f.state = "fields" =>
         /\ Kind(f) \in Nesting
         /\ Kind(f) = "table" => Len(f.numbers) = Len(Fields(f)) + 1
         /\ Kind(f) \in {"table", "struct"} => f.field_idx < Len(Fields(f))

\* It has not read more than it wants.
Filled(f) == Reading(f) /\ 0 <= Wanted(f) => Len(f.fill) <= Wanted(f)

\* A field or an item is of a type, and called by a name.
LEMMA SubParserType ==
    ASSUME NEW t \in Types, NEW i \in Nat, Schema[t].kind \in Nesting,
           Schema[t].kind \in {"table", "struct"} => i < Len(Schema[t].fields)
    PROVE  /\ SubParser(t, i)[2] \in Types
           /\ SubParser(t, i)[1] \in Names
           /\ Schema[t].kind = "struct" => SubParser(t, i)[2] \in Sized
  <1>1. Shape(Schema[t])
    BY SchemaShape
  <1>2. CASE Schema[t].kind \in {"table", "struct"}
    <2>1. i + 1 \in 1 .. Len(Schema[t].fields)
      BY <1>1, <1>2 DEF Shape
    <2>2. SubParser(t, i) = Schema[t].fields[i + 1]
      BY <1>2 DEF SubParser
    <2>3. SubParser(t, i)[1] \in Names
      BY DEF Names
    <2>4. QED
      BY <1>1, <1>2, <2>1, <2>2, <2>3 DEF Shape
  <1>3. CASE Schema[t].kind \notin {"table", "struct"}
    <2>1. SubParser(t, i) = <<"item", Schema[t].item>> /\ Schema[t].kind # "struct"
      BY <1>3 DEF SubParser
    <2>2. SubParser(t, i)[1] \in Names
      BY DEF Names
    <2>3. Schema[t].item \in Types
      BY <1>1, <1>3 DEF Shape, Nesting
    <2>4. QED
      BY <2>1, <2>2, <2>3
  <1>4. QED
    BY <1>2, <1>3

\* The fields a parser never changes while it reads, and two frames that agree
\* on them.
SamePlace(g, f) ==
    /\ g.type = f.type
    /\ g.start = f.start
    /\ g.begin = f.begin
    /\ g.given = f.given

\* One field of a frame at a time.
WithNumbers(f, numbers) == [f EXCEPT !.numbers = numbers]
WithIndex(f, field_idx) == [f EXCEPT !.field_idx = field_idx]
WithState(f, state) == [f EXCEPT !.state = state]
WithFill(f, fill) == [f EXCEPT !.fill = fill]

\* What a parser reads changes the field it is kept in and no other.
LEMMA WithNumbersFrame ==
    ASSUME NEW f \in Frames, NEW numbers \in Seq(Int)
    PROVE  LET g == WithNumbers(f, numbers)
           IN /\ g \in Frames /\ SamePlace(g, f) /\ g.numbers = numbers
              /\ g.field_idx = f.field_idx /\ g.state = f.state /\ g.fill = f.fill
  BY DEF Frames, WithNumbers, SamePlace

\* The same of a field or an item passed over.
LEMMA WithIndexFrame ==
    ASSUME NEW f \in Frames, NEW field_idx \in Nat
    PROVE  LET g == WithIndex(f, field_idx)
           IN /\ g \in Frames /\ SamePlace(g, f) /\ g.field_idx = field_idx
              /\ g.numbers = f.numbers /\ g.state = f.state /\ g.fill = f.fill
  BY DEF Frames, WithIndex, SamePlace

\* The same of a parser that goes on to its next state.
LEMMA WithStateFrame ==
    ASSUME NEW f \in Frames, NEW state \in States
    PROVE  LET g == WithState(f, state)
           IN /\ g \in Frames /\ SamePlace(g, f) /\ g.state = state
              /\ g.numbers = f.numbers /\ g.field_idx = f.field_idx /\ g.fill = f.fill
  BY DEF Frames, WithState, SamePlace

\* The same of what mol_parse_bytes has copied.
LEMMA WithFillFrame ==
    ASSUME NEW f \in Frames, NEW fill \in Seq(Byte)
    PROVE  LET g == WithFill(f, fill)
           IN /\ g \in Frames /\ SamePlace(g, f) /\ g.fill = fill
              /\ g.numbers = f.numbers /\ g.field_idx = f.field_idx /\ g.state = f.state
  BY DEF Frames, WithFill, SamePlace

-------------------------------------------------------------------------------
(* The inductive invariant.                                                *)

\* A parser of which the chunk callback gets every byte.
Streamed(f) == ~Leaf(f.type) /\ Kind(f) # "bytes"

\* A parser of the stack when all that is read of the message is upTo bytes.
FrameInv(f, upTo) ==
    /\ f.begin <= f.start
    /\ f.start <= upTo
    /\ StateFits(f)
    /\ Filled(f)

\* Its chunk callback was given what it passed over up to here.
GivenTo(f, bytes, to) == Streamed(f) => f.given = SubSeq(bytes, f.begin + 1, to)

Told(f, bytes, upTo, result) ==
    result \in {"PARSING", "INCOMPLETE"} =>
        GivenTo(f, bytes, IF result = "INCOMPLETE" THEN upTo ELSE f.start)

Here ==
    /\ message \in Messages
    /\ received \in 0 .. Len(message.bytes)
    /\ consumed \in 0 .. received
    /\ rv \in {"PARSING", "INCOMPLETE", "COMPLETE", "REJECT"}

Parsers ==
    /\ stack \in Seq(Frames)
    /\ \A i \in 1 .. Len(stack) :
         FrameInv(stack[i], consumed) /\ Told(stack[i], message.bytes, consumed, rv)
    /\ \A i \in 1 .. Len(stack) - 1 : stack[i].state = "fields"

IInv == Here /\ Parsers /\ IncompleteConsumesAll

-------------------------------------------------------------------------------
(* What a read gives.                                                      *)

\* mol_unpack_number of four bytes is a number.
LEMMA NumIsInt == \A b \in Seq(Byte) : Len(b) = 4 => Num(b) \in Int
  <1>1. SUFFICES ASSUME NEW b \in Seq(Byte), Len(b) = 4 PROVE Num(b) \in Int
    OBVIOUS
  <1>2. 1 \in 1 .. Len(b) /\ 2 \in 1 .. Len(b) /\ 3 \in 1 .. Len(b) /\ 4 \in 1 .. Len(b)
    BY <1>1
  <1>3. b[1] \in Byte /\ b[2] \in Byte /\ b[3] \in Byte /\ b[4] \in Byte
    BY <1>2, ElementOfSeq
  <1>4. \A x \in Byte : x \in Int
    BY DEF Byte
  <1>5. b[1] \in Int /\ b[2] \in Int /\ b[3] \in Int /\ b[4] \in Int
    BY <1>3, <1>4
  <1>6. (IF b[4] < 128 THEN b[4] ELSE b[4] - 256) \in Int
    BY <1>5, SMT
  <1> DEFINE low == b[1] + 256 * b[2] + 65536 * b[3]
             high == IF b[4] < 128 THEN b[4] ELSE b[4] - 256
  <1>7. Num(b) = low + 16777216 * high
    BY DEF Num
  <1>8. low \in Int
    BY <1>5, SMT
  <1>9. high \in Int
    BY <1>6
  <1> HIDE DEF low, high
  <1>10. QED
    BY <1>7, <1>8, <1>9, SMT

\* A piece of a message consists of bytes.
LEMMA Piece ==
    ASSUME NEW bytes \in Seq(Byte), NEW from \in Nat, NEW to \in Nat,
           from <= to, to <= Len(bytes)
    PROVE  /\ SubSeq(bytes, from + 1, to) \in Seq(Byte)
           /\ Len(SubSeq(bytes, from + 1, to)) = to - from
  <1>1. \A i \in from + 1 .. to : bytes[i] \in Byte
    OBVIOUS
  <1>2. QED
    BY <1>1, SubSeqProperties

\* Two pieces, one behind the other, are one.
LEMMA Pieces ==
    ASSUME NEW bytes \in Seq(Byte), NEW from \in Nat, NEW mid \in Nat, NEW to \in Nat,
           from <= mid, mid <= to, to <= Len(bytes)
    PROVE  SubSeq(bytes, from + 1, mid) \o SubSeq(bytes, mid + 1, to) = SubSeq(bytes, from + 1, to)
  BY ConcatAdjacentSubSeq

\* What the host sends are bytes.
LEMMA MessageBytes == IInv => message.bytes \in Seq(Byte) /\ message.type \in Types
  BY MessagesAssumption DEF IInv, Here

\* What the innermost parser wants is a number.
LEMMA WantedIsInt ==
    ASSUME NEW f \in Frames, StateFits(f), Reading(f)
    PROVE  /\ Wanted(f) \in Int
           /\ f.state \in {"total_size", "length", "offsets"} => Wanted(f) = 4
  <1>1. CASE f.state = "bytes"
    <2>1. Leaf(f.type) /\ Shape(Schema[f.type])
      BY <1>1, SchemaShape DEF StateFits, Frames
    <2>2. Schema[f.type].width \in Nat
      BY <2>1 DEF Leaf, Shape
    <2>3. QED
      BY <1>1, <2>2 DEF Wanted
  <1>2. CASE f.state = "body"
    BY <1>2 DEF Wanted, StateFits, Frames
  <1>3. CASE f.state \notin {"bytes", "body"}
    BY <1>3 DEF Wanted
  <1>4. QED
    BY <1>1, <1>2, <1>3

\* A read stays within the packet and gives as many bytes as are wanted.
LEMMA ReadsWithin ==
    ASSUME IInv, rv = "PARSING", stack # <<>>, Reading(Top), Enough(Top)
    PROVE  /\ Top \in Frames
           /\ FrameInv(Top, consumed)
           /\ After(Top) \in consumed .. received
           /\ Whole(Top) \in Seq(Byte)
           /\ Len(Whole(Top)) = Wanted(Top)
           /\ Len(stack) \in Nat \ {0}
  <1>1. Len(stack) \in Nat \ {0} /\ Top \in Frames /\ FrameInv(Top, consumed)
    BY EmptySeq DEF IInv, Parsers, Top
  <1>2. Wanted(Top) \in Int /\ Top.fill \in Seq(Byte) /\ Len(Top.fill) \in Nat
    BY <1>1, WantedIsInt DEF FrameInv, Frames
  <1>3. Len(Top.fill) <= Wanted(Top)
    BY <1>1 DEF Filled, Enough, FrameInv
  <1>4. consumed \in Nat /\ received \in Nat /\ consumed <= received
        /\ received <= Len(message.bytes) /\ Len(message.bytes) \in Nat
    BY MessageBytes DEF IInv, Here
  <1>5. After(Top) \in consumed .. received
    BY <1>2, <1>3, <1>4 DEF After, Enough
  <1>6. /\ Between(consumed, After(Top)) \in Seq(Byte)
        /\ Len(Between(consumed, After(Top))) = After(Top) - consumed
    BY <1>4, <1>5, MessageBytes, Piece DEF Between
  <1>7. /\ Whole(Top) \in Seq(Byte)
        /\ Len(Whole(Top)) = Len(Top.fill) + (After(Top) - consumed)
    <2> DEFINE fill == Top.fill
               rest == Between(consumed, After(Top))
    <2>1. Whole(Top) = fill \o rest
      BY DEF Whole
    <2>2. fill \in Seq(Byte) /\ rest \in Seq(Byte) /\ Len(rest) = After(Top) - consumed
      BY <1>2, <1>6
    <2> HIDE DEF fill, rest
    <2>3. fill \o rest \in Seq(Byte) /\ Len(fill \o rest) = Len(fill) + Len(rest)
      BY <2>2, ConcatProperties
    <2>4. QED
      BY <2>1, <2>2, <2>3 DEF fill
  <1>8. Len(Whole(Top)) = Wanted(Top)
    BY <1>2, <1>4, <1>7 DEF After
  <1>9. QED
    BY <1>1, <1>5, <1>7, <1>8

-------------------------------------------------------------------------------
(* A step of the innermost parser.                                         *)

\* What is read only moves on, and what was told stays told.
LEMMA FurtherOn ==
    ASSUME NEW f, NEW bytes, NEW upTo \in Int, NEW further \in Int, upTo <= further,
           f \in Frames, FrameInv(f, upTo), Told(f, bytes, upTo, "PARSING")
    PROVE  FrameInv(f, further) /\ Told(f, bytes, further, "PARSING")
  BY DEF FrameInv, Told, Frames

\* The frame of the innermost parser is replaced by h, the others stay.
LEMMA Replaced ==
    ASSUME IInv, rv = "PARSING", stack # <<>>, NEW h,
           h \in Frames, SamePlace(h, Top), StateFits(h), Filled(h),
           stack' \in Seq(Frames), Len(stack') = Len(stack), stack'[Len(stack)] = h,
           \A i \in 1 .. Len(stack) - 1 : stack'[i] = stack[i],
           consumed' \in consumed .. received,
           UNCHANGED <<message, received, rv>>
    PROVE  IInv'
  <1>1. /\ Len(stack) \in Nat \ {0}
        /\ \A i \in 1 .. Len(stack) : stack[i] \in Frames
        /\ \A i \in 1 .. Len(stack) :
             FrameInv(stack[i], consumed) /\ Told(stack[i], message.bytes, consumed, rv)
        /\ \A i \in 1 .. Len(stack) - 1 : stack[i].state = "fields"
    BY EmptySeq DEF IInv, Parsers
  <1>2. consumed \in Int /\ consumed' \in Int /\ consumed <= consumed'
    BY DEF IInv, Here
  <1>3. Here'
    BY DEF IInv, Here
  <1>4. IncompleteConsumesAll'
    BY DEF IncompleteConsumesAll
  <1>5. FrameInv(h, consumed') /\ Told(h, message.bytes, consumed', "PARSING")
    <2>1. Top \in Frames /\ FrameInv(Top, consumed) /\ Told(Top, message.bytes, consumed, rv)
      BY <1>1 DEF Top
    <2>2. FrameInv(Top, consumed') /\ Told(Top, message.bytes, consumed', "PARSING")
      BY <1>2, <2>1, FurtherOn
    <2>3. QED
      BY <2>2 DEF FrameInv, Told, GivenTo, Streamed, SamePlace, Kind
  <1>6. ASSUME NEW i \in 1 .. Len(stack')
        PROVE  FrameInv(stack'[i], consumed') /\ Told(stack'[i], message'.bytes, consumed', rv')
    <2>1. CASE i = Len(stack)
      BY <1>5, <2>1
    <2>2. CASE i # Len(stack)
      <3>1. i \in 1 .. Len(stack) /\ stack'[i] = stack[i]
        BY <1>1, <2>2
      <3>2. QED
        BY <1>1, <1>2, <3>1, FurtherOn
    <2>3. QED
      BY <2>1, <2>2
  <1>7. Parsers'
    BY <1>1, <1>6 DEF Parsers
  <1>8. QED
    BY <1>3, <1>4, <1>7 DEF IInv

\* What Append and Front do to the top of the stack.
LEMMA NewTop ==
    ASSUME NEW S, NEW s \in Seq(S), s # <<>>, NEW h \in S
    PROVE  /\ Front(s) \in Seq(S)
           /\ Len(Front(s)) = Len(s) - 1
           /\ \A i \in 1 .. Len(s) - 1 : Front(s)[i] = s[i]
           /\ Append(Front(s), h) \in Seq(S)
           /\ Len(Append(Front(s), h)) = Len(s)
           /\ Append(Front(s), h)[Len(s)] = h
           /\ \A i \in 1 .. Len(s) - 1 : Append(Front(s), h)[i] = s[i]
  <1>1. Len(s) \in Nat \ {0} /\ \A i \in 1 .. Len(s) : s[i] \in S
    BY EmptySeq
  <1>2. /\ Front(s) \in Seq(S)
        /\ Len(Front(s)) = Len(s) - 1
        /\ \A i \in 1 .. Len(s) - 1 : Front(s)[i] = s[i]
    <2> DEFINE last == Len(s) - 1
    <2>1. last \in Nat /\ \A i \in 1 .. last : s[i] \in S
      BY <1>1
    <2> HIDE DEF last
    <2>2. /\ SubSeq(s, 1, last) \in Seq(S)
          /\ Len(SubSeq(s, 1, last)) = last
          /\ \A i \in 1 .. last : SubSeq(s, 1, last)[i] = s[i]
      BY <2>1, SubSeqProperties
    <2>3. QED
      BY <2>2 DEF Front, last
  <1> DEFINE front == Front(s)
  <1> HIDE DEF front
  <1>3. /\ front \in Seq(S)
        /\ Len(front) = Len(s) - 1
        /\ \A i \in 1 .. Len(s) - 1 : front[i] = s[i]
    BY <1>2 DEF front
  <1>4. /\ Append(front, h) \in Seq(S)
        /\ Len(Append(front, h)) = Len(front) + 1
        /\ \A i \in 1 .. Len(front) : Append(front, h)[i] = front[i]
        /\ Append(front, h)[Len(front) + 1] = h
    BY <1>3, AppendProperties
  <1>5. Len(front) + 1 = Len(s)
    BY <1>1, <1>3
  <1>6. /\ Append(front, h) \in Seq(S)
        /\ Len(Append(front, h)) = Len(s)
        /\ Append(front, h)[Len(s)] = h
        /\ \A i \in 1 .. Len(s) - 1 : Append(front, h)[i] = s[i]
    BY <1>3, <1>4, <1>5
  <1>7. QED
    BY <1>2, <1>6 DEF front

\* GoOn, whatever has become of the frame but its place in the message.
LEMMA GoesOn ==
    ASSUME IInv, rv = "PARSING", stack # <<>>, Reading(Top), Enough(Top),
           NEW f, NEW calls, GoOn(f, calls),
           f \in Frames, SamePlace(f, Top), StateFits(f)
    PROVE  IInv'
  <1> DEFINE h == WithFill(f, <<>>)
  <1>1. h \in Frames /\ SamePlace(h, f) /\ h.fill = <<>> /\ h.numbers = f.numbers
        /\ h.field_idx = f.field_idx /\ h.state = f.state
    <2>1. <<>> \in Seq(Byte)
      OBVIOUS
    <2>2. QED
      BY <2>1, WithFillFrame
  <1>2. StateFits(h)
    BY <1>1 DEF StateFits, SamePlace, Kind, Fields
  <1>3. Filled(h)
    <2>1. Len(h.fill) = 0
      BY <1>1
    <2>2. QED
      BY <2>1 DEF Filled
  <1>4. stack' = Append(Front(stack), h)
    BY DEF GoOn, WithFill
  <1>5. consumed' \in consumed .. received
    BY ReadsWithin DEF GoOn
  <1>6. stack \in Seq(Frames)
    BY DEF IInv, Parsers
  <1>7. SamePlace(h, Top)
    BY <1>1 DEF SamePlace
  <1> HIDE DEF h
  <1>8. /\ stack' \in Seq(Frames)
        /\ Len(stack') = Len(stack)
        /\ stack'[Len(stack)] = h
        /\ \A i \in 1 .. Len(stack) - 1 : stack'[i] = stack[i]
    BY <1>1, <1>4, <1>6, NewTop
  <1>9. UNCHANGED <<message, received, rv>>
    BY DEF GoOn
  <1>10. QED
    BY <1>1, <1>2, <1>3, <1>5, <1>7, <1>8, <1>9, Replaced

\* A read, for each state of a parser that reads.
LEMMA ReadAtFacts ==
    ASSUME IInv, NEW state \in {"bytes", "body", "total_size", "length", "offsets"},
           ReadAt(state)
    PROVE  /\ rv = "PARSING" /\ stack # <<>> /\ Reading(Top) /\ Enough(Top)
           /\ Top.state = state /\ Top \in Frames /\ StateFits(Top)
           /\ Shape(Schema[Top.type]) /\ Top.numbers \in Seq(Int)
           /\ state \in {"total_size", "length", "offsets"} => Num(Whole(Top)) \in Int
  <1>1. rv = "PARSING" /\ stack # <<>> /\ Reading(Top) /\ Enough(Top) /\ Top.state = state
    BY DEF ReadAt, At, Reading
  <1>2. /\ Top \in Frames /\ FrameInv(Top, consumed)
        /\ Whole(Top) \in Seq(Byte) /\ Len(Whole(Top)) = Wanted(Top)
    BY <1>1, ReadsWithin
  <1>3. StateFits(Top)
    BY <1>2 DEF FrameInv
  <1>4. state \in {"total_size", "length", "offsets"} => Num(Whole(Top)) \in Int
    BY <1>1, <1>2, <1>3, WantedIsInt, NumIsInt
  <1>5. Shape(Schema[Top.type]) /\ Top.numbers \in Seq(Int)
    BY <1>2, SchemaShape DEF Frames
  <1>6. QED
    BY <1>1, <1>2, <1>3, <1>4, <1>5

-------------------------------------------------------------------------------
(* The way out.                                                            *)

WithGiven(f, given) == [f EXCEPT !.given = given]
WithStart(f, start) == [f EXCEPT !.start = start]

\* The chunk callback changes what was given and nothing else.
LEMMA WithGivenFrame ==
    ASSUME NEW f \in Frames, NEW given \in Seq(Byte)
    PROVE  LET g == WithGiven(f, given)
           IN /\ g \in Frames /\ g.given = given /\ g.type = f.type /\ g.start = f.start
              /\ g.begin = f.begin /\ g.numbers = f.numbers /\ g.field_idx = f.field_idx
              /\ g.state = f.state /\ g.fill = f.fill
  BY DEF Frames, WithGiven

\* A resumed parser begins behind what was read before and is else as it was.
LEMMA WithStartFrame ==
    ASSUME NEW f \in Frames, NEW start \in Nat
    PROVE  LET g == WithStart(f, start)
           IN /\ g \in Frames /\ g.start = start /\ g.type = f.type /\ g.given = f.given
              /\ g.begin = f.begin /\ g.numbers = f.numbers /\ g.field_idx = f.field_idx
              /\ g.state = f.state /\ g.fill = f.fill
  BY DEF Frames, WithStart

\* A parser of the stack, in its place in the message.
Placed(f, upTo, bytes) ==
    f \in Frames /\ FrameInv(f, upTo) /\ Told(f, bytes, upTo, "PARSING")

\* What the chunk callback of a parser was given on the way out is all it passed over.
LEMMA GivenAll ==
    ASSUME NEW f, NEW upTo \in Nat, NEW to \in Nat,
           message.bytes \in Seq(Byte), to <= Len(message.bytes), upTo <= to,
           Placed(f, upTo, message.bytes)
    PROVE  LET g == IF GivesChunk(f) THEN Given(f, to) ELSE f
           IN /\ g \in Frames
              /\ FrameInv(g, to)
              /\ GivenTo(g, message.bytes, to)
              /\ g.state = f.state
  <1>1. /\ f \in Frames /\ f.given \in Seq(Byte) /\ f.start \in Nat /\ f.begin \in Nat
        /\ f.begin <= f.start /\ f.start <= to /\ FrameInv(f, to) /\ StateFits(f)
        /\ GivenTo(f, message.bytes, f.start)
    BY DEF Placed, Frames, FrameInv, Told
  <1>2. CASE ~GivesChunk(f)
    <2>1. ~Streamed(f)
      BY <1>1, <1>2 DEF GivesChunk, Streamed, StateFits
    <2>2. QED
      BY <1>1, <1>2, <2>1 DEF GivenTo
  <1>3. CASE GivesChunk(f)
    <2> DEFINE piece == Between(f.start, to)
               given == f.given \o piece
               g == WithGiven(f, given)
    <2>1. piece \in Seq(Byte)
      BY <1>1, Piece DEF Between
    <2>2. given \in Seq(Byte)
      BY <1>1, <2>1, ConcatProperties
    <2>3. Given(f, to) = g
      BY DEF Given, WithGiven
    <2>4. Streamed(f) => given = SubSeq(message.bytes, f.begin + 1, to)
      <3>1. SUFFICES ASSUME Streamed(f)
                     PROVE  given = SubSeq(message.bytes, f.begin + 1, to)
        OBVIOUS
      <3>2. f.given = SubSeq(message.bytes, f.begin + 1, f.start)
        BY <1>1, <3>1 DEF GivenTo
      <3>3. SubSeq(message.bytes, f.begin + 1, f.start) \o SubSeq(message.bytes, f.start + 1, to)
              = SubSeq(message.bytes, f.begin + 1, to)
        BY <1>1, Pieces
      <3>4. QED
        BY <3>2, <3>3 DEF Between
    <2> HIDE DEF given
    <2>5. /\ g \in Frames /\ g.given = given /\ g.type = f.type /\ g.start = f.start
          /\ g.begin = f.begin /\ g.numbers = f.numbers /\ g.field_idx = f.field_idx
          /\ g.state = f.state /\ g.fill = f.fill
      BY <1>1, <2>2, WithGivenFrame
    <2> HIDE DEF g
    <2>6. StateFits(g) /\ Filled(g)
      BY <1>1, <2>5 DEF StateFits, Filled, FrameInv, Kind, Fields, Reading, Wanted
    <2>7. FrameInv(g, to) /\ GivenTo(g, message.bytes, to)
      BY <1>1, <2>4, <2>5, <2>6 DEF FrameInv, GivenTo, Streamed, Kind
    <2>8. QED
      BY <1>3, <2>3, <2>5, <2>7
  <1>4. QED
    BY <1>2, <1>3

\* Unwind, with INCOMPLETE when the packet is used up, or with REJECT.
LEMMA Unwinds ==
    ASSUME IInv, NEW frames \in Seq(Frames), NEW to \in consumed .. received,
           NEW result \in {"INCOMPLETE", "REJECT"}, NEW calls,
           result = "INCOMPLETE" => to = received,
           \A i \in 1 .. Len(frames) : Placed(frames[i], to, message.bytes),
           \A i \in 1 .. Len(frames) - 1 : frames[i].state = "fields",
           Unwind(frames, to, result, calls)
    PROVE  IInv'
  <1> DEFINE out(f) == IF GivesChunk(f) THEN Given(f, to) ELSE f
  <1>1. stack' = [i \in DOMAIN frames |-> out(frames[i])]
    BY DEF Unwind
  <1>2. /\ message' = message /\ received' = received /\ consumed' = to /\ rv' = result
    BY DEF Unwind
  <1>3. to \in Nat /\ to <= Len(message.bytes) /\ message.bytes \in Seq(Byte)
    BY MessageBytes DEF IInv, Here
  <1>4. ASSUME NEW i \in 1 .. Len(frames)
        PROVE  /\ out(frames[i]) \in Frames
               /\ FrameInv(out(frames[i]), to)
               /\ GivenTo(out(frames[i]), message.bytes, to)
               /\ out(frames[i]).state = frames[i].state
    BY <1>3, GivenAll
  <1> HIDE DEF out
  <1>5. DOMAIN frames = 1 .. Len(frames) /\ Len(frames) \in Nat
    BY LenProperties
  <1>6. stack' \in Seq(Frames) /\ Len(stack') = Len(frames)
    <2>1. stack' \in [1 .. Len(frames) -> Frames]
      BY <1>1, <1>4, <1>5
    <2>2. QED
      BY <1>5, <2>1
  <1>7. \A i \in 1 .. Len(frames) : stack'[i] = out(frames[i])
    BY <1>1, <1>5
  <1>8. Here'
    BY <1>2, <1>3 DEF IInv, Here
  <1>9. IncompleteConsumesAll'
    BY <1>2 DEF IncompleteConsumesAll
  <1>10. \A i \in 1 .. Len(stack') :
           /\ FrameInv(stack'[i], consumed')
           /\ Told(stack'[i], message'.bytes, consumed', rv')
    BY <1>2, <1>4, <1>6, <1>7 DEF Told
  <1>11. \A i \in 1 .. Len(stack') - 1 : stack'[i].state = "fields"
    BY <1>4, <1>5, <1>6, <1>7
  <1>12. Parsers'
    BY <1>6, <1>10, <1>11 DEF Parsers
  <1>13. QED
    BY <1>8, <1>9, <1>12 DEF IInv

\* The parsers in their places, when one of them is at work.
LEMMA AllPlaced ==
    ASSUME IInv, rv = "PARSING", NEW to \in consumed .. received
    PROVE  /\ stack \in Seq(Frames)
           /\ \A i \in 1 .. Len(stack) : Placed(stack[i], to, message.bytes)
           /\ \A i \in 1 .. Len(stack) - 1 : stack[i].state = "fields"
  <1>1. consumed \in Nat /\ to \in Nat /\ consumed <= to
    BY MessageBytes DEF IInv, Here
  <1>2. stack \in Seq(Frames) /\ \A i \in 1 .. Len(stack) : stack[i] \in Frames
    BY DEF IInv, Parsers
  <1>3. ASSUME NEW i \in 1 .. Len(stack) PROVE Placed(stack[i], to, message.bytes)
    BY <1>1, <1>2, FurtherOn, SMTT(30) DEF IInv, Parsers, Placed
  <1>4. QED
    BY <1>2, <1>3 DEF IInv, Parsers

\* REJECT of the innermost parser after a read.
LEMMA Rejects ==
    ASSUME IInv, rv = "PARSING", stack # <<>>, Reading(Top), Enough(Top),
           NEW calls, Reject(calls)
    PROVE  IInv'
  <1>1. After(Top) \in consumed .. received /\ Top \in Frames
    BY ReadsWithin
  <1>2. /\ stack \in Seq(Frames)
        /\ \A i \in 1 .. Len(stack) : Placed(stack[i], After(Top), message.bytes)
        /\ \A i \in 1 .. Len(stack) - 1 : stack[i].state = "fields"
    BY <1>1, AllPlaced
  <1>3. /\ Front(stack) \in Seq(Frames)
        /\ Len(Front(stack)) = Len(stack) - 1
        /\ \A i \in 1 .. Len(stack) - 1 : Front(stack)[i] = stack[i]
    BY <1>1, <1>2, NewTop
  <1>4. Len(stack) \in Nat \ {0}
    BY <1>2, EmptySeq
  <1>5. /\ \A i \in 1 .. Len(Front(stack)) : Placed(Front(stack)[i], After(Top), message.bytes)
        /\ \A i \in 1 .. Len(Front(stack)) - 1 : Front(stack)[i].state = "fields"
    BY <1>2, <1>3, <1>4
  <1>6. Unwind(Front(stack), After(Top), "REJECT", calls)
    BY DEF Reject
  <1>7. QED
    BY <1>1, <1>3, <1>5, <1>6, Unwinds

-------------------------------------------------------------------------------
(* One lemma per action.                                                   *)

\* handle_apdu calls the parser with the next packet.
LEMMA PacketStep == IInv /\ (\E n \in PacketSizes : Packet(n)) => IInv'
  <1>1. SUFFICES ASSUME IInv, NEW n \in PacketSizes, Packet(n) PROVE IInv'
    OBVIOUS
  <1>2. /\ n \in Nat /\ consumed = received /\ received \in Nat /\ consumed \in Nat
        /\ Len(message.bytes) \in Nat /\ message \in Messages
    BY <1>1, MessageBytes, PacketSizesAssumption DEF IInv, Here, IncompleteConsumesAll, Packet
  <1>3. /\ message' = message /\ consumed' = consumed /\ rv' = "PARSING"
        /\ received' \in received .. Len(message.bytes)
    BY <1>1, <1>2 DEF Packet
  <1>4. Here' /\ IncompleteConsumesAll'
    BY <1>2, <1>3 DEF Here, IncompleteConsumesAll
  <1>5. /\ stack \in Seq(Frames)
        /\ Len(stack) \in Nat
        /\ DOMAIN stack = 1 .. Len(stack)
        /\ \A i \in 1 .. Len(stack) : stack[i] \in Frames
        /\ \A i \in 1 .. Len(stack) - 1 : stack[i].state = "fields"
    BY <1>1, LenProperties DEF IInv, Parsers
  <1>6. ASSUME NEW i \in 1 .. Len(stack)
        PROVE  /\ Resumed(stack[i]) \in Frames
               /\ FrameInv(Resumed(stack[i]), consumed)
               /\ Told(Resumed(stack[i]), message.bytes, consumed, "PARSING")
               /\ Resumed(stack[i]).state = stack[i].state
    <2> DEFINE f == stack[i]
               g == WithStart(f, consumed)
    <2>1. Resumed(f) = g
      BY DEF Resumed, WithStart
    <2>2. /\ f \in Frames /\ FrameInv(f, consumed)
          /\ GivenTo(f, message.bytes, consumed)
      BY <1>1, <1>5 DEF IInv, Parsers, Told, Packet
    <2> HIDE DEF f
    <2>3. /\ g \in Frames /\ g.start = consumed /\ g.type = f.type /\ g.given = f.given
          /\ g.begin = f.begin /\ g.numbers = f.numbers /\ g.field_idx = f.field_idx
          /\ g.state = f.state /\ g.fill = f.fill
      BY <1>2, <2>2, WithStartFrame
    <2> HIDE DEF g
    <2>4. StateFits(g) /\ Filled(g)
      BY <2>2, <2>3 DEF StateFits, Filled, FrameInv, Kind, Fields, Reading, Wanted
    <2>5. f.begin \in Nat /\ f.start \in Nat /\ f.begin <= consumed
      BY <1>2, <2>2 DEF Frames, FrameInv
    <2>6. FrameInv(g, consumed) /\ Told(g, message.bytes, consumed, "PARSING")
      BY <1>2, <2>2, <2>3, <2>4, <2>5 DEF FrameInv, Told, GivenTo, Streamed, Kind
    <2>7. QED
      BY <2>1, <2>3, <2>6 DEF f
  <1>7. stack' = [i \in DOMAIN stack |-> Resumed(stack[i])]
    BY <1>1 DEF Packet
  <1>8. stack' \in Seq(Frames) /\ Len(stack') = Len(stack)
    <2>1. stack' \in [1 .. Len(stack) -> Frames]
      BY <1>5, <1>6, <1>7
    <2>2. QED
      BY <1>5, <2>1
  <1>9. \A i \in 1 .. Len(stack) : stack'[i] = Resumed(stack[i])
    BY <1>5, <1>7
  <1>10. Parsers'
    BY <1>3, <1>5, <1>6, <1>8, <1>9, SMTT(30) DEF Parsers
  <1>11. QED
    BY <1>4, <1>10 DEF IInv

\* The packet ends in what the innermost parser reads.
LEMMA IncompleteStep == IInv /\ Incomplete => IInv'
  <1>1. SUFFICES ASSUME IInv, Incomplete PROVE IInv'
    OBVIOUS
  <1>2. rv = "PARSING" /\ stack # <<>> /\ Reading(Top) /\ ~Enough(Top)
    BY <1>1 DEF Incomplete
  <1>3. /\ consumed \in Nat /\ received \in Nat /\ consumed <= received
        /\ received <= Len(message.bytes) /\ message.bytes \in Seq(Byte)
    BY <1>1, MessageBytes DEF IInv, Here
  <1>4. /\ stack \in Seq(Frames)
        /\ \A i \in 1 .. Len(stack) : Placed(stack[i], received, message.bytes)
        /\ \A i \in 1 .. Len(stack) - 1 : stack[i].state = "fields"
    BY <1>1, <1>2, <1>3, AllPlaced
  <1>5. Len(stack) \in Nat \ {0} /\ DOMAIN stack = 1 .. Len(stack)
    BY <1>2, <1>4, EmptySeq, LenProperties
  <1> DEFINE n == Len(stack)
             rest == Between(consumed, received)
             fill == Top.fill \o rest
             g == WithFill(Top, fill)
             frames == [stack EXCEPT ![n] = g]
  <1>6. Placed(Top, received, message.bytes) /\ Top \in Frames /\ Top.fill \in Seq(Byte)
        /\ StateFits(Top) /\ Filled(Top)
    <2>1. Placed(Top, received, message.bytes)
      BY <1>4, <1>5 DEF Top
    <2>2. QED
      BY <2>1 DEF Placed, Frames, FrameInv
  <1>7. rest \in Seq(Byte) /\ Len(rest) = received - consumed
    BY <1>3, Piece DEF Between
  <1>8. fill \in Seq(Byte) /\ Len(fill) = Len(Top.fill) + Len(rest)
    <2> HIDE DEF rest
    <2>1. QED
      BY <1>6, <1>7, ConcatProperties
  <1>9. [stack EXCEPT ![Len(stack)].fill = @ \o Between(consumed, received)] = frames
    BY DEF WithFill, Top
  <1> HIDE DEF rest, fill
  <1>10. /\ g \in Frames /\ SamePlace(g, Top) /\ g.fill = fill /\ g.numbers = Top.numbers
         /\ g.field_idx = Top.field_idx /\ g.state = Top.state
    BY <1>6, <1>8, WithFillFrame
  <1> HIDE DEF g
  <1>11. StateFits(g)
    BY <1>6, <1>10 DEF StateFits, SamePlace, Kind, Fields
  <1>12. Filled(g)
    <2>1. Wanted(Top) \in Int /\ Len(Top.fill) \in Nat
      BY <1>2, <1>6, WantedIsInt
    <2>2. Wanted(g) = Wanted(Top)
      BY <1>10 DEF Wanted, SamePlace
    <2>3. 0 <= Wanted(Top) => Len(fill) <= Wanted(Top)
      BY <1>2, <1>3, <1>7, <1>8, <2>1 DEF Enough
    <2>4. QED
      BY <1>10, <2>2, <2>3 DEF Filled
  <1>13. Placed(g, received, message.bytes)
    BY <1>6, <1>10, <1>11, <1>12
    DEF Placed, FrameInv, Told, GivenTo, Streamed, Kind, SamePlace
  <1>14. frames \in Seq(Frames) /\ Len(frames) = n
    <2>1. stack \in [1 .. n -> Frames]
      BY <1>4, LenProperties
    <2>2. frames \in [1 .. n -> Frames] /\ n \in Nat
      BY <1>5, <1>10, <2>1
    <2> HIDE DEF frames, n
    <2>3. QED
      BY <2>2
  <1>15. \A i \in 1 .. n : frames[i] = IF i = n THEN g ELSE stack[i]
    BY <1>5
  <1>16. Unwind(frames, received, "INCOMPLETE", BodyCalls(Top, received))
    BY <1>1, <1>9 DEF Incomplete, WhatThereIs
  <1> HIDE DEF frames, n
  <1>17. /\ \A i \in 1 .. Len(frames) : Placed(frames[i], received, message.bytes)
         /\ \A i \in 1 .. Len(frames) - 1 : frames[i].state = "fields"
    <2>1. n \in Nat /\ n = Len(stack)
      BY <1>5 DEF n
    <2>2. ASSUME NEW i \in 1 .. n PROVE Placed(frames[i], received, message.bytes)
      BY <1>4, <1>13, <1>15, <2>1
    <2>3. ASSUME NEW i \in 1 .. n - 1 PROVE frames[i].state = "fields"
      <3>1. i \in 1 .. n /\ i # n
        BY <2>1
      <3>2. frames[i] = stack[i]
        BY <1>15, <3>1
      <3>3. QED
        BY <1>4, <2>1, <3>2
    <2>4. QED
      BY <1>14, <2>2, <2>3
  <1>18. received \in consumed .. received
    BY <1>3
  <1>19. QED
    BY <1>1, <1>14, <1>16, <1>17, <1>18, Unwinds

\* The total size of a table.
LEMMA TableSizeStep == IInv /\ TableSize => IInv'
  <1>1. SUFFICES ASSUME IInv, TableSize PROVE IInv'
    OBVIOUS
  <1>2. ReadAt("total_size") /\ Kind(Top) = "table"
    BY <1>1 DEF TableSize
  <1>3. /\ rv = "PARSING" /\ stack # <<>> /\ Reading(Top) /\ Enough(Top)
        /\ Top \in Frames /\ StateFits(Top) /\ Shape(Schema[Top.type])
        /\ Top.state = "total_size" /\ Num(Whole(Top)) \in Int
    BY <1>1, <1>2, ReadAtFacts
  <1> DEFINE total_size == Num(Whole(Top))
             g == WithNumbers(Top, <<total_size>>)
             f == WithState(g, "offsets")
  <1>4. CASE Reject(<<>>)
    BY <1>1, <1>3, <1>4, Rejects
  <1>5. CASE GoOn([Top EXCEPT !.numbers = <<total_size>>, !.state = "offsets"], <<>>)
    <2>1. GoOn(f, <<>>)
      <3> DEFINE read == <<total_size>>
      <3>1. GoOn([Top EXCEPT !.numbers = read, !.state = "offsets"], <<>>)
        BY <1>5
      <3> HIDE DEF read, total_size
      <3>2. [Top EXCEPT !.numbers = read, !.state = "offsets"]
              = WithState(WithNumbers(Top, read), "offsets")
        BY Zenon DEF WithState, WithNumbers
      <3>3. GoOn(WithState(WithNumbers(Top, read), "offsets"), <<>>)
        BY <3>1, <3>2, Zenon
      <3>4. QED
        BY <3>3 DEF read
    <2>2. <<total_size>> \in Seq(Int) /\ Len(<<total_size>>) = 1
      BY <1>3
    <2> HIDE DEF total_size
    <2>3. g \in Frames /\ SamePlace(g, Top) /\ Len(g.numbers) = 1
          /\ g.field_idx = Top.field_idx
      BY <1>3, <2>2, WithNumbersFrame
    <2> HIDE DEF g
    <2>4. f \in Frames /\ SamePlace(f, g) /\ f.numbers = g.numbers
          /\ f.field_idx = g.field_idx /\ f.state = "offsets"
      BY <2>3, WithStateFrame DEF States
    <2> HIDE DEF f
    <2>5. SamePlace(f, Top) /\ f.type = Top.type
      BY <2>3, <2>4 DEF SamePlace
    <2>6. StateFits(f)
      <3>1. 1 \in 1 .. Len(Schema[Top.type].fields)
        BY <1>2, <1>3 DEF Shape, Kind
      <3>2. Top.field_idx = 0
        BY <1>3 DEF StateFits
      <3>3. QED
        BY <1>2, <2>3, <2>4, <2>5, <3>1, <3>2 DEF StateFits, Kind, Fields
    <2>7. QED
      BY <1>1, <1>3, <2>1, <2>4, <2>5, <2>6, GoesOn
  <1>6. QED
    BY <1>1, <1>4, <1>5 DEF TableSize

\* An offset of a table; behind the last one the fields are read.
LEMMA TableOffsetStep == IInv /\ TableOffset => IInv'
  <1>1. SUFFICES ASSUME IInv, TableOffset PROVE IInv'
    OBVIOUS
  <1>2. ReadAt("offsets") /\ Kind(Top) = "table"
    BY <1>1 DEF TableOffset
  <1>3. /\ rv = "PARSING" /\ stack # <<>> /\ Reading(Top) /\ Enough(Top)
        /\ Top \in Frames /\ StateFits(Top) /\ Shape(Schema[Top.type])
        /\ Top.numbers \in Seq(Int) /\ Top.state = "offsets" /\ Num(Whole(Top)) \in Int
    BY <1>1, <1>2, ReadAtFacts
  <1>4. /\ Len(Schema[Top.type].fields) \in Nat \ {0} /\ Top.field_idx = 0
        /\ Len(Top.numbers) \in 1 .. Len(Schema[Top.type].fields)
    BY <1>2, <1>3 DEF Shape, Kind, StateFits, Fields
  <1> DEFINE offset == Num(Whole(Top))
             numbers == Append(Top.numbers, offset)
             f == WithNumbers(Top, numbers)
             g == WithState(f, "fields")
  <1>5. PICK calls : \/ Len(f.numbers) <= Len(Schema[f.type].fields) /\ GoOn(f, calls)
                     \/ /\ ~(Len(f.numbers) <= Len(Schema[f.type].fields))
                        /\ GoOn([f EXCEPT !.state = "fields"], calls)
    BY <1>1 DEF TableOffset, WithNumbers
  <1>6. numbers \in Seq(Int) /\ Len(numbers) = Len(Top.numbers) + 1
    BY <1>3, AppendProperties
  <1> HIDE DEF numbers
  <1>7. f \in Frames /\ SamePlace(f, Top) /\ f.numbers = numbers
        /\ f.field_idx = Top.field_idx /\ f.state = Top.state /\ f.type = Top.type
    BY <1>3, <1>6, WithNumbersFrame DEF SamePlace
  <1> HIDE DEF f
  <1>8. CASE Len(f.numbers) <= Len(Schema[f.type].fields) /\ GoOn(f, calls)
    <2>1. StateFits(f)
      BY <1>2, <1>3, <1>4, <1>6, <1>7, <1>8 DEF StateFits, Kind, Fields
    <2>2. QED
      BY <1>1, <1>3, <1>7, <1>8, <2>1, GoesOn
  <1>9. CASE /\ ~(Len(f.numbers) <= Len(Schema[f.type].fields))
             /\ GoOn([f EXCEPT !.state = "fields"], calls)
    <2>1. GoOn(g, calls)
      BY <1>9 DEF WithState
    <2>2. g \in Frames /\ SamePlace(g, f) /\ g.numbers = f.numbers
          /\ g.field_idx = f.field_idx /\ g.state = "fields"
      BY <1>7, WithStateFrame DEF States
    <2> HIDE DEF g
    <2>3. SamePlace(g, Top) /\ g.type = Top.type
      BY <1>7, <2>2 DEF SamePlace
    <2>4. Len(g.numbers) = Len(Schema[Top.type].fields) + 1
      BY <1>4, <1>6, <1>7, <1>9, <2>2, SMTT(30)
    <2>5. StateFits(g)
      BY <1>2, <1>4, <1>7, <2>2, <2>3, <2>4 DEF StateFits, Kind, Fields, Nesting
    <2>6. QED
      BY <1>1, <1>3, <2>1, <2>2, <2>3, <2>5, GoesOn
  <1>10. QED
    BY <1>5, <1>8, <1>9

\* The total size of a dynvec.
LEMMA DynVecSizeStep == IInv /\ DynVecSize => IInv'
  <1>1. SUFFICES ASSUME IInv, DynVecSize PROVE IInv'
    OBVIOUS
  <1>2. ReadAt("total_size") /\ Kind(Top) = "dynvec"
    BY <1>1 DEF DynVecSize
  <1>3. /\ rv = "PARSING" /\ stack # <<>> /\ Reading(Top) /\ Enough(Top)
        /\ Top \in Frames /\ StateFits(Top) /\ Num(Whole(Top)) \in Int
    BY <1>1, <1>2, ReadAtFacts
  <1> DEFINE total_size == Num(Whole(Top))
             f == WithNumbers(Top, <<total_size>>)
  <1>4. PICK size : \/ Reject(<<size>>)
                    \/ GoOn([f EXCEPT !.state = "done"], <<size>>)
                    \/ GoOn([f EXCEPT !.state = "offsets"], <<size>>)
    BY <1>1 DEF DynVecSize, WithNumbers
  <1>5. f \in Frames /\ SamePlace(f, Top)
    <2>1. <<total_size>> \in Seq(Int)
      BY <1>3
    <2> HIDE DEF total_size
    <2>2. QED
      BY <1>3, <2>1, WithNumbersFrame
  <1> HIDE DEF f
  <1>6. ASSUME NEW state \in {"done", "offsets"}, GoOn([f EXCEPT !.state = state], <<size>>)
        PROVE  IInv'
    <2> DEFINE g == WithState(f, state)
    <2>1. GoOn(g, <<size>>)
      BY <1>6 DEF WithState
    <2>2. g \in Frames /\ SamePlace(g, f) /\ g.state = state
      BY <1>5, WithStateFrame DEF States
    <2> HIDE DEF g
    <2>3. SamePlace(g, Top) /\ g.type = Top.type
      BY <1>5, <2>2 DEF SamePlace
    <2>4. StateFits(g)
      BY <1>2, <2>2, <2>3 DEF StateFits, Kind
    <2>5. QED
      BY <1>1, <1>3, <2>1, <2>2, <2>3, <2>4, GoesOn
  <1>7. QED
    BY <1>1, <1>3, <1>4, <1>6, Rejects

\* An offset of a dynvec; behind the last one the items are read.
LEMMA DynVecOffsetStep == IInv /\ DynVecOffset => IInv'
  <1>1. SUFFICES ASSUME IInv, DynVecOffset PROVE IInv'
    OBVIOUS
  <1>2. ReadAt("offsets") /\ Kind(Top) = "dynvec"
    BY <1>1 DEF DynVecOffset
  <1>3. /\ rv = "PARSING" /\ stack # <<>> /\ Reading(Top) /\ Enough(Top)
        /\ Top \in Frames /\ StateFits(Top) /\ Top.state = "offsets"
        /\ Top.numbers \in Seq(Int) /\ Top.field_idx \in Nat /\ Num(Whole(Top)) \in Int
    BY <1>1, <1>2, ReadAtFacts DEF Frames
  <1> DEFINE numbers == IF Len(Top.numbers) = 1 THEN Append(Top.numbers, Num(Whole(Top)))
                        ELSE Top.numbers
             next == Top.field_idx + 1
             f == WithIndex(WithNumbers(Top, numbers), next)
  <1>4. numbers \in Seq(Int) /\ next \in Nat
    BY <1>3, AppendProperties
  <1> DEFINE state == IF More(0, Items(numbers[2])) THEN "fields" ELSE "done"
  <1>5. PICK calls :
          \/ GoOn([Top EXCEPT !.numbers = numbers, !.field_idx = next], calls)
          \/ GoOn([[Top EXCEPT !.numbers = numbers, !.field_idx = next]
                      EXCEPT !.field_idx = 0, !.state = state], calls)
    BY <1>1, Zenon DEF DynVecOffset
  <1>states. state \in {"fields", "done"}
    OBVIOUS
  <1> HIDE DEF numbers, next, state
  <1>6. [Top EXCEPT !.numbers = numbers, !.field_idx = next] = f
    BY Zenon DEF WithIndex, WithNumbers
  <1>7. f \in Frames /\ SamePlace(f, Top) /\ f.state = Top.state /\ f.type = Top.type
    <2> DEFINE g == WithNumbers(Top, numbers)
    <2>1. g \in Frames /\ SamePlace(g, Top) /\ g.state = Top.state
      BY <1>3, <1>4, WithNumbersFrame
    <2> HIDE DEF g
    <2>2. LET h == WithIndex(g, next)
          IN h \in Frames /\ SamePlace(h, g) /\ h.state = g.state
      BY <1>4, <2>1, WithIndexFrame
    <2>3. f = WithIndex(g, next)
      BY DEF g
    <2> HIDE DEF f
    <2>4. QED
      BY <2>1, <2>2, <2>3 DEF SamePlace
  <1> HIDE DEF f
  <1>8. CASE GoOn([Top EXCEPT !.numbers = numbers, !.field_idx = next], calls)
    <2>1. GoOn(f, calls)
      BY <1>6, <1>8
    <2>2. StateFits(f)
      BY <1>2, <1>3, <1>7 DEF StateFits, Kind
    <2>3. QED
      BY <1>1, <1>3, <1>7, <2>1, <2>2, GoesOn
  <1>9. CASE GoOn([[Top EXCEPT !.numbers = numbers, !.field_idx = next]
                     EXCEPT !.field_idx = 0, !.state = state], calls)
    <2> DEFINE g == WithIndex(f, 0)
               h == WithState(g, state)
    <2>1. GoOn([f EXCEPT !.field_idx = 0, !.state = state], calls)
      BY <1>6, <1>9, Zenon
    <2>2. [f EXCEPT !.field_idx = 0, !.state = state] = h
      BY Zenon DEF WithIndex, WithState
    <2>3. GoOn(h, calls)
      BY <2>1, <2>2, Zenon
    <2>4. g \in Frames /\ SamePlace(g, f)
      BY <1>7, WithIndexFrame
    <2> HIDE DEF g
    <2>5. h \in Frames /\ SamePlace(h, g) /\ h.state = state
      BY <1>states, <2>4, WithStateFrame DEF States
    <2> HIDE DEF h
    <2>6. SamePlace(h, Top) /\ h.type = Top.type
      BY <1>7, <2>4, <2>5 DEF SamePlace
    <2>7. StateFits(h)
      BY <1>2, <1>states, <2>5, <2>6 DEF StateFits, Kind, Nesting
    <2>8. QED
      BY <1>1, <1>3, <2>3, <2>5, <2>6, <2>7, GoesOn
  <1>10. QED
    BY <1>5, <1>8, <1>9

\* The length of a Bytes or a fixvec.
LEMMA LengthStep == IInv /\ Length => IInv'
  <1>1. SUFFICES ASSUME IInv, Length PROVE IInv'
    OBVIOUS
  <1>2. ReadAt("length")
    BY <1>1 DEF Length
  <1>3. /\ rv = "PARSING" /\ stack # <<>> /\ Reading(Top) /\ Enough(Top)
        /\ Top \in Frames /\ StateFits(Top) /\ Num(Whole(Top)) \in Int
        /\ Kind(Top) \in {"bytes", "fixvec"}
    <2>1. /\ rv = "PARSING" /\ stack # <<>> /\ Reading(Top) /\ Enough(Top)
          /\ Top \in Frames /\ StateFits(Top) /\ Num(Whole(Top)) \in Int
          /\ Top.state = "length"
      BY <1>1, <1>2, ReadAtFacts
    <2>2. QED
      BY <2>1 DEF StateFits
  <1> DEFINE length == Num(Whole(Top))
             f == WithNumbers(Top, <<length>>)
  <1> DEFINE items == IF More(0, length) THEN "fields" ELSE "done"
  <1>4. PICK calls :
          \/ Reject(calls)
          \/ Kind(Top) = "bytes" /\ GoOn([f EXCEPT !.state = "body"], calls)
          \/ Kind(Top) # "bytes" /\ GoOn([f EXCEPT !.state = items], calls)
    BY <1>1, Zenon DEF Length, WithNumbers
  <1>states. items \in {"fields", "done"}
    OBVIOUS
  <1> HIDE DEF items
  <1>5. f \in Frames /\ SamePlace(f, Top) /\ Len(f.numbers) = 1
    <2>1. <<length>> \in Seq(Int) /\ Len(<<length>>) = 1
      BY <1>3
    <2> HIDE DEF length
    <2>2. QED
      BY <1>3, <2>1, WithNumbersFrame
  <1> HIDE DEF f
  <1>6. ASSUME NEW state \in {"body", "fields", "done"},
               GoOn([f EXCEPT !.state = state], calls),
               state = "body" => Kind(Top) = "bytes",
               state = "fields" => Kind(Top) # "bytes"
        PROVE  IInv'
    <2> DEFINE g == WithState(f, state)
    <2>1. GoOn(g, calls)
      BY <1>6 DEF WithState
    <2>2. g \in Frames /\ SamePlace(g, f) /\ g.state = state /\ g.numbers = f.numbers
      BY <1>5, WithStateFrame DEF States
    <2> HIDE DEF g
    <2>3. SamePlace(g, Top) /\ g.type = Top.type
      BY <1>5, <2>2 DEF SamePlace
    <2>4. StateFits(g)
      <3>1. Kind(g) = Kind(Top) /\ Len(g.numbers) = 1
        BY <1>5, <2>2, <2>3 DEF Kind
      <3>2. CASE state = "body"
        BY <1>6, <2>2, <3>1, <3>2 DEF StateFits
      <3>3. CASE state = "fields"
        BY <1>3, <1>6, <2>2, <3>1, <3>3 DEF StateFits, Nesting
      <3>4. CASE state = "done"
        BY <2>2, <3>4 DEF StateFits
      <3>5. QED
        BY <3>2, <3>3, <3>4
    <2>5. QED
      BY <1>1, <1>3, <2>1, <2>2, <2>3, <2>4, GoesOn
  <1>7. QED
    BY <1>1, <1>3, <1>4, <1>states, <1>6, Rejects

\* The last of a leaf or of a Bytes.
LEMMA BodyStep == IInv /\ Bytes_body => IInv'
  <1>1. SUFFICES ASSUME IInv, Bytes_body PROVE IInv'
    OBVIOUS
  <1>2. PICK state \in {"bytes", "body"} : ReadAt(state)
    BY <1>1 DEF Bytes_body
  <1>3. /\ rv = "PARSING" /\ stack # <<>> /\ Reading(Top) /\ Enough(Top)
        /\ Top \in Frames /\ StateFits(Top)
    BY <1>1, <1>2, ReadAtFacts
  <1>4. After(Top) \in consumed .. received /\ Whole(Top) \in Seq(Byte)
        /\ Len(stack) \in Nat \ {0}
    BY <1>1, <1>3, ReadsWithin
  <1>5. stack \in Seq(Frames) /\ stack \in [1 .. Len(stack) -> Frames]
    BY <1>1, LenProperties DEF IInv, Parsers
  <1> DEFINE n == Len(stack)
             whole == Whole(Top)
             f == WithFill(Top, whole)
             g == WithState(f, "done")
             h == [stack EXCEPT ![n] = g]
  <1>6. stack' = h
    <2>1. stack' = [stack EXCEPT ![n].fill = whole, ![n].state = ReadWhole(@)]
      BY <1>1 DEF Bytes_body
    <2> HIDE DEF whole
    <2>2. QED
      BY <1>4, <1>5, <2>1 DEF ReadWhole, WithFill, WithState, Top
  <1> HIDE DEF whole
  <1>7. f \in Frames /\ SamePlace(f, Top)
    BY <1>3, <1>4, WithFillFrame DEF whole
  <1> HIDE DEF f
  <1>8. g \in Frames /\ SamePlace(g, f) /\ g.state = "done"
    BY <1>7, WithStateFrame DEF States
  <1> HIDE DEF g
  <1>9. SamePlace(g, Top) /\ StateFits(g) /\ Filled(g)
    BY <1>7, <1>8 DEF SamePlace, StateFits, Filled, Reading
  <1>10. /\ stack' \in Seq(Frames)
         /\ Len(stack') = Len(stack)
         /\ stack'[Len(stack)] = g
         /\ \A i \in 1 .. Len(stack) - 1 : stack'[i] = stack[i]
    <2>1. stack' \in [1 .. n -> Frames] /\ n \in Nat
      BY <1>4, <1>5, <1>6, <1>8
    <2>2. \A i \in 1 .. n : stack'[i] = IF i = n THEN g ELSE stack[i]
      BY <1>5, <1>6
    <2>3. n \in Nat \ {0}
      BY <1>4
    <2> HIDE DEF n
    <2>4. stack'[n] = g /\ \A i \in 1 .. n - 1 : stack'[i] = stack[i]
      BY <2>2, <2>3
    <2>5. stack' \in Seq(Frames) /\ Len(stack') = n
      BY <2>1
    <2>6. QED
      BY <2>4, <2>5 DEF n
  <1>11. consumed' \in consumed .. received /\ UNCHANGED <<message, received, rv>>
    BY <1>1, <1>4 DEF Bytes_body
  <1>12. QED
    BY <1>1, <1>3, <1>8, <1>9, <1>10, <1>11, Replaced

\* MOL_CALL_SUBPARSER has a size for every field: the offsets it takes it from were read.
LEMMA FieldSizeIsInt ==
    ASSUME NEW f \in Frames, StateFits(f), f.state = "fields"
    PROVE  FieldSize(f) \in Int
  <1>1. /\ f.type \in Types /\ f.numbers \in Seq(Int) /\ f.field_idx \in Nat /\ f.size \in Int
        /\ Kind(f) \in Nesting
    BY DEF Frames, StateFits
  <1>2. Shape(Schema[f.type])
    BY <1>1, SchemaShape
  <1>3. CASE Kind(f) = "table"
    <2> DEFINE n == Len(Schema[f.type].fields)
    <2>1. n \in Nat \ {0} /\ Len(f.numbers) = n + 1 /\ f.field_idx < n
      BY <1>2, <1>3 DEF Shape, Kind, StateFits, Fields
    <2> HIDE DEF n
    <2>2. /\ f.field_idx + 2 \in 1 .. Len(f.numbers) /\ 1 \in 1 .. Len(f.numbers)
          /\ ~(f.field_idx + 3 > Len(f.numbers)) => f.field_idx + 3 \in 1 .. Len(f.numbers)
      BY <1>1, <2>1, SMTT(30)
    <2>3. /\ f.numbers[f.field_idx + 2] \in Int /\ f.numbers[1] \in Int
          /\ ~(f.field_idx + 3 > Len(f.numbers)) => f.numbers[f.field_idx + 3] \in Int
      BY <1>1, <2>2, ElementOfSeq
    <2> DEFINE next == IF f.field_idx + 3 > Len(f.numbers) THEN f.numbers[1]
                       ELSE f.numbers[f.field_idx + 3]
    <2>4. next \in Int
      BY <2>3
    <2>5. FieldSize(f) = next - f.numbers[f.field_idx + 2]
      BY <1>3 DEF FieldSize
    <2> HIDE DEF next
    <2>6. QED
      BY <2>3, <2>4, <2>5
  <1>4. CASE Kind(f) = "struct"
    <2>1. f.field_idx < Len(Schema[f.type].fields)
      BY <1>4 DEF StateFits, Fields
    <2>2. SubParser(f.type, f.field_idx)[2] \in Sized
      BY <1>1, <1>4, <2>1, SubParserType DEF Kind
    <2>3. QED
      BY <1>4, <2>2, SizedWidths DEF FieldSize
  <1>5. CASE Kind(f) = "fixvec"
    BY <1>2, <1>5 DEF FieldSize, Shape, Kind
  <1>6. CASE Kind(f) = "dynvec"
    BY <1>6 DEF FieldSize, MOL_NUM_MAX
  <1>7. CASE Kind(f) = "option"
    BY <1>1, <1>7 DEF FieldSize
  <1>8. QED
    BY <1>1, <1>3, <1>4, <1>5, <1>6, <1>7 DEF Nesting

\* A parser that begins has read nothing, and wants what its state says.
LEMMA FrameStarts ==
    ASSUME NEW name \in Names, NEW type \in Types, NEW size \in Int, consumed \in Nat,
           NEW bytes, NEW upTo \in Nat, consumed <= upTo
    PROVE  LET f == Frame(name, type, size)
           IN /\ f \in Frames
              /\ FrameInv(f, upTo)
              /\ f.given = <<>> /\ f.begin = consumed /\ f.start = consumed
  <1> DEFINE state == FirstState(type, size)
             f == Frame(name, type, size)
             kind == Schema[type].kind
  <1>1. Shape(Schema[type]) /\ kind \in Kinds
    BY SchemaShape DEF Shape
  <1>2. /\ state \in {"bytes", "total_size", "length", "done", "fields"}
        /\ state = "bytes" => Leaf(type)
        /\ state = "total_size" => kind \in {"table", "dynvec"}
        /\ state = "length" => kind \in {"bytes", "fixvec"}
        /\ state = "fields" => kind \in {"option", "struct"}
    BY <1>1 DEF FirstState, Kinds, Leaf
  <1> HIDE DEF state
  <1>3. <<>> \in Seq(Byte) /\ <<>> \in Seq(Int) /\ 0 \in Nat /\ Len(<<>>) = 0
    OBVIOUS
  <1>4. f = [name |-> name, type |-> type, size |-> size, start |-> consumed, field_idx |-> 0,
             fill |-> <<>>, numbers |-> <<>>, begin |-> consumed, given |-> <<>>,
             state |-> state]
    BY DEF Frame, state
  <1>5. state \in States
    BY <1>2 DEF States
  <1>6. f \in Frames
    BY <1>3, <1>4, <1>5 DEF Frames
  <1>7. /\ f.type = type /\ f.start = consumed /\ f.field_idx = 0 /\ f.fill = <<>>
        /\ f.begin = consumed /\ f.given = <<>> /\ f.state = state
    BY <1>4
  <1> HIDE DEF f
  <1>8. StateFits(f)
    <2>1. state = "fields" => kind = "struct" \/ kind = "option"
      BY <1>2
    <2>2. kind = "struct" => Len(Schema[type].fields) \in Nat \ {0}
      BY <1>1 DEF Shape
    <2>3. Kind(f) = kind /\ Fields(f) = Schema[type].fields /\ Leaf(f.type) = Leaf(type)
      BY <1>7 DEF Kind, Fields
    <2> HIDE DEF kind
    <2>4. CASE state = "fields"
      BY <1>7, <2>1, <2>2, <2>3, <2>4 DEF StateFits, Nesting
    <2>5. CASE state # "fields"
      BY <1>2, <1>7, <2>3, <2>5 DEF StateFits
    <2>6. QED
      BY <2>4, <2>5
  <1>9. Filled(f)
    BY <1>3, <1>7 DEF Filled
  <1>10. FrameInv(f, upTo)
    BY <1>7, <1>8, <1>9 DEF FrameInv
  <1>11. QED
    BY <1>6, <1>7, <1>10 DEF f

\* A sub-parser is called, or refuses its size.
LEMMA CallSubParserStep == IInv /\ CallSubParser => IInv'
  <1>1. SUFFICES ASSUME IInv, CallSubParser PROVE IInv'
    OBVIOUS
  <1>2. rv = "PARSING" /\ stack # <<>> /\ Top.state = "fields"
    BY <1>1 DEF CallSubParser, At
  <1>3. /\ consumed \in Nat /\ received \in Nat /\ consumed <= received
        /\ received <= Len(message.bytes) /\ message.bytes \in Seq(Byte)
    BY <1>1, MessageBytes DEF IInv, Here
  <1>4. /\ stack \in Seq(Frames)
        /\ \A i \in 1 .. Len(stack) : Placed(stack[i], consumed, message.bytes)
        /\ \A i \in 1 .. Len(stack) - 1 : stack[i].state = "fields"
    BY <1>1, <1>2, <1>3, AllPlaced
  <1>5. Len(stack) \in Nat \ {0}
    BY <1>2, <1>4, EmptySeq
  <1>6. Top \in Frames /\ StateFits(Top)
    BY <1>4, <1>5 DEF Top, Placed, FrameInv
  <1> DEFINE sub == SubParser(Top.type, Top.field_idx)
             f == Frame(sub[1], sub[2], FieldSize(Top))
  <1>7. CASE Unwind(stack, consumed, "REJECT", <<>>)
    <2>1. consumed \in consumed .. received
      BY <1>3
    <2>2. QED
      BY <1>1, <1>4, <1>7, <2>1, Unwinds
  <1>8. CASE stack' = Append(stack, f) /\ UNCHANGED <<message, received, consumed, rv, client>>
    <2>1. sub[1] \in Names /\ sub[2] \in Types
      BY <1>2, <1>6, SubParserType DEF StateFits, Frames, Kind, Fields
    <2>2. FieldSize(Top) \in Int
      BY <1>2, <1>6, FieldSizeIsInt
    <2> HIDE DEF sub
    <2>3. /\ f \in Frames /\ FrameInv(f, consumed)
          /\ f.given = <<>> /\ f.begin = consumed /\ f.start = consumed
      BY <1>3, <2>1, <2>2, FrameStarts
    <2> HIDE DEF f
    <2>4. SubSeq(message.bytes, consumed + 1, consumed) = <<>>
      BY <1>3, SubSeqEmpty
    <2>5. Told(f, message.bytes, consumed, "PARSING")
      BY <2>3, <2>4 DEF Told, GivenTo
    <2>6. /\ stack' \in Seq(Frames)
          /\ Len(stack') = Len(stack) + 1
          /\ \A i \in 1 .. Len(stack) : stack'[i] = stack[i]
          /\ stack'[Len(stack) + 1] = f
      BY <1>4, <1>8, <2>3, AppendProperties
    <2>7. Here' /\ IncompleteConsumesAll'
      BY <1>1, <1>2, <1>8 DEF IInv, Here, IncompleteConsumesAll
    <2>8. ASSUME NEW i \in 1 .. Len(stack')
          PROVE  FrameInv(stack'[i], consumed') /\ Told(stack'[i], message'.bytes, consumed', rv')
      <3>1. CASE i = Len(stack) + 1
        BY <1>2, <1>8, <2>3, <2>5, <2>6, <3>1
      <3>2. CASE i \in 1 .. Len(stack)
        BY <1>2, <1>4, <1>8, <2>6, <3>2 DEF Placed
      <3>3. QED
        BY <1>5, <2>6, <3>1, <3>2
    <2>9. ASSUME NEW i \in 1 .. Len(stack') - 1
          PROVE  stack'[i].state = "fields"
      <3>1. i \in 1 .. Len(stack) /\ stack'[i] = stack[i]
        BY <1>5, <2>6
      <3>2. CASE i = Len(stack)
        BY <1>2, <3>1, <3>2 DEF Top
      <3>3. CASE i # Len(stack)
        BY <1>4, <1>5, <3>1, <3>3
      <3>4. QED
        BY <3>2, <3>3
    <2>10. Parsers'
      BY <2>6, <2>8, <2>9 DEF Parsers
    <2>11. QED
      BY <2>7, <2>10 DEF IInv
  <1>9. QED
    BY <1>1, <1>7, <1>8 DEF CallSubParser

\* The caller of a parser that is complete goes on to its next field or item.
LEMMA Continues ==
    ASSUME NEW f \in Frames, StateFits(f), f.state = "fields"
    PROVE  /\ Continued(f) \in Frames /\ SamePlace(Continued(f), f)
           /\ StateFits(Continued(f)) /\ Filled(Continued(f))
  <1> DEFINE next == f.field_idx + 1
             state == IF LastPart(f) THEN "done" ELSE "fields"
             g == WithIndex(f, next)
             h == WithState(g, state)
  <1>1. f.field_idx \in Nat /\ next \in Nat /\ Kind(f) \in Nesting
        /\ state \in {"done", "fields"}
    BY DEF Frames, StateFits
  <1>2. /\ Kind(f) = "table" => Len(f.numbers) = Len(Fields(f)) + 1
        /\ Kind(f) \in {"table", "struct"} =>
             /\ f.field_idx < Len(Fields(f))
             /\ Len(Fields(f)) \in Nat
             /\ state = "fields" => next # Len(Fields(f))
    BY SchemaShape DEF StateFits, LastPart, Fields, Frames, Shape, Kind
  <1>3. Continued(f) = h
    BY Zenon DEF Continued, WithIndex, WithState
  <1>4. Kind(f) \in {"table", "struct"} /\ state = "fields" => next < Len(Fields(f))
    BY <1>1, <1>2
  <1> HIDE DEF next, state
  <1>5. g \in Frames /\ SamePlace(g, f) /\ g.field_idx = next /\ g.numbers = f.numbers
    BY <1>1, WithIndexFrame
  <1> HIDE DEF g
  <1>6. h \in Frames /\ SamePlace(h, g) /\ h.field_idx = next /\ h.numbers = f.numbers
        /\ h.state = state
    BY <1>1, <1>5, WithStateFrame DEF States
  <1> HIDE DEF h
  <1>7. SamePlace(h, f) /\ Kind(h) = Kind(f) /\ Fields(h) = Fields(f)
    BY <1>5, <1>6 DEF SamePlace, Kind, Fields
  <1>8. StateFits(h)
    BY <1>1, <1>2, <1>4, <1>6, <1>7 DEF StateFits
  <1>9. Filled(h)
    BY <1>1, <1>6 DEF Filled, Reading
  <1>10. QED
    BY <1>3, <1>6, <1>7, <1>8, <1>9

\* A parser is done: its caller goes on, or the message is complete.
LEMMA CompleteStep == IInv /\ Complete => IInv'
  <1>1. SUFFICES ASSUME IInv, Complete PROVE IInv'
    OBVIOUS
  <1>2. rv = "PARSING" /\ stack # <<>>
    BY <1>1 DEF Complete, At
  <1>3. consumed \in Nat /\ consumed \in consumed .. received
    BY <1>1, MessageBytes DEF IInv, Here
  <1>4. /\ stack \in Seq(Frames)
        /\ \A i \in 1 .. Len(stack) : Placed(stack[i], consumed, message.bytes)
        /\ \A i \in 1 .. Len(stack) - 1 : stack[i].state = "fields"
    BY <1>1, <1>2, <1>3, AllPlaced
  <1>5. Len(stack) \in Nat \ {0} /\ Top \in Frames
    BY <1>2, <1>4, EmptySeq DEF Top
  <1>6. UNCHANGED <<message, received, consumed>>
    BY <1>1 DEF Complete
  <1> DEFINE below == Front(stack)
             m == Len(below)
             caller == Continued(below[m])
  <1>7. /\ below \in Seq(Frames)
        /\ m = Len(stack) - 1
        /\ \A i \in 1 .. m : below[i] = stack[i]
    BY <1>2, <1>4, <1>5, NewTop
  <1>8. CASE below = <<>> /\ stack' = <<>> /\ rv' = "COMPLETE"
    <2>1. Here' /\ IncompleteConsumesAll'
      BY <1>1, <1>6, <1>8 DEF IInv, Here, IncompleteConsumesAll
    <2>2. Parsers'
      <3>1. stack' \in Seq(Frames) /\ Len(stack') = 0
        BY <1>8, EmptySeq
      <3>2. QED
        BY <3>1 DEF Parsers
    <2>3. QED
      BY <2>1, <2>2 DEF IInv
  <1>9. CASE below # <<>> /\ stack' = Append(Front(below), caller) /\ rv' = rv
    <2>1. Here' /\ IncompleteConsumesAll'
      BY <1>1, <1>2, <1>6, <1>9 DEF IInv, Here, IncompleteConsumesAll
    <2>2. m \in Nat \ {0}
      BY <1>7, <1>9, EmptySeq
    <2> DEFINE f == below[m]
    <2>3. Placed(f, consumed, message.bytes) /\ f.state = "fields"
      BY <1>4, <1>5, <1>7, <2>2
    <2> HIDE DEF f
    <2>4. f \in Frames /\ StateFits(f) /\ FrameInv(f, consumed)
          /\ Told(f, message.bytes, consumed, "PARSING")
      BY <2>3 DEF Placed, FrameInv
    <2>5. /\ caller \in Frames /\ SamePlace(caller, f)
          /\ StateFits(caller) /\ Filled(caller)
      <3>1. caller = Continued(f)
        BY DEF f
      <3>2. QED
        BY <2>3, <2>4, <3>1, Continues
    <2> HIDE DEF caller
    <2>6. FrameInv(caller, consumed) /\ Told(caller, message.bytes, consumed, "PARSING")
      BY <2>4, <2>5 DEF FrameInv, Told, GivenTo, Streamed, SamePlace, Kind
    <2> HIDE DEF below
    <2>7. /\ stack' \in Seq(Frames)
          /\ Len(stack') = m
          /\ stack'[m] = caller
          /\ \A i \in 1 .. m - 1 : stack'[i] = below[i]
      BY <1>7, <1>9, <2>5, NewTop
    <2> HIDE DEF m
    <2>8. ASSUME NEW i \in 1 .. Len(stack')
          PROVE  FrameInv(stack'[i], consumed') /\ Told(stack'[i], message'.bytes, consumed', rv')
      <3>1. CASE i = m
        BY <1>2, <1>6, <1>9, <2>6, <2>7, <3>1
      <3>2. CASE i # m
        <4>1. i \in 1 .. m - 1
          BY <2>2, <2>7, <3>2
        <4>2. i \in 1 .. Len(stack) /\ stack'[i] = stack[i]
          BY <1>5, <1>7, <2>2, <2>7, <4>1
        <4>3. QED
          BY <1>2, <1>4, <1>6, <1>9, <4>2 DEF Placed
      <3>3. QED
        BY <3>1, <3>2
    <2>9. ASSUME NEW i \in 1 .. Len(stack') - 1
          PROVE  stack'[i].state = "fields"
      <3>1. i \in 1 .. m - 1 /\ i \in 1 .. m
        BY <2>2, <2>7
      <3>2. stack'[i] = stack[i]
        BY <1>7, <2>7, <3>1
      <3>3. i \in 1 .. Len(stack) - 1
        BY <1>5, <1>7, <2>2, <3>1
      <3>4. QED
        BY <1>4, <3>2, <3>3
    <2>10. Parsers'
      BY <2>7, <2>8, <2>9 DEF Parsers
    <2>11. QED
      BY <2>1, <2>10 DEF IInv
  <1>10. QED
    BY <1>1, <1>8, <1>9 DEF Complete

-------------------------------------------------------------------------------
(* The theorems.                                                           *)

\* Before the first packet.
LEMMA Begins == Init => IInv
  <1>1. SUFFICES ASSUME Init PROVE IInv
    OBVIOUS
  <1>2. message \in Messages /\ received = 0 /\ consumed = 0 /\ rv = "INCOMPLETE"
    BY <1>1 DEF Init
  <1>3. message.bytes \in Seq(Byte) /\ message.type \in Types
    BY <1>2, MessagesAssumption
  <1>4. Here /\ IncompleteConsumesAll
    BY <1>2, <1>3, LenProperties DEF Here, IncompleteConsumesAll
  <1> DEFINE f == Frame("root", message.type, MOL_NUM_MAX)
  <1>5. /\ f \in Frames /\ FrameInv(f, consumed)
        /\ f.given = <<>> /\ f.begin = consumed /\ f.start = consumed
    <2>1. "root" \in Names /\ MOL_NUM_MAX \in Int /\ consumed \in Nat
      BY <1>2 DEF Names, MOL_NUM_MAX
    <2>2. QED
      BY <1>3, <2>1, FrameStarts
  <1>6. stack = <<f>>
    BY <1>1 DEF Init
  <1> HIDE DEF f
  <1>7. Told(f, message.bytes, consumed, rv)
    <2>1. SubSeq(message.bytes, 1, 0) = <<>>
      BY <1>3, SubSeqEmpty
    <2>2. QED
      BY <1>2, <1>5, <2>1 DEF Told, GivenTo
  <1>8. stack \in Seq(Frames) /\ Len(stack) = 1 /\ stack[1] = f
    BY <1>5, <1>6
  <1>9. Parsers
    BY <1>5, <1>7, <1>8 DEF Parsers
  <1>10. QED
    BY <1>4, <1>9 DEF IInv

\* Every step keeps the parsers in their places.
LEMMA Steps == IInv /\ [Next]_vars => IInv'
  <1>1. IInv /\ UNCHANGED vars => IInv'
    BY DEF vars, IInv, Here, Parsers, IncompleteConsumesAll
  <1>2. IInv /\ Parse => IInv'
    BY IncompleteStep, TableSizeStep, TableOffsetStep, DynVecSizeStep, DynVecOffsetStep,
       LengthStep, BodyStep, CallSubParserStep, CompleteStep DEF Parse
  <1>3. QED
    BY <1>1, <1>2, PacketStep DEF Next

\* The parsers are always in their places.
THEOREM ParsersInPlace == Spec => []IInv
  BY Begins, Steps, PTL DEF Spec

\* A parser never reads past its packet, whatever sizes and offsets the
\* encoding pretends to have.
THEOREM TypeCorrect == Spec => []TypeOK
  <1>1. IInv => TypeOK
    <2>1. SUFFICES ASSUME IInv PROVE TypeOK
      OBVIOUS
    <2>2. stack \in Seq(Frames) /\ DOMAIN stack = 1 .. Len(stack)
      BY <2>1, LenProperties DEF IInv, Parsers
    <2>3. ASSUME NEW i \in DOMAIN stack
          PROVE  /\ stack[i].type \in Types
                 /\ stack[i].begin \in 0 .. stack[i].start
                 /\ stack[i].start \in 0 .. consumed
      <3>1. stack[i] \in Frames /\ FrameInv(stack[i], consumed)
        BY <2>1, <2>2 DEF IInv, Parsers
      <3>2. consumed \in Nat
        BY <2>1, MessageBytes DEF IInv, Here
      <3>3. QED
        BY <3>1, <3>2 DEF Frames, FrameInv
    <2>4. QED
      BY <2>1, <2>3 DEF TypeOK, IInv, Here
  <1>2. QED
    BY <1>1, ParsersInPlace, PTL

\* handle_apdu may forget a packet that was answered with INCOMPLETE.
THEOREM NothingLeftOfPacket == Spec => []IncompleteConsumesAll
  <1>1. IInv => IncompleteConsumesAll
    BY DEF IInv
  <1>2. QED
    BY <1>1, ParsersInPlace, PTL

\* The chunk callbacks, which hash the transaction, are given every byte once.
THEOREM EveryByteGiven == Spec => []ChunksGapless
  <1>1. IInv => ChunksGapless
    <2>1. SUFFICES ASSUME IInv, rv \in {"PARSING", "INCOMPLETE"}, NEW i \in DOMAIN stack,
                          ~Leaf(stack[i].type) /\ Kind(stack[i]) # "bytes"
                   PROVE  stack[i].given =
                            Between(stack[i].begin,
                                    IF rv = "INCOMPLETE" THEN consumed ELSE stack[i].start)
      BY DEF ChunksGapless
    <2>2. stack \in Seq(Frames) /\ DOMAIN stack = 1 .. Len(stack)
      BY <2>1, LenProperties DEF IInv, Parsers
    <2>3. Told(stack[i], message.bytes, consumed, rv)
      BY <2>1, <2>2 DEF IInv, Parsers
    <2>4. QED
      BY <2>1, <2>3 DEF Told, GivenTo, Streamed, Between
  <1>2. QED
    BY <1>1, ParsersInPlace, PTL

===============================================================================
