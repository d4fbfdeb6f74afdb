----------------------------- MODULE MoleculeReader -----------------------------
(***************************************************************************)
(* The streaming parsers of molecule_reader_streaming.h, blockchain.h and   *)
(* annotated.h: mol_parse_bytes, the macros MOL_CALL_NUM,                   *)
(* MOL_CALL_SUBPARSER and MOL_INIT_SUBPARSER, and the parse functions       *)
(* generated for each shape of type in MoleculeSchema.                      *)
(*                                                                          *)
(* A parser is called once per packet and must go on where the previous     *)
(* packet ended.  The nested states (the unions u of the state structs) are *)
(* a stack of frames here; a step is what a parser does between two reads,  *)
(* calls or returns.  The functions of the client (hashing, review) are     *)
(* called back in the same step; Callback says what they do with their      *)
(* state.                                                                   *)
(***************************************************************************)
EXTENDS MoleculeSchema, MoleculeEncoding

CONSTANTS
    Messages,        \* what the host may send: [type, bytes]
    PacketSizes,     \* data bytes of a packet
    client_init,     \* the state of the client before the first callback,
    Callback(_, _),  \* what a callback makes of it,
    Accepts(_, _)    \* and the answer of a size callback

ASSUME MessagesAssumption ==
    \A m \in Messages : m.type \in Types /\ m.bytes \in Seq(Byte)
ASSUME PacketSizesAssumption == PacketSizes \subseteq Nat

VARIABLES
    message,   \* what the host sends
    received,  \* bytes of it in the packets so far
    consumed,  \* bytes of it the parsers have consumed
    rv,        \* mol_rv of the last call, or "PARSING" during one
    stack,     \* the frames of the nested parsers, outermost first
    client     \* the state the callbacks work on

vars == <<message, received, consumed, rv, stack, client>>

-------------------------------------------------------------------------------
MOL_NUM_MAX == -1

\* Where a parser begins that is called with a size; an option of no size is done.
FirstState(type, size) ==
    LET kind == Schema[type].kind
    IN IF Leaf(type) THEN "bytes"
       ELSE IF kind \in {"table", "dynvec"} THEN "total_size"
       ELSE IF kind \in {"bytes", "fixvec"} THEN "length"
       ELSE IF kind = "option" /\ size = 0 THEN "done"
       ELSE "fields"

\* One parser: name is the field of the state above it, size the argument it is
\* called with, start its start_idx, fill what it has copied of the number or
\* of the bytes it reads, numbers the total size (or length) and the offsets.
\* History: begin is where it began, given what its chunk callback was given.
Frame(name, type, size) ==
    [name |-> name, type |-> type, size |-> size, start |-> consumed, field_idx |-> 0,
     fill |-> <<>>, numbers |-> <<>>, begin |-> consumed, given |-> <<>>,
     state |-> FirstState(type, size)]

Top == stack[Len(stack)]
Kind(f) == Schema[f.type].kind

\* The fields that lead to the innermost of some frames.
Path(frames) == [i \in 1 .. Len(frames) - 1 |-> frames[i + 1].name]

Call(function, path, argument) == [call |-> function, path |-> path, arg |-> argument]

StartCalls(path, type) ==
    [i \in DOMAIN Starts[type] |-> Call("start", path \o Starts[type][i], <<>>)]

Run(calls) == client' = FoldLeft(Callback, client, calls)

Between(from, to) == SubSeq(message.bytes, from + 1, to)

-------------------------------------------------------------------------------
(***************************************************************************)
(* Reading: mol_parse_bytes copies what there is of what is needed.         *)
(***************************************************************************)
Reading(f) == f.state \in {"bytes", "body", "total_size", "length", "offsets"}

\* The bytes the innermost parser reads before it goes on; below zero it is an
\* unsigned number no message reaches.
Wanted(f) ==
    IF f.state = "bytes" THEN Schema[f.type].width
    ELSE IF f.state = "body" THEN f.numbers[1]
    ELSE 4

Enough_OneLess(f) == 0 <= Wanted(f) /\ Wanted(f) - Len(f.fill) <= received - consumed + 1
Enough(f) == 0 <= Wanted(f) /\ Wanted(f) - Len(f.fill) <= received - consumed

After(f) == consumed + Wanted(f) - Len(f.fill)
Whole(f) == f.fill \o Between(consumed, After(f))

At(state) == rv = "PARSING" /\ stack # <<>> /\ Top.state = state
ReadAt(state) == At(state) /\ Enough(Top)

\* The bytes of a Bytes go to its body_chunk callback as they come in.
BodyCalls(f, to) ==
    IF f.state = "body" /\ Wanted(f) # Len(f.fill)
    THEN <<Call("body_chunk", Path(stack), Between(consumed, to))>>
    ELSE <<>>

-------------------------------------------------------------------------------
(***************************************************************************)
(* Returning without COMPLETE: every parser on the way out, the innermost   *)
(* first, gives its chunk callback what was consumed in this call.  A leaf  *)
(* has no such callback, and a Bytes in its body returns at once.           *)
(***************************************************************************)
GivesChunk_NotOfOffsets(f) == ~Leaf(f.type) /\ f.state \notin {"body", "offsets"}
GivesChunk(f) == ~Leaf(f.type) /\ f.state # "body"

Given(f, to) == [f EXCEPT !.given = @ \o Between(f.start, to)]

ChunkCall(frames, to) ==
    IF GivesChunk(frames[Len(frames)])
    THEN <<Call("chunk", Path(frames), Between(frames[Len(frames)].start, to))>>
    ELSE <<>>

ChunkCalls(frames, to) ==
    FlattenSeq([i \in DOMAIN frames |-> ChunkCall(SubSeq(frames, 1, Len(frames) + 1 - i), to)])

Unwind(frames, to, result, calls) ==
    /\ stack' = [i \in DOMAIN frames |->
                    IF GivesChunk(frames[i]) THEN Given(frames[i], to) ELSE frames[i]]
    /\ consumed' = to
    /\ rv' = result
    /\ Run(calls \o ChunkCalls(frames, to))
    /\ UNCHANGED <<message, received>>

\* return REJECT of the innermost parser, after the calls it made.
Reject(calls) == Unwind(Front(stack), After(Top), "REJECT", calls)

\* The innermost parser goes on behind what it has read.
GoOn(f, calls) ==
    /\ stack' = Append(Front(stack), [f EXCEPT !.fill = <<>>])
    /\ consumed' = After(Top)
    /\ Run(calls)
    /\ UNCHANGED <<message, received, rv>>

-------------------------------------------------------------------------------
\* start_idx is a local variable; what was read of a number is in the state.
Resumed_Anew(f) == [f EXCEPT !.start = consumed, !.fill = <<>>]
Resumed(f) == [f EXCEPT !.start = consumed]

\* handle_apdu calls the parser with the next packet.
Packet(n) ==
    /\ rv = "INCOMPLETE"
    /\ received < Len(message.bytes)
    /\ received' = IF n < Len(message.bytes) - received THEN received + n
                   ELSE Len(message.bytes)
    /\ rv' = "PARSING"
    /\ stack' = [i \in DOMAIN stack |-> Resumed(stack[i])]
    /\ UNCHANGED <<message, consumed, client>>

\* mol_parse_bytes takes what there is.
WhatThereIs_Uncounted == consumed
WhatThereIs == received

\* The packet ends in what the innermost parser reads.
Incomplete ==
    /\ rv = "PARSING"
    /\ stack # <<>>
    /\ Reading(Top)
    /\ ~Enough(Top)
    /\ Unwind([stack EXCEPT ![Len(stack)].fill = @ \o Between(consumed, received)],
              WhatThereIs, "INCOMPLETE", BodyCalls(Top, received))

\* case 0 of a table.
TableSize ==
    /\ ReadAt("total_size")
    /\ Kind(Top) = "table"
    /\ LET total_size == Num(Whole(Top))
       IN IF Top.size \in {MOL_NUM_MAX, total_size}
          THEN GoOn([Top EXCEPT !.numbers = <<total_size>>, !.state = "offsets"], <<>>)
          ELSE Reject(<<>>)

\* case 1 of a table.
TableOffset ==
    /\ ReadAt("offsets")
    /\ Kind(Top) = "table"
    /\ LET f == [Top EXCEPT !.numbers = Append(@, Num(Whole(Top)))]
           first == SubParser(f.type, 0)
       IN IF Len(f.numbers) <= Len(Schema[f.type].fields)
          THEN GoOn(f, <<>>)
          ELSE GoOn([f EXCEPT !.state = "fields"],
                    StartCalls(Append(Path(stack), first[1]), first[2])
                      \o <<Call("offsets", Path(stack), f.numbers)>>)

\* case 0 of a dynvec; a total size of 4 is an empty vector, whatever the size.
DynVecSize ==
    /\ ReadAt("total_size")
    /\ Kind(Top) = "dynvec"
    /\ LET total_size == Num(Whole(Top))
           size == Call("size", Path(stack), <<total_size>>)
           f == [Top EXCEPT !.numbers = <<total_size>>]
       IN IF ~Accepts(client, size) THEN Reject(<<size>>)
          ELSE IF total_size = 4 THEN GoOn([f EXCEPT !.state = "done"], <<size>>)
          ELSE IF Top.size \notin {MOL_NUM_MAX, total_size} THEN Reject(<<size>>)
          ELSE GoOn([f EXCEPT !.state = "offsets"], <<size>>)

\* (first_offset >> 2) - 1, the number of items; MOL_NUM_MAX when it wraps.
Items(first_offset) ==
    first_offset \div 4 - 1 + IF first_offset < 0 THEN 1073741824 ELSE 0

\* field_idx < items, unsigned.
More_Inclusive(field_idx, items) == items < 0 \/ field_idx <= items
More(field_idx, items) == items < 0 \/ field_idx < items

\* case 1 and the loop of case 2 of a dynvec: the first offset is kept, the
\* others only counted.
DynVecOffset ==
    /\ ReadAt("offsets")
    /\ Kind(Top) = "dynvec"
    /\ LET first == Len(Top.numbers) = 1
           numbers == IF first THEN Append(Top.numbers, Num(Whole(Top))) ELSE Top.numbers
           items == Items(numbers[2])
           f == [Top EXCEPT !.numbers = numbers, !.field_idx = @ + 1]
           item == SubParser(f.type, 0)
       IN IF More(f.field_idx, items) THEN GoOn(f, <<>>)
          ELSE GoOn([f EXCEPT !.field_idx = 0,
                              !.state = IF More(0, items) THEN "fields" ELSE "done"],
                    StartCalls(Append(Path(stack), item[1]), item[2])
                      \o <<Call("length", Path(stack), <<items>>), Call("index", Path(stack), <<0>>)>>)

\* length * width + 4 as __builtin_mul_overflow and __builtin_add_overflow
\* compute it: the upper half of 32 bits, above 2^16 when either overflows, and
\* the lower.
UpperHalf(length, width) ==
    ((length \div 65536) % 65536) * width + ((length % 65536) * width + 4) \div 65536
LowerHalf(length, width) == ((length % 65536) * width + 4) % 65536

Overflows(length, width) == UpperHalf(length, width) >= 65536
InBytes(length, width) ==
    65536 * (UpperHalf(length, width) - IF UpperHalf(length, width) >= 32768 THEN 65536 ELSE 0)
      + LowerHalf(length, width)

\* The length of a Bytes or a fixvec.
Length ==
    /\ ReadAt("length")
    /\ LET length == Num(Whole(Top))
           width == Schema[Top.type].width
           size == Call("size", Path(stack), <<InBytes(length, width)>>)
           f == [Top EXCEPT !.numbers = <<length>>]
           item == SubParser(f.type, 0)
       IN IF Overflows(length, width) \/ Top.size \notin {MOL_NUM_MAX, InBytes(length, width)}
          THEN Reject(<<>>)
          ELSE IF ~Accepts(client, size) THEN Reject(<<size>>)
          ELSE IF Kind(Top) = "bytes" THEN GoOn([f EXCEPT !.state = "body"], <<size>>)
          ELSE GoOn([f EXCEPT !.state = IF More(0, length) THEN "fields" ELSE "done"],
                    <<size>> \o StartCalls(Append(Path(stack), item[1]), item[2])
                      \o <<Call("index", Path(stack), <<0>>)>>)

\* The state of a leaf or of a Bytes that has the rest of its bytes.
ReadWhole_Stays(state) == state
ReadWhole(state) == "done"

Bytes_body ==
    /\ \E state \in {"bytes", "body"} : ReadAt(state)
    /\ stack' = [stack EXCEPT ![Len(stack)].fill = Whole(Top), ![Len(stack)].state = ReadWhole(@)]
    /\ consumed' = After(Top)
    /\ Run(BodyCalls(Top, After(Top)))
    /\ UNCHANGED <<message, received, rv>>

-------------------------------------------------------------------------------
(***************************************************************************)
(* MOL_CALL_SUBPARSER: the size of a field is the difference of its offset  *)
(* and the next one, the size of an item is known or not looked at.         *)
(***************************************************************************)
FieldSize(f) ==
    IF Kind(f) = "table"
    THEN (IF f.field_idx + 3 > Len(f.numbers) THEN f.numbers[1] ELSE f.numbers[f.field_idx + 3])
           - f.numbers[f.field_idx + 2]
    ELSE IF Kind(f) = "struct" THEN Schema[SubParser(f.type, f.field_idx)[2]].width
    ELSE IF Kind(f) = "fixvec" THEN Schema[f.type].width
    ELSE IF Kind(f) = "dynvec" THEN MOL_NUM_MAX
    ELSE f.size

\* byte_parse takes a size of one only, a struct its own or none; the other
\* leaves do not look at it.
Refuses(type, size) ==
    \/ Schema[type].kind = "byte" /\ size # 1
    \/ Schema[type].kind = "struct" /\ size \notin {Schema[type].width, MOL_NUM_MAX}

CallSubParser ==
    /\ At("fields")
    /\ LET sub == SubParser(Top.type, Top.field_idx)
       IN IF Refuses(sub[2], FieldSize(Top))
          THEN Unwind(stack, consumed, "REJECT", <<>>)
          ELSE /\ stack' = Append(stack, Frame(sub[1], sub[2], FieldSize(Top)))
               /\ UNCHANGED <<message, received, consumed, rv, client>>

\* The last field of a table or struct, the last item.
LastPart(f) ==
    IF Kind(f) \in {"table", "struct"} THEN f.field_idx + 1 = Len(Schema[f.type].fields)
    ELSE IF Kind(f) = "option" THEN TRUE
    ELSE ~More(f.field_idx + 1, IF Kind(f) = "fixvec" THEN f.numbers[1] ELSE Items(f.numbers[2]))

\* What a parser does when its sub-parser is complete: the next field or item
\* is initialised, the index of an item is told, also behind the last one.
Continued(f) ==
    [f EXCEPT !.field_idx = @ + 1, !.state = IF LastPart(f) THEN "done" ELSE "fields"]

ContinueCalls(frames, f) ==
    LET sub == SubParser(f.type, f.field_idx)
        starts == StartCalls(Append(Path(frames), sub[1]), sub[2])
    IN IF Kind(f) \in {"fixvec", "dynvec"}
       THEN starts \o <<Call("index", Path(frames), <<f.field_idx>>)>>
       ELSE IF f.state = "done" THEN <<>> ELSE starts

\* DONE(): the rest to the chunk callback, the end callback, return COMPLETE.
\* A leaf passes its bytes to the end callback; those of the others are history.
Complete ==
    /\ At("done")
    /\ LET f == IF Leaf(Top.type) THEN Top ELSE Given(Top, consumed)
           end == Call("end", Path(stack), IF Leaf(f.type) \/ Kind(f) = "bytes"
                                           THEN f.fill ELSE f.given)
           below == Front(stack)
           caller == Continued(below[Len(below)])
       IN IF below = <<>>
          THEN /\ stack' = <<>>
               /\ rv' = "COMPLETE"
               /\ Run(ChunkCall(stack, consumed) \o <<end>>)
          ELSE /\ stack' = Append(Front(below), caller)
               /\ rv' = rv
               /\ Run(ChunkCall(stack, consumed) \o <<end>> \o ContinueCalls(below, caller))
    /\ UNCHANGED <<message, received, consumed>>

-------------------------------------------------------------------------------
Init ==
    /\ message \in Messages
    /\ received = 0
    /\ consumed = 0
    /\ rv = "INCOMPLETE"
    /\ stack = <<Frame("root", message.type, MOL_NUM_MAX)>>
    /\ client = FoldLeft(Callback, client_init, StartCalls(<<>>, message.type))

Parse ==
    \/ Incomplete
    \/ TableSize
    \/ TableOffset
    \/ DynVecSize
    \/ DynVecOffset
    \/ Length
    \/ Bytes_body
    \/ CallSubParser
    \/ Complete

Next == Parse \/ \E n \in PacketSizes : Packet(n)

\* The parsers run within the handling of a packet; the host need not send one.
Spec == Init /\ [][Next]_vars /\ WF_vars(Parse)

-------------------------------------------------------------------------------
TypeOK ==
    /\ message \in Messages
    /\ received \in 0 .. Len(message.bytes)
    /\ consumed \in 0 .. received
    /\ rv \in {"PARSING", "INCOMPLETE", "COMPLETE", "REJECT"}
    /\ \A i \in DOMAIN stack :
         /\ stack[i].type \in Types
         /\ stack[i].begin \in 0 .. stack[i].start
         /\ stack[i].start \in 0 .. consumed

\* A packet answered with INCOMPLETE was consumed to its last byte: handle_apdu
\* does not look at what may be left of it.
IncompleteConsumesAll == rv = "INCOMPLETE" => consumed = received

\* The chunk callbacks hash what streams by.  Whatever the message and however
\* it is cut, what the callback of a parser was given is, byte for byte, what
\* the parser had passed over before this call; between two packets that is
\* everything from its begin.  Excepted is a Bytes, whose body has a callback
\* of its own.
ChunksGapless ==
    rv \in {"PARSING", "INCOMPLETE"} =>
        \A i \in DOMAIN stack :
            ~Leaf(stack[i].type) /\ Kind(stack[i]) # "bytes" =>
                stack[i].given =
                    Between(stack[i].begin, IF rv = "INCOMPLETE" THEN consumed ELSE stack[i].start)

\* The call of the parser returns, also on an encoding that makes no sense.
Answers == rv = "PARSING" ~> rv # "PARSING"
===============================================================================
