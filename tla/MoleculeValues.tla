----------------------------- MODULE MoleculeValues -----------------------------
(***************************************************************************)
(* The reference for MoleculeReader: the encoding of a value of a type, and *)
(* the callbacks a client may expect while the value is read, both by       *)
(* recursion on the type and neither knowing of packets.                    *)
(*                                                                          *)
(* The value of a leaf or of a Bytes is its bytes; of an option, a          *)
(* sequence of at most one value; of the other types, the sequence of the   *)
(* values of their fields or items.                                         *)
(***************************************************************************)
EXTENDS MoleculeSchema, MoleculeEncoding

\* A header of total size and offsets in front of the parts.
WithOffsets(parts) ==
    LET WithOffset(offsets, part) == Append(offsets, offsets[Len(offsets)] + Len(part))
        offsets == FoldLeft(WithOffset, <<4 * (Len(parts) + 1)>>, parts)
        total_size == offsets[Len(offsets)]
    IN FlattenSeq([i \in 1 .. Len(parts) + 1 |-> LE4(IF i = 1 THEN total_size ELSE offsets[i - 1])])
         \o FlattenSeq(parts)

RECURSIVE Encode(_, _)
Encode(type, value) ==
    LET upTo[i \in 0 .. Len(value)] ==
            IF i = 0 THEN <<>>
            ELSE Append(upTo[i - 1], Encode(SubParser(type, i - 1)[2], value[i]))
        parts == upTo[Len(value)]
    IN CASE Leaf(type) -> value
         [] Schema[type].kind = "bytes" -> LE4(Len(value)) \o value
         [] Schema[type].kind = "fixvec" -> LE4(Len(value)) \o FlattenSeq(parts)
         [] Schema[type].kind \in {"table", "dynvec"} -> WithOffsets(parts)
         [] OTHER -> FlattenSeq(parts)

Told(function, path, argument) == [call |-> function, path |-> path, arg |-> argument]

TellStarts(path, sub) ==
    [i \in DOMAIN Starts[sub[2]] |-> Told("start", path \o <<sub[1]>> \o Starts[sub[2]][i], <<>>)]

\* The numbers in front of an encoding.
Header(type, value) ==
    [i \in 1 .. Len(value) + 1 |-> NumAt(Encode(type, value), 4 * (i - 1))]

\* The calls while a value is read, without its own start, which is called when
\* the parser is initialised, and without the pieces of chunk and body_chunk.
\* An item is initialised in advance, so the start callbacks of an item are
\* called once more behind the last one, as is the index callback.
RECURSIVE CallsOf(_, _, _)
CallsOf(path, type, value) ==
    LET kind == Schema[type].kind
        Sub(i) == SubParser(type, i - 1)
        CallsOfPart(i) == CallsOf(Append(path, Sub(i)[1]), Sub(i)[2], value[i])
        CallsOfField(i) ==
            CallsOfPart(i) \o IF i = Len(value) THEN <<>> ELSE TellStarts(path, Sub(i + 1))
        CallsOfItem(i) ==
            CallsOfPart(i) \o TellStarts(path, Sub(i)) \o <<Told("index", path, <<i>>)>>
        fields == FlattenSeq([i \in DOMAIN value |-> CallsOfField(i)])
        items == TellStarts(path, Sub(1))
                   \o (IF kind = "dynvec" THEN <<Told("length", path, <<Len(value)>>)>> ELSE <<>>)
                   \o <<Told("index", path, <<0>>)>>
                   \o FlattenSeq([i \in DOMAIN value |-> CallsOfItem(i)])
        size == <<Told("size", path, <<Len(Encode(type, value))>>)>>
        end == <<Told("end", path, IF kind = "bytes" THEN value ELSE Encode(type, value))>>
    IN CASE Leaf(type) -> end
         [] kind = "bytes" -> size \o end
         [] kind = "fixvec" -> size \o items \o end
         [] kind = "dynvec" -> size \o (IF value = <<>> THEN <<>> ELSE items) \o end
         [] kind = "table" ->
              TellStarts(path, Sub(1)) \o <<Told("offsets", path, Header(type, value))>>
                \o fields \o end
         [] OTHER -> fields \o end

\* All the calls, beginning with those of the init function of the type.
AllCalls(type, value) ==
    [i \in DOMAIN Starts[type] |-> Told("start", Starts[type][i], <<>>)]
      \o CallsOf(<<>>, type, value)
===============================================================================
