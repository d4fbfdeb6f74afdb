--------------------------- MODULE MCMoleculeReader ---------------------------
(***************************************************************************)
(* Small encodings for MoleculeReader, whole ones and broken ones, cut into *)
(* packets in every way.  The client writes down the calls it gets.  When   *)
(* the reading has ended, the same bytes are read once more in one packet.  *)
(***************************************************************************)
EXTENDS MoleculeReader, MoleculeValues

\* Small values of the types: every shape, empty and not.
out_point == << <<1, 2>>, <<0, 0, 0, 7>> >>
cell_input == << <<1, 2, 3, 4, 5, 6, 7, 8>>, out_point >>
script == << <<3, 4>>, <<1>>, <<5, 6>> >>

Args == <<"WitnessArgs", << <<>>, << <<9, 8>> >>, << <<>> >> >> >>
Datas == <<"BytesVec", << <<1>>, <<2, 3>> >> >>
Deps == <<"CellDepVec", << <<out_point, <<1>> >> >> >>
Outputs == <<"CellOutputVec", << << <<1, 0, 0, 0, 0, 0, 0, 0>>, script, <<script>> >> >> >>

Samples ==
    { Args, Deps,
      <<"Byte32Vec", << >> >>,
      <<"CellInput", cell_input>>,
      <<"BytesVec", << <<1>>, <<>>, <<2, 3, 4>> >> >>,
      <<"BytesVec", <<>> >>,
      <<"CellOutputVec", << << <<1, 0, 0, 0, 0, 0, 0, 0>>, script, <<script>> >>,
                             << <<2, 0, 0, 0, 0, 0, 0, 0>>, script, <<>> >> >> >> }

Sample(s) == [type |-> s[1], bytes |-> Encode(s[1], s[2]), calls |-> AllCalls(s[1], s[2])]

WellFormed == { Sample(s) : s \in Samples }

\* Encodings with the number at an offset replaced, and one cut short.
Malformed(type, bytes) == [type |-> type, calls |-> <<>>, bytes |-> bytes]
Broken(s, offsets, numbers) ==
    LET bytes == Encode(s[1], s[2])
    IN { Malformed(s[1], SubSeq(bytes, 1, offset) \o LE4(n) \o SubSeq(bytes, offset + 5, Len(bytes))) :
            offset \in offsets, n \in numbers }
CutShort(s, n) == Malformed(s[1], SubSeq(Encode(s[1], s[2]), 1, n))

MalformedMessages ==
    Broken(Args, {0, 4, 8, 12, 16}, {-1, 0, 15, 16, 22})
      \union Broken(Datas, {0, 4, 8, 12}, {-1, 0, 3, 4, 8, 17})
      \union Broken(Deps, {0}, {-1, 0, 2, 613566757})
      \union Broken(Outputs, {8, 12, 16, 20, 32, 36, 40, 44}, {-1, 0, 4, 24})
      \union { CutShort(Args, 18), CutShort(Datas, 13), CutShort(Deps, 5) }

SampleMessages == WellFormed \union MalformedMessages

\* The calls, but for the pieces: they come with the end of their parser.
Trace(calls, call) ==
    IF call.call \in {"chunk", "body_chunk"} THEN calls ELSE Append(calls, call)

NoCalls == <<>>

Always(calls, call) == TRUE

-------------------------------------------------------------------------------
VARIABLE first  \* the outcome of the first reading, NotYet before

NotYet == [rv |-> "NOT YET", consumed |-> 0, calls |-> <<>>]

Ended == rv # "PARSING" /\ (rv # "INCOMPLETE" \/ received = Len(message.bytes))

Outcome == [rv |-> rv, consumed |-> consumed, calls |-> client]

Again ==
    /\ Ended
    /\ first = NotYet
    /\ first' = Outcome
    /\ received' = 0
    /\ consumed' = 0
    /\ rv' = "INCOMPLETE"
    /\ stack' = <<[Frame("root", message.type, MOL_NUM_MAX) EXCEPT !.begin = 0, !.start = 0]>>
    /\ client' = FoldLeft(Callback, client_init, StartCalls(<<>>, message.type))
    /\ UNCHANGED message

MCInit == Init /\ first = NotYet

MCNext ==
    \/ first = NotYet /\ Next /\ UNCHANGED first
    \/ Again
    \/ first # NotYet /\ (Parse \/ Packet(Len(message.bytes))) /\ UNCHANGED first

MCSpec == MCInit /\ [][MCNext]_<<vars, first>> /\ WF_vars(Parse /\ UNCHANGED first)

-------------------------------------------------------------------------------
\* A well-formed encoding is never rejected; when its last byte is in, it is
\* complete, and the client has been called exactly as for the value encoded:
\* no number, item or byte is lost, repeated or given to another callback
\* because a packet ended in it.
ReadsWhatWasWritten ==
    message.calls # <<>> =>
      /\ rv # "REJECT"
      /\ Ended => rv = "COMPLETE"
      /\ rv = "COMPLETE" => consumed = Len(message.bytes) /\ client = message.calls

\* The same bytes in one packet end in the same verdict, after the same bytes
\* and the same calls, whether they are well-formed or not.
CutsDoNotMatter == (first # NotYet /\ Ended) => Outcome = first
===============================================================================
