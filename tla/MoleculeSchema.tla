----------------------------- MODULE MoleculeSchema -----------------------------
(***************************************************************************)
(* The types of blockchain.h and annotated.h.  Each MolReader_<type>_parse  *)
(* is generated from the shape of its type; a definition here is that shape *)
(* and MoleculeReader is what the generated functions of a shape do.        *)
(*                                                                          *)
(* "byte" and "fixed" are leaves; "bytes" and "fixvec" have a length in     *)
(* front, "dynvec" and "table" a total size and offsets; "struct" is its    *)
(* fields one behind the other; "option" is its item or nothing.  A field   *)
(* is <<name, type>>.                                                       *)
(***************************************************************************)
EXTENDS Integers, SequencesExt

CONSTANT HashWidth  \* bytes of a Byte32 or a Uint256, 32

ASSUME HashWidthAssumption == HashWidth \in Nat \ {0}

Fixed(width) == [kind |-> "fixed", width |-> width]
FixVec(item, width) == [kind |-> "fixvec", item |-> item, width |-> width]
DynVec(item) == [kind |-> "dynvec", item |-> item]
Option(item) == [kind |-> "option", item |-> item]
Table(fields) == [kind |-> "table", fields |-> fields]
Struct(fields, width) == [kind |-> "struct", fields |-> fields, width |-> width]

-------------------------------------------------------------------------------
byte_parse == [kind |-> "byte", width |-> 1]
Uint32_parse == Fixed(4)
Uint64_parse == Fixed(8)
Uint128_parse == Fixed(16)
Byte32_parse == Fixed(HashWidth)
Uint256_parse == Fixed(HashWidth)
Bytes_parse == [kind |-> "bytes", width |-> 1]
BytesOpt_parse == Option("Bytes")
BytesVec_parse == DynVec("Bytes")
Byte32Vec_parse == FixVec("Byte32", HashWidth)
Script_parse ==
    Table(<< <<"code_hash", "Byte32">>, <<"hash_type", "byte">>, <<"args", "Bytes">> >>)
ScriptOpt_parse == Option("Script")

OutPointWidth == HashWidth + 4
OutPoint_parse == Struct(<< <<"tx_hash", "Byte32">>, <<"index", "Uint32">> >>, OutPointWidth)

CellInputWidth == 8 + OutPointWidth
CellInput_parse ==
    Struct(<< <<"since", "Uint64">>, <<"previous_output", "OutPoint">> >>, CellInputWidth)
CellInputVec_parse == FixVec("CellInput", CellInputWidth)

CellOutput_parse ==
    Table(<< <<"capacity", "Uint64">>, <<"lock", "Script">>, <<"type_", "ScriptOpt">> >>)
CellOutputVec_parse == DynVec("CellOutput")

CellDepWidth == OutPointWidth + 1
CellDep_parse == Struct(<< <<"out_point", "OutPoint">>, <<"dep_type", "byte">> >>, CellDepWidth)
CellDepVec_parse == FixVec("CellDep", CellDepWidth)

RawTransaction_parse ==
    Table(<< <<"version", "Uint32">>, <<"cell_deps", "CellDepVec">>,
             <<"header_deps", "Byte32Vec">>, <<"inputs", "CellInputVec">>,
             <<"outputs", "CellOutputVec">>, <<"outputs_data", "BytesVec">> >>)

Transaction_parse == Table(<< <<"raw", "RawTransaction">>, <<"witnesses", "BytesVec">> >>)

WitnessArgs_parse ==
    Table(<< <<"lock", "BytesOpt">>, <<"input_type", "BytesOpt">>,
             <<"output_type", "BytesOpt">> >>)

AnnotatedCellInput_parse ==
    Table(<< <<"input", "CellInput">>, <<"source", "RawTransaction">> >>)
AnnotatedCellInputVec_parse == DynVec("AnnotatedCellInput")

AnnotatedRawTransaction_parse ==
    Table(<< <<"version", "Uint32">>, <<"cell_deps", "CellDepVec">>,
             <<"header_deps", "Byte32Vec">>, <<"inputs", "AnnotatedCellInputVec">>,
             <<"outputs", "CellOutputVec">>, <<"outputs_data", "BytesVec">> >>)

Bip32_parse == FixVec("Uint32", 4)

AnnotatedTransaction_parse ==
    Table(<< <<"signPath", "Bip32">>, <<"changePath", "Bip32">>, <<"inputCount", "Uint32">>,
             <<"raw", "AnnotatedRawTransaction">>, <<"witnesses", "BytesVec">> >>)

-------------------------------------------------------------------------------
Schema ==
    [byte |-> byte_parse, Uint32 |-> Uint32_parse, Uint64 |-> Uint64_parse,
     Uint128 |-> Uint128_parse, Byte32 |-> Byte32_parse, Uint256 |-> Uint256_parse,
     Bytes |-> Bytes_parse, BytesOpt |-> BytesOpt_parse,
     BytesVec |-> BytesVec_parse, Byte32Vec |-> Byte32Vec_parse, Script |-> Script_parse,
     ScriptOpt |-> ScriptOpt_parse, OutPoint |-> OutPoint_parse,
     CellInput |-> CellInput_parse, CellInputVec |-> CellInputVec_parse,
     CellOutput |-> CellOutput_parse, CellOutputVec |-> CellOutputVec_parse,
     CellDep |-> CellDep_parse, CellDepVec |-> CellDepVec_parse,
     RawTransaction |-> RawTransaction_parse, Transaction |-> Transaction_parse,
     WitnessArgs |-> WitnessArgs_parse,
     AnnotatedCellInput |-> AnnotatedCellInput_parse,
     AnnotatedCellInputVec |-> AnnotatedCellInputVec_parse,
     AnnotatedRawTransaction |-> AnnotatedRawTransaction_parse,
     Bip32 |-> Bip32_parse, AnnotatedTransaction |-> AnnotatedTransaction_parse]

Types == DOMAIN Schema

\* The leaves, whose init has no start callback and whose parser no chunk callback.
Leaf(type) == Schema[type].kind \in {"byte", "fixed"}

\* <<name, type>> of the sub-parser called for a field of a table or struct, or
\* for an item.
SubParser(type, field_idx) ==
    IF Schema[type].kind \in {"table", "struct"}
    THEN Schema[type].fields[field_idx + 1]
    ELSE <<"item", Schema[type].item>>

\* MolReader_<type>_init_state calls the start callback, and the init of a
\* struct or an option that of its first sub-parser as well: the paths, below
\* the parser that is initialised, of the start callbacks in the order called.
Starts[type \in Types] ==
    IF Leaf(type) THEN <<>>
    ELSE IF Schema[type].kind \in {"struct", "option"}
    THEN LET sub == SubParser(type, 0)
         IN << <<>> >> \o [i \in DOMAIN Starts[sub[2]] |-> <<sub[1]>> \o Starts[sub[2]][i]]
    ELSE << <<>> >>
===============================================================================
