------------------------ MODULE SignTransactionProofs ------------------------
(***************************************************************************)
(* Proofs about SignTransaction, for every value of its constants: type    *)
(* correctness, the accounting of the output table, and that the internal  *)
(* errors of output_end and outputs_end cannot happen.                     *)
(*                                                                         *)
(* TypeOK is not inductive: that the prompts of sign_complete are defined  *)
(* depends on the tag, and that the output table stays within its bounds   *)
(* and adds up depends on the flags.  IInv adds what is known of the tag   *)
(* and the flags by the position of the parser.                            *)
(***************************************************************************)
EXTENDS SignTransaction, TLAPS

Before == {"none", "source", "source_data"}

(* No output has been seen before the outputs.                             *)
FlagsWait == at.vec \in Before => maybe_transaction.flags = {}

(* is_self_transfer is decided at the end of the outputs.                  *)
SelfLate == at.vec = "outputs" => ~utx.is_self_transfer

(* The tags finalize_raw_transaction distinguishes, and those it leaves.   *)
Pending == {"NOT_SET", "MULTI_OUTPUT_TRANSFER", "DAO_DEPOSIT", "DAO_PREPARE", "DAO_WITHDRAW"}
Settled == {"PLAIN_TRANSFER", "SELF_TRANSFER", "MULTI_OUTPUT_TRANSFER", "MULTI_INPUT_TRANSFER",
            "DAO_DEPOSIT", "DAO_PREPARE", "DAO_WITHDRAW"}
TagKnown ==
    at.vec # "end" =>
        IF at.cb \in {"witnesses", "last_chunk"}
        THEN maybe_transaction.unsafe \/ maybe_transaction.tag \in Settled
        ELSE maybe_transaction.tag \in Pending

Ledger == OutputTableAddsUp /\ FlagsWait /\ SelfLate /\ TagKnown /\ NoInternalError
IInv == TypeOK /\ Ledger

-----------------------------------------------------------------------------
(* Arithmetic on machine words.                                            *)

LEMMA WordClosed ==
    ASSUME NEW x \in Word, NEW y \in Word
    PROVE  Add(x, y) \in Word /\ Minus(x, y) \in Word /\ Negated(x) \in Word
  BY WordAssumption, SMT DEF Word, Add, Minus, Negated

LEMMA AddZero == 0 \in Word /\ \A x \in Word : Add(x, 0) = x /\ Add(0, x) = x
  BY WordAssumption, SMT DEF Word, Add

LEMMA AddSwap ==
    ASSUME NEW x \in Word, NEW y \in Word, NEW z \in Word
    PROVE  Add(Add(x, y), z) = Add(Add(x, z), y) /\ Add(Add(x, y), z) = Add(x, Add(y, z))
  BY WordAssumption, SMT DEF Word, Add

-----------------------------------------------------------------------------
(* Reading the transaction.                                                *)

LEMMA CellRead ==
    ASSUME tx \in AnnotatedTransaction, PositionOK, at.j < Len(CellsRead),
           at.vec \in {"source", "source_data", "outputs", "outputs_data"}
    PROVE  cell \in Cell
  <1>1. CASE at.vec \in {"source", "source_data"}
    <2>1. at.i < Len(tx.inputs) /\ at.i \in Nat /\ at.j \in Nat
      BY <1>1 DEF PositionOK, AtSource, AtSourceData, InputHere
    <2>2. tx.inputs \in Seq(AnnotatedInput)
      BY DEF AnnotatedTransaction, NonEmptySeq
    <2>3. tx.inputs[at.i + 1] \in AnnotatedInput
      BY <2>1, <2>2
    <2>4. CellsRead \in Seq(Cell)
      BY <1>1, <2>3 DEF CellsRead, AnnotatedInput, NonEmptySeq
    <2> QED BY <2>1, <2>4 DEF cell
  <1>2. CASE at.vec \in {"outputs", "outputs_data"}
    <2>1. CellsRead \in Seq(Cell)
      BY <1>2 DEF CellsRead, AnnotatedTransaction, NonEmptySeq
    <2> QED BY <2>1 DEF cell, PositionOK
  <1> QED BY <1>1, <1>2

LEMMA IndexRead ==
    ASSUME tx \in AnnotatedTransaction, PositionOK, at.cb = "input_save_index"
    PROVE  tx.inputs[at.i + 1].index \in Nat
  <1>1. at.i < Len(tx.inputs) /\ at.i \in Nat
    BY DEF PositionOK, Vectors, AtInputs, AtSource, AtSourceData, AtOutputs, AtOutputsData, InputHere,
       HeadCallbacks, InputCallbacks, CellCallbacks, TypeCallbacks, SourceCallbacks, DataCallbacks
  <1>2. tx.inputs \in Seq(AnnotatedInput)
    BY DEF AnnotatedTransaction, NonEmptySeq
  <1>3. tx.inputs[at.i + 1] \in AnnotatedInput
    BY <1>1, <1>2
  <1> QED BY <1>3 DEF AnnotatedInput

LEMMA CellFields ==
    ASSUME NEW c \in Cell
    PROVE  /\ c.capacity \in Word
           /\ c.lock.args \in LockArg
           /\ c.data.size \in Nat /\ c.data.nonzero \in BOOLEAN
           /\ c.lock.code_hash \in {"default", "multisig", "other"}
  BY DEF Cell, LockScript, CellData, LockArg, StandardLockArg

-----------------------------------------------------------------------------
(* The position of the parser.                                             *)

LEMMA Lengths ==
    ASSUME NEW t \in AnnotatedTransaction
    PROVE  /\ Len(t.inputs) \in Nat \ {0} /\ Len(t.outputs) \in Nat \ {0} /\ Len(t.outputs) <= MAX_CELLS
           /\ \A i \in Nat : i < Len(t.inputs) => Len(t.inputs[i + 1].source) \in Nat \ {0}
  <1>1. t.inputs \in Seq(AnnotatedInput) /\ t.outputs \in Seq(Cell)
        /\ Len(t.inputs) \in 1 .. MAX_INPUTS /\ Len(t.outputs) \in 1 .. MAX_CELLS
    BY DEF AnnotatedTransaction, NonEmptySeq
  <1>2. ASSUME NEW i \in Nat, i < Len(t.inputs)
        PROVE  Len(t.inputs[i + 1].source) \in Nat \ {0}
    <2>1. t.inputs[i + 1] \in AnnotatedInput
      BY <1>1, <1>2
    <2>2. Len(t.inputs[i + 1].source) \in 1 .. MAX_CELLS
      BY <2>1 DEF AnnotatedInput, NonEmptySeq
    <2> QED BY <2>2, SizeAssumption
  <1> QED BY <1>1, <1>2, SizeAssumption

(* Where Follow leads, by the vector the parser is in.                     *)
Onward ==
    /\ PositionOK'
    /\ at.vec # "end" /\ at.cb # "last_chunk" /\ at'.vec # "end"
    /\ at'.vec \in Before => at.vec \in Before
    /\ at'.vec = "outputs" => at.vec = "outputs" \/ at.cb = "finish_inputs"
    /\ at.cb = "outputs_end" => at'.vec = "outputs_data"
    /\ at'.cb \in {"witnesses", "last_chunk"} <=> at.cb \in {"finalize_raw_transaction", "witnesses"}

LEMMA Shape ==
    ASSUME at \in [vec: Vectors, cb: Callbacks, i: Nat, j: Nat], Follow
    PROVE  at' \in [vec: Vectors, cb: Callbacks, i: Nat, j: Nat]
  <1> USE DEF Position, To, Enter, NextItem, Vectors, Callbacks,
         HeadCallbacks, InputCallbacks, CellCallbacks, TypeCallbacks, SourceCallbacks, DataCallbacks
  <1>1. CASE Straight
    BY <1>1 DEF Straight, Then
  <1>2. CASE FollowInputs
    BY <1>2 DEF FollowInputs
  <1>3. CASE FollowVectors
    BY <1>3 DEF FollowVectors
  <1>4. CASE FollowCell
    BY <1>4 DEF FollowCell, CellEnd, LockEnd
  <1> QED BY <1>1, <1>2, <1>3, <1>4 DEF Follow

LEMMA Advance ==
    ASSUME tx \in AnnotatedTransaction, PositionOK, tx' = tx, Follow
    PROVE  Onward
  <1> USE DEF Position, To, Enter, NextItem
  <1>1. at \in [vec: Vectors, cb: Callbacks, i: Nat, j: Nat]
    BY DEF PositionOK
  <1>2. at' \in [vec: Vectors, cb: Callbacks, i: Nat, j: Nat]
    BY <1>1, Shape
  <1>3. Len(tx.inputs) \in Nat \ {0} /\ Len(tx.outputs) \in Nat \ {0}
    BY Lengths
  <1>4. at'.vec = at.vec /\ at'.i = at.i =>
            /\ CellsRead' = CellsRead
            /\ at'.j = at.j => cell' = cell
    BY DEF CellsRead, cell
  <1>5. /\ InputHere \/ ~InSource => Len(CellsRead) \in Nat
        /\ InputHere' \/ ~InSource' => Len(CellsRead') \in Nat
    BY <1>1, <1>2, Lengths DEF CellsRead, InSource, InputHere
  <1>6. CASE at.vec = "none"
    <2>1. AtInputs
      BY <1>6 DEF PositionOK
    <2>2. \/ at.cb # "finish_inputs" /\ at'.vec = "none" /\ AtInputs'
          \/ at'.vec = "source" /\ at'.cb = "input_context_start_idx" /\ at'.i = at.i /\ at'.j = 0 /\ InputHere
          \/ at.cb = "finish_inputs" /\ at'.vec = "outputs" /\ at'.cb = "output_start" /\ at'.j = 0
      BY <1>1, <1>3, <1>6, <2>1
      DEF AtInputs, HeadCallbacks, InputCallbacks, InputHere,
          Follow, Straight, Then, FollowInputs, FollowVectors, FollowCell
    <2> QED
      BY <1>1, <1>3, <1>6, <2>1, <2>2, <1>5, <1>2
      DEF Onward, PositionOK, Before, MoreItems, AtSource, InputHere, AtInputs, HeadCallbacks, InputCallbacks, AtOutputs
  <1>7. CASE at.vec = "source"
    <2>1. AtSource /\ InSource
      BY <1>7 DEF PositionOK, InSource
    <2>2. \/ at'.vec = "source" /\ AtSource'
          \/ at'.vec = "source_data" /\ at'.cb = "input_context_start_idx" /\ at'.i = at.i /\ at'.j = 0 /\ InputHere
      BY <1>1, <1>3, <1>4, <1>5, <1>7, <2>1
      DEF AtSource, CellCallbacks, SourceCallbacks, TypeCallbacks, InputHere, MoreItems, CellEnd, LockEnd, HasType,
          Follow, Straight, Then, FollowInputs, FollowVectors, FollowCell
    <2> QED
      BY <1>1, <1>3, <1>7, <2>1, <2>2, <1>5, <1>2
      DEF Onward, PositionOK, Before, MoreItems, AtSource, AtSourceData, InputHere, CellCallbacks, SourceCallbacks, TypeCallbacks
  <1>8. CASE at.vec = "source_data"
    <2>1. AtSourceData /\ InSource
      BY <1>8 DEF PositionOK, InSource
    <2>2. \/ at'.vec = "source_data" /\ AtSourceData'
          \/ at'.vec = "none" /\ at'.cb = "input_start" /\ at'.i = at.i + 1 /\ at'.j = 0 /\ InputHere
      BY <1>1, <1>3, <1>4, <1>5, <1>8, <2>1
      DEF AtSourceData, DataCallbacks, InputHere, MoreItems,
          Follow, Straight, Then, FollowInputs, FollowVectors, FollowCell
    <2> QED
      BY <1>1, <1>3, <1>8, <2>1, <2>2, <1>5, <1>2
      DEF Onward, PositionOK, Before, MoreItems, AtSourceData, AtInputs, InputHere, DataCallbacks
  <1>9. CASE at.vec = "outputs"
    <2>1. AtOutputs /\ ~InSource
      BY <1>9 DEF PositionOK, InSource
    <2>2. \/ at'.vec = "outputs" /\ AtOutputs' /\ at.cb # "outputs_end"
          \/ at'.vec = "outputs_data" /\ at'.cb = "validate_output_data_start" /\ at'.j = 0
      BY <1>1, <1>3, <1>4, <1>5, <1>9, <2>1
      DEF AtOutputs, CellCallbacks, TypeCallbacks, MoreItems, CellEnd, LockEnd, HasType,
          Follow, Straight, Then, FollowInputs, FollowVectors, FollowCell
    <2> QED
      BY <1>1, <1>3, <1>9, <2>1, <2>2, <1>5, <1>2
      DEF Onward, PositionOK, Before, MoreItems, AtOutputs, AtOutputsData, CellCallbacks, TypeCallbacks
  <1>10. CASE at.vec = "outputs_data"
    <2>1. AtOutputsData /\ ~InSource
      BY <1>10 DEF PositionOK, InSource
    <2>2. /\ at'.vec = "outputs_data" /\ AtOutputsData' /\ at.cb # "last_chunk"
          /\ at'.cb \in {"witnesses", "last_chunk"} <=> at.cb \in {"finalize_raw_transaction", "witnesses"}
      BY <1>1, <1>3, <1>4, <1>5, <1>10, <2>1
      DEF AtOutputsData, DataCallbacks, MoreItems,
          Follow, Straight, Then, FollowInputs, FollowVectors, FollowCell
    <2> QED
      BY <1>1, <1>3, <1>10, <2>1, <2>2, <1>5, <1>2
      DEF Onward, PositionOK, Before, MoreItems, AtOutputsData, DataCallbacks
  <1>11. CASE at.vec = "end"
    BY <1>11 DEF PositionOK, Follow, Straight, Then, FollowInputs, FollowVectors, FollowCell
  <1> QED BY <1>1, <1>6, <1>7, <1>8, <1>9, <1>10, <1>11 DEF Vectors

-----------------------------------------------------------------------------
(* Most callbacks leave the output table and the flags alone, and the tag  *)
(* too or among those that finalize_raw_transaction distinguishes.         *)

TagStays == maybe_transaction'.tag = maybe_transaction.tag
            /\ (maybe_transaction.unsafe => maybe_transaction'.unsafe)
TagJoins == maybe_transaction'.tag \in Pending /\ at.cb # "witnesses"

LEMMA Parsed ==
    ASSUME IInv, Follow, UNCHANGED <<env, ui>>, FieldsOK', OutputTableAddsUp',
           at.cb \notin {"finish_inputs", "finalize_raw_transaction"},
           utx'.is_self_transfer = utx.is_self_transfer \/ at.cb = "outputs_end",
           maybe_transaction'.flags = maybe_transaction.flags \/ at.vec = "outputs",
           TagStays \/ TagJoins
    PROVE  IInv'
  <1>1. Onward
    BY Advance DEF IInv, TypeOK, env
  <1>2. TypeOK'
    BY <1>1 DEF Onward, IInv, TypeOK, env, ui
  <1>3. NoInternalError'
    BY DEF IInv, Ledger, NoInternalError, ui
  <1>4. FlagsWait'
    BY <1>1 DEF Onward, IInv, Ledger, FlagsWait, Before
  <1>5. SelfLate'
    BY <1>1 DEF Onward, IInv, Ledger, SelfLate
  <1>6. TagKnown'
    BY <1>1 DEF Onward, IInv, Ledger, TagKnown, TagStays, TagJoins
  <1> QED BY <1>2, <1>3, <1>4, <1>5, <1>6 DEF IInv, Ledger

LEMMA Quiet ==
    ASSUME IInv, Follow, UNCHANGED <<env, ui, utx>>, FieldsOK',
           at.cb \notin {"finish_inputs", "finalize_raw_transaction"},
           maybe_transaction'.flags = maybe_transaction.flags, TagStays \/ TagJoins
    PROVE  IInv'
  <1>1. OutputTableAddsUp'
    BY DEF IInv, Ledger, OutputTableAddsUp, HasFlag
  <1> QED BY <1>1, Parsed

LEMMA Ending ==
    ASSUME IInv, at' \in {Refused, Review}, UNCHANGED <<env, utx>>,
           reply' \in Reply, NoInternalError', screen' \in Screen, FieldsOK',
           maybe_transaction'.flags = maybe_transaction.flags
    PROVE  IInv'
  <1>1. PositionOK' /\ at'.vec = "end"
    BY DEF PositionOK, Refused, Review, Position, Vectors, Callbacks
  <1>2. TypeOK'
    BY <1>1 DEF IInv, TypeOK, env
  <1>3. OutputTableAddsUp'
    BY DEF IInv, Ledger, OutputTableAddsUp, HasFlag
  <1>4. FlagsWait' /\ SelfLate' /\ TagKnown'
    BY <1>1 DEF FlagsWait, SelfLate, TagKnown, Before
  <1> QED BY <1>2, <1>3, <1>4 DEF IInv, Ledger

LEMMA PrologueStep ==
    ASSUME IInv, Prologue
    PROVE  IInv'
  <1>1. ASSUME set_sign_path PROVE IInv'
    <2>1. tx.signPath \in StandardLockArg
      BY DEF IInv, TypeOK, AnnotatedTransaction, StandardLockArg
    <2>2. FieldsOK'
      BY <1>1, <2>1 DEF set_sign_path, IInv, TypeOK, FieldsOK, perCell
    <2> QED BY <1>1, <2>2, Quiet DEF set_sign_path, Parse, TagStays
  <1>2. ASSUME set_change_path PROVE IInv'
    <2>1. tx.changePath \in StandardLockArg
      BY DEF IInv, TypeOK, AnnotatedTransaction, StandardLockArg
    <2>2. FieldsOK'
      BY <1>2, <2>1 DEF set_change_path, IInv, TypeOK, FieldsOK, perCell
    <2> QED BY <1>2, <2>2, Quiet DEF set_change_path, Parse, TagStays
  <1>3. ASSUME init_bip32_rejects PROVE IInv'
    <2>1. FieldsOK'
      BY <1>3 DEF init_bip32_rejects, RejectHard, IInv, TypeOK, FieldsOK, perCell, MaybeTransaction
    <2> QED
      BY <1>3, <2>1, Ending
      DEF init_bip32_rejects, RejectHard, IInv, TypeOK, FieldsOK, MaybeTransaction, Reply, NoInternalError
  <1>4. ASSUME set_input_count PROVE IInv'
    <2>1. tx.inputCount \in Nat
      BY DEF IInv, TypeOK, AnnotatedTransaction
    <2>2. FieldsOK'
      BY <1>4, <2>1 DEF set_input_count, IInv, TypeOK, FieldsOK, perCell, Sums
    <2> QED BY <1>4, <2>2, Quiet DEF set_input_count, Parse, TagStays
  <1>5. ASSUME computeNewOffsetsToHash PROVE IInv'
    <2>1. FieldsOK'
      BY <1>5 DEF computeNewOffsetsToHash, IInv, TypeOK, FieldsOK, perCell
    <2> QED BY <1>5, <2>1, Quiet DEF computeNewOffsetsToHash, Parse, TagStays
  <1>6. ASSUME blake2b_chunk PROVE IInv'
    <2>1. FieldsOK'
      BY <1>6 DEF blake2b_chunk, IInv, TypeOK, FieldsOK, perCell
    <2> QED BY <1>6, <2>1, Quiet DEF blake2b_chunk, Parse, TagStays
  <1> QED BY <1>1, <1>2, <1>3, <1>4, <1>5, <1>6 DEF Prologue

LEMMA ContextHash ==
    /\ <<>> \in Seq({"source"} \X Nat)
    /\ \A s \in Seq({"source"} \X Nat), n \in Nat : Append(s, <<"source", n>>) \in Seq({"source"} \X Nat)
  OBVIOUS

LEMMA ZeroesOK ==
    /\ ZeroMaybeTransaction \in MaybeTransaction /\ ZeroCellState \in CellState
    /\ NoKey \in [current: StandardLockArg, change: StandardLockArg]
    /\ ZeroHash \in StandardLockArg /\ ZeroLockArg \in LockArg
    /\ ZeroInp \in Inp /\ ZeroSums \in Sums /\ ZeroUTx \in UTx
  <1> USE AddZero, PeriodAssumption DEF StandardLockArg
  <1>1. ZeroMaybeTransaction \in MaybeTransaction
    BY DEF ZeroMaybeTransaction, MaybeTransaction, Tag, Flag
  <1>2. ZeroCellState \in CellState
    BY DEF ZeroCellState, CellState
  <1>3. ZeroLockArg \in LockArg
    BY DEF ZeroLockArg, LockArg
  <1>4. ZeroInp \in Inp
    BY ContextHash DEF ZeroInp, Inp
  <1>5. ZeroSums \in Sums
    BY DEF ZeroSums, Sums
  <1>6. ZeroUTx \in UTx
    BY <1>3, SizeAssumption DEF ZeroUTx, UTx, ZeroOutput, Output, Slot, MAX_OUTPUTS
  <1> QED BY <1>1, <1>2, <1>3, <1>4, <1>5, <1>6 DEF NoKey

LEMMA InputsStep ==
    ASSUME IInv, Inputs
    PROVE  IInv'
  <1>1. ASSUME inputs_start PROVE IInv'
    <2>1. FieldsOK'
      BY <1>1 DEF inputs_start, IInv, TypeOK, FieldsOK, perCell, Inp, StandardLockArg
    <2> QED BY <1>1, <2>1, Quiet DEF inputs_start, Parse, TagStays
  <1>2. ASSUME input_start PROVE IInv'
    <2>1. [inp EXCEPT !.index = 0, !.context_hash = <<>>] \in Inp
      BY ContextHash DEF IInv, TypeOK, FieldsOK, Inp
    <2>2. FieldsOK'
      BY <1>2, <2>1, ZeroesOK DEF input_start, IInv, TypeOK, FieldsOK
    <2> QED BY <1>2, <2>2, Quiet DEF input_start, Parse, TagStays
  <1>3. ASSUME blake2b_input_count PROVE IInv'
    <2>1. FieldsOK'
      BY <1>3 DEF blake2b_input_count, IInv, TypeOK, FieldsOK, perCell, RejectHard, MaybeTransaction
    <2> QED BY <1>3, <2>1, Quiet DEF blake2b_input_count, Parse, RejectHard, IInv, TypeOK, FieldsOK, MaybeTransaction, TagStays
  <1>4. ASSUME input_save_index PROVE IInv'
    <2>1. tx.inputs[at.i + 1].index \in Nat
      BY <1>4, IndexRead DEF input_save_index, Parse, IInv, TypeOK, PositionOK
    <2>2. FieldsOK'
      BY <1>4, <2>1 DEF input_save_index, IInv, TypeOK, FieldsOK, perCell, Inp
    <2> QED BY <1>4, <2>2, Quiet DEF input_save_index, Parse, TagStays
  <1>5. ASSUME input_context_start_idx PROVE IInv'
    <2>1. FieldsOK'
      BY <1>5 DEF input_context_start_idx, IInv, TypeOK, FieldsOK, perCell, CellState
    <2> QED BY <1>5, <2>1, Quiet DEF input_context_start_idx, Parse, TagStays
  <1>6. ASSUME context_blake2b_chunk PROVE IInv'
    <2>1. at.i + 1 \in Nat
      BY DEF IInv, TypeOK, PositionOK
    <2>2. FieldsOK'
      BY <1>6, <2>1, ContextHash DEF context_blake2b_chunk, IInv, TypeOK, FieldsOK, perCell, Inp
    <2> QED BY <1>6, <2>2, Quiet DEF context_blake2b_chunk, Parse, TagStays
  <1>7. ASSUME finish_context_txn PROVE IInv'
    <2>1. FieldsOK'
      BY <1>7, ContextHash DEF finish_context_txn, IInv, TypeOK, FieldsOK, perCell, Inp
    <2> QED BY <1>7, <2>1, Quiet DEF finish_context_txn, Parse, TagStays
  <1>8. ASSUME finish_inputs PROVE IInv'
    <2>1. FieldsOK'
      BY <1>8, ZeroesOK DEF finish_inputs, IInv, TypeOK, FieldsOK, perCell
    <2>2. Onward
      BY <1>8, Advance DEF finish_inputs, Parse, IInv, TypeOK, env
    <2>3. maybe_transaction.flags = {} /\ maybe_transaction.tag \in Pending
      BY <1>8, <2>2 DEF finish_inputs, Parse, IInv, TypeOK, PositionOK, Vectors, Ledger, FlagsWait, TagKnown, Before, Onward,
         AtOutputs, AtOutputsData, AtSource, AtSourceData,
         CellCallbacks, TypeCallbacks, SourceCallbacks, DataCallbacks
    <2>4. OutputTableAddsUp'
      BY <1>8, <2>3, AddZero
      DEF finish_inputs, OutputTableAddsUp, HasFlag, ZeroUTx, ZeroOutput, Slot, MAX_OUTPUTS
    <2>5. SelfLate' /\ FlagsWait' /\ TagKnown' /\ NoInternalError'
      BY <1>8, <2>2, <2>3 DEF finish_inputs, Parse, ui, SelfLate, FlagsWait, TagKnown, NoInternalError, ZeroUTx,
         Onward, IInv, Ledger
    <2>6. TypeOK'
      BY <1>8, <2>1, <2>2 DEF finish_inputs, Parse, env, ui, Onward, IInv, TypeOK
    <2> QED BY <2>4, <2>5, <2>6 DEF IInv, Ledger
  <1> QED BY <1>1, <1>2, <1>3, <1>4, <1>5, <1>6, <1>7, <1>8 DEF Inputs

-----------------------------------------------------------------------------
(* Cells.                                                                  *)

LEMMA CellNow ==
    ASSUME IInv, at.cb \in CellCallbacks \cup TypeCallbacks \cup SourceCallbacks \cup DataCallbacks
    PROVE  /\ cell \in Cell
           /\ cell.capacity \in Word
           /\ cell.lock.args \in LockArg
           /\ cell.data.size \in Nat /\ cell.data.nonzero \in BOOLEAN
  <1>1. at.vec \in {"source", "source_data", "outputs", "outputs_data"} /\ MoreItems
    BY DEF IInv, TypeOK, PositionOK, Vectors, AtInputs, AtSource, AtSourceData, AtOutputs, AtOutputsData,
       HeadCallbacks, InputCallbacks, CellCallbacks, TypeCallbacks, SourceCallbacks, DataCallbacks
  <1>2. cell \in Cell
    BY <1>1, CellRead DEF IInv, TypeOK, MoreItems
  <1> QED BY <1>2, CellFields

LEMMA CellScriptsStep ==
    ASSUME IInv, CellScripts
    PROVE  IInv'
  <1>1. ASSUME cell_capacity PROVE IInv'
    <2>1. cell.capacity \in Word /\ cell.lock.args \in LockArg
      BY <1>1, CellNow DEF cell_capacity, ParseActive, Parse, CellCallbacks
    <2>2. FieldsOK'
      BY <1>1, <2>1 DEF cell_capacity, IInv, TypeOK, FieldsOK, perCell, CellState
    <2> QED BY <1>1, <2>2, Quiet DEF cell_capacity, Parse, ParseActive, TagStays
  <1>2. ASSUME cell_lock_code_hash PROVE IInv'
    <2>1. FieldsOK'
      BY <1>2 DEF cell_lock_code_hash, IInv, TypeOK, FieldsOK, perCell, CellState, RejectUnlessAllowed, RejectIf, MaybeTransaction
    <2> QED BY <1>2, <2>1, Quiet DEF cell_lock_code_hash, Parse, ParseActive, RejectUnlessAllowed, RejectIf, MaybeTransaction, IInv, TypeOK, FieldsOK, TagStays
  <1>3. ASSUME cell_script_hash_type PROVE IInv'
    <2>1. FieldsOK'
      BY <1>3 DEF cell_script_hash_type, IInv, TypeOK, FieldsOK, perCell, RejectUnlessAllowed, RejectIf, MaybeTransaction
    <2> QED BY <1>3, <2>1, Quiet DEF cell_script_hash_type, Parse, ParseActive, RejectUnlessAllowed, RejectIf, MaybeTransaction, IInv, TypeOK, FieldsOK, TagStays
  <1>4. ASSUME script_arg_start_input PROVE IInv'
    <2>1. FieldsOK'
      BY <1>4 DEF script_arg_start_input, IInv, TypeOK, FieldsOK, perCell, CellState
    <2> QED BY <1>4, <2>1, Quiet DEF script_arg_start_input, Parse, ParseActive, TagStays
  <1>5. ASSUME script_arg_chunk PROVE IInv'
    <2>1. cell.capacity \in Word /\ cell.lock.args \in LockArg
      BY <1>5, CellNow DEF script_arg_chunk, ParseActive, Parse, CellCallbacks
    <2>2. FieldsOK'
      BY <1>5, <2>1 DEF script_arg_chunk, IInv, TypeOK, FieldsOK, perCell, CellState
    <2> QED BY <1>5, <2>2, Quiet DEF script_arg_chunk, Parse, ParseActive, TagStays
  <1>6. ASSUME input_lock_arg_end PROVE IInv'
    <2> DEFINE count == sums.distinct_input_sources + 1
    <2>1. count \in Nat /\ lock_arg_tmp.hash \in StandardLockArg
      BY DEF IInv, TypeOK, FieldsOK, Sums, LockArg
    <2>2. sums' \in Sums
      BY <1>6, <2>1 DEF input_lock_arg_end, IInv, TypeOK, FieldsOK, Sums
    <2>3. maybe_transaction' \in MaybeTransaction
      BY <1>6, <2>1 DEF input_lock_arg_end, Reject, IInv, TypeOK, FieldsOK, MaybeTransaction
    <2>4. inp' \in Inp
      BY <1>6, <2>1 DEF input_lock_arg_end, IInv, TypeOK, FieldsOK, Inp
    <2>5. FieldsOK'
      BY <1>6, <2>2, <2>3, <2>4 DEF input_lock_arg_end, IInv, TypeOK, FieldsOK, perCell
    <2> QED BY <1>6, <2>5, Quiet DEF input_lock_arg_end, Parse, ParseActive, Reject, IInv, TypeOK, FieldsOK, MaybeTransaction, TagStays
  <1>7. ASSUME cell_type_code_hash PROVE IInv'
    <2>1. FieldsOK'
      BY <1>7 DEF cell_type_code_hash, IInv, TypeOK, FieldsOK, perCell, CellState, RejectUnlessAllowed, RejectIf, MaybeTransaction
    <2> QED BY <1>7, <2>1, Quiet DEF cell_type_code_hash, Parse, ParseActive, RejectUnlessAllowed, RejectIf, MaybeTransaction, IInv, TypeOK, FieldsOK, TagStays
  <1>8. ASSUME cell_type_arg_length PROVE IInv'
    <2>1. FieldsOK'
      BY <1>8 DEF cell_type_arg_length, IInv, TypeOK, FieldsOK, perCell, RejectIf, MaybeTransaction
    <2> QED BY <1>8, <2>1, Quiet DEF cell_type_arg_length, Parse, ParseActive, RejectIf, IInv, TypeOK, FieldsOK, MaybeTransaction, TagStays
  <1> QED BY <1>1, <1>2, <1>3, <1>4, <1>5, <1>6, <1>7, <1>8 DEF CellScripts

LEMMA CellsDataStep ==
    ASSUME IInv, CellsData
    PROVE  IInv'
  <1>1. ASSUME set_cell_data_size PROVE IInv'
    <2>1. cell.data.size \in Nat
      BY <1>1, CellNow DEF set_cell_data_size, Parse, DataCallbacks
    <2>2. FieldsOK'
      BY <1>1, <2>1 DEF set_cell_data_size, IInv, TypeOK, FieldsOK, perCell, CellState
    <2> QED BY <1>1, <2>2, Quiet DEF set_cell_data_size, Parse, TagStays
  <1>2. ASSUME check_cell_data_data_chunk PROVE IInv'
    <2>1. FieldsOK'
      BY <1>2 DEF check_cell_data_data_chunk, IInv, TypeOK, FieldsOK, perCell, CellState
    <2> QED BY <1>2, <2>1, Quiet DEF check_cell_data_data_chunk, Parse, ParseActive, TagStays
  <1>3. ASSUME finish_input_cell_data_dao PROVE IInv'
    <2>1. Add(sums.dao_input_amount, cell_state.capacity) \in Word
      BY WordClosed DEF IInv, TypeOK, FieldsOK, Sums, CellState
    <2>2. sums' \in Sums
      BY <1>3, <2>1 DEF finish_input_cell_data_dao, IInv, TypeOK, FieldsOK, Sums
    <2>3. maybe_transaction' \in MaybeTransaction
      BY <1>3 DEF finish_input_cell_data_dao, Reject, IInv, TypeOK, FieldsOK, MaybeTransaction, Tag
    <2>4. dao_cell_owner' \in StandardLockArg
      BY <1>3 DEF finish_input_cell_data_dao, IInv, TypeOK, FieldsOK, LockArg
    <2>5. FieldsOK'
      BY <1>3, <2>2, <2>3, <2>4 DEF finish_input_cell_data_dao, IInv, TypeOK, FieldsOK
    <2> QED BY <1>3, <2>5, Quiet DEF finish_input_cell_data_dao, Parse, ParseActive, JoinsOperation, Reject, Pending, TagJoins, IInv, TypeOK, FieldsOK, MaybeTransaction, TagStays
  <1>4. ASSUME finish_input_cell_data_plain PROVE IInv'
    <2>1. /\ Add(sums.input_amount_snd, cell_state.capacity) \in Word
          /\ Add(sums.input_amount_fst, cell_state.capacity) \in Word
      BY WordClosed DEF IInv, TypeOK, FieldsOK, Sums, CellState
    <2>2. sums' \in Sums
      BY <1>4, <2>1 DEF finish_input_cell_data_plain, IInv, TypeOK, FieldsOK, Sums
    <2>3. maybe_transaction' \in MaybeTransaction
      BY <1>4 DEF finish_input_cell_data_plain, NoteContractData, IInv, TypeOK, FieldsOK, MaybeTransaction
    <2>4. FieldsOK'
      BY <1>4, <2>2, <2>3 DEF finish_input_cell_data_plain, IInv, TypeOK, FieldsOK, perCell
    <2> QED BY <1>4, <2>4, Quiet DEF finish_input_cell_data_plain, Parse, ParseActive, NoteContractData, IInv, TypeOK, FieldsOK, MaybeTransaction, TagStays
  <1> QED BY <1>1, <1>2, <1>3, <1>4 DEF CellsData

LEMMA InactiveStep ==
    ASSUME IInv, InactiveCell
    PROVE  IInv'
  <1>1. FieldsOK'
    BY DEF InactiveCell, IInv, TypeOK, FieldsOK, perCell
  <1> QED BY <1>1, Quiet DEF InactiveCell, ActiveOnly, TagStays

-----------------------------------------------------------------------------
(* The output table.                                                       *)

SumOf(table) ==
    Add(Add(Add(Add(table[0].capacity, table[1].capacity), table[2].capacity), table[3].capacity),
        table[4].capacity)

(* Adding to one entry adds to the sum.                                    *)
LEMMA SumAdd ==
    ASSUME NEW old \in [Slot -> Output], NEW new \in [Slot -> Output], NEW s \in Slot, NEW c \in Word,
           new[s].capacity = Add(old[s].capacity, c),
           \A k \in Slot \ {s} : new[k].capacity = old[k].capacity
    PROVE  SumOf(new) = Add(SumOf(old), c)
  <1> DEFINE w(k) == old[k].capacity
  <1>1. \A k \in Slot : w(k) \in Word /\ new[k].capacity \in Word
    BY DEF Output
  <1>2. 0 \in Slot /\ 1 \in Slot /\ 2 \in Slot /\ 3 \in Slot /\ 4 \in Slot /\ s \in 0 .. 4
    BY DEF Slot, MAX_OUTPUTS
  <1>3. /\ Add(w(0), w(1)) \in Word
        /\ Add(Add(w(0), w(1)), w(2)) \in Word
        /\ Add(Add(Add(w(0), w(1)), w(2)), w(3)) \in Word
    BY <1>1, <1>2, WordClosed
  <1>4. \A x, y \in Word : Add(Add(x, c), y) = Add(Add(x, y), c) /\ Add(x, Add(y, c)) = Add(Add(x, y), c)
    BY AddSwap
  <1> HIDE DEF w
  <1>5. CASE s = 0
    BY <1>1, <1>2, <1>3, <1>4, <1>5 DEF SumOf, w
  <1>6. CASE s = 1
    BY <1>1, <1>2, <1>3, <1>4, <1>6 DEF SumOf, w
  <1>7. CASE s = 2
    BY <1>1, <1>2, <1>3, <1>4, <1>7 DEF SumOf, w
  <1>8. CASE s = 3
    BY <1>1, <1>2, <1>3, <1>4, <1>8 DEF SumOf, w
  <1>9. CASE s = 4
    BY <1>1, <1>2, <1>3, <1>4, <1>9 DEF SumOf, w
  <1> QED BY <1>2, <1>5, <1>6, <1>7, <1>8, <1>9

(* output_end stores or adds a plain output at slot s of the table.        *)
LEMMA Counted ==
    ASSUME IInv, ~utx.is_self_transfer, NEW table \in [Slot -> Output], NEW count \in 1 .. MAX_OUTPUTS,
           NEW s \in Slot, s < count, utx.output_count <= count, CountPlain(table, count),
           table[s].capacity = Add(utx.outputs[s].capacity, cell_state.capacity),
           \A k \in Slot \ {s} : table[k] = utx.outputs[k],
           maybe_transaction'.flags = maybe_transaction.flags \cup {"HAS_DESTINATION_ADDRESS"}
    PROVE  utx' \in UTx /\ OutputTableAddsUp' /\ utx'.is_self_transfer = utx.is_self_transfer
  <1>1. /\ utx \in UTx /\ utx.outputs \in [Slot -> Output] /\ cell_state.capacity \in Word
        /\ utx.plain_output_amount \in Word /\ utx.output_count \in 0 .. MAX_OUTPUTS
    BY DEF IInv, TypeOK, FieldsOK, UTx, CellState
  <1>2. Add(utx.plain_output_amount, cell_state.capacity) \in Word
    BY <1>1, WordClosed
  <1>3. utx' \in UTx /\ utx'.is_self_transfer = utx.is_self_transfer
        /\ utx'.outputs = table /\ utx'.output_count = count
        /\ utx'.plain_output_amount = Add(utx.plain_output_amount, cell_state.capacity)
    <2>1. count \in 0 .. MAX_OUTPUTS
      BY DEF MAX_OUTPUTS
    <2> QED BY <1>1, <1>2, <2>1 DEF CountPlain, UTx
  <1>4. SumOf(table) = Add(SumOf(utx.outputs), cell_state.capacity)
    BY <1>1, SumAdd
  <1>5. utx.plain_output_amount = SumOf(utx.outputs)
        /\ \A k \in Slot : k >= utx.output_count => utx.outputs[k] = ZeroOutput
    BY DEF IInv, Ledger, OutputTableAddsUp, SumOf
  <1>6. \A k \in Slot : k >= count => table[k] = ZeroOutput
    BY <1>1, <1>5 DEF Slot, MAX_OUTPUTS
  <1>7. HasFlag("HAS_DESTINATION_ADDRESS")' /\ utx'.output_count > 0
    BY <1>3 DEF HasFlag, MAX_OUTPUTS
  <1> QED BY <1>3, <1>4, <1>5, <1>6, <1>7 DEF OutputTableAddsUp, SumOf

LEMMA Entries ==
    ASSUME NEW s \in Slot, utx.outputs \in [Slot -> Output], cell_state \in CellState, lock_arg_tmp \in LockArg
    PROVE  /\ StoredAt(s) \in [Slot -> Output] /\ AddedAt(s) \in [Slot -> Output]
           /\ StoredAt(s)[s].capacity = Add(utx.outputs[s].capacity, cell_state.capacity)
           /\ AddedAt(s)[s].capacity = Add(utx.outputs[s].capacity, cell_state.capacity)
           /\ \A k \in Slot \ {s} : StoredAt(s)[k] = utx.outputs[k] /\ AddedAt(s)[k] = utx.outputs[k]
  <1>1. /\ utx.outputs[s] \in Output /\ cell_state.is_multisig \in BOOLEAN
        /\ Add(utx.outputs[s].capacity, cell_state.capacity) \in Word
    BY WordClosed DEF Output, CellState
  <1>2. AddedAt(s) = [utx.outputs EXCEPT ![s] =
                [utx.outputs[s] EXCEPT !.capacity = Add(utx.outputs[s].capacity, cell_state.capacity)]]
    BY DEF AddedAt
  <1>3. StoredAt(s) = [utx.outputs EXCEPT ![s] =
                [utx.outputs[s] EXCEPT !.capacity = Add(utx.outputs[s].capacity, cell_state.capacity),
                                       !.destination = lock_arg_tmp, !.is_multisig = cell_state.is_multisig]]
    BY <1>1 DEF StoredAt, Output
  <1>4. [utx.outputs[s] EXCEPT !.capacity = Add(utx.outputs[s].capacity, cell_state.capacity)] \in Output
    BY <1>1 DEF Output
  <1>5. [utx.outputs[s] EXCEPT !.capacity = Add(utx.outputs[s].capacity, cell_state.capacity),
                                       !.destination = lock_arg_tmp, !.is_multisig = cell_state.is_multisig] \in Output
    BY <1>1 DEF Output
  <1> QED BY <1>1, <1>2, <1>3, <1>4, <1>5 DEF Output

LEMMA OutputEndStep ==
    ASSUME IInv, output_end
    PROVE  IInv'
  <1> USE DEF OutputEnd, Continue
  <1>1. /\ at.cb = "output_end" /\ at.vec = "outputs" /\ ~utx.is_self_transfer
        /\ UNCHANGED <<env, screen, signature, cell_state, lock_arg_cmp, lock_arg_tmp, key, inp, sums>>
    BY DEF output_end, output_end_dao, output_end_change, output_end_first, output_end_same, output_end_other,
       IInv, Ledger, SelfLate, TypeOK, PositionOK, Vectors, AtInputs, AtSource, AtSourceData, AtOutputsData,
       HeadCallbacks, InputCallbacks, CellCallbacks, TypeCallbacks, SourceCallbacks, DataCallbacks
  <1>2. /\ utx \in UTx /\ utx.outputs \in [Slot -> Output] /\ utx.output_count \in 0 .. MAX_OUTPUTS
        /\ utx.dao_output_amount \in Word /\ utx.change_amount \in Word
        /\ cell_state \in CellState /\ cell_state.capacity \in Word
        /\ lock_arg_tmp \in LockArg /\ lock_arg_tmp.hash \in StandardLockArg
        /\ maybe_transaction \in MaybeTransaction
    BY DEF IInv, TypeOK, FieldsOK, UTx, CellState, LockArg
  <1>3. ASSUME output_end_dao PROVE IInv'
    <2>1. Add(utx.dao_output_amount, cell_state.capacity) \in Word
      BY <1>2, WordClosed
    <2>2. utx' \in UTx
      BY <1>2, <1>3, <2>1 DEF output_end_dao, UTx
    <2>3. maybe_transaction' \in MaybeTransaction
      BY <1>2, <1>3, ZenonT(30) DEF output_end_dao, Reject, SetFlag, MaybeTransaction, Flag
    <2>4. FieldsOK'
      BY <1>1, <1>2, <1>3, <2>2, <2>3 DEF output_end_dao, IInv, TypeOK, FieldsOK
    <2>5. OutputTableAddsUp' /\ utx'.is_self_transfer = utx.is_self_transfer /\ TagStays
      BY <1>1, <1>2, <1>3
      DEF output_end_dao, Reject, SetFlag, IInv, Ledger, OutputTableAddsUp, HasFlag, TagStays, MaybeTransaction, UTx
    <2> QED BY <1>1, <1>3, <2>4, <2>5, Parsed DEF output_end_dao, ui
  <1>4. ASSUME output_end_change PROVE IInv'
    <2>1. Add(utx.change_amount, cell_state.capacity) \in Word
      BY <1>2, WordClosed
    <2>2. utx' \in UTx
      BY <1>2, <1>4, <2>1 DEF output_end_change, UTx
    <2>3. maybe_transaction' \in MaybeTransaction
      BY <1>2, <1>4 DEF output_end_change, SetFlag, MaybeTransaction, Flag
    <2>4. FieldsOK'
      BY <1>1, <1>4, <2>2, <2>3 DEF output_end_change, IInv, TypeOK, FieldsOK
    <2>5. OutputTableAddsUp' /\ utx'.is_self_transfer = utx.is_self_transfer /\ TagStays
      BY <1>1, <1>2, <1>4
      DEF output_end_change, SetFlag, IInv, Ledger, OutputTableAddsUp, HasFlag, TagStays, MaybeTransaction, UTx
    <2> QED BY <1>1, <1>4, <2>4, <2>5, Parsed DEF output_end_change, ui
  <1>5. ASSUME output_end_first PROVE IInv'
    <2>1. utx.output_count = 0
      BY <1>1, <1>5, <1>2 DEF output_end_first, IInv, Ledger, OutputTableAddsUp, MAX_OUTPUTS
    <2>2. /\ Follow /\ UNCHANGED <<reply, dao_cell_owner>> /\ CountPlain(StoredAt(0), 1)
          /\ SetFlag("HAS_DESTINATION_ADDRESS")
      BY <1>5, <2>1 DEF output_end_first
    <2>3. 0 \in Slot /\ 1 \in 1 .. MAX_OUTPUTS
      BY DEF Slot, MAX_OUTPUTS
    <2> DEFINE table == StoredAt(0)
    <2>4. /\ table \in [Slot -> Output] /\ table[0].capacity = Add(utx.outputs[0].capacity, cell_state.capacity)
          /\ \A k \in Slot \ {0} : table[k] = utx.outputs[k]
      BY <1>2, <2>3, Entries
    <2>5. maybe_transaction'.flags = maybe_transaction.flags \cup {"HAS_DESTINATION_ADDRESS"}
      BY <1>2, <2>2 DEF SetFlag, MaybeTransaction
    <2> HIDE DEF table
    <2>6. utx' \in UTx /\ OutputTableAddsUp' /\ utx'.is_self_transfer = utx.is_self_transfer
      BY <1>1, <2>1, <2>2, <2>3, <2>4, <2>5, Counted DEF table
    <2>7. FieldsOK'
      BY <1>1, <1>2, <2>2, <2>6 DEF SetFlag, MaybeTransaction, Flag, IInv, TypeOK, FieldsOK
    <2> QED BY <1>1, <1>2, <2>2, <2>6, <2>7, Parsed DEF SetFlag, MaybeTransaction, TagStays, ui
  <1>6. ASSUME output_end_same PROVE IInv'
    <2> DEFINE s == utx.output_count - 1
    <2>1. s \in Slot /\ utx.output_count \in 1 .. MAX_OUTPUTS /\ s < utx.output_count
      BY <1>1, <1>2, <1>6 DEF output_end_same, IInv, Ledger, OutputTableAddsUp, Slot, MAX_OUTPUTS
    <2>2. /\ Follow /\ UNCHANGED <<reply, dao_cell_owner>> /\ CountPlain(AddedAt(s), utx.output_count)
          /\ SetFlag("HAS_DESTINATION_ADDRESS")
      BY <1>6 DEF output_end_same
    <2> HIDE DEF s
    <2>3. utx' \in UTx /\ OutputTableAddsUp' /\ utx'.is_self_transfer = utx.is_self_transfer
      BY <1>1, <1>2, <2>1, <2>2, Entries, Counted DEF SetFlag, MaybeTransaction
    <2>4. FieldsOK'
      BY <1>1, <1>2, <2>2, <2>3 DEF SetFlag, MaybeTransaction, Flag, IInv, TypeOK, FieldsOK
    <2> QED BY <1>1, <1>2, <2>2, <2>3, <2>4, Parsed DEF SetFlag, MaybeTransaction, TagStays, ui
  <1>7. ASSUME output_end_other PROVE IInv'
    <2>1. Follow /\ UNCHANGED <<reply, dao_cell_owner>> /\ HasFlag("HAS_DESTINATION_ADDRESS")
      BY <1>7 DEF output_end_other
    <2>2. /\ maybe_transaction' \in MaybeTransaction
          /\ maybe_transaction'.flags = maybe_transaction.flags \cup {"HAS_DESTINATION_ADDRESS"}
      <3> USE DEF MaybeTransaction
      <3>1. "HAS_DESTINATION_ADDRESS" \in maybe_transaction.flags
        BY <2>1 DEF HasFlag
      <3>2. CASE maybe_transaction' = [maybe_transaction EXCEPT !.unsafe = TRUE]
        BY <1>2, <3>1, <3>2
      <3>3. CASE maybe_transaction' =
                    [maybe_transaction EXCEPT !.tag = "MULTI_OUTPUT_TRANSFER", !.unsafe = TRUE]
        BY <1>2, <3>1, <3>3 DEF Tag
      <3>4. CASE maybe_transaction' = [maybe_transaction EXCEPT
                    !.tag = "MULTI_OUTPUT_TRANSFER", !.flags = @ \cup {"HAS_DESTINATION_ADDRESS"}]
        BY <1>2, <3>1, <3>4 DEF Tag, Flag
      <3> QED BY <1>7, <3>2, <3>3, <3>4 DEF output_end_other, Reject
    <2>3. TagStays \/ TagJoins
      BY <1>1, <1>2, <1>7 DEF output_end_other, Reject, MaybeTransaction, TagStays, TagJoins, Pending
    <2>4. CASE UNCHANGED utx
      <3>1. FieldsOK' /\ OutputTableAddsUp'
        BY <1>1, <2>1, <2>2, <2>4 DEF IInv, TypeOK, FieldsOK, Ledger, OutputTableAddsUp, HasFlag
      <3> QED BY <1>1, <2>1, <2>2, <2>3, <2>4, <3>1, Parsed DEF ui
    <2>5. CASE CountPlain(StoredAt(utx.output_count), utx.output_count + 1) /\ ~TableFull
      <3>1. utx.output_count \in Slot /\ utx.output_count + 1 \in 1 .. MAX_OUTPUTS
        BY <1>2, <2>5 DEF TableFull, Slot, MAX_OUTPUTS
      <3>2. utx' \in UTx /\ OutputTableAddsUp' /\ utx'.is_self_transfer = utx.is_self_transfer
        BY <1>1, <1>2, <2>2, <2>5, <3>1, Entries, Counted
      <3>3. FieldsOK'
        BY <1>1, <2>1, <2>2, <3>2 DEF IInv, TypeOK, FieldsOK
      <3> QED BY <1>1, <2>1, <2>2, <2>3, <3>2, <3>3, Parsed DEF ui
    <2> QED BY <1>7, <2>4, <2>5 DEF output_end_other
  <1> QED BY <1>3, <1>4, <1>5, <1>6, <1>7 DEF output_end

LEMMA OutputsEndStep ==
    ASSUME IInv, outputs_end
    PROVE  IInv'
  <1>1. /\ at.vec = "outputs" /\ ~utx.is_self_transfer
    BY DEF outputs_end, IInv, Ledger, SelfLate, TypeOK, PositionOK, Vectors,
       AtInputs, AtSource, AtSourceData, AtOutputsData,
       HeadCallbacks, InputCallbacks, CellCallbacks, TypeCallbacks, SourceCallbacks, DataCallbacks
  <1>2. /\ utx \in UTx /\ utx.outputs \in [Slot -> Output] /\ utx.change_amount \in Word
        /\ utx.output_count \in 0 .. MAX_OUTPUTS /\ key.change \in StandardLockArg
        /\ maybe_transaction \in MaybeTransaction
    BY DEF IInv, TypeOK, FieldsOK, UTx
  <1>3. ~HasFlag("HAS_DESTINATION_ADDRESS") => utx.output_count = 0 /\ utx.plain_output_amount = 0
    <2>1. ASSUME ~HasFlag("HAS_DESTINATION_ADDRESS") PROVE utx.output_count = 0
      BY <1>1, <1>2, <2>1 DEF IInv, Ledger, OutputTableAddsUp, MAX_OUTPUTS
    <2>2. ASSUME utx.output_count = 0 PROVE utx.plain_output_amount = 0
      <3>1. \A s \in Slot : utx.outputs[s] = ZeroOutput
        BY <1>1, <2>2 DEF IInv, Ledger, OutputTableAddsUp, Slot
      <3>2. 0 \in Slot /\ 1 \in Slot /\ 2 \in Slot /\ 3 \in Slot /\ 4 \in Slot
        BY DEF Slot, MAX_OUTPUTS
      <3> QED BY <1>1, <3>1, <3>2, AddZero DEF IInv, Ledger, OutputTableAddsUp, ZeroOutput
    <2> QED BY <2>1, <2>2
  <1>4. Follow /\ UNCHANGED reply
    BY <1>3 DEF outputs_end, Continue
  <1>5. maybe_transaction' \in MaybeTransaction /\ TagStays
    BY <1>2 DEF outputs_end, MaybeTransaction, TagStays
  <1>6. CASE UNCHANGED <<utx, maybe_transaction>>
    BY <1>4, <1>6, Quiet
    DEF outputs_end, ui, perCell, TagStays, IInv, TypeOK, FieldsOK
  <1>7. CASE utx' = [utx EXCEPT !.is_self_transfer = FALSE] /\ UNCHANGED maybe_transaction
    <2>1. FieldsOK'
      BY <1>2, <1>7 DEF outputs_end, perCell, IInv, TypeOK, FieldsOK, UTx
    <2>2. OutputTableAddsUp'
      BY <1>1, <1>2, <1>7 DEF IInv, Ledger, OutputTableAddsUp, HasFlag, UTx
    <2> QED BY <1>4, <1>5, <1>7, <2>1, <2>2, Parsed DEF outputs_end, ui
  <1>8. CASE /\ utx' = [utx EXCEPT
                    !.is_self_transfer = TRUE,
                    !.plain_output_amount = utx.change_amount, !.change_amount = 0,
                    !.output_count = 1,
                    !.outputs = [@ EXCEPT ![0].destination.hash = key.change]]
             /\ maybe_transaction' = [maybe_transaction EXCEPT !.flags = {}]
    <2> DEFINE table == [utx.outputs EXCEPT ![0].destination.hash = key.change]
    <2>1. table \in [Slot -> Output] /\ 1 \in 0 .. MAX_OUTPUTS
      <3> DEFINE first == [utx.outputs[0] EXCEPT !.destination = [utx.outputs[0].destination EXCEPT !.hash = key.change]]
      <3>1. 0 \in Slot /\ 1 \in 0 .. MAX_OUTPUTS
        BY DEF Slot, MAX_OUTPUTS
      <3>2. [utx.outputs[0].destination EXCEPT !.hash = key.change] \in LockArg
        BY <1>2, <3>1 DEF Output, LockArg
      <3>3. first \in Output
        BY <1>2, <3>1, <3>2 DEF Output
      <3>4. table = [utx.outputs EXCEPT ![0] = first]
        OBVIOUS
      <3> QED BY <1>2, <3>1, <3>3, <3>4
    <2>2. utx' = [utx EXCEPT !.is_self_transfer = TRUE, !.plain_output_amount = utx.change_amount,
                             !.change_amount = 0, !.output_count = 1, !.outputs = table]
      BY <1>8
    <2> HIDE DEF table
    <2>3. utx' \in UTx
      BY <1>2, <2>1, <2>2, AddZero DEF UTx
    <2>4. FieldsOK'
      BY <1>2, <1>5, <2>3 DEF outputs_end, perCell, IInv, TypeOK, FieldsOK
    <2>5. OutputTableAddsUp'
      BY <1>2, <2>2 DEF OutputTableAddsUp, UTx
    <2> QED BY <1>1, <1>4, <1>5, <2>4, <2>5, Parsed DEF outputs_end, ui
  <1> QED BY <1>3, <1>6, <1>7, <1>8 DEF outputs_end

LEMMA OutputsStep ==
    ASSUME IInv, Outputs
    PROVE  IInv'
  <1>1. ASSUME output_start PROVE IInv'
    <2>1. at.vec = "outputs" /\ at.j \in Nat
      BY <1>1 DEF output_start, Parse, IInv, TypeOK, PositionOK, Vectors,
          AtInputs, AtSource, AtSourceData, AtOutputsData,
          HeadCallbacks, InputCallbacks, CellCallbacks, TypeCallbacks, SourceCallbacks, DataCallbacks
    <2>2. at.j <= Len(tx.outputs)
      BY <1>1, <2>1 DEF output_start, Parse, IInv, TypeOK, PositionOK, CellsRead, AtOutputs, CellCallbacks, TypeCallbacks
    <2>3. at.j \in 0 .. MAX_CELLS
      BY <2>1, <2>2, Lengths, SizeAssumption DEF IInv, TypeOK
    <2>4. utx' \in UTx /\ key.change \in StandardLockArg
      BY <1>1, <2>3 DEF output_start, IInv, TypeOK, FieldsOK, UTx
    <2>5. [ZeroCellState EXCEPT !.active = TRUE] \in CellState
      BY ZeroesOK DEF CellState
    <2>6. FieldsOK'
      BY <1>1, <2>4, <2>5, ZeroesOK DEF output_start, IInv, TypeOK, FieldsOK
    <2>7. OutputTableAddsUp' /\ utx'.is_self_transfer = utx.is_self_transfer
      BY <1>1 DEF output_start, IInv, TypeOK, FieldsOK, UTx, Ledger, OutputTableAddsUp, HasFlag
    <2> QED BY <1>1, <2>6, <2>7, Parsed DEF output_start, Parse, TagStays
  <1>2. ASSUME validate_output_data_start PROVE IInv'
    <2> DEFINE isDao == at.j \in utx.dao_bitmask
    <2>1. isDao \in BOOLEAN /\ cell_state' = [cell_state EXCEPT !.is_dao = isDao]
      BY <1>2 DEF validate_output_data_start
    <2> HIDE DEF isDao
    <2>2. cell_state' \in CellState
      BY <2>1 DEF IInv, TypeOK, FieldsOK, CellState
    <2>3. FieldsOK'
      BY <1>2, <2>2 DEF validate_output_data_start, IInv, TypeOK, FieldsOK
    <2> QED BY <1>2, <2>3, Quiet DEF validate_output_data_start, Parse, TagStays
  <1>3. ASSUME finish_output_cell_data PROVE IInv'
    <2>1. maybe_transaction' \in MaybeTransaction
      BY <1>3, ZenonT(30) DEF finish_output_cell_data, NoteContractData, Reject, IInv, TypeOK, FieldsOK, MaybeTransaction, Tag
    <2>2. FieldsOK'
      BY <1>3, <2>1 DEF finish_output_cell_data, IInv, TypeOK, FieldsOK, perCell
    <2>3. maybe_transaction'.flags = maybe_transaction.flags /\ (TagStays \/ TagJoins)
      BY <1>3 DEF finish_output_cell_data, Parse, NoteContractData, Reject, IInv, TypeOK, FieldsOK, MaybeTransaction,
         TagStays, TagJoins, Pending
    <2> QED BY <1>3, <2>2, <2>3, Quiet DEF finish_output_cell_data, Parse
  <1> QED BY <1>1, <1>2, <1>3, OutputEndStep, OutputsEndStep DEF Outputs

-----------------------------------------------------------------------------
(* The end of the raw transaction, and what is put on the screen.          *)

LEMMA FeeOK ==
    ASSUME IInv
    PROVE  Fee \in Word /\ Negated(Fee) \in Word
  <1>1. /\ sums.input_amount_snd \in Word /\ sums.dao_input_amount \in Word
        /\ utx.plain_output_amount \in Word /\ utx.dao_output_amount \in Word /\ utx.change_amount \in Word
    BY DEF IInv, TypeOK, FieldsOK, Sums, UTx
  <1>2. /\ Add(sums.input_amount_snd, sums.dao_input_amount) \in Word
        /\ Add(Add(utx.plain_output_amount, utx.dao_output_amount), utx.change_amount) \in Word
    BY <1>1, WordClosed
  <1> QED BY <1>2, WordClosed DEF Fee

LEMMA FinalizeStep ==
    ASSUME IInv, NEW tags, NEW rejected \in BOOLEAN, NEW parsed \in MaybeTransaction, NEW fee \in Word,
           Finalize(tags, rejected, parsed, fee),
           parsed.flags = maybe_transaction.flags, rejected \/ parsed.tag \in Settled
    PROVE  IInv'
  <1>1. at.cb = "finalize_raw_transaction" /\ Follow /\ UNCHANGED <<env, ui, perCell, key, inp, sums, utx>>
    BY DEF Finalize, Parse
  <1>2. /\ maybe_transaction' \in MaybeTransaction /\ maybe_transaction'.flags = maybe_transaction.flags
        /\ maybe_transaction'.unsafe \/ maybe_transaction'.tag \in Settled
    BY DEF Finalize, MaybeTransaction
  <1>3. Onward
    BY <1>1, Advance DEF IInv, TypeOK, env
  <1>4. TypeOK'
    BY <1>1, <1>2, <1>3 DEF Onward, IInv, TypeOK, FieldsOK, env, ui, perCell
  <1>5. OutputTableAddsUp' /\ NoInternalError'
    BY <1>1, <1>2 DEF IInv, Ledger, OutputTableAddsUp, HasFlag, NoInternalError, ui
  <1>6. FlagsWait' /\ SelfLate' /\ TagKnown'
    BY <1>1, <1>2, <1>3 DEF Onward, IInv, Ledger, FlagsWait, SelfLate, TagKnown
  <1> QED BY <1>4, <1>5, <1>6 DEF IInv, Ledger

(* What a finalizer does: with some parsed_transaction, it rejects or keeps*)
(* the fee and the hash.                                                   *)
Finalized ==
    \E tags \in SUBSET Tag, rejected \in BOOLEAN, parsed \in MaybeTransaction, fee \in Word :
        /\ Finalize(tags, rejected, parsed, fee)
        /\ parsed.flags = maybe_transaction.flags
        /\ rejected \/ parsed.tag \in Settled

(* Every finalizer ends in one of the two ways of Finalize.                *)
LEMMA FinalizeShape ==
    ASSUME IInv, finalize_raw_transaction
    PROVE  Finalized
  <1> USE DEF MaybeTransaction, Tag, Settled
  <1>1. /\ maybe_transaction \in MaybeTransaction /\ sums \in Sums /\ utx \in UTx
        /\ utx.plain_output_amount \in Word /\ utx.dao_output_amount \in Word
        /\ sums.dao_input_amount \in Word /\ sums.input_amount_fst \in Word
        /\ sums.distinct_input_sources \in Nat /\ Fee \in Word /\ Negated(Fee) \in Word
    BY FeeOK DEF IInv, TypeOK, FieldsOK, Sums, UTx
  <1>2. ASSUME finalize_single_source PROVE Finalized
    <2> DEFINE parsed == [maybe_transaction EXCEPT
                    !.tag = IF utx.is_self_transfer THEN "SELF_TRANSFER" ELSE "PLAIN_TRANSFER",
                    !.amount_snd = utx.plain_output_amount]
    <2>1. parsed \in MaybeTransaction /\ parsed.flags = maybe_transaction.flags /\ parsed.tag \in Settled
      BY <1>1
    <2>2. Finalize({"NOT_SET"}, FALSE, parsed, Fee)
      BY <1>2 DEF finalize_single_source
    <2> QED BY <1>1, <2>1, <2>2 DEF Finalized
  <1>3. ASSUME finalize_multi_source PROVE Finalized
    <2> DEFINE bare == [maybe_transaction EXCEPT !.tag = "MULTI_INPUT_TRANSFER"]
               full == [maybe_transaction EXCEPT
                          !.tag = "MULTI_INPUT_TRANSFER",
                          !.input_count_snd = sums.distinct_input_sources,
                          !.amount_fst = sums.input_amount_fst,
                          !.amount_snd = utx.plain_output_amount]
    <2>1. /\ bare \in MaybeTransaction /\ bare.flags = maybe_transaction.flags
          /\ full \in MaybeTransaction /\ full.flags = maybe_transaction.flags /\ full.tag \in Settled
      BY <1>1
    <2>2. \/ Finalize({"NOT_SET"}, TRUE, maybe_transaction, Fee)
          \/ Finalize({"NOT_SET"}, TRUE, bare, Fee)
          \/ Finalize({"NOT_SET"}, FALSE, full, Fee)
      BY <1>3 DEF finalize_multi_source
    <2> HIDE DEF bare, full
    <2> QED BY <1>1, <2>1, <2>2 DEF Finalized
  <1>4. ASSUME finalize_multi_output PROVE Finalized
    <2> DEFINE rejected == sums.distinct_input_sources > 1
               parsed == [maybe_transaction EXCEPT !.amount_snd = IF rejected THEN @ ELSE utx.plain_output_amount]
    <2>1. /\ parsed \in MaybeTransaction /\ parsed.flags = maybe_transaction.flags
          /\ parsed.tag = maybe_transaction.tag
      BY <1>1
    <2>2. Finalize({"MULTI_OUTPUT_TRANSFER"}, rejected, parsed, Fee)
      BY <1>4 DEF finalize_multi_output
    <2>3. parsed.tag \in Settled /\ rejected \in BOOLEAN
      BY <2>1, <2>2 DEF Finalize
    <2> HIDE DEF parsed, rejected
    <2> QED BY <1>1, <2>1, <2>2, <2>3 DEF Finalized
  <1>5. ASSUME finalize_dao_deposit PROVE Finalized
    <2> DEFINE parsed == [maybe_transaction EXCEPT !.dao_amount = utx.dao_output_amount]
    <2>1. /\ parsed \in MaybeTransaction /\ parsed.flags = maybe_transaction.flags
          /\ parsed.tag = maybe_transaction.tag
      BY <1>1
    <2>2. Finalize({"DAO_DEPOSIT"}, FALSE, parsed, Fee)
      BY <1>5 DEF finalize_dao_deposit
    <2>3. parsed.tag \in Settled
      BY <2>1, <2>2 DEF Finalize
    <2> HIDE DEF parsed
    <2> QED BY <1>1, <2>1, <2>2, <2>3 DEF Finalized
  <1>6. ASSUME finalize_dao_prepare PROVE Finalized
    <2> DEFINE parsed == [maybe_transaction EXCEPT !.dao_amount = utx.dao_output_amount]
               rejected == utx.dao_output_amount # sums.dao_input_amount
    <2>1. /\ parsed \in MaybeTransaction /\ parsed.flags = maybe_transaction.flags
          /\ parsed.tag = maybe_transaction.tag
      BY <1>1
    <2>2. Finalize({"DAO_PREPARE"}, rejected, parsed, Fee)
      BY <1>6 DEF finalize_dao_prepare
    <2>3. parsed.tag \in Settled
      BY <2>1, <2>2 DEF Finalize
    <2> HIDE DEF parsed
    <2> QED BY <1>1, <2>1, <2>2, <2>3 DEF Finalized
  <1>7. ASSUME finalize_dao_withdraw PROVE Finalized
    <2> DEFINE parsed == [maybe_transaction EXCEPT !.dao_amount = sums.dao_input_amount]
               rejected == utx.dao_output_amount # 0 \/ utx.plain_output_amount # 0
    <2>1. /\ parsed \in MaybeTransaction /\ parsed.flags = maybe_transaction.flags
          /\ parsed.tag = maybe_transaction.tag
      BY <1>1
    <2>2. Finalize({"DAO_WITHDRAW"}, rejected, parsed, Negated(Fee))
      BY <1>7 DEF finalize_dao_withdraw
    <2>3. parsed.tag \in Settled /\ rejected \in BOOLEAN
      BY <2>1, <2>2 DEF Finalize
    <2> HIDE DEF parsed, rejected
    <2> QED BY <1>1, <2>1, <2>2, <2>3 DEF Finalized
  <1> QED BY <1>2, <1>3, <1>4, <1>5, <1>6, <1>7 DEF finalize_raw_transaction

LEMMA FinalizeRawStep ==
    ASSUME IInv, finalize_raw_transaction
    PROVE  IInv'
  BY FinalizeShape, FinalizeStep DEF Finalized

LEMMA ParserStepOK ==
    ASSUME IInv, ParserStep
    PROVE  IInv'
  <1>1. ASSUME witnesses PROVE IInv'
    <2>1. FieldsOK'
      BY <1>1 DEF witnesses, IInv, TypeOK, FieldsOK, perCell
    <2> QED BY <1>1, <2>1, Quiet DEF witnesses, Parse, TagStays
  <1> QED
    BY <1>1, PrologueStep, InputsStep, CellScriptsStep, CellsDataStep, InactiveStep, OutputsStep, FinalizeRawStep
    DEF ParserStep

LEMMA AddressOK ==
    ASSUME NEW o \in Output
    PROVE  Address(o) \in [script: {"sighash", "multisig"}, lock_arg: LockArg]
  BY PeriodAssumption DEF Address, Output, LockArg

LEMMA Rows ==
    ASSUME NEW S, NEW n \in Nat, NEW f \in [1 .. n -> S]
    PROVE  f \in Seq(S) /\ Len(f) = n
  OBVIOUS

LEMMA PromptOK ==
    ASSUME IInv, Prompt(maybe_transaction.tag)
    PROVE  screen' \in Screen
  <1>1. /\ maybe_transaction.amount_snd \in Word /\ maybe_transaction.total_fee \in Word
        /\ maybe_transaction.amount_fst \in Word /\ maybe_transaction.dao_amount \in Word
        /\ maybe_transaction.input_count_fst \in Nat /\ maybe_transaction.input_count_snd \in Nat
        /\ maybe_transaction.contract_type \in {"NOT_PRESENT", "UNKNOWN"}
        /\ key.current \in StandardLockArg /\ dao_cell_owner \in StandardLockArg
        /\ utx.outputs \in [Slot -> Output] /\ utx.output_count \in 0 .. MAX_OUTPUTS
    BY DEF IInv, TypeOK, FieldsOK, MaybeTransaction, UTx
  <1>2. Address(utx.outputs[0]) \in [script: {"sighash", "multisig"}, lock_arg: LockArg]
    <2>1. 0 \in Slot
      BY DEF Slot, MAX_OUTPUTS
    <2> QED BY <1>1, <2>1, AddressOK
  <1>3. CASE screen' = TransferScreen("Transaction", ContractRow)
    BY <1>1, <1>2, <1>3 DEF TransferScreen, ContractRow, Screen
  <1>4. CASE screen' = TransferScreen("Self-Transfer", "no row")
    BY <1>1, <1>2, <1>4 DEF TransferScreen, Screen
  <1>5. CASE screen' = MultiOutputScreen
    <2> DEFINE row(n) == [capacity |-> utx.outputs[n - 1].capacity, address |-> Address(utx.outputs[n - 1])]
               rows == [n \in 1 .. utx.output_count |-> row(n)]
               Row == [capacity: Word, address: [script: {"sighash", "multisig"}, lock_arg: LockArg]]
    <2>1. \A n \in 1 .. utx.output_count : row(n) \in Row
      <3>1. TAKE n \in 1 .. utx.output_count
      <3>2. n - 1 \in Slot
        BY <1>1 DEF Slot, MAX_OUTPUTS
      <3>3. utx.outputs[n - 1] \in Output
        BY <1>1, <3>2
      <3>4. Address(utx.outputs[n - 1]) \in [script: {"sighash", "multisig"}, lock_arg: LockArg]
        BY <3>3, AddressOK
      <3> QED BY <3>3, <3>4 DEF Output
    <2> HIDE DEF row
    <2>2. rows \in Seq(Row) /\ Len(rows) <= MAX_OUTPUTS
      <3>1. utx.output_count \in Nat /\ utx.output_count <= MAX_OUTPUTS
        BY <1>1 DEF MAX_OUTPUTS
      <3>2. rows \in [1 .. utx.output_count -> Row]
        BY <2>1
      <3> HIDE DEF rows, Row
      <3> QED BY <3>1, <3>2, Rows
    <2>3. screen' = [confirm |-> "Transaction (outputs)", amount |-> maybe_transaction.amount_snd,
                     fee |-> maybe_transaction.total_fee, outputs |-> rows]
      BY <1>5 DEF MultiOutputScreen, row
    <2> HIDE DEF rows
    <2> QED BY <1>1, <2>2, <2>3 DEF Screen
  <1>6. CASE screen' = MultiInputScreen
    BY <1>1, <1>2, <1>6 DEF MultiInputScreen, Screen
  <1>7. CASE screen' = DaoScreen("Deposit")
    BY <1>1, <1>7 DEF DaoScreen, Screen
  <1>8. CASE screen' = DaoScreen("Prepare")
    BY <1>1, <1>8 DEF DaoScreen, Screen
  <1>9. CASE screen' = DaoScreen("Withdrawal")
    BY <1>1, <1>9 DEF DaoScreen, Screen
  <1> QED BY <1>3, <1>4, <1>5, <1>6, <1>7, <1>8, <1>9 DEF Prompt

-----------------------------------------------------------------------------
(* Chunks, and the answers to the prompt.                                  *)

LEMMA Cleared ==
    ASSUME IInv, clear_data, tx' \in AnnotatedTransaction, at' \in {Idle, Position("none", "set_sign_path", 0, 0)},
           contract_data_type' = contract_data_type, allowed_since_first' \in BOOLEAN,
           changes' = changes, sessions' \in 0 .. MaxSessions,
           screen' = NoScreen, reply' \in {"none", "signature", "EXC_REJECT"}
    PROVE  IInv'
  <1>1. PositionOK' /\ at'.vec = "none" /\ at'.cb \in {"idle", "set_sign_path"}
    BY DEF PositionOK, Idle, Position, Vectors, Callbacks, HeadCallbacks, AtInputs
  <1>2. FieldsOK'
    BY ZeroesOK DEF clear_data, clear_counters, FieldsOK
  <1>3. TypeOK'
    BY <1>1, <1>2 DEF IInv, TypeOK, Screen, Reply
  <1>4. OutputTableAddsUp'
    BY AddZero
    DEF clear_data, OutputTableAddsUp, HasFlag, ZeroUTx, ZeroMaybeTransaction, ZeroOutput, Slot, MAX_OUTPUTS
  <1>5. FlagsWait' /\ SelfLate' /\ TagKnown' /\ NoInternalError'
    BY <1>1 DEF clear_data, ZeroMaybeTransaction, FlagsWait, SelfLate, TagKnown, NoInternalError, Pending
  <1> QED BY <1>3, <1>4, <1>5 DEF IInv, Ledger

LEMMA CompleteStep ==
    ASSUME IInv, Complete \/ chunk_refused
    PROVE  IInv'
  <1> USE DEF Throw, RejectHard
  <1>1. CASE chunk_refused \/ complete_unmarked \/ complete_hard_reject \/ \E b \in BOOLEAN : complete_unsafe(b)
    <2>1. /\ at' = Refused /\ reply' \in Reply /\ NoInternalError'
          /\ UNCHANGED <<env, screen, parseState>>
      BY <1>1 DEF chunk_refused, complete_unmarked, complete_hard_reject, complete_unsafe, Reply, NoInternalError
    <2>2. maybe_transaction' \in MaybeTransaction /\ maybe_transaction'.flags = maybe_transaction.flags
      BY <1>1 DEF chunk_refused, complete_unmarked, complete_hard_reject, complete_unsafe,
         IInv, TypeOK, FieldsOK, MaybeTransaction, Tag
    <2>3. FieldsOK' /\ UNCHANGED utx /\ screen' \in Screen
      BY <2>1, <2>2 DEF parseState, perCell, IInv, TypeOK, FieldsOK
    <2> QED BY <2>1, <2>2, <2>3, Ending
  <1>2. ASSUME sign_complete PROVE IInv'
    <2>1. maybe_transaction' \in MaybeTransaction /\ maybe_transaction'.flags = maybe_transaction.flags
      BY <1>2 DEF sign_complete, IInv, TypeOK, FieldsOK, MaybeTransaction
    <2>2. FieldsOK' /\ UNCHANGED <<env, utx, reply>>
      BY <1>2, <2>1 DEF sign_complete, parseState, perCell, IInv, TypeOK, FieldsOK
    <2>3. screen' \in Screen
      BY <1>2, PromptOK DEF sign_complete
    <2>4. reply' \in Reply /\ NoInternalError'
      BY <2>2 DEF IInv, TypeOK, Ledger, NoInternalError
    <2> QED BY <1>2, <2>1, <2>2, <2>3, <2>4, Ending DEF sign_complete
  <1> QED BY <1>1, <1>2 DEF Complete

LEMMA SwitchStep ==
    ASSUME IInv, switch_contract_data
    PROVE  IInv'
  <1>1. /\ contract_data_type' \in {"ALLOW", "DISALLOW"} /\ changes' \in 0 .. MaxSettingChanges
        /\ allowed_since_first' \in BOOLEAN
        /\ UNCHANGED <<tx, sessions, ui, parseState, maybe_transaction, at>>
    BY BoundsAssumption DEF switch_contract_data, IInv, TypeOK
  <1>2. TypeOK'
    BY <1>1 DEF IInv, TypeOK, FieldsOK, PositionOK, AtInputs, AtSource, AtSourceData, AtOutputs, AtOutputsData,
       InputHere, MoreItems, CellsRead, cell, parseState, perCell, ui
  <1>3. Ledger'
    BY <1>1 DEF IInv, Ledger, OutputTableAddsUp, HasFlag, FlagsWait, SelfLate, TagKnown, NoInternalError,
       parseState, ui
  <1> QED BY <1>2, <1>3 DEF IInv

-----------------------------------------------------------------------------

LEMMA InitOK == Init => IInv
  <1> SUFFICES ASSUME Init PROVE IInv
    OBVIOUS
  <1>1. tx \in AnnotatedTransaction
    BY TransactionsAssumption DEF Init
  <1>2. PositionOK /\ at.vec = "none" /\ at.cb = "idle"
    BY DEF Init, PositionOK, Idle, Position, Vectors, Callbacks, HeadCallbacks, AtInputs
  <1>3. FieldsOK
    BY ZeroesOK DEF Init, FieldsOK
  <1>4. TypeOK
    <2>1. NoScreen \in Screen
      BY DEF Screen
    <2>2. changes \in 0 .. MaxSettingChanges /\ sessions \in 0 .. MaxSessions
      BY BoundsAssumption DEF Init
    <2> QED BY <1>1, <1>2, <1>3, <2>1, <2>2 DEF Init, TypeOK, Reply
  <1>5. OutputTableAddsUp
    BY AddZero
    DEF Init, OutputTableAddsUp, HasFlag, ZeroUTx, ZeroMaybeTransaction, ZeroOutput, Slot, MAX_OUTPUTS
  <1>6. FlagsWait /\ SelfLate /\ TagKnown /\ NoInternalError
    BY <1>2 DEF Init, ZeroMaybeTransaction, FlagsWait, SelfLate, TagKnown, NoInternalError, Pending
  <1> QED BY <1>4, <1>5, <1>6 DEF IInv, Ledger

LEMMA NextOK == IInv /\ [Next]_vars => IInv'
  <1> SUFFICES ASSUME IInv, [Next]_vars PROVE IInv'
    OBVIOUS
  <1>1. ASSUME first_chunk PROVE IInv'
    <2>1. tx' \in AnnotatedTransaction
      BY <1>1, TransactionsAssumption DEF first_chunk
    <2>2. sessions' \in 0 .. MaxSessions /\ allowed_since_first' \in BOOLEAN
      BY <1>1, BoundsAssumption DEF first_chunk, IInv, TypeOK
    <2> QED BY <1>1, <2>1, <2>2, Cleared DEF first_chunk
  <1>2. ASSUME sign_ok \/ sign_reject PROVE IInv'
    BY <1>2, Cleared DEF sign_ok, sign_reject, env, IInv, TypeOK
  <1>3. ASSUME UNCHANGED vars PROVE IInv'
    <2>1. TypeOK'
      BY <1>3 DEF vars, env, ui, perCell, IInv, TypeOK, FieldsOK, PositionOK, AtInputs, AtSource, AtSourceData,
         AtOutputs, AtOutputsData, InputHere, MoreItems, CellsRead, cell
    <2>2. Ledger'
      BY <1>3 DEF vars, ui, IInv, Ledger, OutputTableAddsUp, HasFlag, FlagsWait, SelfLate, TagKnown, NoInternalError
    <2> QED BY <2>1, <2>2 DEF IInv
  <1> QED BY <1>1, <1>2, <1>3, ParserStepOK, CompleteStep, SwitchStep DEF Next

(* Every field of apdu_sign_state_t, the position of the parser and the    *)
(* rows of the prompt keep their types: in particular the output table is  *)
(* never indexed out of its bounds, and sign_complete has a prompt for     *)
(* every tag it meets in a transaction that was not rejected.              *)
THEOREM TypeCorrect == Spec => []TypeOK
  <1>1. IInv => TypeOK
    BY DEF IInv
  <1> QED BY <1>1, InitOK, NextOK, PTL DEF Spec

(* The output table accounts for plain_output_amount, for transactions of  *)
(* any size and kind and any capacities.                                   *)
THEOREM TableAddsUp == Spec => []OutputTableAddsUp
  <1>1. IInv => OutputTableAddsUp
    BY DEF IInv, Ledger
  <1> QED BY <1>1, InitOK, NextOK, PTL DEF Spec

(* The THROWs of output_end and outputs_end are never executed.            *)
THEOREM NoThrow == Spec => []NoInternalError
  <1>1. IInv => NoInternalError
    BY DEF IInv, Ledger
  <1> QED BY <1>1, InitOK, NextOK, PTL DEF Spec
=============================================================================
