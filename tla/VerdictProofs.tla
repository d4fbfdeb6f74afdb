---------------------------- MODULE VerdictProofs ----------------------------
(***************************************************************************)
(* Proofs about what SignTransaction makes of the cells it reads: which of *)
(* them were found standard, what the Contract row tells, and what is      *)
(* hashed and signed.                                                      *)
(***************************************************************************)
EXTENDS ReadingProofs, SequenceTheorems

-----------------------------------------------------------------------------
(* How far the parser has come: the number of inputs whose spent cell has  *)
(* had its scripts read, of those whose spent cell has been counted, and   *)
(* the same for outputs.  An input that spends nothing is passed over.     *)

InputsScripted ==
    IF at.vec \in {"outputs", "outputs_data", "end"} THEN Len(tx.inputs)
    ELSE IF at.vec = "source_data" \/ (at.vec = "source" /\ Gone) THEN at.i + 1
    ELSE at.i
InputsCounted ==
    IF at.vec \in {"outputs", "outputs_data", "end"} THEN Len(tx.inputs)
    ELSE IF at.vec = "source_data" /\ Gone THEN at.i + 1
    ELSE at.i
OutputsScripted ==
    IF at.vec \in {"outputs_data", "end"} THEN Len(tx.outputs)
    ELSE IF at.vec = "outputs" THEN at.j ELSE 0
OutputsCounted ==
    IF at.vec = "end" THEN Len(tx.outputs) ELSE IF at.vec = "outputs_data" THEN at.j ELSE 0

(* What a step does to these numbers, by the callback it makes.            *)
ScriptsEnd == at.vec = "source" /\ at.j = Index /\ at'.j = at.j + 1
DataEnd == at.cb = "finish_input_cell_data" /\ at.j = Index
InputSkipped == at.i + 1 \in DOMAIN tx.inputs \ SpentAt(tx)

-----------------------------------------------------------------------------
(* With the setting at DISALLOW since the first chunk, whatever has been   *)
(* read of a transaction that is not unsafe is standard.                   *)

SettingNoted == at # Idle /\ contract_data_type = "ALLOW" => allowed_since_first
SafeReview == at = Review => ~maybe_transaction.unsafe /\ ~maybe_transaction.hard_reject

StandardScripts(c) ==
    /\ c.lock.code_hash \in {"default", "multisig"} /\ c.lock.hash_type = "type"
    /\ HasType(c) => /\ IsDao(c) /\ c.type_.hash_type = "type" /\ c.type_.args = "empty"
StandardData(c) == c.data.size = IF IsDao(c) THEN 8 ELSE 0
StandardSoFar(c) ==
    /\ at.cb \in AfterLockCode => c.lock.code_hash \in {"default", "multisig"}
    /\ at.cb \in AfterLockHash => c.lock.hash_type = "type"
    /\ at.cb \in AfterTypeCode /\ HasType(c) => IsDao(c)
    /\ at.cb \in AfterTypeHash /\ HasType(c) => c.type_.hash_type = "type"
    /\ at.cb = "output_end" => StandardScripts(c)

Loose == maybe_transaction.unsafe \/ allowed_since_first
StandardRead ==
    at # Refused /\ ~Loose =>
        /\ \A i \in SpentAt(tx) :
                /\ i <= InputsScripted => StandardScripts(SpentCells(tx)[i])
                /\ i <= InputsCounted => StandardData(SpentCells(tx)[i])
        /\ \A n \in DOMAIN tx.outputs :
                /\ n <= OutputsScripted => StandardScripts(tx.outputs[n])
                /\ n <= OutputsCounted => StandardData(tx.outputs[n])
        /\ at.cb \in CellLevel /\ cell_state.active => StandardSoFar(cell)

-----------------------------------------------------------------------------
(* contract_type tells of the contract data counted so far.                *)

DataCounted ==
    \/ \E i \in SpentAt(tx) : i <= InputsCounted /\ HoldsContractData(SpentCells(tx)[i])
    \/ \E n \in DOMAIN tx.outputs : n <= OutputsCounted /\ HoldsContractData(tx.outputs[n])
ContractRead ==
    at # Refused /\ ~maybe_transaction.unsafe =>
        (maybe_transaction.contract_type = "UNKNOWN" <=> DataCounted)
ContractShown ==
    at = Review /\ screen.confirm = "Transaction" =>
        screen.contract \in {"no row", maybe_transaction.contract_type}


-----------------------------------------------------------------------------
(* The parser goes forward.                                                *)

LEMMA SourceMoves ==
    ASSUME PositionOK, Follow, at.vec = "source"
    PROVE  /\ at'.i = at.i
           /\ \/ at'.vec = "source" /\ at'.j = at.j
              \/ /\ at' = Position("source", "input_context_start_idx", at.i, at.j + 1)
                 /\ MoreItems /\ at.cb # "input_context_start_idx"
              \/ /\ at' = Position("source_data", "input_context_start_idx", at.i, 0)
                 /\ ~MoreItems /\ at.cb = "input_context_start_idx"
  <1> USE DEF Position, Goes
  <1>1. /\ at.cb \in {"input_context_start_idx"} \cup CellLevel /\ at.cb # "output_end" /\ InSource
        /\ at.cb \in CellLevel => MoreItems
    BY Where DEF InSource
  <1>2. CASE at.cb = "input_context_start_idx"
    BY <1>2, VectorMoves
  <1>3. CASE at.cb # "input_context_start_idx"
    BY <1>1, <1>3, CellMoves
    DEF LockEnd, CellEnd, To, NextItem, CellLevel, AfterCapacity, AfterLockCode, AfterLockHash, AfterArgs,
        AfterTypeCode, AfterTypeHash
  <1> QED BY <1>2, <1>3

LEMMA SourceDataMoves ==
    ASSUME PositionOK, Follow, at.vec = "source_data"
    PROVE  IF at.cb = "finish_context_txn" THEN at' = Position("none", "input_start", at.i + 1, 0)
           ELSE /\ at'.vec = "source_data" /\ at'.i = at.i
                /\ at'.j = IF at.cb = "finish_input_cell_data" THEN at.j + 1 ELSE at.j
  <1> USE DEF Position, Goes
  <1>1. at.cb \in {"input_context_start_idx", "set_cell_data_size", "check_cell_data_data_chunk",
                   "finish_input_cell_data", "context_blake2b_chunk", "finish_context_txn"}
    BY DEF PositionOK, AtSourceData, DataCallbacks
  <1> QED BY <1>1, VectorMoves, DataMoves

(* What the current input is.                                              *)
LEMMA InputNow ==
    ASSUME IInv, InSource
    PROVE  /\ at.i \in Nat /\ at.j \in Nat /\ at.i + 1 \in DOMAIN tx.inputs /\ Index \in Nat
           /\ at.i + 1 \in SpentAt(tx) <=> Index < Len(CellsRead)
           /\ at.i + 1 \in SpentAt(tx) => SpentCells(tx)[at.i + 1] = SpentNow
           /\ CellsRead = tx.inputs[at.i + 1].source
  <1>1. /\ at.i \in Nat /\ at.j \in Nat /\ at.i < Len(tx.inputs) /\ CellsRead = tx.inputs[at.i + 1].source
        /\ tx \in AnnotatedTransaction
    BY Where DEF IInv, TypeOK, InSource, InputHere, CellsRead
  <1>2. tx.inputs \in Seq(AnnotatedInput)
    BY <1>1 DEF AnnotatedTransaction, NonEmptySeq
  <1>3. at.i + 1 \in DOMAIN tx.inputs /\ tx.inputs[at.i + 1] \in AnnotatedInput
    BY <1>1, <1>2
  <1> QED BY <1>1, <1>3 DEF Index, SpentAt, SpentCells, SpentNow, AnnotatedInput

(* The four numbers change when a spent cell or an output is done with,    *)
(* and when an input that spends nothing is passed over.                   *)
LEMMA ScriptsProgress ==
    ASSUME IInv, Reading, Follow, tx' = tx
    PROVE  \/ /\ ScriptsEnd /\ at.i + 1 \in SpentAt(tx)
              /\ InputsScripted = at.i /\ InputsScripted' = at.i + 1
           \/ ~ScriptsEnd /\ InputsScripted' = InputsScripted
           \/ /\ ~ScriptsEnd /\ at.vec = "source" /\ InputSkipped
              /\ InputsScripted = at.i /\ InputsScripted' = at.i + 1
  <1> USE DEF Position
  <1>1. PositionOK /\ at.i \in Nat /\ at.j \in Nat /\ at.vec \in Vectors
    BY Where DEF IInv, TypeOK
  <1>2. at'.i = at.i => Index' = Index
    BY DEF Index
  <1>3. CASE at.vec = "source"
    <2>1. /\ Index \in Nat /\ Len(CellsRead) \in Nat
          /\ at.i + 1 \in SpentAt(tx) <=> Index < Len(CellsRead)
          /\ at.i + 1 \in DOMAIN tx.inputs
      BY <1>1, <1>3, InputNow, Lengths DEF InSource, IInv, TypeOK
    <2> QED BY <1>1, <1>2, <1>3, <2>1, SourceMoves DEF InputsScripted, ScriptsEnd, InputSkipped, Gone, MoreItems
  <1>4. CASE at.vec = "source_data"
    BY <1>1, <1>2, <1>4, SourceDataMoves DEF InputsScripted, ScriptsEnd, Gone
  <1>5. CASE at.vec = "none"
    <2>1. at'.vec \in {"none", "source"} => at'.i = at.i /\ (at'.vec = "source" => at'.j = 0)
      BY <1>1, <1>5, HeadMoves, Where DEF Goes, HeadCallbacks, InputCallbacks
    <2>2. at.cb = "finish_inputs" => at.i = Len(tx.inputs)
      BY DEF Reading, EndsReached
    <2>3. at'.vec = "source" => Index' \in Nat
      BY <1>1, <1>5, <2>1, HeadMoves, IndexRead, Where DEF Goes, HeadCallbacks, InputCallbacks, Index, IInv, TypeOK
    <2> QED BY <1>1, <1>5, <2>1, <2>2, <2>3, VectorsInOrder DEF InputsScripted, ScriptsEnd, Gone
  <1>6. CASE at.vec \in {"outputs", "outputs_data"}
    BY <1>1, <1>6, VectorsInOrder DEF InputsScripted, ScriptsEnd
  <1> QED BY <1>1, <1>3, <1>4, <1>5, <1>6, VectorsInOrder DEF Vectors

LEMMA CountProgress ==
    ASSUME IInv, Reading, Follow, tx' = tx
    PROVE  \/ /\ DataEnd /\ at.i + 1 \in SpentAt(tx)
              /\ InputsCounted = at.i /\ InputsCounted' = at.i + 1
           \/ ~DataEnd /\ InputsCounted' = InputsCounted
           \/ /\ at.cb = "finish_context_txn" /\ InputSkipped
              /\ InputsCounted = at.i /\ InputsCounted' = at.i + 1
  <1> USE DEF Position
  <1>1. PositionOK /\ at.i \in Nat /\ at.j \in Nat /\ at.vec \in Vectors
    BY Where DEF IInv, TypeOK
  <1>2. at'.i = at.i => Index' = Index
    BY DEF Index
  <1>3. at.cb = "finish_input_cell_data" => at.vec = "source_data" /\ MoreItems
    BY <1>1, Where
  <1>4. CASE at.vec = "source_data"
    <2>1. /\ Index \in Nat /\ Len(CellsRead) \in Nat
          /\ at.i + 1 \in SpentAt(tx) <=> Index < Len(CellsRead)
          /\ at.i + 1 \in DOMAIN tx.inputs
      BY <1>1, <1>4, InputNow, Lengths DEF InSource, IInv, TypeOK
    <2>2. at.cb = "finish_context_txn" => at.j = Len(CellsRead)
      BY DEF Reading, EndsReached
    <2> QED BY <1>1, <1>2, <1>3, <1>4, <2>1, <2>2, SourceDataMoves
        DEF InputsCounted, DataEnd, InputSkipped, Gone, MoreItems
  <1>5. CASE at.vec = "source"
    <2>1. Index \in Nat
      BY <1>5, InputNow DEF InSource
    <2> QED BY <1>1, <1>2, <1>3, <1>5, <2>1, SourceMoves DEF InputsCounted, DataEnd, Gone
  <1>6. CASE at.vec = "none"
    <2>1. at'.vec \in {"none", "source"} => at'.i = at.i
      BY <1>1, <1>6, HeadMoves, Where DEF Goes, HeadCallbacks, InputCallbacks
    <2>2. at.cb = "finish_inputs" => at.i = Len(tx.inputs)
      BY DEF Reading, EndsReached
    <2> QED BY <1>1, <1>3, <1>6, <2>1, <2>2, VectorsInOrder DEF InputsCounted, DataEnd
  <1>7. CASE at.vec \in {"outputs", "outputs_data"}
    BY <1>1, <1>3, <1>7, VectorsInOrder DEF InputsCounted, DataEnd
  <1> QED BY <1>1, <1>4, <1>5, <1>6, <1>7, VectorsInOrder DEF Vectors

LEMMA OutputProgress ==
    ASSUME IInv, Reading, Follow, tx' = tx
    PROVE  /\ IF at.cb = "output_end"
              THEN OutputsScripted = at.j /\ OutputsScripted' = at.j + 1
              ELSE OutputsScripted' = OutputsScripted
           /\ IF at.cb = "finish_output_cell_data"
              THEN OutputsCounted = at.j /\ OutputsCounted' = at.j + 1
              ELSE OutputsCounted' = OutputsCounted
           /\ at.cb \in {"output_end", "finish_output_cell_data"} =>
                at.j + 1 \in DOMAIN tx.outputs /\ cell = tx.outputs[at.j + 1]
  <1> USE DEF Position, Goes
  <1>1. PositionOK /\ at.i \in Nat /\ at.j \in Nat /\ at.vec \in Vectors
    BY Where DEF IInv, TypeOK
  <1>2. /\ at.cb = "output_end" => at.vec = "outputs" /\ MoreItems
        /\ at.cb = "finish_output_cell_data" => at.vec = "outputs_data" /\ MoreItems
    BY <1>1, Where
  <1>3. at.cb \in {"output_end", "finish_output_cell_data"} =>
            at.j + 1 \in DOMAIN tx.outputs /\ cell = tx.outputs[at.j + 1]
    <2>1. tx.outputs \in Seq(Cell)
      BY DEF IInv, TypeOK, AnnotatedTransaction, NonEmptySeq
    <2> QED BY <1>1, <1>2, <2>1 DEF MoreItems, CellsRead, cell
  <1>4. CASE at.vec = "outputs"
    <2>1. \/ at'.vec = "outputs" /\ at'.j = (IF at.cb = "output_end" THEN at.j + 1 ELSE at.j)
          \/ at'.vec = "outputs_data" /\ at'.j = 0 /\ at.cb = "outputs_end"
      <3>1. at.cb \in {"output_start", "outputs", "outputs_end"} \cup CellLevel /\ ~InSource
        BY <1>1, <1>4
        DEF PositionOK, AtOutputs, InSource, CellCallbacks, TypeCallbacks, CellLevel, AfterCapacity, AfterLockCode,
            AfterLockHash, AfterArgs, AfterTypeCode, AfterTypeHash
      <3>2. at.cb \in CellLevel \ {"output_end"} => at'.vec = at.vec /\ at'.j = at.j
        BY <1>4, <3>1, CellMoves
        DEF LockEnd, CellEnd, To, NextItem, CellLevel, AfterCapacity, AfterLockCode, AfterLockHash, AfterArgs,
            AfterTypeCode, AfterTypeHash
      <3>3. at.cb \in {"output_start", "outputs", "outputs_end", "output_end"} =>
              at'.vec = (IF at.cb = "outputs_end" THEN "outputs_data" ELSE at.vec)
              /\ at'.j = IF at.cb = "outputs_end" THEN 0 ELSE IF at.cb = "output_end" THEN at.j + 1 ELSE at.j
        BY VectorMoves, CellMoves
      <3> QED BY <1>4, <3>1, <3>2, <3>3
    <2>2. at.cb = "outputs_end" => at.j = Len(tx.outputs)
      BY DEF Reading, EndsReached
    <2> QED BY <1>1, <1>2, <1>3, <1>4, <2>1, <2>2 DEF OutputsScripted, OutputsCounted
  <1>5. CASE at.vec = "outputs_data"
    <2>1. at.cb \in {"validate_output_data_start", "outputs_data", "finalize_raw_transaction", "witnesses",
                     "last_chunk", "finish_output_cell_data"} \cup DataCallbacks
      BY <1>1, <1>5 DEF PositionOK, AtOutputsData
    <2>2. at'.vec = at.vec /\ at'.j = IF at.cb = "finish_output_cell_data" THEN at.j + 1 ELSE at.j
      BY <1>5, <2>1, VectorMoves, DataMoves DEF DataCallbacks, InSource
    <2> QED BY <1>1, <1>2, <1>3, <1>5, <2>2 DEF OutputsScripted, OutputsCounted
  <1>6. CASE at.vec \in {"none", "source", "source_data"}
    BY <1>1, <1>2, <1>3, <1>6, VectorsInOrder DEF OutputsScripted, OutputsCounted
  <1> QED BY <1>1, <1>4, <1>5, <1>6, VectorsInOrder DEF Vectors

-----------------------------------------------------------------------------
(* Verdicts.                                                               *)

(* A rejection is not taken back, and only the end of a cell's data says   *)
(* something of contract data.                                             *)
LEMMA VerdictsStay ==
    ASSUME IInv, ParserStep
    PROVE  /\ maybe_transaction.unsafe => maybe_transaction'.unsafe
           /\ maybe_transaction.hard_reject => maybe_transaction'.hard_reject
           /\ at.cb \notin {"finish_input_cell_data", "finish_output_cell_data"} =>
                maybe_transaction'.contract_type = maybe_transaction.contract_type
  <1>1. maybe_transaction \in MaybeTransaction
    BY DEF IInv, TypeOK, FieldsOK
  <1> USE <1>1 DEF MaybeTransaction, Reject, RejectIf, RejectHard, RejectUnlessAllowed
  <1>2. CASE Prologue \/ Inputs
    BY <1>2 DEF Prologue, set_sign_path, set_change_path, init_bip32_rejects, set_input_count,
       computeNewOffsetsToHash, blake2b_chunk, Inputs, inputs_start, input_start, blake2b_input_count,
       input_save_index, input_context_start_idx, context_blake2b_chunk, finish_context_txn, finish_inputs
  <1>3. CASE CellScripts
    BY <1>3 DEF CellScripts, cell_capacity, cell_lock_code_hash, cell_script_hash_type, script_arg_start_input,
       script_arg_chunk, input_lock_arg_end, cell_type_code_hash, cell_type_arg_length
  <1>4. CASE CellsData \/ InactiveCell
    <2>1. CASE set_cell_data_size \/ check_cell_data_data_chunk \/ InactiveCell
      BY <2>1 DEF set_cell_data_size, check_cell_data_data_chunk, InactiveCell
    <2>2. CASE finish_input_cell_data_dao \/ finish_input_cell_data_plain
      BY <2>2, CellCallbacksOf DEF finish_input_cell_data_dao, finish_input_cell_data_plain, NoteContractData
    <2> QED BY <1>4, <2>1, <2>2 DEF CellsData
  <1>5. CASE Outputs
    <2>1. CASE output_end
      BY <2>1 DEF output_end, output_end_dao, output_end_change, output_end_first, output_end_same, output_end_other,
         SetFlag
    <2>2. CASE finish_output_cell_data
      BY <2>2, OutputCallbacksOf DEF finish_output_cell_data, NoteContractData
    <2>3. CASE output_start \/ outputs_end \/ validate_output_data_start
      BY <2>3 DEF output_start, outputs_end, validate_output_data_start
    <2> QED BY <1>5, <2>1, <2>2, <2>3 DEF Outputs
  <1>6. CASE finalize_raw_transaction \/ witnesses
    BY <1>6 DEF finalize_raw_transaction, finalize_single_source, finalize_multi_source, finalize_multi_output,
       finalize_dao_deposit, finalize_dao_prepare, finalize_dao_withdraw, Finalize, witnesses
  <1> QED BY <1>2, <1>3, <1>4, <1>5, <1>6 DEF ParserStep

(* With the setting at DISALLOW, a cell whose scripts are read without a   *)
(* REJECT has standard scripts.                                            *)
LEMMA StandardScriptsStep ==
    ASSUME IInv, CellScripts, Follow, NEW c \in Cell, c = cell, contract_data_type = "DISALLOW",
           ~maybe_transaction'.unsafe, StandardSoFar(c)
    PROVE  \/ at'.vec = at.vec /\ at'.cb \in CellLevel /\ StandardSoFar(c)'
           \/ InSource /\ at'.cb = "input_context_start_idx" /\ StandardScripts(c)
  <1> USE DEF Goes, Position
  <1>1. /\ maybe_transaction \in MaybeTransaction /\ at.cb \in CellLevel
        /\ at.cb \in SourceCallbacks => InSource
        /\ at.cb \in AfterTypeCode /\ at.cb # "output_end" => HasType(c)
    BY CellCallbacksOf, Where
    DEF CellScripts, IInv, TypeOK, FieldsOK, CellLevel, AfterCapacity, AfterLockCode, AfterLockHash, AfterArgs,
        AfterTypeCode, AfterTypeHash, InSource
  <1> USE DEF AfterCapacity, AfterLockCode, AfterLockHash, AfterArgs, AfterTypeCode, AfterTypeHash,
              MaybeTransaction, RejectIf, RejectUnlessAllowed
  <1>2. CASE cell_capacity
    BY <1>1, <1>2, CellMoves, CellCallbacksOf DEF StandardSoFar, CellLevel
  <1>3. CASE cell_lock_code_hash
    <2>1. c.lock.code_hash \in {"default", "multisig"}
      BY <1>1, <1>3 DEF cell_lock_code_hash
    <2> QED BY <1>1, <1>3, <2>1, CellMoves, CellCallbacksOf DEF StandardSoFar, CellLevel
  <1>4. CASE cell_script_hash_type
    <2>1. CASE at.cb = "lock_hash_type"
      <3>1. c.lock.hash_type = "type"
        BY <1>1, <1>4, <2>1 DEF cell_script_hash_type, ParseActive, Parse
      <3> QED BY <1>1, <2>1, <3>1, CellMoves DEF StandardSoFar, CellLevel
    <2>2. CASE at.cb = "type_hash_type"
      <3>1. c.type_.hash_type = "type"
        BY <1>1, <1>4, <2>2 DEF cell_script_hash_type, ParseActive, Parse
      <3> QED BY <1>1, <2>2, <3>1, CellMoves DEF StandardSoFar, CellLevel
    <2> QED BY <1>4, <2>1, <2>2, CellCallbacksOf
  <1>5. CASE script_arg_start_input
    BY <1>1, <1>5, CellMoves, CellCallbacksOf DEF StandardSoFar, CellLevel
  <1>6. CASE script_arg_chunk \/ input_lock_arg_end
    <2>1. /\ at.cb \in {"script_arg_chunk", "input_lock_arg_end"}
          /\ Goes("input_lock_arg_end") \/ LockEnd
      BY <1>6, CellMoves, CellCallbacksOf
    <2>2. c.lock.code_hash \in {"default", "multisig"} /\ c.lock.hash_type = "type"
      BY <2>1 DEF StandardSoFar
    <2>3. CASE Goes("input_lock_arg_end")
      BY <1>1, <2>2, <2>3 DEF StandardSoFar, CellLevel
    <2>4. CASE LockEnd /\ HasType(c)
      BY <1>1, <2>2, <2>4 DEF LockEnd, To, StandardSoFar, CellLevel
    <2>5. CASE LockEnd /\ ~HasType(c)
      <3>1. StandardScripts(c)
        BY <2>2, <2>5 DEF StandardScripts
      <3> QED BY <1>1, <2>2, <2>5, <3>1 DEF LockEnd, CellEnd, To, NextItem, StandardSoFar, CellLevel
    <2> QED BY <2>1, <2>3, <2>4, <2>5
  <1>7. CASE cell_type_code_hash
    <2>1. IsDao(c)
      BY <1>1, <1>7 DEF cell_type_code_hash, IsDao
    <2> QED BY <1>1, <1>7, <2>1, CellMoves, CellCallbacksOf DEF StandardSoFar, CellLevel
  <1>8. CASE cell_type_arg_length
    <2>1. c.type_.args = "empty"
      BY <1>1, <1>8 DEF cell_type_arg_length, Cell, TypeScript
    <2>2. StandardScripts(c)
      BY <1>1, <1>8, <2>1, CellCallbacksOf DEF StandardSoFar, StandardScripts
    <2> QED BY <1>1, <1>8, <2>2, CellMoves, CellCallbacksOf
        DEF CellEnd, To, NextItem, StandardSoFar, StandardScripts, CellLevel
  <1> QED BY <1>2, <1>3, <1>4, <1>5, <1>6, <1>7, <1>8 DEF CellScripts

-----------------------------------------------------------------------------
(* What is known of a cell when its data, or an output, ends.              *)

LEMMA SpentDataEnds ==
    ASSUME IInv, Reading, ParserStep, at.cb = "finish_input_cell_data"
    PROVE  IF DataEnd
           THEN /\ finish_input_cell_data_dao \/ finish_input_cell_data_plain
                /\ SpentNow = cell /\ WholeCell(SpentNow, tx.signPath) /\ SpentNow \in Cell
                /\ cell_state.dao_data_is_nonzero <=> SpentNow.data.nonzero
                /\ cell_state.data_size = IF SpentNow.data.size < 15 THEN SpentNow.data.size ELSE 15
           ELSE UNCHANGED <<cell_state, lock_arg_tmp, dao_cell_owner, maybe_transaction, inp, sums, utx>>
  <1>1. /\ at.vec = "source_data" /\ MoreItems /\ at.j \in Nat /\ PositionOK /\ SourceDataKnown /\ SizeKnown
        /\ cell_state.active <=> at.j = Index
    BY Where DEF IInv, TypeOK, Reading, InputKnown, SourceDataKnown
  <1>2. CASE DataEnd
    <2>1. SpentNow = cell
      BY <1>1, <1>2 DEF SpentNow, cell, CellsRead, DataEnd
    <2>2. finish_input_cell_data_dao \/ finish_input_cell_data_plain
      BY <1>1, <1>2, SourceDataActions DEF DataEnd
    <2>3. SpentNow \in Cell
      BY <1>1, <2>1, CellRead DEF IInv, TypeOK, MoreItems
    <2>4. Index < Len(CellsRead)
      BY <1>1, <1>2 DEF DataEnd, MoreItems
    <2> QED BY <1>1, <1>2, <2>1, <2>2, <2>3, <2>4 DEF SourceDataKnown, SizeKnown, DataEnd, Gone
  <1>3. CASE ~DataEnd
    BY <1>1, <1>3, SourceDataActions DEF DataEnd, InactiveCell, perCell
  <1> QED BY <1>2, <1>3

LEMMA OutputDataEnds ==
    ASSUME IInv, Reading, ParserStep, Follow, tx' = tx, at.cb = "finish_output_cell_data"
    PROVE  /\ finish_output_cell_data
           /\ cell = tx.outputs[at.j + 1] /\ at.j + 1 \in DOMAIN tx.outputs /\ cell \in Cell
           /\ cell_state.is_dao <=> IsDao(cell)
           /\ cell_state.dao_data_is_nonzero <=> NonzeroAmong(at.j + 1)
           /\ cell_state.data_size = IF cell.data.size < 15 THEN cell.data.size ELSE 15
  <1>1. /\ at.vec = "outputs_data" /\ MoreItems /\ PositionOK /\ OutputsDataKnown /\ SizeKnown
    BY Where DEF IInv, TypeOK, Reading
  <1>2. finish_output_cell_data
    BY <1>1, OutputsDataActions DEF OutputsDataKnown
  <1>3. cell \in Cell
    BY <1>1, CellRead DEF IInv, TypeOK, MoreItems
  <1> QED BY <1>1, <1>2, <1>3, OutputProgress DEF OutputsDataKnown, SizeKnown

LEMMA OutputEnds ==
    ASSUME IInv, Reading, ParserStep, at.cb = "output_end"
    PROVE  /\ output_end /\ WholeCell(cell, tx.changePath) /\ utx.current_output_index = at.j
           /\ cell \in Cell /\ cell = tx.outputs[at.j + 1] /\ cell_state.active
  <1>1. /\ at.vec = "outputs" /\ MoreItems /\ PositionOK /\ OutputsKnown
    BY Where DEF IInv, TypeOK, Reading
  <1>2. output_end
    BY <1>1, OutputsActions DEF OutputsKnown
  <1>3. cell \in Cell
    BY <1>1, CellRead DEF IInv, TypeOK, MoreItems
  <1>4. cell = tx.outputs[at.j + 1]
    BY <1>1 DEF cell, CellsRead
  <1> QED BY <1>1, <1>2, <1>3, <1>4
      DEF OutputsKnown, CellSoFar, WholeCell, CellLevel, AfterCapacity, AfterLockCode, AfterLockHash, AfterArgs,
          AfterTypeCode, AfterTypeHash

(* The end of the scripts of the cell an input spends.                     *)
LEMMA SpentScriptsEnd ==
    ASSUME IInv, Reading, ParserStep, Follow, ScriptsEnd
    PROVE  CellScripts /\ at.cb \in CellLevel /\ cell_state.active /\ SpentNow = cell /\ SpentNow \in Cell
  <1>1. PositionOK /\ at.vec = "source" /\ at.j = Index /\ at.j \in Nat /\ SourceKnown
    BY Where DEF IInv, TypeOK, Reading, InputKnown, ScriptsEnd
  <1>2. at.cb # "input_context_start_idx" /\ MoreItems
    BY <1>1, SourceMoves DEF ScriptsEnd, Position
  <1>3. SpentNow = cell
    BY <1>1 DEF SpentNow, cell, CellsRead
  <1>4. SpentNow \in Cell
    BY <1>1, <1>2, <1>3, CellRead DEF IInv, TypeOK, MoreItems
  <1> QED BY <1>1, <1>2, <1>3, <1>4, SourceActions DEF SourceKnown

-----------------------------------------------------------------------------
(* StandardRead.                                                           *)

(* A cell's data that ends without a REJECT is standard.                   *)
LEMMA StandardDataEnds ==
    ASSUME NEW c \in Cell, cell_state.is_dao <=> IsDao(c), maybe_transaction \in MaybeTransaction,
           cell_state.data_size = IF c.data.size < 15 THEN c.data.size ELSE 15,
           contract_data_type = "DISALLOW", ~maybe_transaction'.unsafe,
           finish_input_cell_data_dao \/ finish_input_cell_data_plain \/ finish_output_cell_data
    PROVE  StandardData(c)
  <1>1. c.data.size \in Nat
    BY CellFields
  <1>2. cell_state.data_size = IF IsDao(c) THEN 8 ELSE 0
    <2>1. CASE finish_input_cell_data_dao
      BY <2>1 DEF finish_input_cell_data_dao, Reject, MaybeTransaction
    <2>2. CASE finish_input_cell_data_plain
      BY <2>2 DEF finish_input_cell_data_plain, NoteContractData, MaybeTransaction
    <2>3. CASE finish_output_cell_data
      BY <2>3 DEF finish_output_cell_data, NoteContractData, Reject, MaybeTransaction
    <2> QED BY <2>1, <2>2, <2>3
  <1> QED BY <1>1, <1>2 DEF StandardData

(* A cell that is still to be read has had nothing to reject.              *)
LEMMA CellBegins ==
    ASSUME IInv, Reading, ParserStep, Follow, tx' = tx, at'.cb \in CellLevel, cell_state'.active
    PROVE  \/ at'.cb = "cell_capacity"
           \/ CellScripts /\ at.cb \in CellLevel /\ cell_state.active /\ cell' = cell
  <1> USE DEF Position, Goes, CellLevel, AfterCapacity, AfterLockCode, AfterLockHash, AfterArgs,
            AfterTypeCode, AfterTypeHash
  <1>1. PositionOK /\ at.vec \in Vectors
    BY Where DEF IInv, TypeOK
  <1>2. CASE at.vec = "source"
    <2>1. CASE at.cb = "input_context_start_idx"
      BY <1>2, <2>1, VectorMoves
    <2>2. CASE CellScripts /\ at.cb \in CellLevel /\ cell_state.active
      <3>1. at'.vec = at.vec /\ at'.i = at.i /\ at'.j = at.j
        BY <1>1, <1>2, SourceMoves
      <3> QED BY <2>2, <3>1 DEF cell, CellsRead
    <2>3. CASE InactiveCell /\ ~cell_state.active
      BY <2>3 DEF InactiveCell, perCell
    <2> QED BY <1>1, <1>2, <2>1, <2>2, <2>3, SourceActions
  <1>3. CASE at.vec = "outputs"
    <2>1. CASE output_start /\ at.cb = "output_start"
      BY <2>1, VectorMoves
    <2>2. CASE CellScripts /\ at.cb \in CellLevel /\ at.cb # "output_end" /\ cell_state.active
      <3>1. at'.vec = at.vec /\ at'.i = at.i /\ at'.j = at.j
        BY <1>3, <2>2, CellMoves DEF LockEnd, CellEnd, To, NextItem, InSource
      <3> QED BY <2>2, <3>1 DEF cell, CellsRead
    <2>3. CASE at.cb \in {"output_end", "outputs", "outputs_end"}
      BY <2>3, VectorMoves, CellMoves
    <2>4. CASE InactiveCell /\ ~cell_state.active
      BY <2>4 DEF InactiveCell, perCell
    <2> QED BY <1>1, <1>3, <2>1, <2>2, <2>3, <2>4, OutputsActions
  <1>4. CASE at.vec \in {"none", "source_data", "outputs_data"}
    <2>1. at.cb \notin CellLevel /\ at.vec # "source" /\ at.cb # "output_start"
      BY <1>1, <1>4, Where
    <2>2. at'.cb \in CellLevel => at.cb \in CellLevel \/ at.cb = "output_start" \/ at'.cb = "cell_capacity"
      BY DEF Follow, Straight, Then, To, FollowInputs, FollowVectors, FollowCell, Enter, NextItem, LockEnd, CellEnd
    <2> QED BY <2>1, <2>2
  <1> QED BY <1>1, <1>2, <1>3, <1>4, VectorsInOrder DEF Vectors

LEMMA StandardStep ==
    ASSUME IInv, Reading, SettingNoted, StandardRead, ParserStep
    PROVE  StandardRead'
  <1>1. UNCHANGED env
    BY StepShape
  <1> SUFFICES ASSUME at' # Refused, ~Loose' PROVE StandardRead'
    BY DEF StandardRead
  <1>2. Follow /\ tx' = tx
    BY <1>1, StepShape DEF env
  <1>3. PositionOK /\ maybe_transaction \in MaybeTransaction /\ at # Refused /\ at # Idle
        /\ at.i \in Nat /\ at.j \in Nat
    BY <1>2, HeadMoves, DataMoves, Where DEF IInv, TypeOK, FieldsOK, Refused, Idle, Position
  <1>4. ~Loose /\ contract_data_type = "DISALLOW" /\ ~maybe_transaction'.unsafe
    BY <1>1, <1>3, VerdictsStay DEF Loose, env, SettingNoted, IInv, TypeOK
  <1>5. SpentAt(tx)' = SpentAt(tx) /\ SpentCells(tx)' = SpentCells(tx)
        /\ tx'.outputs = tx.outputs
    BY <1>2
  <1>6. ASSUME NEW i \in SpentAt(tx)
        PROVE  i <= InputsScripted' => StandardScripts(SpentCells(tx)[i])
    <2>1. i \in Nat /\ (i <= InputsScripted => StandardScripts(SpentCells(tx)[i]))
      BY <1>3, <1>4 DEF SpentAt, StandardRead, IInv, TypeOK, AnnotatedTransaction, NonEmptySeq
    <2>2. CASE ScriptsEnd /\ InputsScripted = at.i /\ InputsScripted' = at.i + 1
      <3> PICK c : c = SpentNow
        OBVIOUS
      <3>1. CellScripts /\ at.cb \in CellLevel /\ cell_state.active /\ c = cell /\ c \in Cell
        BY <1>2, <2>2, SpentScriptsEnd
      <3>2. StandardSoFar(c)
        BY <1>3, <1>4, <3>1 DEF StandardRead
      <3>3. at'.cb = "input_context_start_idx"
        BY <1>2, <1>3, <2>2, SourceMoves DEF ScriptsEnd, Position
      <3>4. at'.cb \notin CellLevel
        BY <3>3 DEF CellLevel, AfterCapacity, AfterLockCode, AfterLockHash, AfterArgs, AfterTypeCode, AfterTypeHash
      <3>5. StandardScripts(c)
        BY <1>2, <1>4, <3>1, <3>2, <3>4, StandardScriptsStep
      <3>6. i = at.i + 1 => SpentCells(tx)[i] = c
        BY <2>2, InputNow DEF ScriptsEnd, InSource
      <3> QED BY <1>3, <2>1, <2>2, <3>5, <3>6
    <2>3. CASE InputSkipped /\ InputsScripted = at.i /\ InputsScripted' = at.i + 1
      BY <1>3, <2>1, <2>3 DEF InputSkipped
    <2> QED BY <1>2, <2>1, <2>2, <2>3, ScriptsProgress
  <1>7. ASSUME NEW i \in SpentAt(tx)
        PROVE  i <= InputsCounted' => StandardData(SpentCells(tx)[i])
    <2>1. i \in Nat /\ (i <= InputsCounted => StandardData(SpentCells(tx)[i]))
      BY <1>3, <1>4 DEF SpentAt, StandardRead, IInv, TypeOK, AnnotatedTransaction, NonEmptySeq
    <2>2. CASE DataEnd /\ InputsCounted = at.i /\ InputsCounted' = at.i + 1
      <3> PICK c : c = SpentNow
        OBVIOUS
      <3>1. /\ finish_input_cell_data_dao \/ finish_input_cell_data_plain
            /\ c \in Cell /\ (cell_state.is_dao <=> IsDao(c))
            /\ cell_state.data_size = IF c.data.size < 15 THEN c.data.size ELSE 15
        BY <2>2, SpentDataEnds DEF DataEnd, WholeCell
      <3>2. StandardData(c)
        BY <1>3, <1>4, <3>1, StandardDataEnds
      <3>3. i = at.i + 1 => SpentCells(tx)[i] = c
        BY <1>3, <2>2, InputNow, Where DEF DataEnd, InSource
      <3> QED BY <1>3, <2>1, <2>2, <3>2, <3>3
    <2>3. CASE InputSkipped /\ InputsCounted = at.i /\ InputsCounted' = at.i + 1
      BY <1>3, <2>1, <2>3 DEF InputSkipped
    <2> QED BY <1>2, <2>1, <2>2, <2>3, CountProgress
  <1>8. ASSUME NEW n \in DOMAIN tx.outputs
        PROVE  n <= OutputsScripted' => StandardScripts(tx.outputs[n])
    <2>1. n \in Nat /\ (n <= OutputsScripted => StandardScripts(tx.outputs[n]))
      BY <1>3, <1>4 DEF StandardRead, IInv, TypeOK, AnnotatedTransaction, NonEmptySeq
    <2>2. CASE at.cb = "output_end"
      <3>1. /\ OutputsScripted = at.j /\ OutputsScripted' = at.j + 1
            /\ cell = tx.outputs[at.j + 1] /\ cell_state.active
        BY <1>2, <2>2, OutputProgress, OutputEnds
      <3>2. StandardScripts(cell)
        BY <1>3, <1>4, <2>2, <3>1
        DEF StandardRead, StandardSoFar, CellLevel, AfterCapacity, AfterLockCode, AfterLockHash, AfterArgs,
            AfterTypeCode, AfterTypeHash
      <3> QED BY <1>3, <2>1, <3>1, <3>2
    <2> QED BY <1>2, <2>1, <2>2, OutputProgress
  <1>9. ASSUME NEW n \in DOMAIN tx.outputs
        PROVE  n <= OutputsCounted' => StandardData(tx.outputs[n])
    <2>1. n \in Nat /\ (n <= OutputsCounted => StandardData(tx.outputs[n]))
      BY <1>3, <1>4 DEF StandardRead, IInv, TypeOK, AnnotatedTransaction, NonEmptySeq
    <2>2. CASE at.cb = "finish_output_cell_data"
      <3> PICK c : c = cell
        OBVIOUS
      <3>1. /\ OutputsCounted = at.j /\ OutputsCounted' = at.j + 1 /\ c = tx.outputs[at.j + 1]
        BY <1>2, <2>2, OutputProgress
      <3>2. /\ finish_output_cell_data /\ c \in Cell /\ (cell_state.is_dao <=> IsDao(c))
            /\ cell_state.data_size = IF c.data.size < 15 THEN c.data.size ELSE 15
        BY <1>2, <2>2, OutputDataEnds
      <3>3. StandardData(c)
        BY <1>3, <1>4, <3>2, StandardDataEnds
      <3> QED BY <1>3, <2>1, <3>1, <3>3
    <2> QED BY <1>2, <2>1, <2>2, OutputProgress
  <1>10. at'.cb \in CellLevel /\ cell_state'.active => StandardSoFar(cell)'
    <2> SUFFICES ASSUME at'.cb \in CellLevel, cell_state'.active PROVE StandardSoFar(cell)'
      OBVIOUS
    <2>1. CASE at'.cb = "cell_capacity"
      BY <2>1
      DEF StandardSoFar, AfterCapacity, AfterLockCode, AfterLockHash, AfterArgs, AfterTypeCode, AfterTypeHash
    <2>2. CASE CellScripts /\ at.cb \in CellLevel /\ cell_state.active /\ cell' = cell
      <3> PICK c : c = cell
        OBVIOUS
      <3>1. StandardSoFar(c)
        BY <1>3, <1>4, <2>2 DEF StandardRead
      <3>2. c \in Cell
        BY <1>3, <2>2, CellRead, Where DEF IInv, TypeOK, MoreItems
      <3>3. "input_context_start_idx" \notin CellLevel
        BY DEF CellLevel, AfterCapacity, AfterLockCode, AfterLockHash, AfterArgs, AfterTypeCode, AfterTypeHash
      <3>4. StandardSoFar(c)'
        BY <1>2, <1>4, <2>2, <3>1, <3>2, <3>3, StandardScriptsStep
      <3> QED BY <2>2, <3>4
    <2> QED BY <1>2, <2>1, <2>2, CellBegins
  <1> QED BY <1>5, <1>6, <1>7, <1>8, <1>9, <1>10 DEF StandardRead

-----------------------------------------------------------------------------
(* ContractRead.                                                           *)

(* A cell's data that ends without a REJECT is noted if it is contract     *)
(* data.                                                                   *)
LEMMA DataNoted ==
    ASSUME NEW c \in Cell, cell_state.is_dao <=> IsDao(c), maybe_transaction \in MaybeTransaction,
           cell_state.data_size = IF c.data.size < 15 THEN c.data.size ELSE 15,
           contract_data_type \in {"ALLOW", "DISALLOW"}, ~maybe_transaction'.unsafe,
           finish_input_cell_data_dao \/ finish_input_cell_data_plain \/ finish_output_cell_data
    PROVE  maybe_transaction'.contract_type = "UNKNOWN" <=>
                maybe_transaction.contract_type = "UNKNOWN" \/ HoldsContractData(c)
  <1>1. c.data.size \in Nat
    BY CellFields
  <1>2. maybe_transaction'.contract_type =
            IF ~cell_state.is_dao /\ cell_state.data_size # 0 THEN "UNKNOWN" ELSE maybe_transaction.contract_type
    <2>1. CASE finish_input_cell_data_dao
      BY <2>1 DEF finish_input_cell_data_dao, Reject, MaybeTransaction
    <2>2. CASE finish_input_cell_data_plain
      BY <2>2 DEF finish_input_cell_data_plain, NoteContractData, MaybeTransaction
    <2>3. CASE finish_output_cell_data
      BY <2>3 DEF finish_output_cell_data, NoteContractData, Reject, MaybeTransaction
    <2> QED BY <2>1, <2>2, <2>3
  <1> QED BY <1>1, <1>2 DEF HoldsContractData

LEMMA ContractStep ==
    ASSUME IInv, Reading, ContractRead, ParserStep
    PROVE  ContractRead'
  <1>1. UNCHANGED env
    BY StepShape
  <1> SUFFICES ASSUME at' # Refused, ~maybe_transaction'.unsafe PROVE ContractRead'
    BY DEF ContractRead
  <1>2. Follow /\ tx' = tx
    BY <1>1, StepShape DEF env
  <1>3. /\ PositionOK /\ maybe_transaction \in MaybeTransaction /\ at # Refused
        /\ contract_data_type \in {"ALLOW", "DISALLOW"} /\ at.i \in Nat /\ at.j \in Nat
    BY <1>2, DataMoves, Where DEF IInv, TypeOK, FieldsOK, Refused, Position
  <1>4. maybe_transaction.contract_type = "UNKNOWN" <=> DataCounted
    BY <1>3, VerdictsStay DEF ContractRead
  <1> DEFINE unknown == maybe_transaction.contract_type = "UNKNOWN"
             spent(i) == HoldsContractData(SpentCells(tx)[i])
             paid(n) == HoldsContractData(tx.outputs[n])
  <1>5. /\ DataCounted <=> \/ \E i \in SpentAt(tx) : i <= InputsCounted /\ spent(i)
                           \/ \E n \in DOMAIN tx.outputs : n <= OutputsCounted /\ paid(n)
        /\ DataCounted' <=> \/ \E i \in SpentAt(tx) : i <= InputsCounted' /\ spent(i)
                            \/ \E n \in DOMAIN tx.outputs : n <= OutputsCounted' /\ paid(n)
    BY <1>2 DEF DataCounted
  <1>6. SpentAt(tx) \subseteq Nat /\ DOMAIN tx.outputs \subseteq Nat
    BY DEF SpentAt, IInv, TypeOK, AnnotatedTransaction, NonEmptySeq
  <1> HIDE DEF spent, paid
  <1>7. CASE at.cb = "finish_output_cell_data"
    <2> PICK c : c = cell
      OBVIOUS
    <2>1. /\ OutputsCounted = at.j /\ OutputsCounted' = at.j + 1 /\ c = tx.outputs[at.j + 1]
          /\ at.j + 1 \in DOMAIN tx.outputs
      BY <1>2, <1>7, OutputProgress
    <2>2. /\ finish_output_cell_data /\ c \in Cell /\ (cell_state.is_dao <=> IsDao(c))
          /\ cell_state.data_size = IF c.data.size < 15 THEN c.data.size ELSE 15
      BY <1>2, <1>7, OutputDataEnds
    <2>3. maybe_transaction'.contract_type = "UNKNOWN" <=> unknown \/ HoldsContractData(c)
      BY <1>3, <2>2, DataNoted
    <2>4. HoldsContractData(c) <=> paid(at.j + 1)
      BY <2>1 DEF paid
    <2>5. \A i \in SpentAt(tx) : i <= InputsCounted' <=> i <= InputsCounted
      BY <1>2, <1>3, <1>6, <1>7, CountProgress DEF DataEnd, InputSkipped
    <2>6. \A n \in DOMAIN tx.outputs : n <= OutputsCounted' <=> n <= OutputsCounted \/ n = at.j + 1
      BY <1>3, <1>6, <2>1
    <2> QED BY <1>4, <1>5, <2>1, <2>3, <2>4, <2>5, <2>6 DEF ContractRead
  <1>8. CASE at.cb = "finish_input_cell_data" /\ DataEnd
    <2> PICK c : c = SpentNow
      OBVIOUS
    <2>1. InputsCounted = at.i /\ InputsCounted' = at.i + 1 /\ at.i + 1 \in SpentAt(tx)
      BY <1>2, <1>8, CountProgress
    <2>2. /\ finish_input_cell_data_dao \/ finish_input_cell_data_plain
          /\ c \in Cell /\ (cell_state.is_dao <=> IsDao(c))
          /\ cell_state.data_size = IF c.data.size < 15 THEN c.data.size ELSE 15
      BY <1>8, SpentDataEnds DEF WholeCell
    <2>3. maybe_transaction'.contract_type = "UNKNOWN" <=> unknown \/ HoldsContractData(c)
      BY <1>3, <2>2, DataNoted
    <2>4. HoldsContractData(c) <=> spent(at.i + 1)
      BY <1>3, <1>8, <2>1, InputNow, Where DEF spent, InSource
    <2>5. \A i \in SpentAt(tx) : i <= InputsCounted' <=> i <= InputsCounted \/ i = at.i + 1
      BY <1>3, <1>6, <2>1
    <2>6. OutputsCounted' = OutputsCounted
      BY <1>2, <1>8, OutputProgress
    <2> QED BY <1>4, <1>5, <2>1, <2>3, <2>4, <2>5, <2>6 DEF ContractRead
  <1>9. CASE at.cb # "finish_output_cell_data" /\ ~(at.cb = "finish_input_cell_data" /\ DataEnd)
    <2>1. maybe_transaction'.contract_type = maybe_transaction.contract_type
      BY <1>9, VerdictsStay, SpentDataEnds
    <2>2. \A i \in SpentAt(tx) : i <= InputsCounted' <=> i <= InputsCounted
      BY <1>2, <1>3, <1>6, <1>9, CountProgress DEF DataEnd, InputSkipped
    <2>3. OutputsCounted' = OutputsCounted
      BY <1>2, <1>9, OutputProgress
    <2> QED BY <1>4, <1>5, <2>1, <2>2, <2>3 DEF ContractRead
  <1> QED BY <1>7, <1>8, <1>9

-----------------------------------------------------------------------------
(* The invariant.                                                          *)

Verdicts == SettingNoted /\ SafeReview /\ StandardRead /\ ContractRead /\ ContractShown

(* The packet that completes the parse: everything has been read.          *)
LEMMA AllRead ==
    ASSUME IInv, Reading, at.cb = "last_chunk", at' = Review, tx' = tx
    PROVE  /\ InputsScripted = Len(tx.inputs) /\ InputsCounted = Len(tx.inputs)
           /\ OutputsScripted = Len(tx.outputs) /\ OutputsCounted = Len(tx.outputs)
           /\ InputsScripted' = Len(tx.inputs) /\ InputsCounted' = Len(tx.inputs)
           /\ OutputsScripted' = Len(tx.outputs) /\ OutputsCounted' = Len(tx.outputs)
  <1>1. at.vec = "outputs_data" /\ at.j = Len(tx.outputs)
    BY Where DEF IInv, TypeOK, Reading, EndsReached
  <1> QED BY <1>1
      DEF InputsScripted, InputsCounted, OutputsScripted, OutputsCounted, Review, Position

(* Nothing has been read.                                                  *)
LEMMA NoneRead ==
    ASSUME at \in {Idle, Position("none", "set_sign_path", 0, 0)}
    PROVE  InputsScripted = 0 /\ InputsCounted = 0 /\ OutputsScripted = 0 /\ OutputsCounted = 0
  BY DEF InputsScripted, InputsCounted, OutputsScripted, OutputsCounted, Idle, Position

LEMMA VerdictsClear ==
    /\ tx \in AnnotatedTransaction /\ SettingNoted
    /\ at \in {Idle, Position("none", "set_sign_path", 0, 0)} /\ maybe_transaction = ZeroMaybeTransaction
    => Verdicts
  <1> SUFFICES ASSUME tx \in AnnotatedTransaction, SettingNoted,
                      at \in {Idle, Position("none", "set_sign_path", 0, 0)},
                      maybe_transaction = ZeroMaybeTransaction
               PROVE  Verdicts
    OBVIOUS
  <1>1. SpentAt(tx) \subseteq Nat \ {0} /\ DOMAIN tx.outputs \subseteq Nat \ {0}
    <2>1. tx.inputs \in Seq(AnnotatedInput) /\ tx.outputs \in Seq(Cell)
      BY DEF AnnotatedTransaction, NonEmptySeq
    <2> QED BY <2>1 DEF SpentAt
  <1>2. at # Review /\ at.cb \notin CellLevel
    BY DEF Review, Idle, Position, CellLevel, AfterCapacity, AfterLockCode, AfterLockHash, AfterArgs, AfterTypeCode,
       AfterTypeHash
  <1>3. \A i \in SpentAt(tx) \cup DOMAIN tx.outputs : ~(i <= 0)
    BY <1>1
  <1>4. StandardRead
    BY <1>2, <1>3, NoneRead DEF StandardRead
  <1>5. ~DataCounted
    BY <1>3, NoneRead DEF DataCounted
  <1>6. ContractRead
    BY <1>5 DEF ContractRead, ZeroMaybeTransaction
  <1> QED BY <1>2, <1>4, <1>6 DEF Verdicts, SafeReview, ContractShown

(* The parser does not come to the review: only the last chunk does.       *)
LEMMA NoReviewYet ==
    ASSUME IInv, ParserStep
    PROVE  at' # Review /\ at \notin {Idle, Refused, Review}
  <1>1. at.cb \notin {"idle", "refused", "review"}
    <2>1. at.cb \in ActiveOnly => at.cb \notin {"idle", "refused", "review"}
      BY DEF ActiveOnly
    <2> QED BY <2>1, InputCallbacksOf, CellCallbacksOf, OutputCallbacksOf
        DEF ParserStep, Prologue, Inputs, CellScripts, CellsData, Outputs
  <1>2. CASE Follow
    <2>1. at'.vec # "end"
      BY <1>2, VectorsInOrder, Where DEF Vectors, IInv, TypeOK, Position
    <2> QED BY <1>1, <2>1 DEF Idle, Refused, Review, Position
  <1>3. CASE at' = Refused
    BY <1>1, <1>3 DEF Idle, Refused, Review, Position
  <1> QED BY <1>2, <1>3, StepShape

(* Before the first packet nothing has been read.                          *)
LEMMA VerdictsInit == Init => Verdicts
  BY TransactionsAssumption, VerdictsClear DEF Init, SettingNoted

(* The verdicts survive every step; the first packet and the answer to the *)
(* prompt clear them, and the last packet shows them.                      *)
LEMMA VerdictsNext == IInv /\ Reading /\ Verdicts /\ [Next]_vars => Verdicts'
  <1> SUFFICES ASSUME IInv, Reading, Verdicts, [Next]_vars PROVE Verdicts'
    OBVIOUS
  <1>0. (tx \in AnnotatedTransaction)'
    BY NextOK DEF IInv, TypeOK
  <1>1. ASSUME first_chunk PROVE Verdicts'
    <2>1. SettingNoted'
      BY <1>1 DEF first_chunk, SettingNoted
    <2>2. at' = Position("none", "set_sign_path", 0, 0) /\ maybe_transaction' = ZeroMaybeTransaction
      BY <1>1 DEF first_chunk, clear_data
    <2>3. (at \in {Idle, Position("none", "set_sign_path", 0, 0)} /\ maybe_transaction = ZeroMaybeTransaction)'
      BY <2>2 DEF Position, Idle, ZeroMaybeTransaction
    <2> QED BY <1>0, <2>1, <2>3, VerdictsClear, PTL
  <1>2. ASSUME sign_ok \/ sign_reject PROVE Verdicts'
    <2>2. at' = Idle /\ maybe_transaction' = ZeroMaybeTransaction
      BY <1>2 DEF sign_ok, sign_reject, clear_data
    <2>1. SettingNoted'
      BY <2>2 DEF SettingNoted, Idle, Position
    <2>3. (at \in {Idle, Position("none", "set_sign_path", 0, 0)} /\ maybe_transaction = ZeroMaybeTransaction)'
      BY <2>2 DEF Position, Idle, ZeroMaybeTransaction
    <2> QED BY <1>0, <2>1, <2>3, VerdictsClear, PTL
  <1>3. ASSUME ParserStep PROVE Verdicts'
    <2>1. SettingNoted' /\ SafeReview' /\ ContractShown'
      BY <1>3, NoReviewYet, StepShape DEF Verdicts, SettingNoted, SafeReview, ContractShown, env
    <2> QED BY <1>3, <2>1, StandardStep, ContractStep DEF Verdicts
  <1>4. ASSUME at' = Refused, UNCHANGED env, at # Idle PROVE Verdicts'
    <2>1. at' # Review
      BY <1>4 DEF Refused, Review, Position
    <2> QED BY <1>4, <2>1 DEF Verdicts, SettingNoted, SafeReview, ContractShown, StandardRead, ContractRead, env
  <1>5. ASSUME sign_complete PROVE Verdicts'
    <2>1. /\ at.cb = "last_chunk" /\ at' = Review /\ UNCHANGED env /\ tx' = tx
          /\ ~maybe_transaction.hard_reject /\ ~maybe_transaction.unsafe
          /\ at # Idle /\ at # Refused
      BY <1>5 DEF sign_complete, env, Idle, Refused, Position
    <2>2. /\ maybe_transaction'.hard_reject = maybe_transaction.hard_reject
          /\ maybe_transaction'.unsafe = maybe_transaction.unsafe
          /\ maybe_transaction'.contract_type = maybe_transaction.contract_type
      BY <1>5 DEF sign_complete, IInv, TypeOK, FieldsOK, MaybeTransaction
    <2>3. /\ InputsScripted' = InputsScripted /\ InputsCounted' = InputsCounted
          /\ OutputsScripted' = OutputsScripted /\ OutputsCounted' = OutputsCounted
      BY <2>1, AllRead
    <2>4. StandardRead'
      <3>1. at'.cb \notin CellLevel
        BY <2>1 DEF Review, Position, CellLevel, AfterCapacity, AfterLockCode, AfterLockHash, AfterArgs,
           AfterTypeCode, AfterTypeHash
      <3> QED BY <2>1, <2>2, <2>3, <3>1 DEF Verdicts, StandardRead, Loose, env
    <2>5. ContractRead'
      BY <2>1, <2>2, <2>3 DEF Verdicts, ContractRead, DataCounted
    <2>6. ContractShown'
      <3>0. /\ TransferScreen("Self-Transfer", "no row").confirm = "Self-Transfer"
            /\ DaoScreen("Deposit").confirm = "Deposit" /\ DaoScreen("Prepare").confirm = "Prepare"
            /\ DaoScreen("Withdrawal").confirm = "Withdrawal"
            /\ MultiOutputScreen.confirm = "Transaction (outputs)"
            /\ MultiInputScreen.confirm = "Multi-Input Transaction"
        BY DEF TransferScreen, MultiOutputScreen, MultiInputScreen, DaoScreen
      <3>1. screen'.confirm = "Transaction" => screen' = TransferScreen("Transaction", ContractRow)
        <4>1. \/ screen' = TransferScreen("Transaction", ContractRow)
              \/ screen' = TransferScreen("Self-Transfer", "no row")
              \/ screen' = MultiOutputScreen \/ screen' = MultiInputScreen
              \/ screen' = DaoScreen("Deposit") \/ screen' = DaoScreen("Prepare")
              \/ screen' = DaoScreen("Withdrawal")
          BY <1>5 DEF sign_complete, Prompt
        <4> QED BY <3>0, <4>1
      <3>2. TransferScreen("Transaction", ContractRow).contract \in {"no row", maybe_transaction.contract_type}
        BY DEF TransferScreen, ContractRow
      <3> QED BY <2>2, <3>1, <3>2 DEF ContractShown
    <2> QED BY <2>1, <2>2, <2>4, <2>5, <2>6 DEF Verdicts, SettingNoted, SafeReview, env
  <1>6. ASSUME chunk_refused \/ Complete PROVE Verdicts'
    <2>1. CASE ~sign_complete
      <3>1. at' = Refused /\ UNCHANGED env /\ (at.cb = "last_chunk" \/ Streaming)
        BY <1>6, <2>1 DEF chunk_refused, Complete, complete_unmarked, complete_hard_reject, complete_unsafe, Throw
      <3>2. at # Idle
        BY <3>1 DEF Streaming, Idle, Position
      <3> QED BY <1>4, <3>1, <3>2
    <2> QED BY <1>5, <2>1
  <1>7. ASSUME switch_contract_data \/ UNCHANGED vars PROVE Verdicts'
    <2>1. /\ tx' = tx /\ at' = at /\ maybe_transaction' = maybe_transaction /\ cell_state' = cell_state
          /\ screen' = screen
      BY <1>7 DEF switch_contract_data, parseState, perCell, vars, env, ui
    <2>2. /\ InputsScripted' = InputsScripted /\ InputsCounted' = InputsCounted
          /\ OutputsScripted' = OutputsScripted /\ OutputsCounted' = OutputsCounted /\ cell' = cell
      BY <2>1 DEF InputsScripted, InputsCounted, OutputsScripted, OutputsCounted, Gone, Index, cell, CellsRead
    <2>3. SettingNoted' /\ (Loose => Loose')
      BY <1>7, <2>1 DEF switch_contract_data, vars, env, Verdicts, SettingNoted, Loose
    <2>4. StandardRead'
      BY <2>1, <2>2, <2>3 DEF Verdicts, StandardRead, StandardSoFar
    <2>5. ContractRead' /\ SafeReview' /\ ContractShown'
      BY <2>1, <2>2 DEF Verdicts, ContractRead, DataCounted, SafeReview, ContractShown
    <2> QED BY <2>3, <2>4, <2>5 DEF Verdicts
  <1> QED BY <1>1, <1>2, <1>3, <1>6, <1>7 DEF Next

-----------------------------------------------------------------------------
(* At the review everything has been read.                                 *)

LEMMA ReviewRead ==
    ASSUME at = Review, tx \in AnnotatedTransaction
    PROVE  /\ \A i \in SpentAt(tx) : i <= InputsScripted /\ i <= InputsCounted
           /\ \A n \in DOMAIN tx.outputs : n <= OutputsScripted /\ n <= OutputsCounted
  <1>1. tx.inputs \in Seq(AnnotatedInput) /\ tx.outputs \in Seq(Cell)
    BY DEF AnnotatedTransaction, NonEmptySeq
  <1>2. /\ InputsScripted = Len(tx.inputs) /\ InputsCounted = Len(tx.inputs)
        /\ OutputsScripted = Len(tx.outputs) /\ OutputsCounted = Len(tx.outputs)
    BY DEF InputsScripted, InputsCounted, OutputsScripted, OutputsCounted, Review, Position
  <1> QED BY <1>1, <1>2 DEF SpentAt

(* Contract data has to be allowed for anything but standard cells to come *)
(* to the review: REJECT is sticky, and every callback of a cell that      *)
(* could find it odd has been made by then.                                *)
THEOREM StandardOnly == Spec => []StandardUnlessAllowed
  <1>1. IInv /\ Verdicts => StandardUnlessAllowed
    <2> SUFFICES ASSUME IInv, Verdicts, at = Review, ~allowed_since_first PROVE Standard(tx)
      BY DEF StandardUnlessAllowed
    <2>1. at # Refused /\ ~Loose
      BY DEF Verdicts, SafeReview, Loose, Review, Refused, Position
    <2>2. \A i \in SpentAt(tx) : StandardScripts(SpentCells(tx)[i]) /\ StandardData(SpentCells(tx)[i])
      BY <2>1, ReviewRead DEF Verdicts, StandardRead, IInv, TypeOK
    <2>3. \A n \in DOMAIN tx.outputs : StandardScripts(tx.outputs[n]) /\ StandardData(tx.outputs[n])
      BY <2>1, ReviewRead DEF Verdicts, StandardRead, IInv, TypeOK
    <2> QED BY <2>2, <2>3 DEF Standard, StandardCell, StandardScripts, StandardData
  <1> QED BY <1>1, InitOK, NextOK, ReadingInit, ReadingNext, VerdictsInit, VerdictsNext, PTL DEF Spec

(* contract_type is set at the end of a cell's data and told by            *)
(* sign_complete: the row is right about every cell of the transaction.    *)
THEOREM ContractTold == Spec => []ContractRowTold
  <1>1. IInv /\ Verdicts => ContractRowTold
    <2> SUFFICES ASSUME IInv, Verdicts, at = Review, screen.confirm = "Transaction",
                        screen.contract # "no row"
                 PROVE  screen.contract = "UNKNOWN" <=> HasContractData(tx)
      BY DEF ContractRowTold
    <2>1. maybe_transaction.contract_type = "UNKNOWN" <=> DataCounted
      BY DEF Verdicts, SafeReview, ContractRead, Review, Refused, Position
    <2>2. DataCounted <=> HasContractData(tx)
      BY ReviewRead DEF DataCounted, HasContractData, IInv, TypeOK
    <2> QED BY <2>1, <2>2 DEF Verdicts, ContractShown
  <1> QED BY <1>1, InitOK, NextOK, ReadingInit, ReadingNext, VerdictsInit, VerdictsNext, PTL DEF Spec

-----------------------------------------------------------------------------
(* What has been hashed of the raw transaction when the parser is at at:   *)
(* so many chunks, the ones RawHash has there, but for the announced number*)
(* of inputs in the offsets, which blake2b_input_count checks.             *)

Chunk ==
    {<<"version_and_deps">>, <<"outputs">>, <<"outputs_data">>}
    \cup ({"offsets", "input_count", "since", "index"} \X Nat)
    \cup ({"tx_hash"} \X {SourceHash(i) : i \in Nat})

HashedAt(vec, cb, i, n) ==
    IF vec \in {"source", "source_data"} \/ cb = "input_save_index" THEN 4 + 3 * i
    ELSE IF cb \in {"finalize_raw_transaction", "witnesses"} THEN 5 + 3 * n
    ELSE IF vec = "outputs_data" \/ cb = "outputs_end" THEN 4 + 3 * n
    ELSE IF vec = "outputs" THEN 3 + 3 * n
    ELSE IF cb \in {"since", "finish_inputs"} \/ (cb = "input_start" /\ i > 0) THEN 3 + 3 * i
    ELSE IF cb \in {"inputs_start", "input_start", "blake2b_input_count"} THEN 2
    ELSE IF cb = "version_and_deps" THEN 1
    ELSE 0
Hashed == HashedAt(at.vec, at.cb, at.i, Len(tx.inputs))

CountChecked == at.vec # "none" \/ at.i > 0 \/ at.cb \in {"since", "input_save_index"}
CountKnown ==
    /\ at.cb \notin {"idle", "set_sign_path", "set_change_path", "set_input_count"} =>
            sums.input_count = tx.inputCount
    /\ CountChecked => tx.inputCount = Len(tx.inputs)
    /\ at.cb = "blake2b_input_count" => at.i = 0
ContextKnown ==
    /\ at.cb \in InputCallbacks \/ (InSource /\ at.cb # "finish_context_txn") => inp.context_hash = <<>>
    /\ at.cb = "finish_context_txn" => inp.context_hash = SourceHash(at.i + 1)
HashedSoFar ==
    at.cb # "last_chunk" =>
        /\ hash_state \in Seq(Chunk) /\ Len(hash_state) = Hashed
        /\ Hashed > 0 => hash_state[1] = <<"offsets", tx.inputCount>>
        /\ \A k \in 2 .. Hashed : hash_state[k] = RawHash(tx)[k]
HashesOK == hashes = [transaction_hash |-> hashes.transaction_hash, final_hash |-> hashes.final_hash]
HashesKnown ==
    ~maybe_transaction.unsafe =>
        /\ at.cb = "witnesses" => hashes.transaction_hash = RawHash(tx)
        /\ at.cb \in {"last_chunk", "review"} => hashes.final_hash = FinalHash(tx)
Hashing ==
    /\ HashesOK
    /\ at.vec # "end" /\ ~maybe_transaction.hard_reject => CountKnown /\ ContextKnown /\ HashedSoFar
    /\ at # Refused /\ ~maybe_transaction.hard_reject => HashesKnown

(* The chunks of a whole raw transaction, one by one.                      *)
LEMMA RawChunks ==
    ASSUME NEW t \in AnnotatedTransaction
    PROVE  /\ Len(t.inputs) \in Nat
           /\ RawHash(t) \in Seq(Chunk) /\ Len(RawHash(t)) = 5 + 3 * Len(t.inputs)
           /\ RawHash(t)[1] = <<"offsets", Len(t.inputs)>>
           /\ RawHash(t)[2] = <<"version_and_deps">>
           /\ RawHash(t)[3] = <<"input_count", Len(t.inputs)>>
           /\ \A i \in 0 .. Len(t.inputs) - 1 :
                /\ RawHash(t)[4 + 3 * i] = <<"since", i + 1>>
                /\ RawHash(t)[5 + 3 * i] = <<"tx_hash", SourceHash(i + 1)>>
                /\ RawHash(t)[6 + 3 * i] = <<"index", t.inputs[i + 1].index>>
           /\ RawHash(t)[4 + 3 * Len(t.inputs)] = <<"outputs">>
           /\ RawHash(t)[5 + 3 * Len(t.inputs)] = <<"outputs_data">>
  <1> DEFINE L == Len(t.inputs)
             head == <<<<"offsets", L>>, <<"version_and_deps">>, <<"input_count", L>>>>
             tail == <<<<"outputs">>, <<"outputs_data">>>>
             mid == InputChunks(t)
  <1>1. L \in Nat /\ \A i \in 1 .. L : t.inputs[i].index \in Nat
    <2>1. t.inputs \in Seq(AnnotatedInput)
      BY DEF AnnotatedTransaction, NonEmptySeq
    <2>2. \A i \in 1 .. L : t.inputs[i] \in AnnotatedInput
      BY <2>1
    <2> QED BY <2>1, <2>2 DEF AnnotatedInput
  <1>2. /\ <<"offsets", L>> \in Chunk /\ <<"input_count", L>> \in Chunk /\ <<"version_and_deps">> \in Chunk
        /\ <<"outputs">> \in Chunk /\ <<"outputs_data">> \in Chunk
        /\ \A i \in Nat : <<"since", i>> \in Chunk /\ <<"tx_hash", SourceHash(i)>> \in Chunk
        /\ \A i \in 1 .. L : <<"index", t.inputs[i].index>> \in Chunk
    BY <1>1 DEF Chunk
  <1> DEFINE chunk(rest, i) == CASE rest = 1 -> <<"since", i>>
                                 [] rest = 2 -> <<"tx_hash", SourceHash(i)>>
                                 [] rest = 0 -> <<"index", t.inputs[i].index>>
  <1>3. mid = [n \in 1 .. 3 * L |-> chunk(n % 3, ((n - 1) \div 3) + 1)]
    BY DEF InputChunks
  <1>c. ASSUME NEW i PROVE /\ chunk(1, i) = <<"since", i>> /\ chunk(2, i) = <<"tx_hash", SourceHash(i)>>
                           /\ chunk(0, i) = <<"index", t.inputs[i].index>>
    OBVIOUS
  <1> HIDE DEF chunk, mid, L
  <1>4. ASSUME NEW i \in 0 .. L - 1
        PROVE  /\ 3 * i + 1 \in 1 .. 3 * L /\ 3 * i + 2 \in 1 .. 3 * L /\ 3 * i + 3 \in 1 .. 3 * L
               /\ mid[3 * i + 1] = <<"since", i + 1>> 
               /\ mid[3 * i + 2] = <<"tx_hash", SourceHash(i + 1)>>
               /\ mid[3 * i + 3] = <<"index", t.inputs[i + 1].index>>
    <2>1. i \in Nat /\ i + 1 <= L
      BY <1>1
    <2>2. /\ 3 * i + 1 \in 1 .. 3 * L /\ 3 * i + 2 \in 1 .. 3 * L /\ 3 * i + 3 \in 1 .. 3 * L
      BY <1>1, <2>1
    <2>3. /\ (3 * i + 1) % 3 = 1 /\ (3 * i + 2) % 3 = 2 /\ (3 * i + 3) % 3 = 0
          /\ ((3 * i + 1 - 1) \div 3) + 1 = i + 1 /\ ((3 * i + 2 - 1) \div 3) + 1 = i + 1
          /\ ((3 * i + 3 - 1) \div 3) + 1 = i + 1
      BY <2>1
    <2>0. ASSUME NEW n \in 1 .. 3 * L PROVE mid[n] = chunk(n % 3, ((n - 1) \div 3) + 1)
      BY <1>3
    <2>4. mid[3 * i + 1] = chunk(1, i + 1)
      <3>1. mid[3 * i + 1] = chunk((3 * i + 1) % 3, ((3 * i + 1 - 1) \div 3) + 1)
        BY <2>0, <2>2
      <3> QED BY <2>3, <3>1, Zenon
    <2>5. mid[3 * i + 2] = chunk(2, i + 1)
      <3>1. mid[3 * i + 2] = chunk((3 * i + 2) % 3, ((3 * i + 2 - 1) \div 3) + 1)
        BY <2>0, <2>2
      <3> QED BY <2>3, <3>1, Zenon
    <2>6. mid[3 * i + 3] = chunk(0, i + 1)
      <3>1. mid[3 * i + 3] = chunk((3 * i + 3) % 3, ((3 * i + 3 - 1) \div 3) + 1)
        BY <2>0, <2>2
      <3> QED BY <2>3, <3>1, Zenon
    <2> QED BY <1>c, <2>2, <2>4, <2>5, <2>6
  <1>5. ASSUME NEW n \in 1 .. 3 * L
        PROVE  \E i \in 0 .. L - 1 : n \in {3 * i + 1, 3 * i + 2, 3 * i + 3}
    <2> DEFINE i == (n - 1) \div 3
    <2>1. /\ n \in Nat /\ n >= 1 /\ n <= 3 * L
      BY <1>1
    <2>2. i \in Nat /\ 3 * i <= n - 1 /\ n - 1 < 3 * i + 3
      BY <2>1
    <2>3. i \in 0 .. L - 1 /\ n \in {3 * i + 1, 3 * i + 2, 3 * i + 3}
      <3> HIDE DEF i
      <3> QED BY <1>1, <2>1, <2>2
    <2> QED BY <2>3
  <1>6. mid \in Seq(Chunk) /\ Len(mid) = 3 * L
    <2>1. DOMAIN mid = 1 .. 3 * L
      BY <1>3
    <2>2. ASSUME NEW n \in 1 .. 3 * L PROVE mid[n] \in Chunk
      <3>1. PICK i \in 0 .. L - 1 : n \in {3 * i + 1, 3 * i + 2, 3 * i + 3}
        BY <1>5
      <3>2. i \in Nat /\ i + 1 \in Nat /\ i + 1 \in 1 .. L
        BY <1>1
      <3>3. CASE n = 3 * i + 1
        BY <1>2, <1>4, <3>2, <3>3
      <3>4. CASE n = 3 * i + 2
        BY <1>2, <1>4, <3>2, <3>4
      <3>5. CASE n = 3 * i + 3
        BY <1>2, <1>4, <3>2, <3>5
      <3> QED BY <3>1, <3>3, <3>4, <3>5
    <2>3. mid = [n \in 1 .. 3 * L |-> mid[n]]
      BY <1>3
    <2>4. 3 * L \in Nat
      BY <1>1
    <2>5. mid \in [1 .. 3 * L -> Chunk]
      BY <2>2, <2>3
    <2>6. mid \in Seq(Chunk)
      BY <2>4, <2>5, SeqDef
    <2> QED BY <2>1, <2>4, <2>6, LenProperties
  <1>7. head \in Seq(Chunk) /\ Len(head) = 3 /\ tail \in Seq(Chunk) /\ Len(tail) = 2
    BY <1>2
  <1>8. RawHash(t) = (head \o mid) \o tail
    BY DEF RawHash, mid, L
  <1>9. /\ head[1] = <<"offsets", L>> /\ head[2] = <<"version_and_deps">> /\ head[3] = <<"input_count", L>>
        /\ tail[1] = <<"outputs">> /\ tail[2] = <<"outputs_data">>
    OBVIOUS
  <1> DEFINE first == head \o mid
  <1> HIDE DEF head, tail
  <1>10. /\ first \in Seq(Chunk) /\ Len(first) = 3 + 3 * L
         /\ \A k \in 1 .. 3 + 3 * L : first[k] = IF k <= 3 THEN head[k] ELSE mid[k - 3]
    <2>1. /\ head \o mid \in Seq(Chunk) /\ Len(head \o mid) = Len(head) + Len(mid)
          /\ \A k \in 1 .. Len(head) + Len(mid) :
                (head \o mid)[k] = IF k <= Len(head) THEN head[k] ELSE mid[k - Len(head)]
      BY <1>6, <1>7, ConcatProperties
    <2> QED BY <1>1, <1>6, <1>7, <2>1
  <1>11. /\ RawHash(t) \in Seq(Chunk) /\ Len(RawHash(t)) = 5 + 3 * L
         /\ \A k \in 1 .. 5 + 3 * L :
                RawHash(t)[k] = IF k <= 3 + 3 * L THEN first[k] ELSE tail[k - (3 + 3 * L)]
    <2>1. RawHash(t) = first \o tail /\ first \in Seq(Chunk) /\ Len(first) = 3 + 3 * L
      BY <1>8, <1>10
    <2> HIDE DEF first
    <2>2. /\ first \o tail \in Seq(Chunk) /\ Len(first \o tail) = Len(first) + Len(tail)
          /\ \A k \in 1 .. Len(first) + Len(tail) :
                (first \o tail)[k] = IF k <= Len(first) THEN first[k] ELSE tail[k - Len(first)]
      BY <1>7, <2>1, ConcatProperties
    <2>3. Len(first) + Len(tail) = 5 + 3 * L
      BY <1>1, <1>7, <2>1
    <2> QED BY <1>7, <2>1, <2>2, <2>3
  <1> HIDE DEF first
  <1>12. RawHash(t)[1] = head[1] /\ RawHash(t)[2] = head[2] /\ RawHash(t)[3] = head[3]
    BY <1>1, <1>10, <1>11
  <1>13. RawHash(t)[4 + 3 * L] = tail[1] /\ RawHash(t)[5 + 3 * L] = tail[2]
    BY <1>1, <1>11
  <1>14. ASSUME NEW i \in 0 .. L - 1
         PROVE  /\ RawHash(t)[4 + 3 * i] = mid[3 * i + 1] /\ RawHash(t)[5 + 3 * i] = mid[3 * i + 2]
                /\ RawHash(t)[6 + 3 * i] = mid[3 * i + 3]
    BY <1>1, <1>10, <1>11
  <1> QED BY <1>1, <1>4, <1>9, <1>11, <1>12, <1>13, <1>14 DEF L

(* How much more has been hashed after a callback.                         *)
Hashes1 == {"computeNewOffsetsToHash", "version_and_deps", "blake2b_input_count", "since", "outputs", "outputs_data"}
LEMMA HashedMoves ==
    ASSUME IInv, Reading, Follow, tx' = tx, at.cb = "blake2b_input_count" => at.i = 0
    PROVE  /\ Hashed \in Nat
           /\ Hashed' = IF at.cb \in Hashes1 THEN Hashed + 1
                        ELSE IF at.cb = "finish_context_txn" THEN Hashed + 2
                        ELSE IF at.cb = "witnesses" THEN Hashed' ELSE Hashed
  <1> USE DEF Position, Goes, Hashes1
  <1>1. /\ PositionOK /\ at.i \in Nat /\ at.j \in Nat /\ at.vec \in Vectors /\ Len(tx.inputs) \in Nat \ {0}
        /\ EndsReached
    BY Where, Lengths DEF IInv, TypeOK, Reading
  <1>2. Hashed \in Nat
    <2>1. \A vec, cb : \A i, n \in Nat : HashedAt(vec, cb, i, n) \in Nat
      BY DEF HashedAt
    <2> QED BY <1>1, <2>1 DEF Hashed
  <1>3. CASE at.vec = "source"
    <2>1. at.cb \notin Hashes1 \cup {"finish_context_txn", "witnesses"}
      BY <1>1, <1>3, Where DEF CellLevel, AfterCapacity, AfterLockCode, AfterLockHash, AfterArgs, AfterTypeCode,
         AfterTypeHash
    <2>2. at'.vec \in {"source", "source_data"} /\ at'.i = at.i
      BY <1>1, <1>3, SourceMoves
    <2>3. Hashed' = Hashed
      BY <1>1, <1>3, <2>2 DEF Hashed, HashedAt
    <2> QED BY <1>2, <2>1, <2>3
  <1>4. CASE at.vec = "source_data"
    <2>1. at.cb \notin Hashes1 \cup {"witnesses"}
      BY <1>1, <1>4 DEF PositionOK, AtSourceData, DataCallbacks
    <2>2. CASE at.cb = "finish_context_txn"
      <3>1. at' = Position("none", "input_start", at.i + 1, 0)
        BY <1>1, <1>4, <2>2, SourceDataMoves
      <3> QED BY <1>1, <1>4, <2>2, <3>1 DEF Hashed, HashedAt
    <2>3. CASE at.cb # "finish_context_txn"
      <3>1. at'.vec = "source_data" /\ at'.i = at.i
        BY <1>1, <1>4, <2>3, SourceDataMoves
      <3> QED BY <1>1, <1>4, <2>1, <2>3, <3>1 DEF Hashed, HashedAt
    <2> QED BY <2>2, <2>3
  <1>5. CASE at.vec = "none"
    <2>1. at.cb \in HeadCallbacks \cup InputCallbacks \cup {"input_start", "finish_inputs"}
          /\ (at.cb \in HeadCallbacks => at.i = 0)
      BY <1>1, <1>5 DEF PositionOK, AtInputs, HeadCallbacks, InputCallbacks
    <2>2. at.cb = "finish_inputs" => at.i = Len(tx.inputs)
      BY <1>1 DEF EndsReached
    <2>3. CASE at.cb \in HeadCallbacks
      BY <1>1, <1>5, <2>1, <2>3, HeadMoves DEF Hashed, HashedAt, HeadCallbacks
    <2>4. CASE at.cb \in InputCallbacks
      <3>1. CASE at.cb = "blake2b_input_count"
        <4>1. at.i = 0 /\ at'.i = 0 /\ at'.cb = "since" /\ at'.vec = "none"
          BY <1>5, <3>1, HeadMoves
        <4>2. Hashed = 2 /\ Hashed' = 3
          BY <1>5, <3>1, <4>1 DEF Hashed, HashedAt
        <4> QED BY <3>1, <4>2
      <3>2. CASE at.cb = "since"
        BY <1>1, <1>5, <3>2, HeadMoves DEF Hashed, HashedAt
      <3>3. CASE at.cb = "input_save_index"
        BY <1>1, <1>5, <3>3, HeadMoves DEF Hashed, HashedAt
      <3> QED BY <2>4, <3>1, <3>2, <3>3 DEF InputCallbacks
    <2>5. CASE at.cb = "input_start"
      BY <1>1, <1>5, <2>5, HeadMoves DEF Hashed, HashedAt
    <2>6. CASE at.cb = "finish_inputs"
      BY <1>1, <1>5, <2>2, <2>6, HeadMoves DEF Hashed, HashedAt
    <2> QED BY <2>1, <2>3, <2>4, <2>5, <2>6
  <1>6. CASE at.vec = "outputs"
    <2>1. CASE at.cb \in {"outputs", "outputs_end"}
      BY <1>1, <1>6, <2>1, VectorMoves DEF Hashed, HashedAt
    <2>2. CASE at.cb \notin {"outputs", "outputs_end"}
      <3>1. at.cb \in {"output_start"} \cup CellLevel /\ ~InSource
        BY <1>1, <1>6, <2>2
        DEF PositionOK, AtOutputs, InSource, CellCallbacks, TypeCallbacks, CellLevel, AfterCapacity, AfterLockCode,
            AfterLockHash, AfterArgs, AfterTypeCode, AfterTypeHash
      <3>2. at'.vec = "outputs" /\ at'.cb \notin {"outputs_end", "input_save_index", "finalize_raw_transaction", "witnesses"}
        BY <1>6, <3>1, CellMoves, VectorMoves
        DEF LockEnd, CellEnd, To, NextItem, CellLevel, AfterCapacity, AfterLockCode, AfterLockHash, AfterArgs,
            AfterTypeCode, AfterTypeHash
      <3>3. at.cb \notin Hashes1 \cup {"finish_context_txn", "witnesses", "input_save_index", "finalize_raw_transaction"}
        BY <3>1 DEF CellLevel, AfterCapacity, AfterLockCode, AfterLockHash, AfterArgs, AfterTypeCode, AfterTypeHash
      <3>4. Hashed' = Hashed
        BY <1>1, <1>6, <2>2, <3>2, <3>3 DEF Hashed, HashedAt
      <3> QED BY <1>2, <3>3, <3>4
    <2> QED BY <2>1, <2>2
  <1>7. CASE at.vec = "outputs_data"
    <2>1. at.cb \in {"validate_output_data_start", "outputs_data", "finalize_raw_transaction", "witnesses",
                     "last_chunk", "finish_output_cell_data"} \cup DataCallbacks
      BY <1>1, <1>7 DEF PositionOK, AtOutputsData
    <2>2. at'.vec = "outputs_data" 
          /\ (at'.cb = "finalize_raw_transaction" <=> at.cb = "outputs_data")
          /\ (at'.cb = "witnesses" <=> at.cb = "finalize_raw_transaction")
          /\ at'.cb # "input_save_index"
      BY <1>7, <2>1, VectorMoves, DataMoves DEF DataCallbacks, InSource
    <2>3. at.cb \notin Hashes1 \ {"outputs_data"} /\ at.cb \notin {"finish_context_txn", "input_save_index"}
      BY <2>1 DEF DataCallbacks
    <2> QED BY <1>1, <1>7, <2>2, <2>3 DEF Hashed, HashedAt
  <1> QED BY <1>1, <1>2, <1>3, <1>4, <1>5, <1>6, <1>7, VectorsInOrder DEF Vectors

(* The callbacks that have to do with hashing, and what the others leave   *)
(* alone.                                                                  *)
LEMMA HashActions ==
    ASSUME ParserStep
    PROVE  /\ at.cb = "set_input_count" => set_input_count
           /\ at.cb = "computeNewOffsetsToHash" => computeNewOffsetsToHash
           /\ at.cb \in {"version_and_deps", "since", "outputs", "outputs_data"} => blake2b_chunk
           /\ at.cb = "blake2b_input_count" => blake2b_input_count
           /\ at.cb = "input_start" => input_start
           /\ at.cb = "context_blake2b_chunk" => context_blake2b_chunk
           /\ at.cb = "finish_context_txn" => finish_context_txn
           /\ at.cb = "finish_inputs" => finish_inputs
           /\ at.cb = "finalize_raw_transaction" => finalize_raw_transaction
           /\ at.cb = "witnesses" => witnesses
  <1>1. CASE Prologue \/ Inputs
    BY <1>1, InputCallbacksOf DEF Prologue, Inputs
  <1>2. CASE CellScripts \/ CellsData \/ InactiveCell
    BY <1>2, CellCallbacksOf DEF CellScripts, CellsData, ActiveOnly
  <1>3. CASE Outputs \/ finalize_raw_transaction \/ witnesses
    BY <1>3, OutputCallbacksOf DEF Outputs
  <1> QED BY <1>1, <1>2, <1>3 DEF ParserStep

LEMMA HashFieldsStay ==
    ASSUME IInv, ParserStep
    PROVE  /\ at.cb \notin Hashes1 \cup {"finish_context_txn", "witnesses"} => hash_state' = hash_state
           /\ at.cb # "set_input_count" => sums'.input_count = sums.input_count
           /\ at.cb \notin {"input_start", "context_blake2b_chunk", "finish_context_txn", "finish_inputs"} =>
                inp'.context_hash = inp.context_hash
           /\ at.cb \notin {"finish_inputs", "finalize_raw_transaction", "witnesses"} => hashes' = hashes
  <1>1. sums \in Sums /\ inp \in Inp
    BY DEF IInv, TypeOK, FieldsOK
  <1> USE <1>1 DEF Sums, Inp, Hashes1
  <1>2. CASE Prologue
    BY <1>2, InputCallbacksOf DEF Prologue, set_sign_path, set_change_path, init_bip32_rejects, set_input_count,
       computeNewOffsetsToHash, blake2b_chunk
  <1>3. CASE Inputs
    <2>1. CASE inputs_start \/ input_start \/ input_save_index \/ input_context_start_idx
      BY <2>1, InputCallbacksOf DEF inputs_start, input_start, input_save_index, input_context_start_idx
    <2>2. CASE blake2b_input_count
      BY <2>2, InputCallbacksOf DEF blake2b_input_count
    <2>3. CASE context_blake2b_chunk \/ finish_context_txn \/ finish_inputs
      <3>1. at.cb \in {"context_blake2b_chunk", "finish_context_txn", "finish_inputs"}
        BY <2>3, InputCallbacksOf
      <3>2. sums' = sums /\ (at.cb # "finish_context_txn" => hash_state' = hash_state)
            /\ (at.cb # "finish_inputs" => hashes' = hashes)
        BY <2>3, InputCallbacksOf DEF context_blake2b_chunk, finish_context_txn, finish_inputs
      <3> QED BY <3>1, <3>2
    <2> QED BY <1>3, <2>1, <2>2, <2>3 DEF Inputs
  <1>4. CASE CellScripts
    <2>1. CASE input_lock_arg_end
      BY <2>1 DEF input_lock_arg_end
    <2>2. CASE ~input_lock_arg_end
      BY <1>4, <2>2 DEF CellScripts, cell_capacity, cell_lock_code_hash, cell_script_hash_type,
         script_arg_start_input, script_arg_chunk, cell_type_code_hash, cell_type_arg_length
    <2> QED BY <2>1, <2>2
  <1>5. CASE CellsData \/ InactiveCell
    BY <1>5 DEF CellsData, set_cell_data_size, check_cell_data_data_chunk, finish_input_cell_data_dao,
       finish_input_cell_data_plain, InactiveCell
  <1>6. CASE Outputs
    <2>1. CASE output_end
      BY <2>1 DEF output_end, output_end_dao, output_end_change, output_end_first, output_end_same, output_end_other,
         OutputEnd
    <2>2. CASE output_start \/ outputs_end \/ validate_output_data_start \/ finish_output_cell_data
      BY <2>2 DEF output_start, outputs_end, validate_output_data_start, finish_output_cell_data
    <2> QED BY <1>6, <2>1, <2>2 DEF Outputs
  <1>7. CASE finalize_raw_transaction \/ witnesses
    BY <1>7, OutputCallbacksOf DEF finalize_raw_transaction, finalize_single_source, finalize_multi_source,
       finalize_multi_output, finalize_dao_deposit, finalize_dao_prepare, finalize_dao_withdraw, Finalize, witnesses
  <1> QED BY <1>2, <1>3, <1>4, <1>5, <1>6, <1>7 DEF ParserStep

(* The hashes at the end of the raw transaction and of the witnesses.      *)
LEMMA HashesStep ==
    ASSUME IInv, ParserStep, HashesOK
    PROVE  /\ HashesOK'
           /\ at.cb = "finalize_raw_transaction" /\ ~maybe_transaction'.unsafe =>
                hashes'.transaction_hash = hash_state
           /\ at.cb = "witnesses" => hashes'.final_hash = <<hashes.transaction_hash, "witnesses">>
           /\ at.cb \notin {"finish_inputs", "finalize_raw_transaction", "witnesses"} => hashes' = hashes
  <1>1. CASE at.cb = "finalize_raw_transaction"
    <2>1. \/ maybe_transaction'.unsafe /\ hashes' = hashes
          \/ hashes' = [hashes EXCEPT !.transaction_hash = hash_state]
      <3>1. ASSUME NEW tags, NEW rejected, NEW fee, NEW parsed, parsed \in MaybeTransaction,
                   Finalize(tags, rejected, parsed, fee)
            PROVE  \/ maybe_transaction'.unsafe /\ hashes' = hashes
                   \/ hashes' = [hashes EXCEPT !.transaction_hash = hash_state]
        BY <3>1 DEF Finalize, MaybeTransaction
      <3> QED BY <1>1, <3>1, HashActions, FinalizeShape DEF Finalized
    <2> QED BY <1>1, <2>1 DEF HashesOK
  <1>2. CASE at.cb = "witnesses"
    BY <1>2, HashActions DEF witnesses, HashesOK
  <1>3. CASE at.cb = "finish_inputs"
    BY <1>3, HashActions DEF finish_inputs, NoHashes, HashesOK
  <1>4. CASE at.cb \notin {"finish_inputs", "finalize_raw_transaction", "witnesses"}
    BY <1>4, HashFieldsStay DEF HashesOK
  <1> QED BY <1>1, <1>2, <1>3, <1>4

InputPlace ==
    /\ at.cb \in InputCallbacks => at.vec = "none"
    /\ at.cb = "finish_context_txn" => at.vec = "source_data"
(* Where the callbacks of an input are made.                               *)
LEMMA HashWhere == PositionOK => InputPlace
  BY Where DEF InputPlace
LEMMA InputPlaceNext == PositionOK' => InputPlace'
  BY HashWhere, PTL

LEMMA CountStep ==
    ASSUME IInv, Reading, CountKnown, ParserStep, Follow, tx' = tx, ~maybe_transaction'.hard_reject
    PROVE  CountKnown'
  <1> USE DEF Goes, Position
  <1>1. /\ PositionOK /\ at.vec \in Vectors /\ at.i \in Nat
        /\ maybe_transaction \in MaybeTransaction /\ sums \in Sums
    BY Where DEF IInv, TypeOK, FieldsOK
  <1>2. CASE at.vec # "none"
    <2>1. at.cb \notin HeadCallbacks \cup InputCallbacks \cup {"input_start", "finish_inputs"}
      BY <1>1, <1>2, Where
    <2>2. sums'.input_count = sums.input_count /\ tx'.inputCount = Len(tx'.inputs)
      BY <1>2, <2>1, HashFieldsStay DEF CountKnown, CountChecked, HeadCallbacks
    <2>3. at'.cb # "blake2b_input_count"
      <3>1. at'.vec = "none" => at'.cb = "input_start"
        BY <1>1, <1>2, SourceDataMoves, VectorsInOrder DEF Vectors
      <3>2. PositionOK'
        BY ParserStepOK DEF IInv, TypeOK
      <3>3. at'.cb = "blake2b_input_count" => at'.vec = "none"
        <4>1. at'.cb \in InputCallbacks => at'.vec = "none"
          BY <3>2, InputPlaceNext DEF InputPlace
        <4> QED BY <4>1 DEF InputCallbacks
      <3> QED BY <3>1, <3>3
    <2> QED BY <2>1, <2>2, <2>3 DEF CountKnown, HeadCallbacks
  <1>3. CASE at.vec = "none"
    <2>1. at.cb \in HeadCallbacks \cup InputCallbacks \cup {"input_start", "finish_inputs"}
      BY <1>1, <1>3, Where
    <2>2. CASE at.cb = "set_input_count"
      BY <1>1, <1>3, <2>2, HeadMoves, HashActions DEF set_input_count, CountKnown, CountChecked, Sums
    <2>3. CASE at.cb = "blake2b_input_count"
      <3>1. at'.cb = "since" /\ sums'.input_count = sums.input_count
        BY <2>3, HeadMoves, HashFieldsStay
      <3>2. Len(tx.inputs) = sums.input_count
        BY <1>1, <2>3, HashActions DEF blake2b_input_count, RejectHard, MaybeTransaction
      <3> QED BY <2>3, <3>1, <3>2 DEF CountKnown
    <2>4. CASE at.cb \notin {"set_input_count", "blake2b_input_count"}
      <3>1. sums'.input_count = sums.input_count
        BY <2>4, HashFieldsStay
      <3>2. /\ CountChecked' => CountChecked
            /\ at'.cb = "blake2b_input_count" => at'.i = 0
            /\ at'.cb \notin {"idle", "set_sign_path", "set_change_path", "set_input_count"} =>
                    at.cb \notin {"idle", "set_sign_path", "set_change_path", "set_input_count"}
        <4>1. at.cb = "finish_inputs" => at.i > 0
          BY Lengths DEF Reading, EndsReached, IInv, TypeOK
        <4> QED BY <1>1, <1>3, <2>1, <2>4, <4>1, HeadMoves DEF CountChecked, HeadCallbacks, InputCallbacks
      <3> QED BY <3>1, <3>2 DEF CountKnown
    <2> QED BY <2>2, <2>3, <2>4
  <1> QED BY <1>2, <1>3

LEMMA ContextStep ==
    ASSUME IInv, ContextKnown, ParserStep, Follow, tx' = tx
    PROVE  ContextKnown'
  <1> USE DEF Goes, Position
  <1>1. /\ PositionOK /\ at.vec \in Vectors /\ at.i \in Nat /\ inp \in Inp
    BY Where DEF IInv, TypeOK, FieldsOK
  <1>2. CASE at.vec = "source"
    <2>1. at'.vec \in {"source", "source_data"} /\ at'.cb # "finish_context_txn"
      <3>1. PositionOK'
        BY ParserStepOK DEF IInv, TypeOK
      <3>2. at'.cb = "finish_context_txn" => at'.vec = "source_data"
        BY <3>1, InputPlaceNext DEF InputPlace
      <3> QED BY <1>1, <1>2, <3>2, SourceMoves
    <2>2. at.cb \notin {"input_start", "context_blake2b_chunk", "finish_context_txn", "finish_inputs"}
      BY <1>1, <1>2, Where
    <2> QED BY <1>2, <2>1, <2>2, HashFieldsStay DEF ContextKnown, InSource, InputCallbacks
  <1>3. CASE at.vec = "source_data"
    <2>1. CASE at.cb = "context_blake2b_chunk"
      <3>1. at'.cb = "finish_context_txn" /\ at'.i = at.i /\ inp.context_hash = <<>>
        BY <1>3, <2>1, VectorMoves DEF ContextKnown, InSource
      <3>2. inp'.context_hash = Append(<<>>, <<"source", at.i + 1>>)
        BY <1>1, <2>1, <3>1, HashActions DEF context_blake2b_chunk, Inp
      <3> QED BY <3>1, <3>2 DEF ContextKnown, SourceHash, InputCallbacks
    <2>2. CASE at.cb = "finish_context_txn"
      <3>1. at'.cb = "input_start" /\ at'.vec = "none"
        BY <2>2, VectorMoves
      <3> QED BY <3>1 DEF ContextKnown, InSource, InputCallbacks
    <2>3. CASE at.cb \notin {"context_blake2b_chunk", "finish_context_txn"}
      <3>1. at.cb \in {"input_context_start_idx", "finish_input_cell_data"} \cup DataCallbacks
        BY <1>1, <1>3, <2>3 DEF PositionOK, AtSourceData
      <3>2. at'.vec = "source_data" /\ at'.cb # "finish_context_txn"
        BY <1>3, <3>1, VectorMoves, DataMoves DEF DataCallbacks, InSource
      <3> QED BY <1>3, <2>3, <3>1, <3>2, HashFieldsStay DEF ContextKnown, InSource, InputCallbacks, DataCallbacks
    <2> QED BY <2>1, <2>2, <2>3
  <1>4. CASE at.vec = "none"
    <2>1. at.cb \in HeadCallbacks \cup InputCallbacks \cup {"input_start", "finish_inputs"}
      BY <1>1, <1>4, Where
    <2>2. CASE at.cb = "input_start"
      <3>1. inp'.context_hash = <<>>
        BY <1>1, <2>2, HashActions DEF input_start, Inp
      <3> QED BY <2>2, <3>1, HeadMoves DEF ContextKnown
    <2>3. CASE at.cb \in InputCallbacks
      <3>1. inp'.context_hash = <<>>
        BY <2>3, HashFieldsStay DEF InputCallbacks, ContextKnown
      <3> QED BY <2>3, <3>1, HeadMoves DEF ContextKnown, InputCallbacks
    <2>4. CASE at.cb \in HeadCallbacks \cup {"finish_inputs"}
      <3>1. at'.vec \in {"none", "outputs"} /\ at'.cb \notin InputCallbacks /\ at'.cb # "finish_context_txn"
        BY <1>4, <2>4, HeadMoves DEF HeadCallbacks, InputCallbacks
      <3> QED BY <3>1 DEF ContextKnown, InSource
    <2> QED BY <2>1, <2>2, <2>3, <2>4
  <1>5. CASE at.vec \in {"outputs", "outputs_data"}
    <2>1. PositionOK' /\ at'.vec \in {"outputs", "outputs_data"}
      BY <1>1, <1>5, ParserStepOK, VectorsInOrder DEF IInv, TypeOK
    <2>2. /\ at'.cb \in InputCallbacks => at'.vec = "none"
          /\ at'.cb = "finish_context_txn" => at'.vec = "source_data"
      BY <2>1, InputPlaceNext DEF InputPlace
    <2> QED BY <2>1, <2>2 DEF ContextKnown, InSource
  <1> QED BY <1>1, <1>2, <1>3, <1>4, <1>5, VectorsInOrder DEF Vectors

(* One more chunk.                                                         *)
LEMMA OneMore ==
    ASSUME NEW h \in Seq(Chunk), NEW r, NEW first, NEW c \in Chunk,
           Len(h) > 0 => h[1] = first, \A k \in 2 .. Len(h) : h[k] = r[k],
           IF Len(h) = 0 THEN c = first ELSE c = r[Len(h) + 1]
    PROVE  /\ Append(h, c) \in Seq(Chunk) /\ Len(Append(h, c)) = Len(h) + 1
           /\ Append(h, c)[1] = first
           /\ \A k \in 2 .. Len(h) + 1 : Append(h, c)[k] = r[k]
  <1>1. /\ Append(h, c) \in Seq(Chunk) /\ Len(Append(h, c)) = Len(h) + 1
        /\ \A k \in 1 .. Len(h) : Append(h, c)[k] = h[k]
        /\ Append(h, c)[Len(h) + 1] = c
    BY AppendProperties
  <1>2. Len(h) \in Nat
    BY LenProperties
  <1> HIDE DEF Chunk
  <1> QED BY <1>1, <1>2

(* Two more at once.                                                       *)
LEMMA TwoMore ==
    ASSUME NEW h \in Seq(Chunk), NEW r, NEW first, NEW c \in Chunk, NEW d \in Chunk,
           Len(h) > 0, h[1] = first, \A k \in 2 .. Len(h) : h[k] = r[k],
           c = r[Len(h) + 1], d = r[Len(h) + 2]
    PROVE  /\ h \o <<c, d>> \in Seq(Chunk) /\ Len(h \o <<c, d>>) = Len(h) + 2
           /\ (h \o <<c, d>>)[1] = first
           /\ \A k \in 2 .. Len(h) + 2 : (h \o <<c, d>>)[k] = r[k]
  <1> DEFINE t == <<c, d>>  g == h \o t
  <1>1. t \in Seq(Chunk) /\ Len(t) = 2 /\ t[1] = c /\ t[2] = d
    OBVIOUS
  <1> HIDE DEF t
  <1>2. /\ g \in Seq(Chunk) /\ Len(g) = Len(h) + Len(t)
        /\ \A k \in 1 .. Len(h) + Len(t) : g[k] = IF k <= Len(h) THEN h[k] ELSE t[k - Len(h)]
    BY <1>1, ConcatProperties
  <1>3. Len(h) \in Nat
    BY LenProperties
  <1> HIDE DEF g
  <1>4. Len(g) = Len(h) + 2 /\ g[1] = first
    BY <1>1, <1>2, <1>3
  <1>5. ASSUME NEW k \in 2 .. Len(h) + 2 PROVE g[k] = r[k]
    <2>1. CASE k <= Len(h)
      BY <1>1, <1>2, <1>3, <2>1
    <2>2. CASE k = Len(h) + 1
      BY <1>1, <1>2, <1>3, <2>2
    <2>3. CASE k = Len(h) + 2
      BY <1>1, <1>2, <1>3, <2>3
    <2> QED BY <1>3, <2>1, <2>2, <2>3
  <1> QED BY <1>2, <1>4, <1>5 DEF g, t

(* The chunk that each hashing callback adds is the one RawHash has there. *)
LEMMA NextChunk ==
    ASSUME IInv, Reading, CountKnown, ParserStep, at.cb \in Hashes1, ~maybe_transaction'.hard_reject
    PROVE  \E c \in Chunk :
                /\ hash_state' = Append(hash_state, c)
                /\ IF Hashed = 0 THEN c = <<"offsets", tx.inputCount>> ELSE c = RawHash(tx)[Hashed + 1]
  <1>1. /\ PositionOK /\ at.vec \in Vectors /\ at.i \in Nat /\ tx \in AnnotatedTransaction
        /\ maybe_transaction \in MaybeTransaction /\ sums \in Sums
    BY Where DEF IInv, TypeOK, FieldsOK
  <1>2. Len(tx.inputs) \in Nat \ {0} /\ sums.input_count \in Nat
    BY <1>1, Lengths DEF Sums
  <1>3. CASE at.cb = "computeNewOffsetsToHash"
    <2>1. at.vec = "none"
      BY <1>1, <1>3, Where DEF HeadCallbacks
    <2>2. Hashed = 0 /\ sums.input_count = tx.inputCount
      BY <1>3, <2>1 DEF Hashed, HashedAt, CountKnown
    <2>3. hash_state' = Append(hash_state, <<"offsets", tx.inputCount>>)
      BY <1>3, <2>2, HashActions DEF computeNewOffsetsToHash
    <2>4. <<"offsets", tx.inputCount>> \in Chunk
      BY <1>2, <2>2 DEF Chunk
    <2> QED BY <2>2, <2>3, <2>4
  <1>4. CASE at.cb = "version_and_deps"
    <2>1. at.vec = "none"
      BY <1>1, <1>4, Where DEF HeadCallbacks
    <2>2. Hashed = 1
      BY <1>4, <2>1 DEF Hashed, HashedAt
    <2>3. hash_state' = Append(hash_state, <<"version_and_deps">>)
      BY <1>4, HashActions DEF blake2b_chunk, Parse
    <2>4. <<"version_and_deps">> \in Chunk
      BY DEF Chunk
    <2>5. RawHash(tx)[2] = <<"version_and_deps">>
      BY <1>1, RawChunks
    <2> QED BY <2>2, <2>3, <2>4, <2>5
  <1>5. CASE at.cb = "blake2b_input_count"
    <2>1. at.vec = "none"
      BY <1>1, <1>5, Where DEF InputCallbacks
    <2>2. Hashed = 2
      BY <1>5, <2>1 DEF Hashed, HashedAt
    <2>3. hash_state' = Append(hash_state, <<"input_count", Len(tx.inputs)>>)
      BY <1>1, <1>5, HashActions DEF blake2b_input_count, RejectHard, MaybeTransaction
    <2>4. <<"input_count", Len(tx.inputs)>> \in Chunk
      BY <1>2 DEF Chunk
    <2>5. RawHash(tx)[3] = <<"input_count", Len(tx.inputs)>>
      BY <1>1, RawChunks
    <2> QED BY <2>2, <2>3, <2>4, <2>5
  <1>6. CASE at.cb = "since"
    <2>1. at.vec = "none" /\ at.i \in 0 .. Len(tx.inputs) - 1
      BY <1>1, <1>2, <1>6 DEF PositionOK, AtInputs, AtSource, AtSourceData, AtOutputs, AtOutputsData, InputHere, HeadCallbacks,
        InputCallbacks, CellCallbacks, SourceCallbacks, TypeCallbacks, DataCallbacks, Vectors
    <2>2. Hashed = 3 + 3 * at.i
      BY <1>6, <2>1 DEF Hashed, HashedAt
    <2>3. hash_state' = Append(hash_state, <<"since", at.i + 1>>)
      BY <1>6, HashActions DEF blake2b_chunk, Parse
    <2>4. <<"since", at.i + 1>> \in Chunk
      BY <1>1 DEF Chunk
    <2>5. Hashed # 0 /\ Hashed + 1 = 4 + 3 * at.i
      BY <1>1, <2>2
    <2> QED BY <1>1, <2>1, <2>3, <2>4, <2>5, RawChunks
  <1>7. CASE at.cb = "outputs"
    <2>1. at.vec = "outputs"
      BY <1>1, <1>7, Where
    <2>2. Hashed # 0 /\ Hashed + 1 = 4 + 3 * Len(tx.inputs)
      BY <1>2, <1>7, <2>1 DEF Hashed, HashedAt
    <2>3. hash_state' = Append(hash_state, <<"outputs">>)
      BY <1>7, HashActions DEF blake2b_chunk, Parse
    <2>4. <<"outputs">> \in Chunk
      BY DEF Chunk
    <2> QED BY <1>1, <2>2, <2>3, <2>4, RawChunks
  <1>8. CASE at.cb = "outputs_data"
    <2>1. at.vec = "outputs_data"
      BY <1>1, <1>8, Where
    <2>2. Hashed # 0 /\ Hashed + 1 = 5 + 3 * Len(tx.inputs)
      BY <1>2, <1>8, <2>1 DEF Hashed, HashedAt
    <2>3. hash_state' = Append(hash_state, <<"outputs_data">>)
      BY <1>8, HashActions DEF blake2b_chunk, Parse
    <2>4. <<"outputs_data">> \in Chunk
      BY DEF Chunk
    <2> QED BY <1>1, <2>2, <2>3, <2>4, RawChunks
  <1> QED BY <1>3, <1>4, <1>5, <1>6, <1>7, <1>8 DEF Hashes1

LEMMA HashedStep ==
    ASSUME IInv, Reading, CountKnown, ContextKnown, HashedSoFar, ParserStep, Follow, tx' = tx,
           ~maybe_transaction'.hard_reject
    PROVE  HashedSoFar'
  <1>1. at.cb # "last_chunk" /\ tx \in AnnotatedTransaction
    BY DataMoves DEF IInv, TypeOK
  <1>2. /\ hash_state \in Seq(Chunk) /\ Len(hash_state) = Hashed
        /\ Hashed > 0 => hash_state[1] = <<"offsets", tx.inputCount>>
        /\ \A k \in 2 .. Hashed : hash_state[k] = RawHash(tx)[k]
    BY <1>1 DEF HashedSoFar
  <1>3. /\ Hashed \in Nat
        /\ at.cb \in Hashes1 => Hashed' = Hashed + 1
        /\ at.cb = "finish_context_txn" => Hashed' = Hashed + 2
        /\ at.cb \notin Hashes1 \cup {"finish_context_txn", "witnesses"} => Hashed' = Hashed
    BY HashedMoves DEF CountKnown, Hashes1
  <1>4. CASE at.cb = "witnesses"
    BY <1>4, DataMoves DEF HashedSoFar, Goes, Position
  <1>5. CASE at.cb \in Hashes1
    <2>1. PICK c \in Chunk :
                /\ hash_state' = Append(hash_state, c)
                /\ IF Hashed = 0 THEN c = <<"offsets", tx.inputCount>> ELSE c = RawHash(tx)[Hashed + 1]
      BY <1>5, NextChunk
    <2> DEFINE first == <<"offsets", tx.inputCount>>
               r == RawHash(tx)
    <2> HIDE DEF first, r
    <2>2. /\ hash_state' \in Seq(Chunk) /\ Len(hash_state') = Hashed + 1
          /\ hash_state'[1] = first
          /\ \A k \in 2 .. Hashed + 1 : hash_state'[k] = r[k]
      BY <1>2, <2>1, OneMore DEF first, r
    <2> QED BY <1>3, <1>5, <2>2 DEF HashedSoFar, first, r
  <1>6. CASE at.cb = "finish_context_txn"
    <2>1. at.vec = "source_data" /\ at.i \in 0 .. Len(tx.inputs) - 1 /\ inp.index = Index
          /\ Index \in Nat
      BY <1>6, Where, InputNow DEF InSource, InputHere, Reading, InputKnown, SourceDataKnown, IInv, TypeOK
    <2>2. Hashed = 4 + 3 * at.i
      BY <2>1 DEF Hashed, HashedAt
    <2> DEFINE c == <<"tx_hash", SourceHash(at.i + 1)>>
               d == <<"index", Index>>
               first == <<"offsets", tx.inputCount>>
               r == RawHash(tx)
    <2>3. hash_state' = hash_state \o <<c, d>>
      BY <1>6, <2>1, HashActions DEF finish_context_txn, ContextKnown
    <2>4. c \in Chunk /\ d \in Chunk
      BY <2>1 DEF Chunk
    <2>5. c = r[Hashed + 1] /\ d = r[Hashed + 2]
      <3>1. Hashed + 1 = 5 + 3 * at.i /\ Hashed + 2 = 6 + 3 * at.i
        BY <2>1, <2>2
      <3> QED BY <1>1, <2>1, <3>1, RawChunks DEF Index
    <2>6. Len(hash_state) > 0 /\ hash_state[1] = first
      BY <1>2, <1>3, <2>1, <2>2
    <2> HIDE DEF c, d, first, r
    <2>7. /\ hash_state' \in Seq(Chunk) /\ Len(hash_state') = Hashed + 2
          /\ hash_state'[1] = first
          /\ \A k \in 2 .. Hashed + 2 : hash_state'[k] = r[k]
      <3>1. /\ hash_state \in Seq(Chunk) /\ \A k \in 2 .. Len(hash_state) : hash_state[k] = r[k]
            /\ c = r[Len(hash_state) + 1] /\ d = r[Len(hash_state) + 2]
        BY <1>2, <2>5 DEF r
      <3>2. /\ hash_state \o <<c, d>> \in Seq(Chunk) /\ Len(hash_state \o <<c, d>>) = Len(hash_state) + 2
            /\ (hash_state \o <<c, d>>)[1] = first
            /\ \A k \in 2 .. Len(hash_state) + 2 : (hash_state \o <<c, d>>)[k] = r[k]
        BY <2>4, <2>6, <3>1, TwoMore
      <3> QED BY <1>2, <2>3, <3>2
    <2> QED BY <1>3, <1>6, <2>7 DEF HashedSoFar, first, r
  <1>7. CASE at.cb \notin Hashes1 \cup {"finish_context_txn", "witnesses"}
    BY <1>2, <1>3, <1>7, HashFieldsStay DEF HashedSoFar
  <1> QED BY <1>4, <1>5, <1>6, <1>7

(* A transaction hash that was kept is the hash of the raw transaction.    *)
LEMMA KeptHash ==
    ASSUME IInv, Reading, CountKnown, HashedSoFar, at.cb = "finalize_raw_transaction"
    PROVE  hash_state = RawHash(tx)
  <1>1. /\ at.vec = "outputs_data" /\ tx \in AnnotatedTransaction /\ Len(tx.inputs) \in Nat
        /\ RawHash(tx) \in Seq(Chunk) /\ Len(RawHash(tx)) = 5 + 3 * Len(tx.inputs)
        /\ RawHash(tx)[1] = <<"offsets", Len(tx.inputs)>>
    BY Where, RawChunks DEF IInv, TypeOK
  <1>2. Hashed = 5 + 3 * Len(tx.inputs)
    BY <1>1 DEF Hashed, HashedAt
  <1>3. /\ hash_state \in Seq(Chunk) /\ Len(hash_state) = Len(RawHash(tx))
        /\ hash_state[1] = RawHash(tx)[1]
        /\ \A k \in 2 .. Len(hash_state) : hash_state[k] = RawHash(tx)[k]
    BY <1>1, <1>2 DEF HashedSoFar, CountKnown, CountChecked
  <1>4. \A k \in 1 .. Len(hash_state) : hash_state[k] = RawHash(tx)[k]
    BY <1>1, <1>3
  <1> HIDE DEF Chunk
  <1> QED BY <1>1, <1>3, <1>4, SeqEqual

LEMMA HashesKnownStep ==
    ASSUME IInv, Reading, Hashing, ParserStep, Follow, tx' = tx, ~maybe_transaction'.hard_reject
    PROVE  HashesKnown'
  <1>1. /\ ~maybe_transaction.hard_reject /\ (~maybe_transaction'.unsafe => ~maybe_transaction.unsafe)
        /\ at # Refused /\ at.vec # "end" /\ PositionOK
    BY VerdictsStay, NoReviewYet, VectorsInOrder DEF IInv, TypeOK
  <1>2. CountKnown /\ HashedSoFar /\ HashesKnown /\ HashesOK
    BY <1>1 DEF Hashing
  <1> SUFFICES ASSUME ~maybe_transaction'.unsafe, at'.cb \in {"witnesses", "last_chunk", "review"}
               PROVE  HashesKnown'
    BY DEF HashesKnown
  <1>3. \/ at'.cb = "witnesses" /\ at.cb = "finalize_raw_transaction"
        \/ at'.cb = "last_chunk" /\ at.cb = "witnesses"
    <2>1. Onward /\ PositionOK' /\ at'.vec # "end"
      BY <1>1, Advance DEF Onward, IInv, TypeOK
    <2>2. at'.cb # "review"
      BY <2>1 DEF PositionOK, Vectors, AtInputs, AtSource, AtSourceData, AtOutputs, AtOutputsData,
                  HeadCallbacks, InputCallbacks, CellCallbacks, TypeCallbacks, SourceCallbacks, DataCallbacks
    <2> QED BY <2>1, <2>2, DataMoves DEF Onward, Goes, Position
  <1>4. CASE at.cb = "finalize_raw_transaction"
    BY <1>2, <1>3, <1>4, HashesStep, KeptHash DEF HashesKnown
  <1>5. CASE at.cb = "witnesses"
    BY <1>1, <1>2, <1>3, <1>5, HashesStep DEF HashesKnown, FinalHash
  <1> QED BY <1>3, <1>4, <1>5

LEMMA HashingStep ==
    ASSUME IInv, Reading, Hashing, ParserStep
    PROVE  Hashing'
  <1>1. HashesOK'
    BY HashesStep DEF Hashing
  <1>2. CASE at' = Refused
    BY <1>1, <1>2 DEF Hashing, Refused, Position
  <1>3. CASE Follow
    <2> SUFFICES ASSUME ~maybe_transaction'.hard_reject PROVE Hashing'
      BY <1>1 DEF Hashing
    <2>1. tx' = tx /\ ~maybe_transaction.hard_reject /\ at.vec # "end"
      BY <1>3, StepShape, VerdictsStay, VectorsInOrder DEF env, IInv, TypeOK
    <2>2. CountKnown /\ ContextKnown /\ HashedSoFar
      BY <2>1 DEF Hashing
    <2> QED BY <1>1, <1>3, <2>1, <2>2, CountStep, ContextStep, HashedStep, HashesKnownStep DEF Hashing
  <1> QED BY <1>2, <1>3, StepShape

(* A packet that starts over, and the end of a session, leave nothing      *)
(* hashed.                                                                 *)
LEMMA HashingClear ==
    /\ at \in {Idle, Position("none", "set_sign_path", 0, 0)} /\ hash_state = <<>> /\ hashes = NoHashes
    => Hashing
  <1> SUFFICES ASSUME at \in {Idle, Position("none", "set_sign_path", 0, 0)}, hash_state = <<>>, hashes = NoHashes
               PROVE  Hashing
    OBVIOUS
  <1>1. at.vec = "none" /\ at.i = 0 /\ at.cb \in {"idle", "set_sign_path"}
    BY DEF Idle, Position
  <1>2. CountKnown /\ ContextKnown /\ HashesKnown /\ HashesOK
    BY <1>1 DEF CountKnown, CountChecked, ContextKnown, InSource, InputCallbacks, HashesKnown, HashesOK, NoHashes
  <1>3. Hashed = 0
    BY <1>1 DEF Hashed, HashedAt
  <1>4. HashedSoFar
    BY <1>3 DEF HashedSoFar
  <1> QED BY <1>2, <1>4 DEF Hashing

LEMMA HashingInit == Init => Hashing
  BY HashingClear DEF Init

LEMMA HashingNext == IInv /\ Reading /\ Verdicts /\ Hashing /\ [Next]_vars => Hashing'
  <1> SUFFICES ASSUME IInv, Reading, Verdicts, Hashing, [Next]_vars PROVE Hashing'
    OBVIOUS
  <1>1. ASSUME first_chunk \/ sign_ok \/ sign_reject PROVE Hashing'
    <2>1. at' \in {Idle, Position("none", "set_sign_path", 0, 0)} /\ hash_state' = <<>> /\ hashes' = NoHashes
      BY <1>1 DEF first_chunk, sign_ok, sign_reject, clear_data
    <2>2. (/\ at \in {Idle, Position("none", "set_sign_path", 0, 0)} /\ hash_state = <<>> /\ hashes = NoHashes)'
      BY <2>1 DEF Idle, Position, NoHashes
    <2> QED BY <2>2, HashingClear, PTL
  <1>2. ASSUME chunk_refused \/ Complete PROVE Hashing'
    <2>1. hashes' = hashes /\ tx' = tx
      BY <1>2 DEF chunk_refused, Complete, complete_unmarked, complete_hard_reject, complete_unsafe, sign_complete,
         parseState, env
    <2>2. CASE at' = Refused
      BY <2>1, <2>2 DEF Hashing, HashesOK, Refused, Position
    <2>3. CASE sign_complete
      <3>1. /\ at' = Review /\ at.cb = "last_chunk" /\ ~maybe_transaction.hard_reject /\ ~maybe_transaction.unsafe
            /\ at # Refused
        BY <2>3 DEF sign_complete, Refused, Position
      <3> QED BY <2>1, <3>1 DEF Hashing, HashesOK, HashesKnown, Review, Position
    <2> QED BY <1>2, <2>2, <2>3
        DEF chunk_refused, Complete, complete_unmarked, complete_hard_reject, complete_unsafe, Throw
  <1>3. ASSUME switch_contract_data \/ UNCHANGED vars PROVE Hashing'
    <2>1. UNCHANGED <<tx, at, maybe_transaction, inp, sums, hash_state, hashes>>
      BY <1>3 DEF switch_contract_data, parseState, vars, env
    <2>2. Hashed' = Hashed
      BY <2>1 DEF Hashed, HashedAt
    <2> QED BY <2>1, <2>2
        DEF Hashing, HashesOK, HashesKnown, CountKnown, CountChecked, ContextKnown, HashedSoFar, InSource
  <1> QED BY <1>1, <1>2, <1>3, HashingStep DEF Next

Approves == at = Review /\ signature' = [key |-> tx.signPath, hash |-> FinalHash(tx)]

(* A signature is given out only for a review that was approved, with the  *)
(* key of the path the host asked for, over the hash that the lock script  *)
(* of the chain checks for the transaction on the screen, whatever chunks, *)
(* restarts and switches of the setting came before.                       *)
THEOREM SignsTheReviewed == Spec => [][signature' # signature => Approves]_vars
  <1>1. IInv /\ Reading /\ Verdicts /\ Hashing /\ [Next]_vars => [signature' # signature => Approves]_vars
    <2> SUFFICES ASSUME IInv, Reading, Verdicts, Hashing, Next, signature' # signature PROVE Approves
      OBVIOUS
    <2>1. ~ParserStep
      BY StepShape
    <2>2. sign_ok
      BY <2>1 DEF Next, first_chunk, chunk_refused, Complete, complete_unmarked, complete_hard_reject, complete_unsafe,
         sign_complete, sign_reject, switch_contract_data, ui
    <2>3. at = Review /\ ~maybe_transaction.unsafe /\ ~maybe_transaction.hard_reject /\ at # Refused
          /\ at.cb = "review"
      BY <2>2 DEF sign_ok, Verdicts, SafeReview, Review, Refused, Position
    <2>4. hashes.final_hash = FinalHash(tx) /\ key.current = tx.signPath
      BY <2>3 DEF Hashing, HashesKnown, Reading, KeysKnown
    <2> QED BY <2>2, <2>3, <2>4 DEF sign_ok, Approves
  <1> QED BY <1>1, InitOK, NextOK, ReadingInit, ReadingNext, VerdictsInit, VerdictsNext, HashingInit, HashingNext, PTL
      DEF Spec
=============================================================================
