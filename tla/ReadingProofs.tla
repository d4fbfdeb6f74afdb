---------------------------- MODULE ReadingProofs ----------------------------
(***************************************************************************)
(* Proofs about what SignTransaction knows of the transaction it reads:    *)
(* at every callback the fields of the device are those of the cell the    *)
(* parser is at, and what was rejected or noted so far accounts for every  *)
(* cell read so far.                                                       *)
(***************************************************************************)
EXTENDS SignTransactionProofs

(* The end of a vector is reached after its last item.                     *)
EndsReached ==
    /\ at.cb \in {"outputs", "outputs_end", "outputs_data", "finalize_raw_transaction",
                  "witnesses", "last_chunk"} => at.j = Len(tx.outputs)
    /\ at.cb \in {"context_blake2b_chunk", "finish_context_txn"} => at.j = Len(CellsRead)
    /\ at.cb = "finish_inputs" => at.i = Len(tx.inputs)

(* The lock args to compare with are those of the two paths.               *)
KeysKnown ==
    at # Refused =>
        /\ at.cb \notin {"idle", "set_sign_path"} => key.current = tx.signPath
        /\ at.cb \notin {"idle", "set_sign_path", "set_change_path"} => key.change = tx.changePath

-----------------------------------------------------------------------------
(* What is known of cell c after some of its callbacks, when owner is the  *)
(* lock arg its lock is compared with, and what is known of it in the end. *)

AfterTypeHash == {"cell_type_arg_length", "output_end"}
AfterTypeCode == {"type_hash_type"} \cup AfterTypeHash
AfterArgs == {"input_lock_arg_end", "cell_type_code_hash"} \cup AfterTypeCode
AfterLockHash == {"script_arg_start_input", "script_arg_chunk"} \cup AfterArgs
AfterLockCode == {"lock_hash_type"} \cup AfterLockHash
AfterCapacity == {"cell_lock_code_hash"} \cup AfterLockCode
CellLevel == {"cell_capacity"} \cup AfterCapacity

Compares(owner) == lock_arg_cmp = owner /\ ~cell_state.lock_arg_nonequal
LockCompared(c, owner) ==
    ProperLock(c, owner) =>
        /\ lock_arg_tmp = c.lock.args
        /\ cell_state.lock_arg_nonequal <=> ~IsKey(c, owner)

CellSoFar(c, owner) ==
    /\ at.cb \in AfterCapacity => cell_state.capacity = c.capacity
    /\ cell_state.is_multisig <=> at.cb \in AfterLockCode /\ c.lock.code_hash = "multisig"
    /\ at.cb = "script_arg_chunk" => Compares(owner)
    /\ at.cb \in AfterArgs => LockCompared(c, owner)
    /\ cell_state.is_dao <=> at.cb \in AfterTypeCode /\ IsDao(c)
WholeCell(c, owner) ==
    /\ cell_state.capacity = c.capacity
    /\ cell_state.is_multisig <=> c.lock.code_hash = "multisig"
    /\ LockCompared(c, owner)
    /\ cell_state.is_dao <=> IsDao(c)

-----------------------------------------------------------------------------
(* The input in progress: the cell it spends is the one of its source that *)
(* is active, and cell_state is blank before that cell and keeps what it   *)
(* read of it to the end of the source's data.                             *)

Index == tx.inputs[at.i + 1].index
SpentNow == tx.inputs[at.i + 1].source[Index + 1]
Comes == at.j < Index \/ (at.j = Index /\ at.cb = "input_context_start_idx")
Gone == at.j > Index

SourceKnown ==
    at.vec = "source" =>
        /\ inp.index = Index /\ ~cell_state.dao_data_is_nonzero
        /\ at.cb \in CellLevel => (cell_state.active <=> at.j = Index)
        /\ Comes => ~cell_state.is_multisig /\ ~cell_state.is_dao
        /\ ~Comes /\ ~Gone => CellSoFar(SpentNow, tx.signPath)
        /\ Gone => WholeCell(SpentNow, tx.signPath)
SourceDataKnown ==
    at.vec = "source_data" =>
        /\ inp.index = Index
        /\ at.cb \in DataCallbacks \cup {"finish_input_cell_data"} => (cell_state.active <=> at.j = Index)
        /\ Index < Len(CellsRead) => WholeCell(SpentNow, tx.signPath)
        /\ cell_state.dao_data_is_nonzero <=>
                /\ Gone \/ (at.j = Index /\ at.cb = "finish_input_cell_data")
                /\ SpentNow.data.nonzero
InputKnown ==
    /\ at.vec = "none" /\ at.cb \in InputCallbacks => cell_state = ZeroCellState
    /\ SourceKnown /\ SourceDataKnown

-----------------------------------------------------------------------------
(* The outputs: every cell is active, the DAO cells are in dao_bitmask, and*)
(* whether data is nonzero adds up over the outputs.                       *)

DaoAmong(m) == {n \in 0 .. MAX_CELLS : n < m /\ IsDao(tx.outputs[n + 1])}
NonzeroAmong(m) == \E n \in 1 .. m : tx.outputs[n].data.nonzero

OutputsKnown ==
    at.vec = "outputs" =>
        /\ utx.dao_bitmask = DaoAmong(at.j)
        /\ at.cb # "output_start" => cell_state.active /\ ~cell_state.dao_data_is_nonzero
        /\ at.cb \in CellCallbacks => Compares(tx.changePath)
        /\ at.cb \in CellLevel =>
                CellSoFar(cell, tx.changePath) /\ utx.current_output_index = at.j
OutputsDataKnown ==
    at.vec = "outputs_data" =>
        /\ utx.dao_bitmask = DaoAmong(Len(tx.outputs))
        /\ cell_state.active
        /\ at.cb \in DataCallbacks \cup {"finish_output_cell_data"} => (cell_state.is_dao <=> IsDao(cell))
        /\ cell_state.dao_data_is_nonzero <=>
                NonzeroAmong(IF at.cb = "finish_output_cell_data" THEN at.j + 1 ELSE at.j)

(* data_size has room for sizes up to 14; larger ones all look the same.   *)
SizeKnown ==
    at.cb \in {"check_cell_data_data_chunk", "finish_input_cell_data", "finish_output_cell_data"} =>
        cell_state.data_size = IF cell.data.size < 15 THEN cell.data.size ELSE 15

Reading ==
    /\ EndsReached /\ KeysKnown /\ InputKnown /\ OutputsKnown /\ OutputsDataKnown /\ SizeKnown

-----------------------------------------------------------------------------
(* Where each callback leads.                                              *)

Goes(cb) == at' = Position(at.vec, cb, at.i, at.j)

LEMMA HeadMoves ==
    ASSUME Follow
    PROVE  /\ at.cb # "idle"
           /\ at.cb = "set_sign_path" => Goes("set_change_path")
           /\ at.cb = "set_change_path" => Goes("set_input_count")
           /\ at.cb = "set_input_count" => Goes("computeNewOffsetsToHash")
           /\ at.cb = "computeNewOffsetsToHash" => Goes("version_and_deps")
           /\ at.cb = "version_and_deps" => Goes("inputs_start")
           /\ at.cb = "inputs_start" => Goes("input_start")
           /\ at.cb = "input_start" =>
                \/ at.i = 0 /\ Goes("blake2b_input_count")
                \/ at.i \in 1 .. Len(tx.inputs) - 1 /\ Goes("since")
                \/ at.i = Len(tx.inputs) /\ Goes("finish_inputs")
           /\ at.cb = "blake2b_input_count" => Goes("since")
           /\ at.cb = "since" => Goes("input_save_index")
           /\ at.cb = "input_save_index" => at' = Position("source", "input_context_start_idx", at.i, 0)
           /\ at.cb = "finish_inputs" => at' = Position("outputs", "output_start", at.i, 0)
  BY DEF Goes, To, Enter, NextItem, Follow, Straight, Then, FollowInputs, FollowVectors, FollowCell

LEMMA CellMoves ==
    ASSUME Follow
    PROVE  /\ at.cb = "cell_capacity" => Goes("cell_lock_code_hash")
           /\ at.cb = "cell_lock_code_hash" => Goes("lock_hash_type")
           /\ at.cb = "lock_hash_type" =>
                Goes(IF InSource THEN "script_arg_start_input" ELSE "script_arg_chunk")
           /\ at.cb = "script_arg_start_input" => Goes("script_arg_chunk")
           /\ at.cb = "script_arg_chunk" => IF InSource THEN Goes("input_lock_arg_end") ELSE LockEnd
           /\ at.cb = "input_lock_arg_end" => LockEnd
           /\ at.cb = "cell_type_code_hash" => Goes("type_hash_type")
           /\ at.cb = "type_hash_type" => Goes("cell_type_arg_length")
           /\ at.cb = "cell_type_arg_length" => CellEnd
           /\ at.cb = "output_end" => at' = Position(at.vec, "output_start", at.i, at.j + 1)
  BY DEF Goes, To, NextItem, Follow, Straight, Then, FollowInputs, FollowVectors, FollowCell

LEMMA VectorMoves ==
    ASSUME Follow
    PROVE  /\ at.cb = "input_context_start_idx" /\ at.vec = "source" =>
                IF MoreItems THEN Goes("cell_capacity")
                ELSE at' = Position("source_data", "input_context_start_idx", at.i, 0)
           /\ at.cb = "input_context_start_idx" /\ at.vec = "source_data" =>
                Goes(IF MoreItems THEN "set_cell_data_size" ELSE "context_blake2b_chunk")
           /\ at.cb = "context_blake2b_chunk" => Goes("finish_context_txn")
           /\ at.cb = "finish_context_txn" => at' = Position("none", "input_start", at.i + 1, 0)
           /\ at.cb = "output_start" => Goes(IF MoreItems THEN "cell_capacity" ELSE "outputs")
           /\ at.cb = "outputs" => Goes("outputs_end")
           /\ at.cb = "outputs_end" => at' = Position("outputs_data", "validate_output_data_start", at.i, 0)
           /\ at.cb = "validate_output_data_start" =>
                Goes(IF MoreItems THEN "set_cell_data_size" ELSE "outputs_data")
  BY DEF Goes, To, Enter, NextItem, Follow, Straight, Then, FollowInputs, FollowVectors, FollowCell

LEMMA DataMoves ==
    ASSUME Follow
    PROVE  /\ at.cb = "set_cell_data_size" => Goes("check_cell_data_data_chunk")
           /\ at.cb = "check_cell_data_data_chunk" =>
                Goes(IF InSource THEN "finish_input_cell_data" ELSE "finish_output_cell_data")
           /\ at.cb = "finish_input_cell_data" =>
                at' = Position(at.vec, "input_context_start_idx", at.i, at.j + 1)
           /\ at.cb = "finish_output_cell_data" =>
                at' = Position(at.vec, "validate_output_data_start", at.i, at.j + 1)
           /\ at.cb = "outputs_data" => Goes("finalize_raw_transaction")
           /\ at.cb = "finalize_raw_transaction" => Goes("witnesses")
           /\ at.cb = "witnesses" => Goes("last_chunk")
           /\ at.cb # "last_chunk" /\ at.cb \notin {"refused", "review"}
  BY DEF Goes, To, NextItem, Follow, Straight, Then, FollowInputs, FollowVectors, FollowCell
-----------------------------------------------------------------------------
(* Which actions make a callback.                                          *)

LEMMA InputCallbacksOf ==
    /\ set_sign_path \/ init_bip32_rejects => at.cb = "set_sign_path"
    /\ set_change_path => at.cb = "set_change_path"
    /\ set_input_count => at.cb = "set_input_count"
    /\ computeNewOffsetsToHash => at.cb = "computeNewOffsetsToHash"
    /\ blake2b_chunk => at.cb \in {"version_and_deps", "since", "outputs", "outputs_data"}
    /\ inputs_start => at.cb = "inputs_start"
    /\ input_start => at.cb = "input_start"
    /\ blake2b_input_count => at.cb = "blake2b_input_count"
    /\ input_save_index => at.cb = "input_save_index"
    /\ input_context_start_idx => at.cb = "input_context_start_idx"
    /\ context_blake2b_chunk => at.cb = "context_blake2b_chunk"
    /\ finish_context_txn => at.cb = "finish_context_txn"
    /\ finish_inputs => at.cb = "finish_inputs"
  BY DEF set_sign_path, init_bip32_rejects, set_change_path, set_input_count, computeNewOffsetsToHash,
     blake2b_chunk, inputs_start, input_start, blake2b_input_count, input_save_index, input_context_start_idx,
     context_blake2b_chunk, finish_context_txn, finish_inputs, Parse

LEMMA CellCallbacksOf ==
    /\ cell_capacity => at.cb = "cell_capacity" /\ cell_state.active
    /\ cell_lock_code_hash => at.cb = "cell_lock_code_hash" /\ cell_state.active
    /\ cell_script_hash_type => at.cb \in {"lock_hash_type", "type_hash_type"} /\ cell_state.active
    /\ script_arg_start_input => at.cb = "script_arg_start_input" /\ cell_state.active
    /\ script_arg_chunk => at.cb = "script_arg_chunk" /\ cell_state.active
    /\ input_lock_arg_end => at.cb = "input_lock_arg_end" /\ cell_state.active
    /\ cell_type_code_hash => at.cb = "cell_type_code_hash" /\ cell_state.active
    /\ cell_type_arg_length => at.cb = "cell_type_arg_length" /\ cell_state.active
    /\ set_cell_data_size => at.cb = "set_cell_data_size"
    /\ check_cell_data_data_chunk => at.cb = "check_cell_data_data_chunk" /\ cell_state.active
    /\ finish_input_cell_data_dao \/ finish_input_cell_data_plain =>
            at.cb = "finish_input_cell_data" /\ cell_state.active
    /\ InactiveCell => at.cb \in ActiveOnly /\ ~cell_state.active
  BY DEF cell_capacity, cell_lock_code_hash, cell_script_hash_type, script_arg_start_input, script_arg_chunk,
     input_lock_arg_end, cell_type_code_hash, cell_type_arg_length, set_cell_data_size,
     check_cell_data_data_chunk, finish_input_cell_data_dao, finish_input_cell_data_plain, InactiveCell,
     Parse, ParseActive

LEMMA OutputCallbacksOf ==
    /\ output_start => at.cb = "output_start"
    /\ output_end => at.cb = "output_end"
    /\ outputs_end => at.cb = "outputs_end"
    /\ validate_output_data_start => at.cb = "validate_output_data_start"
    /\ finish_output_cell_data => at.cb = "finish_output_cell_data"
    /\ finalize_raw_transaction => at.cb = "finalize_raw_transaction"
    /\ witnesses => at.cb = "witnesses"
  BY DEF output_start, output_end, output_end_dao, output_end_change, output_end_first, output_end_same,
     output_end_other, OutputEnd, outputs_end, validate_output_data_start, finish_output_cell_data,
     finalize_raw_transaction, finalize_single_source, finalize_multi_source, finalize_multi_output,
     finalize_dao_deposit, finalize_dao_prepare, finalize_dao_withdraw, Finalize, witnesses, Parse

(* The vector of a callback.                                               *)
LEMMA Where ==
    ASSUME PositionOK
    PROVE  /\ at.vec \in Vectors /\ at.i \in Nat /\ at.j \in Nat
           /\ at.vec = "none" <=> at.cb \in HeadCallbacks \cup InputCallbacks \cup {"input_start", "finish_inputs"}
           /\ at.vec = "source" <=>
                \/ at.cb = "input_context_start_idx" /\ at.vec # "source_data"
                \/ at.cb \in CellLevel /\ InSource
           /\ InSource => InputHere
           /\ at.cb \in CellLevel => at.vec \in {"source", "outputs"} /\ MoreItems
           /\ at.cb \in AfterTypeCode \cup {"cell_type_code_hash"} /\ at.cb # "output_end" => HasType(cell)
           /\ at.cb \in SourceCallbacks => at.vec = "source"
           /\ at.cb \in DataCallbacks => at.vec \in {"source_data", "outputs_data"} /\ MoreItems
           /\ at.cb = "finish_input_cell_data" => at.vec = "source_data" /\ MoreItems
           /\ at.cb \in {"context_blake2b_chunk", "finish_context_txn"} => at.vec = "source_data"
           /\ at.cb = "finish_output_cell_data" => at.vec = "outputs_data" /\ MoreItems
           /\ at.cb \in {"output_start", "output_end", "outputs", "outputs_end"} => at.vec = "outputs"
           /\ at.cb \in {"validate_output_data_start", "outputs_data", "finalize_raw_transaction",
                         "witnesses", "last_chunk"} => at.vec = "outputs_data"
           /\ at.cb \in {"input_context_start_idx", "output_start", "validate_output_data_start"} =>
                at.j <= Len(CellsRead)
           /\ at.cb = "output_end" => MoreItems
           /\ at.vec = "end" <=> at.cb \in {"refused", "review"}
  BY DEF PositionOK, Vectors, AtInputs, AtSource, AtSourceData, AtOutputs, AtOutputsData, InSource, Callbacks,
     HeadCallbacks, InputCallbacks, CellCallbacks, TypeCallbacks, SourceCallbacks, DataCallbacks,
     CellLevel, AfterCapacity, AfterLockCode, AfterLockHash, AfterArgs, AfterTypeCode, AfterTypeHash

-----------------------------------------------------------------------------
(* Reading one cell.                                                       *)

(* The args of a proper lock are copied whole, and they differ from those  *)
(* they are compared with if and only if the cell is not the owner's: the  *)
(* bytes behind those are only looked at when the first twenty agree.      *)
LEMMA ArgsCompared ==
    ASSUME IInv, script_arg_chunk, NEW c, c = cell, NEW owner, Compares(owner)
    PROVE  LockCompared(c, owner)'
  <1>1. /\ c \in Cell /\ cell_state \in CellState
        /\ lock_arg_cmp = owner /\ ~cell_state.lock_arg_nonequal
        /\ Compared \in LockArg
    <2>1. at.cb = "script_arg_chunk"
      BY DEF script_arg_chunk, ParseActive, Parse
    <2>2. key.change \in StandardLockArg /\ dao_cell_owner \in StandardLockArg
      BY DEF IInv, TypeOK, FieldsOK
    <2>3. AsPeriod(IF InSource THEN key.change ELSE dao_cell_owner) \in Periods
      BY <2>2, BytesAssumption
    <2> QED BY <2>1, <2>3, CellNow DEF IInv, TypeOK, FieldsOK, Compares, Compared, LockArg, CellCallbacks
  <1>2. c.lock.args \in LockArg /\ c.lock.size \in Nat
        /\ (c.lock.size <= 20 => c.lock.args.lock_period = NoPeriod)
    BY <1>1 DEF Cell, LockScript
  <1>3. SUFFICES ASSUME ProperLock(c, owner)
                 PROVE  /\ lock_arg_tmp' = c.lock.args
                        /\ cell_state'.lock_arg_nonequal <=> ~IsKey(c, owner)
    BY DEF LockCompared
  <1>4. \/ c.lock.size = 20
        \/ c.lock.size = 28 /\ ~KeyLock(c)
    BY <1>3 DEF ProperLock, KeyLock, MultisigLock
  <1>5. /\ lock_arg_tmp' = c.lock.args
        /\ cell_state' = [cell_state EXCEPT !.lock_arg_nonequal = @ \/ ~Agrees(cell.lock)]
    BY <1>1, <1>4 DEF script_arg_chunk
  <1>6. Agrees(cell.lock) <=> IsKey(c, owner)
    <2>1. Compared.hash = owner
      BY <1>1 DEF Compared
    <2>2. CASE c.lock.size = 20
      <3>1. Agrees(cell.lock) <=> c.lock.args.hash = Compared.hash
        BY <1>1, <1>2, <2>2, BytesAssumption DEF Agrees
      <3> QED BY <1>3, <2>1, <2>2, <3>1 DEF IsKey, ProperLock, MultisigLock, KeyLock
    <2>3. CASE c.lock.size = 28
      <3>1. Agrees(cell.lock) <=> c.lock.args = Compared
        BY <1>1, <1>2, <2>3, BytesAssumption DEF Agrees
      <3>2. c.lock.args.hash # owner
        BY <1>3, <2>3 DEF ProperLock, KeyLock
      <3> QED BY <1>4, <2>1, <2>3, <3>1, <3>2 DEF IsKey
    <2> QED BY <1>4, <2>2, <2>3
  <1> QED BY <1>1, <1>5, <1>6 DEF CellState

(* A callback of an active cell c, in a source or in the outputs, adds to  *)
(* what is known of c; in a source the last one leads to the next cell.    *)
LEMMA CellStep ==
    ASSUME IInv, CellScripts, Follow, NEW c, c = cell, NEW owner, CellSoFar(c, owner),
           InSource => owner = key.current, ~InSource /\ at.cb \in CellCallbacks => Compares(owner)
    PROVE  /\ cell_state'.active = cell_state.active
           /\ cell_state'.dao_data_is_nonzero = cell_state.dao_data_is_nonzero
           /\ \/ /\ at'.vec = at.vec /\ at'.i = at.i /\ at'.j = at.j /\ at'.cb \in CellLevel
                 /\ CellSoFar(c, owner)'
                 /\ ~InSource /\ at'.cb \in CellCallbacks => Compares(owner)'
              \/ /\ InSource /\ at' = Position(at.vec, "input_context_start_idx", at.i, at.j + 1)
                 /\ WholeCell(c, owner)'
  <1> USE DEF Goes, Position
  <1>1. /\ cell_state \in CellState /\ at.cb \in CellLevel /\ at.cb # "output_end"
        /\ at.cb \in SourceCallbacks => InSource
        /\ at.cb \in AfterTypeCode => HasType(c)
    BY CellCallbacksOf, Where
    DEF CellScripts, IInv, TypeOK, FieldsOK, CellLevel, AfterCapacity, AfterLockCode, AfterLockHash, AfterArgs,
        AfterTypeCode, AfterTypeHash, InSource
  <1> USE DEF CellState, AfterCapacity, AfterLockCode, AfterLockHash, AfterArgs, AfterTypeCode, AfterTypeHash
  <1>2. ASSUME cell_capacity
        PROVE  /\ Goes("cell_lock_code_hash") /\ cell_state' = [cell_state EXCEPT !.capacity = c.capacity]
               /\ UNCHANGED <<lock_arg_cmp, lock_arg_tmp>> /\ at.cb = "cell_capacity"
    BY <1>2, CellMoves, CellCallbacksOf DEF cell_capacity
  <1>3. CASE cell_capacity
    BY <1>1, <1>2, <1>3 DEF CellSoFar, CellLevel, CellCallbacks, Compares
  <1>4. CASE cell_lock_code_hash
    <2>1. /\ Goes("lock_hash_type") /\ at.cb = "cell_lock_code_hash"
          /\ UNCHANGED <<lock_arg_cmp, lock_arg_tmp>>
          /\ \/ c.lock.code_hash # "multisig" /\ UNCHANGED cell_state
             \/ cell_state' = [cell_state EXCEPT !.is_multisig = (c.lock.code_hash = "multisig")]
      BY <1>4, CellMoves, CellCallbacksOf DEF cell_lock_code_hash
    <2> QED BY <1>1, <2>1 DEF CellSoFar, CellLevel, CellCallbacks, Compares
  <1>5. CASE cell_script_hash_type
    <2>1. /\ UNCHANGED <<cell_state, lock_arg_cmp, lock_arg_tmp>>
          /\ \/ /\ at.cb = "lock_hash_type"
                /\ Goes(IF InSource THEN "script_arg_start_input" ELSE "script_arg_chunk")
             \/ at.cb = "type_hash_type" /\ Goes("cell_type_arg_length")
      BY <1>5, CellMoves DEF cell_script_hash_type, ParseActive, Parse, perCell
    <2> QED BY <1>1, <2>1 DEF CellSoFar, CellLevel, CellCallbacks, Compares, LockCompared, InSource
  <1>6. CASE script_arg_start_input
    <2>1. /\ Goes("script_arg_chunk") /\ at.cb = "script_arg_start_input" /\ InSource
          /\ cell_state' = [cell_state EXCEPT !.lock_arg_nonequal = FALSE] /\ lock_arg_cmp' = owner
      BY <1>1, <1>6, CellMoves, CellCallbacksOf DEF script_arg_start_input, SourceCallbacks
    <2> QED BY <1>1, <2>1 DEF CellSoFar, CellLevel, CellCallbacks, Compares, InSource
  <1>7. CASE script_arg_chunk
    <2>1. /\ at.cb = "script_arg_chunk" /\ IF InSource THEN Goes("input_lock_arg_end") ELSE LockEnd
          /\ \E nonequal \in BOOLEAN :
                cell_state' = [cell_state EXCEPT !.lock_arg_nonequal = nonequal]
      BY <1>1, <1>7, CellMoves, CellCallbacksOf DEF script_arg_chunk
    <2>2. LockCompared(c, owner)' /\ ~cell_state.is_dao /\ cell_state'.is_dao = cell_state.is_dao
      <3>1. LockCompared(c, owner)'
        BY <1>1, <1>7, <2>1, ArgsCompared DEF CellSoFar
      <3> QED BY <1>1, <2>1, <3>1 DEF CellSoFar
    <2>3. CASE InSource
      BY <1>1, <2>1, <2>2, <2>3 DEF CellSoFar, CellLevel, CellCallbacks, LockCompared, InSource
    <2>4. CASE ~InSource
      <3>1. Goes(IF HasType(c) THEN "cell_type_code_hash" ELSE "output_end")
        BY <2>1, <2>4 DEF LockEnd, CellEnd, To
      <3>2. ~HasType(c) => ~IsDao(c)
        BY DEF HasType, IsDao
      <3> QED BY <1>1, <2>1, <2>2, <2>4, <3>1, <3>2 DEF CellSoFar, CellLevel, CellCallbacks, LockCompared, InSource
    <2> QED BY <2>3, <2>4
  <1>8. CASE input_lock_arg_end
    <2>1. /\ at.cb = "input_lock_arg_end" /\ InSource /\ LockEnd
          /\ UNCHANGED <<cell_state, lock_arg_cmp, lock_arg_tmp>>
      BY <1>1, <1>8, CellMoves, CellCallbacksOf DEF input_lock_arg_end, SourceCallbacks, perCell
    <2>2. IF HasType(c) THEN Goes("cell_type_code_hash")
          ELSE at' = Position(at.vec, "input_context_start_idx", at.i, at.j + 1)
      BY <2>1 DEF LockEnd, CellEnd, To, NextItem
    <2>3. ~HasType(c) => ~IsDao(c)
      BY DEF HasType, IsDao
    <2> QED BY <1>1, <2>1, <2>2, <2>3 DEF CellSoFar, WholeCell, CellLevel, CellCallbacks, LockCompared, InSource
  <1>9. CASE cell_type_code_hash
    <2>1. /\ at.cb = "cell_type_code_hash" /\ Goes("type_hash_type")
          /\ UNCHANGED <<lock_arg_cmp, lock_arg_tmp>>
          /\ \/ IsDao(c) /\ cell_state' = [cell_state EXCEPT !.is_dao = TRUE]
             \/ ~IsDao(c) /\ UNCHANGED cell_state
      BY <1>9, CellMoves, CellCallbacksOf DEF cell_type_code_hash, IsDao
    <2> QED BY <1>1, <2>1 DEF CellSoFar, CellLevel, CellCallbacks, LockCompared, InSource
  <1>10. CASE cell_type_arg_length
    <2>1. /\ at.cb = "cell_type_arg_length" /\ CellEnd
          /\ UNCHANGED <<cell_state, lock_arg_cmp, lock_arg_tmp>>
      BY <1>10, CellMoves, CellCallbacksOf DEF cell_type_arg_length, perCell
    <2>2. IF InSource THEN at' = Position(at.vec, "input_context_start_idx", at.i, at.j + 1)
          ELSE Goes("output_end")
      BY <2>1 DEF CellEnd, To, NextItem
    <2> QED BY <1>1, <2>1, <2>2 DEF CellSoFar, WholeCell, CellLevel, CellCallbacks, LockCompared, InSource
  <1> QED BY <1>3, <1>4, <1>5, <1>6, <1>7, <1>8, <1>9, <1>10 DEF CellScripts

-----------------------------------------------------------------------------
(* Reading the source of an input.                                         *)

LEMMA SourceActions ==
    ASSUME PositionOK, ParserStep, at.vec = "source"
    PROVE  \/ input_context_start_idx /\ at.cb = "input_context_start_idx"
           \/ CellScripts /\ at.cb \in CellLevel /\ cell_state.active
           \/ InactiveCell /\ at.cb \in CellLevel /\ ~cell_state.active
  <1>1. at.cb = "input_context_start_idx" \/ (at.cb \in CellLevel /\ at.cb # "output_end")
    BY Where
  <1>2. Prologue => at.cb \notin CellLevel \cup {"input_context_start_idx"}
    BY InputCallbacksOf
    DEF Prologue, CellLevel, AfterCapacity, AfterLockCode, AfterLockHash, AfterArgs, AfterTypeCode, AfterTypeHash
  <1>3. Inputs => at.cb \notin CellLevel /\ (at.cb = "input_context_start_idx" => input_context_start_idx)
    BY InputCallbacksOf
    DEF Inputs, CellLevel, AfterCapacity, AfterLockCode, AfterLockHash, AfterArgs, AfterTypeCode, AfterTypeHash
  <1>4. CellScripts => at.cb # "input_context_start_idx" /\ cell_state.active
    BY CellCallbacksOf DEF CellScripts
  <1>5. CellsData => at.cb \notin CellLevel \cup {"input_context_start_idx"}
    BY CellCallbacksOf
    DEF CellsData, CellLevel, AfterCapacity, AfterLockCode, AfterLockHash, AfterArgs, AfterTypeCode, AfterTypeHash
  <1>6. InactiveCell => at.cb # "input_context_start_idx" /\ ~cell_state.active
    BY CellCallbacksOf DEF ActiveOnly
  <1>7. Outputs => at.cb \notin CellLevel \ {"output_end"} /\ at.cb # "input_context_start_idx"
    BY OutputCallbacksOf
    DEF Outputs, CellLevel, AfterCapacity, AfterLockCode, AfterLockHash, AfterArgs, AfterTypeCode, AfterTypeHash
  <1>8. finalize_raw_transaction \/ witnesses => at.cb \notin CellLevel \cup {"input_context_start_idx"}
    BY OutputCallbacksOf
    DEF CellLevel, AfterCapacity, AfterLockCode, AfterLockHash, AfterArgs, AfterTypeCode, AfterTypeHash
  <1> QED BY <1>1, <1>2, <1>3, <1>4, <1>5, <1>6, <1>7, <1>8 DEF ParserStep

LEMMA SourceStep ==
    ASSUME IInv, Reading, ParserStep, Follow, tx' = tx, at.vec = "source"
    PROVE  InputKnown'
  <1> USE DEF Position
  <1>1. /\ PositionOK /\ at.i \in Nat /\ at.j \in Nat /\ InputHere /\ InSource
        /\ cell_state \in CellState /\ inp \in Inp /\ SourceKnown
        /\ key.current = tx.signPath
    BY Where DEF IInv, TypeOK, FieldsOK, InSource, Reading, InputKnown, KeysKnown, Refused,
       HeadCallbacks, InputCallbacks
  <1>2. Index \in Nat
    <2>1. tx.inputs[at.i + 1] \in AnnotatedInput
      BY <1>1 DEF IInv, TypeOK, AnnotatedTransaction, NonEmptySeq, InputHere
    <2> QED BY <2>1 DEF Index, AnnotatedInput
  <1>3. at'.i = at.i => Index' = Index /\ SpentNow' = SpentNow
    BY DEF Index, SpentNow
  <1>4. at.j = Index => SpentNow = cell
    BY <1>1 DEF SpentNow, cell, CellsRead, InSource
  <1>5. CASE input_context_start_idx /\ at.cb = "input_context_start_idx"
    <2>1. /\ cell_state' = [cell_state EXCEPT !.active = (at.j = Index)]
          /\ UNCHANGED <<lock_arg_cmp, lock_arg_tmp, inp>>
          /\ IF MoreItems THEN Goes("cell_capacity")
             ELSE at' = Position("source_data", "input_context_start_idx", at.i, 0)
      BY <1>1, <1>5, VectorMoves DEF input_context_start_idx, SourceKnown
    <2>2. CASE MoreItems
      <3>1. /\ at' = Position("source", "cell_capacity", at.i, at.j) /\ inp'.index = Index
            /\ cell_state'.active <=> at.j = Index
            /\ ~cell_state'.dao_data_is_nonzero
            /\ cell_state'.is_multisig = cell_state.is_multisig /\ cell_state'.is_dao = cell_state.is_dao
            /\ cell_state'.capacity = cell_state.capacity
            /\ cell_state'.lock_arg_nonequal = cell_state.lock_arg_nonequal
            /\ lock_arg_tmp' = lock_arg_tmp
        BY <1>1, <2>1, <2>2 DEF Goes, SourceKnown, CellState
      <3>2. Index' = Index /\ SpentNow' = SpentNow
        BY <1>3, <3>1
      <3>3. Gone => WholeCell(SpentNow, tx.signPath)'
        BY <1>1, <3>1, <3>2 DEF SourceKnown, WholeCell, LockCompared
      <3>4. ~Gone => ~cell_state.is_multisig /\ ~cell_state.is_dao
        BY <1>1, <1>2, <1>5 DEF SourceKnown, Comes, Gone
      <3>5. ~Gone => CellSoFar(SpentNow, tx.signPath)'
        BY <3>1, <3>4
        DEF CellSoFar, AfterCapacity, AfterLockCode, AfterLockHash, AfterArgs, AfterTypeCode, AfterTypeHash
      <3>6. SourceKnown'
        BY <1>1, <1>2, <3>1, <3>2, <3>3, <3>4, <3>5 DEF SourceKnown, Comes, Gone
      <3> QED BY <3>1, <3>6 DEF InputKnown, SourceDataKnown
    <2>3. CASE ~MoreItems
      <3>1. at.j >= Len(CellsRead) /\ CellsRead' = CellsRead /\ Len(CellsRead) \in Nat
        BY <1>1, <2>1, <2>3, Lengths DEF MoreItems, CellsRead, InSource, InputHere, IInv, TypeOK
      <3>2. Index < Len(CellsRead) => Gone
        BY <1>1, <1>2, <3>1 DEF Gone
      <3>3. SourceDataKnown'
        BY <1>1, <1>2, <1>3, <1>5, <2>1, <2>3, <3>1, <3>2
        DEF SourceKnown, SourceDataKnown, Comes, Gone, WholeCell, LockCompared, CellState, DataCallbacks
      <3> QED BY <2>1, <2>3, <3>3 DEF InputKnown, SourceKnown
    <2> QED BY <2>2, <2>3
  <1>6. CASE CellScripts /\ at.cb \in CellLevel /\ cell_state.active
    <2>1. at.j = Index /\ CellSoFar(SpentNow, tx.signPath)
      BY <1>1, <1>2, <1>6
      DEF SourceKnown, Comes, Gone, CellLevel, AfterCapacity, AfterLockCode, AfterLockHash, AfterArgs,
          AfterTypeCode, AfterTypeHash
    <2>2. inp'.index = inp.index
      BY <1>1, <1>6
      DEF CellScripts, cell_capacity, cell_lock_code_hash, cell_script_hash_type, script_arg_start_input,
          script_arg_chunk, input_lock_arg_end, cell_type_code_hash, cell_type_arg_length, Inp
    <2> PICK c : c = SpentNow
      OBVIOUS
    <2> PICK owner : owner = tx.signPath
      OBVIOUS
    <2>3. /\ cell_state'.active = cell_state.active
          /\ cell_state'.dao_data_is_nonzero = cell_state.dao_data_is_nonzero
          /\ \/ /\ at'.vec = at.vec /\ at'.i = at.i /\ at'.j = at.j /\ at'.cb \in CellLevel
                /\ CellSoFar(c, owner)'
             \/ /\ at' = Position(at.vec, "input_context_start_idx", at.i, at.j + 1)
                /\ WholeCell(c, owner)'
      BY <1>1, <1>4, <1>6, <2>1, CellStep
    <2>4. "input_context_start_idx" \notin CellLevel
      BY DEF CellLevel, AfterCapacity, AfterLockCode, AfterLockHash, AfterArgs, AfterTypeCode, AfterTypeHash
    <2>5. SourceKnown'
      BY <1>1, <1>2, <1>3, <1>6, <2>1, <2>2, <2>3, <2>4 DEF SourceKnown, Comes, Gone
    <2>6. at'.vec = "source"
      BY <2>3
    <2> QED BY <2>5, <2>6 DEF InputKnown, SourceDataKnown
  <1>7. CASE InactiveCell /\ at.cb \in CellLevel /\ ~cell_state.active
    <2>1. /\ UNCHANGED <<cell_state, lock_arg_cmp, lock_arg_tmp, inp>> /\ at.j # Index
          /\ at.cb # "output_end"
      BY <1>1, <1>7, Where DEF InactiveCell, perCell, SourceKnown
    <2>2. \/ at'.vec = at.vec /\ at'.i = at.i /\ at'.j = at.j
          \/ at' = Position(at.vec, "input_context_start_idx", at.i, at.j + 1)
      BY <1>1, <1>7, <2>1, CellMoves
      DEF Goes, LockEnd, CellEnd, To, NextItem, CellLevel, AfterCapacity, AfterLockCode, AfterLockHash, AfterArgs,
          AfterTypeCode, AfterTypeHash
    <2>3. at.j < Index => ~cell_state.is_multisig /\ ~cell_state.is_dao
      BY <1>1 DEF SourceKnown, Comes
    <2>4. at.j > Index => WholeCell(SpentNow, tx.signPath)'
      BY <1>1, <1>3, <2>1, <2>2 DEF SourceKnown, Gone, WholeCell, LockCompared
    <2>5. SourceKnown'
      BY <1>1, <1>2, <1>3, <1>7, <2>1, <2>2, <2>3, <2>4 DEF SourceKnown, Comes, Gone, CellLevel, AfterCapacity, AfterLockCode, AfterLockHash, AfterArgs,
          AfterTypeCode, AfterTypeHash
    <2>6. at'.vec = "source"
      BY <1>1, <2>2
    <2> QED BY <2>5, <2>6 DEF InputKnown, SourceDataKnown
  <1> QED BY <1>1, <1>5, <1>6, <1>7, SourceActions

LEMMA SourceDataActions ==
    ASSUME PositionOK, ParserStep, at.vec = "source_data"
    PROVE  \/ input_context_start_idx /\ at.cb = "input_context_start_idx"
           \/ set_cell_data_size /\ at.cb = "set_cell_data_size"
           \/ check_cell_data_data_chunk /\ at.cb = "check_cell_data_data_chunk" /\ cell_state.active
           \/ /\ finish_input_cell_data_dao \/ finish_input_cell_data_plain
              /\ at.cb = "finish_input_cell_data" /\ cell_state.active
           \/ /\ InactiveCell /\ ~cell_state.active
              /\ at.cb \in {"check_cell_data_data_chunk", "finish_input_cell_data"}
           \/ context_blake2b_chunk /\ at.cb = "context_blake2b_chunk"
           \/ finish_context_txn /\ at.cb = "finish_context_txn"
  <1> DEFINE here == {"input_context_start_idx", "set_cell_data_size", "check_cell_data_data_chunk",
                      "finish_input_cell_data", "context_blake2b_chunk", "finish_context_txn"}
  <1>1. at.cb \in here
    BY DEF PositionOK, AtSourceData, DataCallbacks
  <1>2. Prologue => at.cb \notin here
    BY InputCallbacksOf DEF Prologue
  <1>3. Inputs => \/ at.cb \notin here
                  \/ input_context_start_idx \/ context_blake2b_chunk \/ finish_context_txn
    BY InputCallbacksOf DEF Inputs
  <1>4. CellScripts => at.cb \notin here
    BY CellCallbacksOf DEF CellScripts
  <1>5. Outputs => at.cb \notin here
    BY OutputCallbacksOf DEF Outputs
  <1>6. finalize_raw_transaction \/ witnesses => at.cb \notin here
    BY OutputCallbacksOf
  <1>7. InactiveCell => ~cell_state.active /\ at.cb \in ActiveOnly
    BY CellCallbacksOf
  <1> QED BY <1>1, <1>2, <1>3, <1>4, <1>5, <1>6, <1>7, InputCallbacksOf, CellCallbacksOf
          DEF ParserStep, CellsData, ActiveOnly

LEMMA SourceDataStep ==
    ASSUME IInv, Reading, ParserStep, Follow, tx' = tx, at.vec = "source_data"
    PROVE  InputKnown'
  <1> USE DEF Position
  <1>1. /\ PositionOK /\ at.i \in Nat /\ at.j \in Nat /\ InputHere /\ InSource
        /\ cell_state \in CellState /\ inp \in Inp /\ SourceDataKnown
    BY Where DEF IInv, TypeOK, FieldsOK, InSource, Reading, InputKnown
  <1>2. Index \in Nat
    <2>1. tx.inputs[at.i + 1] \in AnnotatedInput
      BY <1>1 DEF IInv, TypeOK, AnnotatedTransaction, NonEmptySeq, InputHere
    <2> QED BY <2>1 DEF Index, AnnotatedInput
  <1>3. at'.i = at.i => Index' = Index /\ SpentNow' = SpentNow
    BY DEF Index, SpentNow
  <1>4. at.j = Index => SpentNow = cell
    BY <1>1 DEF SpentNow, cell, CellsRead, InSource
  <1>5. SUFFICES ASSUME at.cb # "finish_context_txn" PROVE SourceDataKnown' /\ at'.vec = "source_data"
    <2>1. at.cb = "finish_context_txn" => at'.vec = "none" /\ at'.cb = "input_start"
      BY VectorMoves
    <2> QED BY <2>1 DEF InputKnown, SourceKnown, SourceDataKnown, InputCallbacks
  <1>6. /\ cell_state'.capacity = cell_state.capacity /\ cell_state'.is_multisig = cell_state.is_multisig
        /\ cell_state'.is_dao = cell_state.is_dao
        /\ cell_state'.lock_arg_nonequal = cell_state.lock_arg_nonequal
        /\ lock_arg_tmp' = lock_arg_tmp /\ inp'.index = inp.index
    BY <1>1, <1>5, SourceDataActions
    DEF input_context_start_idx, set_cell_data_size, check_cell_data_data_chunk, finish_input_cell_data_dao,
        finish_input_cell_data_plain, InactiveCell, context_blake2b_chunk, perCell, CellState, Inp
  <1>7. /\ at'.vec = "source_data" /\ at'.i = at.i
        /\ \/ /\ at.cb = "input_context_start_idx" /\ at'.j = at.j
              /\ at'.cb \in {"set_cell_data_size", "context_blake2b_chunk"}
           \/ at.cb = "set_cell_data_size" /\ at'.j = at.j /\ at'.cb = "check_cell_data_data_chunk"
           \/ at.cb = "check_cell_data_data_chunk" /\ at'.j = at.j /\ at'.cb = "finish_input_cell_data"
           \/ at.cb = "finish_input_cell_data" /\ at'.j = at.j + 1 /\ at'.cb = "input_context_start_idx"
           \/ at.cb = "context_blake2b_chunk" /\ at'.j = at.j /\ at'.cb = "finish_context_txn"
    BY <1>1, <1>5, SourceDataActions, VectorMoves, DataMoves DEF Goes
  <1>8. Index' = Index /\ SpentNow' = SpentNow /\ CellsRead' = CellsRead
    BY <1>1, <1>3, <1>7 DEF CellsRead
  <1>9. Index < Len(CellsRead) => WholeCell(SpentNow, tx.signPath)'
    BY <1>1, <1>6, <1>8 DEF SourceDataKnown, WholeCell, LockCompared
  <1>10. at'.cb \in DataCallbacks \cup {"finish_input_cell_data"} => (cell_state'.active <=> at'.j = Index)
    <2>1. CASE at.cb = "input_context_start_idx"
      BY <1>1, <1>7, <2>1, SourceDataActions
      DEF input_context_start_idx, CellState, SourceDataKnown
    <2>2. CASE at.cb # "input_context_start_idx"
      <3>1. at.cb # "finish_input_cell_data" => cell_state'.active = cell_state.active
        BY <1>1, <1>5, <2>2, SourceDataActions
        DEF set_cell_data_size, check_cell_data_data_chunk, InactiveCell, context_blake2b_chunk, perCell, CellState
      <3> QED BY <1>1, <1>7, <2>2, <3>1 DEF SourceDataKnown, DataCallbacks
    <2> QED BY <2>1, <2>2
  <1>11. cell_state'.dao_data_is_nonzero <=>
            /\ at'.j > Index \/ (at'.j = Index /\ at'.cb = "finish_input_cell_data")
            /\ SpentNow.data.nonzero
    <2>1. CASE check_cell_data_data_chunk /\ at.cb = "check_cell_data_data_chunk" /\ cell_state.active
      <3>1. cell.data.nonzero \in BOOLEAN
        BY <2>1, CellNow DEF DataCallbacks
      <3>2. cell_state'.dao_data_is_nonzero <=> cell_state.dao_data_is_nonzero \/ cell.data.nonzero
        BY <1>1, <2>1, <3>1 DEF check_cell_data_data_chunk, CellState
      <3> QED BY <1>1, <1>2, <1>4, <1>7, <2>1, <3>1, <3>2 DEF SourceDataKnown, DataCallbacks, Gone
    <2>2. CASE ~(check_cell_data_data_chunk /\ at.cb = "check_cell_data_data_chunk" /\ cell_state.active)
      <3>1. cell_state'.dao_data_is_nonzero = cell_state.dao_data_is_nonzero
        BY <1>1, <1>5, <2>2, SourceDataActions
        DEF input_context_start_idx, set_cell_data_size, finish_input_cell_data_dao,
            finish_input_cell_data_plain, InactiveCell, context_blake2b_chunk, perCell, CellState
      <3>2. at.cb = "check_cell_data_data_chunk" => at.j # Index
        BY <1>1, <2>2, SourceDataActions DEF SourceDataKnown, DataCallbacks
      <3> QED BY <1>1, <1>2, <1>7, <3>1, <3>2 DEF SourceDataKnown, Gone
    <2> QED BY <2>1, <2>2
  <1> QED BY <1>1, <1>6, <1>7, <1>8, <1>9, <1>10, <1>11 DEF SourceDataKnown, Gone

LEMMA HeadStep ==
    ASSUME IInv, Reading, ParserStep, Follow, tx' = tx, at.vec = "none"
    PROVE  InputKnown'
  <1> USE DEF Position
  <1>1. /\ PositionOK /\ at.i \in Nat /\ cell_state \in CellState /\ inp \in Inp
        /\ at.cb \in HeadCallbacks \cup InputCallbacks \cup {"input_start", "finish_inputs"}
    BY Where DEF IInv, TypeOK, FieldsOK
  <1>2. /\ at.cb = "input_start" => input_start
        /\ at.cb \in {"blake2b_input_count", "since"} => UNCHANGED cell_state
        /\ at.cb = "input_save_index" => input_save_index
    <2> DEFINE here == InputCallbacks \cup {"input_start"}
    <2> USE DEF InputCallbacks
    <2>1. Prologue => at.cb \notin here \/ (at.cb = "since" /\ blake2b_chunk)
      BY InputCallbacksOf DEF Prologue
    <2>2. CellScripts \/ CellsData => at.cb \notin here
      BY CellCallbacksOf DEF CellScripts, CellsData
    <2>3. InactiveCell \/ Outputs \/ finalize_raw_transaction \/ witnesses => at.cb \notin here
      BY CellCallbacksOf, OutputCallbacksOf DEF ActiveOnly, Outputs
    <2>4. at.cb \in here => Inputs \/ (at.cb = "since" /\ blake2b_chunk)
      BY <2>1, <2>2, <2>3 DEF ParserStep
    <2> QED BY <2>4, InputCallbacksOf DEF Inputs, blake2b_chunk, blake2b_input_count, perCell
  <1>3. CASE at.cb \in HeadCallbacks \cup {"finish_inputs"}
    <2>1. /\ at'.vec = "none" /\ at'.cb \in HeadCallbacks \cup {"input_start"}
          \/ at'.vec = "outputs"
      BY <1>1, <1>3, HeadMoves DEF Goes, HeadCallbacks
    <2> QED BY <2>1 DEF InputKnown, SourceKnown, SourceDataKnown, HeadCallbacks, InputCallbacks
  <1>4. CASE at.cb = "input_start"
    <2>1. at'.vec = "none" /\ cell_state' = ZeroCellState
      BY <1>1, <1>2, <1>4, HeadMoves DEF Goes, input_start
    <2> QED BY <2>1 DEF InputKnown, SourceKnown, SourceDataKnown
  <1>5. CASE at.cb \in {"blake2b_input_count", "since"}
    <2>1. at'.vec = "none" /\ cell_state' = ZeroCellState
      BY <1>1, <1>2, <1>5, HeadMoves DEF Goes, Reading, InputKnown, InputCallbacks
    <2> QED BY <2>1 DEF InputKnown, SourceKnown, SourceDataKnown
  <1>6. CASE at.cb = "input_save_index"
    <2>1. at' = Position("source", "input_context_start_idx", at.i, 0)
      BY <1>6, HeadMoves
    <2>2. Index' = Index /\ Index \in Nat
      <3>1. tx.inputs[at.i + 1].index \in Nat
        BY <1>6, IndexRead DEF IInv, TypeOK
      <3> QED BY <2>1, <3>1 DEF Index
    <2>3. cell_state' = ZeroCellState /\ inp'.index = Index
      BY <1>1, <1>2, <1>6 DEF input_save_index, perCell, Reading, InputKnown, InputCallbacks, Index, Inp
    <2>4. SourceKnown'
      BY <2>1, <2>2, <2>3
      DEF SourceKnown, ZeroCellState, Comes, Gone, CellLevel, AfterCapacity, AfterLockCode, AfterLockHash, AfterArgs,
          AfterTypeCode, AfterTypeHash
    <2> QED BY <2>1, <2>4 DEF InputKnown, SourceDataKnown
  <1> QED BY <1>1, <1>3, <1>4, <1>5, <1>6 DEF InputCallbacks

-----------------------------------------------------------------------------
(* Reading the outputs.                                                    *)

(* A callback leads to the one that follows or ends the parse (init_bip32, *)
(* the THROWs of output_end and outputs_end), and changes neither the      *)
(* transaction nor the setting.                                            *)
LEMMA StepShape ==
    ASSUME ParserStep
    PROVE  /\ UNCHANGED <<env, screen, signature>>
           /\ at' = Refused \/ (Follow /\ UNCHANGED reply)
  <1>1. CASE Prologue
    BY <1>1 DEF Prologue, set_sign_path, set_change_path, init_bip32_rejects, set_input_count,
       computeNewOffsetsToHash, blake2b_chunk, Parse, ui
  <1>2. CASE Inputs
    BY <1>2 DEF Inputs, inputs_start, input_start, blake2b_input_count, input_save_index,
       input_context_start_idx, context_blake2b_chunk, finish_context_txn, finish_inputs, Parse, ui
  <1>3. CASE CellScripts
    BY <1>3 DEF CellScripts, cell_capacity, cell_lock_code_hash, cell_script_hash_type, script_arg_start_input,
       script_arg_chunk, input_lock_arg_end, cell_type_code_hash, cell_type_arg_length, ParseActive, Parse, ui
  <1>4. CASE CellsData \/ InactiveCell
    BY <1>4 DEF CellsData, set_cell_data_size, check_cell_data_data_chunk, finish_input_cell_data_dao,
       finish_input_cell_data_plain, InactiveCell, ParseActive, Parse, ui
  <1>5. CASE Outputs
    BY <1>5 DEF Outputs, output_start, output_end, output_end_dao, output_end_change, output_end_first,
       output_end_same, output_end_other, OutputEnd, Continue, Throw, outputs_end, validate_output_data_start,
       finish_output_cell_data, Parse, ui
  <1>6. CASE finalize_raw_transaction \/ witnesses
    BY <1>6 DEF finalize_raw_transaction, finalize_single_source, finalize_multi_source, finalize_multi_output,
       finalize_dao_deposit, finalize_dao_prepare, finalize_dao_withdraw, Finalize, witnesses, Parse, ui
  <1> QED BY <1>1, <1>2, <1>3, <1>4, <1>5, <1>6 DEF ParserStep

LEMMA OutputsActions ==
    ASSUME PositionOK, ParserStep, at.vec = "outputs"
    PROVE  \/ output_start /\ at.cb = "output_start"
           \/ CellScripts /\ at.cb \in CellLevel /\ at.cb # "output_end" /\ cell_state.active
           \/ output_end /\ at.cb = "output_end"
           \/ blake2b_chunk /\ at.cb = "outputs"
           \/ outputs_end /\ at.cb = "outputs_end"
           \/ InactiveCell /\ ~cell_state.active /\ at.cb # "output_start"
  <1> DEFINE here == (CellLevel \ {"script_arg_start_input", "input_lock_arg_end"})
                     \cup {"output_start", "outputs", "outputs_end"}
  <1> USE DEF CellLevel, AfterCapacity, AfterLockCode, AfterLockHash, AfterArgs, AfterTypeCode, AfterTypeHash
  <1>1. at.cb \in here
    BY DEF PositionOK, AtOutputs, CellCallbacks, TypeCallbacks
  <1>2. Prologue => at.cb \notin here \/ (blake2b_chunk /\ at.cb = "outputs")
    BY InputCallbacksOf DEF Prologue
  <1>3. Inputs => at.cb \notin here
    BY InputCallbacksOf DEF Inputs
  <1>4. CellScripts => at.cb \in CellLevel /\ at.cb # "output_end" /\ cell_state.active
    BY CellCallbacksOf DEF CellScripts
  <1>5. CellsData => at.cb \notin here
    BY CellCallbacksOf DEF CellsData
  <1>6. InactiveCell => ~cell_state.active /\ at.cb # "output_start"
    BY CellCallbacksOf DEF ActiveOnly
  <1>7. finalize_raw_transaction \/ witnesses => at.cb \notin here
    BY OutputCallbacksOf
  <1> HIDE DEF here
  <1>8. Outputs => output_start \/ output_end \/ outputs_end \/ at.cb \notin here
    BY OutputCallbacksOf DEF Outputs, here
  <1> QED BY <1>1, <1>2, <1>3, <1>4, <1>5, <1>6, <1>7, <1>8, OutputCallbacksOf DEF ParserStep

(* The DAO cells among one output more.                                    *)
LEMMA DaoNext ==
    ASSUME NEW m \in 0 .. MAX_CELLS
    PROVE  DaoAmong(m + 1) = IF IsDao(tx.outputs[m + 1]) THEN DaoAmong(m) \cup {m} ELSE DaoAmong(m)
  <1>1. \A n \in 0 .. MAX_CELLS : n < m + 1 <=> n < m \/ n = m
    OBVIOUS
  <1> QED BY <1>1, Zenon DEF DaoAmong

(* The end of an output: dao_bitmask takes in the output if it is a DAO    *)
(* cell, whichever entry of the output table its capacity goes to.         *)
LEMMA MaskStep ==
    ASSUME IInv, output_end
    PROVE  /\ UNCHANGED <<cell_state, lock_arg_cmp, lock_arg_tmp, key>>
           /\ utx'.dao_bitmask = IF cell_state.is_dao THEN utx.dao_bitmask \cup {utx.current_output_index}
                                 ELSE utx.dao_bitmask
  <1>1. utx \in UTx
    BY DEF IInv, TypeOK, FieldsOK
  <1>2. CASE output_end_dao
    BY <1>1, <1>2 DEF output_end_dao, OutputEnd, UTx
  <1>3. CASE ~output_end_dao
    <2>1. ~cell_state.is_dao /\ UNCHANGED <<cell_state, lock_arg_cmp, lock_arg_tmp, key>>
      BY <1>3 DEF output_end, output_end_change, output_end_first, output_end_same, output_end_other, OutputEnd,
         PlainOutput
    <2>2. utx'.dao_bitmask = utx.dao_bitmask
      BY <1>1, <1>3
      DEF output_end, output_end_change, output_end_first, output_end_same, output_end_other, CountPlain, UTx
    <2> QED BY <2>1, <2>2
  <1> QED BY <1>2, <1>3

LEMMA OutputsRead ==
    ASSUME IInv, Reading, ParserStep, Follow, tx' = tx, at.vec = "outputs"
    PROVE  OutputsKnown' /\ OutputsDataKnown'
  <1> USE DEF Position, Goes
  <1>1. /\ PositionOK /\ at.i \in Nat /\ at.j \in Nat /\ ~InSource
        /\ cell_state \in CellState /\ utx \in UTx /\ OutputsKnown /\ CellsRead = tx.outputs
    BY Where DEF IInv, TypeOK, FieldsOK, InSource, CellsRead, Reading
  <1>2. at.cb # "output_start" => cell_state.active
    BY <1>1 DEF OutputsKnown
  <1>3. Len(tx.outputs) \in Nat /\ Len(tx.outputs) <= MAX_CELLS /\ MAX_CELLS \in Nat
    BY Lengths, SizeAssumption DEF IInv, TypeOK
  <1>4. DaoAmong(at.j)' = DaoAmong(at'.j) /\ DaoAmong(Len(tx.outputs))' = DaoAmong(Len(tx.outputs))
    BY DEF DaoAmong
  <1>5. CASE output_start /\ at.cb = "output_start"
    <2>1. Goes(IF MoreItems THEN "cell_capacity" ELSE "outputs")
      BY <1>5, VectorMoves
    <2>2. /\ utx'.dao_bitmask = utx.dao_bitmask /\ utx'.current_output_index = at.j
          /\ cell_state' = [ZeroCellState EXCEPT !.active = TRUE] /\ lock_arg_cmp' = tx.changePath
      BY <1>1, <1>5 DEF output_start, UTx, Reading, KeysKnown, Refused
    <2>3. CellSoFar(cell, tx.changePath)' \/ at'.cb # "cell_capacity"
      BY <2>2
      DEF CellSoFar, AfterCapacity, AfterLockCode, AfterLockHash, AfterArgs, AfterTypeCode, AfterTypeHash, ZeroCellState
    <2> QED BY <1>1, <1>4, <2>1, <2>2, <2>3
        DEF OutputsKnown, OutputsDataKnown, Compares, ZeroCellState, CellLevel, AfterCapacity, AfterLockCode,
            AfterLockHash, AfterArgs, AfterTypeCode, AfterTypeHash
  <1>6. CASE CellScripts /\ at.cb \in CellLevel /\ at.cb # "output_end" /\ cell_state.active
    <2> PICK c : c = cell
      OBVIOUS
    <2> PICK owner : owner = tx.changePath
      OBVIOUS
    <2>1. CellSoFar(c, owner) /\ (at.cb \in CellCallbacks => Compares(owner))
      BY <1>1, <1>6 DEF OutputsKnown
    <2>2. /\ cell_state'.active = cell_state.active
          /\ cell_state'.dao_data_is_nonzero = cell_state.dao_data_is_nonzero
          /\ at'.vec = at.vec /\ at'.i = at.i /\ at'.j = at.j /\ at'.cb \in CellLevel
          /\ CellSoFar(c, owner)'
          /\ at'.cb \in CellCallbacks => Compares(owner)'
      BY <1>1, <1>6, <2>1, CellStep
    <2>3. cell' = c
      BY <1>1, <2>2 DEF cell, CellsRead
    <2>4. utx' = utx
      BY <1>6 DEF CellScripts, cell_capacity, cell_lock_code_hash, cell_script_hash_type, script_arg_start_input,
          script_arg_chunk, input_lock_arg_end, cell_type_code_hash, cell_type_arg_length
    <2>5. CellSoFar(cell, tx.changePath)' /\ (at'.cb \in CellCallbacks => Compares(tx.changePath)')
      BY <2>2, <2>3
    <2>6. "output_start" \notin CellLevel
      BY DEF CellLevel, AfterCapacity, AfterLockCode, AfterLockHash, AfterArgs, AfterTypeCode, AfterTypeHash
    <2> QED BY <1>1, <1>4, <1>6, <2>2, <2>4, <2>5, <2>6 DEF OutputsKnown, OutputsDataKnown
  <1>7. CASE output_end /\ at.cb = "output_end"
    <2>1. at' = Position(at.vec, "output_start", at.i, at.j + 1) /\ MoreItems
      BY <1>1, <1>7, CellMoves, Where
    <2>2. (cell_state.is_dao <=> IsDao(tx.outputs[at.j + 1])) /\ utx.current_output_index = at.j
      BY <1>1, <1>7 DEF OutputsKnown, CellSoFar, cell, CellLevel, AfterCapacity, AfterLockCode,
            AfterLockHash, AfterArgs, AfterTypeCode, AfterTypeHash
    <2>3. utx'.dao_bitmask = DaoAmong(at.j + 1)
      <3>1. at.j \in 0 .. MAX_CELLS
        BY <1>1, <1>3, <2>1 DEF MoreItems
      <3> QED BY <1>1, <1>7, <2>2, <3>1, MaskStep, DaoNext DEF OutputsKnown
    <2> QED BY <1>1, <1>4, <2>1, <2>3
        DEF OutputsKnown, OutputsDataKnown, CellCallbacks, CellLevel, AfterCapacity, AfterLockCode,
            AfterLockHash, AfterArgs, AfterTypeCode, AfterTypeHash
  <1>8. CASE blake2b_chunk /\ at.cb = "outputs"
    <2>1. Goes("outputs_end") /\ UNCHANGED <<utx, cell_state>>
      BY <1>8, VectorMoves DEF blake2b_chunk, perCell
    <2> QED BY <1>1, <1>4, <1>8, <2>1
        DEF OutputsKnown, OutputsDataKnown, CellCallbacks, CellLevel, AfterCapacity, AfterLockCode,
            AfterLockHash, AfterArgs, AfterTypeCode, AfterTypeHash
  <1>9. CASE outputs_end /\ at.cb = "outputs_end"
    <2>1. at' = Position("outputs_data", "validate_output_data_start", at.i, 0)
      BY <1>9, VectorMoves
    <2>2. utx'.dao_bitmask = utx.dao_bitmask /\ cell_state' = cell_state
      BY <1>1, <1>9 DEF outputs_end, UTx, perCell
    <2>3. at.j = Len(tx.outputs)
      BY <1>9 DEF Reading, EndsReached
    <2>4. ~NonzeroAmong(0)'
      BY DEF NonzeroAmong
    <2> QED BY <1>1, <1>4, <1>9, <2>1, <2>2, <2>3, <2>4 DEF OutputsKnown, OutputsDataKnown, DataCallbacks
  <1> QED BY <1>1, <1>2, <1>5, <1>6, <1>7, <1>8, <1>9, OutputsActions

LEMMA OutputsDataActions ==
    ASSUME PositionOK, ParserStep, at.vec = "outputs_data"
    PROVE  \/ validate_output_data_start /\ at.cb = "validate_output_data_start"
           \/ set_cell_data_size /\ at.cb = "set_cell_data_size"
           \/ check_cell_data_data_chunk /\ at.cb = "check_cell_data_data_chunk"
           \/ finish_output_cell_data /\ at.cb = "finish_output_cell_data"
           \/ blake2b_chunk /\ at.cb = "outputs_data"
           \/ finalize_raw_transaction /\ at.cb = "finalize_raw_transaction"
           \/ witnesses /\ at.cb = "witnesses"
           \/ InactiveCell /\ ~cell_state.active
  <1> DEFINE here == {"validate_output_data_start", "set_cell_data_size", "check_cell_data_data_chunk",
                      "finish_output_cell_data", "outputs_data", "finalize_raw_transaction", "witnesses",
                      "last_chunk"}
  <1>1. at.cb \in here
    BY DEF PositionOK, AtOutputsData, DataCallbacks
  <1>2. Prologue => at.cb \notin here \/ (blake2b_chunk /\ at.cb = "outputs_data")
    BY InputCallbacksOf DEF Prologue
  <1>3. Inputs => at.cb \notin here
    BY InputCallbacksOf DEF Inputs
  <1>4. CellScripts => at.cb \notin here
    BY CellCallbacksOf DEF CellScripts
  <1>5. Outputs => \/ at.cb \notin here
                   \/ validate_output_data_start \/ finish_output_cell_data
    BY OutputCallbacksOf DEF Outputs
  <1>6. InactiveCell => ~cell_state.active
    BY CellCallbacksOf
  <1>7. CellsData => set_cell_data_size \/ check_cell_data_data_chunk \/ at.cb \notin here
    BY CellCallbacksOf DEF CellsData
  <1> QED BY <1>1, <1>2, <1>3, <1>4, <1>5, <1>6, <1>7, OutputCallbacksOf, CellCallbacksOf DEF ParserStep

LEMMA OutputsDataRead ==
    ASSUME IInv, Reading, ParserStep, Follow, tx' = tx, at.vec = "outputs_data"
    PROVE  OutputsDataKnown' /\ at'.vec = "outputs_data"
  <1> USE DEF Position, Goes
  <1>1. /\ PositionOK /\ at.i \in Nat /\ at.j \in Nat /\ ~InSource
        /\ cell_state \in CellState /\ utx \in UTx /\ OutputsDataKnown /\ CellsRead = tx.outputs
    BY Where DEF IInv, TypeOK, FieldsOK, InSource, CellsRead, Reading
  <1>2. Len(tx.outputs) \in Nat /\ Len(tx.outputs) <= MAX_CELLS /\ MAX_CELLS \in Nat
    BY Lengths, SizeAssumption DEF IInv, TypeOK
  <1>3. DaoAmong(Len(tx.outputs))' = DaoAmong(Len(tx.outputs)) /\ \A m : NonzeroAmong(m)' = NonzeroAmong(m)
    BY DEF DaoAmong, NonzeroAmong
  <1>4. cell_state.active /\ utx.dao_bitmask = DaoAmong(Len(tx.outputs))
    BY <1>1 DEF OutputsDataKnown
  <1>5. CASE validate_output_data_start /\ at.cb = "validate_output_data_start"
    <2>1. Goes(IF MoreItems THEN "set_cell_data_size" ELSE "outputs_data") /\ utx' = utx
      BY <1>5, VectorMoves DEF validate_output_data_start
    <2>2. cell_state' = [cell_state EXCEPT !.is_dao = at.j \in DaoAmong(Len(tx.outputs))]
      BY <1>1, <1>5 DEF validate_output_data_start, OutputsDataKnown
    <2>3. MoreItems => (at.j \in DaoAmong(Len(tx.outputs)) <=> IsDao(tx.outputs[at.j + 1]))
      BY <1>1, <1>2 DEF MoreItems, DaoAmong
    <2>4. cell' = tx.outputs[at.j + 1]
      BY <1>1, <2>1 DEF cell, CellsRead
    <2> QED BY <1>1, <1>3, <1>5, <2>1, <2>2, <2>3, <2>4 DEF OutputsDataKnown, DataCallbacks, CellState
  <1>6. CASE set_cell_data_size /\ at.cb = "set_cell_data_size"
    <2>1. /\ Goes("check_cell_data_data_chunk") /\ utx' = utx
          /\ cell_state'.is_dao = cell_state.is_dao /\ cell_state'.active = cell_state.active
          /\ cell_state'.dao_data_is_nonzero = cell_state.dao_data_is_nonzero
      BY <1>1, <1>6, DataMoves DEF set_cell_data_size, CellState
    <2>2. cell' = cell
      BY <2>1 DEF cell, CellsRead
    <2> QED BY <1>1, <1>3, <1>6, <2>1, <2>2 DEF OutputsDataKnown, DataCallbacks
  <1>7. CASE check_cell_data_data_chunk /\ at.cb = "check_cell_data_data_chunk"
    <2>1. cell.data.nonzero \in BOOLEAN /\ cell = tx.outputs[at.j + 1]
      BY <1>1, <1>7, CellNow DEF DataCallbacks, cell
    <2>2. /\ Goes("finish_output_cell_data") /\ utx' = utx
          /\ cell_state'.is_dao = cell_state.is_dao /\ cell_state'.active = cell_state.active
          /\ cell_state'.dao_data_is_nonzero <=> cell_state.dao_data_is_nonzero \/ cell.data.nonzero
      BY <1>1, <1>7, <2>1, DataMoves DEF check_cell_data_data_chunk, CellState
    <2>3. cell' = cell
      BY <2>2 DEF cell, CellsRead
    <2>4. NonzeroAmong(at.j + 1) <=> NonzeroAmong(at.j) \/ cell.data.nonzero
      <3>1. \A n \in 1 .. at.j + 1 : n \in 1 .. at.j \/ n = at.j + 1
        BY <1>1
      <3>2. at.j + 1 \in 1 .. at.j + 1 /\ \A n \in 1 .. at.j : n \in 1 .. at.j + 1
        BY <1>1
      <3> QED BY <2>1, <3>1, <3>2 DEF NonzeroAmong
    <2> QED BY <1>1, <1>3, <1>7, <2>2, <2>3, <2>4 DEF OutputsDataKnown, DataCallbacks
  <1>8. CASE finish_output_cell_data /\ at.cb = "finish_output_cell_data"
    <2>1. at' = Position(at.vec, "validate_output_data_start", at.i, at.j + 1) /\ UNCHANGED <<utx, cell_state>>
      BY <1>8, DataMoves DEF finish_output_cell_data, perCell
    <2> QED BY <1>1, <1>3, <1>8, <2>1 DEF OutputsDataKnown, DataCallbacks
  <1>9. CASE blake2b_chunk \/ finalize_raw_transaction \/ witnesses
    <2>1. UNCHANGED <<utx, cell_state>>
      BY <1>9 DEF blake2b_chunk, finalize_raw_transaction, finalize_single_source, finalize_multi_source,
         finalize_multi_output, finalize_dao_deposit, finalize_dao_prepare, finalize_dao_withdraw, Finalize,
         witnesses, perCell
    <2>2. at.cb \in {"outputs_data", "finalize_raw_transaction", "witnesses"}
      BY <1>1, <1>9, InputCallbacksOf, OutputCallbacksOf, Where
      DEF HeadCallbacks, InputCallbacks
    <2>3. at'.vec = at.vec /\ at'.i = at.i /\ at'.j = at.j
          /\ at'.cb \in {"finalize_raw_transaction", "witnesses", "last_chunk"}
      BY <2>2, DataMoves
    <2> QED BY <1>1, <1>3, <2>1, <2>2, <2>3 DEF OutputsDataKnown, DataCallbacks
  <1> QED BY <1>1, <1>4, <1>5, <1>6, <1>7, <1>8, <1>9, OutputsDataActions

-----------------------------------------------------------------------------
(* The other parts of Reading.                                             *)

(* Only the callbacks of the two paths change the lock args to compare     *)
(* with, and only cell_state's callbacks change data_size.                 *)
LEMMA KeysStay ==
    ASSUME ParserStep
    PROVE  set_sign_path \/ set_change_path \/ key' = key
  BY DEF ParserStep, Prologue, init_bip32_rejects, set_input_count, computeNewOffsetsToHash, blake2b_chunk,
     Inputs, inputs_start, input_start, blake2b_input_count, input_save_index,
     input_context_start_idx, context_blake2b_chunk, finish_context_txn, finish_inputs,
     CellScripts, cell_capacity, cell_lock_code_hash, cell_script_hash_type, script_arg_start_input,
     script_arg_chunk, input_lock_arg_end, cell_type_code_hash, cell_type_arg_length,
     CellsData, set_cell_data_size, check_cell_data_data_chunk, finish_input_cell_data_dao,
     finish_input_cell_data_plain, InactiveCell,
     Outputs, output_start, output_end, output_end_dao, output_end_change, output_end_first,
     output_end_same, output_end_other, OutputEnd, outputs_end, validate_output_data_start,
     finish_output_cell_data, finalize_raw_transaction, finalize_single_source, finalize_multi_source,
     finalize_multi_output, finalize_dao_deposit, finalize_dao_prepare, finalize_dao_withdraw, Finalize,
     witnesses

LEMMA KeysStep ==
    ASSUME IInv, Reading, ParserStep, Follow, tx' = tx
    PROVE  KeysKnown'
  <1> USE DEF Goes, Position, Refused
  <1>1. at # Refused /\ at.cb # "idle"
    BY HeadMoves, DataMoves
  <1>2. key \in [current: StandardLockArg, change: StandardLockArg]
    BY DEF IInv, TypeOK, FieldsOK
  <1>3. CASE set_sign_path
    BY <1>3, HeadMoves, InputCallbacksOf DEF set_sign_path, KeysKnown
  <1>4. CASE set_change_path
    <2>1. key'.current = key.current /\ key'.change = tx.changePath
      BY <1>2, <1>4 DEF set_change_path
    <2> QED BY <1>1, <1>4, <2>1, InputCallbacksOf DEF Reading, KeysKnown
  <1>5. CASE key' = key /\ ~set_sign_path /\ ~set_change_path
    <2>1. at.cb \notin {"set_sign_path", "set_change_path"}
      <3>1. at.cb \in {"set_sign_path", "set_change_path"} => ~(Inputs \/ CellScripts \/ CellsData \/ Outputs)
        BY InputCallbacksOf, CellCallbacksOf, OutputCallbacksOf DEF Inputs, CellScripts, CellsData, Outputs
      <3>2. at.cb \in {"set_sign_path", "set_change_path"} => ~(InactiveCell \/ finalize_raw_transaction \/ witnesses)
        BY CellCallbacksOf, OutputCallbacksOf DEF ActiveOnly
      <3>3. at.cb \in {"set_sign_path", "set_change_path"} =>
               ~(set_input_count \/ computeNewOffsetsToHash \/ blake2b_chunk)
        BY InputCallbacksOf
      <3>4. init_bip32_rejects => at.cb = "set_sign_path" /\ at' = Refused
        BY InputCallbacksOf DEF init_bip32_rejects
      <3>5. at.cb = "set_sign_path" => at' # Refused
        BY HeadMoves
      <3> QED BY <1>5, <3>1, <3>2, <3>3, <3>4, <3>5 DEF ParserStep, Prologue
    <2> QED BY <1>1, <1>5, <2>1 DEF Reading, KeysKnown
  <1> QED BY <1>3, <1>4, <1>5, KeysStay

LEMMA EndsStep ==
    ASSUME IInv, Reading, ParserStep, Follow, tx' = tx
    PROVE  EndsReached'
  <1> USE DEF Goes, Position
  <1>1. PositionOK /\ EndsReached /\ at.i \in Nat /\ at.j \in Nat
    BY Where DEF IInv, TypeOK, Reading
  <1>2. PositionOK'
    BY NextOK DEF IInv, TypeOK, Next
  <1>3. CellsRead' = CellsRead \/ at'.vec # at.vec \/ at'.i # at.i
    BY DEF CellsRead
  <1>4. Len(tx.inputs) \in Nat /\ Len(tx.outputs) \in Nat /\ (InSource => Len(CellsRead) \in Nat)
    BY <1>1, Lengths, Where DEF IInv, TypeOK, CellsRead, InSource, InputHere
  <1>5. /\ at'.cb = "outputs" => at.cb = "output_start" /\ at'.j = at.j /\ ~MoreItems
        /\ at'.cb = "outputs_data" => at.cb = "validate_output_data_start" /\ at'.j = at.j /\ ~MoreItems
        /\ at'.cb = "outputs_end" => at.cb = "outputs" /\ at'.j = at.j
        /\ at'.cb = "finalize_raw_transaction" => at.cb = "outputs_data" /\ at'.j = at.j
        /\ at'.cb = "witnesses" => at.cb = "finalize_raw_transaction" /\ at'.j = at.j
        /\ at'.cb = "last_chunk" => at.cb = "witnesses" /\ at'.j = at.j
        /\ at'.cb = "context_blake2b_chunk" =>
              at.cb = "input_context_start_idx" /\ at.vec = "source_data" /\ at'.vec = at.vec
              /\ at'.i = at.i /\ at'.j = at.j /\ ~MoreItems
        /\ at'.cb = "finish_context_txn" =>
              at.cb = "context_blake2b_chunk" /\ at'.vec = at.vec /\ at'.i = at.i /\ at'.j = at.j
        /\ at'.cb = "finish_inputs" => at.cb = "input_start" /\ at.i = Len(tx.inputs) /\ at'.i = at.i
    BY <1>1 DEF Follow, Straight, Then, To, FollowInputs, FollowVectors, FollowCell, Enter, NextItem, LockEnd, CellEnd
  <1>6. at'.cb = "outputs" => at.j = Len(tx.outputs)
    BY <1>1, <1>4, <1>5, Where DEF MoreItems, CellsRead
  <1>7. at'.cb = "outputs_data" => at.j = Len(tx.outputs)
    BY <1>1, <1>4, <1>5, Where DEF MoreItems, CellsRead
  <1>8. at'.cb = "context_blake2b_chunk" => at.j = Len(CellsRead)
    BY <1>1, <1>4, <1>5, Where DEF MoreItems, InSource
  <1> QED BY <1>1, <1>3, <1>5, <1>6, <1>7, <1>8 DEF EndsReached

LEMMA SizeStep ==
    ASSUME IInv, Reading, ParserStep, Follow, tx' = tx
    PROVE  SizeKnown'
  <1> USE DEF Goes, Position
  <1>1. PositionOK /\ cell_state \in CellState /\ SizeKnown
    BY DEF IInv, TypeOK, FieldsOK, Reading
  <1>2. CASE at.cb = "set_cell_data_size"
    <2>1. at'.cb = "check_cell_data_data_chunk" /\ cell' = cell
      BY <1>2, DataMoves DEF cell, CellsRead
    <2>2. set_cell_data_size
      <3>1. ~(Prologue \/ Inputs \/ CellScripts \/ Outputs \/ finalize_raw_transaction \/ witnesses \/ InactiveCell)
        BY <1>2, InputCallbacksOf, CellCallbacksOf, OutputCallbacksOf
        DEF Prologue, Inputs, CellScripts, Outputs, ActiveOnly
      <3> QED BY <1>2, <3>1, CellCallbacksOf DEF ParserStep, CellsData
    <2> QED BY <1>1, <2>1, <2>2 DEF set_cell_data_size, SizeKnown, CellState
  <1>3. CASE at.cb = "check_cell_data_data_chunk"
    <2>1. at'.cb # "check_cell_data_data_chunk" /\ cell' = cell
      BY <1>3, DataMoves DEF cell, CellsRead
    <2>2. check_cell_data_data_chunk \/ InactiveCell
      <3>1. ~(Prologue \/ Inputs \/ CellScripts \/ Outputs \/ finalize_raw_transaction \/ witnesses)
        BY <1>3, InputCallbacksOf, CellCallbacksOf, OutputCallbacksOf
        DEF Prologue, Inputs, CellScripts, Outputs
      <3> QED BY <1>3, <3>1, CellCallbacksOf DEF ParserStep, CellsData
    <2>3. cell_state'.data_size = cell_state.data_size
      BY <1>1, <2>2 DEF check_cell_data_data_chunk, InactiveCell, perCell, CellState
    <2> QED BY <1>1, <1>3, <2>1, <2>3 DEF SizeKnown
  <1>4. CASE at.cb \notin {"set_cell_data_size", "check_cell_data_data_chunk"}
    <2>1. at'.cb \notin {"check_cell_data_data_chunk", "finish_input_cell_data", "finish_output_cell_data"}
      BY <1>4 DEF Follow, Straight, Then, To, FollowInputs, FollowVectors, FollowCell, Enter, NextItem, LockEnd, CellEnd
    <2> QED BY <2>1 DEF SizeKnown
  <1> QED BY <1>2, <1>3, <1>4

-----------------------------------------------------------------------------
(* Reading is an invariant.                                                *)

(* Where the parser goes from the vector it is in.                         *)
LEMMA VectorsInOrder ==
    ASSUME PositionOK, Follow
    PROVE  /\ at.vec = "none" => \/ at'.vec \in {"none", "source"}
                                 \/ at.cb = "finish_inputs" /\ at' = Position("outputs", "output_start", at.i, 0)
           /\ at.vec = "source" => at'.vec \in {"source", "source_data"}
           /\ at.vec = "source_data" => at'.vec \in {"source_data", "none"}
           /\ at.vec = "outputs" => at'.vec \in {"outputs", "outputs_data"}
           /\ at.vec = "outputs_data" => at'.vec = "outputs_data"
           /\ at.vec # "end"
  <1> USE DEF Position
  <1>1. /\ at.cb = "input_save_index" => at.vec = "none"
        /\ at.cb = "finish_inputs" => at.vec = "none"
        /\ at.cb = "finish_context_txn" => at.vec = "source_data"
        /\ at.cb = "outputs_end" => at.vec = "outputs"
        /\ at.vec \in Vectors
    BY Where DEF InputCallbacks
  <1>2. at.vec # "end"
    BY DataMoves, Where
  <1>3. \/ at'.vec = at.vec
        \/ at.cb \in {"input_save_index", "finish_inputs", "finish_context_txn", "outputs_end"}
        \/ at.vec = "source" /\ at'.vec = "source_data"
    <2>1. CASE Straight
      BY <2>1 DEF Straight, Then, To
    <2>2. CASE FollowInputs
      BY <2>2 DEF FollowInputs, To, Enter
    <2>3. CASE FollowVectors
      BY <2>3 DEF FollowVectors, To, Enter
    <2>4. CASE FollowCell
      BY <2>4 DEF FollowCell, To, NextItem, LockEnd, CellEnd
    <2> QED BY <2>1, <2>2, <2>3, <2>4 DEF Follow
  <1>4. /\ at.cb = "input_save_index" => at'.vec = "source"
        /\ at.cb = "finish_inputs" => at' = Position("outputs", "output_start", at.i, 0)
        /\ at.cb = "finish_context_txn" => at'.vec = "none"
        /\ at.cb = "outputs_end" => at'.vec = "outputs_data"
    BY HeadMoves, VectorMoves
  <1> QED BY <1>1, <1>2, <1>3, <1>4

LEMMA InputsDone ==
    ASSUME IInv, ParserStep, Follow, tx' = tx, at.cb = "finish_inputs"
    PROVE  OutputsKnown'
  <1>1. finish_inputs
    <2>1. ~(Prologue \/ CellScripts \/ CellsData \/ Outputs \/ finalize_raw_transaction \/ witnesses \/ InactiveCell)
      BY InputCallbacksOf, CellCallbacksOf, OutputCallbacksOf
      DEF Prologue, CellScripts, CellsData, Outputs, ActiveOnly
    <2> QED BY <2>1, InputCallbacksOf DEF ParserStep, Inputs
  <1>2. at' = Position("outputs", "output_start", at.i, 0) /\ utx' = ZeroUTx
    BY <1>1, HeadMoves DEF finish_inputs
  <1>3. DaoAmong(0)' = {}
    BY DEF DaoAmong
  <1> QED BY <1>2, <1>3
      DEF OutputsKnown, ZeroUTx, Position, CellCallbacks, CellLevel, AfterCapacity, AfterLockCode, AfterLockHash,
          AfterArgs, AfterTypeCode, AfterTypeHash

LEMMA ReadingStep ==
    ASSUME IInv, Reading, ParserStep
    PROVE  Reading'
  <1>1. tx' = tx
    BY StepShape DEF env
  <1>2. CASE at' = Refused
    BY <1>2 DEF Refused, Position, Reading, EndsReached, KeysKnown, InputKnown, SourceKnown, SourceDataKnown,
       OutputsKnown, OutputsDataKnown, SizeKnown
  <1>3. CASE Follow
    <2>1. PositionOK
      BY DEF IInv, TypeOK
    <2>2. InputKnown'
      <3>1. at.vec \in {"outputs", "outputs_data"} => at'.vec \in {"outputs", "outputs_data"}
        BY <1>3, <2>1, VectorsInOrder
      <3>2. at'.vec \in {"outputs", "outputs_data"} => InputKnown'
        BY DEF InputKnown, SourceKnown, SourceDataKnown
      <3> QED BY <1>1, <1>3, <2>1, <3>1, <3>2, HeadStep, SourceStep, SourceDataStep, VectorsInOrder, Where DEF Vectors
    <2>3. OutputsKnown'
      <3>1. at'.vec = "outputs" => at.vec = "outputs" \/ at.cb = "finish_inputs"
        BY <1>3, <2>1, VectorsInOrder, Where DEF Vectors
      <3>2. at'.vec # "outputs" => OutputsKnown'
        BY DEF OutputsKnown
      <3> QED BY <1>1, <1>3, <3>1, <3>2, OutputsRead, InputsDone
    <2>4. OutputsDataKnown'
      <3>1. at'.vec = "outputs_data" => at.vec \in {"outputs", "outputs_data"}
        <4>1. at.vec = "none" => at'.vec # "outputs_data"
          BY <1>3, <2>1, VectorsInOrder DEF Position
        <4> QED BY <1>3, <2>1, <4>1, VectorsInOrder, Where DEF Vectors
      <3>2. at'.vec # "outputs_data" => OutputsDataKnown'
        BY DEF OutputsDataKnown
      <3> QED BY <1>1, <1>3, <3>1, <3>2, OutputsRead, OutputsDataRead
    <2> QED BY <1>1, <1>3, <2>2, <2>3, <2>4, KeysStep, EndsStep, SizeStep DEF Reading
  <1> QED BY <1>2, <1>3, StepShape

LEMMA ReadingInit == Init => Reading
  BY DEF Init, Idle, Position, Reading, EndsReached, KeysKnown, InputKnown, SourceKnown, SourceDataKnown,
     OutputsKnown, OutputsDataKnown, SizeKnown, InputCallbacks

LEMMA ReadingNext == IInv /\ Reading /\ [Next]_vars => Reading'
  <1> SUFFICES ASSUME IInv, Reading, [Next]_vars PROVE Reading'
    OBVIOUS
  <1>1. ASSUME first_chunk \/ sign_ok \/ sign_reject PROVE Reading'
    <2>1. at'.vec = "none" /\ at'.cb \in {"idle", "set_sign_path"}
      BY <1>1 DEF first_chunk, sign_ok, sign_reject, Idle, Position
    <2> QED BY <2>1 DEF Reading, EndsReached, KeysKnown, InputKnown, SourceKnown, SourceDataKnown,
         OutputsKnown, OutputsDataKnown, SizeKnown, InputCallbacks
  <1>2. ASSUME chunk_refused \/ Complete PROVE Reading'
    <2>1. CASE at' = Refused
      BY <2>1 DEF Refused, Position, Reading, EndsReached, KeysKnown, InputKnown, SourceKnown, SourceDataKnown,
         OutputsKnown, OutputsDataKnown, SizeKnown
    <2>2. CASE sign_complete
      <3>1. at' = Review /\ key' = key /\ tx' = tx /\ at # Refused /\ at.cb = "last_chunk"
        BY <2>2 DEF sign_complete, parseState, env, Refused, Position
      <3> QED BY <3>1 DEF Review, Position, Reading, EndsReached, KeysKnown, InputKnown, SourceKnown,
              SourceDataKnown, OutputsKnown, OutputsDataKnown, SizeKnown
    <2> QED BY <1>2, <2>1, <2>2
        DEF chunk_refused, Complete, complete_unmarked, complete_hard_reject, complete_unsafe, Throw
  <1>3. ASSUME switch_contract_data \/ UNCHANGED vars PROVE Reading'
    <2>1. UNCHANGED <<tx, at, cell_state, lock_arg_cmp, lock_arg_tmp, key, inp, utx>>
      BY <1>3 DEF switch_contract_data, parseState, perCell, vars, env
    <2>2. /\ CellsRead' = CellsRead /\ cell' = cell /\ Index' = Index /\ SpentNow' = SpentNow
          /\ Comes' = Comes /\ Gone' = Gone
      BY <2>1 DEF CellsRead, cell, Index, SpentNow, Comes, Gone
    <2>3. \A c, owner : /\ CellSoFar(c, owner)' <=> CellSoFar(c, owner)
                        /\ WholeCell(c, owner)' <=> WholeCell(c, owner)
                        /\ Compares(owner)' <=> Compares(owner)
      BY <2>1 DEF CellSoFar, WholeCell, LockCompared, Compares
    <2>4. \A m : DaoAmong(m)' = DaoAmong(m) /\ (NonzeroAmong(m)' <=> NonzeroAmong(m))
      BY <2>1 DEF DaoAmong, NonzeroAmong
    <2>5. EndsReached' /\ KeysKnown' /\ SizeKnown'
      BY <2>1, <2>2 DEF Reading, EndsReached, KeysKnown, SizeKnown
    <2>6. InputKnown'
      BY <2>1, <2>2, <2>3 DEF Reading, InputKnown, SourceKnown, SourceDataKnown
    <2>7. OutputsKnown' /\ OutputsDataKnown'
      BY <2>1, <2>2, <2>3, <2>4 DEF Reading, OutputsKnown, OutputsDataKnown
    <2> QED BY <2>5, <2>6, <2>7 DEF Reading
  <1> QED BY <1>1, <1>2, <1>3, ReadingStep DEF Next

(* Whatever chunks, settings and sessions come in between, the device      *)
(* knows of the cell it is at what the transaction says of it, and nothing *)
(* of another one.                                                         *)
THEOREM ReadsTheCells == Spec => []Reading
  BY InitOK, NextOK, ReadingInit, ReadingNext, PTL DEF Spec
=============================================================================
