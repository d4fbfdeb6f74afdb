--------------------------- MODULE SignTransaction ---------------------------
(***************************************************************************)
(* Transaction signing, apdu_sign.c: the callbacks the streaming Molecule  *)
(* parser makes while an AnnotatedTransaction arrives in APDUs of at most  *)
(* 230 bytes, the decision at the last chunk, the review that sign_complete*)
(* puts on the screen, and the answer to it.                               *)
(*                                                                         *)
(* One step is one callback.  A chunk may end between any two of them, so  *)
(* between any two of them the user may be in the settings menu and the    *)
(* host may start over.  The variables are the fields of apdu_sign_state_t *)
(* (the macro G), grouped as the C structs group them.                     *)
(***************************************************************************)
EXTENDS TransactionViews

CONSTANTS
    Transactions,       \* what a host may send
    MaxSettingChanges,  \* bound on switches of the contract-data setting
    MaxSessions         \* bound on P1_FIRST packets

ASSUME TransactionsAssumption == Transactions # {} /\ Transactions \subseteq AnnotatedTransaction
ASSUME BoundsAssumption == MaxSettingChanges \in Nat /\ MaxSessions \in Nat

VARIABLES
    tx,                 \* the transaction being streamed
    at,                 \* which callback the parser makes next
    contract_data_type, \* N_data.contract_data_type, the persistent setting
    maybe_transaction,  \* struct maybe_transaction, with parsed_transaction
    cell_state,         \* cell_state_t
    key,                \* current_lock_arg and change_lock_arg
    lock_arg_cmp,       \* what lock_arg_cmp points to
    lock_arg_tmp,       \* lock_arg_t being assembled from chunks
    dao_cell_owner,
    inp,                \* G.u.inp
    sums,               \* the counters over inputs
    utx,                \* G.u.tx
    hash_state,         \* running blake2b of the raw transaction
    hashes,             \* G.u.tx.transaction_hash and G.u.tx.final_hash
    screen,             \* the rows of the prompt on display
    reply,              \* status word class of the last response
    signature,          \* the last signature sent: key and hash
    allowed_since_first,\* history: contract data was allowed at some moment of this parse
    changes, sessions   \* counters for the bounds

env == <<tx, contract_data_type, allowed_since_first, changes, sessions>>
ui == <<screen, reply, signature>>
perCell == <<cell_state, lock_arg_cmp, lock_arg_tmp, dao_cell_owner>>
vars == <<env, ui, perCell, at, maybe_transaction, key, inp, sums, utx, hash_state, hashes>>

-----------------------------------------------------------------------------
(* types.h and globals.h                                                   *)

MAX_OUTPUTS == 5
Slot == 0 .. MAX_OUTPUTS - 1

Tag == {"NONE", "NOT_SET", "PLAIN_TRANSFER", "MULTI_OUTPUT_TRANSFER", "SELF_TRANSFER",
        "MULTI_INPUT_TRANSFER", "DAO_DEPOSIT", "DAO_PREPARE", "DAO_WITHDRAW"}
Flag == {"HAS_DESTINATION_ADDRESS", "HAS_CHANGE_ADDRESS"}

MaybeTransaction ==
    [is_valid: BOOLEAN, unsafe: BOOLEAN, hard_reject: BOOLEAN, tag: Tag,
     flags: SUBSET Flag, contract_type: {"NOT_PRESENT", "UNKNOWN"},
     total_fee: Word, amount_fst: Word, amount_snd: Word, dao_amount: Word,
     input_count_fst: Nat, input_count_snd: Nat]
CellState ==
    [active: BOOLEAN, capacity: Word, dao_data_is_nonzero: BOOLEAN, data_size: 0 .. 15,
     is_dao: BOOLEAN, is_multisig: BOOLEAN, lock_arg_nonequal: BOOLEAN]
Output == [capacity: Word, destination: LockArg, is_multisig: BOOLEAN]
UTx ==
    [current_output_index: 0 .. MAX_CELLS, outputs: [Slot -> Output], output_count: 0 .. MAX_OUTPUTS,
     dao_bitmask: SUBSET (0 .. MAX_CELLS), change_amount: Word,
     plain_output_amount: Word, dao_output_amount: Word, is_self_transfer: BOOLEAN]

Inp == [index: Nat, context_hash: Seq({"source"} \X Nat), last_input_lock_arg: StandardLockArg]
Sums ==
    [input_count: Nat, distinct_input_sources: Nat, input_amount_fst: Word,
     input_amount_snd: Word, dao_input_amount: Word, signing_multisig_input: BOOLEAN]

Reply == {"none", "signature", "EXC_PARSE_ERROR", "EXC_SECURITY", "EXC_REJECT",
          "EXC_MEMORY_ERROR", "EXC_WRONG_PARAM"}

(* What memset(&G, 0, sizeof(G)) makes of each group.                      *)
ZeroMaybeTransaction ==
    [is_valid |-> FALSE, unsafe |-> FALSE, hard_reject |-> FALSE, tag |-> "NOT_SET",
     flags |-> {}, contract_type |-> "NOT_PRESENT",
     total_fee |-> 0, amount_fst |-> 0, amount_snd |-> 0, dao_amount |-> 0,
     input_count_fst |-> 0, input_count_snd |-> 0]
ZeroCellState ==
    [active |-> FALSE, capacity |-> 0, dao_data_is_nonzero |-> FALSE, data_size |-> 0,
     is_dao |-> FALSE, is_multisig |-> FALSE, lock_arg_nonequal |-> FALSE]
ZeroInp == [index |-> 0, context_hash |-> <<>>, last_input_lock_arg |-> ZeroHash]
ZeroSums ==
    [input_count |-> 0, distinct_input_sources |-> 0, input_amount_fst |-> 0,
     input_amount_snd |-> 0, dao_input_amount |-> 0, signing_multisig_input |-> FALSE]
ZeroOutput == [capacity |-> 0, destination |-> ZeroLockArg, is_multisig |-> FALSE]
ZeroUTx ==
    [current_output_index |-> 0, outputs |-> [s \in Slot |-> ZeroOutput], output_count |-> 0,
     dao_bitmask |-> {}, change_amount |-> 0, plain_output_amount |-> 0,
     dao_output_amount |-> 0, is_self_transfer |-> FALSE]
NoHashes == [transaction_hash |-> <<>>, final_hash |-> <<>>]
NoKey == [current |-> ZeroHash, change |-> ZeroHash]

clear_counters_Kept == UNCHANGED <<inp, sums>>
clear_counters == inp' = ZeroInp /\ sums' = ZeroSums

clear_data ==
    /\ maybe_transaction' = ZeroMaybeTransaction
    /\ clear_counters
    /\ cell_state' = ZeroCellState
    /\ key' = NoKey
    /\ lock_arg_cmp' = ZeroHash
    /\ lock_arg_tmp' = ZeroLockArg
    /\ dao_cell_owner' = ZeroHash
    /\ utx' = ZeroUTx
    /\ hash_state' = <<>>
    /\ hashes' = NoHashes

-----------------------------------------------------------------------------
(* The order of the callbacks: the schema of annotated.mol as the readers  *)
(* of annotated.h and blockchain.h walk it.  An index callback runs before *)
(* every item of a vector and once more after the last one.                *)

Position(vec, cb, i, j) == [vec |-> vec, cb |-> cb, i |-> i, j |-> j]
Idle == Position("none", "idle", 0, 0)
Refused == Position("end", "refused", 0, 0)
Review == Position("end", "review", 0, 0)

Streaming == at \notin {Idle, Refused, Review}

CellsRead == IF at.vec \in {"source", "source_data"} THEN tx.inputs[at.i + 1].source ELSE tx.outputs
cell == CellsRead[at.j + 1]

InSource == at.vec \in {"source", "source_data"}
MoreItems == at.j < Len(CellsRead)

To(cb) == at' = Position(at.vec, cb, at.i, at.j)
Enter(vec, cb) == at' = Position(vec, cb, at.i, 0)
NextItem_Stays(cb) == at' = Position(at.vec, cb, at.i, at.j)
NextItem(cb) == at' = Position(at.vec, cb, at.i, at.j + 1)

(* Callbacks that one other follows, always.                               *)
Then(cb, next) == at.cb = cb /\ To(next)
Straight ==
    \/ Then("set_sign_path", "set_change_path")
    \/ Then("set_change_path", "set_input_count")
    \/ Then("set_input_count", "computeNewOffsetsToHash")
    \/ Then("computeNewOffsetsToHash", "version_and_deps")
    \/ Then("version_and_deps", "inputs_start")
    \/ Then("inputs_start", "input_start")
    \/ Then("blake2b_input_count", "since")
    \/ Then("since", "input_save_index")
    \/ Then("context_blake2b_chunk", "finish_context_txn")
    \/ Then("cell_capacity", "cell_lock_code_hash")
    \/ Then("cell_lock_code_hash", "lock_hash_type")
    \/ Then("script_arg_start_input", "script_arg_chunk")
    \/ Then("cell_type_code_hash", "type_hash_type")
    \/ Then("type_hash_type", "cell_type_arg_length")
    \/ Then("outputs", "outputs_end")
    \/ Then("set_cell_data_size", "check_cell_data_data_chunk")
    \/ Then("outputs_data", "finalize_raw_transaction")
    \/ Then("finalize_raw_transaction", "witnesses")
    \/ Then("witnesses", "last_chunk")

CellEnd == IF InSource THEN NextItem("input_context_start_idx") ELSE To("output_end")
LockEnd == IF HasType(cell) THEN To("cell_type_code_hash") ELSE CellEnd

FollowInputs ==
    \/ at.cb = "input_start" /\ at.i = 0 /\ To("blake2b_input_count")
    \/ at.cb = "input_start" /\ at.i \in 1 .. Len(tx.inputs) - 1 /\ To("since")
    \/ at.cb = "input_start" /\ at.i = Len(tx.inputs) /\ To("finish_inputs")
    \/ at.cb = "input_save_index" /\ Enter("source", "input_context_start_idx")
    \/ at.cb = "finish_context_txn" /\ at' = Position("none", "input_start", at.i + 1, 0)
    \/ at.cb = "finish_inputs" /\ Enter("outputs", "output_start")
FollowVectors ==
    \/ /\ at.cb = "input_context_start_idx" /\ at.vec = "source"
       /\ IF MoreItems THEN To("cell_capacity") ELSE Enter("source_data", "input_context_start_idx")
    \/ /\ at.cb = "input_context_start_idx" /\ at.vec = "source_data"
       /\ To(IF MoreItems THEN "set_cell_data_size" ELSE "context_blake2b_chunk")
    \/ at.cb = "output_start" /\ To(IF MoreItems THEN "cell_capacity" ELSE "outputs")
    \/ at.cb = "outputs_end" /\ Enter("outputs_data", "validate_output_data_start")
    \/ /\ at.cb = "validate_output_data_start"
       /\ To(IF MoreItems THEN "set_cell_data_size" ELSE "outputs_data")
FollowCell ==
    \/ at.cb = "lock_hash_type" /\ To(IF InSource THEN "script_arg_start_input" ELSE "script_arg_chunk")
    \/ at.cb = "script_arg_chunk" /\ IF InSource THEN To("input_lock_arg_end") ELSE LockEnd
    \/ at.cb = "input_lock_arg_end" /\ LockEnd
    \/ at.cb = "cell_type_arg_length" /\ CellEnd
    \/ at.cb = "output_end" /\ NextItem("output_start")
    \/ /\ at.cb = "check_cell_data_data_chunk"
       /\ To(IF InSource THEN "finish_input_cell_data" ELSE "finish_output_cell_data")
    \/ at.cb = "finish_input_cell_data" /\ NextItem("input_context_start_idx")
    \/ at.cb = "finish_output_cell_data" /\ NextItem("validate_output_data_start")

(* To the callback that follows the one at at.                             *)
Follow == Straight \/ FollowInputs \/ FollowVectors \/ FollowCell

(* The parser makes callback cb and goes on to the one that follows.       *)
Parse(cb) == at.cb = cb /\ Follow /\ UNCHANGED <<env, ui>>

(* if(!G.cell_state.active) return; at the head of a callback: in the      *)
(* source of an input every output but the one the input spends is skipped.*)
ParseActive(cb) == Parse(cb) /\ cell_state.active

ActiveOnly ==
    {"cell_capacity", "cell_lock_code_hash", "lock_hash_type", "script_arg_start_input",
     "script_arg_chunk", "input_lock_arg_end", "cell_type_code_hash", "type_hash_type",
     "cell_type_arg_length", "check_cell_data_data_chunk", "finish_input_cell_data"}

InactiveCell ==
    /\ at.cb \in ActiveOnly /\ ~cell_state.active
    /\ Follow
    /\ UNCHANGED <<env, ui, perCell, maybe_transaction, key, inp, sums, utx, hash_state, hashes>>

(* The REJECT macro: the transaction is unsafe from here on, and parsing   *)
(* continues.  RejectUnlessAllowed is the REJECT that the contract-data    *)
(* setting, as it stands at this callback, turns off.                      *)
Reject == maybe_transaction' = [maybe_transaction EXCEPT !.unsafe = TRUE]
RejectIf(condition) == maybe_transaction' = [maybe_transaction EXCEPT !.unsafe = @ \/ condition]
RejectUnlessAllowed_Inverted == RejectIf(contract_data_type = "ALLOW")
RejectUnlessAllowed == RejectIf(contract_data_type = "DISALLOW")
RejectHard == maybe_transaction' = [maybe_transaction EXCEPT !.hard_reject = TRUE]

-----------------------------------------------------------------------------
(* Paths, the announced number of inputs, and the head of the raw          *)
(* transaction.                                                            *)

set_sign_path ==
    /\ Parse("set_sign_path") /\ tx.pathsFit
    /\ key' = [current |-> tx.signPath, change |-> tx.signPath]
    /\ UNCHANGED <<perCell, maybe_transaction, inp, sums, utx, hash_state, hashes>>

set_change_path ==
    /\ Parse("set_change_path")
    /\ key' = [key EXCEPT !.change = tx.changePath]
    /\ UNCHANGED <<perCell, maybe_transaction, inp, sums, utx, hash_state, hashes>>

(* init_bip32 refuses a path that bip32_path_t cannot hold: a hard reject, *)
(* and the parser's REJECT ends the APDU with a parse error.               *)
init_bip32_rejects ==
    /\ at.cb = "set_sign_path" /\ ~tx.pathsFit
    /\ RejectHard
    /\ at' = Refused /\ reply' = "EXC_PARSE_ERROR"
    /\ UNCHANGED <<env, screen, signature, perCell, key, inp, sums, utx, hash_state, hashes>>

set_input_count ==
    /\ Parse("set_input_count")
    /\ sums' = [sums EXCEPT !.input_count = tx.inputCount]
    /\ UNCHANGED <<perCell, maybe_transaction, key, inp, utx, hash_state, hashes>>

(* The offsets of the raw transaction the annotated one stands for: they   *)
(* depend on the announced number of inputs, 44 bytes each.                *)
computeNewOffsetsToHash ==
    /\ Parse("computeNewOffsetsToHash")
    /\ hash_state' = Append(hash_state, <<"offsets", sums.input_count>>)
    /\ UNCHANGED <<perCell, maybe_transaction, key, inp, sums, utx, hashes>>

(* Fields that are hashed as they arrive.                                  *)
blake2b_chunk ==
    \E field \in {"version_and_deps", "since", "outputs", "outputs_data"} :
        /\ Parse(field)
        /\ hash_state' = Append(hash_state, IF field = "since" THEN <<field, at.i + 1>> ELSE <<field>>)
        /\ UNCHANGED <<perCell, maybe_transaction, key, inp, sums, utx, hashes>>

-----------------------------------------------------------------------------
(* Inputs.                                                                 *)

inputs_start ==
    /\ Parse("inputs_start")
    /\ inp' = [inp EXCEPT !.last_input_lock_arg = ZeroHash]
    /\ UNCHANGED <<perCell, maybe_transaction, key, sums, utx, hash_state, hashes>>

input_start ==
    /\ Parse("input_start")
    /\ cell_state' = ZeroCellState
    /\ lock_arg_tmp' = ZeroLockArg
    /\ inp' = [inp EXCEPT !.index = 0, !.context_hash = <<>>]
    /\ UNCHANGED <<lock_arg_cmp, dao_cell_owner, maybe_transaction, key, sums, utx, hash_state, hashes>>

blake2b_input_count ==
    /\ Parse("blake2b_input_count")
    /\ \/ /\ Len(tx.inputs) = sums.input_count
          /\ hash_state' = Append(hash_state, <<"input_count", sums.input_count>>)
          /\ UNCHANGED maybe_transaction
       \/ /\ Len(tx.inputs) # sums.input_count
          /\ RejectHard
          /\ UNCHANGED hash_state
    /\ UNCHANGED <<perCell, key, inp, sums, utx, hashes>>

input_save_index ==
    /\ Parse("input_save_index")
    /\ inp' = [inp EXCEPT !.index = tx.inputs[at.i + 1].index]
    /\ UNCHANGED <<perCell, maybe_transaction, key, sums, utx, hash_state, hashes>>

input_context_start_idx_StaysActive ==
    /\ Parse("input_context_start_idx")
    /\ cell_state' = [cell_state EXCEPT !.active = @ \/ at.j = inp.index]
    /\ UNCHANGED <<lock_arg_cmp, lock_arg_tmp, dao_cell_owner,
                   maybe_transaction, key, inp, sums, utx, hash_state, hashes>>
input_context_start_idx ==
    /\ Parse("input_context_start_idx")
    /\ cell_state' = [cell_state EXCEPT !.active = (at.j = inp.index)]
    /\ UNCHANGED <<lock_arg_cmp, lock_arg_tmp, dao_cell_owner,
                   maybe_transaction, key, inp, sums, utx, hash_state, hashes>>

(* The whole source, which arrives chunk by chunk with its fields.         *)
context_blake2b_chunk ==
    /\ Parse("context_blake2b_chunk")
    /\ inp' = [inp EXCEPT !.context_hash = Append(@, <<"source", at.i + 1>>)]
    /\ UNCHANGED <<perCell, maybe_transaction, key, sums, utx, hash_state, hashes>>

finish_context_txn ==
    /\ Parse("finish_context_txn")
    /\ hash_state' = hash_state \o <<<<"tx_hash", inp.context_hash>>, <<"index", inp.index>>>>
    /\ inp' = [inp EXCEPT !.index = 0, !.context_hash = <<>>]
    /\ UNCHANGED <<perCell, maybe_transaction, key, sums, utx, hashes>>

(* G.u is a union: from here on it is G.u.tx, zeroed.                      *)
finish_inputs ==
    /\ Parse("finish_inputs")
    /\ inp' = ZeroInp /\ utx' = ZeroUTx /\ hashes' = NoHashes
    /\ UNCHANGED <<perCell, maybe_transaction, key, sums, hash_state>>

-----------------------------------------------------------------------------
(* One cell: of the source of an input, or of the outputs.                 *)

cell_capacity ==
    /\ ParseActive("cell_capacity")
    /\ cell_state' = [cell_state EXCEPT !.capacity = cell.capacity]
    /\ UNCHANGED <<lock_arg_cmp, lock_arg_tmp, dao_cell_owner,
                   maybe_transaction, key, inp, sums, utx, hash_state, hashes>>

cell_lock_code_hash ==
    /\ ParseActive("cell_lock_code_hash")
    /\ \/ /\ cell.lock.code_hash \in {"default", "multisig"}
          /\ cell_state' = [cell_state EXCEPT !.is_multisig = (cell.lock.code_hash = "multisig")]
          /\ UNCHANGED maybe_transaction
       \/ /\ cell.lock.code_hash = "other"
          /\ RejectUnlessAllowed
          /\ UNCHANGED cell_state
    /\ UNCHANGED <<lock_arg_cmp, lock_arg_tmp, dao_cell_owner, key, inp, sums, utx, hash_state, hashes>>

cell_script_hash_type ==
    /\ \/ /\ ParseActive("lock_hash_type")
          /\ \/ cell.lock.hash_type = "type" /\ UNCHANGED maybe_transaction
             \/ cell.lock.hash_type # "type" /\ RejectUnlessAllowed
       \/ /\ ParseActive("type_hash_type")
          /\ \/ cell.type_.hash_type = "type" /\ UNCHANGED maybe_transaction
             \/ cell.type_.hash_type # "type" /\ RejectUnlessAllowed
    /\ UNCHANGED <<perCell, key, inp, sums, utx, hash_state, hashes>>

script_arg_start_input ==
    /\ ParseActive("script_arg_start_input")
    /\ cell_state' = [cell_state EXCEPT !.lock_arg_nonequal = FALSE]
    /\ lock_arg_cmp' = key.current
    /\ UNCHANGED <<lock_arg_tmp, dao_cell_owner, maybe_transaction, key, inp, sums, utx, hash_state, hashes>>

(* The args as the chunks bring them, compared byte by byte as far as they *)
(* go.  lock_arg_cmp is one of three hashes that lie one behind the other  *)
(* in apdu_sign_state_t: behind current_lock_arg is change_lock_arg, and   *)
(* behind that dao_cell_owner, and bytes 20 to 27 are compared with what   *)
(* is there.  The chunk that goes beyond 28 bytes is left out, and another *)
(* one may come after it: which bytes lock_arg_tmp holds in the end is a   *)
(* matter of the cuts, and of the bytes of the args the model does not have.*)
Compared ==
    [hash |-> lock_arg_cmp, lock_period |-> AsPeriod(IF InSource THEN key.change ELSE dao_cell_owner)]
Agrees(lock) == FirstBytes(lock.args, lock.size) = FirstBytes(Compared, lock.size)

script_arg_chunk ==
    /\ ParseActive("script_arg_chunk")
    /\ \/ /\ cell.lock.size <= 28
          /\ lock_arg_tmp' = cell.lock.args
          /\ cell_state' = [cell_state EXCEPT !.lock_arg_nonequal = @ \/ ~Agrees(cell.lock)]
       \/ /\ cell.lock.size > 28
          /\ lock_arg_tmp' \in LockArg
          /\ cell_state' = [cell_state EXCEPT !.lock_arg_nonequal = TRUE]
    /\ UNCHANGED <<lock_arg_cmp, dao_cell_owner, maybe_transaction, key, inp, sums, utx, hash_state, hashes>>

(* Inputs with the same lock arg are expected side by side: a change of    *)
(* hash starts a new source, and the one we sign for must start only once. *)
NewSource_Always == TRUE
NewSource == inp.last_input_lock_arg # lock_arg_tmp.hash

input_lock_arg_end ==
    LET ours == ~cell_state.lock_arg_nonequal
        count == sums.distinct_input_sources + 1
    IN  /\ ParseActive("input_lock_arg_end")
        /\ \/ /\ NewSource /\ ours /\ maybe_transaction.input_count_fst # 0
              /\ sums' = [sums EXCEPT !.distinct_input_sources = count]
              /\ Reject
              /\ UNCHANGED inp
           \/ /\ ~(NewSource /\ ours /\ maybe_transaction.input_count_fst # 0)
              /\ sums' = [sums EXCEPT !.distinct_input_sources = IF NewSource THEN count ELSE @]
              /\ maybe_transaction' = [maybe_transaction EXCEPT
                    !.input_count_fst = IF NewSource /\ ours THEN count ELSE @]
              /\ inp' = [inp EXCEPT !.last_input_lock_arg = lock_arg_tmp.hash]
        /\ UNCHANGED <<perCell, key, utx, hash_state, hashes>>

cell_type_code_hash ==
    /\ ParseActive("cell_type_code_hash")
    /\ \/ /\ cell.type_.code_hash = "dao"
          /\ cell_state' = [cell_state EXCEPT !.is_dao = TRUE]
          /\ UNCHANGED maybe_transaction
       \/ /\ cell.type_.code_hash # "dao"
          /\ RejectUnlessAllowed
          /\ UNCHANGED cell_state
    /\ UNCHANGED <<lock_arg_cmp, lock_arg_tmp, dao_cell_owner, key, inp, sums, utx, hash_state, hashes>>

cell_type_arg_length ==
    /\ ParseActive("cell_type_arg_length")
    /\ RejectIf(/\ cell.type_.args = "nonempty"
                /\ cell_state.is_dao \/ contract_data_type = "DISALLOW")
    /\ UNCHANGED <<perCell, key, inp, sums, utx, hash_state, hashes>>

-----------------------------------------------------------------------------
(* The data of a cell.  set_cell_data_size runs for inactive cells too.    *)

set_cell_data_size ==
    /\ Parse("set_cell_data_size")
    /\ cell_state' = [cell_state EXCEPT !.data_size = IF cell.data.size < 15 THEN cell.data.size ELSE 15]
    /\ UNCHANGED <<lock_arg_cmp, lock_arg_tmp, dao_cell_owner,
                   maybe_transaction, key, inp, sums, utx, hash_state, hashes>>

check_cell_data_data_chunk ==
    /\ ParseActive("check_cell_data_data_chunk")
    /\ cell_state' = [cell_state EXCEPT !.dao_data_is_nonzero = @ \/ cell.data.nonzero]
    /\ UNCHANGED <<lock_arg_cmp, lock_arg_tmp, dao_cell_owner,
                   maybe_transaction, key, inp, sums, utx, hash_state, hashes>>

(* A cell can join DAO operation op if no other operation has been seen.   *)
JoinsOperation_NeverFirst(op) == maybe_transaction.tag = op
JoinsOperation(op) == maybe_transaction.tag \in {op, "NOT_SET"}

finish_input_cell_data_dao ==
    LET op == IF cell_state.dao_data_is_nonzero THEN "DAO_WITHDRAW" ELSE "DAO_PREPARE"
    IN  /\ ParseActive("finish_input_cell_data") /\ cell_state.is_dao
        /\ dao_cell_owner' = lock_arg_tmp.hash
        /\ \/ cell_state.data_size # 8 /\ Reject /\ UNCHANGED sums
           \/ /\ cell_state.data_size = 8
              /\ sums' = [sums EXCEPT !.dao_input_amount = Add(@, cell_state.capacity)]
              /\ \/ JoinsOperation(op) /\ maybe_transaction' = [maybe_transaction EXCEPT !.tag = op]
                 \/ ~JoinsOperation(op) /\ Reject
        /\ UNCHANGED <<cell_state, lock_arg_cmp, lock_arg_tmp, key, inp, utx, hash_state, hashes>>

(* What both plain branches do with data in a cell that is not a DAO cell. *)
NoteContractData_Untold == RejectIf(cell_state.data_size # 0 /\ contract_data_type = "DISALLOW")
NoteContractData ==
    maybe_transaction' =
        IF cell_state.data_size = 0 THEN maybe_transaction
        ELSE IF contract_data_type = "DISALLOW"
             THEN [maybe_transaction EXCEPT !.unsafe = TRUE]
             ELSE [maybe_transaction EXCEPT !.contract_type = "UNKNOWN"]

(* The REJECT returns before the capacity is counted.                      *)
finish_input_cell_data_plain ==
    /\ ParseActive("finish_input_cell_data") /\ ~cell_state.is_dao
    /\ NoteContractData
    /\ \/ /\ cell_state.data_size # 0 /\ contract_data_type = "DISALLOW"
          /\ UNCHANGED sums
       \/ /\ cell_state.data_size = 0 \/ contract_data_type = "ALLOW"
          /\ sums' = [sums EXCEPT
                !.input_amount_snd = Add(@, cell_state.capacity),
                !.input_amount_fst = IF cell_state.lock_arg_nonequal THEN @ ELSE Add(@, cell_state.capacity),
                !.signing_multisig_input = @ \/ cell_state.is_multisig]
    /\ UNCHANGED <<perCell, key, inp, utx, hash_state, hashes>>

-----------------------------------------------------------------------------
(* Outputs.                                                                *)

output_start ==
    /\ Parse("output_start")
    /\ utx' = [utx EXCEPT !.current_output_index = at.j]
    /\ cell_state' = [ZeroCellState EXCEPT !.active = TRUE]
    /\ lock_arg_tmp' = ZeroLockArg
    /\ lock_arg_cmp' = key.change
    /\ UNCHANGED <<dao_cell_owner, maybe_transaction, key, inp, sums, hash_state, hashes>>

(* Not the lock of the change path.                                        *)
NotChange == cell_state.lock_arg_nonequal \/ cell_state.is_multisig
HasFlag(flag) == flag \in maybe_transaction.flags
SetFlag_Forgotten(flag) == UNCHANGED maybe_transaction
SetFlag(flag) == maybe_transaction' = [maybe_transaction EXCEPT !.flags = @ \cup {flag}]
Throw(error) == at' = Refused /\ reply' = error

OutputEnd(condition) ==
    /\ at.cb = "output_end" /\ condition
    /\ UNCHANGED <<env, screen, signature, cell_state, lock_arg_cmp, lock_arg_tmp,
                   key, inp, sums, hash_state, hashes>>
Continue == Follow /\ UNCHANGED reply

output_end_dao ==
    /\ OutputEnd(cell_state.is_dao)
    /\ Continue
    /\ dao_cell_owner' = lock_arg_tmp.hash
    /\ utx' = [utx EXCEPT !.dao_output_amount = Add(@, cell_state.capacity),
                          !.dao_bitmask = @ \cup {utx.current_output_index}]
    /\ IF NotChange THEN Reject ELSE SetFlag("HAS_CHANGE_ADDRESS")

output_end_change ==
    /\ OutputEnd(~cell_state.is_dao /\ ~NotChange)
    /\ Continue
    /\ utx' = [utx EXCEPT !.change_amount = Add(@, cell_state.capacity)]
    /\ SetFlag("HAS_CHANGE_ADDRESS")
    /\ UNCHANGED dao_cell_owner

(* What the entry of the output table at slot s becomes when this cell is  *)
(* stored there, or its capacity added to what the slot already holds.     *)
StoredAt(s) == [utx.outputs EXCEPT
    ![s].capacity = Add(@, cell_state.capacity),
    ![s].destination = lock_arg_tmp,
    ![s].is_multisig = cell_state.is_multisig]
AddedAt_Overwrites(s) == [utx.outputs EXCEPT ![s].capacity = cell_state.capacity]
AddedAt(s) == [utx.outputs EXCEPT ![s].capacity = Add(@, cell_state.capacity)]

CountPlain(table, count) ==
    utx' = [utx EXCEPT !.outputs = table, !.output_count = count,
                       !.plain_output_amount = Add(@, cell_state.capacity)]

PlainOutput == ~cell_state.is_dao /\ NotChange
last_output == utx.outputs[utx.output_count - 1]
SameAsLast_First ==
    /\ utx.outputs[0].destination.hash = lock_arg_tmp.hash
    /\ utx.outputs[0].is_multisig = cell_state.is_multisig
SameAsLast ==
    /\ last_output.destination.hash = lock_arg_tmp.hash
    /\ last_output.is_multisig = cell_state.is_multisig

TableFull_OffByOne == utx.output_count > MAX_OUTPUTS
TableFull == utx.output_count >= MAX_OUTPUTS

output_end_first ==
    /\ OutputEnd(PlainOutput /\ ~HasFlag("HAS_DESTINATION_ADDRESS"))
    /\ \/ /\ utx.output_count # 0
          /\ Throw("EXC_MEMORY_ERROR")
          /\ UNCHANGED <<utx, maybe_transaction>>
       \/ /\ utx.output_count = 0
          /\ Continue
          /\ CountPlain(StoredAt(0), 1)
          /\ SetFlag("HAS_DESTINATION_ADDRESS")
    /\ UNCHANGED dao_cell_owner

output_end_same ==
    /\ OutputEnd(PlainOutput /\ HasFlag("HAS_DESTINATION_ADDRESS") /\ SameAsLast)
    /\ Continue
    /\ CountPlain(AddedAt(utx.output_count - 1), utx.output_count)
    /\ SetFlag("HAS_DESTINATION_ADDRESS")
    /\ UNCHANGED dao_cell_owner

output_end_other ==
    /\ OutputEnd(PlainOutput /\ HasFlag("HAS_DESTINATION_ADDRESS") /\ ~SameAsLast)
    /\ Continue
    /\ \/ /\ ~JoinsOperation("MULTI_OUTPUT_TRANSFER")
          /\ Reject
          /\ UNCHANGED utx
       \/ /\ JoinsOperation("MULTI_OUTPUT_TRANSFER") /\ TableFull
          /\ maybe_transaction' = [maybe_transaction EXCEPT !.tag = "MULTI_OUTPUT_TRANSFER", !.unsafe = TRUE]
          /\ UNCHANGED utx
       \/ /\ JoinsOperation("MULTI_OUTPUT_TRANSFER") /\ ~TableFull
          /\ maybe_transaction' = [maybe_transaction EXCEPT
                !.tag = "MULTI_OUTPUT_TRANSFER", !.flags = @ \cup {"HAS_DESTINATION_ADDRESS"}]
          /\ CountPlain(StoredAt(utx.output_count), utx.output_count + 1)
    /\ UNCHANGED dao_cell_owner

output_end ==
    \/ output_end_dao \/ output_end_change
    \/ output_end_first \/ output_end_same \/ output_end_other

(* flags &= !HAS_CHANGE_ADDRESS: the logical not is 0, so every flag goes. *)
outputs_end ==
    LET isDao == utx.dao_bitmask # {} \/ maybe_transaction.tag \in {"DAO_PREPARE", "DAO_WITHDRAW"}
        self == ~HasFlag("HAS_DESTINATION_ADDRESS") /\ HasFlag("HAS_CHANGE_ADDRESS")
    IN  /\ at.cb = "outputs_end"
        /\ \/ /\ isDao
              /\ Continue /\ UNCHANGED <<utx, maybe_transaction>>
           \/ /\ ~isDao /\ ~self
              /\ utx' = [utx EXCEPT !.is_self_transfer = FALSE]
              /\ Continue /\ UNCHANGED maybe_transaction
           \/ /\ ~isDao /\ self /\ utx.plain_output_amount # 0
              /\ utx' = [utx EXCEPT !.is_self_transfer = TRUE]
              /\ Throw("EXC_WRONG_PARAM") /\ UNCHANGED maybe_transaction
           \/ /\ ~isDao /\ self /\ utx.plain_output_amount = 0 /\ utx.output_count # 0
              /\ utx' = [utx EXCEPT !.is_self_transfer = TRUE]
              /\ Throw("EXC_MEMORY_ERROR") /\ UNCHANGED maybe_transaction
           \/ /\ ~isDao /\ self /\ utx.plain_output_amount = 0 /\ utx.output_count = 0
              /\ utx' = [utx EXCEPT
                    !.is_self_transfer = TRUE,
                    !.plain_output_amount = utx.change_amount, !.change_amount = 0,
                    !.output_count = 1,
                    !.outputs = [@ EXCEPT ![0].destination.hash = key.change]]
              /\ maybe_transaction' = [maybe_transaction EXCEPT !.flags = {}]
              /\ Continue
        /\ UNCHANGED <<env, screen, signature, perCell, key, inp, sums, hash_state, hashes>>

validate_output_data_start ==
    /\ Parse("validate_output_data_start")
    /\ cell_state' = [cell_state EXCEPT !.is_dao = at.j \in utx.dao_bitmask]
    /\ UNCHANGED <<lock_arg_cmp, lock_arg_tmp, dao_cell_owner,
                   maybe_transaction, key, inp, sums, utx, hash_state, hashes>>

finish_output_cell_data ==
    LET op == IF cell_state.dao_data_is_nonzero THEN "DAO_PREPARE" ELSE "DAO_DEPOSIT"
    IN  /\ Parse("finish_output_cell_data")
        /\ \/ ~cell_state.is_dao /\ NoteContractData
           \/ /\ cell_state.is_dao
              /\ cell_state.data_size # 8 \/ ~JoinsOperation(op)
              /\ Reject
           \/ /\ cell_state.is_dao
              /\ cell_state.data_size = 8 /\ JoinsOperation(op)
              /\ maybe_transaction' = [maybe_transaction EXCEPT !.tag = op]
        /\ UNCHANGED <<perCell, key, inp, sums, utx, hash_state, hashes>>

-----------------------------------------------------------------------------
(* The end of the raw transaction.  Each operation fills its fields of     *)
(* parsed_transaction (parsed) or is rejected, and a rejection returns     *)
(* before the fee and the hash are computed.                               *)

Fee_WithoutChange == Minus(Add(sums.input_amount_snd, sums.dao_input_amount),
                           Add(utx.plain_output_amount, utx.dao_output_amount))
Fee == Minus(Add(sums.input_amount_snd, sums.dao_input_amount),
             Add(Add(utx.plain_output_amount, utx.dao_output_amount), utx.change_amount))

Finalize(tags, rejected, parsed, fee) ==
    /\ Parse("finalize_raw_transaction") /\ maybe_transaction.tag \in tags
    /\ IF rejected
       THEN maybe_transaction' = [parsed EXCEPT !.unsafe = TRUE] /\ UNCHANGED hashes
       ELSE /\ maybe_transaction' = [parsed EXCEPT !.total_fee = fee]
            /\ hashes' = [hashes EXCEPT !.transaction_hash = hash_state]
    /\ UNCHANGED <<perCell, key, inp, sums, utx, hash_state>>

finalize_single_source ==
    /\ sums.distinct_input_sources <= 1
    /\ Finalize({"NOT_SET"}, FALSE,
                [maybe_transaction EXCEPT
                    !.tag = IF utx.is_self_transfer THEN "SELF_TRANSFER" ELSE "PLAIN_TRANSFER",
                    !.amount_snd = utx.plain_output_amount],
                Fee)

finalize_multi_source ==
    /\ sums.distinct_input_sources > 1
    /\ \/ /\ sums.signing_multisig_input
          /\ Finalize({"NOT_SET"}, TRUE, maybe_transaction, Fee)
       \/ /\ ~sums.signing_multisig_input /\ maybe_transaction.input_count_fst = 0
          /\ Finalize({"NOT_SET"}, TRUE,
                      [maybe_transaction EXCEPT !.tag = "MULTI_INPUT_TRANSFER"], Fee)
       \/ /\ ~sums.signing_multisig_input /\ maybe_transaction.input_count_fst # 0
          /\ Finalize({"NOT_SET"}, FALSE,
                      [maybe_transaction EXCEPT
                          !.tag = "MULTI_INPUT_TRANSFER",
                          !.input_count_snd = sums.distinct_input_sources,
                          !.amount_fst = sums.input_amount_fst,
                          !.amount_snd = utx.plain_output_amount],
                      Fee)

finalize_multi_output ==
    LET rejected == sums.distinct_input_sources > 1
    IN  Finalize({"MULTI_OUTPUT_TRANSFER"}, rejected,
                 [maybe_transaction EXCEPT !.amount_snd = IF rejected THEN @ ELSE utx.plain_output_amount],
                 Fee)

finalize_dao_deposit ==
    Finalize({"DAO_DEPOSIT"}, FALSE,
             [maybe_transaction EXCEPT !.dao_amount = utx.dao_output_amount], Fee)

finalize_dao_prepare_Unchecked ==
    Finalize({"DAO_PREPARE"}, FALSE,
             [maybe_transaction EXCEPT !.dao_amount = utx.dao_output_amount], Fee)
finalize_dao_prepare ==
    Finalize({"DAO_PREPARE"}, utx.dao_output_amount # sums.dao_input_amount,
             [maybe_transaction EXCEPT !.dao_amount = utx.dao_output_amount], Fee)

(* The slot of the fee holds the compensation, fee's opposite.             *)
finalize_dao_withdraw ==
    Finalize({"DAO_WITHDRAW"}, utx.dao_output_amount # 0 \/ utx.plain_output_amount # 0,
             [maybe_transaction EXCEPT !.dao_amount = sums.dao_input_amount], Negated(Fee))

finalize_raw_transaction ==
    \/ finalize_single_source \/ finalize_multi_source \/ finalize_multi_output
    \/ finalize_dao_deposit \/ finalize_dao_prepare \/ finalize_dao_withdraw

(* begin_witness to finalize_witnesses, the witnesses as one chunk.        *)
witnesses ==
    /\ Parse("witnesses")
    /\ hash_state' = <<>>
    /\ hashes' = [hashes EXCEPT !.final_hash = <<hashes.transaction_hash, "witnesses">>]
    /\ UNCHANGED <<perCell, maybe_transaction, key, inp, sums, utx>>

-----------------------------------------------------------------------------
(* What sign_complete puts on the screen, by operation.  An output shows   *)
(* as an address: of its multisig script, time lock included, or of the    *)
(* public key.                                                             *)

Address(output) ==
    IF output.is_multisig
    THEN [script |-> "multisig", lock_arg |-> output.destination]
    ELSE [script |-> "sighash",
          lock_arg |-> [hash |-> output.destination.hash, lock_period |-> NoPeriod]]

NoScreen == [confirm |-> "nothing"]

TransferScreen(confirm, contract) ==
    [confirm |-> confirm,
     amount |-> maybe_transaction.amount_snd, fee |-> maybe_transaction.total_fee,
     destination |-> Address(utx.outputs[0]), contract |-> contract]
MultiOutputScreen ==
    [confirm |-> "Transaction (outputs)",
     amount |-> maybe_transaction.amount_snd, fee |-> maybe_transaction.total_fee,
     outputs |-> [n \in 1 .. utx.output_count |->
                    [capacity |-> utx.outputs[n - 1].capacity, address |-> Address(utx.outputs[n - 1])]]]
MultiInputScreen ==
    [confirm |-> "Multi-Input Transaction",
     input |-> <<maybe_transaction.input_count_fst, maybe_transaction.input_count_snd>>,
     source |-> key.current,
     amount |-> <<maybe_transaction.amount_fst, maybe_transaction.amount_snd>>,
     fee |-> maybe_transaction.total_fee, destination |-> Address(utx.outputs[0])]
DaoScreen(confirm) ==
    [confirm |-> confirm, deposit_amount |-> maybe_transaction.dao_amount,
     fee_or_compensation |-> maybe_transaction.total_fee, owner |-> dao_cell_owner]

ContractRow == IF contract_data_type = "ALLOW" THEN maybe_transaction.contract_type ELSE "no row"

Prompt(tag) ==
    \/ tag = "PLAIN_TRANSFER" /\ screen' = TransferScreen("Transaction", ContractRow)
    \/ tag = "SELF_TRANSFER" /\ screen' = TransferScreen("Self-Transfer", "no row")
    \/ tag = "MULTI_OUTPUT_TRANSFER" /\ screen' = MultiOutputScreen
    \/ tag = "MULTI_INPUT_TRANSFER" /\ screen' = MultiInputScreen
    \/ tag = "DAO_DEPOSIT" /\ screen' = DaoScreen("Deposit")
    \/ tag = "DAO_PREPARE" /\ screen' = DaoScreen("Prepare")
    \/ tag = "DAO_WITHDRAW" /\ screen' = DaoScreen("Withdrawal")

-----------------------------------------------------------------------------
(* handle_apdu: the chunks.  A first packet clears everything and starts a *)
(* parse; later ones continue it.                                          *)

first_chunk ==
    \E t \in Transactions :
        /\ at # Review
        /\ sessions < MaxSessions /\ sessions' = sessions + 1
        /\ clear_data
        /\ tx' = t
        /\ at' = Position("none", "set_sign_path", 0, 0)
        /\ allowed_since_first' = (contract_data_type = "ALLOW")
        /\ reply' = "none" /\ screen' = NoScreen
        /\ UNCHANGED <<contract_data_type, changes, signature>>

parseState == <<perCell, key, inp, sums, utx, hash_state, hashes>>

(* A packet that ends the parse short of the transaction's end: it carries *)
(* the last marker too early, or follows a hard reject.                    *)
chunk_refused ==
    /\ Streaming /\ at.cb # "last_chunk"
    /\ \/ RejectHard
       \/ maybe_transaction.hard_reject /\ UNCHANGED maybe_transaction
    /\ Throw("EXC_PARSE_ERROR")
    /\ UNCHANGED <<env, screen, signature, parseState>>

(* The packet that completes the parse, with or without the last marker    *)
(* and P1_NO_FALLBACK (secure_only).                                       *)
complete_unmarked ==
    /\ at.cb = "last_chunk"
    /\ RejectHard
    /\ Throw("EXC_PARSE_ERROR")
    /\ UNCHANGED <<env, screen, signature, parseState>>

complete_hard_reject ==
    /\ at.cb = "last_chunk" /\ maybe_transaction.hard_reject
    /\ Throw("EXC_PARSE_ERROR")
    /\ UNCHANGED <<env, screen, signature, parseState, maybe_transaction>>

complete_unsafe(secure_only) ==
    /\ at.cb = "last_chunk" /\ ~maybe_transaction.hard_reject /\ maybe_transaction.unsafe
    /\ \/ /\ secure_only
          /\ Throw("EXC_SECURITY")
          /\ UNCHANGED maybe_transaction
       \/ /\ ~secure_only
          /\ Throw("EXC_REJECT")
          /\ maybe_transaction' = [maybe_transaction EXCEPT !.tag = "NONE", !.is_valid = TRUE]
    /\ UNCHANGED <<env, screen, signature, parseState>>

sign_complete ==
    /\ at.cb = "last_chunk" /\ ~maybe_transaction.hard_reject /\ ~maybe_transaction.unsafe
    /\ maybe_transaction' = [maybe_transaction EXCEPT !.is_valid = TRUE]
    /\ Prompt(maybe_transaction.tag)
    /\ at' = Review
    /\ UNCHANGED <<env, reply, signature, parseState>>

(* The answer to the prompt: sign_without_hash_ok with perform_signature,  *)
(* or sign_reject.                                                         *)
sign_ok ==
    /\ at = Review
    /\ signature' = [key |-> key.current, hash |-> hashes.final_hash]
    /\ clear_data
    /\ at' = Idle /\ screen' = NoScreen /\ reply' = "signature"
    /\ UNCHANGED env

sign_reject ==
    /\ at = Review
    /\ clear_data
    /\ at' = Idle /\ screen' = NoScreen /\ reply' = "EXC_REJECT"
    /\ UNCHANGED <<env, signature>>

(* The settings menu of the idle screen, reachable while the host streams. *)
switch_contract_data ==
    /\ at # Review /\ changes < MaxSettingChanges
    /\ changes' = changes + 1
    /\ contract_data_type' = IF contract_data_type = "ALLOW" THEN "DISALLOW" ELSE "ALLOW"
    /\ allowed_since_first' = (allowed_since_first \/ contract_data_type' = "ALLOW")
    /\ UNCHANGED <<tx, sessions, ui, parseState, maybe_transaction, at>>

-----------------------------------------------------------------------------

NoSignature == [key |-> ZeroHash, hash |-> <<>>]

Init ==
    /\ tx = CHOOSE t \in Transactions : TRUE
    /\ at = Idle
    /\ contract_data_type \in {"ALLOW", "DISALLOW"}
    /\ allowed_since_first = FALSE
    /\ changes = 0 /\ sessions = 0
    /\ maybe_transaction = ZeroMaybeTransaction
    /\ cell_state = ZeroCellState
    /\ key = NoKey
    /\ lock_arg_cmp = ZeroHash /\ lock_arg_tmp = ZeroLockArg /\ dao_cell_owner = ZeroHash
    /\ inp = ZeroInp /\ sums = ZeroSums /\ utx = ZeroUTx
    /\ hash_state = <<>> /\ hashes = NoHashes
    /\ screen = NoScreen /\ reply = "none" /\ signature = NoSignature

Prologue ==
    \/ set_sign_path \/ set_change_path \/ init_bip32_rejects \/ set_input_count
    \/ computeNewOffsetsToHash \/ blake2b_chunk
Inputs ==
    \/ inputs_start \/ input_start \/ blake2b_input_count \/ input_save_index
    \/ input_context_start_idx \/ context_blake2b_chunk \/ finish_context_txn \/ finish_inputs
CellScripts ==
    \/ cell_capacity \/ cell_lock_code_hash \/ cell_script_hash_type
    \/ script_arg_start_input \/ script_arg_chunk \/ input_lock_arg_end
    \/ cell_type_code_hash \/ cell_type_arg_length
CellsData ==
    \/ set_cell_data_size \/ check_cell_data_data_chunk
    \/ finish_input_cell_data_dao \/ finish_input_cell_data_plain
Outputs ==
    \/ output_start \/ output_end \/ outputs_end
    \/ validate_output_data_start \/ finish_output_cell_data

(* The parser goes through the bytes it was given.                         *)
ParserStep ==
    \/ Prologue \/ Inputs \/ CellScripts \/ CellsData \/ InactiveCell \/ Outputs
    \/ finalize_raw_transaction \/ witnesses

Complete ==
    \/ complete_unmarked \/ complete_hard_reject
    \/ \E secure_only \in BOOLEAN : complete_unsafe(secure_only)
    \/ sign_complete

Next ==
    \/ first_chunk \/ ParserStep \/ chunk_refused \/ Complete
    \/ sign_ok \/ sign_reject \/ switch_contract_data

Spec == Init /\ [][Next]_vars

-----------------------------------------------------------------------------
(***************************************************************************)
(* Properties                                                              *)
(***************************************************************************)

Screen ==
    LET Dest == [script: {"sighash", "multisig"}, lock_arg: LockArg]
        Row == [capacity: Word, address: Dest]
    IN  {NoScreen}
        \cup [confirm: {"Transaction", "Self-Transfer"}, amount: Word, fee: Word,
              destination: Dest, contract: {"NOT_PRESENT", "UNKNOWN", "no row"}]
        \cup [confirm: {"Transaction (outputs)"}, amount: Word, fee: Word,
              outputs: {rows \in Seq(Row) : Len(rows) <= MAX_OUTPUTS}]
        \cup [confirm: {"Multi-Input Transaction"}, input: Nat \X Nat, source: StandardLockArg,
              amount: Word \X Word, fee: Word, destination: Dest]
        \cup [confirm: {"Deposit", "Prepare", "Withdrawal"}, deposit_amount: Word,
              fee_or_compensation: Word, owner: StandardLockArg]

(* Which vector a callback belongs to, and that the item it reads exists.  *)
HeadCallbacks == {"idle", "set_sign_path", "set_change_path", "set_input_count",
    "computeNewOffsetsToHash", "version_and_deps", "inputs_start"}
InputCallbacks == {"blake2b_input_count", "since", "input_save_index"}
CellCallbacks == {"cell_capacity", "cell_lock_code_hash", "lock_hash_type", "script_arg_chunk"}
TypeCallbacks == {"cell_type_code_hash", "type_hash_type", "cell_type_arg_length"}
SourceCallbacks == {"script_arg_start_input", "input_lock_arg_end"}
DataCallbacks == {"set_cell_data_size", "check_cell_data_data_chunk"}

Callbacks ==
    HeadCallbacks \cup InputCallbacks \cup CellCallbacks \cup TypeCallbacks \cup SourceCallbacks
    \cup DataCallbacks
    \cup {"input_start", "finish_inputs", "input_context_start_idx", "finish_input_cell_data",
          "context_blake2b_chunk", "finish_context_txn", "output_start", "output_end", "outputs",
          "outputs_end", "validate_output_data_start", "finish_output_cell_data", "outputs_data",
          "finalize_raw_transaction", "witnesses", "last_chunk", "refused", "review"}

InputHere == at.i < Len(tx.inputs)
AtInputs ==
    \/ at.cb \in HeadCallbacks /\ at.i = 0
    \/ at.cb = "input_start" /\ at.i <= Len(tx.inputs)
    \/ at.cb \in InputCallbacks /\ InputHere
    \/ at.cb = "finish_inputs"
AtSource ==
    /\ InputHere
    /\ \/ at.cb = "input_context_start_idx" /\ at.j <= Len(CellsRead)
       \/ at.cb \in CellCallbacks \cup SourceCallbacks /\ MoreItems
       \/ at.cb \in TypeCallbacks /\ MoreItems /\ HasType(cell)
AtSourceData ==
    /\ InputHere
    /\ \/ at.cb = "input_context_start_idx" /\ at.j <= Len(CellsRead)
       \/ at.cb \in DataCallbacks \cup {"finish_input_cell_data"} /\ MoreItems
       \/ at.cb \in {"context_blake2b_chunk", "finish_context_txn"}
AtOutputs ==
    \/ at.cb = "output_start" /\ at.j <= Len(CellsRead)
    \/ at.cb \in CellCallbacks \cup {"output_end"} /\ MoreItems
    \/ at.cb \in TypeCallbacks /\ MoreItems /\ HasType(cell)
    \/ at.cb \in {"outputs", "outputs_end"}
AtOutputsData ==
    \/ at.cb = "validate_output_data_start" /\ at.j <= Len(CellsRead)
    \/ at.cb \in DataCallbacks \cup {"finish_output_cell_data"} /\ MoreItems
    \/ at.cb \in {"outputs_data", "finalize_raw_transaction", "witnesses", "last_chunk"}

Vectors == {"none", "source", "source_data", "outputs", "outputs_data", "end"}
PositionOK ==
    /\ at \in [vec: Vectors, cb: Callbacks, i: Nat, j: Nat]
    /\ at.vec = "none" => AtInputs
    /\ at.vec = "source" => AtSource
    /\ at.vec = "source_data" => AtSourceData
    /\ at.vec = "outputs" => AtOutputs
    /\ at.vec = "outputs_data" => AtOutputsData
    /\ at.vec = "end" => at.cb \in {"refused", "review"}

(* The types of the C fields; the hashes are typed by what they must be in *)
(* ReviewIsFaithful.                                                       *)
FieldsOK ==
    /\ maybe_transaction \in MaybeTransaction
    /\ cell_state \in CellState
    /\ key \in [current: StandardLockArg, change: StandardLockArg]
    /\ lock_arg_cmp \in StandardLockArg /\ lock_arg_tmp \in LockArg
    /\ dao_cell_owner \in StandardLockArg
    /\ inp \in Inp
    /\ sums \in Sums
    /\ utx \in UTx

TypeOK ==
    /\ tx \in AnnotatedTransaction /\ PositionOK
    /\ contract_data_type \in {"ALLOW", "DISALLOW"} /\ allowed_since_first \in BOOLEAN
    /\ changes \in 0 .. MaxSettingChanges /\ sessions \in 0 .. MaxSessions
    /\ FieldsOK
    /\ screen \in Screen /\ reply \in Reply

(* The screen is faithful to an ordinary transaction, whatever the stream  *)
(* did, and the signature is over what was reviewed, with the key that was *)
(* asked for: this module implements TransactionReview.                    *)
phase ==
    IF at = Idle THEN "idle"
    ELSE IF at = Refused THEN "refused"
    ELSE IF at = Review THEN "review"
    ELSE "receiving"

Abstract == INSTANCE TransactionReview
ReviewIsFaithful == Abstract!Spec

(* The table of outputs on the screen accounts for plain_output_amount:    *)
(* the flag tells whether it has entries, entries beyond output_count are  *)
(* unused, and the capacities of the entries add up to the amount.  The    *)
(* exception is a self-transfer, whose amount is the change.               *)
OutputTableAddsUp ==
    ~utx.is_self_transfer =>
        /\ HasFlag("HAS_DESTINATION_ADDRESS") <=> utx.output_count > 0
        /\ \A s \in Slot : s >= utx.output_count => utx.outputs[s] = ZeroOutput
        /\ utx.plain_output_amount =
               Add(Add(Add(Add(utx.outputs[0].capacity, utx.outputs[1].capacity),
                           utx.outputs[2].capacity), utx.outputs[3].capacity),
                   utx.outputs[4].capacity)

(* The THROWs of output_end and outputs_end are for states that cannot be. *)
NoInternalError == reply \notin {"EXC_MEMORY_ERROR", "EXC_WRONG_PARAM"}

(* A transaction of the kinds the app is for is not turned down: other     *)
(* than for a stream that ends wrong, only an unsupported one is refused.  *)
SupportedNotRefused ==
    at = Refused /\ reply # "EXC_PARSE_ERROR" => ~Supported(tx)

(* With contract data disallowed during the whole parse, a transaction     *)
(* that reaches the review is made of standard cells only (ChangeLog.md,   *)
(* v0.5.0: custom scripts are for the in-app configuration to allow).      *)
StandardUnlessAllowed ==
    at = Review /\ ~allowed_since_first => Standard(tx)

(* The Contract row, when the setting puts it on the screen, reports       *)
(* contract data exactly when the transaction has some.                    *)
ContractRowTold ==
    at = Review /\ screen.confirm = "Transaction" /\ screen.contract # "no row"
        => (screen.contract = "UNKNOWN" <=> HasContractData(tx))

(* Whatever the locks, what becomes of the difference between the cells    *)
(* spent and the cells made is told: no capacity is lost between the       *)
(* branches that sort cells by lock, type and data.                        *)
FeeTold ==
    at = Review =>
        CASE screen.confirm = "Withdrawal" -> screen.fee_or_compensation = Negated(FeeOf(tx))
          [] screen.confirm \in {"Deposit", "Prepare"} -> screen.fee_or_compensation = FeeOf(tx)
          [] OTHER -> screen.fee = FeeOf(tx)

(* Once the host sends the rest of the stream, the parse comes to an end:  *)
(* the callbacks of every transaction lead to the decision.                *)
FairSpec == Spec /\ WF_vars(ParserStep) /\ WF_vars(Complete)
ParseEnds == Streaming ~> ~Streaming
=============================================================================
