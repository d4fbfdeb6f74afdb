-------------------------- MODULE TransactionViews --------------------------
(***************************************************************************)
(* A whole transaction at once: the cells it spends and creates, what it   *)
(* pays to whom, and when a screen of transaction signing is faithful to   *)
(* it.  Nothing here knows of the parser: a sum or a list over the cells   *)
(* is a function of how many of them it takes in, defined by recursion on  *)
(* that number.                                                            *)
(***************************************************************************)
EXTENDS CkbTransaction

(* The cells a transaction spends, by the number of the input.  The inputs *)
(* that refer to no output of their source spend nothing.                  *)
SpentAt(t) == {i \in DOMAIN t.inputs : t.inputs[i].index < Len(t.inputs[i].source)}
SpentCells(t) == [i \in SpentAt(t) |-> t.inputs[i].source[t.inputs[i].index + 1]]

(* The numbers of the DAO cells among cells numbered from 1, and of the    *)
(* others; cells is SpentCells(t) or t.outputs.                            *)
DaoCells(cells) == {n \in DOMAIN cells : IsDao(cells[n])}
PlainCells(cells) == {n \in DOMAIN cells : ~IsDao(cells[n])}
NoDao(t) == DaoCells(SpentCells(t)) = {} /\ DaoCells(t.outputs) = {}

(* The locks the lock scripts of the chain open: that of a key takes the   *)
(* hash of the key and nothing more, that of a multisig script its hash,   *)
(* alone or with a time lock.  What an unknown script does with its args   *)
(* nobody can tell: it pays to none of the user's keys.                    *)
KeyLock(c) ==
    c.lock.code_hash = "default" /\ c.lock.hash_type = "type" /\ c.lock.size = 20
MultisigLock(c) ==
    /\ c.lock.code_hash = "multisig" /\ c.lock.hash_type = "type"
    /\ c.lock.size = IF c.lock.args.lock_period = NoPeriod THEN 20 ELSE 28
IsKey(c, hash) == KeyLock(c) /\ c.lock.args.hash = hash

PaidToChange(t, c) == IsKey(c, t.changePath)
PaidToOthers(t) == {n \in PlainCells(t.outputs) : ~PaidToChange(t, t.outputs[n])}
DaoToChange(t) == \A n \in DaoCells(t.outputs) : PaidToChange(t, t.outputs[n])
SignedFor(t) == {i \in SpentAt(t) : IsKey(SpentCells(t)[i], t.signPath)}

(* The capacity of the cells whose numbers are in where, up to number n.   *)
Totals(cells, where) ==
    LET total[n \in Nat] ==
            IF n = 0 THEN 0
            ELSE IF n \in where THEN Add(total[n - 1], cells[n].capacity)
            ELSE total[n - 1]
    IN  total
TotalSpent(t, where) == Totals(SpentCells(t), where)[Len(t.inputs)]
TotalPaid(t, where) == Totals(t.outputs, where)[Len(t.outputs)]
FeeOf(t) == Minus(TotalSpent(t, SpentAt(t)), TotalPaid(t, DOMAIN t.outputs))

(* The address of a cell's lock: a time lock is part of a multisig address.*)
AddressOf(c) ==
    [script |-> IF KeyLock(c) THEN "sighash" ELSE IF MultisigLock(c) THEN "multisig" ELSE "other",
     lock_arg |-> c.lock.args]
ChangeAddress(t) ==
    [script |-> "sighash", lock_arg |-> [hash |-> t.changePath, lock_period |-> NoPeriod]]

(* The payments among the first n outputs: neighbours to one address are   *)
(* one row.                                                                *)
Pay(rows, c) ==
    IF rows # <<>> /\ rows[Len(rows)].address = AddressOf(c)
    THEN [rows EXCEPT ![Len(rows)].capacity = Add(@, c.capacity)]
    ELSE Append(rows, [capacity |-> c.capacity, address |-> AddressOf(c)])
PaymentsAmong(t) ==
    LET rows[n \in Nat] ==
            IF n = 0 THEN <<>>
            ELSE IF n \in PaidToOthers(t) THEN Pay(rows[n - 1], t.outputs[n])
            ELSE rows[n - 1]
    IN  rows
Payments(t) == PaymentsAmong(t)[Len(t.outputs)]

(* Spent cells next to each other with one hash are one source.  The       *)
(* number of sources among the first n inputs, with the hash of the last,  *)
(* is the number of the source that a cell spent by input n belongs to.    *)
SourcesAmong(t) ==
    LET sources[n \in Nat] ==
            IF n = 0 THEN [count |-> 0, hash |-> ZeroHash]
            ELSE IF n \notin SpentAt(t) THEN sources[n - 1]
            ELSE LET before == sources[n - 1]
                     hash == SpentCells(t)[n].lock.args.hash
                 IN  [count |-> IF hash = before.hash THEN before.count ELSE before.count + 1,
                      hash |-> hash]
    IN  sources
SourceOf(t, i) == SourcesAmong(t)[i].count
SourceCount(t) == SourceOf(t, Len(t.inputs))

(* Everything standard: known lock scripts, no type script but the DAO's,  *)
(* no data but the DAO's eight bytes.                                      *)
StandardCell(c) ==
    /\ c.lock.code_hash \in {"default", "multisig"} /\ c.lock.hash_type = "type"
    /\ HasType(c) => /\ IsDao(c) /\ c.type_.hash_type = "type" /\ c.type_.args = "empty"
    /\ c.data.size = IF IsDao(c) THEN 8 ELSE 0
HoldsContractData(c) == ~IsDao(c) /\ c.data.size > 0

Standard(t) ==
    /\ \A i \in SpentAt(t) : StandardCell(SpentCells(t)[i])
    /\ \A n \in DOMAIN t.outputs : StandardCell(t.outputs[n])
HasContractData(t) ==
    \/ \E i \in SpentAt(t) : HoldsContractData(SpentCells(t)[i])
    \/ \E n \in DOMAIN t.outputs : HoldsContractData(t.outputs[n])

-----------------------------------------------------------------------------
(* A screen is faithful when every row it has says what the transaction    *)
(* does.                                                                   *)

FaithfulTransfer(t, s) ==
    /\ NoDao(t)
    /\ s.fee = FeeOf(t)
    /\ s.amount = TotalPaid(t, PaidToOthers(t))
    /\ Len(Payments(t)) = 1
    /\ s.destination = Payments(t)[1].address

FaithfulSelfTransfer(t, s) ==
    /\ NoDao(t)
    /\ s.fee = FeeOf(t)
    /\ PaidToOthers(t) = {}
    /\ s.amount = TotalPaid(t, DOMAIN t.outputs)
    /\ s.destination = ChangeAddress(t)

FaithfulMultiOutput(t, s) ==
    /\ NoDao(t)
    /\ s.fee = FeeOf(t)
    /\ s.amount = TotalPaid(t, PaidToOthers(t))
    /\ s.outputs = Payments(t)
    /\ SourceCount(t) <= 1

(* All the cells the user signs for are in the source shown, and their sum *)
(* is the first amount.                                                    *)
FaithfulMultiInput(t, s) ==
    LET self == PaidToOthers(t) = {}
    IN  /\ NoDao(t)
        /\ s.fee = FeeOf(t)
        /\ s.source = t.signPath
        /\ s.input[2] = SourceCount(t) /\ SourceCount(t) > 1
        /\ SignedFor(t) # {}
        /\ \A i \in SignedFor(t) : s.input[1] = SourceOf(t, i)
        /\ s.amount[1] = TotalSpent(t, SignedFor(t))
        /\ s.amount[2] = TotalPaid(t, IF self THEN DOMAIN t.outputs ELSE PaidToOthers(t))
        /\ self => s.destination = ChangeAddress(t)
        /\ ~self => Len(Payments(t)) = 1 /\ s.destination = Payments(t)[1].address

(* DAO operations.  data.nonzero tells a withdrawing cell (it holds the    *)
(* number of the deposit's block) from a deposited one.                    *)
OnlyDao(cells, nonzero) ==
    \A n \in DaoCells(cells) : cells[n].data.size = 8 /\ cells[n].data.nonzero = nonzero

FaithfulDeposit(t, s) ==
    /\ DaoCells(SpentCells(t)) = {}
    /\ DaoCells(t.outputs) # {} /\ OnlyDao(t.outputs, FALSE)
    /\ s.deposit_amount = TotalPaid(t, DaoCells(t.outputs))
    /\ s.fee_or_compensation = FeeOf(t)
    /\ s.owner = t.changePath /\ DaoToChange(t)

FaithfulPrepare(t, s) ==
    /\ OnlyDao(SpentCells(t), FALSE) /\ OnlyDao(t.outputs, TRUE)
    /\ DaoCells(t.outputs) # {}
    /\ s.deposit_amount = TotalSpent(t, DaoCells(SpentCells(t)))
    /\ s.deposit_amount = TotalPaid(t, DaoCells(t.outputs))
    /\ s.fee_or_compensation = FeeOf(t)
    /\ s.owner = t.changePath /\ DaoToChange(t)

(* A withdrawal pays everything to the change path; the compensation is    *)
(* what comes out beyond what went in.                                     *)
FaithfulWithdrawal(t, s) ==
    LET dao == DaoCells(SpentCells(t))
    IN  /\ dao # {} /\ OnlyDao(SpentCells(t), TRUE)
        /\ s.deposit_amount = TotalSpent(t, dao)
        /\ s.fee_or_compensation = Negated(FeeOf(t))
        /\ \E i \in dao : IsKey(SpentCells(t)[i], s.owner)
        /\ PaidToOthers(t) = {} /\ DaoCells(t.outputs) = {}

Faithful(t, s) ==
    \/ s.confirm = "Transaction" /\ FaithfulTransfer(t, s)
    \/ s.confirm = "Self-Transfer" /\ FaithfulSelfTransfer(t, s)
    \/ s.confirm = "Transaction (outputs)" /\ FaithfulMultiOutput(t, s)
    \/ s.confirm = "Multi-Input Transaction" /\ FaithfulMultiInput(t, s)
    \/ s.confirm = "Deposit" /\ FaithfulDeposit(t, s)
    \/ s.confirm = "Prepare" /\ FaithfulPrepare(t, s)
    \/ s.confirm = "Withdrawal" /\ FaithfulWithdrawal(t, s)

(* A lock that is opened by a key or a multisig script, and is not taken   *)
(* for that of owner, a key, by its args: no script has the hash of a key, *)
(* and neither has that of twenty zeros.                                   *)
ProperLock(c, owner) ==
    /\ \/ KeyLock(c)
       \/ MultisigLock(c) /\ c.lock.args.hash # owner
    /\ c.lock.args.hash # ZeroHash
ProperLocks(t) ==
    /\ \A i \in SpentAt(t) : ProperLock(SpentCells(t)[i], t.signPath)
    /\ \A n \in DOMAIN t.outputs : ProperLock(t.outputs[n], t.changePath)
OwnersAreKeys(t) ==
    \A i \in DaoCells(SpentCells(t)) : SpentCells(t)[i].data.nonzero => KeyLock(SpentCells(t)[i])

(* The transactions the app is for: standard cells, what it signs for in   *)
(* one source, and one of the operations of prompts.md within its limits.  *)
Supported(t) ==
    LET spent == SpentCells(t)
        daoIn == DaoCells(spent)
        daoOut == DaoCells(t.outputs)
    IN  /\ SpentAt(t) = DOMAIN t.inputs /\ Standard(t) /\ ProperLocks(t)
        /\ \A i, k \in SignedFor(t) : SourceOf(t, i) = SourceOf(t, k)
        /\ \/ /\ NoDao(t)
              /\ SourceCount(t) = 1 /\ Len(Payments(t)) <= 5
           \/ /\ NoDao(t)
              /\ SourceCount(t) > 1 /\ Len(Payments(t)) <= 1 /\ SignedFor(t) # {}
              /\ \A i \in DOMAIN spent : spent[i].lock.code_hash = "default"
           \/ /\ daoIn = {} /\ daoOut # {} /\ OnlyDao(t.outputs, FALSE)
              /\ DaoToChange(t) /\ Len(Payments(t)) <= 1
           \/ /\ daoIn # {} /\ OnlyDao(spent, FALSE) /\ OnlyDao(t.outputs, TRUE)
              /\ DaoToChange(t) /\ Len(Payments(t)) <= 1
              /\ TotalSpent(t, daoIn) = TotalPaid(t, daoOut)
           \/ /\ daoIn # {} /\ OnlyDao(spent, TRUE) /\ daoOut = {}
              /\ OwnersAreKeys(t) /\ PaidToOthers(t) = {}

(* The transactions for which the parser's shortcuts make no difference to *)
(* the screen.  It compares the args of a lock as far as they go, and      *)
(* never asks whose script takes them; the owner of what is withdrawn      *)
(* shows as a key; an output joins the last row of the table by the hash   *)
(* of a multisig script, without its time lock; nonzero data of an output  *)
(* is not forgotten at the next one; totals are compared with zero.        *)
OneTimelock(t) ==
    \A m, n \in PaidToOthers(t) :
        LET a == t.outputs[m].lock
            b == t.outputs[n].lock
        IN  a.code_hash = "multisig" /\ b.code_hash = "multisig" /\ a.args.hash = b.args.hash => a.args = b.args
SeparateDaoData(t) ==
    \A m \in DOMAIN t.outputs, n \in DaoCells(t.outputs) :
        m < n /\ t.outputs[m].data.nonzero => t.outputs[n].data.nonzero
RealAmounts(t) ==
    /\ PaidToOthers(t) # {} => TotalPaid(t, PaidToOthers(t)) # 0
    /\ DaoCells(SpentCells(t)) # {} => TotalSpent(t, DaoCells(SpentCells(t))) # 0
Ordinary(t) ==
    /\ ProperLocks(t) /\ OwnersAreKeys(t)
    /\ OneTimelock(t) /\ SeparateDaoData(t) /\ RealAmounts(t)
=============================================================================
