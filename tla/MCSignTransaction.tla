-------------------------- MODULE MCSignTransaction --------------------------
(***************************************************************************)
(* Instances of SignTransaction: families of transactions.  The capacity   *)
(* of a cell is given by its position (powers of two in the outputs, so    *)
(* that no two sets of outputs have the same sum), its other fields by its *)
(* kind.                                                                   *)
(***************************************************************************)
EXTENDS SignTransaction

CONSTANTS me, change, alice, bob, wallet    \* hashes: keys, and wallet of a multisig script
CONSTANTS stem                              \* the ten bytes me and change begin with, and ten zeros
CONSTANTS timelock, beginning               \* periods, the second what a key's hash begins with

(* Of the bytes of two args: the first ten tell all hashes apart but me,   *)
(* change and stem, the next ten those, and the first of a period all      *)
(* periods.                                                                *)
BytesOf(arg, n) ==
    IF n = 0 THEN <<>>
    ELSE IF n <= 10 /\ arg.hash \in {me, change} THEN <<stem>>
    ELSE IF n <= 20 THEN <<arg.hash>>
    ELSE <<arg.hash, arg.lock_period>>
PeriodOf(hash) == IF hash = ZeroHash THEN NoPeriod ELSE beginning

Lock(code_hash, h, period, size) ==
    [code_hash |-> code_hash, hash_type |-> "type", size |-> size,
     args |-> [hash |-> h, lock_period |-> period]]
Sig(h) == Lock("default", h, NoPeriod, 20)
Multi(p) == Lock("multisig", wallet, p, IF p = NoPeriod THEN 20 ELSE 28)
NoType == [code_hash |-> "absent", hash_type |-> "type", args |-> "empty"]
Dao == [code_hash |-> "dao", hash_type |-> "type", args |-> "empty"]
NoData == [size |-> 0, nonzero |-> FALSE]
Bytes8(nonzero) == [size |-> 8, nonzero |-> nonzero]

Plain(lock) == [capacity |-> 0, lock |-> lock, type_ |-> NoType, data |-> NoData]
DaoCell(lock, nonzero) == [Plain(lock) EXCEPT !.type_ = Dao, !.data = Bytes8(nonzero)]
WithData(c, size) == [c EXCEPT !.data = [size |-> size, nonzero |-> TRUE]]

Sequences(S, lengths) == UNION {[1 .. n -> S] : n \in lengths}

(* Capacities by position.                                                 *)
Spent(c, i) == [c EXCEPT !.capacity = 32 + 3 * i]
Outs(cells) == [i \in DOMAIN cells |-> [cells[i] EXCEPT !.capacity = 2 ^ (i - 1)]]

(* An input whose source has one cell, the one it spends; and the head of  *)
(* a transaction the command-line tool would build.                        *)
Single(c, i) == [index |-> 0, source |-> <<Spent(c, i)>>]
Ins(cells) == [i \in DOMAIN cells |-> Single(cells[i], i)]
Honest(ins, outs, changePath) ==
    [signPath |-> me, changePath |-> changePath, pathsFit |-> TRUE,
     inputCount |-> Len(ins), inputs |-> ins, outputs |-> outs]

(* Every combination of inputs and outputs of the given kinds and numbers. *)
Family(inKinds, inLengths, outKinds, outLengths, changePaths) ==
    {Honest(Ins(ins), Outs(outs), p) :
        ins \in Sequences(inKinds, inLengths), outs \in Sequences(outKinds, outLengths),
        p \in changePaths}

-----------------------------------------------------------------------------
(* Transfers: from the signer, another owner and a multisig wallet; to the *)
(* change path, a stranger and the wallet.                                 *)
InKinds == {Plain(Sig(me)), Plain(Sig(bob)), Plain(Multi(NoPeriod))}
OutKinds == {Plain(Sig(change)), Plain(Sig(alice)), Plain(Multi(NoPeriod))}
Transfers ==
    Family(InKinds, 1 .. 2, OutKinds, 1 .. 2, {change})
    \cup Family(InKinds, {3}, OutKinds, {1}, {change})
    \cup Family(InKinds, {1}, OutKinds, {3}, {change})
    \cup Family({Plain(Sig(me))}, 1 .. 2, {Plain(Sig(me)), Plain(Sig(alice))}, {2}, {me})

(* Up to six payments, for the table of five, and change anywhere between. *)
SixRows == [i \in 1 .. 6 |-> Plain(IF i % 2 = 1 THEN Sig(alice) ELSE Multi(timelock))]
ManyOutputs ==
    Family({Plain(Sig(me))}, {1}, {Plain(Sig(alice)), Plain(Multi(timelock))}, 5 .. 6, {change})
    \cup {Honest(Ins(<<Plain(Sig(me))>>),
                 Outs(SubSeq(SixRows, 1, k) \o <<Plain(Sig(change))>> \o SubSeq(SixRows, k + 1, last)), change) :
            k \in 0 .. 5, last \in 5 .. 6}
    \cup Family({Plain(Sig(me))}, {1},
                {Plain(Sig(alice)), Plain(Sig(bob)), Plain(Sig(change))}, {4}, {change})

(* Deposits, prepares, withdrawals and their mixtures.                     *)
OwnKinds == {Plain(Sig(me)), DaoCell(Sig(me), FALSE), DaoCell(Sig(me), TRUE)}
SpentKinds == OwnKinds \cup {DaoCell(Sig(bob), TRUE)}
MadeKinds == OwnKinds \cup {Plain(Sig(alice)), DaoCell(Sig(alice), FALSE)}
DaoOperations ==
    Family(SpentKinds, 1 .. 2, MadeKinds, {1}, {me})
    \cup Family(SpentKinds, {1}, MadeKinds, {2}, {me})
    \cup Family(OwnKinds, {2}, OwnKinds, {2}, {me})
    \cup {[t EXCEPT !.outputs[1].capacity = t.inputs[1].source[1].capacity] :
            t \in Family({DaoCell(Sig(me), FALSE)}, 1 .. 2,
                         {DaoCell(Sig(me), TRUE), Plain(Sig(me))}, 1 .. 2, {me})}
    \cup Family({DaoCell(Sig(me), TRUE), Plain(Sig(me))}, {3}, {Plain(Sig(me))}, {1}, {me})

(* Locks, types and data that are not standard.                            *)
CustomLock(h) == [Sig(h) EXCEPT !.code_hash = "other"]
Custom(h) ==
    {Plain(Sig(h)), Plain(CustomLock(h)), Plain([Sig(h) EXCEPT !.hash_type = "other"]),
     [Plain(Sig(h)) EXCEPT !.type_.code_hash = "other"],
     [DaoCell(Sig(h), FALSE) EXCEPT !.type_.args = "nonempty"],
     [DaoCell(Sig(h), FALSE) EXCEPT !.type_.hash_type = "other"],
     WithData(Plain(Sig(h)), 1), WithData(Plain(Sig(h)), 16)}
Contracts ==
    Family(Custom(me), {1}, Custom(alice) \cup Custom(change), {1}, {change})
    \cup Family({Plain(Sig(me))}, {1},
                {Plain(Sig(alice)), WithData(Plain(Sig(alice)), 8), DaoCell(Sig(change), FALSE)},
                {2}, {change})

(* Which output of the source an input spends.                             *)
Sources ==
    LET kinds == {Plain(Sig(me)), Plain(Sig(bob)), DaoCell(Sig(me), TRUE)}
        inputs == {[index |-> n, source |-> [i \in 1 .. 2 |-> Spent(cells[i], i)]] :
                      n \in 0 .. 2, cells \in [1 .. 2 -> kinds]}
    IN  {Honest(<<in>>, Outs(<<Plain(Sig(change))>>), change) : in \in inputs}
        \cup {Honest(<<in, Single(Plain(Sig(me)), 3)>>, Outs(<<Plain(Sig(alice))>>), change) : in \in inputs}

(* Args of another length than the scripts take: none, ten bytes, 28 that  *)
(* go on as the memory behind the hash they are compared with, or not, and *)
(* more than fit; and a multisig script with the hash of a key.            *)
OddLocks(h) ==
    {Lock("default", ZeroHash, NoPeriod, 0), Lock("default", stem, NoPeriod, 10)}
    \cup {Lock("default", h, p, 28) : p \in Periods}
    \cup {Lock("default", h, timelock, 29), Lock("multisig", wallet, NoPeriod, 28),
          Lock("multisig", h, NoPeriod, 20)}
OddArgs ==
    Family({Plain(lock) : lock \in OddLocks(me)}, {1}, {Plain(Sig(alice)), Plain(Sig(change))}, {1}, {change})
    \cup Family({Plain(Sig(me))}, {1}, {Plain(lock) : lock \in OddLocks(change)}, 1 .. 2, {change})
    \cup Family({DaoCell(Sig(me), FALSE)}, {1},
                {DaoCell(lock, FALSE) : lock \in OddLocks(change)} \cup {DaoCell(Sig(change), TRUE)},
                {2}, {change})
    \cup Family({DaoCell(Multi(timelock), TRUE)}, {1}, {Plain(Sig(change))}, {1}, {change})
    \cup {Honest(Ins(ins), Outs(<<Plain(Sig(alice))>>), change) :
            ins \in {<<Plain(late), Plain(Sig(me)), Plain(Sig(bob))>> : late \in OddLocks(me)}
                   \cup {<<Plain(Sig(bob)), Plain(late), Plain(Sig(me))>> : late \in OddLocks(me)}}

(* Of known scripts with the args they take, then the others, some of      *)
(* which the setting must allow.                                           *)
Reviews == Transfers \cup ManyOutputs \cup DaoOperations \cup Sources
AllReviews == Reviews \cup OddArgs \cup Contracts

(* What the app is for is ordinary.                                        *)
ASSUME OrdinaryAssumption == \A t \in AllReviews : Supported(t) => Ordinary(t)

(* A few transactions of each kind, for several sessions in a row: also    *)
(* a miscounted one and one with a path too long.                          *)
Payment == Honest(Ins(<<Plain(Sig(me))>>), Outs(<<Plain(Sig(alice)), Plain(Sig(change))>>), change)
Various ==
    {Payment,
     [Payment EXCEPT !.inputCount = 2],
     [Payment EXCEPT !.pathsFit = FALSE],
     Honest(Ins(<<Plain(Sig(bob)), Plain(Sig(me))>>), Outs(<<Plain(Sig(alice))>>), change),
     Honest(Ins(<<Plain(Sig(me))>>), Outs(<<Plain(Sig(alice)), Plain(Sig(bob))>>), change),
     Honest(Ins(<<DaoCell(Sig(me), TRUE)>>), Outs(<<Plain(Sig(me))>>), me),
     Honest(Ins(<<Plain(Sig(me))>>), Outs(<<DaoCell(Sig(me), FALSE)>>), me),
     Honest(Ins(<<Plain(Sig(me))>>), Outs(<<WithData(Plain(Sig(alice)), 1)>>), me)}
=============================================================================
