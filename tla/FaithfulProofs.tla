---------------------------- MODULE FaithfulProofs ----------------------------
(***************************************************************************)
(* Proofs that SignTransaction implements TransactionReview: the amounts,  *)
(* the rows, the source and the operation that the device computes one     *)
(* callback at a time are those of the whole transaction.                  *)
(***************************************************************************)
EXTENDS VerdictProofs, WellFoundedInduction

-----------------------------------------------------------------------------
(* The views of a transaction are recursive functions: that they satisfy   *)
(* their equations takes that a recursion has a solution, which takes      *)
(* induction over a set of numbers.                                        *)

LEMMA NatWellFounded == IsWellFoundedOn({ss \in Nat \X Nat : ss[1] < ss[2]}, Nat)
  BY NatLessThanWellFounded, Zenon DEF OpToRel

LEMMA Least ==
    ASSUME NEW T, T \subseteq Nat, T # {}
    PROVE  \E x \in T : \A y \in T : x <= y
  <1> DEFINE R == {ss \in Nat \X Nat : ss[1] < ss[2]}
  <1>1. IsWellFoundedOn(R, Nat)
    BY NatWellFounded
  <1> HIDE DEF R
  <1>2. \E x \in T : \A y \in T : ~ (<<y, x>> \in R)
    BY <1>1, WFMin
  <1>3. PICK x \in T : \A y \in T : ~ (<<y, x>> \in R)
    BY <1>2
  <1>4. ASSUME NEW y \in T PROVE x <= y
    <2>1. ~ (<<y, x>> \in R) /\ x \in Nat /\ y \in Nat
      BY <1>3
    <2>2. ~ (y < x)
      BY <2>1 DEF R
    <2> QED BY <2>1, <2>2
  <1> QED BY <1>4

LEMMA Induction ==
    ASSUME NEW S, 0 \in S, \A n \in Nat : n \in S => n + 1 \in S
    PROVE  \A n \in Nat : n \in S
  <1> SUFFICES ASSUME Nat \ S # {} PROVE FALSE
    OBVIOUS
  <1>1. PICK x \in Nat \ S : \A y \in Nat \ S : x <= y
    BY Least
  <1>2. x # 0 /\ x - 1 \in Nat /\ x - 1 \in S
    BY <1>1
  <1> QED BY <1>1, <1>2

(* A value for every number, from the one before it.                       *)
Solves(g, V, a, step) ==
    g \in [Nat -> V] /\ g[0] = a /\ \A n \in Nat : g[n + 1] = step[n + 1][g[n]]

LEMMA Recursion ==
    ASSUME NEW V, NEW a \in V, NEW step \in [Nat -> [V -> V]]
    PROVE  \E g : Solves(g, V, a, step)
  <1> DEFINE Good(m, g) == g[0] = a /\ \A n \in 1 .. m : g[n] = step[n][g[n - 1]]
             S == {m \in Nat : \E g \in [0 .. m -> V] : Good(m, g)}
             U == {m \in Nat : \A k \in Nat : \A g \in [0 .. m -> V], h \in [0 .. k -> V] :
                                   m <= k /\ Good(m, g) /\ Good(k, h) => g[m] = h[m]}
  <1>1. 0 \in S
    <2>1. [n \in 0 .. 0 |-> a] \in [0 .. 0 -> V] /\ Good(0, [n \in 0 .. 0 |-> a])
      OBVIOUS
    <2> QED BY <2>1
  <1>2. ASSUME NEW m \in Nat, m \in S PROVE m + 1 \in S
    <2>1. PICK g \in [0 .. m -> V] : Good(m, g)
      BY <1>2
    <2> DEFINE h == [n \in 0 .. m + 1 |-> IF n = m + 1 THEN step[n][g[n - 1]] ELSE g[n]]
    <2>2. h \in [0 .. m + 1 -> V]
      OBVIOUS
    <2>3. Good(m + 1, h)
      BY <2>1
    <2> HIDE DEF Good, h
    <2> QED BY <2>2, <2>3
  <1>3. \A m \in Nat : m \in S
    <2> HIDE DEF S
    <2> QED BY <1>1, <1>2, Induction
  <1>4. 0 \in U
    OBVIOUS
  <1>5. ASSUME NEW m \in Nat, m \in U PROVE m + 1 \in U
    <2>1. ASSUME NEW k \in Nat, NEW g \in [0 .. m + 1 -> V], NEW h \in [0 .. k -> V],
                 m + 1 <= k, Good(m + 1, g), Good(k, h)
          PROVE  g[m + 1] = h[m + 1]
      <3> DEFINE f == [n \in 0 .. m |-> g[n]]
      <3>1. f \in [0 .. m -> V] /\ f[m] = g[m] /\ Good(m, f)
        BY <2>1
      <3>2. m <= k
        BY <2>1
      <3>3. f[m] = h[m]
        <4> HIDE DEF Good, f
        <4> QED BY <1>5, <2>1, <3>1, <3>2
      <3>4. g[m + 1] = step[m + 1][g[m]] /\ h[m + 1] = step[m + 1][h[m]]
        <4>1. m + 1 \in 1 .. m + 1 /\ m + 1 \in 1 .. k /\ (m + 1) - 1 = m
          BY <2>1
        <4> QED BY <2>1, <4>1
      <3> QED BY <3>1, <3>3, <3>4
    <2> HIDE DEF Good
    <2> QED BY <2>1
  <1>6. \A m \in Nat : m \in U
    <2> HIDE DEF U
    <2> QED BY <1>4, <1>5, Induction
  <1> DEFINE upto == [m \in Nat |-> CHOOSE g \in [0 .. m -> V] : Good(m, g)]
             all == [m \in Nat |-> upto[m][m]]
  <1>7. ASSUME NEW m \in Nat PROVE upto[m] \in [0 .. m -> V] /\ Good(m, upto[m])
    <2>1. \E g \in [0 .. m -> V] : Good(m, g)
      BY <1>3
    <2> HIDE DEF Good
    <2> QED BY <2>1
  <1> HIDE DEF upto
  <1>8. all \in [Nat -> V] /\ all[0] = a
    BY <1>7
  <1>9. ASSUME NEW m \in Nat PROVE all[m + 1] = step[m + 1][all[m]]
    <2>1. upto[m][m] = upto[m + 1][m]
      <3>1. m + 1 \in Nat /\ m <= m + 1
        OBVIOUS
      <3>2. upto[m + 1] \in [0 .. m + 1 -> V] /\ Good(m + 1, upto[m + 1])
        BY <1>7, <3>1
      <3> HIDE DEF Good
      <3> QED BY <1>6, <1>7, <3>1, <3>2
    <2>2. upto[m + 1][m + 1] = step[m + 1][upto[m + 1][m]]
      BY <1>7
    <2> QED BY <2>1, <2>2
  <1> QED BY <1>8, <1>9 DEF Solves

-----------------------------------------------------------------------------
(* The equations of the views.                                             *)

(* Totals: the capacities of the cells in where, modulo WORD.              *)
Amounts(cells, where) == \A n \in Nat : n \in where => cells[n].capacity \in Word

IsTotals(total, cells, where) ==
    /\ \A n \in Nat : total[n] \in Word
    /\ total[0] = 0
    /\ \A n \in Nat : total[n + 1] =
            IF n + 1 \in where THEN Add(total[n], cells[n + 1].capacity) ELSE total[n]

LEMMA TotalsIs ==
    ASSUME NEW cells, NEW where, Amounts(cells, where)
    PROVE  IsTotals(Totals(cells, where), cells, where)
  <1> DEFINE F(g, n) == IF n = 0 THEN 0
                        ELSE IF n \in where THEN Add(g[n - 1], cells[n].capacity)
                        ELSE g[n - 1]
             step == [n \in Nat |-> [v \in Word |-> IF n \in where THEN Add(v, cells[n].capacity) ELSE v]]
  <1>1. step \in [Nat -> [Word -> Word]] /\ 0 \in Word
    BY WordClosed, AddZero DEF Amounts
  <1>2. PICK g : Solves(g, Word, 0, step)
    <2> HIDE DEF step, F
    <2> QED BY <1>1, Recursion
  <1>3. g = [n \in Nat |-> F(g, n)]
    <2>1. ASSUME NEW n \in Nat PROVE g[n] = F(g, n)
      <3>1. CASE n = 0
        BY <1>2, <3>1 DEF Solves
      <3>2. CASE n # 0
        <4>1. n - 1 \in Nat /\ (n - 1) + 1 = n
          BY <3>2
        <4>2. g[n] = step[n][g[n - 1]] /\ g[n - 1] \in Word
          BY <1>2, <4>1 DEF Solves
        <4> QED BY <3>2, <4>2
      <3> QED BY <3>1, <3>2
    <2>2. g \in [Nat -> Word]
      BY <1>2 DEF Solves
    <2> HIDE DEF F
    <2> QED BY <2>1, <2>2
  <1> DEFINE T == Totals(cells, where)
  <1>4. T = [n \in Nat |-> F(T, n)]
    <2>1. T = CHOOSE f : f = [n \in Nat |-> F(f, n)]
      BY DEF Totals
    <2> HIDE DEF F, T
    <2> QED BY <1>3, <2>1
  <1>5. \A n \in Nat : T[n] = F(T, n)
    <2> HIDE DEF F, T
    <2> QED BY <1>4
  <1> HIDE DEF T
  <1>6. T[0] = 0
    BY <1>5
  <1>7. \A n \in Nat : T[n + 1] = IF n + 1 \in where THEN Add(T[n], cells[n + 1].capacity) ELSE T[n]
    BY <1>5
  <1>8. \A n \in Nat : T[n] \in Word
    <2> DEFINE S == {n \in Nat : T[n] \in Word}
    <2>1. 0 \in S
      BY <1>1, <1>6
    <2>2. \A n \in Nat : n \in S => n + 1 \in S
      BY <1>7, WordClosed DEF Amounts
    <2> HIDE DEF S
    <2>3. \A n \in Nat : n \in S
      BY <2>1, <2>2, Induction
    <2> QED BY <2>3 DEF S
  <1> QED BY <1>6, <1>7, <1>8 DEF T, IsTotals

(* Two disjoint sets of cells add up, and only the cells up to n count.    *)
LEMMA TotalsSplit ==
    ASSUME NEW cells, NEW A, NEW B, A \cap B = {}, Amounts(cells, A \cup B)
    PROVE  \A n \in Nat : Totals(cells, A \cup B)[n] = Add(Totals(cells, A)[n], Totals(cells, B)[n])
  <1> DEFINE TA == Totals(cells, A)
             TB == Totals(cells, B)
             T == Totals(cells, A \cup B)
             S == {n \in Nat : T[n] = Add(TA[n], TB[n])}
  <1>1. Amounts(cells, A) /\ Amounts(cells, B)
    BY DEF Amounts
  <1>2. IsTotals(TA, cells, A) /\ IsTotals(TB, cells, B) /\ IsTotals(T, cells, A \cup B)
    BY <1>1, TotalsIs
  <1> HIDE DEF TA, TB, T
  <1>3. 0 \in S
    BY <1>2, AddZero DEF IsTotals
  <1>4. ASSUME NEW n \in Nat, n \in S PROVE n + 1 \in S
    <2>1. T[n] = Add(TA[n], TB[n]) /\ n + 1 \in Nat
      BY <1>4
    <2>2. CASE n + 1 \in A
      <3>1. n + 1 \notin B /\ cells[n + 1].capacity \in Word
        BY <1>1, <2>1, <2>2 DEF Amounts
      <3>2. T[n + 1] = Add(Add(TA[n], TB[n]), cells[n + 1].capacity)
            /\ TA[n + 1] = Add(TA[n], cells[n + 1].capacity) /\ TB[n + 1] = TB[n]
        BY <1>2, <2>1, <2>2, <3>1 DEF IsTotals
      <3> QED BY <1>2, <2>1, <3>1, <3>2, AddSwap DEF IsTotals
    <2>3. CASE n + 1 \in B
      <3>1. n + 1 \notin A /\ cells[n + 1].capacity \in Word
        BY <1>1, <2>1, <2>3 DEF Amounts
      <3>2. T[n + 1] = Add(Add(TA[n], TB[n]), cells[n + 1].capacity)
            /\ TB[n + 1] = Add(TB[n], cells[n + 1].capacity) /\ TA[n + 1] = TA[n]
        BY <1>2, <2>1, <2>3, <3>1 DEF IsTotals
      <3> QED BY <1>2, <2>1, <3>1, <3>2, AddSwap DEF IsTotals
    <2>4. CASE n + 1 \notin A \cup B
      BY <1>2, <2>1, <2>4 DEF IsTotals
    <2> QED BY <2>2, <2>3, <2>4
  <1> HIDE DEF S
  <1>5. \A n \in Nat : n \in S
    BY <1>3, <1>4, Induction
  <1> QED BY <1>5 DEF S, T, TA, TB

LEMMA TotalsNone ==
    ASSUME NEW cells, NEW where, NEW n \in Nat, \A m \in 1 .. n : m \notin where,
           Amounts(cells, where)
    PROVE  Totals(cells, where)[n] = 0
  <1> DEFINE T == Totals(cells, where)
             S == {m \in Nat : m <= n => T[m] = 0}
  <1>1. T[0] = 0 /\ \A m \in Nat : T[m + 1] = IF m + 1 \in where THEN Add(T[m], cells[m + 1].capacity) ELSE T[m]
    BY TotalsIs DEF IsTotals
  <1> HIDE DEF T
  <1>2. 0 \in S
    BY <1>1
  <1>3. ASSUME NEW m \in Nat, m \in S PROVE m + 1 \in S
    BY <1>1, <1>3
  <1> HIDE DEF S
  <1>4. \A m \in Nat : m \in S
    BY <1>2, <1>3, Induction
  <1> QED BY <1>4 DEF S, T

(* PaymentsAmong: the outputs to others, neighbours to one address joined. *)
Destination == [script: {"sighash", "multisig", "other"}, lock_arg: LockArg]
PaymentRow == [capacity: Word, address: Destination]

LEMMA PayOK ==
    ASSUME NEW rows \in Seq(PaymentRow), NEW c \in Cell
    PROVE  /\ Pay(rows, c) \in Seq(PaymentRow)
           /\ Len(Pay(rows, c)) \in {Len(rows), Len(rows) + 1} /\ Pay(rows, c) # <<>>
           /\ rows[Len(rows)].address # AddressOf(c) \/ rows = <<>> =>
                Pay(rows, c) = Append(rows, [capacity |-> c.capacity, address |-> AddressOf(c)])
  <1>1. AddressOf(c) \in Destination /\ c.capacity \in Word
    BY CellFields DEF AddressOf, Destination
  <1>2. CASE rows # <<>> /\ rows[Len(rows)].address = AddressOf(c)
    <2>1. Len(rows) \in DOMAIN rows /\ rows[Len(rows)] \in PaymentRow
      BY <1>2
    <2>2. Add(rows[Len(rows)].capacity, c.capacity) \in Word
      BY <1>1, <2>1, WordClosed DEF PaymentRow
    <2>3. Pay(rows, c) = [rows EXCEPT ![Len(rows)].capacity = Add(@, c.capacity)]
      BY <1>2 DEF Pay
    <2>4. [rows[Len(rows)] EXCEPT !.capacity = Add(@, c.capacity)] \in PaymentRow
      BY <2>1, <2>2 DEF PaymentRow
    <2> QED BY <1>2, <2>1, <2>3, <2>4
  <1>3. CASE ~(rows # <<>> /\ rows[Len(rows)].address = AddressOf(c))
    <2>1. [capacity |-> c.capacity, address |-> AddressOf(c)] \in PaymentRow
      BY <1>1 DEF PaymentRow
    <2> QED BY <1>3, <2>1 DEF Pay
  <1> QED BY <1>2, <1>3

IsPayments(rows, t) ==
    /\ \A n \in Nat : rows[n] \in Seq(PaymentRow)
    /\ rows[0] = <<>>
    /\ \A n \in Nat : rows[n + 1] =
            IF n + 1 \in PaidToOthers(t) THEN Pay(rows[n], t.outputs[n + 1]) ELSE rows[n]

LEMMA PaymentsIs ==
    ASSUME NEW t \in AnnotatedTransaction
    PROVE  IsPayments(PaymentsAmong(t), t)
  <1> DEFINE F(g, n) == IF n = 0 THEN <<>>
                        ELSE IF n \in PaidToOthers(t) THEN Pay(g[n - 1], t.outputs[n])
                        ELSE g[n - 1]
             V == Seq(PaymentRow)
             step == [n \in Nat |-> [v \in V |-> IF n \in PaidToOthers(t) THEN Pay(v, t.outputs[n]) ELSE v]]
  <1>0. \A n \in PaidToOthers(t) : t.outputs[n] \in Cell
    BY DEF PaidToOthers, PlainCells, AnnotatedTransaction, NonEmptySeq
  <1>1. step \in [Nat -> [V -> V]] /\ <<>> \in V
    <2>1. \A v \in V, n \in PaidToOthers(t) : Pay(v, t.outputs[n]) \in V
      BY <1>0, PayOK
    <2> HIDE DEF V
    <2>2. \A n \in Nat : [v \in V |-> IF n \in PaidToOthers(t) THEN Pay(v, t.outputs[n]) ELSE v] \in [V -> V]
      BY <2>1
    <2> QED BY <2>2 DEF V
  <1>2. PICK g : Solves(g, V, <<>>, step)
    <2> HIDE DEF step, F, V
    <2> QED BY <1>1, Recursion
  <1>3. g = [n \in Nat |-> F(g, n)]
    <2>1. ASSUME NEW n \in Nat PROVE g[n] = F(g, n)
      <3>1. CASE n = 0
        BY <1>2, <3>1 DEF Solves
      <3>2. CASE n # 0
        <4>1. n - 1 \in Nat /\ (n - 1) + 1 = n
          BY <3>2
        <4> HIDE DEF V
        <4>2. g[n] = step[n][g[n - 1]] /\ g[n - 1] \in V
          <5> HIDE DEF step
          <5> QED BY <1>2, <4>1 DEF Solves
        <4> QED BY <3>2, <4>2
      <3> QED BY <3>1, <3>2
    <2>2. g \in [Nat -> V]
      BY <1>2 DEF Solves
    <2> HIDE DEF F, V
    <2> QED BY <2>1, <2>2
  <1> DEFINE T == PaymentsAmong(t)
  <1>4. T = [n \in Nat |-> F(T, n)]
    <2>1. T = CHOOSE f : f = [n \in Nat |-> F(f, n)]
      BY DEF PaymentsAmong
    <2> HIDE DEF F, T
    <2> QED BY <1>3, <2>1
  <1>5. \A n \in Nat : T[n] = F(T, n)
    <2> HIDE DEF F, T
    <2> QED BY <1>4
  <1> HIDE DEF T, V
  <1>6. T[0] = <<>>
    BY <1>5
  <1>7. \A n \in Nat : T[n + 1] = IF n + 1 \in PaidToOthers(t) THEN Pay(T[n], t.outputs[n + 1]) ELSE T[n]
    BY <1>5
  <1>8. \A n \in Nat : T[n] \in V
    <2> DEFINE S == {n \in Nat : T[n] \in V}
    <2>1. 0 \in S
      BY <1>1, <1>6
    <2>2. \A n \in Nat : n \in S => n + 1 \in S
      <3>1. \A v \in V, n \in PaidToOthers(t) : Pay(v, t.outputs[n]) \in V
        BY <1>0, PayOK DEF V
      <3> QED BY <1>7, <3>1
    <2> HIDE DEF S
    <2>3. \A n \in Nat : n \in S
      BY <2>1, <2>2, Induction
    <2> QED BY <2>3 DEF S
  <1> QED BY <1>6, <1>7, <1>8 DEF T, V, IsPayments

(* SourcesAmong: the spent cells next to each other with one hash.         *)
SourceCounted == [count: Nat, hash: StandardLockArg]
NextSource(before, hash) ==
    [count |-> IF hash = before.hash THEN before.count ELSE before.count + 1, hash |-> hash]
IsSources(sources, t) ==
    /\ \A n \in Nat : sources[n] \in SourceCounted
    /\ sources[0] = [count |-> 0, hash |-> ZeroHash]
    /\ \A n \in Nat : sources[n + 1] =
            IF n + 1 \in SpentAt(t) THEN NextSource(sources[n], SpentCells(t)[n + 1].lock.args.hash)
            ELSE sources[n]

LEMMA SpentOK ==
    ASSUME NEW t \in AnnotatedTransaction
    PROVE  /\ SpentAt(t) \subseteq 1 .. Len(t.inputs) /\ Len(t.inputs) \in Nat /\ DOMAIN t.inputs = 1 .. Len(t.inputs)
           /\ DOMAIN SpentCells(t) = SpentAt(t)
           /\ \A i \in SpentAt(t) : SpentCells(t)[i] \in Cell
  <1>1. t.inputs \in Seq(AnnotatedInput) /\ Len(t.inputs) \in Nat
    BY DEF AnnotatedTransaction, NonEmptySeq
  <1>2. ASSUME NEW i \in SpentAt(t) PROVE SpentCells(t)[i] \in Cell
    <2>1. t.inputs[i] \in AnnotatedInput /\ t.inputs[i].index < Len(t.inputs[i].source)
      BY <1>1 DEF SpentAt
    <2>2. t.inputs[i].index \in Nat /\ t.inputs[i].source \in Seq(Cell)
      BY <2>1 DEF AnnotatedInput, NonEmptySeq
    <2> QED BY <2>1, <2>2 DEF SpentCells
  <1> QED BY <1>1, <1>2 DEF SpentAt, SpentCells

LEMMA SourcesIs ==
    ASSUME NEW t \in AnnotatedTransaction
    PROVE  IsSources(SourcesAmong(t), t)
  <1> DEFINE Hash(n) == SpentCells(t)[n].lock.args.hash
             F(g, n) == IF n = 0 THEN [count |-> 0, hash |-> ZeroHash]
                        ELSE IF n \notin SpentAt(t) THEN g[n - 1]
                        ELSE [count |-> IF Hash(n) = g[n - 1].hash THEN g[n - 1].count ELSE g[n - 1].count + 1,
                              hash |-> Hash(n)]
             V == SourceCounted
             step == [n \in Nat |-> [v \in V |-> IF n \in SpentAt(t) THEN NextSource(v, Hash(n)) ELSE v]]
  <1>0. \A n \in SpentAt(t) : Hash(n) \in StandardLockArg
    BY SpentOK DEF Cell, LockScript, LockArg
  <1>1. /\ \A v \in V, n \in SpentAt(t) : NextSource(v, Hash(n)) \in V
        /\ [count |-> 0, hash |-> ZeroHash] \in V
    <2> HIDE DEF Hash
    <2> QED BY <1>0 DEF SourceCounted, NextSource, StandardLockArg
  <1> HIDE DEF V
  <1>2. step \in [Nat -> [V -> V]]
    <2>1. \A n \in Nat : [v \in V |-> IF n \in SpentAt(t) THEN NextSource(v, Hash(n)) ELSE v] \in [V -> V]
      BY <1>1
    <2> QED BY <2>1
  <1>3. PICK g : Solves(g, V, [count |-> 0, hash |-> ZeroHash], step)
    <2> HIDE DEF step, F
    <2> QED BY <1>1, <1>2, Recursion
  <1>4. g = [n \in Nat |-> F(g, n)]
    <2>1. ASSUME NEW n \in Nat PROVE g[n] = F(g, n)
      <3>1. CASE n = 0
        BY <1>3, <3>1 DEF Solves
      <3>2. CASE n # 0
        <4>1. n - 1 \in Nat /\ (n - 1) + 1 = n
          BY <3>2
        <4>2. g[n] = step[n][g[n - 1]] /\ g[n - 1] \in V
          <5> HIDE DEF step
          <5> QED BY <1>3, <4>1 DEF Solves
        <4> QED BY <3>2, <4>2 DEF NextSource
      <3> QED BY <3>1, <3>2
    <2>2. g \in [Nat -> V]
      BY <1>3 DEF Solves
    <2> HIDE DEF F
    <2> QED BY <2>1, <2>2
  <1> DEFINE T == SourcesAmong(t)
  <1>5. T = [n \in Nat |-> F(T, n)]
    <2>1. T = CHOOSE f : f = [n \in Nat |-> F(f, n)]
      BY DEF SourcesAmong
    <2> HIDE DEF F, T
    <2> QED BY <1>4, <2>1
  <1>6. \A n \in Nat : T[n] = F(T, n)
    <2> HIDE DEF F, T
    <2> QED BY <1>5
  <1> HIDE DEF T
  <1>7. T[0] = [count |-> 0, hash |-> ZeroHash]
    BY <1>6
  <1>8. \A n \in Nat : T[n + 1] = IF n + 1 \in SpentAt(t) THEN NextSource(T[n], Hash(n + 1)) ELSE T[n]
    BY <1>6 DEF NextSource
  <1>9. \A n \in Nat : T[n] \in V
    <2> DEFINE S == {n \in Nat : T[n] \in V}
    <2>1. 0 \in S
      BY <1>1, <1>7
    <2>2. \A n \in Nat : n \in S => n + 1 \in S
      BY <1>1, <1>8
    <2> HIDE DEF S
    <2>3. \A n \in Nat : n \in S
      BY <2>1, <2>2, Induction
    <2> QED BY <2>3 DEF S
  <1> QED BY <1>7, <1>8, <1>9 DEF T, V, IsSources

-----------------------------------------------------------------------------
(* What the device has computed of a transaction it has not rejected, when *)
(* the parser is at at and the review has not come yet.                    *)

Live == at.vec # "end" /\ ~maybe_transaction.unsafe /\ ProperLocks(tx)
Outgoing == at.vec \in {"outputs", "outputs_data"}
Concluded == at.cb \in {"witnesses", "last_chunk"}

(* The counters over inputs: the cells they are spent from have been read. *)
SpentIs(counters, t, n) ==
    LET cells == SpentCells(t)
    IN  /\ counters.input_amount_snd = Totals(cells, PlainCells(cells))[n]
        /\ counters.dao_input_amount = Totals(cells, DaoCells(cells))[n]
        /\ counters.input_amount_fst = Totals(cells, PlainCells(cells) \cap SignedFor(t))[n]
SpentKnown == Live => SpentIs(sums, tx, InputsCounted)

-----------------------------------------------------------------------------
(* Which callbacks change what.                                            *)

(* The counters over inputs, the output table, the owner and the last lock *)
(* arg are each written by a few callbacks.                                *)
LEMMA CountersStay ==
    ASSUME IInv, ParserStep
    PROVE  /\ at.cb \notin {"set_input_count", "input_lock_arg_end", "finish_input_cell_data"} => sums' = sums
           /\ at.cb \notin {"output_start", "output_end", "outputs_end", "finish_inputs"} => utx' = utx
           /\ at.cb \notin {"finish_input_cell_data", "output_end"} => dao_cell_owner' = dao_cell_owner
           /\ at.cb \notin {"input_lock_arg_end", "finish_inputs"} =>
                inp'.last_input_lock_arg =
                    IF at.cb = "inputs_start" THEN ZeroHash ELSE inp.last_input_lock_arg
  <1>0. inp \in Inp
    BY DEF IInv, TypeOK, FieldsOK
  <1>1. CASE Prologue
    BY <1>1 DEF Prologue, set_sign_path, set_change_path, init_bip32_rejects, set_input_count, Parse,
       computeNewOffsetsToHash, blake2b_chunk, perCell
  <1>2. CASE Inputs
    BY <1>0, <1>2 DEF Inputs, inputs_start, input_start, blake2b_input_count,
       input_save_index, input_context_start_idx, context_blake2b_chunk, finish_context_txn, finish_inputs,
       perCell, Parse, Inp
  <1>3. CASE CellScripts
    BY <1>3 DEF CellScripts, cell_capacity, cell_lock_code_hash, cell_script_hash_type, script_arg_start_input,
       script_arg_chunk, input_lock_arg_end, cell_type_code_hash, cell_type_arg_length, perCell, Parse, ParseActive
  <1>4. CASE CellsData \/ InactiveCell
    BY <1>4 DEF CellsData, set_cell_data_size, check_cell_data_data_chunk, finish_input_cell_data_dao,
       finish_input_cell_data_plain, InactiveCell, perCell, Parse, ParseActive, ActiveOnly
  <1>5. CASE Outputs
    BY <1>5 DEF Outputs, output_start, output_end, output_end_dao, output_end_change, output_end_first,
       output_end_same, output_end_other, OutputEnd, outputs_end, validate_output_data_start,
       finish_output_cell_data, perCell, Parse
  <1>6. CASE finalize_raw_transaction \/ witnesses
    BY <1>6, OutputCallbacksOf
    DEF finalize_raw_transaction, finalize_single_source, finalize_multi_source, finalize_multi_output,
        finalize_dao_deposit, finalize_dao_prepare, finalize_dao_withdraw, Finalize, witnesses, perCell
  <1> QED BY <1>1, <1>2, <1>3, <1>4, <1>5, <1>6 DEF ParserStep

(* The fields of maybe_transaction that a review shows, likewise.          *)
LEMMA FieldsStay ==
    ASSUME IInv, ParserStep
    PROVE  /\ at.cb # "input_lock_arg_end" =>
                maybe_transaction'.input_count_fst = maybe_transaction.input_count_fst
           /\ at.cb \notin {"finish_input_cell_data", "output_end", "finish_output_cell_data",
                            "finalize_raw_transaction"} =>
                maybe_transaction'.tag = maybe_transaction.tag
           /\ at.cb \notin {"output_end", "outputs_end"} => maybe_transaction'.flags = maybe_transaction.flags
  <1>1. maybe_transaction \in MaybeTransaction
    BY DEF IInv, TypeOK, FieldsOK
  <1> USE <1>1 DEF MaybeTransaction, Reject, RejectIf, RejectHard, RejectUnlessAllowed
  <1>2. CASE Prologue \/ Inputs
    BY <1>2 DEF Prologue, set_sign_path, set_change_path, init_bip32_rejects, set_input_count,
       computeNewOffsetsToHash, blake2b_chunk, Inputs, inputs_start, input_start, blake2b_input_count,
       input_save_index, input_context_start_idx, context_blake2b_chunk, finish_context_txn, finish_inputs
  <1>3. CASE CellScripts
    BY <1>3 DEF CellScripts, cell_capacity, cell_lock_code_hash, cell_script_hash_type, script_arg_start_input,
       script_arg_chunk, input_lock_arg_end, cell_type_code_hash, cell_type_arg_length, ParseActive, Parse
  <1>4. CASE CellsData \/ InactiveCell
    <2>1. CASE set_cell_data_size \/ check_cell_data_data_chunk \/ InactiveCell
      BY <2>1 DEF set_cell_data_size, check_cell_data_data_chunk, InactiveCell
    <2>2. CASE finish_input_cell_data_dao
      BY <2>2, CellCallbacksOf DEF finish_input_cell_data_dao
    <2>3. CASE finish_input_cell_data_plain
      BY <2>3, CellCallbacksOf DEF finish_input_cell_data_plain, NoteContractData
    <2> QED BY <1>4, <2>1, <2>2, <2>3 DEF CellsData
  <1>5. CASE Outputs
    <2>1. CASE output_start \/ outputs_end \/ validate_output_data_start
      BY <2>1, OutputCallbacksOf DEF output_start, outputs_end, validate_output_data_start
    <2>2. CASE output_end
      <3>1. at.cb = "output_end"
        BY <2>2, OutputCallbacksOf
      <3>2. maybe_transaction'.input_count_fst = maybe_transaction.input_count_fst
        BY <2>2 DEF output_end, output_end_dao, output_end_change, output_end_first, output_end_same,
           output_end_other, SetFlag
      <3> QED BY <3>1, <3>2
    <2>3. CASE finish_output_cell_data
      BY <2>3, OutputCallbacksOf DEF finish_output_cell_data, NoteContractData
    <2> QED BY <1>5, <2>1, <2>2, <2>3 DEF Outputs
  <1>6. CASE finalize_raw_transaction \/ witnesses
    BY <1>6, OutputCallbacksOf
    DEF finalize_raw_transaction, finalize_single_source, finalize_multi_source, finalize_multi_output,
        finalize_dao_deposit, finalize_dao_prepare, finalize_dao_withdraw, Finalize, witnesses
  <1> QED BY <1>2, <1>3, <1>4, <1>5, <1>6 DEF ParserStep

(* A rejected cell keeps the transaction unsafe; one that is not rejected  *)
(* was not unsafe before.                                                  *)
LEMMA LiveStep ==
    ASSUME IInv, ParserStep, Live'
    PROVE  Live /\ Follow /\ tx' = tx
  <1>1. Follow
    BY StepShape DEF Live, Refused, Position
  <1> QED BY <1>1, StepShape, VerdictsStay, VectorsInOrder DEF Live, env, IInv, TypeOK

-----------------------------------------------------------------------------
(* The counters over inputs.                                               *)

LEMMA SpentTotals ==
    ASSUME NEW t \in AnnotatedTransaction
    PROVE  LET cells == SpentCells(t)
           IN  /\ \A where : where \subseteq SpentAt(t) => IsTotals(Totals(cells, where), cells, where)
               /\ PlainCells(cells) \subseteq SpentAt(t) /\ DaoCells(cells) \subseteq SpentAt(t)
               /\ \A i \in SpentAt(t) : /\ i \in DaoCells(cells) <=> IsDao(cells[i])
                                        /\ i \in PlainCells(cells) <=> ~IsDao(cells[i])
                                        /\ i \in SignedFor(t) <=> IsKey(cells[i], t.signPath)
  <1> DEFINE cells == SpentCells(t)
  <1>1. DOMAIN cells = SpentAt(t) /\ \A i \in SpentAt(t) : cells[i] \in Cell
    BY SpentOK
  <1>2. \A where : where \subseteq SpentAt(t) => Amounts(cells, where)
    BY <1>1, CellFields DEF Amounts
  <1>3. \A i : i \in SignedFor(t) <=> i \in SpentAt(t) /\ IsKey(cells[i], t.signPath)
    BY DEF SignedFor
  <1> HIDE DEF cells
  <1>4. \A where : where \subseteq SpentAt(t) => IsTotals(Totals(cells, where), cells, where)
    BY <1>2, TotalsIs
  <1> QED BY <1>1, <1>3, <1>4 DEF cells, PlainCells, DaoCells

(* One more spent cell of capacity amount, or none.                        *)
LEMMA SpentMore ==
    ASSUME NEW t \in AnnotatedTransaction, NEW n \in Nat
    PROVE  LET cells == SpentCells(t)
               more(where) == IF n + 1 \in where THEN Add(Totals(cells, where)[n], cells[n + 1].capacity)
                              ELSE Totals(cells, where)[n]
           IN  \A where : where \subseteq SpentAt(t) => Totals(cells, where)[n + 1] = more(where)
  <1>1. \A where : where \subseteq SpentAt(t) => IsTotals(Totals(SpentCells(t), where), SpentCells(t), where)
    BY SpentTotals
  <1> QED BY <1>1 DEF IsTotals

(* The end of a plain cell's data counts it, to the first amount when its  *)
(* lock is ours; the end of a DAO cell's data counts it as such.           *)
LEMMA SpentCounted ==
    ASSUME IInv, NEW c \in Cell, WholeCell(c, tx.signPath), ProperLock(c, tx.signPath),
           ~maybe_transaction'.unsafe, finish_input_cell_data_dao \/ finish_input_cell_data_plain
    PROVE  IF IsDao(c)
           THEN /\ sums'.dao_input_amount = Add(sums.dao_input_amount, c.capacity)
                /\ sums'.input_amount_snd = sums.input_amount_snd
                /\ sums'.input_amount_fst = sums.input_amount_fst
           ELSE /\ sums'.dao_input_amount = sums.dao_input_amount
                /\ sums'.input_amount_snd = Add(sums.input_amount_snd, c.capacity)
                /\ sums'.input_amount_fst =
                        IF IsKey(c, tx.signPath) THEN Add(sums.input_amount_fst, c.capacity)
                        ELSE sums.input_amount_fst
  <1>1. sums \in Sums /\ maybe_transaction \in MaybeTransaction
    BY DEF IInv, TypeOK, FieldsOK
  <1>2. CASE finish_input_cell_data_dao
    BY <1>1, <1>2 DEF finish_input_cell_data_dao, Reject, WholeCell, Sums, MaybeTransaction
  <1>3. CASE finish_input_cell_data_plain
    BY <1>1, <1>3, ZenonT(30) DEF finish_input_cell_data_plain, NoteContractData, WholeCell, LockCompared, Sums,
       MaybeTransaction
  <1> QED BY <1>2, <1>3

(* Elsewhere the amounts stay.                                             *)
LEMMA AmountsStay ==
    ASSUME IInv, ParserStep, at.cb # "finish_input_cell_data"
    PROVE  /\ sums'.input_amount_snd = sums.input_amount_snd
           /\ sums'.dao_input_amount = sums.dao_input_amount
           /\ sums'.input_amount_fst = sums.input_amount_fst
  <1>1. sums \in Sums
    BY DEF IInv, TypeOK, FieldsOK
  <1>2. CASE at.cb = "set_input_count"
    <2>1. ~(Inputs \/ CellScripts \/ CellsData \/ Outputs \/ InactiveCell \/ finalize_raw_transaction \/ witnesses)
      BY <1>2, InputCallbacksOf, CellCallbacksOf, OutputCallbacksOf
      DEF Inputs, CellScripts, CellsData, Outputs, ActiveOnly
    <2> QED BY <1>1, <2>1 DEF ParserStep, Prologue, set_sign_path, set_change_path, init_bip32_rejects,
         set_input_count, computeNewOffsetsToHash, blake2b_chunk, Sums
  <1>3. CASE at.cb = "input_lock_arg_end"
    <2>1. input_lock_arg_end \/ InactiveCell
      <3>1. ~(Prologue \/ Inputs \/ CellsData \/ Outputs \/ finalize_raw_transaction \/ witnesses)
        BY <1>3, InputCallbacksOf, CellCallbacksOf, OutputCallbacksOf
        DEF Prologue, Inputs, CellsData, Outputs
      <3> QED BY <1>3, <3>1, CellCallbacksOf DEF ParserStep, CellScripts
    <2> QED BY <1>1, <2>1 DEF input_lock_arg_end, InactiveCell, Sums
  <1> QED BY <1>2, <1>3, CountersStay

LEMMA SpentStep ==
    ASSUME IInv, Reading, SpentKnown, ParserStep
    PROVE  SpentKnown'
  <1> SUFFICES ASSUME Live' PROVE SpentKnown'
    BY DEF SpentKnown
  <1>1. Live /\ Follow /\ tx' = tx /\ tx \in AnnotatedTransaction /\ at.i \in Nat
    BY LiveStep, Where DEF IInv, TypeOK
  <1> PICK t : t = tx
    OBVIOUS
  <1> PICK cells : cells = SpentCells(t)
    OBVIOUS
  <1>2. SpentIs(sums, t, InputsCounted)
    BY <1>1 DEF SpentKnown
  <1>3. /\ PlainCells(cells) \subseteq SpentAt(t) /\ DaoCells(cells) \subseteq SpentAt(t)
        /\ PlainCells(cells) \cap SignedFor(t) \subseteq SpentAt(t)
        /\ \A i \in SpentAt(t) : /\ i \in DaoCells(cells) <=> IsDao(cells[i])
                                 /\ i \in PlainCells(cells) <=> ~IsDao(cells[i])
                                 /\ i \in SignedFor(t) <=> IsKey(cells[i], t.signPath)
        /\ \A where : where \subseteq SpentAt(t) =>
              Totals(cells, where)[at.i + 1] =
                IF at.i + 1 \in where THEN Add(Totals(cells, where)[at.i], cells[at.i + 1].capacity)
                ELSE Totals(cells, where)[at.i]
    BY <1>1, SpentTotals, SpentMore
  <1>4. SpentIs(sums', t, InputsCounted')
    <2>1. CASE ~DataEnd
      <3>1. /\ sums'.input_amount_snd = sums.input_amount_snd
            /\ sums'.dao_input_amount = sums.dao_input_amount
            /\ sums'.input_amount_fst = sums.input_amount_fst
        BY <2>1, AmountsStay, SpentDataEnds DEF DataEnd
      <3>2. CASE InputsCounted' = InputsCounted
        BY <1>2, <3>1, <3>2 DEF SpentIs
      <3>3. CASE InputSkipped /\ InputsCounted = at.i /\ InputsCounted' = at.i + 1
        <4>1. at.i + 1 \notin SpentAt(t)
          BY <3>3 DEF InputSkipped
        <4> QED BY <1>2, <1>3, <3>1, <3>3, <4>1 DEF SpentIs
      <3> QED BY <1>1, <2>1, <3>2, <3>3, CountProgress
    <2>2. CASE DataEnd
      <3> PICK c : c = SpentNow
        OBVIOUS
      <3>1. /\ finish_input_cell_data_dao \/ finish_input_cell_data_plain
            /\ c \in Cell /\ WholeCell(c, tx.signPath)
        BY <2>2, SpentDataEnds DEF DataEnd
      <3>2. at.i + 1 \in SpentAt(t) /\ InputsCounted = at.i /\ InputsCounted' = at.i + 1
        BY <1>1, <2>2, CountProgress DEF DataEnd
      <3>3. cells[at.i + 1] = c
        BY <1>1, <2>2, <3>2, InputNow, Where DEF DataEnd, InSource, IInv, TypeOK
      <3>4. SpentIs(sums, t, at.i)
        BY <1>2, <3>2
      <3>5. ~maybe_transaction'.unsafe
        BY DEF Live
      <3>6. /\ Totals(cells, PlainCells(cells))[at.i + 1] =
                IF IsDao(c) THEN sums.input_amount_snd ELSE Add(sums.input_amount_snd, c.capacity)
            /\ Totals(cells, DaoCells(cells))[at.i + 1] =
                IF IsDao(c) THEN Add(sums.dao_input_amount, c.capacity) ELSE sums.dao_input_amount
            /\ Totals(cells, PlainCells(cells) \cap SignedFor(t))[at.i + 1] =
                IF ~IsDao(c) /\ IsKey(c, t.signPath) THEN Add(sums.input_amount_fst, c.capacity)
                ELSE sums.input_amount_fst
        <4>1. /\ at.i + 1 \in DaoCells(cells) <=> IsDao(c)
              /\ at.i + 1 \in PlainCells(cells) <=> ~IsDao(c)
              /\ at.i + 1 \in PlainCells(cells) \cap SignedFor(t) <=>
                    ~IsDao(c) /\ IsKey(c, t.signPath)
          BY <1>3, <3>2, <3>3
        <4> QED BY <1>3, <3>3, <3>4, <4>1 DEF SpentIs
      <3>7. IF IsDao(c)
            THEN /\ sums'.dao_input_amount = Add(sums.dao_input_amount, c.capacity)
                 /\ sums'.input_amount_snd = sums.input_amount_snd
                 /\ sums'.input_amount_fst = sums.input_amount_fst
            ELSE /\ sums'.dao_input_amount = sums.dao_input_amount
                 /\ sums'.input_amount_snd = Add(sums.input_amount_snd, c.capacity)
                 /\ sums'.input_amount_fst =
                        IF IsKey(c, tx.signPath) THEN Add(sums.input_amount_fst, c.capacity)
                        ELSE sums.input_amount_fst
        <4>1. ProperLock(c, tx.signPath)
          BY <1>1, <3>2, <3>3 DEF Live, ProperLocks
        <4> QED BY <3>1, <3>5, <4>1, SpentCounted
      <3>8. SpentIs(sums', t, at.i + 1)
        BY <3>6, <3>7 DEF SpentIs
      <3> QED BY <3>2, <3>8
    <2> QED BY <2>1, <2>2
  <1> QED BY <1>1, <1>4 DEF SpentKnown

-----------------------------------------------------------------------------
(* The sources.  A source is counted at the end of the lock of a spent     *)
(* cell, ahead of the end of its scripts.                                  *)

LockRead == at.vec = "source" /\ at.j = Index /\ at.cb \in AfterTypeCode \cup {"cell_type_code_hash"}
InputsSourced == IF LockRead THEN at.i + 1 ELSE InputsScripted
LockEnds == at.cb = "input_lock_arg_end" /\ at.j = Index

SourcesKnown ==
    Live =>
        LET here == SourcesAmong(tx)[InputsSourced]
        IN  /\ sums.distinct_input_sources = here.count
            /\ ~Outgoing => inp.last_input_lock_arg = here.hash
            /\ here.count = 0 => here.hash = ZeroHash

(* What we sign for among the first n inputs is in source fst.             *)
OursIs(fst, t, n) ==
    /\ \A i \in SignedFor(t) : i <= n => SourceOf(t, i) = fst /\ fst # 0
    /\ fst # 0 => \E i \in SignedFor(t) : i <= n
    /\ SourcesAmong(t)[n].hash = t.signPath => SourcesAmong(t)[n].count = fst
OursKnown ==
    Live => OursIs(maybe_transaction.input_count_fst, tx, InputsSourced)

LEMMA SourceProgress ==
    ASSUME IInv, Reading, Follow, tx' = tx
    PROVE  \/ /\ LockEnds /\ at.i + 1 \in SpentAt(tx)
              /\ InputsSourced = at.i /\ InputsSourced' = at.i + 1
           \/ ~LockEnds /\ InputsSourced' = InputsSourced
           \/ /\ ~LockEnds /\ InputSkipped
              /\ InputsSourced = at.i /\ InputsSourced' = at.i + 1
  <1> USE DEF Position
  <1>1. PositionOK /\ at.i \in Nat /\ at.j \in Nat /\ at.vec \in Vectors
    BY Where DEF IInv, TypeOK
  <1>2. at'.i = at.i => Index' = Index
    BY DEF Index
  <1>3. CASE at.vec # "source"
    <2>1. ~LockRead /\ ~LockEnds /\ ~ScriptsEnd
      BY <1>1, <1>3, Where DEF LockRead, LockEnds, ScriptsEnd, SourceCallbacks
    <2>2. ~LockRead'
      <3>1. at'.vec = "source" => at.vec = "none"
        BY <1>1, <1>3, VectorsInOrder DEF Vectors
      <3>2. at'.vec = "source" => at'.cb = "input_context_start_idx"
        BY <1>1, <1>3, <3>1, HeadMoves, Where DEF Goes, HeadCallbacks, InputCallbacks
      <3> QED BY <3>2 DEF LockRead, AfterTypeCode, AfterTypeHash
    <2> QED BY <1>3, <2>1, <2>2, ScriptsProgress DEF InputsSourced
  <1>4. CASE at.vec = "source"
    <2>1. /\ Index \in Nat /\ Len(CellsRead) \in Nat
          /\ at.i + 1 \in SpentAt(tx) <=> Index < Len(CellsRead)
          /\ at.i + 1 \in DOMAIN tx.inputs /\ InSource
      BY <1>1, <1>4, InputNow, Lengths DEF InSource, IInv, TypeOK
    <2>2. at'.i = at.i /\ Index' = Index
      BY <1>1, <1>2, <1>4, SourceMoves
    <2>3. CASE at.cb = "input_context_start_idx"
      <3>1. ~LockRead /\ ~LockRead' /\ ~LockEnds /\ ~ScriptsEnd
        BY <1>1, <1>4, <2>1, <2>2, <2>3, VectorMoves
        DEF LockRead, LockEnds, ScriptsEnd, AfterTypeCode, AfterTypeHash, Goes, MoreItems
      <3> QED BY <3>1, ScriptsProgress DEF InputsSourced
    <2>4. CASE at.cb # "input_context_start_idx"
      <3>1. at.cb \in CellLevel /\ at.cb # "output_end" /\ MoreItems
        BY <1>1, <1>4, <2>1, <2>4, Where
      <3>2. \/ at'.vec = "source" /\ at'.j = at.j
            \/ at' = Position("source", "input_context_start_idx", at.i, at.j + 1)
        BY <1>1, <1>4, <3>1, SourceMoves
      <3>3. CASE at.j # Index
        <4>1. ~LockRead /\ ~LockRead' /\ ~LockEnds /\ ~ScriptsEnd
          BY <1>1, <2>1, <2>2, <3>2, <3>3
          DEF LockRead, LockEnds, ScriptsEnd, AfterTypeCode, AfterTypeHash
        <4> QED BY <4>1, ScriptsProgress DEF InputsSourced
      <3>4. CASE at.j = Index
        <4>1. at.i + 1 \in SpentAt(tx) /\ InputsScripted = at.i
          BY <1>1, <1>4, <2>1, <3>1, <3>4 DEF MoreItems, InputsScripted, Gone
        <4>2. CASE at' = Position("source", "input_context_start_idx", at.i, at.j + 1)
          <5>1. at.cb \in {"input_lock_arg_end", "cell_type_arg_length"}
            BY <1>1, <2>1, <3>1, <4>2, CellMoves
            DEF Goes, CellLevel, AfterCapacity, AfterLockCode, AfterLockHash, AfterArgs, AfterTypeCode, AfterTypeHash,
                InSource, LockEnd, To
          <5>2. LockRead <=> at.cb = "cell_type_arg_length"
            BY <1>4, <3>4, <5>1 DEF LockRead, AfterTypeCode, AfterTypeHash
          <5>3. ~LockRead' /\ InputsScripted' = at.i + 1
            BY <1>1, <2>1, <2>2, <3>4, <4>2 DEF LockRead, InputsScripted, Gone, AfterTypeCode, AfterTypeHash
          <5> QED BY <3>4, <4>1, <5>1, <5>2, <5>3 DEF InputsSourced, LockEnds
        <4>3. CASE at'.vec = "source" /\ at'.j = at.j
          <5>1. InputsScripted' = at.i
            BY <1>1, <2>1, <2>2, <3>4, <4>3 DEF InputsScripted, Gone
          <5>2. LockRead <=> at.cb \in AfterTypeCode \cup {"cell_type_code_hash"}
            BY <1>4, <3>4 DEF LockRead
          <5>3. LockRead' <=> at'.cb \in AfterTypeCode \cup {"cell_type_code_hash"}
            BY <2>2, <3>4, <4>3 DEF LockRead
          <5>4. at.cb = "input_lock_arg_end" => at'.cb = "cell_type_code_hash"
            BY <1>1, <2>1, <4>3, CellMoves DEF LockEnd, CellEnd, To, NextItem
          <5>5. at.cb # "input_lock_arg_end" =>
                    (at'.cb \in AfterTypeCode \cup {"cell_type_code_hash"}
                        <=> at.cb \in AfterTypeCode \cup {"cell_type_code_hash"})
            <6>1. at.cb = "cell_type_arg_length" => at'.j # at.j
              BY <1>1, <2>1, CellMoves DEF CellEnd, NextItem
            <6> QED BY <2>1, <3>1, <4>3, <6>1, CellMoves
                DEF Goes, CellLevel, AfterCapacity, AfterLockCode, AfterLockHash, AfterArgs, AfterTypeCode,
                    AfterTypeHash
          <5>6. at.cb = "input_lock_arg_end" => at.cb \notin AfterTypeCode \cup {"cell_type_code_hash"}
            BY DEF AfterTypeCode, AfterTypeHash
          <5> QED BY <2>2, <3>4, <4>1, <5>1, <5>2, <5>3, <5>4, <5>5, <5>6 DEF InputsSourced, LockEnds
        <4> QED BY <3>2, <4>2, <4>3
      <3> QED BY <3>3, <3>4
    <2> QED BY <2>3, <2>4
  <1> QED BY <1>3, <1>4

(* The number of sources changes at the end of a lock only.                *)
LEMMA DistinctStay ==
    ASSUME IInv, ParserStep, at.cb # "input_lock_arg_end"
    PROVE  sums'.distinct_input_sources = sums.distinct_input_sources
  <1>1. sums \in Sums
    BY DEF IInv, TypeOK, FieldsOK
  <1>2. CASE at.cb = "set_input_count"
    <2>1. ~(Inputs \/ CellScripts \/ CellsData \/ Outputs \/ InactiveCell \/ finalize_raw_transaction \/ witnesses)
      BY <1>2, InputCallbacksOf, CellCallbacksOf, OutputCallbacksOf
      DEF Inputs, CellScripts, CellsData, Outputs, ActiveOnly
    <2> QED BY <1>1, <2>1 DEF ParserStep, Prologue, set_sign_path, set_change_path, init_bip32_rejects,
         set_input_count, computeNewOffsetsToHash, blake2b_chunk, Sums
  <1>3. CASE at.cb = "finish_input_cell_data"
    <2>1. ~(Prologue \/ Inputs \/ CellScripts \/ Outputs \/ finalize_raw_transaction \/ witnesses)
      BY <1>3, InputCallbacksOf, CellCallbacksOf, OutputCallbacksOf
      DEF Prologue, Inputs, CellScripts, Outputs
    <2>2. finish_input_cell_data_dao \/ finish_input_cell_data_plain \/ InactiveCell
      BY <1>3, <2>1, CellCallbacksOf DEF ParserStep, CellsData
    <2> QED BY <1>1, <2>2 DEF finish_input_cell_data_dao, finish_input_cell_data_plain, InactiveCell, Sums
  <1> QED BY <1>2, <1>3, CountersStay

(* The end of a spent cell's lock args, without a REJECT.                  *)
LockCounted(c, owner) ==
    LET hash == c.lock.args.hash
        new == inp.last_input_lock_arg # hash
        ours == IsKey(c, owner)
        fst == maybe_transaction.input_count_fst
    IN  /\ ~(new /\ ours /\ fst # 0)
        /\ sums'.distinct_input_sources =
                IF new THEN sums.distinct_input_sources + 1 ELSE sums.distinct_input_sources
        /\ inp'.last_input_lock_arg = hash
        /\ maybe_transaction'.input_count_fst =
                IF new /\ ours THEN sums.distinct_input_sources + 1 ELSE fst

LEMMA SpentLockEnds ==
    ASSUME IInv, Reading, ProperLocks(tx), ParserStep, at.cb = "input_lock_arg_end", ~maybe_transaction'.unsafe
    PROVE  IF LockEnds THEN SpentNow \in Cell /\ LockCounted(SpentNow, tx.signPath)
           ELSE UNCHANGED <<maybe_transaction, inp, sums>>
  <1>1. /\ at.vec = "source" /\ MoreItems /\ PositionOK /\ SourceKnown /\ at.j \in Nat
        /\ at.cb \in AfterArgs /\ at.cb \in CellLevel
        /\ sums \in Sums /\ inp \in Inp /\ maybe_transaction \in MaybeTransaction
    BY Where DEF IInv, TypeOK, FieldsOK, Reading, InputKnown, SourceCallbacks, CellLevel, AfterCapacity, AfterLockCode,
       AfterLockHash, AfterArgs
  <1>2. input_lock_arg_end \/ InactiveCell
    <2>1. ~(Prologue \/ Inputs \/ CellsData \/ Outputs \/ finalize_raw_transaction \/ witnesses)
      BY InputCallbacksOf, CellCallbacksOf, OutputCallbacksOf DEF Prologue, Inputs, CellsData, Outputs
    <2> QED BY <2>1, CellCallbacksOf DEF ParserStep, CellScripts
  <1>3. CASE LockEnds
    <2>1. SpentNow = cell
      BY <1>1, <1>3 DEF SpentNow, cell, CellsRead, LockEnds
    <2>2. SpentNow \in Cell
      BY <1>1, <2>1, CellRead DEF IInv, TypeOK, MoreItems
    <2>3. input_lock_arg_end
      BY <1>1, <1>2, <1>3 DEF SourceKnown, LockEnds, InactiveCell
    <2>4. LockCompared(SpentNow, tx.signPath)
      <3>1. ~Comes /\ ~Gone
        BY <1>1, <1>3 DEF Comes, Gone, LockEnds
      <3> QED BY <1>1, <3>1 DEF SourceKnown, CellSoFar
    <2>5. ProperLock(SpentNow, tx.signPath)
      BY <1>1, <1>3, InputNow DEF LockEnds, MoreItems, InSource, IInv, TypeOK, ProperLocks
    <2> PICK c : c = SpentNow
      OBVIOUS
    <2>6. LockCounted(c, tx.signPath)
      BY <1>1, <2>3, <2>4, <2>5 DEF LockCounted, LockCompared, input_lock_arg_end, NewSource, Reject, Sums, Inp, MaybeTransaction
    <2> QED BY <1>3, <2>2, <2>6
  <1>4. CASE ~LockEnds
    <2>1. ~cell_state.active
      BY <1>1, <1>4 DEF SourceKnown, LockEnds
    <2> QED BY <1>2, <1>4, <2>1, CellCallbacksOf DEF InactiveCell
  <1> QED BY <1>3, <1>4

(* One more spent cell, or none: what SourcesAmong makes of it.            *)
LEMMA SourcesMore ==
    ASSUME NEW t \in AnnotatedTransaction, NEW n \in Nat
    PROVE  /\ SourcesAmong(t)[n] \in SourceCounted
           /\ n + 1 \in SpentAt(t) =>
                SourcesAmong(t)[n + 1] = NextSource(SourcesAmong(t)[n], SpentCells(t)[n + 1].lock.args.hash)
           /\ n + 1 \notin SpentAt(t) => SourcesAmong(t)[n + 1] = SourcesAmong(t)[n]
           /\ SourcesAmong(t)[0] = [count |-> 0, hash |-> ZeroHash]
  <1>1. IsSources(SourcesAmong(t), t)
    BY SourcesIs
  <1> QED BY <1>1 DEF IsSources

(* The number of sources so far, and the hash of the last of them, are     *)
(* kept up.                                                                *)
LEMMA SourcesStep ==
    ASSUME IInv, Reading, SourcesKnown, ParserStep
    PROVE  SourcesKnown'
  <1> SUFFICES ASSUME Live' PROVE SourcesKnown'
    BY DEF SourcesKnown
  <1>1. /\ Live /\ Follow /\ tx' = tx /\ tx \in AnnotatedTransaction /\ at.i \in Nat /\ ~maybe_transaction'.unsafe
        /\ at.vec \in Vectors
    BY LiveStep, Where DEF IInv, TypeOK, Live
  <1> PICK t : t = tx
    OBVIOUS
  <1> PICK S : S = SourcesAmong(t)
    OBVIOUS
  <1> DEFINE n == InputsSourced
  <1>2. /\ sums.distinct_input_sources = S[n].count
        /\ ~Outgoing => inp.last_input_lock_arg = S[n].hash
        /\ S[n].count = 0 => S[n].hash = ZeroHash
    BY <1>1 DEF SourcesKnown
  <1>3. Outgoing => Outgoing'
    BY <1>1, VectorsInOrder DEF Outgoing, IInv, TypeOK
  <1>4. /\ S[at.i] \in SourceCounted
        /\ at.i + 1 \in SpentAt(t) => S[at.i + 1] = NextSource(S[at.i], SpentCells(t)[at.i + 1].lock.args.hash)
        /\ at.i + 1 \notin SpentAt(t) => S[at.i + 1] = S[at.i]
        /\ S[0] = [count |-> 0, hash |-> ZeroHash]
    BY <1>1, SourcesMore
  <1>5. SUFFICES /\ sums'.distinct_input_sources = S[n'].count
                 /\ ~Outgoing' => inp'.last_input_lock_arg = S[n'].hash
                 /\ S[n'].count = 0 => S[n'].hash = ZeroHash
    BY <1>1 DEF SourcesKnown
  <1>6. CASE LockEnds
    <2> PICK c : c = SpentNow
      OBVIOUS
    <2>1. at.i + 1 \in SpentAt(t) /\ n = at.i /\ n' = at.i + 1
      BY <1>1, <1>6, SourceProgress
    <2>2. at.vec = "source" /\ ~Outgoing
      BY <1>6, Where DEF LockEnds, SourceCallbacks, IInv, TypeOK, Outgoing
    <2>3. c \in Cell /\ LockCounted(c, tx.signPath)
      BY <1>1, <1>6, SpentLockEnds DEF LockEnds, Live
    <2>4. SpentCells(t)[at.i + 1] = c
      BY <2>1, <2>2, InputNow DEF InSource
    <2> HIDE DEF n
    <2> QED BY <1>2, <1>4, <2>1, <2>2, <2>3, <2>4 DEF LockCounted, NextSource, SourceCounted
  <1>7. CASE ~LockEnds
    <2>1. S[n'] = S[n]
      <3>1. CASE n' = n
        BY <3>1
      <3>2. CASE InputSkipped /\ n = at.i /\ n' = at.i + 1
        BY <1>4, <3>2 DEF InputSkipped
      <3> QED BY <1>1, <1>7, <3>1, <3>2, SourceProgress
    <2>2. sums'.distinct_input_sources = sums.distinct_input_sources
      <3>1. CASE at.cb = "input_lock_arg_end"
        BY <1>1, <1>7, <3>1, SpentLockEnds DEF Live
      <3>2. CASE at.cb # "input_lock_arg_end"
        BY <3>2, DistinctStay
      <3> QED BY <3>1, <3>2
    <2>3. CASE at.cb = "inputs_start"
      <3>1. n = 0 /\ inp'.last_input_lock_arg = ZeroHash
        BY <2>3, Where, CountersStay
        DEF InputsSourced, LockRead, InputsScripted, IInv, TypeOK, PositionOK, AtInputs, HeadCallbacks,
            InputCallbacks
      <3> HIDE DEF n
      <3> QED BY <1>2, <1>4, <2>1, <2>2, <3>1
    <2>4. CASE at.cb = "finish_inputs"
      <3>1. Outgoing'
        BY <1>1, <2>4, HeadMoves DEF Outgoing, Position
      <3> HIDE DEF n
      <3> QED BY <1>2, <2>1, <2>2, <3>1
    <2>5. CASE at.cb \notin {"inputs_start", "finish_inputs"}
      <3>1. inp'.last_input_lock_arg = inp.last_input_lock_arg
        <4>1. CASE at.cb = "input_lock_arg_end"
          BY <1>1, <1>7, <4>1, SpentLockEnds DEF Live
        <4>2. CASE at.cb # "input_lock_arg_end"
          BY <2>5, <4>2, CountersStay
        <4> QED BY <4>1, <4>2
      <3> HIDE DEF n
      <3> QED BY <1>2, <1>3, <2>1, <2>2, <3>1
    <2> QED BY <2>3, <2>4, <2>5
  <1> QED BY <1>6, <1>7

(* So is the source we sign for: the lock of one more spent cell.          *)
LEMMA OursMore ==
    ASSUME NEW t \in AnnotatedTransaction, ProperLocks(t), NEW n \in Nat, n + 1 \in SpentAt(t),
           NEW c \in Cell, c = SpentCells(t)[n + 1], NEW fst \in Nat, OursIs(fst, t, n),
           LET here == SourcesAmong(t)[n]
               new == here.hash # c.lock.args.hash
               ours == IsKey(c, t.signPath)
           IN  /\ ~(new /\ ours /\ fst # 0)
               /\ here.count = 0 => here.hash = ZeroHash
    PROVE  LET here == SourcesAmong(t)[n]
               new == here.hash # c.lock.args.hash
               ours == IsKey(c, t.signPath)
           IN  OursIs(IF new /\ ours THEN here.count + 1 ELSE fst, t, n + 1)
  <1> PICK S : S = SourcesAmong(t)
    OBVIOUS
  <1> DEFINE hash == c.lock.args.hash
             new == S[n].hash # hash
             ours == IsKey(c, t.signPath)
             next == IF new /\ ours THEN S[n].count + 1 ELSE fst
  <1>1. /\ S[n] \in SourceCounted
        /\ S[n + 1].hash = hash /\ S[n + 1].count = IF new THEN S[n].count + 1 ELSE S[n].count
    <2>1. S[n] \in SourceCounted /\ S[n + 1] = NextSource(S[n], SpentCells(t)[n + 1].lock.args.hash)
      BY SourcesMore
    <2>2. S[n + 1] = NextSource(S[n], hash)
      BY <2>1
    <2> HIDE DEF hash
    <2> QED BY <2>1, <2>2 DEF NextSource
  <1>2. t.signPath # ZeroHash /\ hash # ZeroHash /\ (ours <=> hash = t.signPath)
    <2>1. ProperLock(c, t.signPath)
      BY DEF ProperLocks
    <2> QED BY <2>1, HashAssumption DEF AnnotatedTransaction, ProperLock, IsKey
  <1>3. ours <=> hash = t.signPath
    BY <1>2
  <1>4. ours <=> n + 1 \in SignedFor(t)
    BY DEF SignedFor
  <1>5. \A i \in SignedFor(t) : i \in Nat /\ SourceOf(t, i) = S[i].count
    BY SpentOK DEF SignedFor, SourceOf
  <1>6. /\ \A i \in SignedFor(t) : i <= n => S[i].count = fst /\ fst # 0
        /\ fst # 0 => \E i \in SignedFor(t) : i <= n
        /\ S[n].hash = t.signPath => S[n].count = fst
    BY <1>5 DEF OursIs
  <1>7. ~(new /\ ours /\ fst # 0) /\ (S[n].count = 0 => S[n].hash = ZeroHash) /\ S[n].count \in Nat
    BY <1>1 DEF SourceCounted
  <1> SUFFICES OursIs(next, t, n + 1)
    OBVIOUS
  <1> HIDE DEF hash, ours
  <1>8. \A i \in SignedFor(t) : i <= n + 1 => S[i].count = next /\ next # 0
    BY <1>1, <1>2, <1>3, <1>4, <1>5, <1>6, <1>7
  <1>9. next # 0 => \E i \in SignedFor(t) : i <= n + 1
    BY <1>4, <1>5, <1>6
  <1>10. S[n + 1].hash = t.signPath => S[n + 1].count = next
    BY <1>1, <1>3, <1>6
  <1> HIDE DEF next
  <1> QED BY <1>5, <1>8, <1>9, <1>10 DEF OursIs

LEMMA OursStep ==
    ASSUME IInv, Reading, SourcesKnown, OursKnown, ParserStep
    PROVE  OursKnown'
  <1> SUFFICES ASSUME Live' PROVE OursKnown'
    BY DEF OursKnown
  <1>1. /\ Live /\ Follow /\ tx' = tx /\ tx \in AnnotatedTransaction /\ at.i \in Nat /\ ~maybe_transaction'.unsafe
        /\ maybe_transaction \in MaybeTransaction
    BY LiveStep, Where DEF IInv, TypeOK, FieldsOK, Live
  <1> PICK t : t = tx
    OBVIOUS
  <1> DEFINE n == InputsSourced
             fst == maybe_transaction.input_count_fst
  <1>2. ProperLocks(t) /\ OursIs(fst, t, n)
    BY <1>1 DEF OursKnown, Live
  <1>3. SUFFICES OursIs(fst', t, n')
    BY <1>1 DEF OursKnown
  <1>4. CASE LockEnds
    <2> PICK c : c = SpentNow
      OBVIOUS
    <2>1. at.i + 1 \in SpentAt(t) /\ n = at.i /\ n' = at.i + 1
      BY <1>1, <1>4, SourceProgress
    <2>2. at.vec = "source" /\ ~Outgoing
      BY <1>4, Where DEF LockEnds, SourceCallbacks, IInv, TypeOK, Outgoing
    <2>3. c \in Cell /\ LockCounted(c, tx.signPath)
      BY <1>1, <1>4, SpentLockEnds DEF LockEnds, Live
    <2>4. SpentCells(t)[at.i + 1] = c
      BY <2>1, <2>2, InputNow DEF InSource
    <2>5. /\ sums.distinct_input_sources = SourcesAmong(t)[at.i].count
          /\ inp.last_input_lock_arg = SourcesAmong(t)[at.i].hash
          /\ SourcesAmong(t)[at.i].count = 0 => SourcesAmong(t)[at.i].hash = ZeroHash
      BY <1>1, <2>1, <2>2 DEF SourcesKnown
    <2> DEFINE new == SourcesAmong(t)[at.i].hash # c.lock.args.hash
               ours == IsKey(c, t.signPath)
    <2>6. /\ ~(new /\ ours /\ fst # 0)
          /\ fst' = IF new /\ ours THEN SourcesAmong(t)[at.i].count + 1 ELSE fst
      BY <2>3, <2>5 DEF LockCounted
    <2>7. fst \in Nat /\ OursIs(fst, t, at.i)
      BY <1>1, <1>2, <2>1 DEF MaybeTransaction
    <2> HIDE DEF fst, n
    <2>8. OursIs(IF new /\ ours THEN SourcesAmong(t)[at.i].count + 1 ELSE fst, t, at.i + 1)
      BY <1>1, <1>2, <2>1, <2>3, <2>4, <2>5, <2>6, <2>7, OursMore
    <2> HIDE DEF new, ours
    <2> QED BY <2>1, <2>6, <2>8
  <1>5. CASE ~LockEnds
    <2>1. fst' = fst
      <3>1. CASE at.cb = "input_lock_arg_end"
        BY <1>1, <1>5, <3>1, SpentLockEnds DEF Live
      <3>2. CASE at.cb # "input_lock_arg_end"
        BY <3>2, FieldsStay
      <3> QED BY <3>1, <3>2
    <2>2. CASE n' = n
      BY <1>2, <2>1, <2>2
    <2>3. CASE InputSkipped /\ n = at.i /\ n' = at.i + 1
      <3>1. at.i + 1 \notin SpentAt(t)
        BY <2>3 DEF InputSkipped
      <3>2. SourcesAmong(t)[at.i + 1] = SourcesAmong(t)[at.i]
        BY <1>1, <3>1, SourcesMore
      <3>3. \A i \in SignedFor(t) : i \in Nat /\ i # at.i + 1
        BY <1>1, <3>1, SpentOK DEF SignedFor
      <3>4. \A i \in SignedFor(t) : i <= at.i + 1 <=> i <= at.i
        BY <1>1, <3>3
      <3>5. OursIs(fst, t, at.i)
        BY <1>2, <2>3
      <3>6. OursIs(fst, t, at.i + 1)
        <4> HIDE DEF fst, n
        <4> QED BY <3>2, <3>4, <3>5 DEF OursIs
      <3> QED BY <2>1, <2>3, <3>6
    <2> QED BY <1>1, <1>5, <2>2, <2>3, SourceProgress
  <1> QED BY <1>4, <1>5

-----------------------------------------------------------------------------
(* The end of an output.                                                   *)

(* Output c stored at slot s of a table, or added to the row there.        *)
Stored(table, c, s) ==
    [table EXCEPT ![s].capacity = Add(@, c.capacity), ![s].destination = c.lock.args,
                  ![s].is_multisig = (c.lock.code_hash = "multisig")]
Added(table, c, s) == [table EXCEPT ![s].capacity = Add(@, c.capacity)]
SameRow(row, c) ==
    row.destination.hash = c.lock.args.hash /\ row.is_multisig = (c.lock.code_hash = "multisig")

Pays(t, c) == ~IsDao(c) /\ ~PaidToChange(t, c)

(* What an output that is not rejected does to the amounts, the table and  *)
(* the operation.                                                          *)
OutputAmounts(c, t) ==
    /\ utx'.dao_output_amount =
            IF IsDao(c) THEN Add(utx.dao_output_amount, c.capacity) ELSE utx.dao_output_amount
    /\ utx'.plain_output_amount =
            IF Pays(t, c) THEN Add(utx.plain_output_amount, c.capacity) ELSE utx.plain_output_amount
    /\ utx'.change_amount =
            IF ~IsDao(c) /\ PaidToChange(t, c) THEN Add(utx.change_amount, c.capacity) ELSE utx.change_amount
    /\ utx'.is_self_transfer = utx.is_self_transfer
    /\ IsDao(c) => PaidToChange(t, c)
    /\ dao_cell_owner' = IF IsDao(c) THEN c.lock.args.hash ELSE dao_cell_owner
    /\ maybe_transaction'.flags = maybe_transaction.flags \cup
            {IF Pays(t, c) THEN "HAS_DESTINATION_ADDRESS" ELSE "HAS_CHANGE_ADDRESS"}
OutputRow(c, t) ==
    IF ~Pays(t, c)
    THEN /\ utx'.outputs = utx.outputs /\ utx'.output_count = utx.output_count
         /\ maybe_transaction'.tag = maybe_transaction.tag
    ELSE \/ /\ utx.output_count = 0 /\ utx'.outputs = Stored(utx.outputs, c, 0) /\ utx'.output_count = 1
            /\ maybe_transaction'.tag = maybe_transaction.tag
            /\ ~HasFlag("HAS_DESTINATION_ADDRESS")
         \/ /\ HasFlag("HAS_DESTINATION_ADDRESS") /\ SameRow(utx.outputs[utx.output_count - 1], c)
            /\ utx'.outputs = Added(utx.outputs, c, utx.output_count - 1)
            /\ utx'.output_count = utx.output_count /\ maybe_transaction'.tag = maybe_transaction.tag
         \/ /\ HasFlag("HAS_DESTINATION_ADDRESS") /\ ~SameRow(utx.outputs[utx.output_count - 1], c)
            /\ utx.output_count < MAX_OUTPUTS
            /\ utx'.outputs = Stored(utx.outputs, c, utx.output_count)
            /\ utx'.output_count = utx.output_count + 1
            /\ JoinsOperation("MULTI_OUTPUT_TRANSFER") /\ maybe_transaction'.tag = "MULTI_OUTPUT_TRANSFER"

LEMMA ProperOutput ==
    ASSUME NEW t \in AnnotatedTransaction, ProperLocks(t), NEW n \in DOMAIN t.outputs
    PROVE  t.outputs[n] \in Cell /\ ProperLock(t.outputs[n], t.changePath)
  BY DEF ProperLocks, AnnotatedTransaction, NonEmptySeq

LEMMA OutputCounted ==
    ASSUME IInv, Reading, ProperLocks(tx), ParserStep, Follow, at.cb = "output_end", ~maybe_transaction'.unsafe,
           NEW c, c = cell
    PROVE  OutputAmounts(c, tx) /\ OutputRow(c, tx)
  <1>1. /\ output_end /\ WholeCell(c, tx.changePath) /\ c \in Cell
        /\ utx \in UTx /\ maybe_transaction \in MaybeTransaction
        /\ ProperLock(c, tx.changePath)
    <2>1. /\ output_end /\ WholeCell(c, tx.changePath) /\ c \in Cell /\ c = tx.outputs[at.j + 1]
          /\ at.j + 1 \in DOMAIN tx.outputs /\ tx \in AnnotatedTransaction
      <3>1. tx \in AnnotatedTransaction
        BY DEF IInv, TypeOK
      <3>2. tx' = tx
        BY StepShape DEF env
      <3>3. at.j + 1 \in DOMAIN tx.outputs
        BY <3>2, OutputProgress
      <3> QED BY <3>1, <3>3, OutputEnds
    <2> PICK n, t : n = at.j + 1 /\ t = tx
      OBVIOUS
    <2>2. ProperLock(c, tx.changePath)
      <3>1. n \in DOMAIN t.outputs /\ t \in AnnotatedTransaction /\ ProperLocks(t)
        BY <2>1
      <3>2. ProperLock(t.outputs[n], t.changePath)
        BY ONLY <3>1, ProperOutput
      <3> QED BY <2>1, <3>2
    <2> QED BY <2>1, <2>2 DEF IInv, TypeOK, FieldsOK, Ledger
  <1>2. NotChange <=> ~PaidToChange(tx, c)
    BY <1>1 DEF WholeCell, LockCompared, NotChange, PaidToChange, IsKey, KeyLock
  <1>3. (cell_state.is_dao <=> IsDao(c)) /\ cell_state.capacity = c.capacity /\ lock_arg_tmp = c.lock.args
        /\ (cell_state.is_multisig <=> c.lock.code_hash = "multisig") /\ cell_state \in CellState
    BY <1>1 DEF WholeCell, LockCompared, IInv, TypeOK, FieldsOK
  <1>4. \A s \in Slot : StoredAt(s) = Stored(utx.outputs, c, s) /\ AddedAt(s) = Added(utx.outputs, c, s)
    <2>1. cell_state.is_multisig = (c.lock.code_hash = "multisig")
      BY <1>3 DEF CellState
    <2> QED BY <1>3, <2>1 DEF StoredAt, Stored, AddedAt, Added
  <1>5. SameAsLast <=> SameRow(utx.outputs[utx.output_count - 1], c)
    <2>1. cell_state.is_multisig = (c.lock.code_hash = "multisig")
      BY <1>3 DEF CellState
    <2> QED BY <1>3, <2>1 DEF SameAsLast, SameRow, last_output
  <1>6. utx.output_count \in 0 .. MAX_OUTPUTS /\ (HasFlag("HAS_DESTINATION_ADDRESS") => utx.output_count > 0)
    <2>1. ~utx.is_self_transfer
      BY Where DEF IInv, TypeOK, Ledger, SelfLate
    <2> QED BY <1>1, <2>1 DEF IInv, Ledger, OutputTableAddsUp, UTx
  <1>7. CASE output_end_dao
    <2>1. IsDao(c) /\ PaidToChange(tx, c)
      BY <1>1, <1>2, <1>3, <1>7 DEF output_end_dao, OutputEnd, Reject, MaybeTransaction
    <2> QED BY <1>1, <1>2, <1>3, <1>7, <2>1
        DEF output_end_dao, OutputEnd, SetFlag, OutputAmounts, OutputRow, Pays, UTx, MaybeTransaction
  <1>8. CASE output_end_change
    BY <1>1, <1>2, <1>3, <1>8
    DEF output_end_change, OutputEnd, SetFlag, OutputAmounts, OutputRow, Pays, UTx, MaybeTransaction
  <1>9. CASE output_end_first
    <2>1. utx.output_count = 0 /\ CountPlain(StoredAt(0), 1) /\ SetFlag("HAS_DESTINATION_ADDRESS")
      <3>1. at' # Refused
        BY VectorsInOrder, Where DEF IInv, TypeOK, Refused, Position
      <3> QED BY <1>9, <3>1 DEF output_end_first, Throw
    <2>2. Pays(tx, c) /\ ~HasFlag("HAS_DESTINATION_ADDRESS") /\ dao_cell_owner' = dao_cell_owner
      BY <1>2, <1>3, <1>9 DEF output_end_first, OutputEnd, PlainOutput, Pays
    <2>3. StoredAt(0) = Stored(utx.outputs, c, 0)
      BY <1>4 DEF Slot, MAX_OUTPUTS
    <2> QED BY <1>1, <1>3, <2>1, <2>2, <2>3
        DEF CountPlain, SetFlag, OutputAmounts, OutputRow, Pays, UTx, MaybeTransaction
  <1>10. CASE output_end_same
    <2>1. /\ CountPlain(AddedAt(utx.output_count - 1), utx.output_count) /\ SetFlag("HAS_DESTINATION_ADDRESS")
          /\ HasFlag("HAS_DESTINATION_ADDRESS") /\ dao_cell_owner' = dao_cell_owner
          /\ SameRow(utx.outputs[utx.output_count - 1], c) /\ Pays(tx, c)
      BY <1>2, <1>3, <1>5, <1>10 DEF output_end_same, OutputEnd, PlainOutput, Pays
    <2>2. AddedAt(utx.output_count - 1) = Added(utx.outputs, c, utx.output_count - 1)
      BY <1>4, <1>6, <2>1 DEF Slot, MAX_OUTPUTS
    <2> QED BY <1>1, <1>3, <2>1, <2>2
        DEF CountPlain, SetFlag, OutputAmounts, OutputRow, Pays, UTx, MaybeTransaction
  <1>11. CASE output_end_other
    <2>1. /\ HasFlag("HAS_DESTINATION_ADDRESS") /\ dao_cell_owner' = dao_cell_owner
          /\ ~SameRow(utx.outputs[utx.output_count - 1], c) /\ Pays(tx, c)
      BY <1>2, <1>3, <1>5, <1>11 DEF output_end_other, OutputEnd, PlainOutput, Pays
    <2>2. /\ JoinsOperation("MULTI_OUTPUT_TRANSFER") /\ ~TableFull
          /\ maybe_transaction' = [maybe_transaction EXCEPT
                !.tag = "MULTI_OUTPUT_TRANSFER", !.flags = @ \cup {"HAS_DESTINATION_ADDRESS"}]
          /\ CountPlain(StoredAt(utx.output_count), utx.output_count + 1)
      BY <1>1, <1>11 DEF output_end_other, Reject, MaybeTransaction
    <2>3. utx.output_count < MAX_OUTPUTS /\ StoredAt(utx.output_count) = Stored(utx.outputs, c, utx.output_count)
      BY <1>4, <1>6, <2>2 DEF Slot, MAX_OUTPUTS, TableFull
    <2> QED BY <1>1, <1>3, <2>1, <2>2, <2>3
        DEF CountPlain, OutputAmounts, OutputRow, Pays, UTx, MaybeTransaction
  <1> QED BY <1>1, <1>7, <1>8, <1>9, <1>10, <1>11 DEF output_end

(* The end of the outputs: a transfer to oneself takes the change for the  *)
(* amount, and the change path for the destination.                        *)
SelfOnly ==
    /\ utx.dao_bitmask = {} /\ maybe_transaction.tag \notin {"DAO_PREPARE", "DAO_WITHDRAW"}
    /\ ~HasFlag("HAS_DESTINATION_ADDRESS") /\ HasFlag("HAS_CHANGE_ADDRESS")

LEMMA OutputsEnded ==
    ASSUME IInv, Reading, ParserStep, Follow, at.cb = "outputs_end"
    PROVE  /\ maybe_transaction'.tag = maybe_transaction.tag
           /\ dao_cell_owner' = dao_cell_owner
           /\ IF SelfOnly
              THEN /\ utx'.is_self_transfer
                   /\ utx'.plain_output_amount = utx.change_amount /\ utx'.change_amount = 0
                   /\ utx'.dao_output_amount = utx.dao_output_amount
                   /\ Address(utx'.outputs[0]) = ChangeAddress(tx)
                   /\ utx.output_count = 0 /\ utx'.output_count = 1
              ELSE utx' = utx /\ maybe_transaction' = maybe_transaction
  <1>1. /\ utx \in UTx /\ maybe_transaction \in MaybeTransaction /\ at.vec = "outputs" /\ ~utx.is_self_transfer
        /\ key.change = tx.changePath /\ OutputTableAddsUp
    BY Where DEF IInv, TypeOK, FieldsOK, Ledger, SelfLate, Reading, KeysKnown, Refused, Position
  <1>2. outputs_end
    <2>1. ~(Prologue \/ Inputs \/ CellScripts \/ CellsData \/ InactiveCell \/ finalize_raw_transaction \/ witnesses)
      BY InputCallbacksOf, CellCallbacksOf, OutputCallbacksOf DEF Prologue, Inputs, CellScripts, CellsData, ActiveOnly
    <2> QED BY <2>1, OutputCallbacksOf DEF ParserStep, Outputs
  <1>3. at' # Refused
    BY VectorsInOrder, Where DEF IInv, TypeOK, Refused, Position
  <1>4. dao_cell_owner' = dao_cell_owner
    BY CountersStay
  <1>5. CASE SelfOnly
    <2>1. /\ utx.output_count = 0
          /\ utx' = [utx EXCEPT
                    !.is_self_transfer = TRUE,
                    !.plain_output_amount = utx.change_amount, !.change_amount = 0,
                    !.output_count = 1,
                    !.outputs = [@ EXCEPT ![0].destination.hash = key.change]]
          /\ maybe_transaction' = [maybe_transaction EXCEPT !.flags = {}]
      BY <1>2, <1>3, <1>5 DEF outputs_end, SelfOnly, Throw
    <2>2. utx.outputs[0] = ZeroOutput /\ 0 \in Slot
      BY <1>1, <2>1 DEF OutputTableAddsUp, Slot, MAX_OUTPUTS
    <2>3. /\ utx'.outputs[0].is_multisig = FALSE /\ utx'.outputs[0].destination.hash = tx.changePath
      BY <1>1, <2>1, <2>2 DEF UTx, Output, ZeroOutput, ZeroLockArg
    <2>4. Address(utx'.outputs[0]) = ChangeAddress(tx)
      BY <2>3 DEF Address, ChangeAddress
    <2> QED BY <1>1, <1>4, <1>5, <2>1, <2>4 DEF UTx, MaybeTransaction
  <1>6. CASE ~SelfOnly
    <2>1. utx' = utx /\ maybe_transaction' = maybe_transaction
      <3>1. [utx EXCEPT !.is_self_transfer = FALSE] = utx
        BY <1>1 DEF UTx
      <3> QED BY <1>2, <1>3, <1>6, <3>1 DEF outputs_end, SelfOnly, Throw
    <2> QED BY <1>4, <1>6, <2>1
  <1> QED BY <1>5, <1>6

(* Elsewhere the amounts and the table of outputs stay, once they are      *)
(* there.                                                                  *)
SameTable(u, v) ==
    /\ u.outputs = v.outputs /\ u.output_count = v.output_count /\ u.is_self_transfer = v.is_self_transfer
    /\ u.plain_output_amount = v.plain_output_amount /\ u.change_amount = v.change_amount
    /\ u.dao_output_amount = v.dao_output_amount

LEMMA TableStays ==
    ASSUME IInv, ParserStep, at.cb \notin {"output_end", "outputs_end", "finish_inputs"}
    PROVE  SameTable(utx', utx)
  <1>1. CASE at.cb = "output_start"
    <2>1. ~(Prologue \/ Inputs \/ CellScripts \/ CellsData \/ InactiveCell \/ finalize_raw_transaction \/ witnesses)
      BY <1>1, InputCallbacksOf, CellCallbacksOf, OutputCallbacksOf
      DEF Prologue, Inputs, CellScripts, CellsData, ActiveOnly
    <2>2. output_start
      BY <1>1, <2>1, OutputCallbacksOf DEF ParserStep, Outputs
    <2>3. utx \in UTx
      BY DEF IInv, TypeOK, FieldsOK
    <2> QED BY <2>2, <2>3 DEF output_start, UTx, SameTable
  <1> QED BY <1>1, CountersStay DEF SameTable

(* Where the outputs begin, and what is read of them by then.              *)
LEMMA OutgoingStep ==
    ASSUME IInv, Reading, ParserStep, Follow, tx' = tx, Outgoing'
    PROVE  \/ at.cb = "finish_inputs" /\ utx' = ZeroUTx /\ OutputsScripted' = 0 /\ at'.vec = "outputs"
           \/ Outgoing /\ at.cb # "finish_inputs"
  <1>1. PositionOK /\ at.vec \in Vectors
    BY Where DEF IInv, TypeOK
  <1>2. CASE at.cb = "finish_inputs"
    <2>1. finish_inputs
      BY <1>2, HashActions
    <2>2. at' = Position("outputs", "output_start", at.i, 0)
      BY <1>2, HeadMoves
    <2> QED BY <1>2, <2>1, <2>2 DEF finish_inputs, OutputsScripted, Position
  <1>3. CASE at.cb # "finish_inputs"
    BY <1>1, <1>3, VectorsInOrder DEF Outgoing, Vectors
  <1> QED BY <1>2, <1>3

-----------------------------------------------------------------------------
(* The amounts of the outputs, and the flags that tell which there are.    *)

ToChange(t) == PlainCells(t.outputs) \ PaidToOthers(t)
AmountsAre(u, t, m) ==
    /\ u.dao_output_amount = Totals(t.outputs, DaoCells(t.outputs))[m]
    /\ IF u.is_self_transfer
       THEN /\ PaidToOthers(t) = {}
            /\ u.plain_output_amount = Totals(t.outputs, ToChange(t))[m] /\ u.change_amount = 0
            /\ Address(u.outputs[0]) = ChangeAddress(t)
       ELSE /\ u.plain_output_amount = Totals(t.outputs, PaidToOthers(t))[m]
            /\ u.change_amount = Totals(t.outputs, ToChange(t))[m]
AmountsKnown == Live /\ Outgoing => AmountsAre(utx, tx, OutputsScripted)

FlagsAre(flags, t, m) ==
    /\ "HAS_DESTINATION_ADDRESS" \in flags <=> \E n \in PaidToOthers(t) : n <= m
    /\ \A n \in DOMAIN t.outputs : n <= m /\ PaidToChange(t, t.outputs[n]) => "HAS_CHANGE_ADDRESS" \in flags
FlagsKnown ==
    Live /\ Outgoing /\ ~utx.is_self_transfer => FlagsAre(maybe_transaction.flags, tx, OutputsScripted)

LEMMA PaidTotals ==
    ASSUME NEW t \in AnnotatedTransaction
    PROVE  /\ \A where : where \subseteq DOMAIN t.outputs => IsTotals(Totals(t.outputs, where), t.outputs, where)
           /\ PaidToOthers(t) \subseteq PlainCells(t.outputs) /\ ToChange(t) \subseteq PlainCells(t.outputs)
           /\ PlainCells(t.outputs) \subseteq DOMAIN t.outputs /\ DaoCells(t.outputs) \subseteq DOMAIN t.outputs
           /\ DOMAIN t.outputs = 1 .. Len(t.outputs)
           /\ \A n \in DOMAIN t.outputs :
                LET c == t.outputs[n]
                IN  /\ c \in Cell /\ n \in Nat \ {0}
                    /\ n \in DaoCells(t.outputs) <=> IsDao(c)
                    /\ n \in PaidToOthers(t) <=> Pays(t, c)
                    /\ n \in ToChange(t) <=> ~IsDao(c) /\ PaidToChange(t, c)
  <1>1. t.outputs \in Seq(Cell)
    BY DEF AnnotatedTransaction, NonEmptySeq
  <1>2. \A n \in DOMAIN t.outputs : t.outputs[n] \in Cell /\ n \in Nat \ {0}
    BY <1>1
  <1>3. \A where : where \subseteq DOMAIN t.outputs => Amounts(t.outputs, where)
    BY <1>2, CellFields DEF Amounts
  <1>4. \A where : where \subseteq DOMAIN t.outputs => IsTotals(Totals(t.outputs, where), t.outputs, where)
    BY <1>3, TotalsIs
  <1> QED BY <1>1, <1>2, <1>4 DEF PaidToOthers, PlainCells, ToChange, DaoCells, Pays

LEMMA PaidMore ==
    ASSUME NEW t \in AnnotatedTransaction, NEW n \in Nat, n + 1 \in DOMAIN t.outputs,
           NEW c, c = t.outputs[n + 1]
    PROVE  LET total(where) == Totals(t.outputs, where)
               dao == DaoCells(t.outputs)
           IN  /\ total(dao)[n + 1] = IF IsDao(c) THEN Add(total(dao)[n], c.capacity) ELSE total(dao)[n]
               /\ total(PaidToOthers(t))[n + 1] =
                    IF Pays(t, c) THEN Add(total(PaidToOthers(t))[n], c.capacity) ELSE total(PaidToOthers(t))[n]
               /\ total(ToChange(t))[n + 1] =
                    IF ~IsDao(c) /\ PaidToChange(t, c) THEN Add(total(ToChange(t))[n], c.capacity)
                    ELSE total(ToChange(t))[n]
  <1>1. /\ IsTotals(Totals(t.outputs, DaoCells(t.outputs)), t.outputs, DaoCells(t.outputs))
        /\ IsTotals(Totals(t.outputs, PaidToOthers(t)), t.outputs, PaidToOthers(t))
        /\ IsTotals(Totals(t.outputs, ToChange(t)), t.outputs, ToChange(t))
    BY PaidTotals
  <1>2. /\ n + 1 \in DaoCells(t.outputs) <=> IsDao(c)
        /\ n + 1 \in PaidToOthers(t) <=> Pays(t, c)
        /\ n + 1 \in ToChange(t) <=> ~IsDao(c) /\ PaidToChange(t, c)
    BY PaidTotals
  <1> QED BY <1>1, <1>2 DEF IsTotals

LEMMA PaidNone ==
    ASSUME NEW t \in AnnotatedTransaction
    PROVE  /\ Totals(t.outputs, DaoCells(t.outputs))[0] = 0
           /\ Totals(t.outputs, PaidToOthers(t))[0] = 0
           /\ Totals(t.outputs, ToChange(t))[0] = 0
  <1>1. /\ IsTotals(Totals(t.outputs, DaoCells(t.outputs)), t.outputs, DaoCells(t.outputs))
        /\ IsTotals(Totals(t.outputs, PaidToOthers(t)), t.outputs, PaidToOthers(t))
        /\ IsTotals(Totals(t.outputs, ToChange(t)), t.outputs, ToChange(t))
    BY PaidTotals
  <1> QED BY <1>1 DEF IsTotals

LEMMA FlagsStep ==
    ASSUME IInv, Reading, FlagsKnown, ParserStep
    PROVE  FlagsKnown'
  <1> SUFFICES ASSUME Live', Outgoing', ~utx'.is_self_transfer PROVE FlagsKnown'
    BY DEF FlagsKnown
  <1>1. /\ Live /\ Follow /\ tx' = tx /\ tx \in AnnotatedTransaction /\ at.j \in Nat /\ ~maybe_transaction'.unsafe
        /\ PositionOK
    BY LiveStep, Where DEF IInv, TypeOK, Live
  <1> PICK t : t = tx
    OBVIOUS
  <1> DEFINE m == OutputsScripted
             flags == maybe_transaction.flags
  <1>2. SUFFICES FlagsAre(flags', t, m')
    BY <1>1 DEF FlagsKnown
  <1>3. CASE at.cb = "finish_inputs"
    <2>1. m' = 0 /\ flags' = {}
      <3>1. flags' = flags
        BY <1>3, FieldsStay
      <3>2. flags = {}
        BY <1>1, <1>3, Where DEF IInv, Ledger, FlagsWait, Before
      <3> QED BY <1>1, <1>3, <3>1, <3>2, OutgoingStep
    <2>2. \A n \in DOMAIN t.outputs : n \in Nat \ {0}
      BY <1>1, PaidTotals
    <2>3. PaidToOthers(t) \subseteq DOMAIN t.outputs
      BY DEF PaidToOthers, PlainCells
    <2> HIDE DEF m, flags
    <2> QED BY <2>1, <2>2, <2>3 DEF FlagsAre
  <1>4. CASE at.cb # "finish_inputs"
    <2>0. Outgoing
      BY <1>1, <1>4, OutgoingStep
    <2>1. CASE at.cb = "output_end"
      <3> PICK c : c = cell
        OBVIOUS
      <3>1. OutputAmounts(c, t)
        BY <1>1, <2>1, OutputCounted DEF Live
      <3>2. m = at.j /\ m' = at.j + 1 /\ at.j + 1 \in DOMAIN t.outputs /\ c = t.outputs[at.j + 1]
        BY <1>1, <2>1, OutputProgress
      <3>3. FlagsAre(flags, t, at.j)
        BY <1>1, <2>0, <3>1, <3>2 DEF FlagsKnown, OutputAmounts
      <3>4. /\ \A n \in DOMAIN t.outputs : n \in Nat /\ (n \in PaidToOthers(t) <=> Pays(t, t.outputs[n]))
            /\ PaidToOthers(t) \subseteq DOMAIN t.outputs
        BY <1>1, PaidTotals DEF PaidToOthers, PlainCells
      <3>5. flags' = flags \cup {IF Pays(t, c) THEN "HAS_DESTINATION_ADDRESS" ELSE "HAS_CHANGE_ADDRESS"}
        BY <3>1 DEF OutputAmounts
      <3>6. Pays(t, c) => ~PaidToChange(t, c)
        BY DEF Pays
      <3>7. \A n \in DOMAIN t.outputs : n <= at.j + 1 <=> n <= at.j \/ n = at.j + 1
        BY <1>1, <3>4
      <3> HIDE DEF m, flags
      <3> QED BY <3>2, <3>3, <3>4, <3>5, <3>6, <3>7 DEF FlagsAre
    <2>2. CASE at.cb = "outputs_end"
      <3>1. maybe_transaction' = maybe_transaction /\ utx' = utx
        BY <1>1, <2>2, OutputsEnded
      <3>2. m' = m
        BY <1>1, <2>2, OutputProgress
      <3> QED BY <1>1, <2>0, <3>1, <3>2 DEF FlagsKnown
    <2>3. CASE at.cb \notin {"output_end", "outputs_end"}
      <3>1. flags' = flags /\ SameTable(utx', utx)
        BY <1>4, <2>3, FieldsStay, TableStays
      <3>2. m' = m
        BY <1>1, <2>3, OutputProgress
      <3> QED BY <1>1, <2>0, <3>1, <3>2 DEF FlagsKnown, SameTable
    <2> QED BY <2>1, <2>2, <2>3
  <1> QED BY <1>3, <1>4

LEMMA AmountsStep ==
    ASSUME IInv, Reading, FlagsKnown, AmountsKnown, ParserStep
    PROVE  AmountsKnown'
  <1> SUFFICES ASSUME Live', Outgoing' PROVE AmountsKnown'
    BY DEF AmountsKnown
  <1>1. /\ Live /\ Follow /\ tx' = tx /\ tx \in AnnotatedTransaction /\ at.j \in Nat /\ ~maybe_transaction'.unsafe
        /\ PositionOK
    BY LiveStep, Where DEF IInv, TypeOK, Live
  <1> PICK t : t = tx
    OBVIOUS
  <1> DEFINE m == OutputsScripted
  <1>2. SUFFICES AmountsAre(utx', t, m')
    BY <1>1 DEF AmountsKnown
  <1>3. CASE at.cb = "finish_inputs"
    <2>1. m' = 0 /\ utx' = ZeroUTx
      BY <1>1, <1>3, OutgoingStep
    <2>2. /\ Totals(t.outputs, DaoCells(t.outputs))[0] = 0
          /\ Totals(t.outputs, PaidToOthers(t))[0] = 0
          /\ Totals(t.outputs, ToChange(t))[0] = 0
      BY <1>1, PaidNone
    <2> HIDE DEF m
    <2> QED BY <2>1, <2>2 DEF AmountsAre, ZeroUTx
  <1>4. CASE at.cb # "finish_inputs"
    <2>0. Outgoing /\ AmountsAre(utx, t, m)
      BY <1>1, <1>4, OutgoingStep DEF AmountsKnown
    <2>1. CASE at.cb = "output_end"
      <3> PICK c : c = cell
        OBVIOUS
      <3>1. OutputAmounts(c, t)
        BY <1>1, <2>1, OutputCounted DEF Live
      <3>2. m = at.j /\ m' = at.j + 1 /\ at.j + 1 \in DOMAIN t.outputs /\ c = t.outputs[at.j + 1]
        BY <1>1, <2>1, OutputProgress
      <3>3. AmountsAre(utx, t, at.j)
        BY <2>0, <3>2
      <3>4. ~utx.is_self_transfer
        BY <1>1, <2>1, Where DEF IInv, Ledger, SelfLate
      <3> DEFINE total(where) == Totals(t.outputs, where)
                 dao == DaoCells(t.outputs)
      <3>5. /\ total(dao)[at.j + 1] = IF IsDao(c) THEN Add(total(dao)[at.j], c.capacity) ELSE total(dao)[at.j]
            /\ total(PaidToOthers(t))[at.j + 1] =
                IF Pays(t, c) THEN Add(total(PaidToOthers(t))[at.j], c.capacity) ELSE total(PaidToOthers(t))[at.j]
            /\ total(ToChange(t))[at.j + 1] =
                IF ~IsDao(c) /\ PaidToChange(t, c) THEN Add(total(ToChange(t))[at.j], c.capacity)
                ELSE total(ToChange(t))[at.j]
        BY <1>1, <3>2, PaidMore
      <3>6. AmountsAre(utx', t, at.j + 1)
        BY <3>1, <3>3, <3>4, <3>5 DEF AmountsAre, OutputAmounts
      <3> QED BY <3>2, <3>6
    <2>2. CASE at.cb = "outputs_end"
      <3>1. m' = m /\ at.vec = "outputs"
        BY <1>1, <2>2, OutputProgress, Where
      <3>2. ~utx.is_self_transfer
        BY <3>1 DEF IInv, Ledger, SelfLate
      <3>3. CASE SelfOnly
        <4>1. PaidToOthers(t) = {}
          <5>1. m = Len(t.outputs)
            BY <2>2, <3>1 DEF OutputsScripted, Reading, EndsReached
          <5>2. FlagsAre(maybe_transaction.flags, t, m)
            BY <1>1, <2>0, <3>2 DEF FlagsKnown
          <5>3. \A n \in PaidToOthers(t) : n <= Len(t.outputs)
            BY <1>1, PaidTotals DEF PaidToOthers, PlainCells
          <5> QED BY <3>3, <5>1, <5>2, <5>3 DEF SelfOnly, HasFlag, FlagsAre
        <4>2. /\ utx'.is_self_transfer
              /\ utx'.plain_output_amount = utx.change_amount /\ utx'.change_amount = 0
              /\ utx'.dao_output_amount = utx.dao_output_amount
              /\ Address(utx'.outputs[0]) = ChangeAddress(t)
          BY <1>1, <2>2, <3>3, OutputsEnded
        <4> HIDE DEF m
        <4> QED BY <2>0, <3>1, <3>2, <4>1, <4>2 DEF AmountsAre
      <3>4. CASE ~SelfOnly
        <4>1. utx' = utx
          BY <1>1, <2>2, <3>4, OutputsEnded
        <4> QED BY <2>0, <3>1, <4>1
      <3> QED BY <3>3, <3>4
    <2>3. CASE at.cb \notin {"output_end", "outputs_end"}
      <3>1. SameTable(utx', utx) /\ m' = m
        BY <1>1, <1>4, <2>3, TableStays, OutputProgress
      <3> HIDE DEF m
      <3> QED BY <2>0, <3>1 DEF SameTable, AmountsAre
    <2> QED BY <2>1, <2>2, <2>3
  <1> QED BY <1>3, <1>4

-----------------------------------------------------------------------------
(* The operation: the DAO cells read so far, and what they hold.           *)

DaoSeen(cells, n) == {k \in DaoCells(cells) : k <= n}

LEMMA DaoSeenMore ==
    ASSUME NEW cells, DOMAIN cells \subseteq Nat \ {0}, NEW n \in Nat
    PROVE  /\ DaoSeen(cells, n + 1) = IF n + 1 \in DaoCells(cells) THEN DaoSeen(cells, n) \cup {n + 1}
                                      ELSE DaoSeen(cells, n)
           /\ DaoSeen(cells, 0) = {}
  <1>1. DaoCells(cells) \subseteq Nat \ {0}
    BY DEF DaoCells
  <1>2. \A k \in DaoCells(cells) : k <= n + 1 <=> k <= n \/ k = n + 1
    BY <1>1
  <1>3. \A k \in DaoCells(cells) : ~(k <= 0)
    BY <1>1
  <1> QED BY <1>2, <1>3 DEF DaoSeen

(* All of the cells: what is seen of them in the end.                      *)
LEMMA DaoAllSeen ==
    ASSUME NEW t \in AnnotatedTransaction
    PROVE  /\ DaoSeen(SpentCells(t), Len(t.inputs)) = DaoCells(SpentCells(t))
           /\ DaoSeen(t.outputs, Len(t.outputs)) = DaoCells(t.outputs)
  <1>1. Len(t.inputs) \in Nat /\ Len(t.outputs) \in Nat
    BY Lengths
  <1>2. ASSUME NEW i \in DaoCells(SpentCells(t)) PROVE i <= Len(t.inputs)
    <2>1. i \in 1 .. Len(t.inputs)
      BY <1>2, SpentOK DEF DaoCells
    <2> QED BY <1>1, <2>1
  <1>3. ASSUME NEW n \in DaoCells(t.outputs) PROVE n <= Len(t.outputs)
    <2>1. n \in 1 .. Len(t.outputs)
      BY <1>3, PaidTotals
    <2> QED BY <1>1, <2>1
  <1> QED BY <1>2, <1>3 DEF DaoSeen

(* A DAO cell joins an operation.                                          *)
DaoJoins(op, c) ==
    /\ c.data.size = 8
    /\ maybe_transaction.tag \in {op, "NOT_SET"} /\ maybe_transaction'.tag = op

(* The end of the data of a spent DAO cell, and of anything else.          *)
DaoSpentNow(t, c) ==
    /\ at.vec = "source_data" /\ at.i + 1 \in DaoCells(SpentCells(t)) /\ SpentCells(t)[at.i + 1] = c
    /\ InputsCounted = at.i /\ InputsCounted' = at.i + 1
    /\ dao_cell_owner' = c.lock.args.hash
    /\ DaoJoins(IF c.data.nonzero THEN "DAO_WITHDRAW" ELSE "DAO_PREPARE", c)

LEMMA DaoSpent ==
    ASSUME IInv, Reading, ParserStep, Live'
    PROVE  \/ \E c \in Cell : DaoSpentNow(tx, c) /\ at.cb = "finish_input_cell_data"
           \/ /\ DaoSeen(SpentCells(tx), InputsCounted') = DaoSeen(SpentCells(tx), InputsCounted)
              /\ at.cb = "finish_input_cell_data" =>
                    /\ maybe_transaction'.tag = maybe_transaction.tag
                    /\ dao_cell_owner' = dao_cell_owner
  <1>1. /\ Live /\ Follow /\ tx' = tx /\ tx \in AnnotatedTransaction /\ at.i \in Nat /\ ~maybe_transaction'.unsafe
        /\ PositionOK /\ maybe_transaction \in MaybeTransaction
    BY LiveStep, Where DEF IInv, TypeOK, Live, FieldsOK
  <1>2. DOMAIN SpentCells(tx) = SpentAt(tx) /\ SpentAt(tx) \subseteq Nat \ {0}
    BY <1>1, SpentOK
  <1>3. CASE DataEnd
    <2> PICK c : c = SpentNow
      OBVIOUS
    <2>1. /\ finish_input_cell_data_dao \/ finish_input_cell_data_plain
          /\ c \in Cell /\ WholeCell(c, tx.signPath)
          /\ cell_state.dao_data_is_nonzero <=> c.data.nonzero
          /\ cell_state.data_size = IF c.data.size < 15 THEN c.data.size ELSE 15
      BY <1>3, SpentDataEnds DEF DataEnd
    <2>2. at.i + 1 \in SpentAt(tx) /\ InputsCounted = at.i /\ InputsCounted' = at.i + 1 /\ at.vec = "source_data"
      BY <1>1, <1>3, CountProgress, Where DEF DataEnd
    <2>3. SpentCells(tx)[at.i + 1] = c
      BY <2>2, InputNow DEF InSource
    <2>4. CASE IsDao(c)
      <3>1. finish_input_cell_data_dao /\ lock_arg_tmp = c.lock.args
        <4>1. ProperLock(c, tx.signPath)
          BY <1>1, <2>2, <2>3 DEF Live, ProperLocks
        <4> QED BY <2>1, <2>4, <4>1 DEF WholeCell, LockCompared, finish_input_cell_data_plain
      <3>2. c.data.size = 8
        BY <1>1, <2>1, <3>1, CellFields DEF finish_input_cell_data_dao, Reject, MaybeTransaction
      <3>3. DaoJoins(IF c.data.nonzero THEN "DAO_WITHDRAW" ELSE "DAO_PREPARE", c)
        BY <1>1, <2>1, <3>1, <3>2 DEF finish_input_cell_data_dao, JoinsOperation, Reject, MaybeTransaction, DaoJoins
      <3>4. dao_cell_owner' = c.lock.args.hash
        BY <3>1 DEF finish_input_cell_data_dao
      <3>5. at.i + 1 \in DaoCells(SpentCells(tx))
        BY <1>2, <2>2, <2>3, <2>4 DEF DaoCells
      <3> QED BY <1>3, <2>1, <2>2, <2>3, <3>3, <3>4, <3>5 DEF DaoSpentNow, DataEnd
    <2>5. CASE ~IsDao(c)
      <3>1. finish_input_cell_data_plain
        BY <2>1, <2>5 DEF WholeCell, finish_input_cell_data_dao
      <3>2. maybe_transaction'.tag = maybe_transaction.tag /\ dao_cell_owner' = dao_cell_owner
        BY <1>1, <3>1 DEF finish_input_cell_data_plain, NoteContractData, MaybeTransaction, perCell
      <3>3. at.i + 1 \notin DaoCells(SpentCells(tx))
        BY <2>3, <2>5 DEF DaoCells
      <3> QED BY <1>1, <1>2, <2>2, <3>2, <3>3, DaoSeenMore
    <2> QED BY <2>4, <2>5
  <1>4. CASE ~DataEnd
    <2>1. at.cb = "finish_input_cell_data" =>
                maybe_transaction'.tag = maybe_transaction.tag /\ dao_cell_owner' = dao_cell_owner
      BY <1>4, SpentDataEnds
    <2>2. CASE InputsCounted' = InputsCounted
      BY <2>1, <2>2
    <2>3. CASE InputSkipped /\ InputsCounted = at.i /\ InputsCounted' = at.i + 1
      <3>1. at.i + 1 \notin DaoCells(SpentCells(tx))
        BY <1>2, <2>3 DEF InputSkipped, DaoCells
      <3> QED BY <1>1, <1>2, <2>1, <2>3, <3>1, DaoSeenMore
    <2> QED BY <1>1, <1>4, <2>2, <2>3, CountProgress
  <1> QED BY <1>3, <1>4

(* The lock of the last DAO cell, of those read so far.                    *)
OwnerIs(owner, t, spent, paid) ==
    /\ paid # {} => owner = t.changePath
    /\ paid = {} /\ spent # {} => \E i \in spent : owner = SpentCells(t)[i].lock.args.hash
    /\ \A n \in paid : PaidToChange(t, t.outputs[n])
OwnerKnown ==
    Live => OwnerIs(dao_cell_owner, tx, DaoSeen(SpentCells(tx), InputsCounted), DaoSeen(tx.outputs, OutputsScripted))

LEMMA OwnerStep ==
    ASSUME IInv, Reading, OwnerKnown, ParserStep
    PROVE  OwnerKnown'
  <1> SUFFICES ASSUME Live' PROVE OwnerKnown'
    BY DEF OwnerKnown
  <1>1. /\ Live /\ Follow /\ tx' = tx /\ tx \in AnnotatedTransaction /\ at.i \in Nat /\ ~maybe_transaction'.unsafe
        /\ PositionOK /\ at.j \in Nat
    BY LiveStep, Where DEF IInv, TypeOK, Live
  <1> PICK t : t = tx
    OBVIOUS
  <1> DEFINE spent(n) == DaoSeen(SpentCells(t), n)
             paid(m) == DaoSeen(t.outputs, m)
  <1>2. OwnerIs(dao_cell_owner, t, spent(InputsCounted), paid(OutputsScripted))
    BY <1>1 DEF OwnerKnown
  <1>3. SUFFICES OwnerIs(dao_cell_owner', t, spent(InputsCounted'), paid(OutputsScripted'))
    BY <1>1 DEF OwnerKnown
  <1>4. /\ DOMAIN SpentCells(t) \subseteq Nat \ {0} /\ DOMAIN t.outputs \subseteq Nat \ {0}
    BY <1>1, SpentOK, PaidTotals
  <1>5. CASE at.cb = "finish_input_cell_data"
    <2>1. OutputsScripted' = OutputsScripted /\ OutputsScripted = 0 /\ paid(0) = {}
      BY <1>1, <1>4, <1>5, OutputProgress, Where, DaoSeenMore DEF OutputsScripted
    <2>2. CASE \E c \in Cell : DaoSpentNow(t, c)
      <3> PICK c \in Cell : DaoSpentNow(t, c)
        BY <2>2
      <3>1. /\ spent(InputsCounted') = spent(at.i) \cup {at.i + 1}
            /\ dao_cell_owner' = SpentCells(t)[at.i + 1].lock.args.hash
        BY <1>1, <1>4, DaoSeenMore DEF DaoSpentNow
      <3> HIDE DEF spent, paid
      <3> QED BY <2>1, <3>1 DEF OwnerIs
    <2>3. CASE /\ spent(InputsCounted') = spent(InputsCounted)
               /\ dao_cell_owner' = dao_cell_owner
      BY <1>2, <2>1, <2>3
    <2> QED BY <1>1, <1>5, <2>2, <2>3, DaoSpent
  <1>6. CASE at.cb # "finish_input_cell_data"
    <2>1. spent(InputsCounted') = spent(InputsCounted)
      BY <1>1, <1>6, DaoSpent
    <2>2. CASE at.cb = "output_end"
      <3> PICK c : c = cell
        OBVIOUS
      <3>1. OutputAmounts(c, t)
        BY <1>1, <2>2, OutputCounted DEF Live
      <3>2. OutputsScripted = at.j /\ OutputsScripted' = at.j + 1 /\ at.j + 1 \in DOMAIN t.outputs
            /\ c = t.outputs[at.j + 1]
        BY <1>1, <2>2, OutputProgress
      <3>3. CASE IsDao(c)
        <4>1. paid(at.j + 1) = paid(at.j) \cup {at.j + 1}
          BY <1>1, <1>4, <3>2, <3>3, DaoSeenMore DEF DaoCells
        <4>2. PaidToChange(t, c) /\ dao_cell_owner' = t.changePath
          BY <3>1, <3>3 DEF OutputAmounts, PaidToChange, IsKey
        <4> HIDE DEF spent, paid
        <4> QED BY <1>2, <2>1, <3>2, <4>1, <4>2 DEF OwnerIs
      <3>4. CASE ~IsDao(c)
        <4>1. paid(at.j + 1) = paid(at.j)
          BY <1>1, <1>4, <3>2, <3>4, DaoSeenMore DEF DaoCells
        <4>2. dao_cell_owner' = dao_cell_owner
          BY <3>1, <3>4 DEF OutputAmounts
        <4> QED BY <1>2, <2>1, <3>2, <4>1, <4>2
      <3> QED BY <3>3, <3>4
    <2>3. CASE at.cb # "output_end"
      <3>1. dao_cell_owner' = dao_cell_owner /\ OutputsScripted' = OutputsScripted
        BY <1>1, <1>6, <2>3, CountersStay, OutputProgress
      <3> QED BY <1>2, <2>1, <3>1
    <2> QED BY <2>2, <2>3
  <1> QED BY <1>5, <1>6

(* The operation that the DAO cells in spent and paid make.                *)
Transfers ==
    {"NOT_SET", "MULTI_OUTPUT_TRANSFER", "PLAIN_TRANSFER", "SELF_TRANSFER", "MULTI_INPUT_TRANSFER"}
Holds(cells, seen, nonzero) == \A k \in seen : cells[k].data.size = 8 /\ cells[k].data.nonzero = nonzero

OperationIs(tag, t, spent, paid) ==
    /\ tag \in Transfers => spent = {} /\ paid = {}
    /\ tag = "DAO_DEPOSIT" => spent = {} /\ paid # {} /\ Holds(t.outputs, paid, FALSE)
    /\ tag = "DAO_PREPARE" =>
            /\ spent \cup paid # {} /\ Holds(SpentCells(t), spent, FALSE)
            /\ SeparateDaoData(t) => Holds(t.outputs, paid, TRUE)
    /\ tag = "DAO_WITHDRAW" => spent # {} /\ Holds(SpentCells(t), spent, TRUE) /\ paid = {}
OperationKnown ==
    Live => OperationIs(maybe_transaction.tag, tx, DaoSeen(SpentCells(tx), InputsCounted),
                        DaoSeen(tx.outputs, OutputsCounted))

(* The end of the raw transaction, without a REJECT.                       *)
Conclusion(m, s, u, fee) ==
    /\ m.total_fee = IF m.tag = "DAO_WITHDRAW" THEN Negated(fee) ELSE fee
    /\ \/ /\ m.tag = IF u.is_self_transfer THEN "SELF_TRANSFER" ELSE "PLAIN_TRANSFER"
          /\ m.amount_snd = u.plain_output_amount
       \/ /\ m.tag = "MULTI_INPUT_TRANSFER" /\ s.distinct_input_sources > 1 /\ m.input_count_fst # 0
          /\ m.input_count_snd = s.distinct_input_sources /\ m.amount_fst = s.input_amount_fst
          /\ m.amount_snd = u.plain_output_amount
       \/ /\ m.tag = "MULTI_OUTPUT_TRANSFER" /\ s.distinct_input_sources <= 1
          /\ m.amount_snd = u.plain_output_amount
       \/ /\ m.tag = "DAO_DEPOSIT" /\ m.dao_amount = u.dao_output_amount
       \/ /\ m.tag = "DAO_PREPARE" /\ m.dao_amount = u.dao_output_amount
          /\ u.dao_output_amount = s.dao_input_amount
       \/ /\ m.tag = "DAO_WITHDRAW" /\ m.dao_amount = s.dao_input_amount
          /\ u.dao_output_amount = 0 /\ u.plain_output_amount = 0
ConcludedKnown == Live /\ Concluded => Conclusion(maybe_transaction, sums, utx, Fee)

(* The fields that finalize_raw_transaction leaves as an operation set     *)
(* them, once the slot of the fee is filled.                               *)
LEMMA FeeFilled ==
    ASSUME NEW parsed \in MaybeTransaction, NEW fee, NEW m, m = [parsed EXCEPT !.total_fee = fee]
    PROVE  /\ m.tag = parsed.tag /\ m.total_fee = fee
           /\ m.amount_fst = parsed.amount_fst /\ m.amount_snd = parsed.amount_snd
           /\ m.dao_amount = parsed.dao_amount
           /\ m.input_count_fst = parsed.input_count_fst
           /\ m.input_count_snd = parsed.input_count_snd
  BY DEF MaybeTransaction

(* finalize_raw_transaction: of every operation, what it fills in and what *)
(* it has checked when it does not reject.                                 *)
LEMMA Concludes ==
    ASSUME IInv, finalize_raw_transaction, ~maybe_transaction'.unsafe
    PROVE  /\ Conclusion(maybe_transaction', sums, utx, Fee)
           /\ \/ maybe_transaction'.tag = maybe_transaction.tag
              \/ /\ maybe_transaction.tag = "NOT_SET"
                 /\ maybe_transaction'.tag \in {"PLAIN_TRANSFER", "SELF_TRANSFER", "MULTI_INPUT_TRANSFER"}
           /\ sums' = sums /\ utx' = utx
  <1> PICK m : m = maybe_transaction
    OBVIOUS
  <1>1. m \in MaybeTransaction /\ sums.distinct_input_sources \in Nat
    BY DEF IInv, TypeOK, FieldsOK, Sums
  <1>3. CASE finalize_single_source
    <2> DEFINE rejected == FALSE
               parsed == [m EXCEPT
                    !.tag = IF utx.is_self_transfer THEN "SELF_TRANSFER" ELSE "PLAIN_TRANSFER",
                    !.amount_snd = utx.plain_output_amount]
    <2>1. parsed \in MaybeTransaction /\ rejected \in BOOLEAN
      BY <1>1 DEF MaybeTransaction, Tag, IInv, TypeOK, FieldsOK, UTx, Sums
    <2>2. parsed.tag = (IF utx.is_self_transfer THEN "SELF_TRANSFER" ELSE "PLAIN_TRANSFER")
          /\ parsed.amount_snd = utx.plain_output_amount
      BY <1>1 DEF MaybeTransaction
    <2>3. Finalize({"NOT_SET"}, rejected, parsed, Fee)
      BY <1>3 DEF finalize_single_source
    <2> HIDE DEF parsed
    <2> PICK p, n, f : p = parsed /\ n = maybe_transaction' /\ f = Fee
      OBVIOUS
    <2>4. ~rejected
      BY <2>1, <2>3 DEF Finalize, MaybeTransaction
    <2>5. /\ m.tag = "NOT_SET" /\ sums' = sums /\ utx' = utx
          /\ maybe_transaction' = [parsed EXCEPT !.total_fee = Fee]
      BY <2>4, <2>3 DEF Finalize
    <2>6. /\ n.tag = p.tag /\ n.total_fee = f
          /\ n.amount_fst = p.amount_fst /\ n.amount_snd = p.amount_snd
          /\ n.dao_amount = p.dao_amount
          /\ n.input_count_fst = p.input_count_fst
          /\ n.input_count_snd = p.input_count_snd
      BY <2>1, <2>5, FeeFilled
    <2>7. \/ maybe_transaction'.tag = maybe_transaction.tag
          \/ /\ maybe_transaction.tag = "NOT_SET"
             /\ maybe_transaction'.tag \in {"PLAIN_TRANSFER", "SELF_TRANSFER", "MULTI_INPUT_TRANSFER"}
      BY <2>2, <2>6, <2>5
    <2>8. Conclusion(maybe_transaction', sums, utx, Fee)
      BY <1>1, <2>2, <2>6, <2>4, <2>5 DEF Conclusion
    <2> QED BY <2>7, <2>8, <2>5
  <1>4. CASE finalize_multi_source
    <2> DEFINE bare == [m EXCEPT !.tag = "MULTI_INPUT_TRANSFER"]
               parsed == [m EXCEPT
                           !.tag = "MULTI_INPUT_TRANSFER",
                           !.input_count_snd = sums.distinct_input_sources,
                           !.amount_fst = sums.input_amount_fst,
                           !.amount_snd = utx.plain_output_amount]
    <2>1. parsed \in MaybeTransaction /\ bare \in MaybeTransaction
      BY <1>1 DEF MaybeTransaction, Tag, IInv, TypeOK, FieldsOK, UTx, Sums
    <2>2. /\ parsed.tag = "MULTI_INPUT_TRANSFER" /\ parsed.input_count_snd = sums.distinct_input_sources
          /\ parsed.amount_fst = sums.input_amount_fst /\ parsed.amount_snd = utx.plain_output_amount
          /\ parsed.input_count_fst = m.input_count_fst
      BY <1>1 DEF MaybeTransaction
    <2>3. \/ Finalize({"NOT_SET"}, TRUE, m, Fee)
          \/ Finalize({"NOT_SET"}, TRUE, bare, Fee)
          \/ Finalize({"NOT_SET"}, FALSE, parsed, Fee) /\ m.input_count_fst # 0
      BY <1>4 DEF finalize_multi_source
    <2>4. sums.distinct_input_sources > 1
      BY <1>4 DEF finalize_multi_source
    <2> HIDE DEF parsed, bare
    <2> PICK p, n, f : p = parsed /\ n = maybe_transaction' /\ f = Fee
      OBVIOUS
    <2>5. ~Finalize({"NOT_SET"}, TRUE, m, Fee)
      BY <1>1 DEF Finalize, MaybeTransaction
    <2>6. ~Finalize({"NOT_SET"}, TRUE, bare, Fee)
      BY <2>1 DEF Finalize, MaybeTransaction
    <2>7. m.input_count_fst # 0 /\ Finalize({"NOT_SET"}, FALSE, parsed, Fee)
      BY <2>3, <2>5, <2>6
    <2>8. /\ m.tag = "NOT_SET" /\ sums' = sums /\ utx' = utx
          /\ maybe_transaction' = [parsed EXCEPT !.total_fee = Fee]
      BY <2>7 DEF Finalize
    <2>9. /\ n.tag = p.tag /\ n.total_fee = f
          /\ n.amount_fst = p.amount_fst /\ n.amount_snd = p.amount_snd
          /\ n.dao_amount = p.dao_amount
          /\ n.input_count_fst = p.input_count_fst
          /\ n.input_count_snd = p.input_count_snd
      BY <2>1, <2>8, FeeFilled
    <2>10. /\ maybe_transaction.tag = "NOT_SET"
          /\ maybe_transaction'.tag \in {"PLAIN_TRANSFER", "SELF_TRANSFER", "MULTI_INPUT_TRANSFER"}
      BY <2>2, <2>8, <2>9
    <2>11. Conclusion(maybe_transaction', sums, utx, Fee)
      BY <2>2, <2>4, <2>7, <2>8, <2>9 DEF Conclusion
    <2> QED BY <2>8, <2>10, <2>11
  <1>5. CASE finalize_multi_output
    <2> DEFINE rejected == sums.distinct_input_sources > 1
               parsed == [m EXCEPT !.amount_snd = IF rejected THEN @ ELSE utx.plain_output_amount]
    <2>1. parsed \in MaybeTransaction /\ rejected \in BOOLEAN
      BY <1>1 DEF MaybeTransaction, Tag, IInv, TypeOK, FieldsOK, UTx, Sums
    <2>2. (parsed.tag = m.tag) /\ (~rejected => parsed.amount_snd = utx.plain_output_amount)
      BY <1>1 DEF MaybeTransaction
    <2>3. Finalize({"MULTI_OUTPUT_TRANSFER"}, rejected, parsed, Fee)
      BY <1>5 DEF finalize_multi_output
    <2> HIDE DEF parsed
    <2> PICK p, n, f : p = parsed /\ n = maybe_transaction' /\ f = Fee
      OBVIOUS
    <2>4. ~rejected
      BY <2>1, <2>3 DEF Finalize, MaybeTransaction
    <2>5. /\ m.tag = "MULTI_OUTPUT_TRANSFER" /\ sums' = sums /\ utx' = utx
          /\ maybe_transaction' = [parsed EXCEPT !.total_fee = Fee]
      BY <2>4, <2>3 DEF Finalize
    <2>6. /\ n.tag = p.tag /\ n.total_fee = f
          /\ n.amount_fst = p.amount_fst /\ n.amount_snd = p.amount_snd
          /\ n.dao_amount = p.dao_amount
          /\ n.input_count_fst = p.input_count_fst
          /\ n.input_count_snd = p.input_count_snd
      BY <2>1, <2>5, FeeFilled
    <2>7. \/ maybe_transaction'.tag = maybe_transaction.tag
          \/ /\ maybe_transaction.tag = "NOT_SET"
             /\ maybe_transaction'.tag \in {"PLAIN_TRANSFER", "SELF_TRANSFER", "MULTI_INPUT_TRANSFER"}
      BY <2>2, <2>6, <2>5
    <2>8. Conclusion(maybe_transaction', sums, utx, Fee)
      BY <1>1, <2>2, <2>6, <2>4, <2>5 DEF Conclusion
    <2> QED BY <2>7, <2>8, <2>5
  <1>6. CASE finalize_dao_deposit
    <2> DEFINE rejected == FALSE
               parsed == [m EXCEPT !.dao_amount = utx.dao_output_amount]
    <2>1. parsed \in MaybeTransaction /\ rejected \in BOOLEAN
      BY <1>1 DEF MaybeTransaction, Tag, IInv, TypeOK, FieldsOK, UTx, Sums
    <2>2. parsed.tag = m.tag /\ parsed.dao_amount = utx.dao_output_amount
      BY <1>1 DEF MaybeTransaction
    <2>3. Finalize({"DAO_DEPOSIT"}, rejected, parsed, Fee)
      BY <1>6 DEF finalize_dao_deposit
    <2> HIDE DEF parsed
    <2> PICK p, n, f : p = parsed /\ n = maybe_transaction' /\ f = Fee
      OBVIOUS
    <2>4. ~rejected
      BY <2>1, <2>3 DEF Finalize, MaybeTransaction
    <2>5. /\ m.tag = "DAO_DEPOSIT" /\ sums' = sums /\ utx' = utx
          /\ maybe_transaction' = [parsed EXCEPT !.total_fee = Fee]
      BY <2>4, <2>3 DEF Finalize
    <2>6. /\ n.tag = p.tag /\ n.total_fee = f
          /\ n.amount_fst = p.amount_fst /\ n.amount_snd = p.amount_snd
          /\ n.dao_amount = p.dao_amount
          /\ n.input_count_fst = p.input_count_fst
          /\ n.input_count_snd = p.input_count_snd
      BY <2>1, <2>5, FeeFilled
    <2>7. \/ maybe_transaction'.tag = maybe_transaction.tag
          \/ /\ maybe_transaction.tag = "NOT_SET"
             /\ maybe_transaction'.tag \in {"PLAIN_TRANSFER", "SELF_TRANSFER", "MULTI_INPUT_TRANSFER"}
      BY <2>2, <2>6, <2>5
    <2>8. Conclusion(maybe_transaction', sums, utx, Fee)
      BY <1>1, <2>2, <2>6, <2>4, <2>5 DEF Conclusion
    <2> QED BY <2>7, <2>8, <2>5
  <1>7. CASE finalize_dao_prepare
    <2> DEFINE rejected == utx.dao_output_amount # sums.dao_input_amount
               parsed == [m EXCEPT !.dao_amount = utx.dao_output_amount]
    <2>1. parsed \in MaybeTransaction /\ rejected \in BOOLEAN
      BY <1>1 DEF MaybeTransaction, Tag, IInv, TypeOK, FieldsOK, UTx, Sums
    <2>2. parsed.tag = m.tag /\ parsed.dao_amount = utx.dao_output_amount
      BY <1>1 DEF MaybeTransaction
    <2>3. Finalize({"DAO_PREPARE"}, rejected, parsed, Fee)
      BY <1>7 DEF finalize_dao_prepare
    <2> HIDE DEF parsed
    <2> PICK p, n, f : p = parsed /\ n = maybe_transaction' /\ f = Fee
      OBVIOUS
    <2>4. ~rejected
      BY <2>1, <2>3 DEF Finalize, MaybeTransaction
    <2>5. /\ m.tag = "DAO_PREPARE" /\ sums' = sums /\ utx' = utx
          /\ maybe_transaction' = [parsed EXCEPT !.total_fee = Fee]
      BY <2>4, <2>3 DEF Finalize
    <2>6. /\ n.tag = p.tag /\ n.total_fee = f
          /\ n.amount_fst = p.amount_fst /\ n.amount_snd = p.amount_snd
          /\ n.dao_amount = p.dao_amount
          /\ n.input_count_fst = p.input_count_fst
          /\ n.input_count_snd = p.input_count_snd
      BY <2>1, <2>5, FeeFilled
    <2>7. \/ maybe_transaction'.tag = maybe_transaction.tag
          \/ /\ maybe_transaction.tag = "NOT_SET"
             /\ maybe_transaction'.tag \in {"PLAIN_TRANSFER", "SELF_TRANSFER", "MULTI_INPUT_TRANSFER"}
      BY <2>2, <2>6, <2>5
    <2>8. Conclusion(maybe_transaction', sums, utx, Fee)
      BY <1>1, <2>2, <2>6, <2>4, <2>5 DEF Conclusion
    <2> QED BY <2>7, <2>8, <2>5
  <1>8. CASE finalize_dao_withdraw
    <2> DEFINE rejected == utx.dao_output_amount # 0 \/ utx.plain_output_amount # 0
               parsed == [m EXCEPT !.dao_amount = sums.dao_input_amount]
    <2>1. parsed \in MaybeTransaction /\ rejected \in BOOLEAN
      BY <1>1 DEF MaybeTransaction, Tag, IInv, TypeOK, FieldsOK, UTx, Sums
    <2>2. parsed.tag = m.tag /\ parsed.dao_amount = sums.dao_input_amount
      BY <1>1 DEF MaybeTransaction
    <2>3. Finalize({"DAO_WITHDRAW"}, rejected, parsed, Negated(Fee)) 
      BY <1>8 DEF finalize_dao_withdraw
    <2> HIDE DEF parsed
    <2> PICK p, n, f : p = parsed /\ n = maybe_transaction' /\ f = Negated(Fee)
      OBVIOUS
    <2>4. ~rejected
      BY <2>1, <2>3 DEF Finalize, MaybeTransaction
    <2>5. /\ m.tag = "DAO_WITHDRAW" /\ sums' = sums /\ utx' = utx
          /\ maybe_transaction' = [parsed EXCEPT !.total_fee = Negated(Fee)]
      BY <2>4, <2>3 DEF Finalize
    <2>6. /\ n.tag = p.tag /\ n.total_fee = f
          /\ n.amount_fst = p.amount_fst /\ n.amount_snd = p.amount_snd
          /\ n.dao_amount = p.dao_amount
          /\ n.input_count_fst = p.input_count_fst
          /\ n.input_count_snd = p.input_count_snd
      BY <2>1, <2>5, FeeFilled
    <2>7. \/ maybe_transaction'.tag = maybe_transaction.tag
          \/ /\ maybe_transaction.tag = "NOT_SET"
             /\ maybe_transaction'.tag \in {"PLAIN_TRANSFER", "SELF_TRANSFER", "MULTI_INPUT_TRANSFER"}
      BY <2>2, <2>6, <2>5
    <2>8. Conclusion(maybe_transaction', sums, utx, Fee)
      BY <1>1, <2>2, <2>6, <2>4, <2>5 DEF Conclusion
    <2> QED BY <2>7, <2>8, <2>5
  <1> QED BY <1>3, <1>4, <1>5, <1>6, <1>7, <1>8 DEF finalize_raw_transaction

(* A spent DAO cell and an output join the operation.                      *)
LEMMA OperationSpends ==
    ASSUME NEW t, NEW tag, NEW spent, NEW i, NEW c, OperationIs(tag, t, spent, {}),
           c = SpentCells(t)[i], c.data.size = 8, c.data.nonzero \in BOOLEAN,
           NEW op, op = IF c.data.nonzero THEN "DAO_WITHDRAW" ELSE "DAO_PREPARE", tag \in {op, "NOT_SET"}
    PROVE  OperationIs(op, t, spent \cup {i}, {})
  <1>1. op \in {"DAO_WITHDRAW", "DAO_PREPARE"} /\ c.data.nonzero = (op = "DAO_WITHDRAW")
    OBVIOUS
  <1>2. tag = "NOT_SET" => spent = {}
    BY DEF OperationIs, Transfers
  <1>3. op = "DAO_WITHDRAW" => Holds(SpentCells(t), spent \cup {i}, TRUE)
    BY <1>1, <1>2 DEF OperationIs, Holds
  <1>4. op = "DAO_PREPARE" => Holds(SpentCells(t), spent \cup {i}, FALSE)
    BY <1>1, <1>2 DEF OperationIs, Holds
  <1>5. Holds(t.outputs, {}, TRUE)
    BY DEF Holds
  <1> QED BY <1>1, <1>3, <1>4, <1>5 DEF OperationIs, Transfers

LEMMA OperationPays ==
    ASSUME NEW t \in AnnotatedTransaction, NEW tag, NEW spent, NEW paid, NEW n \in DaoCells(t.outputs), NEW c,
           OperationIs(tag, t, spent, paid), c = t.outputs[n], c.data.size = 8,
           NEW op, op = IF \E m \in 1 .. n : t.outputs[m].data.nonzero THEN "DAO_PREPARE" ELSE "DAO_DEPOSIT",
           tag \in {op, "NOT_SET"}
    PROVE  OperationIs(op, t, spent, paid \cup {n})
  <1>1. DOMAIN t.outputs = 1 .. Len(t.outputs) /\ Len(t.outputs) \in Nat /\ n \in 1 .. Len(t.outputs)
    BY PaidTotals DEF DaoCells
  <1>2. c \in Cell /\ c.data.nonzero \in BOOLEAN
    BY <1>1, PaidTotals, CellFields
  <1>3. tag = "NOT_SET" => spent = {} /\ paid = {}
    BY DEF OperationIs, Transfers
  <1>4. CASE op = "DAO_DEPOSIT"
    <2>1. c.data.nonzero = FALSE
      BY <1>1, <1>2, <1>4
    <2>2. spent = {} /\ Holds(t.outputs, paid \cup {n}, FALSE)
      BY <1>3, <1>4, <2>1 DEF OperationIs, Holds
    <2> QED BY <1>4, <2>2 DEF OperationIs, Transfers
  <1>5. CASE op = "DAO_PREPARE"
    <2>1. SeparateDaoData(t) => c.data.nonzero = TRUE
      <3>1. PICK m \in 1 .. n : t.outputs[m].data.nonzero
        BY <1>5
      <3>2. m \in DOMAIN t.outputs /\ (m < n \/ m = n)
        BY <1>1
      <3> QED BY <1>2, <3>1, <3>2 DEF SeparateDaoData
    <2>2. Holds(SpentCells(t), spent, FALSE)
      BY <1>3, <1>5 DEF OperationIs, Holds
    <2>3. SeparateDaoData(t) => Holds(t.outputs, paid \cup {n}, TRUE)
      BY <1>3, <1>5, <2>1 DEF OperationIs, Holds
    <2> QED BY <1>5, <2>2, <2>3 DEF OperationIs, Transfers
  <1> QED BY <1>4, <1>5

(* finish_output_cell_data: a DAO cell among the outputs joins the         *)
(* operation that the data so far is taken for.                            *)
LEMMA DaoPaid ==
    ASSUME IInv, Reading, ParserStep, Live', at.cb = "finish_output_cell_data"
    PROVE  /\ OutputsCounted = at.j /\ OutputsCounted' = at.j + 1 /\ at.j + 1 \in DOMAIN tx.outputs
           /\ IF IsDao(tx.outputs[at.j + 1])
              THEN DaoJoins(IF NonzeroAmong(at.j + 1) THEN "DAO_PREPARE" ELSE "DAO_DEPOSIT", tx.outputs[at.j + 1])
              ELSE maybe_transaction'.tag = maybe_transaction.tag
  <1>1. Live /\ Follow /\ tx' = tx /\ ~maybe_transaction'.unsafe /\ maybe_transaction \in MaybeTransaction
    BY LiveStep DEF IInv, TypeOK, FieldsOK, Live
  <1> PICK c : c = cell
    OBVIOUS
  <1>2. /\ finish_output_cell_data /\ c \in Cell /\ c = tx.outputs[at.j + 1]
        /\ cell_state.is_dao <=> IsDao(c)
        /\ cell_state.dao_data_is_nonzero <=> NonzeroAmong(at.j + 1)
        /\ cell_state.data_size = IF c.data.size < 15 THEN c.data.size ELSE 15
    BY <1>1, OutputDataEnds
  <1>3. OutputsCounted = at.j /\ OutputsCounted' = at.j + 1 /\ at.j + 1 \in DOMAIN tx.outputs
    BY <1>1, OutputProgress
  <1>4. CASE IsDao(c)
    <2>1. c.data.size = 8
      BY <1>1, <1>2, <1>4, CellFields DEF finish_output_cell_data, Reject, MaybeTransaction
    <2>2. DaoJoins(IF NonzeroAmong(at.j + 1) THEN "DAO_PREPARE" ELSE "DAO_DEPOSIT", c)
      BY <1>1, <1>2, <1>4, <2>1 DEF finish_output_cell_data, JoinsOperation, Reject, MaybeTransaction, DaoJoins
    <2> QED BY <1>2, <1>3, <1>4, <2>2
  <1>5. CASE ~IsDao(c)
    <2>1. maybe_transaction'.tag = maybe_transaction.tag
      BY <1>1, <1>2, <1>5 DEF finish_output_cell_data, NoteContractData, MaybeTransaction
    <2> QED BY <1>2, <1>3, <1>5, <2>1
  <1> QED BY <1>4, <1>5

LEMMA OperationStep ==
    ASSUME IInv, Reading, OperationKnown, ParserStep
    PROVE  OperationKnown'
  <1> SUFFICES ASSUME Live' PROVE OperationKnown'
    BY DEF OperationKnown
  <1>1. /\ Live /\ Follow /\ tx' = tx /\ tx \in AnnotatedTransaction /\ at.i \in Nat /\ at.j \in Nat
        /\ ~maybe_transaction'.unsafe /\ PositionOK
    BY LiveStep, Where DEF IInv, TypeOK, Live
  <1> PICK t, tag : t = tx /\ tag = maybe_transaction.tag
    OBVIOUS
  <1> DEFINE spent(n) == DaoSeen(SpentCells(t), n)
             paid(m) == DaoSeen(t.outputs, m)
  <1>2. OperationIs(tag, t, spent(InputsCounted), paid(OutputsCounted))
    BY <1>1 DEF OperationKnown
  <1>3. SUFFICES OperationIs(maybe_transaction'.tag, t, spent(InputsCounted'), paid(OutputsCounted'))
    BY <1>1 DEF OperationKnown
  <1>4. /\ DOMAIN SpentCells(t) \subseteq Nat \ {0} /\ DOMAIN t.outputs \subseteq Nat \ {0}
    BY <1>1, SpentOK, PaidTotals
  <1>5. CASE at.cb = "finish_input_cell_data"
    <2>1. OutputsCounted' = OutputsCounted /\ OutputsCounted = 0 /\ paid(0) = {}
      BY <1>1, <1>4, <1>5, OutputProgress, Where, DaoSeenMore DEF OutputsCounted
    <2>2. CASE \E c \in Cell : DaoSpentNow(t, c)
      <3> PICK c \in Cell : DaoSpentNow(t, c)
        BY <2>2
      <3> DEFINE op == IF c.data.nonzero THEN "DAO_WITHDRAW" ELSE "DAO_PREPARE"
      <3>1. /\ spent(InputsCounted') = spent(at.i) \cup {at.i + 1} /\ InputsCounted = at.i
            /\ c = SpentCells(t)[at.i + 1] /\ DaoJoins(op, c)
        BY <1>1, <1>4, DaoSeenMore DEF DaoSpentNow
      <3>2. c.data.nonzero \in BOOLEAN /\ c.data.size = 8 /\ tag \in {op, "NOT_SET"} /\ maybe_transaction'.tag = op
        BY <3>1, CellFields DEF DaoJoins
      <3> PICK seen, i, o : seen = spent(at.i) /\ i = at.i + 1 /\ o = op
        OBVIOUS
      <3> HIDE DEF spent, paid
      <3>3. OperationIs(o, t, seen \cup {i}, {})
        <4>1. OperationIs(tag, t, seen, {})
          BY <1>2, <2>1, <3>1
        <4>2. /\ c = SpentCells(t)[i] /\ c.data.size = 8 /\ c.data.nonzero \in BOOLEAN
              /\ o = IF c.data.nonzero THEN "DAO_WITHDRAW" ELSE "DAO_PREPARE"
              /\ tag \in {o, "NOT_SET"}
          BY <3>1, <3>2
        <4> QED BY <4>1, <4>2, OperationSpends
      <3> QED BY <2>1, <3>1, <3>2, <3>3
    <2>3. CASE /\ spent(InputsCounted') = spent(InputsCounted)
               /\ maybe_transaction'.tag = maybe_transaction.tag
      BY <1>2, <2>1, <2>3
    <2> QED BY <1>1, <1>5, <2>2, <2>3, DaoSpent
  <1>6. CASE at.cb # "finish_input_cell_data"
    <2>1. spent(InputsCounted') = spent(InputsCounted)
      BY <1>1, <1>6, DaoSpent
    <2>2. CASE at.cb = "finish_output_cell_data"
      <3> PICK c, n : c = tx.outputs[at.j + 1] /\ n = at.j + 1
        OBVIOUS
      <3>1. OutputsCounted = at.j /\ OutputsCounted' = n /\ n \in DOMAIN t.outputs
        BY <1>1, <2>2, DaoPaid
      <3>2. CASE IsDao(c)
        <4>1. n \in DaoCells(t.outputs) /\ paid(n) = paid(at.j) \cup {n}
          BY <1>1, <1>4, <3>1, <3>2, DaoSeenMore DEF DaoCells
        <4> PICK op : op = IF \E m \in 1 .. n : t.outputs[m].data.nonzero THEN "DAO_PREPARE" ELSE "DAO_DEPOSIT"
          OBVIOUS
        <4>2. c.data.size = 8 /\ tag \in {op, "NOT_SET"} /\ maybe_transaction'.tag = op
          BY <1>1, <2>2, <3>2, DaoPaid DEF DaoJoins, NonzeroAmong
        <4> PICK seen, before : seen = spent(InputsCounted) /\ before = paid(at.j)
          OBVIOUS
        <4> HIDE DEF spent, paid
        <4>3. OperationIs(op, t, seen, before \cup {n})
          BY <1>1, <1>2, <3>1, <4>1, <4>2, OperationPays
        <4> QED BY <2>1, <3>1, <4>1, <4>2, <4>3
      <3>3. CASE ~IsDao(c)
        <4>1. paid(n) = paid(at.j)
          BY <1>1, <1>4, <3>1, <3>3, DaoSeenMore DEF DaoCells
        <4>2. maybe_transaction'.tag = tag
          BY <1>1, <2>2, <3>3, DaoPaid
        <4> QED BY <1>2, <2>1, <3>1, <4>1, <4>2
      <3> QED BY <3>2, <3>3
    <2>3. CASE at.cb # "finish_output_cell_data"
      <3>1. OutputsCounted' = OutputsCounted
        BY <1>1, <2>3, OutputProgress
      <3>2. \/ maybe_transaction'.tag = tag
            \/ tag \in Transfers /\ maybe_transaction'.tag \in Transfers
        <4>1. CASE at.cb = "output_end"
          <5> PICK c : c = cell
            OBVIOUS
          <5>1. OutputRow(c, tx)
            BY <1>1, <4>1, OutputCounted DEF Live
          <5> QED BY <5>1 DEF OutputRow, JoinsOperation, Transfers
        <4>2. CASE at.cb = "finalize_raw_transaction"
          BY <1>1, <4>2, HashActions, Concludes DEF Transfers
        <4>3. CASE at.cb \notin {"output_end", "finalize_raw_transaction"}
          BY <1>6, <2>3, <4>3, FieldsStay
        <4> QED BY <4>1, <4>2, <4>3
      <3> HIDE DEF spent, paid
      <3> QED BY <1>2, <2>1, <3>1, <3>2 DEF OperationIs, Transfers
    <2> QED BY <2>2, <2>3
  <1> QED BY <1>5, <1>6

(* What is concluded stays so to the end of the witnesses.                 *)
LEMMA Concluding ==
    ASSUME IInv, ParserStep, Follow, tx' = tx, Concluded'
    PROVE  \/ at.cb = "finalize_raw_transaction" /\ ~Concluded
           \/ at.cb = "witnesses" /\ Concluded
  <1>1. Onward /\ PositionOK' /\ PositionOK
    BY Advance DEF Onward, IInv, TypeOK
  <1> QED BY <1>1, DataMoves DEF Onward, Goes, Position, Concluded

LEMMA ConcludedStep ==
    ASSUME IInv, Reading, ConcludedKnown, ParserStep
    PROVE  ConcludedKnown'
  <1> SUFFICES ASSUME Live', Concluded' PROVE Conclusion(maybe_transaction', sums', utx', Fee')
    BY DEF ConcludedKnown
  <1>1. Live /\ Follow /\ tx' = tx /\ ~maybe_transaction'.unsafe
    BY LiveStep DEF Live
  <1>2. CASE at.cb = "finalize_raw_transaction"
    <2>1. Conclusion(maybe_transaction', sums, utx, Fee) /\ sums' = sums /\ utx' = utx
      BY <1>1, <1>2, HashActions, Concludes
    <2>2. Fee' = Fee
      BY <2>1 DEF Fee
    <2> QED BY <2>1, <2>2
  <1>3. CASE at.cb = "witnesses" /\ Concluded
    <2>1. UNCHANGED <<maybe_transaction, sums, utx>>
      BY <1>3, HashActions DEF witnesses
    <2>2. Fee' = Fee
      BY <2>1 DEF Fee
    <2> QED BY <1>1, <1>3, <2>1, <2>2 DEF ConcludedKnown
  <1> QED BY <1>1, <1>2, <1>3, Concluding

-----------------------------------------------------------------------------
(* The operation and the number of rows in the table of outputs.           *)

RowsAre(u, tag) ==
    /\ tag # "MULTI_OUTPUT_TRANSFER" => u.output_count <= 1
    /\ tag = "MULTI_OUTPUT_TRANSFER" => u.output_count >= 2 /\ ~u.is_self_transfer
RowsKnown ==
    Live => IF Outgoing THEN RowsAre(utx, maybe_transaction.tag)
            ELSE maybe_transaction.tag # "MULTI_OUTPUT_TRANSFER"

(* The multi-output operation is only entered by a second row.             *)
LEMMA MultiOutput ==
    ASSUME IInv, Reading, ParserStep, Live', at.cb # "output_end"
    PROVE  maybe_transaction.tag = "MULTI_OUTPUT_TRANSFER" <=> maybe_transaction'.tag = "MULTI_OUTPUT_TRANSFER"
  <1>1. Live /\ Follow /\ tx' = tx /\ ~maybe_transaction'.unsafe
    BY LiveStep DEF Live
  <1>2. CASE at.cb = "finish_input_cell_data"
    BY <1>1, <1>2, DaoSpent DEF DaoSpentNow, DaoJoins
  <1>3. CASE at.cb = "finish_output_cell_data"
    BY <1>1, <1>3, DaoPaid DEF DaoJoins
  <1>4. CASE at.cb = "finalize_raw_transaction"
    BY <1>1, <1>4, HashActions, Concludes
  <1>5. CASE at.cb \notin {"finish_input_cell_data", "finish_output_cell_data", "finalize_raw_transaction"}
    BY <1>5, FieldsStay
  <1> QED BY <1>2, <1>3, <1>4, <1>5

(* While the outputs are read, the flag tells whether the table is empty.  *)
LEMMA FirstRow ==
    ASSUME IInv, at.vec = "outputs"
    PROVE  /\ utx \in UTx /\ utx.output_count \in Nat /\ ~utx.is_self_transfer /\ OutputTableAddsUp
           /\ HasFlag("HAS_DESTINATION_ADDRESS") <=> utx.output_count > 0
  BY Where DEF IInv, TypeOK, FieldsOK, Ledger, SelfLate, OutputTableAddsUp, UTx, MAX_OUTPUTS

LEMMA RowsStep ==
    ASSUME IInv, Reading, RowsKnown, ParserStep
    PROVE  RowsKnown'
  <1> SUFFICES ASSUME Live' PROVE RowsKnown'
    BY DEF RowsKnown
  <1>1. /\ Live /\ Follow /\ tx' = tx /\ ~maybe_transaction'.unsafe /\ PositionOK /\ utx \in UTx
        /\ utx.output_count \in Nat
    BY LiveStep DEF IInv, TypeOK, FieldsOK, Live, UTx, MAX_OUTPUTS
  <1> DEFINE multi == maybe_transaction.tag = "MULTI_OUTPUT_TRANSFER"
             more == maybe_transaction'.tag = "MULTI_OUTPUT_TRANSFER"
  <1>2. CASE ~Outgoing'
    <2>1. ~Outgoing /\ at.cb # "output_end"
      BY <1>1, <1>2, VectorsInOrder, Where DEF Outgoing, Vectors
    <2> QED BY <1>1, <1>2, <2>1, MultiOutput DEF RowsKnown
  <1>3. CASE Outgoing'
    <2>1. SUFFICES RowsAre(utx', maybe_transaction'.tag)
      BY <1>3 DEF RowsKnown
    <2>2. CASE at.cb = "finish_inputs" /\ utx' = ZeroUTx
      <3>1. ~multi
        BY <1>1, <2>2, Where DEF RowsKnown, Outgoing
      <3>2. ~more
        BY <2>2, <3>1, MultiOutput
      <3> QED BY <2>2, <3>2 DEF RowsAre, ZeroUTx
    <2>3. CASE Outgoing /\ at.cb # "finish_inputs"
      <3>1. RowsAre(utx, maybe_transaction.tag)
        BY <1>1, <2>3 DEF RowsKnown
      <3>2. CASE at.cb = "output_end"
        <4> PICK c : c = cell
          OBVIOUS
        <4>1. OutputRow(c, tx) /\ OutputAmounts(c, tx)
          BY <1>1, <3>2, OutputCounted DEF Live
        <4>2. /\ HasFlag("HAS_DESTINATION_ADDRESS") <=> utx.output_count > 0
              /\ ~utx.is_self_transfer /\ ~utx'.is_self_transfer
          BY <1>1, <3>2, <4>1, FirstRow, Where DEF OutputAmounts
        <4> QED BY <1>1, <3>1, <4>1, <4>2 DEF OutputRow, RowsAre
      <3>3. CASE at.cb = "outputs_end"
        <4>1. maybe_transaction'.tag = maybe_transaction.tag
          BY <1>1, <3>3, OutputsEnded
        <4>2. CASE SelfOnly
          BY <1>1, <3>1, <3>3, <4>1, <4>2, OutputsEnded DEF RowsAre
        <4>3. CASE ~SelfOnly
          BY <1>1, <3>1, <3>3, <4>1, <4>3, OutputsEnded
        <4> QED BY <4>2, <4>3
      <3>4. CASE at.cb \notin {"output_end", "outputs_end"}
        <4>1. SameTable(utx', utx)
          BY <2>3, <3>4, TableStays
        <4> QED BY <3>1, <3>4, <4>1, MultiOutput DEF SameTable, RowsAre
      <3> QED BY <3>2, <3>3, <3>4
    <2> QED BY <1>1, <1>3, <2>2, <2>3, OutgoingStep
  <1> QED BY <1>2, <1>3

-----------------------------------------------------------------------------
(* A transfer to oneself is one without another recipient.                 *)

SelfIs(u, t) == NoDao(t) => (u.is_self_transfer <=> PaidToOthers(t) = {})
SelfKnown == Live /\ at.vec = "outputs_data" => SelfIs(utx, tx)

LEMMA SelfStep ==
    ASSUME IInv, Reading, FlagsKnown, AmountsKnown, OperationKnown, SelfKnown, ParserStep
    PROVE  SelfKnown'
  <1> SUFFICES ASSUME Live', at'.vec = "outputs_data" PROVE SelfKnown'
    BY DEF SelfKnown
  <1>1. /\ Live /\ Follow /\ tx' = tx /\ tx \in AnnotatedTransaction /\ ~maybe_transaction'.unsafe /\ PositionOK
    BY LiveStep, Where DEF IInv, TypeOK, Live
  <1> PICK t : t = tx
    OBVIOUS
  <1>2. SUFFICES ASSUME NoDao(t) PROVE utx'.is_self_transfer <=> PaidToOthers(t) = {}
    BY <1>1 DEF SelfKnown, SelfIs
  <1>3. CASE at.vec = "outputs_data"
    <2>1. SameTable(utx', utx)
      BY <1>1, <1>3, TableStays, Where
    <2> QED BY <1>1, <1>2, <1>3, <2>1 DEF SelfKnown, SelfIs, SameTable
  <1>4. CASE at.vec # "outputs_data"
    <2>1. at.cb = "outputs_end" /\ at.vec = "outputs" /\ at.j = Len(t.outputs)
      <3>1. at.vec = "outputs"
        <4>1. at.vec \in Vectors
          BY <1>1, Where
        <4> QED BY <1>1, <1>4, <4>1, VectorsInOrder DEF Vectors, Position
      <3>2. at.cb \in {"output_start", "outputs", "outputs_end"} \cup CellLevel
        BY <1>1, <3>1 DEF PositionOK, AtOutputs, CellLevel, AfterCapacity, AfterLockCode, AfterLockHash, AfterArgs,
                          AfterTypeCode, AfterTypeHash, CellCallbacks, TypeCallbacks
      <3>3. CASE at.cb \in {"output_start", "outputs"}
        BY <1>1, <1>4, <3>1, <3>3, VectorMoves DEF Goes, Position
      <3>4. CASE at.cb \in CellLevel
        BY <1>1, <1>4, <3>1, <3>4, CellMoves
        DEF Goes, Position, InSource, LockEnd, CellEnd, To, CellLevel, AfterCapacity, AfterLockCode, AfterLockHash,
            AfterArgs, AfterTypeCode, AfterTypeHash
      <3> QED BY <1>1, <3>1, <3>2, <3>3, <3>4 DEF Reading, EndsReached
    <2>2. /\ ~utx.is_self_transfer /\ FlagsAre(maybe_transaction.flags, t, Len(t.outputs))
      BY <1>1, <2>1, FirstRow DEF FlagsKnown, Outgoing, OutputsScripted
    <2>3. utx'.is_self_transfer <=> SelfOnly
      BY <1>1, <2>1, <2>2, OutputsEnded
    <2>4. utx.dao_bitmask = {}
      <3>1. utx.dao_bitmask = DaoAmong(Len(t.outputs))
        BY <1>1, <2>1 DEF Reading, OutputsKnown
      <3>2. \A n \in 0 .. MAX_CELLS : n < Len(t.outputs) => n + 1 \in DOMAIN t.outputs /\ ~IsDao(t.outputs[n + 1])
        BY <1>1, <1>2, PaidTotals, Lengths DEF NoDao, DaoCells
      <3> QED BY <1>1, <3>1, <3>2, Lengths DEF DaoAmong
    <2>5. maybe_transaction.tag \notin {"DAO_PREPARE", "DAO_WITHDRAW"}
      BY <1>1, <1>2 DEF OperationKnown, OperationIs, NoDao, DaoSeen
    <2>6. /\ DOMAIN t.outputs = 1 .. Len(t.outputs) /\ Len(t.outputs) \in Nat \ {0}
          /\ PaidToOthers(t) \subseteq DOMAIN t.outputs
      BY <1>1, PaidTotals, Lengths DEF PaidToOthers, PlainCells
    <2>7. HasFlag("HAS_DESTINATION_ADDRESS") <=> PaidToOthers(t) # {}
      BY <2>2, <2>6 DEF FlagsAre, HasFlag
    <2>8. PaidToOthers(t) = {} => HasFlag("HAS_CHANGE_ADDRESS")
      <3> SUFFICES ASSUME PaidToOthers(t) = {} PROVE HasFlag("HAS_CHANGE_ADDRESS")
        OBVIOUS
      <3>1. 1 \in DOMAIN t.outputs /\ 1 <= Len(t.outputs)
        BY <2>6
      <3>2. PaidToChange(t, t.outputs[1])
        BY <1>2, <3>1 DEF NoDao, DaoCells, PaidToOthers, PlainCells
      <3> QED BY <2>2, <3>1, <3>2 DEF FlagsAre, HasFlag
    <2> QED BY <2>3, <2>4, <2>5, <2>7, <2>8 DEF SelfOnly
  <1> QED BY <1>3, <1>4

-----------------------------------------------------------------------------
(* The table of outputs: its rows are the payments so far.                 *)

RowIs(o, row, t) ==
    /\ o.capacity = row.capacity /\ Address(o) = row.address
    /\ \E n \in PaidToOthers(t) :
        o.destination = t.outputs[n].lock.args /\ o.is_multisig = (t.outputs[n].lock.code_hash = "multisig")
TableIs(table, count, rows, t) ==
    /\ count = Len(rows)
    /\ \A s \in Slot : s < count => RowIs(table[s], rows[s + 1], t)
TableKnown ==
    Live /\ Outgoing /\ OneTimelock(tx) /\ ~utx.is_self_transfer =>
        TableIs(utx.outputs, utx.output_count, PaymentsAmong(tx)[OutputsScripted], tx)

(* The address of a proper lock is that of the script that opens it.        *)
LEMMA ProperAddress ==
    ASSUME NEW c \in Cell, NEW owner, ProperLock(c, owner)
    PROVE  AddressOf(c) = IF c.lock.code_hash = "multisig"
                          THEN [script |-> "multisig", lock_arg |-> c.lock.args]
                          ELSE [script |-> "sighash",
                                lock_arg |-> [hash |-> c.lock.args.hash, lock_period |-> NoPeriod]]
  <1>1. c.lock.args \in LockArg /\ (c.lock.size <= 20 => c.lock.args.lock_period = NoPeriod)
    BY DEF Cell, LockScript
  <1>2. CASE MultisigLock(c)
    BY <1>2 DEF AddressOf, KeyLock, MultisigLock
  <1>3. CASE KeyLock(c)
    <2>1. c.lock.args = [hash |-> c.lock.args.hash, lock_period |-> NoPeriod]
      BY <1>1, <1>3 DEF KeyLock, LockArg
    <2> QED BY <1>3, <2>1 DEF AddressOf, KeyLock
  <1> QED BY <1>2, <1>3 DEF ProperLock

LEMMA OthersProper ==
    ASSUME NEW t \in AnnotatedTransaction, ProperLocks(t), NEW n \in PaidToOthers(t)
    PROVE  t.outputs[n] \in Cell /\ ProperLock(t.outputs[n], t.changePath)
  BY ProperOutput DEF PaidToOthers, PlainCells

(* SameAsLast compares hash and kind of script, which is to compare the    *)
(* addresses.                                                              *)
LEMMA RowMatches ==
    ASSUME NEW t \in AnnotatedTransaction, ProperLocks(t), OneTimelock(t), NEW n \in PaidToOthers(t), NEW c, c = t.outputs[n],
           NEW o \in Output, NEW row, RowIs(o, row, t)
    PROVE  SameRow(o, c) <=> row.address = AddressOf(c)
  <1>1. PICK m \in PaidToOthers(t) : /\ o.destination = t.outputs[m].lock.args
                                     /\ o.is_multisig = (t.outputs[m].lock.code_hash = "multisig")
    BY DEF RowIs
  <1>2. row.address = Address(o)
    BY DEF RowIs
  <1>3. o.is_multisig /\ SameRow(o, c) => o.destination = c.lock.args
    BY <1>1 DEF OneTimelock, SameRow
  <1>4. AddressOf(c) = IF c.lock.code_hash = "multisig"
                       THEN [script |-> "multisig", lock_arg |-> c.lock.args]
                       ELSE [script |-> "sighash",
                             lock_arg |-> [hash |-> c.lock.args.hash, lock_period |-> NoPeriod]]
    BY OthersProper, ProperAddress
  <1> QED BY <1>1, <1>2, <1>3, <1>4 DEF SameRow, Address, Output

(* An entry that a payment is added to, and one that it starts.            *)
LEMMA EntryAdded ==
    ASSUME NEW t, NEW o \in Output, NEW row \in PaymentRow, RowIs(o, row, t), NEW c
    PROVE  RowIs([o EXCEPT !.capacity = Add(@, c.capacity)], [row EXCEPT !.capacity = Add(@, c.capacity)], t)
  <1> DEFINE p == [o EXCEPT !.capacity = Add(@, c.capacity)]
             r == [row EXCEPT !.capacity = Add(@, c.capacity)]
  <1>1. /\ p.capacity = Add(o.capacity, c.capacity) /\ p.destination = o.destination /\ p.is_multisig = o.is_multisig
        /\ r.capacity = Add(row.capacity, c.capacity) /\ r.address = row.address
    BY DEF Output, PaymentRow
  <1>2. Address(p) = Address(o)
    BY <1>1 DEF Address
  <1> HIDE DEF p, r
  <1>3. RowIs(p, r, t)
    BY <1>1, <1>2 DEF RowIs
  <1> QED BY <1>3 DEF p, r

LEMMA EntryStarted ==
    ASSUME NEW t \in AnnotatedTransaction, ProperLocks(t), NEW n \in PaidToOthers(t), NEW c \in Cell,
           c = t.outputs[n], NEW o,
           o = [ZeroOutput EXCEPT !.capacity = Add(@, c.capacity), !.destination = c.lock.args,
                                  !.is_multisig = (c.lock.code_hash = "multisig")]
    PROVE  RowIs(o, [capacity |-> c.capacity, address |-> AddressOf(c)], t)
  <1>1. Add(0, c.capacity) = c.capacity
    BY AddZero, CellFields
  <1>2. o.capacity = c.capacity /\ o.destination = c.lock.args /\ o.is_multisig = (c.lock.code_hash = "multisig")
    BY <1>1 DEF ZeroOutput
  <1>3. Address(o) = AddressOf(c)
    BY <1>2, OthersProper, ProperAddress DEF Address
  <1> QED BY <1>2, <1>3 DEF RowIs

LEMMA TableAdds ==
    ASSUME NEW t \in AnnotatedTransaction, ProperLocks(t), OneTimelock(t), NEW n \in PaidToOthers(t), NEW c \in Cell,
           c = t.outputs[n],
           NEW rows \in Seq(PaymentRow), NEW table \in [Slot -> Output], NEW count \in 1 .. MAX_OUTPUTS,
           TableIs(table, count, rows, t), SameRow(table[count - 1], c)
    PROVE  TableIs(Added(table, c, count - 1), count, Pay(rows, c), t)
  <1>1. /\ count = Len(rows) /\ count \in Nat /\ count - 1 \in Slot /\ count \in DOMAIN rows /\ rows # <<>>
        /\ count - 1 < count /\ (count - 1) + 1 = count
    BY DEF TableIs, Slot, MAX_OUTPUTS
  <1>2. RowIs(table[count - 1], rows[count], t) /\ table[count - 1] \in Output /\ rows[count] \in PaymentRow
    BY <1>1 DEF TableIs
  <1>3. rows[count].address = AddressOf(c)
    BY <1>2, RowMatches
  <1> DEFINE o == [table[count - 1] EXCEPT !.capacity = Add(@, c.capacity)]
             row == [rows[count] EXCEPT !.capacity = Add(@, c.capacity)]
  <1>4. RowIs(o, row, t)
    BY <1>2, EntryAdded
  <1>5. Pay(rows, c) = [rows EXCEPT ![count] = row]
    BY <1>1, <1>3 DEF Pay
  <1>6. Added(table, c, count - 1) = [table EXCEPT ![count - 1] = o]
    BY DEF Added
  <1> HIDE DEF o, row
  <1>7. /\ Len(Pay(rows, c)) = count
        /\ \A k \in 1 .. count : Pay(rows, c)[k] = IF k = count THEN row ELSE rows[k]
    BY <1>1, <1>5
  <1>8. \A s \in Slot : Added(table, c, count - 1)[s] = IF s = count - 1 THEN o ELSE table[s]
    BY <1>6
  <1>9. ASSUME NEW s \in Slot, s < count
        PROVE  RowIs(Added(table, c, count - 1)[s], Pay(rows, c)[s + 1], t)
    <2>1. s \in Nat /\ s + 1 \in 1 .. count /\ (s + 1 = count <=> s = count - 1)
      BY <1>1, <1>9 DEF Slot, MAX_OUTPUTS
    <2>2. RowIs(table[s], rows[s + 1], t)
      BY <1>9 DEF TableIs
    <2> QED BY <1>4, <1>7, <1>8, <2>1, <2>2
  <1> QED BY <1>7, <1>9 DEF TableIs

LEMMA TableStarts ==
    ASSUME NEW t \in AnnotatedTransaction, ProperLocks(t), OneTimelock(t), NEW n \in PaidToOthers(t), NEW c \in Cell,
           c = t.outputs[n],
           NEW rows \in Seq(PaymentRow), NEW table \in [Slot -> Output], NEW count \in 0 .. MAX_OUTPUTS - 1,
           TableIs(table, count, rows, t), count = 0 \/ ~SameRow(table[count - 1], c), table[count] = ZeroOutput
    PROVE  TableIs(Stored(table, c, count), count + 1, Pay(rows, c), t)
  <1>1. count = Len(rows) /\ count \in Nat /\ count \in Slot
    BY DEF TableIs, Slot, MAX_OUTPUTS
  <1> DEFINE row == [capacity |-> c.capacity, address |-> AddressOf(c)]
             o == [ZeroOutput EXCEPT !.capacity = Add(@, c.capacity), !.destination = c.lock.args,
                                     !.is_multisig = (c.lock.code_hash = "multisig")]
  <1>2. Pay(rows, c) = Append(rows, row)
    <2>1. CASE count = 0
      <3>1. rows = <<>>
        BY <1>1, <2>1
      <3> QED BY <3>1, PayOK
    <2>2. CASE count # 0
      <3>1. count - 1 \in Slot /\ count - 1 < count /\ (count - 1) + 1 = count
        BY <1>1, <2>2 DEF Slot, MAX_OUTPUTS
      <3>2. RowIs(table[count - 1], rows[count], t) /\ table[count - 1] \in Output
        BY <3>1 DEF TableIs
      <3>3. rows[count].address # AddressOf(c)
        BY <2>2, <3>2, RowMatches
      <3> QED BY <1>1, <3>3, PayOK
    <2> QED BY <2>1, <2>2
  <1>3. RowIs(o, row, t)
    BY EntryStarted
  <1>4. Stored(table, c, count) = [table EXCEPT ![count] = o]
    BY <1>1 DEF Stored, ZeroOutput
  <1> HIDE DEF o, row
  <1>5. /\ Len(Pay(rows, c)) = count + 1
        /\ \A k \in 1 .. count + 1 : Pay(rows, c)[k] = IF k = count + 1 THEN row ELSE rows[k]
    BY <1>1, <1>2
  <1>6. \A s \in Slot : Stored(table, c, count)[s] = IF s = count THEN o ELSE table[s]
    BY <1>4
  <1>7. ASSUME NEW s \in Slot, s < count + 1
        PROVE  RowIs(Stored(table, c, count)[s], Pay(rows, c)[s + 1], t)
    <2>1. s \in Nat /\ s + 1 \in 1 .. count + 1 /\ (s + 1 = count + 1 <=> s = count) /\ (s # count => s < count)
      BY <1>1, <1>7 DEF Slot, MAX_OUTPUTS
    <2>2. s # count => RowIs(table[s], rows[s + 1], t)
      BY <1>7, <2>1 DEF TableIs
    <2> QED BY <1>3, <1>5, <1>6, <2>1, <2>2
  <1> QED BY <1>5, <1>7 DEF TableIs

LEMMA TableStep ==
    ASSUME IInv, Reading, TableKnown, ParserStep
    PROVE  TableKnown'
  <1> SUFFICES ASSUME Live', Outgoing', OneTimelock(tx)', ~utx'.is_self_transfer PROVE TableKnown'
    BY DEF TableKnown
  <1>1. /\ Live /\ Follow /\ tx' = tx /\ tx \in AnnotatedTransaction /\ at.j \in Nat /\ ~maybe_transaction'.unsafe
        /\ PositionOK /\ OneTimelock(tx) /\ ProperLocks(tx)
    BY LiveStep, Where DEF IInv, TypeOK, Live, OneTimelock
  <1> PICK t, pays : t = tx /\ pays = PaymentsAmong(tx)
    OBVIOUS
  <1>2. IsPayments(pays, t)
    BY <1>1, PaymentsIs
  <1>3. SUFFICES TableIs(utx'.outputs, utx'.output_count, pays[OutputsScripted'], t)
    BY <1>1 DEF TableKnown
  <1>4. CASE at.cb = "finish_inputs"
    <2>1. utx' = ZeroUTx /\ pays[OutputsScripted'] = <<>>
      BY <1>1, <1>2, <1>4, OutgoingStep DEF IsPayments
    <2> QED BY <2>1 DEF ZeroUTx, TableIs, Slot
  <1>5. CASE at.cb # "finish_inputs"
    <2>0. Outgoing /\ utx \in UTx
      BY <1>1, <1>5, OutgoingStep DEF IInv, TypeOK, FieldsOK
    <2>1. CASE at.cb = "output_end"
      <3> PICK c, table, count, n, rows : /\ c = cell /\ table = utx.outputs /\ count = utx.output_count
                                          /\ n = at.j + 1 /\ rows = pays[at.j]
        OBVIOUS
      <3>1. OutputAmounts(c, t) /\ OutputRow(c, t)
        BY <1>1, <2>1, OutputCounted DEF Live
      <3>2. /\ OutputsScripted = at.j /\ OutputsScripted' = n /\ n \in DOMAIN t.outputs /\ c = t.outputs[n]
        BY <1>1, <2>1, OutputProgress
      <3>3. /\ table \in [Slot -> Output] /\ count \in 0 .. MAX_OUTPUTS /\ c \in Cell
            /\ rows \in Seq(PaymentRow) /\ (n \in PaidToOthers(t) <=> Pays(t, c))
            /\ pays[n] = IF n \in PaidToOthers(t) THEN Pay(rows, t.outputs[n]) ELSE rows
        <4>1. table \in [Slot -> Output] /\ count \in 0 .. MAX_OUTPUTS
          BY <2>0 DEF UTx
        <4>2. c \in Cell /\ (n \in PaidToOthers(t) <=> Pays(t, c))
          BY <1>1, <3>2, PaidTotals
        <4>3. rows \in Seq(PaymentRow) /\ pays[n] = IF n \in PaidToOthers(t) THEN Pay(rows, t.outputs[n]) ELSE rows
          BY <1>1, <1>2 DEF IsPayments
        <4> QED BY <4>1, <4>2, <4>3
      <3>4. /\ HasFlag("HAS_DESTINATION_ADDRESS") <=> count > 0
            /\ ~utx.is_self_transfer /\ \A s \in Slot : s >= count => table[s] = ZeroOutput
        BY <1>1, <2>1, FirstRow, Where DEF OutputTableAddsUp
      <3>5. TableIs(table, count, rows, t)
        BY <1>1, <2>0, <3>2, <3>4 DEF TableKnown
      <3>6. CASE ~Pays(t, c)
        BY <3>1, <3>2, <3>3, <3>5, <3>6 DEF OutputRow
      <3>7. CASE Pays(t, c) /\ HasFlag("HAS_DESTINATION_ADDRESS") /\ SameRow(table[count - 1], c)
        <4>1. utx'.outputs = Added(table, c, count - 1) /\ utx'.output_count = count /\ count \in 1 .. MAX_OUTPUTS
          BY <3>1, <3>3, <3>4, <3>7 DEF OutputRow
        <4>2. TableIs(Added(table, c, count - 1), count, Pay(rows, c), t)
          BY <1>1, <3>2, <3>3, <3>5, <3>7, <4>1, TableAdds
        <4> QED BY <3>2, <3>3, <3>7, <4>1, <4>2
      <3>8. CASE Pays(t, c) /\ ~(HasFlag("HAS_DESTINATION_ADDRESS") /\ SameRow(table[count - 1], c))
        <4>1. /\ utx'.outputs = Stored(table, c, count) /\ utx'.output_count = count + 1
              /\ count \in 0 .. MAX_OUTPUTS - 1 /\ (count = 0 \/ ~SameRow(table[count - 1], c))
          BY <3>1, <3>3, <3>4, <3>8 DEF OutputRow, MAX_OUTPUTS
        <4>2. table[count] = ZeroOutput
          BY <3>4, <4>1 DEF Slot, MAX_OUTPUTS
        <4>3. TableIs(Stored(table, c, count), count + 1, Pay(rows, c), t)
          BY <1>1, <3>2, <3>3, <3>5, <3>8, <4>1, <4>2, TableStarts
        <4> QED BY <3>2, <3>3, <3>8, <4>1, <4>3
      <3> QED BY <3>6, <3>7, <3>8
    <2>2. CASE at.cb = "outputs_end"
      <3>1. utx' = utx
        BY <1>1, <2>2, OutputsEnded
      <3>2. OutputsScripted' = OutputsScripted
        BY <1>1, <2>2, OutputProgress
      <3> QED BY <1>1, <2>0, <3>1, <3>2 DEF TableKnown
    <2>3. CASE at.cb \notin {"output_end", "outputs_end"}
      <3>1. SameTable(utx', utx)
        BY <1>5, <2>3, TableStays
      <3>2. OutputsScripted' = OutputsScripted
        BY <1>1, <2>3, OutputProgress
      <3> QED BY <1>1, <2>0, <3>1, <3>2 DEF TableKnown, SameTable
    <2> QED BY <2>1, <2>2, <2>3
  <1> QED BY <1>4, <1>5

-----------------------------------------------------------------------------
(* At the review everything has been read: what the counters of the parser *)
(* are then for an ordinary transaction.                                   *)

Ready(m, s, u, owner, t) ==
    LET spent == DaoCells(SpentCells(t))
        paid == DaoCells(t.outputs)
    IN  /\ Ordinary(t) /\ u \in UTx
        /\ SpentIs(s, t, Len(t.inputs)) /\ s.distinct_input_sources = SourceCount(t)
        /\ OursIs(m.input_count_fst, t, Len(t.inputs))
        /\ AmountsAre(u, t, Len(t.outputs)) /\ OwnerIs(owner, t, spent, paid)
        /\ OperationIs(m.tag, t, spent, paid) /\ Conclusion(m, s, u, FeeOf(t))
        /\ RowsAre(u, m.tag) /\ SelfIs(u, t)
        /\ ~u.is_self_transfer =>
                /\ TableIs(u.outputs, u.output_count, Payments(t), t)
                /\ PaidToOthers(t) # {} <=> u.output_count > 0

(* What is paid is what goes to others, to DAO cells and to change.         *)
LEMMA PaidSplit ==
    ASSUME NEW t \in AnnotatedTransaction, NEW A, NEW B, A \subseteq DOMAIN t.outputs, B \subseteq DOMAIN t.outputs,
           A \cap B = {}
    PROVE  /\ TotalPaid(t, A \cup B) = Add(TotalPaid(t, A), TotalPaid(t, B))
           /\ TotalPaid(t, A) \in Word
  <1>1. Len(t.outputs) \in Nat
    BY Lengths
  <1>2. Amounts(t.outputs, A \cup B)
    BY PaidTotals, CellFields DEF Amounts
  <1>3. \A n \in Nat : Totals(t.outputs, A \cup B)[n] = Add(Totals(t.outputs, A)[n], Totals(t.outputs, B)[n])
    BY <1>2, TotalsSplit
  <1>4. IsTotals(Totals(t.outputs, A), t.outputs, A)
    BY PaidTotals
  <1> QED BY <1>1, <1>3, <1>4 DEF TotalPaid, IsTotals

(* The fee that the totals give.                                           *)
LEMMA FeeAdds ==
    ASSUME NEW t \in AnnotatedTransaction, NEW s, NEW u, SpentIs(s, t, Len(t.inputs)), AmountsAre(u, t, Len(t.outputs))
    PROVE  Minus(Add(s.input_amount_snd, s.dao_input_amount),
                 Add(Add(u.plain_output_amount, u.dao_output_amount), u.change_amount)) = FeeOf(t)
  <1>1. Len(t.inputs) \in Nat /\ Len(t.outputs) \in Nat
    BY Lengths
  <1>2. TotalSpent(t, SpentAt(t)) = Add(s.input_amount_snd, s.dao_input_amount)
    <2> PICK cells, plain, dao : cells = SpentCells(t) /\ plain = PlainCells(cells) /\ dao = DaoCells(cells)
      OBVIOUS
    <2>1. plain \cap dao = {} /\ plain \cup dao = SpentAt(t)
      BY SpentOK DEF PlainCells, DaoCells
    <2>2. Amounts(cells, plain \cup dao)
      BY <2>1, SpentOK, CellFields DEF Amounts
    <2>3. Totals(cells, plain \cup dao)[Len(t.inputs)] =
            Add(Totals(cells, plain)[Len(t.inputs)], Totals(cells, dao)[Len(t.inputs)])
      BY <1>1, <2>1, <2>2, TotalsSplit
    <2> QED BY <2>1, <2>3 DEF TotalSpent, SpentIs
  <1>3. TotalPaid(t, DOMAIN t.outputs) = Add(Add(u.plain_output_amount, u.dao_output_amount), u.change_amount)
    <2> PICK dao, others, change : dao = DaoCells(t.outputs) /\ others = PaidToOthers(t) /\ change = ToChange(t)
      OBVIOUS
    <2>1. /\ (others \cup dao) \cap change = {} /\ others \cap dao = {} /\ change \cap dao = {}
          /\ (others \cup dao) \cup change = DOMAIN t.outputs
          /\ others \subseteq DOMAIN t.outputs /\ dao \subseteq DOMAIN t.outputs /\ change \subseteq DOMAIN t.outputs
          /\ others \cup dao \subseteq DOMAIN t.outputs
      BY DEF PlainCells, DaoCells, PaidToOthers, ToChange
    <2> PICK both : both = others \cup dao
      OBVIOUS
    <2>2. TotalPaid(t, both \cup change) = Add(TotalPaid(t, both), TotalPaid(t, change))
      BY <2>1, PaidSplit
    <2>3. TotalPaid(t, others \cup dao) = Add(TotalPaid(t, others), TotalPaid(t, dao))
      BY <2>1, PaidSplit
    <2>4. /\ TotalPaid(t, change \cup dao) = Add(TotalPaid(t, change), TotalPaid(t, dao))
          /\ TotalPaid(t, change) \in Word
      BY <2>1, PaidSplit
    <2>5. CASE ~u.is_self_transfer
      <3>1. /\ TotalPaid(t, others) = u.plain_output_amount /\ TotalPaid(t, dao) = u.dao_output_amount
            /\ TotalPaid(t, change) = u.change_amount
        BY <2>5 DEF AmountsAre, TotalPaid
      <3> QED BY <2>1, <2>2, <2>3, <3>1
    <2>6. CASE u.is_self_transfer
      <3>1. /\ TotalPaid(t, change) = u.plain_output_amount /\ TotalPaid(t, dao) = u.dao_output_amount
            /\ u.change_amount = 0 /\ others = {}
        BY <2>6 DEF AmountsAre, TotalPaid
      <3>2. change \cup dao = DOMAIN t.outputs
        BY <2>1, <3>1
      <3>3. TotalPaid(t, dao) \in Word
        <4>1. dao \cap change = {} /\ dao \subseteq DOMAIN t.outputs /\ change \subseteq DOMAIN t.outputs
          BY <2>1
        <4>2. t \in AnnotatedTransaction
          OBVIOUS
        <4> QED BY ONLY <4>1, <4>2, PaidSplit
      <3>4. Add(Add(u.plain_output_amount, u.dao_output_amount), 0) = Add(u.plain_output_amount, u.dao_output_amount)
        <4>1. u.plain_output_amount \in Word /\ u.dao_output_amount \in Word
          BY <2>4, <3>1, <3>3
        <4>2. Add(u.plain_output_amount, u.dao_output_amount) \in Word
          BY ONLY <4>1, WordClosed
        <4> QED BY ONLY <4>2, AddZero
      <3> QED BY <2>4, <3>1, <3>2, <3>4
    <2> QED BY <2>5, <2>6
  <1> QED BY <1>2, <1>3 DEF FeeOf

-----------------------------------------------------------------------------
(* What Prompt puts on the screen for each operation, given what is known. *)

LEMMA NoDaoIs ==
    ASSUME NEW m, NEW s, NEW u, NEW owner, NEW t, Ready(m, s, u, owner, t), m.tag \in Transfers
    PROVE  NoDao(t)
  BY DEF Ready, OperationIs, NoDao

(* The amount and the first row of the table, of a transaction without DAO *)
(* cells (the destination that the prompts of sign_complete show).         *)
LEMMA DestinationIs ==
    ASSUME NEW m, NEW s, NEW u, NEW owner, NEW t \in AnnotatedTransaction, Ready(m, s, u, owner, t), NoDao(t)
    PROVE  /\ u.is_self_transfer <=> PaidToOthers(t) = {}
           /\ u.is_self_transfer => /\ u.plain_output_amount = TotalPaid(t, DOMAIN t.outputs)
                                    /\ Address(u.outputs[0]) = ChangeAddress(t)
           /\ ~u.is_self_transfer => u.plain_output_amount = TotalPaid(t, PaidToOthers(t))
           /\ ~u.is_self_transfer /\ m.tag # "MULTI_OUTPUT_TRANSFER" =>
                /\ Len(Payments(t)) = 1
                /\ Payments(t)[1].address = Address(u.outputs[0])
  <1>1. u.is_self_transfer <=> PaidToOthers(t) = {}
    BY DEF Ready, SelfIs
  <1>2. ASSUME u.is_self_transfer
        PROVE  /\ u.plain_output_amount = TotalPaid(t, DOMAIN t.outputs)
               /\ Address(u.outputs[0]) = ChangeAddress(t)
    <2>1. ToChange(t) = DOMAIN t.outputs
      BY <1>1, <1>2 DEF ToChange, NoDao, DaoCells, PlainCells
    <2> QED BY <1>2, <2>1 DEF Ready, AmountsAre, TotalPaid
  <1>3. ASSUME ~u.is_self_transfer PROVE u.plain_output_amount = TotalPaid(t, PaidToOthers(t))
    BY <1>3 DEF Ready, AmountsAre, TotalPaid
  <1>4. ASSUME ~u.is_self_transfer, m.tag # "MULTI_OUTPUT_TRANSFER"
        PROVE  /\ Len(Payments(t)) = 1
               /\ Payments(t)[1].address = Address(u.outputs[0])
    <2>1. TableIs(u.outputs, u.output_count, Payments(t), t) /\ u.output_count > 0 /\ u.output_count <= 1
      BY <1>1, <1>4 DEF Ready, RowsAre
    <2>2. u.output_count \in Nat
      BY DEF Ready, UTx, MAX_OUTPUTS
    <2>3. u.output_count = 1
      BY <2>1, <2>2
    <2>4. Len(Payments(t)) = 1 /\ RowIs(u.outputs[0], Payments(t)[1], t)
      BY <2>1, <2>3 DEF TableIs, Slot, MAX_OUTPUTS
    <2> QED BY <2>4 DEF RowIs
  <1> QED BY <1>1, <1>2, <1>3, <1>4

(* A transfer: whom it pays, how much, and the fee.                        *)
LEMMA TransferTold ==
    ASSUME NEW m, NEW s, NEW u, NEW owner, NEW t \in AnnotatedTransaction, Ready(m, s, u, owner, t),
           m.tag = "PLAIN_TRANSFER", NEW contract, NEW r,
           r = [confirm |-> "Transaction", amount |-> m.amount_snd, fee |-> m.total_fee,
                destination |-> Address(u.outputs[0]), contract |-> contract]
    PROVE  Faithful(t, r)
  <1>1. NoDao(t)
    BY NoDaoIs DEF Transfers
  <1>2. m.total_fee = FeeOf(t) /\ m.amount_snd = u.plain_output_amount /\ ~u.is_self_transfer
    BY DEF Ready, Conclusion
  <1>3. /\ r.confirm = "Transaction" /\ r.amount = m.amount_snd /\ r.fee = m.total_fee
        /\ r.destination = Address(u.outputs[0])
    OBVIOUS
  <1> QED BY <1>1, <1>2, <1>3, DestinationIs DEF Faithful, FaithfulTransfer

(* A self-transfer: how much comes back to the change address.             *)
LEMMA SelfTransferTold ==
    ASSUME NEW m, NEW s, NEW u, NEW owner, NEW t \in AnnotatedTransaction, Ready(m, s, u, owner, t),
           m.tag = "SELF_TRANSFER", NEW contract, NEW r,
           r = [confirm |-> "Self-Transfer", amount |-> m.amount_snd, fee |-> m.total_fee,
                destination |-> Address(u.outputs[0]), contract |-> contract]
    PROVE  Faithful(t, r)
  <1>1. NoDao(t)
    BY NoDaoIs DEF Transfers
  <1>2. m.total_fee = FeeOf(t) /\ m.amount_snd = u.plain_output_amount /\ u.is_self_transfer
    BY DEF Ready, Conclusion
  <1>3. /\ r.confirm = "Self-Transfer" /\ r.amount = m.amount_snd /\ r.fee = m.total_fee
        /\ r.destination = Address(u.outputs[0])
    OBVIOUS
  <1> QED BY <1>1, <1>2, <1>3, DestinationIs DEF Faithful, FaithfulSelfTransfer

(* The rows of the output table, as MultiOutputScreen lists them.          *)
LEMMA RowsShown ==
    ASSUME NEW t, NEW table, NEW count \in 0 .. MAX_OUTPUTS, NEW rows \in Seq(PaymentRow), TableIs(table, count, rows, t)
    PROVE  [n \in 1 .. count |-> [capacity |-> table[n - 1].capacity, address |-> Address(table[n - 1])]] = rows
  <1>1. Len(rows) = count
    BY DEF TableIs
  <1>2. ASSUME NEW k \in 1 .. count
        PROVE  [capacity |-> table[k - 1].capacity, address |-> Address(table[k - 1])] = rows[k]
    <2>1. k \in 1 .. 5 /\ k <= count
      BY DEF MAX_OUTPUTS
    <2>2. k - 1 \in Slot /\ k - 1 < count /\ (k - 1) + 1 = k
      BY <2>1 DEF Slot, MAX_OUTPUTS
    <2>3. PICK l \in Slot : l = k - 1 /\ l < count /\ l + 1 = k
      BY <2>2
    <2>4. RowIs(table[l], rows[l + 1], t)
      BY <2>3 DEF TableIs
    <2>5. table[k - 1].capacity = rows[k].capacity /\ Address(table[k - 1]) = rows[k].address
      BY <2>3, <2>4 DEF RowIs
    <2>6. rows[k] \in PaymentRow
      BY <1>1
    <2>7. rows[k] = [capacity |-> rows[k].capacity, address |-> rows[k].address]
      BY <2>6 DEF PaymentRow
    <2> QED BY <2>5, <2>7
  <1>3. rows = [k \in 1 .. count |-> rows[k]]
    BY <1>1
  <1> QED BY <1>2, <1>3

(* A transaction to several addresses: the table is the list of payments.  *)
LEMMA OutputsTold ==
    ASSUME NEW m, NEW s, NEW u, NEW owner, NEW t \in AnnotatedTransaction, Ready(m, s, u, owner, t),
           m.tag = "MULTI_OUTPUT_TRANSFER", NEW r,
           r = [confirm |-> "Transaction (outputs)", amount |-> m.amount_snd, fee |-> m.total_fee,
                outputs |-> [n \in 1 .. u.output_count |->
                    [capacity |-> u.outputs[n - 1].capacity, address |-> Address(u.outputs[n - 1])]]]
    PROVE  Faithful(t, r)
  <1>1. NoDao(t)
    BY NoDaoIs DEF Transfers
  <1>2. /\ m.total_fee = FeeOf(t) /\ m.amount_snd = u.plain_output_amount /\ ~u.is_self_transfer
        /\ SourceCount(t) <= 1
    BY DEF Ready, Conclusion, RowsAre
  <1>3. /\ r.confirm = "Transaction (outputs)" /\ r.amount = m.amount_snd /\ r.fee = m.total_fee
        /\ r.outputs = [n \in 1 .. u.output_count |->
                            [capacity |-> u.outputs[n - 1].capacity, address |-> Address(u.outputs[n - 1])]]
    OBVIOUS
  <1>4. u.output_count \in 0 .. MAX_OUTPUTS /\ TableIs(u.outputs, u.output_count, Payments(t), t)
    BY <1>2 DEF Ready, UTx
  <1>5. Payments(t) \in Seq(PaymentRow) /\ Len(Payments(t)) = u.output_count
    BY <1>4, Lengths, PaymentsIs DEF IsPayments, Payments, TableIs
  <1>6. r.outputs = Payments(t)
    <2> PICK table, count, rows : table = u.outputs /\ count = u.output_count /\ rows = Payments(t)
      OBVIOUS
    <2>1. count \in 0 .. MAX_OUTPUTS /\ rows \in Seq(PaymentRow) /\ TableIs(table, count, rows, t)
      BY <1>4, <1>5
    <2> QED BY <1>3, <2>1, RowsShown
  <1> QED BY <1>1, <1>2, <1>3, <1>6, DestinationIs, ZenonT(30) DEF Faithful, FaithfulMultiOutput

(* What is signed for is among the inputs.                                 *)
LEMMA SignedWithin ==
    ASSUME NEW t \in AnnotatedTransaction
    PROVE  \A i \in SignedFor(t) : i <= Len(t.inputs)
  <1>1. SignedFor(t) \subseteq 1 .. Len(t.inputs) /\ Len(t.inputs) \in Nat
    BY SpentOK DEF SignedFor
  <1> QED BY <1>1

(* A transfer of more than one source: what leaves the user's source, and  *)
(* what arrives.                                                           *)
LEMMA InputsTold ==
    ASSUME NEW m, NEW s, NEW u, NEW owner, NEW t \in AnnotatedTransaction, Ready(m, s, u, owner, t),
           m.tag = "MULTI_INPUT_TRANSFER", NEW r,
           r = [confirm |-> "Multi-Input Transaction", input |-> <<m.input_count_fst, m.input_count_snd>>,
                source |-> t.signPath, amount |-> <<m.amount_fst, m.amount_snd>>,
                fee |-> m.total_fee, destination |-> Address(u.outputs[0])]
    PROVE  Faithful(t, r)
  <1>1. NoDao(t)
    BY NoDaoIs DEF Transfers
  <1>2. /\ m.total_fee = FeeOf(t) /\ m.amount_snd = u.plain_output_amount /\ m.amount_fst = s.input_amount_fst
        /\ SourceCount(t) > 1 /\ m.input_count_snd = SourceCount(t) /\ m.input_count_fst # 0
    BY DEF Ready, Conclusion
  <1>3. /\ r.confirm = "Multi-Input Transaction" /\ r.source = t.signPath /\ r.fee = m.total_fee
        /\ r.input[1] = m.input_count_fst /\ r.input[2] = m.input_count_snd
        /\ r.amount[1] = m.amount_fst /\ r.amount[2] = m.amount_snd
        /\ r.destination = Address(u.outputs[0])
    OBVIOUS
  <1>4. SignedFor(t) # {} /\ \A i \in SignedFor(t) : SourceOf(t, i) = m.input_count_fst
    <2>1. OursIs(m.input_count_fst, t, Len(t.inputs))
      BY DEF Ready
    <2> QED BY <1>2, <2>1, SignedWithin DEF OursIs
  <1>5. m.amount_fst = TotalSpent(t, SignedFor(t))
    <2>1. PlainCells(SpentCells(t)) \cap SignedFor(t) = SignedFor(t)
      BY <1>1, SpentOK DEF NoDao, DaoCells, PlainCells, SignedFor
    <2> QED BY <1>2, <2>1 DEF Ready, SpentIs, TotalSpent
  <1>6. /\ m.amount_snd = TotalPaid(t, IF PaidToOthers(t) = {} THEN DOMAIN t.outputs ELSE PaidToOthers(t))
        /\ PaidToOthers(t) = {} => r.destination = ChangeAddress(t)
        /\ PaidToOthers(t) # {} => Len(Payments(t)) = 1 /\ r.destination = Payments(t)[1].address
    <2>1. /\ u.is_self_transfer <=> PaidToOthers(t) = {}
          /\ u.is_self_transfer => /\ u.plain_output_amount = TotalPaid(t, DOMAIN t.outputs)
                                   /\ Address(u.outputs[0]) = ChangeAddress(t)
          /\ ~u.is_self_transfer => u.plain_output_amount = TotalPaid(t, PaidToOthers(t))
          /\ ~u.is_self_transfer /\ m.tag # "MULTI_OUTPUT_TRANSFER" =>
                /\ Len(Payments(t)) = 1
                /\ Payments(t)[1].address = Address(u.outputs[0])
      BY <1>1, DestinationIs
    <2>2. CASE PaidToOthers(t) = {}
      BY <1>2, <1>3, <2>1, <2>2
    <2>3. CASE PaidToOthers(t) # {}
      BY <1>2, <1>3, <2>1, <2>3
    <2> QED BY <2>2, <2>3
  <1>7. FaithfulMultiInput(t, r)
    BY <1>1, <1>2, <1>3, <1>4, <1>5, <1>6 DEF FaithfulMultiInput
  <1> QED BY <1>3, <1>7 DEF Faithful

(* The amount of DAO cells is zero only when there are none.               *)
LEMMA DaoAmounts ==
    ASSUME NEW m, NEW s, NEW u, NEW owner, NEW t \in AnnotatedTransaction, Ready(m, s, u, owner, t)
    PROVE  /\ s.dao_input_amount = TotalSpent(t, DaoCells(SpentCells(t)))
           /\ u.dao_output_amount = TotalPaid(t, DaoCells(t.outputs))
           /\ s.dao_input_amount = 0 => DaoCells(SpentCells(t)) = {}
           /\ DaoCells(t.outputs) = {} => u.dao_output_amount = 0
           /\ u.plain_output_amount = 0 => PaidToOthers(t) = {}
  <1>1. s.dao_input_amount = TotalSpent(t, DaoCells(SpentCells(t)))
    BY DEF Ready, SpentIs, TotalSpent
  <1>2. u.dao_output_amount = TotalPaid(t, DaoCells(t.outputs))
    BY DEF Ready, AmountsAre, TotalPaid
  <1>3. s.dao_input_amount = 0 => DaoCells(SpentCells(t)) = {}
    BY <1>1 DEF Ready, Ordinary, RealAmounts
  <1>4. ASSUME DaoCells(t.outputs) = {} PROVE u.dao_output_amount = 0
    <2>1. Len(t.outputs) \in Nat
      BY Lengths
    <2>2. Totals(t.outputs, {})[Len(t.outputs)] = 0
      BY <2>1, TotalsNone DEF Amounts
    <2> QED BY <1>2, <1>4, <2>2 DEF TotalPaid
  <1>5. u.plain_output_amount = 0 => PaidToOthers(t) = {}
    <2>1. CASE u.is_self_transfer
      BY <2>1 DEF Ready, AmountsAre
    <2>2. CASE ~u.is_self_transfer
      BY <2>2 DEF Ready, AmountsAre, TotalPaid, Ordinary, RealAmounts
    <2> QED BY <2>1, <2>2
  <1> QED BY <1>1, <1>2, <1>3, <1>4, <1>5

(* A DAO operation: the amount of its cells, the fee or compensation, and  *)
(* whose the cells are.                                                    *)
LEMMA DepositTold ==
    ASSUME NEW m, NEW s, NEW u, NEW owner, NEW t \in AnnotatedTransaction, Ready(m, s, u, owner, t),
           m.tag = "DAO_DEPOSIT", NEW r,
           r = [confirm |-> "Deposit", deposit_amount |-> m.dao_amount, fee_or_compensation |-> m.total_fee,
                owner |-> owner]
    PROVE  Faithful(t, r)
  <1>1. m.total_fee = FeeOf(t) /\ m.dao_amount = u.dao_output_amount
    BY DEF Ready, Conclusion
  <1>2. r.confirm = "Deposit" /\ r.deposit_amount = m.dao_amount /\ r.fee_or_compensation = m.total_fee
        /\ r.owner = owner
    OBVIOUS
  <1>3. DaoCells(SpentCells(t)) = {} /\ DaoCells(t.outputs) # {} /\ OnlyDao(t.outputs, FALSE)
    BY DEF Ready, OperationIs, Holds, OnlyDao
  <1>4. owner = t.changePath /\ DaoToChange(t)
    BY <1>3 DEF Ready, OwnerIs, DaoToChange
  <1>5. u.dao_output_amount = TotalPaid(t, DaoCells(t.outputs))
    BY DaoAmounts
  <1>6. FaithfulDeposit(t, r)
    BY <1>1, <1>2, <1>3, <1>4, <1>5 DEF FaithfulDeposit
  <1> QED BY <1>2, <1>6 DEF Faithful

LEMMA PrepareTold ==
    ASSUME NEW m, NEW s, NEW u, NEW owner, NEW t \in AnnotatedTransaction, Ready(m, s, u, owner, t),
           m.tag = "DAO_PREPARE", NEW r,
           r = [confirm |-> "Prepare", deposit_amount |-> m.dao_amount, fee_or_compensation |-> m.total_fee,
                owner |-> owner]
    PROVE  Faithful(t, r)
  <1>1. /\ m.total_fee = FeeOf(t) /\ m.dao_amount = u.dao_output_amount
        /\ u.dao_output_amount = s.dao_input_amount
    BY DEF Ready, Conclusion
  <1>2. r.confirm = "Prepare" /\ r.deposit_amount = m.dao_amount /\ r.fee_or_compensation = m.total_fee
        /\ r.owner = owner
    OBVIOUS
  <1>3. /\ DaoCells(SpentCells(t)) \cup DaoCells(t.outputs) # {}
        /\ OnlyDao(SpentCells(t), FALSE) /\ OnlyDao(t.outputs, TRUE)
    BY DEF Ready, OperationIs, Holds, OnlyDao, Ordinary
  <1>4. DaoCells(t.outputs) # {}
    BY <1>1, <1>3, DaoAmounts
  <1>5. owner = t.changePath /\ DaoToChange(t)
    BY <1>4 DEF Ready, OwnerIs, DaoToChange
  <1>6. /\ u.dao_output_amount = TotalPaid(t, DaoCells(t.outputs))
        /\ s.dao_input_amount = TotalSpent(t, DaoCells(SpentCells(t)))
    BY DaoAmounts
  <1>7. FaithfulPrepare(t, r)
    BY <1>1, <1>2, <1>3, <1>4, <1>5, <1>6 DEF FaithfulPrepare
  <1> QED BY <1>2, <1>7 DEF Faithful

LEMMA WithdrawalTold ==
    ASSUME NEW m, NEW s, NEW u, NEW owner, NEW t \in AnnotatedTransaction, Ready(m, s, u, owner, t),
           m.tag = "DAO_WITHDRAW", NEW r,
           r = [confirm |-> "Withdrawal", deposit_amount |-> m.dao_amount, fee_or_compensation |-> m.total_fee,
                owner |-> owner]
    PROVE  Faithful(t, r)
  <1>1. /\ m.total_fee = Negated(FeeOf(t)) /\ m.dao_amount = s.dao_input_amount
        /\ u.plain_output_amount = 0
    BY DEF Ready, Conclusion
  <1>2. r.confirm = "Withdrawal" /\ r.deposit_amount = m.dao_amount /\ r.fee_or_compensation = m.total_fee
        /\ r.owner = owner
    OBVIOUS
  <1>3. /\ DaoCells(SpentCells(t)) # {} /\ DaoCells(t.outputs) = {} /\ OnlyDao(SpentCells(t), TRUE)
    BY DEF Ready, OperationIs, Holds, OnlyDao
  <1>4. \E i \in DaoCells(SpentCells(t)) : IsKey(SpentCells(t)[i], owner)
    <2>1. \A i \in DaoCells(SpentCells(t)) : KeyLock(SpentCells(t)[i])
      BY <1>3 DEF Ready, Ordinary, OwnersAreKeys, OnlyDao
    <2> QED BY <1>3, <2>1 DEF Ready, OwnerIs, IsKey
  <1>5. s.dao_input_amount = TotalSpent(t, DaoCells(SpentCells(t))) /\ PaidToOthers(t) = {}
    BY <1>1, DaoAmounts
  <1>6. FaithfulWithdrawal(t, r)
    BY <1>1, <1>2, <1>3, <1>4, <1>5 DEF FaithfulWithdrawal
  <1> QED BY <1>2, <1>6 DEF Faithful

(* At the review the counters are those of the whole transaction.          *)
Known ==
    /\ SpentKnown /\ SourcesKnown /\ OursKnown
    /\ FlagsKnown /\ AmountsKnown /\ OwnerKnown
    /\ OperationKnown /\ ConcludedKnown
    /\ RowsKnown /\ SelfKnown /\ TableKnown

(* What is known when sign_complete runs: every part of Ready.             *)
LEMMA AllKnown ==
    ASSUME IInv, Reading, Known, sign_complete, Ordinary(tx)
    PROVE  Ready(maybe_transaction, sums, utx, dao_cell_owner, tx)
  <1>1. /\ at.cb = "last_chunk" /\ at' = Review /\ tx' = tx /\ ~maybe_transaction.unsafe
    BY DEF sign_complete, env
  <1>2. /\ InputsScripted = Len(tx.inputs) /\ InputsCounted = Len(tx.inputs)
        /\ OutputsScripted = Len(tx.outputs) /\ OutputsCounted = Len(tx.outputs)
    BY <1>1, AllRead
  <1>3. at.vec = "outputs_data"
    BY <1>1, Where DEF IInv, TypeOK
  <1>4. Live /\ Outgoing /\ Concluded
    BY <1>1, <1>3 DEF Live, Outgoing, Concluded, Ordinary
  <1>5. InputsSourced = Len(tx.inputs)
    BY <1>2, <1>3 DEF InputsSourced, LockRead
  <1>6. tx \in AnnotatedTransaction /\ utx \in UTx
    BY DEF IInv, TypeOK, FieldsOK
  <1>7. /\ DaoSeen(SpentCells(tx), Len(tx.inputs)) = DaoCells(SpentCells(tx))
        /\ DaoSeen(tx.outputs, Len(tx.outputs)) = DaoCells(tx.outputs)
    BY <1>6, DaoAllSeen
  <1>8. SpentIs(sums, tx, Len(tx.inputs))
    BY <1>2, <1>4 DEF Known, SpentKnown
  <1>9. sums.distinct_input_sources = SourceCount(tx)
    BY <1>4, <1>5 DEF Known, SourcesKnown, SourceCount, SourceOf
  <1>10. OursIs(maybe_transaction.input_count_fst, tx, Len(tx.inputs))
    BY <1>4, <1>5 DEF Known, OursKnown
  <1>11. AmountsAre(utx, tx, Len(tx.outputs))
    BY <1>2, <1>4 DEF Known, AmountsKnown
  <1>12. OwnerIs(dao_cell_owner, tx, DaoCells(SpentCells(tx)), DaoCells(tx.outputs))
    BY <1>2, <1>4, <1>7 DEF Known, OwnerKnown
  <1>13. OperationIs(maybe_transaction.tag, tx, DaoCells(SpentCells(tx)), DaoCells(tx.outputs))
    BY <1>2, <1>4, <1>7 DEF Known, OperationKnown
  <1>14. Conclusion(maybe_transaction, sums, utx, FeeOf(tx))
    <2>1. Fee = FeeOf(tx)
      <3>1. PICK t, s, u : t = tx /\ s = sums /\ u = utx
        OBVIOUS
      <3>2. t \in AnnotatedTransaction /\ SpentIs(s, t, Len(t.inputs)) /\ AmountsAre(u, t, Len(t.outputs))
        BY <1>6, <1>8, <1>11, <3>1
      <3>3. Minus(Add(s.input_amount_snd, s.dao_input_amount),
                  Add(Add(u.plain_output_amount, u.dao_output_amount), u.change_amount)) = FeeOf(t)
        BY <3>2, FeeAdds
      <3> QED BY <3>1, <3>3 DEF Fee
    <2> QED BY <1>4, <2>1 DEF Known, ConcludedKnown
  <1>15. RowsAre(utx, maybe_transaction.tag)
    BY <1>4 DEF Known, RowsKnown
  <1>16. SelfIs(utx, tx)
    BY <1>3, <1>4 DEF Known, SelfKnown
  <1>17. ASSUME ~utx.is_self_transfer
         PROVE  /\ TableIs(utx.outputs, utx.output_count, Payments(tx), tx)
                /\ PaidToOthers(tx) # {} <=> utx.output_count > 0
    <2>1. TableIs(utx.outputs, utx.output_count, Payments(tx), tx)
      BY <1>2, <1>4, <1>17 DEF Known, TableKnown, Payments, Ordinary
    <2>2. FlagsAre(maybe_transaction.flags, tx, Len(tx.outputs))
      BY <1>2, <1>4, <1>17 DEF Known, FlagsKnown
    <2>3. "HAS_DESTINATION_ADDRESS" \in maybe_transaction.flags <=> utx.output_count > 0
      BY <1>17 DEF IInv, Ledger, OutputTableAddsUp, HasFlag
    <2>4. ASSUME NEW n \in PaidToOthers(tx) PROVE n <= Len(tx.outputs)
      <3>1. PICK t : t = tx
        OBVIOUS
      <3>2. n \in 1 .. Len(t.outputs) /\ Len(t.outputs) \in Nat
        BY <1>6, <3>1, PaidTotals, Lengths
      <3> QED BY <3>1, <3>2
    <2> QED BY <2>1, <2>2, <2>3, <2>4 DEF FlagsAre
  <1> QED BY <1>6, <1>8, <1>9, <1>10, <1>11, <1>12, <1>13, <1>14, <1>15, <1>16, <1>17 DEF Ready

(* What sign_complete puts on the screen is faithful to the transaction.   *)
LEMMA Presents ==
    ASSUME IInv, Reading, Known, sign_complete, Ordinary(tx)
    PROVE  Faithful(tx, screen')
  <1>1. Ready(maybe_transaction, sums, utx, dao_cell_owner, tx)
    BY AllKnown
  <1>2. key.current = tx.signPath /\ tx \in AnnotatedTransaction
    <2>1. at.cb = "last_chunk" /\ at # Refused
      BY DEF sign_complete, Refused, Position
    <2> QED BY <2>1 DEF Reading, KeysKnown, IInv, TypeOK, FieldsOK
  <1> PICK m, s, u, owner, t, r, contract :
            /\ m = maybe_transaction /\ s = sums /\ u = utx /\ owner = dao_cell_owner /\ t = tx /\ r = screen'
            /\ contract = ContractRow
    OBVIOUS
  <1>3. t \in AnnotatedTransaction /\ Ready(m, s, u, owner, t) /\ key.current = t.signPath
    BY <1>1, <1>2
  <1>4. Prompt(m.tag)
    BY DEF sign_complete
  <1>5. ASSUME m.tag = "PLAIN_TRANSFER", screen' = TransferScreen("Transaction", ContractRow) PROVE Faithful(t, r)
    <2>1. r = [confirm |-> "Transaction", amount |-> m.amount_snd, fee |-> m.total_fee,
               destination |-> Address(u.outputs[0]), contract |-> contract]
      BY <1>5 DEF TransferScreen
    <2> QED BY <1>3, <1>5, <2>1, TransferTold
  <1>6. ASSUME m.tag = "SELF_TRANSFER", screen' = TransferScreen("Self-Transfer", "no row") PROVE Faithful(t, r)
    <2>1. r = [confirm |-> "Self-Transfer", amount |-> m.amount_snd, fee |-> m.total_fee,
               destination |-> Address(u.outputs[0]), contract |-> "no row"]
      BY <1>6 DEF TransferScreen
    <2> QED BY <1>3, <1>6, <2>1, SelfTransferTold
  <1>7. ASSUME m.tag = "MULTI_OUTPUT_TRANSFER", screen' = MultiOutputScreen PROVE Faithful(t, r)
    <2>1. r = [confirm |-> "Transaction (outputs)", amount |-> m.amount_snd, fee |-> m.total_fee,
               outputs |-> [n \in 1 .. u.output_count |->
                    [capacity |-> u.outputs[n - 1].capacity, address |-> Address(u.outputs[n - 1])]]]
      BY <1>7 DEF MultiOutputScreen
    <2> QED BY <1>3, <1>7, <2>1, OutputsTold
  <1>8. ASSUME m.tag = "MULTI_INPUT_TRANSFER", screen' = MultiInputScreen PROVE Faithful(t, r)
    <2>1. r = [confirm |-> "Multi-Input Transaction", input |-> <<m.input_count_fst, m.input_count_snd>>,
               source |-> t.signPath, amount |-> <<m.amount_fst, m.amount_snd>>,
               fee |-> m.total_fee, destination |-> Address(u.outputs[0])]
      BY <1>3, <1>8 DEF MultiInputScreen
    <2> QED BY <1>3, <1>8, <2>1, InputsTold
  <1>9. ASSUME m.tag = "DAO_DEPOSIT", screen' = DaoScreen("Deposit") PROVE Faithful(t, r)
    <2>1. r = [confirm |-> "Deposit", deposit_amount |-> m.dao_amount, fee_or_compensation |-> m.total_fee,
               owner |-> owner]
      BY <1>9 DEF DaoScreen
    <2> QED BY <1>3, <1>9, <2>1, DepositTold
  <1>10. ASSUME m.tag = "DAO_PREPARE", screen' = DaoScreen("Prepare") PROVE Faithful(t, r)
    <2>1. r = [confirm |-> "Prepare", deposit_amount |-> m.dao_amount, fee_or_compensation |-> m.total_fee,
               owner |-> owner]
      BY <1>10 DEF DaoScreen
    <2> QED BY <1>3, <1>10, <2>1, PrepareTold
  <1>11. ASSUME m.tag = "DAO_WITHDRAW", screen' = DaoScreen("Withdrawal") PROVE Faithful(t, r)
    <2>1. r = [confirm |-> "Withdrawal", deposit_amount |-> m.dao_amount, fee_or_compensation |-> m.total_fee,
               owner |-> owner]
      BY <1>11 DEF DaoScreen
    <2> QED BY <1>3, <1>11, <2>1, WithdrawalTold
  <1> QED BY <1>4, <1>5, <1>6, <1>7, <1>8, <1>9, <1>10, <1>11 DEF Prompt

-----------------------------------------------------------------------------
(* Known is kept by every step, so every screen of a review is faithful.   *)

(* clear_data leaves nothing counted, and nothing has been read.           *)
LEMMA KnownClear ==
    /\ tx \in AnnotatedTransaction
    /\ at \in {Idle, Position("none", "set_sign_path", 0, 0)} /\ maybe_transaction = ZeroMaybeTransaction
    /\ inp = ZeroInp /\ sums = ZeroSums
    => Known
  <1> SUFFICES ASSUME tx \in AnnotatedTransaction, at \in {Idle, Position("none", "set_sign_path", 0, 0)},
                      maybe_transaction = ZeroMaybeTransaction, inp = ZeroInp, sums = ZeroSums
               PROVE  Known
    OBVIOUS
  <1>1. InputsScripted = 0 /\ InputsCounted = 0 /\ OutputsScripted = 0 /\ OutputsCounted = 0
    BY NoneRead
  <1>2. at.vec = "none" /\ at.cb \in {"idle", "set_sign_path"}
    BY DEF Idle, Position
  <1>3. ~Outgoing /\ ~Concluded /\ at.vec # "outputs_data" /\ InputsSourced = 0
    BY <1>1, <1>2 DEF Outgoing, Concluded, InputsSourced, LockRead
  <1>4. FlagsKnown /\ AmountsKnown /\ ConcludedKnown /\ SelfKnown /\ TableKnown
    BY <1>3 DEF FlagsKnown, AmountsKnown, ConcludedKnown, SelfKnown, TableKnown
  <1>5. RowsKnown
    BY <1>3 DEF RowsKnown, ZeroMaybeTransaction
  <1> PICK t : t = tx
    OBVIOUS
  <1>6. SpentKnown
    <2>1. /\ Totals(SpentCells(t), PlainCells(SpentCells(t)))[0] = 0
          /\ Totals(SpentCells(t), DaoCells(SpentCells(t)))[0] = 0
          /\ Totals(SpentCells(t), PlainCells(SpentCells(t)) \cap SignedFor(t))[0] = 0
      BY SpentTotals DEF IsTotals
    <2> QED BY <1>1, <2>1 DEF SpentKnown, SpentIs, ZeroSums
  <1>7. SourcesAmong(t)[0] = [count |-> 0, hash |-> ZeroHash]
    BY SourcesMore
  <1>8. SourcesKnown
    BY <1>3, <1>7 DEF SourcesKnown, ZeroSums, ZeroInp
  <1>9. OursKnown
    <2>1. \A i \in SignedFor(t) : ~(i <= 0)
      <3>1. SignedFor(t) \subseteq 1 .. Len(t.inputs) /\ Len(t.inputs) \in Nat
        BY SpentOK DEF SignedFor
      <3> QED BY <3>1
    <2> QED BY <1>3, <1>7, <2>1 DEF OursKnown, OursIs, ZeroMaybeTransaction
  <1>10. DaoSeen(SpentCells(t), 0) = {} /\ DaoSeen(t.outputs, 0) = {}
    <2>1. DOMAIN SpentCells(t) \subseteq Nat \ {0} /\ DOMAIN t.outputs \subseteq Nat \ {0}
      BY SpentOK, PaidTotals
    <2> QED BY <2>1, DaoSeenMore
  <1>11. OwnerKnown
    BY <1>1, <1>10 DEF OwnerKnown, OwnerIs
  <1>12. OperationKnown
    BY <1>1, <1>10 DEF OperationKnown, OperationIs, ZeroMaybeTransaction, Transfers
  <1> QED BY <1>4, <1>5, <1>6, <1>8, <1>9, <1>11, <1>12 DEF Known

LEMMA KnownInit == Init => Known
  <1> SUFFICES ASSUME Init PROVE Known
    OBVIOUS
  <1>1. tx \in AnnotatedTransaction
    BY InitOK DEF IInv, TypeOK, FieldsOK
  <1> QED BY <1>1, KnownClear DEF Init

LEMMA KnownStep ==
    ASSUME IInv, Reading, Known, ParserStep
    PROVE  Known'
  BY SpentStep, SourcesStep, OursStep, FlagsStep, AmountsStep, OwnerStep, OperationStep, ConcludedStep,
     RowsStep, SelfStep, TableStep DEF Known

LEMMA KnownNext == IInv /\ Reading /\ Known /\ [Next]_vars => Known'
  <1> SUFFICES ASSUME IInv, Reading, Known, [Next]_vars PROVE Known'
    OBVIOUS
  <1>1. ASSUME first_chunk \/ sign_ok \/ sign_reject PROVE Known'
    <2>1. /\ at' \in {Idle, Position("none", "set_sign_path", 0, 0)} /\ maybe_transaction' = ZeroMaybeTransaction
          /\ inp' = ZeroInp /\ sums' = ZeroSums
      BY <1>1 DEF first_chunk, sign_ok, sign_reject, clear_data, clear_counters
    <2>2. tx' \in AnnotatedTransaction
      BY NextOK DEF IInv, TypeOK, FieldsOK
    <2>3. (/\ tx \in AnnotatedTransaction
           /\ at \in {Idle, Position("none", "set_sign_path", 0, 0)} /\ maybe_transaction = ZeroMaybeTransaction
           /\ inp = ZeroInp /\ sums = ZeroSums)'
      BY <2>1, <2>2 DEF Idle, Position, ZeroMaybeTransaction, ZeroInp, ZeroSums
    <2> QED BY <2>3, KnownClear, PTL
  <1>2. ASSUME chunk_refused \/ Complete PROVE Known'
    <2>1. at' \in {Refused, Review}
      BY <1>2 DEF chunk_refused, Complete, complete_unmarked, complete_hard_reject, complete_unsafe, sign_complete, Throw
    <2>2. ~Live' /\ at'.vec = "end"
      BY <2>1 DEF Live, Refused, Review, Position
    <2> QED BY <2>2 DEF Known, SpentKnown, SourcesKnown, OursKnown, FlagsKnown, AmountsKnown, OwnerKnown,
                        OperationKnown, ConcludedKnown, RowsKnown, SelfKnown, TableKnown
  <1>3. ASSUME switch_contract_data \/ UNCHANGED vars PROVE Known'
    <2>1. UNCHANGED <<tx, at, maybe_transaction, inp, sums, utx, dao_cell_owner>>
      BY <1>3 DEF switch_contract_data, parseState, vars, env, perCell
    <2>2. /\ Live' = Live /\ Outgoing' = Outgoing /\ Concluded' = Concluded /\ Fee' = Fee
          /\ InputsScripted' = InputsScripted /\ InputsCounted' = InputsCounted
          /\ OutputsScripted' = OutputsScripted /\ OutputsCounted' = OutputsCounted
          /\ InputsSourced' = InputsSourced
      BY <2>1 DEF Live, Outgoing, Concluded, Fee, InputsScripted, InputsCounted, OutputsScripted, OutputsCounted,
         InputsSourced, LockRead, Gone, Index, AfterTypeCode
    <2> QED BY <2>1, <2>2 DEF Known, SpentKnown, SourcesKnown, OursKnown, FlagsKnown, AmountsKnown, OwnerKnown,
                        OperationKnown, ConcludedKnown, RowsKnown, SelfKnown, TableKnown
  <1> QED BY <1>1, <1>2, <1>3, KnownStep DEF Next

(* Whatever the host sends, in however many attempts, and whenever the     *)
(* setting is switched: the screen of a review of an ordinary transaction  *)
(* is faithful to it (Prompt, fed by the callbacks' counters).             *)
Shown == at = Review /\ Ordinary(tx) => Faithful(tx, screen)

LEMMA ShownNext == IInv /\ Reading /\ Known /\ Shown /\ [Next]_vars => Shown'
  <1> SUFFICES ASSUME IInv, Reading, Known, Shown, [Next]_vars, at' = Review, Ordinary(tx)'
               PROVE  Faithful(tx, screen)'
    BY DEF Shown
  <1>1. CASE sign_complete
    <2>1. tx' = tx
      BY <1>1 DEF sign_complete, env
    <2>2. Ordinary(tx)
      BY <2>1 DEF Ordinary, OneTimelock, SeparateDaoData, RealAmounts, OwnersAreKeys, ProperLocks
    <2>3. Faithful(tx, screen')
      BY <1>1, <2>2, Presents
    <2> QED BY <2>1, <2>3
  <1>2. CASE switch_contract_data \/ UNCHANGED vars
    <2>1. tx' = tx /\ at' = at /\ screen' = screen
      BY <1>2 DEF switch_contract_data, vars, env, ui
    <2> QED BY <2>1 DEF Shown
  <1>3. ~ParserStep
    BY NoReviewYet
  <1>4. Position("none", "set_sign_path", 0, 0) # Review /\ Idle # Review /\ Refused # Review
    BY DEF Review, Idle, Refused, Position
  <1> QED BY <1>1, <1>2, <1>3, <1>4 DEF Next, first_chunk, chunk_refused, Complete, complete_unmarked, complete_hard_reject,
     complete_unsafe, sign_ok, sign_reject, Throw

LEMMA ShownInit == Init => Shown
  BY DEF Init, Shown, Idle, Review, Position

(* Every row of a review's screen says what the transaction does.          *)
THEOREM ShowsTheTransaction == Spec => []Shown
  BY InitOK, NextOK, ReadingInit, ReadingNext, KnownInit, KnownNext, ShownInit, ShownNext, PTL DEF Spec

-----------------------------------------------------------------------------
(* SignTransaction implements TransactionReview.                           *)

(* The operators of the abstract specification are those of this one, from *)
(* the arithmetic up.                                                      *)
LEMMA SameArithmetic ==
    ASSUME NEW x, NEW y
    PROVE  /\ Abstract!Add(x, y) = Add(x, y)
           /\ Abstract!Minus(x, y) = Minus(x, y)
           /\ Abstract!Negated(x) = Negated(x)
  BY DEF Add, Abstract!Add, Minus, Abstract!Minus, Negated, Abstract!Negated

(* The sums of capacities.                                                 *)
LEMMA SameTotals == ASSUME NEW cells, NEW where PROVE Abstract!Totals(cells, where) = Totals(cells, where)
  BY Zenon DEF Totals, Abstract!Totals, Abstract!Add, Add

(* The cells spent and created, and whose they are.                        *)
LEMMA SameCells ==
    ASSUME NEW t
    PROVE  /\ Abstract!SpentAt(t) = SpentAt(t)
           /\ Abstract!SpentCells(t) = SpentCells(t)
           /\ Abstract!SignedFor(t) = SignedFor(t)
           /\ Abstract!PaidToOthers(t) = PaidToOthers(t)
           /\ Abstract!DaoToChange(t) <=> DaoToChange(t)
           /\ Abstract!NoDao(t) <=> NoDao(t)
           /\ Abstract!ChangeAddress(t) = ChangeAddress(t)
           /\ \A cells : Abstract!DaoCells(cells) = DaoCells(cells)
           /\ \A cells, nonzero : Abstract!OnlyDao(cells, nonzero) <=> OnlyDao(cells, nonzero)
  BY Zenon DEF SpentAt, Abstract!SpentAt, SpentCells, Abstract!SpentCells, SignedFor, Abstract!SignedFor,
     PaidToOthers, Abstract!PaidToOthers, PlainCells, Abstract!PlainCells, DaoToChange, Abstract!DaoToChange,
     NoDao, Abstract!NoDao, DaoCells, Abstract!DaoCells, OnlyDao, Abstract!OnlyDao, IsDao, Abstract!IsDao,
     PaidToChange, Abstract!PaidToChange, IsKey, Abstract!IsKey, KeyLock, Abstract!KeyLock,
     ChangeAddress, Abstract!ChangeAddress

(* The list of payments.                                                   *)
LEMMA SamePayments == ASSUME NEW t PROVE Abstract!Payments(t) = Payments(t)
  BY Zenon DEF Payments, Abstract!Payments, PaymentsAmong, Abstract!PaymentsAmong, Abstract!Add, Add, Pay, Abstract!Pay,
     AddressOf, Abstract!AddressOf, PaidToOthers, Abstract!PaidToOthers, PlainCells, Abstract!PlainCells,
     IsDao, Abstract!IsDao, PaidToChange, Abstract!PaidToChange, IsKey, Abstract!IsKey, KeyLock, Abstract!KeyLock,
     MultisigLock, Abstract!MultisigLock

(* The sources.                                                            *)
LEMMA SameSources == ASSUME NEW t PROVE /\ Abstract!SourceCount(t) = SourceCount(t)
                                        /\ \A i : Abstract!SourceOf(t, i) = SourceOf(t, i)
  <1>1. Abstract!SourcesAmong(t) = SourcesAmong(t)
    BY Zenon DEF SourcesAmong, Abstract!SourcesAmong, SpentAt, Abstract!SpentAt, SpentCells, Abstract!SpentCells
  <1> QED BY <1>1 DEF SourceCount, Abstract!SourceCount, SourceOf, Abstract!SourceOf

(* The totals and the fee.                                                 *)
LEMMA SameAmounts ==
    ASSUME NEW t
    PROVE  /\ \A where : Abstract!TotalSpent(t, where) = TotalSpent(t, where)
           /\ \A where : Abstract!TotalPaid(t, where) = TotalPaid(t, where)
           /\ Abstract!FeeOf(t) = FeeOf(t)
  <1>1. /\ \A where : Abstract!TotalSpent(t, where) = TotalSpent(t, where)
        /\ \A where : Abstract!TotalPaid(t, where) = TotalPaid(t, where)
    BY SameTotals, SameCells DEF TotalSpent, Abstract!TotalSpent, TotalPaid, Abstract!TotalPaid
  <1> QED BY <1>1, SameCells, SameArithmetic DEF FeeOf, Abstract!FeeOf

(* A screen of sign_complete that is faithful is so for TransactionReview. *)
LEMMA SameFaithful ==
    ASSUME NEW t, NEW s, Faithful(t, s)
    PROVE  Abstract!Faithful(t, s)
  <1>1. FaithfulTransfer(t, s) => Abstract!FaithfulTransfer(t, s)
    BY SameCells, SamePayments, SameAmounts DEF FaithfulTransfer, Abstract!FaithfulTransfer
  <1>2. FaithfulSelfTransfer(t, s) => Abstract!FaithfulSelfTransfer(t, s)
    BY SameCells, SamePayments, SameAmounts DEF FaithfulSelfTransfer, Abstract!FaithfulSelfTransfer
  <1>3. FaithfulMultiOutput(t, s) => Abstract!FaithfulMultiOutput(t, s)
    BY SameCells, SamePayments, SameAmounts, SameSources DEF FaithfulMultiOutput, Abstract!FaithfulMultiOutput
  <1>4. FaithfulMultiInput(t, s) => Abstract!FaithfulMultiInput(t, s)
    BY SameCells, SamePayments, SameAmounts, SameSources DEF FaithfulMultiInput, Abstract!FaithfulMultiInput
  <1>5. FaithfulDeposit(t, s) => Abstract!FaithfulDeposit(t, s)
    BY SameCells, SameAmounts DEF FaithfulDeposit, Abstract!FaithfulDeposit
  <1>6. FaithfulPrepare(t, s) => Abstract!FaithfulPrepare(t, s)
    BY SameCells, SameAmounts DEF FaithfulPrepare, Abstract!FaithfulPrepare
  <1>7. FaithfulWithdrawal(t, s) => Abstract!FaithfulWithdrawal(t, s)
    <2>1. \A c, hash : Abstract!IsKey(c, hash) <=> IsKey(c, hash)
      BY Zenon DEF IsKey, Abstract!IsKey, KeyLock, Abstract!KeyLock
    <2> QED BY <2>1, SameCells, SameAmounts, SameArithmetic DEF FaithfulWithdrawal, Abstract!FaithfulWithdrawal
  <1> QED BY <1>1, <1>2, <1>3, <1>4, <1>5, <1>6, <1>7 DEF Faithful, Abstract!Faithful

(* What is ordinary for TransactionReview is so for SignTransaction.       *)
LEMMA SameOrdinary ==
    ASSUME NEW t, Abstract!Ordinary(t)
    PROVE  Ordinary(t)
  <1>1. /\ \A c : Abstract!KeyLock(c) <=> KeyLock(c)
        /\ \A c, owner : Abstract!ProperLock(c, owner) <=> ProperLock(c, owner)
    BY Zenon DEF KeyLock, Abstract!KeyLock, MultisigLock, Abstract!MultisigLock, ProperLock, Abstract!ProperLock
  <1>2. ProperLocks(t)
    BY <1>1, SameCells DEF Abstract!Ordinary, Abstract!ProperLocks, ProperLocks
  <1>3. OwnersAreKeys(t)
    BY <1>1, SameCells DEF Abstract!Ordinary, Abstract!OwnersAreKeys, OwnersAreKeys
  <1>4. OneTimelock(t)
    BY SameCells, Zenon DEF Abstract!Ordinary, Abstract!OneTimelock, OneTimelock
  <1>5. SeparateDaoData(t)
    BY SameCells DEF Abstract!Ordinary, Abstract!SeparateDaoData, SeparateDaoData
  <1>6. RealAmounts(t)
    BY SameCells, SameAmounts DEF Abstract!Ordinary, Abstract!RealAmounts, RealAmounts
  <1> QED BY <1>2, <1>3, <1>4, <1>5, <1>6 DEF Ordinary

(* The transactions, and the hash that is signed.                          *)
LEMMA SameData ==
    /\ Abstract!AnnotatedTransaction = AnnotatedTransaction
    /\ \A t : Abstract!FinalHash(t) = FinalHash(t)
  <1>1. Abstract!AnnotatedTransaction = AnnotatedTransaction
    <2>1. Abstract!LockScript = LockScript
      BY Zenon DEF LockScript, Abstract!LockScript, LockArg, Abstract!LockArg, ZeroLockArg, Abstract!ZeroLockArg,
         StandardLockArg, Abstract!StandardLockArg
    <2>2. Abstract!Cell = Cell
      BY <2>1, Zenon DEF Cell, Abstract!Cell, Word, Abstract!Word, TypeScript, Abstract!TypeScript,
         CellData, Abstract!CellData
    <2> QED BY <2>2, Zenon DEF AnnotatedTransaction, Abstract!AnnotatedTransaction, AnnotatedInput,
               Abstract!AnnotatedInput, NonEmptySeq, Abstract!NonEmptySeq, StandardLockArg, Abstract!StandardLockArg
  <1>2. ASSUME NEW t PROVE Abstract!FinalHash(t) = FinalHash(t)
    BY Zenon DEF FinalHash, Abstract!FinalHash, RawHash, Abstract!RawHash, InputChunks, Abstract!InputChunks,
       SourceHash, Abstract!SourceHash
  <1> QED BY <1>1, <1>2

(* Init is an initial state of TransactionReview: no screen, no signature. *)
LEMMA AbstractInit == Init => Abstract!Init
  <1> SUFFICES ASSUME Init PROVE Abstract!Init
    OBVIOUS
  <1>1. tx \in Abstract!AnnotatedTransaction
    BY InitOK, SameData DEF IInv, TypeOK, FieldsOK
  <1>2. phase = "idle"
    BY DEF Init, phase
  <1> QED BY <1>1, <1>2 DEF Init, Abstract!Init, Abstract!NoScreen, NoScreen, NoSignature

(* A callback of the parser leads to another one, never to the idle state. *)
LEMMA Proceeds ==
    ASSUME IInv, ParserStep
    PROVE  at' = Refused \/ at' \notin {Idle, Refused, Review}
  <1>1. CASE Follow
    <2>1. at'.cb \notin {"idle", "review", "refused"}
      BY <1>1 DEF Follow, Straight, Then, FollowInputs, FollowVectors, FollowCell, CellEnd, LockEnd, To, Enter,
         NextItem, Position
    <2> QED BY <2>1 DEF Idle, Refused, Review, Position
  <1> QED BY <1>1, StepShape

(* Every step is a step of TransactionReview or a stuttering step of it.   *)
LEMMA AbstractNext ==
    IInv /\ Reading /\ Verdicts /\ Hashing /\ Known /\ [Next]_vars => [Abstract!Next]_(Abstract!vars)
  <1> SUFFICES ASSUME IInv, Reading, Verdicts, Hashing, Known, [Next]_vars
               PROVE  [Abstract!Next]_(Abstract!vars)
    OBVIOUS
  <1>0. Idle # Review /\ Idle # Refused /\ Review # Refused
    BY DEF Idle, Review, Refused, Position
  <1>1. ASSUME first_chunk PROVE Abstract!Receive
    <2>1. tx' \in Abstract!AnnotatedTransaction
      BY NextOK, SameData DEF IInv, TypeOK, FieldsOK
    <2>2. phase # "review" /\ phase' = "receiving"
      BY <1>0, <1>1 DEF first_chunk, phase, Idle, Review, Refused, Position
    <2> QED BY <1>1, <2>1, <2>2 DEF first_chunk, Abstract!Receive, Abstract!NoScreen, NoScreen
  <1>2. ASSUME ParserStep PROVE Abstract!Refuse \/ UNCHANGED Abstract!vars
    <2>1. at \notin {Idle, Refused, Review} /\ phase = "receiving"
      BY <1>2, NoReviewYet DEF phase
    <2>2. UNCHANGED <<tx, screen, signature>>
      BY <1>2, StepShape DEF env
    <2>3. CASE at' = Refused
      BY <1>0, <2>1, <2>2, <2>3 DEF phase, Abstract!Refuse
    <2>4. CASE at' \notin {Idle, Refused, Review}
      <3>1. phase' = "receiving"
        BY <2>4 DEF phase
      <3> QED BY <2>1, <2>2, <3>1 DEF Abstract!vars
    <2> QED BY <1>2, <2>3, <2>4, Proceeds
  <1>3. ASSUME chunk_refused \/ Complete, ~sign_complete PROVE Abstract!Refuse
    <2>1. at' = Refused /\ UNCHANGED <<tx, screen, signature>>
      BY <1>3 DEF chunk_refused, Complete, complete_unmarked, complete_hard_reject, complete_unsafe, Throw, env
    <2>2. at \notin {Idle, Refused, Review}
      BY <1>3 DEF chunk_refused, Complete, complete_unmarked, complete_hard_reject, complete_unsafe, Streaming,
         Idle, Refused, Review, Position
    <2> QED BY <1>0, <2>1, <2>2 DEF phase, Abstract!Refuse
  <1>4. ASSUME sign_complete PROVE Abstract!Present
    <2>1. at' = Review /\ UNCHANGED <<tx, signature>> /\ at.cb = "last_chunk"
      BY <1>4 DEF sign_complete, env
    <2>2. phase = "receiving" /\ phase' = "review"
      BY <1>0, <2>1 DEF phase, Idle, Refused, Review, Position
    <2>3. Abstract!Ordinary(tx) => Abstract!Faithful(tx, screen')
      <3> SUFFICES ASSUME Abstract!Ordinary(tx) PROVE Abstract!Faithful(tx, screen')
        OBVIOUS
      <3>1. PICK t, s : t = tx /\ s = screen'
        OBVIOUS
      <3>2. Ordinary(t)
        BY <3>1, SameOrdinary
      <3>3. Faithful(tx, screen')
        BY <1>4, <3>1, <3>2, Presents
      <3>4. Abstract!Faithful(t, s)
        BY <3>1, <3>3, SameFaithful
      <3> QED BY <3>1, <3>4
    <2> QED BY <2>1, <2>2, <2>3 DEF Abstract!Present
  <1>5. ASSUME sign_ok PROVE Abstract!Approve
    <2>1. at = Review /\ ~maybe_transaction.unsafe /\ ~maybe_transaction.hard_reject /\ at # Refused
          /\ at.cb = "review"
      BY <1>5 DEF sign_ok, Verdicts, SafeReview, Review, Refused, Position
    <2>2. hashes.final_hash = Abstract!FinalHash(tx) /\ key.current = tx.signPath
      BY <2>1, SameData DEF Hashing, HashesKnown, Reading, KeysKnown
    <2>3. phase = "review" /\ phase' = "idle"
      BY <1>0, <1>5, <2>1 DEF sign_ok, phase
    <2> QED BY <1>5, <2>2, <2>3 DEF sign_ok, env, Abstract!Approve, Abstract!NoScreen, NoScreen
  <1>6. ASSUME sign_reject PROVE Abstract!Decline
    BY <1>0, <1>6 DEF sign_reject, phase, env, Abstract!Decline, Abstract!NoScreen, NoScreen
  <1>7. ASSUME switch_contract_data \/ UNCHANGED vars PROVE UNCHANGED Abstract!vars
    <2>1. UNCHANGED <<tx, at, screen, signature>>
      BY <1>7 DEF switch_contract_data, vars, env, ui
    <2> QED BY <2>1 DEF phase, Abstract!vars
  <1> QED BY <1>1, <1>2, <1>3, <1>4, <1>5, <1>6, <1>7 DEF Next, Complete, Abstract!Next

(* Transaction signing implements TransactionReview: what the user         *)
(* approves of an ordinary transaction is what the screen tells, and only  *)
(* what was reviewed is signed (Prompt and sign_ok, with all the callbacks *)
(* behind them).                                                           *)
THEOREM ImplementsReview == Spec => ReviewIsFaithful
  <1>1. IInv /\ Reading /\ Verdicts /\ Hashing /\ Known /\ [Next]_vars => [Abstract!Next]_(Abstract!vars)
    BY AbstractNext
  <1> QED BY <1>1, AbstractInit, InitOK, NextOK, ReadingInit, ReadingNext, VerdictsInit, VerdictsNext,
             HashingInit, HashingNext, KnownInit, KnownNext, PTL
          DEF Spec, ReviewIsFaithful, Abstract!Spec

-----------------------------------------------------------------------------
(* SupportedNotRefused.  The strengthening: the rows of the table are      *)
(* counted, a source that counts as ours is ours, a multisig cell was      *)
(* spent if the counters say so, a transfer to oneself spends no DAO cell. *)

(* The last entry of the table is for the address of the last payment, but *)
(* for the time lock.                                                      *)
LastIs(o, row) ==
    /\ row.address.lock_arg.hash = o.destination.hash
    /\ o.is_multisig <=> row.address.script = "multisig"
CountIs(table, count, rows) ==
    /\ count <= Len(rows)
    /\ count = 0 <=> rows = <<>>
    /\ count > 0 => LastIs(table[count - 1], rows[Len(rows)])
RowsCounted ==
    Live /\ Outgoing /\ ~utx.is_self_transfer =>
        CountIs(utx.outputs, utx.output_count, PaymentsAmong(tx)[OutputsScripted])

(* One more payment: its address is that of the last row.                  *)
LEMMA PayLast ==
    ASSUME NEW rows \in Seq(PaymentRow), NEW c \in Cell
    PROVE  /\ Pay(rows, c) \in Seq(PaymentRow) /\ Len(rows) \in Nat /\ Len(Pay(rows, c)) \in Nat
           /\ Len(Pay(rows, c)) >= Len(rows) /\ Pay(rows, c) # <<>>
           /\ Pay(rows, c)[Len(Pay(rows, c))].address = AddressOf(c)
           /\ rows = <<>> \/ rows[Len(rows)].address # AddressOf(c) => Len(Pay(rows, c)) = Len(rows) + 1
  <1>1. /\ Pay(rows, c) \in Seq(PaymentRow) /\ Len(rows) \in Nat /\ Len(Pay(rows, c)) \in Nat
        /\ Len(Pay(rows, c)) >= Len(rows) /\ Pay(rows, c) # <<>>
    <2> PICK after : after = Pay(rows, c)
      OBVIOUS
    <2>1. after \in Seq(PaymentRow) /\ Len(after) \in {Len(rows), Len(rows) + 1} /\ after # <<>>
      BY PayOK
    <2>2. Len(after) \in Nat /\ Len(rows) \in Nat
      BY <2>1
    <2> QED BY <2>1, <2>2
  <1>2. CASE rows # <<>> /\ rows[Len(rows)].address = AddressOf(c)
    <2> DEFINE more == [rows EXCEPT ![Len(rows)].capacity = Add(@, c.capacity)]
    <2>1. Pay(rows, c) = more
      BY <1>2 DEF Pay
    <2>2. Len(rows) \in 1 .. Len(rows) /\ rows[Len(rows)] \in PaymentRow
      BY <1>2
    <2>3. Len(more) = Len(rows) /\ more[Len(rows)].address = rows[Len(rows)].address
      BY <2>2 DEF PaymentRow
    <2> QED BY <1>1, <1>2, <2>1, <2>3
  <1>3. CASE rows = <<>> \/ rows[Len(rows)].address # AddressOf(c)
    <2> DEFINE row == [capacity |-> c.capacity, address |-> AddressOf(c)]
    <2>1. Pay(rows, c) = Append(rows, row)
      BY <1>3, PayOK
    <2>2. row.address = AddressOf(c)
      OBVIOUS
    <2> HIDE DEF row
    <2>3. Len(Append(rows, row)) = Len(rows) + 1 /\ Append(rows, row)[Len(rows) + 1] = row
      OBVIOUS
    <2> QED BY <1>1, <2>1, <2>2, <2>3
  <1> QED BY <1>1, <1>2, <1>3

(* What output_end compares with the last row is whether it is for that    *)
(* address.                                                                *)
LEMMA AddressTells ==
    ASSUME NEW c \in Cell, NEW owner, ProperLock(c, owner), NEW o \in Output, NEW row, row.address = AddressOf(c)
    PROVE  SameRow(o, c) <=> LastIs(o, row)
  BY DEF SameRow, LastIs, AddressOf, ProperLock, KeyLock, MultisigLock, Output

(* The capacity of one more output joins the last entry, or starts one.    *)
LEMMA CountAdds ==
    ASSUME NEW c \in Cell, NEW owner, ProperLock(c, owner), NEW rows \in Seq(PaymentRow),
           NEW table \in [Slot -> Output], NEW count \in 1 .. MAX_OUTPUTS,
           CountIs(table, count, rows), SameRow(table[count - 1], c)
    PROVE  CountIs(Added(table, c, count - 1), count, Pay(rows, c))
  <1> PICK o, after, row : /\ o = table[count - 1] /\ after = Added(table, c, count - 1)[count - 1]
                           /\ row = Pay(rows, c)[Len(Pay(rows, c))]
    OBVIOUS
  <1>1. count - 1 \in Slot /\ o \in Output /\ after = [o EXCEPT !.capacity = Add(@, c.capacity)]
    BY DEF Slot, MAX_OUTPUTS, Added
  <1>2. after.destination = o.destination /\ after.is_multisig = o.is_multisig
    BY <1>1 DEF Output
  <1>3. LastIs(o, row)
    BY <1>1, AddressTells, PayLast
  <1>4. LastIs(after, row)
    BY <1>2, <1>3 DEF LastIs
  <1>5. count <= Len(Pay(rows, c)) /\ Pay(rows, c) # <<>> /\ count # 0
    BY PayLast DEF CountIs, MAX_OUTPUTS
  <1> QED BY <1>4, <1>5 DEF CountIs

(* A row of its own.                                                       *)
LEMMA CountStarts ==
    ASSUME NEW c \in Cell, NEW owner, ProperLock(c, owner), NEW rows \in Seq(PaymentRow),
           NEW table \in [Slot -> Output], NEW count \in 0 .. MAX_OUTPUTS,
           CountIs(table, count, rows), count = 0 \/ ~SameRow(table[count - 1], c)
    PROVE  /\ count + 1 <= Len(Pay(rows, c))
           /\ count < MAX_OUTPUTS => CountIs(Stored(table, c, count), count + 1, Pay(rows, c))
  <1> PICK row : row = Pay(rows, c)[Len(Pay(rows, c))]
    OBVIOUS
  <1>1. rows = <<>> \/ rows[Len(rows)].address # AddressOf(c)
    <2>1. CASE count = 0
      BY <2>1 DEF CountIs
    <2>2. CASE count # 0
      <3>1. count - 1 \in Slot /\ table[count - 1] \in Output /\ count > 0
        BY <2>2 DEF Slot, MAX_OUTPUTS
      <3>2. LastIs(table[count - 1], rows[Len(rows)])
        BY <3>1 DEF CountIs
      <3> QED BY <2>2, <3>1, <3>2, AddressTells
    <2> QED BY <2>1, <2>2
  <1>2. count + 1 <= Len(Pay(rows, c)) /\ Pay(rows, c) # <<>>
    <2>1. Len(Pay(rows, c)) = Len(rows) + 1 /\ Len(rows) \in Nat /\ Pay(rows, c) # <<>>
      BY <1>1, PayLast
    <2> QED BY <2>1 DEF CountIs, MAX_OUTPUTS
  <1>3. ASSUME count < MAX_OUTPUTS PROVE CountIs(Stored(table, c, count), count + 1, Pay(rows, c))
    <2> PICK o : o = Stored(table, c, count)[count]
      OBVIOUS
    <2>1. count \in Slot /\ count + 1 > 0 /\ count + 1 # 0 /\ (count + 1) - 1 = count
      BY <1>3 DEF Slot, MAX_OUTPUTS
    <2>2. o.destination = c.lock.args /\ o.is_multisig = (c.lock.code_hash = "multisig")
      BY <2>1 DEF Stored, Output
    <2>3. LastIs(o, row)
      <3>1. row.address = AddressOf(c)
        BY PayLast
      <3>2. AddressOf(c).lock_arg.hash = c.lock.args.hash
        BY DEF AddressOf
      <3>3. AddressOf(c).script = "multisig" <=> c.lock.code_hash = "multisig"
        BY DEF AddressOf, ProperLock, KeyLock, MultisigLock
      <3>4. o.is_multisig <=> c.lock.code_hash = "multisig"
        BY <2>2
      <3>5. o.destination.hash = c.lock.args.hash
        BY <2>2
      <3> QED BY <3>1, <3>2, <3>3, <3>4, <3>5 DEF LastIs
    <2> QED BY <1>2, <2>1, <2>3 DEF CountIs
  <1> QED BY <1>2, <1>3

(* Every step keeps the count.                                             *)
LEMMA RowsCountedStep ==
    ASSUME IInv, Reading, RowsCounted, ParserStep
    PROVE  RowsCounted'
  <1> SUFFICES ASSUME Live', Outgoing', ~utx'.is_self_transfer PROVE RowsCounted'
    BY DEF RowsCounted
  <1>1. /\ Live /\ Follow /\ tx' = tx /\ tx \in AnnotatedTransaction /\ at.j \in Nat /\ ~maybe_transaction'.unsafe
        /\ PositionOK
    BY LiveStep, Where DEF IInv, TypeOK, Live
  <1> PICK t, pays : t = tx /\ pays = PaymentsAmong(tx)
    OBVIOUS
  <1>2. IsPayments(pays, t)
    BY <1>1, PaymentsIs
  <1>3. SUFFICES CountIs(utx'.outputs, utx'.output_count, pays[OutputsScripted'])
    BY <1>1 DEF RowsCounted
  <1>4. CASE at.cb = "finish_inputs"
    <2>1. utx' = ZeroUTx /\ pays[OutputsScripted'] = <<>>
      BY <1>1, <1>2, <1>4, OutgoingStep DEF IsPayments
    <2> QED BY <2>1 DEF ZeroUTx, CountIs
  <1>5. CASE at.cb # "finish_inputs"
    <2>0. Outgoing /\ utx \in UTx
      BY <1>1, <1>5, OutgoingStep DEF IInv, TypeOK, FieldsOK
    <2>1. CASE at.cb = "output_end"
      <3> PICK c, table, count, n, rows : /\ c = cell /\ table = utx.outputs /\ count = utx.output_count
                                          /\ n = at.j + 1 /\ rows = pays[at.j]
        OBVIOUS
      <3>1. OutputAmounts(c, t) /\ OutputRow(c, t)
        BY <1>1, <2>1, OutputCounted DEF Live
      <3>2. /\ OutputsScripted = at.j /\ OutputsScripted' = n /\ n \in DOMAIN t.outputs /\ c = t.outputs[n]
        BY <1>1, <2>1, OutputProgress
      <3>3. /\ table \in [Slot -> Output] /\ count \in 0 .. MAX_OUTPUTS
            /\ c \in Cell /\ ProperLock(c, t.changePath)
            /\ rows \in Seq(PaymentRow) /\ (n \in PaidToOthers(t) <=> Pays(t, c))
            /\ pays[n] = IF n \in PaidToOthers(t) THEN Pay(rows, t.outputs[n]) ELSE rows
        <4>1. table \in [Slot -> Output] /\ count \in 0 .. MAX_OUTPUTS
          BY <2>0 DEF UTx
        <4>2. c \in Cell /\ (n \in PaidToOthers(t) <=> Pays(t, c))
          BY <1>1, <3>2, PaidTotals
        <4>3. rows \in Seq(PaymentRow) /\ pays[n] = IF n \in PaidToOthers(t) THEN Pay(rows, t.outputs[n]) ELSE rows
          BY <1>1, <1>2 DEF IsPayments
        <4>4. ProperLock(c, t.changePath)
          BY <1>1, <3>2, ProperOutput DEF Live
        <4> QED BY <4>1, <4>2, <4>3, <4>4
      <3>4. HasFlag("HAS_DESTINATION_ADDRESS") <=> count > 0
        BY <1>1, <2>1, FirstRow, Where
      <3>5. CountIs(table, count, rows)
        <4>1. ~utx.is_self_transfer
          BY <1>1, <2>1, FirstRow, Where
        <4> QED BY <1>1, <2>0, <3>2, <4>1 DEF RowsCounted
      <3>6. CASE ~Pays(t, c)
        BY <3>1, <3>2, <3>3, <3>5, <3>6 DEF OutputRow
      <3>7. CASE Pays(t, c) /\ HasFlag("HAS_DESTINATION_ADDRESS") /\ SameRow(table[count - 1], c)
        <4>1. utx'.outputs = Added(table, c, count - 1) /\ utx'.output_count = count /\ count \in 1 .. MAX_OUTPUTS
          BY <3>1, <3>3, <3>4, <3>7 DEF OutputRow
        <4>2. CountIs(Added(table, c, count - 1), count, Pay(rows, c))
          BY <3>3, <3>5, <3>7, <4>1, CountAdds
        <4> QED BY <3>2, <3>3, <3>7, <4>1, <4>2
      <3>8. CASE Pays(t, c) /\ ~(HasFlag("HAS_DESTINATION_ADDRESS") /\ SameRow(table[count - 1], c))
        <4>1. /\ utx'.outputs = Stored(table, c, count) /\ utx'.output_count = count + 1
              /\ count < MAX_OUTPUTS /\ (count = 0 \/ ~SameRow(table[count - 1], c))
          BY <3>1, <3>3, <3>4, <3>8 DEF OutputRow, MAX_OUTPUTS
        <4>2. CountIs(Stored(table, c, count), count + 1, Pay(rows, c))
          BY <3>3, <3>5, <4>1, CountStarts
        <4> QED BY <3>2, <3>3, <3>8, <4>1, <4>2
      <3> QED BY <3>6, <3>7, <3>8
    <2>2. CASE at.cb = "outputs_end"
      <3>1. utx' = utx
        BY <1>1, <2>2, OutputsEnded
      <3>2. OutputsScripted' = OutputsScripted
        BY <1>1, <2>2, OutputProgress
      <3> QED BY <1>1, <2>0, <3>1, <3>2 DEF RowsCounted
    <2>3. CASE at.cb \notin {"output_end", "outputs_end"}
      <3>1. SameTable(utx', utx)
        BY <1>5, <2>3, TableStays
      <3>2. OutputsScripted' = OutputsScripted
        BY <1>1, <2>3, OutputProgress
      <3> QED BY <1>1, <2>0, <3>1, <3>2 DEF RowsCounted, SameTable
    <2> QED BY <2>1, <2>2, <2>3
  <1> QED BY <1>4, <1>5

(* A source that counts as ours is one of a cell we sign for.              *)
FirstIs(fst, t, n) ==
    fst # 0 => /\ fst <= SourcesAmong(t)[n].count
               /\ \E i \in SignedFor(t) : i <= n /\ SourceOf(t, i) = fst
FirstKnown == Live => FirstIs(maybe_transaction.input_count_fst, tx, InputsSourced)

(* One more lock read (input_lock_arg_end).                                *)
LEMMA FirstMore ==
    ASSUME NEW t \in AnnotatedTransaction, NEW n \in Nat, n + 1 \in SpentAt(t),
           NEW c \in Cell, c = SpentCells(t)[n + 1], NEW fst \in Nat, FirstIs(fst, t, n)
    PROVE  LET here == SourcesAmong(t)[n]
               new == here.hash # c.lock.args.hash
               ours == IsKey(c, t.signPath)
           IN  FirstIs(IF new /\ ours THEN here.count + 1 ELSE fst, t, n + 1)
  <1> PICK S : S = SourcesAmong(t)
    OBVIOUS
  <1> DEFINE hash == c.lock.args.hash
             new == S[n].hash # hash
             ours == IsKey(c, t.signPath)
             next == IF new /\ ours THEN S[n].count + 1 ELSE fst
  <1>1. S[n].count \in Nat /\ S[n + 1].count = IF new THEN S[n].count + 1 ELSE S[n].count
    <2>1. S[n] \in SourceCounted /\ S[n + 1] = NextSource(S[n], SpentCells(t)[n + 1].lock.args.hash)
      BY SourcesMore
    <2>2. S[n + 1] = NextSource(S[n], hash)
      BY <2>1
    <2> HIDE DEF hash
    <2> QED BY <2>1, <2>2 DEF NextSource, SourceCounted
  <1>2. ours => n + 1 \in SignedFor(t)
    BY DEF SignedFor
  <1>3. \A i \in SignedFor(t) : i \in Nat /\ SourceOf(t, i) = S[i].count
    BY SpentOK DEF SignedFor, SourceOf
  <1>4. fst # 0 => fst <= S[n].count /\ \E i \in SignedFor(t) : i <= n /\ S[i].count = fst
    BY <1>3 DEF FirstIs
  <1> SUFFICES FirstIs(next, t, n + 1)
    OBVIOUS
  <1> HIDE DEF hash, ours, new
  <1>5. next # 0 => next <= S[n + 1].count /\ \E i \in SignedFor(t) : i <= n + 1 /\ S[i].count = next
    <2>1. CASE new /\ ours
      <3>1. next = S[n].count + 1 /\ S[n + 1].count = next /\ n + 1 \in SignedFor(t)
        BY <1>1, <1>2, <2>1
      <3> HIDE DEF next
      <3> QED BY <1>1, <3>1
    <2>2. CASE ~(new /\ ours)
      <3>1. next = fst /\ S[n].count <= S[n + 1].count /\ S[n + 1].count \in Nat
        BY <1>1, <2>2
      <3> HIDE DEF next
      <3> QED BY <1>1, <1>3, <1>4, <3>1
    <2> QED BY <2>1, <2>2
  <1> HIDE DEF next
  <1> QED BY <1>3, <1>5 DEF FirstIs

LEMMA FirstStep ==
    ASSUME IInv, Reading, SourcesKnown, FirstKnown, ParserStep
    PROVE  FirstKnown'
  <1> SUFFICES ASSUME Live' PROVE FirstKnown'
    BY DEF FirstKnown
  <1>1. /\ Live /\ Follow /\ tx' = tx /\ tx \in AnnotatedTransaction /\ at.i \in Nat /\ ~maybe_transaction'.unsafe
        /\ maybe_transaction.input_count_fst \in Nat
    BY LiveStep, Where DEF IInv, TypeOK, Live, FieldsOK, MaybeTransaction
  <1> PICK t, fst, after : /\ t = tx /\ fst = maybe_transaction.input_count_fst
                           /\ after = maybe_transaction'.input_count_fst
    OBVIOUS
  <1> DEFINE n == InputsSourced
  <1>2. FirstIs(fst, t, n)
    BY <1>1 DEF FirstKnown
  <1>3. SUFFICES FirstIs(after, t, n')
    BY <1>1 DEF FirstKnown
  <1>4. CASE LockEnds
    <2> PICK c : c = SpentNow
      OBVIOUS
    <2>1. at.i + 1 \in SpentAt(t) /\ n = at.i /\ n' = at.i + 1
      BY <1>1, <1>4, SourceProgress
    <2>2. at.vec = "source" /\ ~Outgoing
      BY <1>4, Where DEF LockEnds, SourceCallbacks, IInv, TypeOK, Outgoing
    <2>3. c \in Cell /\ LockCounted(c, t.signPath)
      BY <1>1, <1>4, SpentLockEnds DEF LockEnds, Live
    <2>4. SpentCells(t)[at.i + 1] = c
      BY <2>1, <2>2, InputNow DEF InSource
    <2>5. /\ sums.distinct_input_sources = SourcesAmong(t)[at.i].count
          /\ inp.last_input_lock_arg = SourcesAmong(t)[at.i].hash
      BY <1>1, <2>1, <2>2 DEF SourcesKnown
    <2> HIDE DEF n
    <2>6. after = IF SourcesAmong(t)[at.i].hash # c.lock.args.hash /\ IsKey(c, t.signPath)
                  THEN SourcesAmong(t)[at.i].count + 1 ELSE fst
      BY <2>3, <2>5 DEF LockCounted
    <2>7. FirstIs(fst, t, at.i)
      BY <1>2, <2>1
    <2>8. FirstIs(after, t, at.i + 1)
      BY <1>1, <2>1, <2>3, <2>4, <2>6, <2>7, FirstMore
    <2> QED BY <2>1, <2>8
  <1>5. CASE ~LockEnds
    <2>1. after = fst
      <3>1. CASE at.cb = "input_lock_arg_end"
        BY <1>1, <1>5, <3>1, SpentLockEnds DEF Live
      <3>2. CASE at.cb # "input_lock_arg_end"
        BY <3>2, FieldsStay
      <3> QED BY <3>1, <3>2
    <2>2. CASE n' = n
      <3> HIDE DEF n
      <3> QED BY <1>2, <2>1, <2>2
    <2>3. CASE InputSkipped /\ n = at.i /\ n' = at.i + 1
      <3>1. SourcesAmong(t)[at.i + 1] = SourcesAmong(t)[at.i]
        BY <1>1, <2>3, SourcesMore DEF InputSkipped
      <3>2. \A i \in SignedFor(t) : i \in Nat
        BY <1>1, SpentOK DEF SignedFor
      <3> HIDE DEF n
      <3> QED BY <1>1, <1>2, <2>1, <2>3, <3>1, <3>2 DEF FirstIs
    <2> QED BY <1>1, <1>5, <2>2, <2>3, SourceProgress
  <1> QED BY <1>4, <1>5

(* A multisig cell was spent if the counters say so.                       *)
MultisigKnown ==
    Live /\ sums.signing_multisig_input => \E i \in SpentAt(tx) : SpentCells(tx)[i].lock.code_hash = "multisig"

(* signing_multisig_input is set by finish_input_cell_data alone.          *)
LEMMA MultisigStays ==
    ASSUME IInv, ParserStep, at.cb # "finish_input_cell_data"
    PROVE  sums'.signing_multisig_input = sums.signing_multisig_input
  <1>1. sums \in Sums
    BY DEF IInv, TypeOK, FieldsOK
  <1>2. CASE at.cb = "set_input_count"
    <2>1. set_input_count
      BY <1>2, HashActions
    <2> QED BY <1>1, <2>1 DEF set_input_count, Sums
  <1>3. CASE at.cb = "input_lock_arg_end"
    <2>1. input_lock_arg_end \/ InactiveCell
      <3>1. ~(Prologue \/ Inputs \/ CellsData \/ Outputs \/ finalize_raw_transaction \/ witnesses)
        BY <1>3, InputCallbacksOf, CellCallbacksOf, OutputCallbacksOf
        DEF Prologue, Inputs, CellsData, Outputs
      <3> QED BY <1>3, <3>1, CellCallbacksOf DEF ParserStep, CellScripts
    <2> QED BY <1>1, <2>1 DEF input_lock_arg_end, InactiveCell, Sums
  <1> QED BY <1>2, <1>3, CountersStay

LEMMA MultisigStep ==
    ASSUME IInv, Reading, MultisigKnown, ParserStep
    PROVE  MultisigKnown'
  <1> SUFFICES ASSUME Live', sums'.signing_multisig_input PROVE MultisigKnown'
    BY DEF MultisigKnown
  <1>1. Live /\ Follow /\ tx' = tx /\ sums \in Sums
    BY LiveStep DEF IInv, TypeOK, FieldsOK
  <1>2. SUFFICES ASSUME ~sums.signing_multisig_input
                 PROVE  \E i \in SpentAt(tx) : SpentCells(tx)[i].lock.code_hash = "multisig"
    BY <1>1 DEF MultisigKnown
  <1>3. at.cb = "finish_input_cell_data"
    BY <1>2, MultisigStays
  <1>4. DataEnd
    BY <1>2, <1>3, SpentDataEnds
  <1> PICK c : c = SpentNow
    OBVIOUS
  <1>5. /\ finish_input_cell_data_dao \/ finish_input_cell_data_plain
        /\ WholeCell(c, tx.signPath)
    BY <1>3, <1>4, SpentDataEnds
  <1>6. SpentCells(tx)[at.i + 1] = c /\ at.i + 1 \in SpentAt(tx)
    <2>1. at.i + 1 \in SpentAt(tx) /\ at.vec = "source_data"
      BY <1>1, <1>3, <1>4, CountProgress, Where DEF IInv, TypeOK
    <2> QED BY <2>1, InputNow DEF InSource
  <1>7. cell_state.is_multisig
    <2>1. CASE finish_input_cell_data_dao
      BY <1>1, <1>2, <2>1 DEF finish_input_cell_data_dao, Sums
    <2>2. CASE finish_input_cell_data_plain
      BY <1>1, <1>2, <2>2 DEF finish_input_cell_data_plain, Sums
    <2> QED BY <1>5, <2>1, <2>2
  <1> QED BY <1>5, <1>6, <1>7 DEF WholeCell

-----------------------------------------------------------------------------
(* Of a transaction of the kinds the app is for no callback rejects        *)
(* anything.                                                               *)

(* The five kinds of transaction the app is for.                           *)
OneSource(t) == NoDao(t) /\ SourceCount(t) = 1 /\ Len(Payments(t)) <= 5
SomeSources(t) ==
    /\ NoDao(t) /\ SourceCount(t) > 1 /\ Len(Payments(t)) <= 1 /\ SignedFor(t) # {}
    /\ \A i \in SpentAt(t) : SpentCells(t)[i].lock.code_hash = "default"
Deposits(t) ==
    /\ DaoCells(SpentCells(t)) = {} /\ OnlyDao(t.outputs, FALSE)
    /\ DaoToChange(t) /\ Len(Payments(t)) <= 1
Prepares(t) ==
    /\ OnlyDao(SpentCells(t), FALSE) /\ OnlyDao(t.outputs, TRUE)
    /\ DaoToChange(t) /\ Len(Payments(t)) <= 1
    /\ TotalSpent(t, DaoCells(SpentCells(t))) = TotalPaid(t, DaoCells(t.outputs))
Withdraws(t) ==
    /\ OnlyDao(SpentCells(t), TRUE) /\ DaoCells(t.outputs) = {} /\ PaidToOthers(t) = {}
OneOwned(t) == \A i, k \in SignedFor(t) : SourceOf(t, i) = SourceOf(t, k)

(* Supported, kind by kind.                                                *)
LEMMA SupportedIs ==
    ASSUME NEW t \in AnnotatedTransaction, Supported(t)
    PROVE  /\ SpentAt(t) = DOMAIN t.inputs /\ Standard(t) /\ ProperLocks(t) /\ OneOwned(t)
           /\ OneSource(t) \/ SomeSources(t) \/ Deposits(t) \/ Prepares(t) \/ Withdraws(t)
           /\ NoDao(t) => OneSource(t) \/ SomeSources(t)
  <1>1. DOMAIN SpentCells(t) = SpentAt(t)
    BY SpentOK
  <1>2. SpentAt(t) = DOMAIN t.inputs /\ Standard(t) /\ ProperLocks(t) /\ OneOwned(t)
    BY DEF Supported, OneOwned
  <1>3. \/ OneSource(t) \/ SomeSources(t)
        \/ Deposits(t) /\ DaoCells(t.outputs) # {}
        \/ Prepares(t) /\ DaoCells(SpentCells(t)) # {}
        \/ Withdraws(t) /\ DaoCells(SpentCells(t)) # {}
    BY <1>1 DEF Supported, OneSource, SomeSources, Deposits, Prepares, Withdraws
  <1> QED BY <1>2, <1>3 DEF NoDao

(* Standard cells have no data to mistake for a DAO cell's.                *)
LEMMA StandardData0 ==
    ASSUME NEW c \in Cell, StandardCell(c), ~IsDao(c)
    PROVE  c.data.size = 0 /\ ~c.data.nonzero
  <1>1. c.data \in CellData /\ c.data.size = 0
    BY DEF Cell, StandardCell
  <1> QED BY <1>1 DEF CellData

(* Data of one output does not pass for that of another.                   *)
LEMMA SupportedSeparate ==
    ASSUME NEW t \in AnnotatedTransaction, Supported(t)
    PROVE  SeparateDaoData(t)
  <1> SUFFICES ASSUME NEW m \in DOMAIN t.outputs, NEW n \in DaoCells(t.outputs), t.outputs[m].data.nonzero
               PROVE  t.outputs[n].data.nonzero
    BY DEF SeparateDaoData
  <1>1. Standard(t) /\ (OneSource(t) \/ SomeSources(t) \/ Deposits(t) \/ Prepares(t) \/ Withdraws(t))
    BY SupportedIs
  <1>2. t.outputs[m] \in Cell /\ (m \in DaoCells(t.outputs) <=> IsDao(t.outputs[m]))
    BY PaidTotals
  <1>3. m \in DaoCells(t.outputs)
    BY <1>1, <1>2, StandardData0 DEF Standard
  <1> QED BY <1>1, <1>3 DEF OneSource, SomeSources, NoDao, Deposits, Prepares, Withdraws, OnlyDao

(* The operation such a transaction has come to.                           *)
LEMMA OperationOf ==
    ASSUME NEW t \in AnnotatedTransaction, Supported(t), NEW tag \in Pending,
           NEW spent \in SUBSET DaoCells(SpentCells(t)), NEW paid \in SUBSET DaoCells(t.outputs),
           OperationIs(tag, t, spent, paid)
    PROVE  /\ NoDao(t) => tag \in {"NOT_SET", "MULTI_OUTPUT_TRANSFER"}
           /\ tag = "DAO_DEPOSIT" => Deposits(t)
           /\ tag = "DAO_PREPARE" => Prepares(t)
           /\ tag = "DAO_WITHDRAW" => Withdraws(t)
           /\ Deposits(t) /\ paid # {} => tag = "DAO_DEPOSIT"
           /\ Prepares(t) /\ (spent # {} \/ paid # {}) => tag = "DAO_PREPARE"
           /\ Withdraws(t) /\ spent # {} => tag = "DAO_WITHDRAW"
  <1>1. SeparateDaoData(t)
    BY SupportedSeparate
  <1>2. \/ (OneSource(t) \/ SomeSources(t)) /\ NoDao(t)
        \/ Deposits(t) \/ Prepares(t) \/ Withdraws(t)
    BY SupportedIs DEF OneSource, SomeSources
  <1>3. /\ tag = "DAO_DEPOSIT" => spent = {} /\ paid # {} /\ Holds(t.outputs, paid, FALSE)
        /\ tag = "DAO_PREPARE" => /\ spent \cup paid # {} /\ Holds(SpentCells(t), spent, FALSE)
                                  /\ Holds(t.outputs, paid, TRUE)
        /\ tag = "DAO_WITHDRAW" => spent # {} /\ Holds(SpentCells(t), spent, TRUE) /\ paid = {}
        /\ tag \in {"NOT_SET", "MULTI_OUTPUT_TRANSFER"} => spent = {} /\ paid = {}
    BY <1>1 DEF OperationIs, Transfers
  <1>4. NoDao(t) => spent = {} /\ paid = {}
    BY DEF NoDao
  <1>5. Deposits(t) => spent = {} /\ \A n \in paid : t.outputs[n].data.nonzero = FALSE
    BY DEF Deposits, OnlyDao
  <1>6. Prepares(t) => /\ \A n \in paid : t.outputs[n].data.nonzero = TRUE
                       /\ \A i \in spent : SpentCells(t)[i].data.nonzero = FALSE
    BY DEF Prepares, OnlyDao
  <1>7. Withdraws(t) => paid = {} /\ \A i \in spent : SpentCells(t)[i].data.nonzero = TRUE
    BY DEF Withdraws, OnlyDao
  <1>8. tag \in {"NOT_SET", "MULTI_OUTPUT_TRANSFER", "DAO_DEPOSIT", "DAO_PREPARE", "DAO_WITHDRAW"}
    BY DEF Pending
  <1>9. CASE tag = "DAO_DEPOSIT"
    BY <1>2, <1>3, <1>4, <1>5, <1>6, <1>7, <1>9 DEF Holds
  <1>10. CASE tag = "DAO_PREPARE"
    BY <1>2, <1>3, <1>4, <1>5, <1>6, <1>7, <1>10 DEF Holds
  <1>11. CASE tag = "DAO_WITHDRAW"
    BY <1>2, <1>3, <1>4, <1>5, <1>6, <1>7, <1>11 DEF Holds
  <1>12. CASE tag \in {"NOT_SET", "MULTI_OUTPUT_TRANSFER"}
    BY <1>3, <1>12
  <1> QED BY <1>8, <1>9, <1>10, <1>11, <1>12

(* A function that no step lessens.                                        *)
LEMMA Grows ==
    ASSUME NEW L \in [Nat -> Nat], \A n \in Nat : L[n] <= L[n + 1], NEW m \in Nat, NEW n \in Nat, m <= n
    PROVE  L[m] <= L[n]
  <1> DEFINE S == {k \in Nat : L[m] <= L[m + k]}
  <1>1. 0 \in S
    OBVIOUS
  <1>2. \A k \in Nat : k \in S => k + 1 \in S
    <2> SUFFICES ASSUME NEW k \in Nat, L[m] <= L[m + k]
                 PROVE  L[m] <= L[m + (k + 1)]
      OBVIOUS
    <2>1. m + k \in Nat /\ m + (k + 1) = (m + k) + 1
      OBVIOUS
    <2>2. L[m + k] <= L[(m + k) + 1] /\ L[m + k] \in Nat /\ L[(m + k) + 1] \in Nat /\ L[m] \in Nat
      BY <2>1
    <2> QED BY <2>1, <2>2
  <1> HIDE DEF S
  <1>3. \A k \in Nat : k \in S
    BY <1>1, <1>2, Induction
  <1>4. n - m \in Nat /\ m + (n - m) = n
    OBVIOUS
  <1> QED BY <1>3, <1>4 DEF S

(* The rows of payments only grow.                                         *)
LEMMA PaymentsGrow ==
    ASSUME NEW t \in AnnotatedTransaction, NEW m \in Nat, m <= Len(t.outputs)
    PROVE  /\ Len(PaymentsAmong(t)[m]) \in Nat /\ Len(Payments(t)) \in Nat
           /\ Len(PaymentsAmong(t)[m]) <= Len(Payments(t))
           /\ PaidToOthers(t) = {} => Len(Payments(t)) = 0
  <1> PICK rows, last : rows = PaymentsAmong(t) /\ last = Len(t.outputs)
    OBVIOUS
  <1> PICK L : L = [n \in Nat |-> Len(rows[n])]
    OBVIOUS
  <1>1. IsPayments(rows, t) /\ last \in Nat /\ DOMAIN t.outputs = 1 .. last /\ rows[last] = Payments(t)
    BY PaymentsIs, PaidTotals, Lengths DEF Payments
  <1>2. \A n \in Nat : rows[n] \in Seq(PaymentRow)
    BY <1>1 DEF IsPayments
  <1>3. L \in [Nat -> Nat] /\ \A n \in Nat : L[n] = Len(rows[n])
    <2>1. ASSUME NEW n \in Nat PROVE Len(rows[n]) \in Nat
      <3> PICK r : r = rows[n]
        OBVIOUS
      <3>1. r \in Seq(PaymentRow)
        BY <1>2
      <3>2. Len(r) \in Nat
        BY <3>1
      <3> QED BY <3>2
    <2> QED BY <2>1
  <1>4. ASSUME NEW n \in Nat
        PROVE  L[n] <= L[n + 1] /\ (PaidToOthers(t) = {} => L[n + 1] = L[n])
    <2> PICK before, after : before = rows[n] /\ after = rows[n + 1]
      OBVIOUS
    <2>1. Len(before) \in Nat /\ before \in Seq(PaymentRow) /\ L[n] = Len(before) /\ L[n + 1] = Len(after)
      BY <1>2, <1>3
    <2>2. CASE n + 1 \in PaidToOthers(t)
      <3>1. after = Pay(before, t.outputs[n + 1]) /\ t.outputs[n + 1] \in Cell
        BY <1>1, <2>2, PaidTotals DEF IsPayments
      <3>2. Len(before) <= Len(after)
        BY <2>1, <3>1, PayLast
      <3> QED BY <2>1, <2>2, <3>2
    <2>3. CASE n + 1 \notin PaidToOthers(t)
      <3>1. after = before
        BY <1>1, <2>3 DEF IsPayments
      <3> QED BY <2>1, <3>1
    <2> QED BY <2>2, <2>3
  <1>5. L[m] <= L[last]
    BY <1>1, <1>3, <1>4, Grows
  <1>6. L[0] = 0
    <2>1. rows[0] = <<>> /\ L[0] = Len(rows[0])
      BY <1>1, <1>3 DEF IsPayments
    <2> QED BY <2>1
  <1>7. PaidToOthers(t) = {} => L[last] = 0
    <2> SUFFICES ASSUME PaidToOthers(t) = {} PROVE L[last] = 0
      OBVIOUS
    <2> DEFINE S == {k \in Nat : L[k] = 0}
    <2>1. 0 \in S
      BY <1>6
    <2>2. \A k \in Nat : k \in S => k + 1 \in S
      <3> SUFFICES ASSUME NEW k \in Nat, L[k] = 0 PROVE L[k + 1] = 0
        OBVIOUS
      <3> QED BY <1>4
    <2> HIDE DEF S
    <2>3. \A k \in Nat : k \in S
      BY <2>1, <2>2, Induction
    <2> QED BY <1>1, <2>3 DEF S
  <1>8. L[m] = Len(PaymentsAmong(t)[m]) /\ L[last] = Len(Payments(t)) /\ L[m] \in Nat /\ L[last] \in Nat
    BY <1>1, <1>3
  <1> QED BY <1>5, <1>7, <1>8

(* The callbacks that may reject.                                          *)
Rejecting ==
    {"cell_lock_code_hash", "lock_hash_type", "type_hash_type", "input_lock_arg_end", "cell_type_code_hash",
     "cell_type_arg_length", "finish_input_cell_data", "output_end", "finish_output_cell_data",
     "finalize_raw_transaction"}

(* The others leave the mark as it is.                                     *)
LEMMA UnsafeStays ==
    ASSUME IInv, ParserStep, at.cb \notin Rejecting
    PROVE  maybe_transaction'.unsafe = maybe_transaction.unsafe
  <1>1. maybe_transaction \in MaybeTransaction
    BY DEF IInv, TypeOK, FieldsOK
  <1> USE <1>1 DEF MaybeTransaction, RejectHard, Rejecting
  <1>2. CASE Prologue \/ Inputs
    BY <1>2 DEF Prologue, set_sign_path, set_change_path, init_bip32_rejects, set_input_count,
       computeNewOffsetsToHash, blake2b_chunk, Inputs, inputs_start, input_start, blake2b_input_count,
       input_save_index, input_context_start_idx, context_blake2b_chunk, finish_context_txn, finish_inputs
  <1>3. CASE CellScripts
    <2>1. cell_capacity \/ script_arg_start_input \/ script_arg_chunk
      BY <1>3, CellCallbacksOf DEF CellScripts
    <2> QED BY <2>1 DEF cell_capacity, script_arg_start_input, script_arg_chunk
  <1>4. CASE CellsData \/ InactiveCell
    <2>1. CASE set_cell_data_size \/ check_cell_data_data_chunk \/ InactiveCell
      BY <2>1 DEF set_cell_data_size, check_cell_data_data_chunk, InactiveCell
    <2> QED BY <1>4, <2>1, CellCallbacksOf DEF CellsData
  <1>5. CASE Outputs
    <2>1. output_start \/ outputs_end \/ validate_output_data_start
      BY <1>5, OutputCallbacksOf DEF Outputs
    <2> QED BY <2>1 DEF output_start, outputs_end, validate_output_data_start
  <1>6. CASE finalize_raw_transaction \/ witnesses
    BY <1>6, OutputCallbacksOf DEF witnesses
  <1> QED BY <1>2, <1>3, <1>4, <1>5, <1>6 DEF ParserStep

(* The cell that the scripts of an active cell are of.                     *)
LEMMA ActiveCell ==
    ASSUME IInv, Reading, Standard(tx), at.cb \in CellLevel, cell_state.active
    PROVE  cell \in Cell /\ StandardCell(cell)
  <1>1. /\ at.vec \in {"source", "outputs"} /\ MoreItems /\ PositionOK /\ at.j \in Nat /\ SourceKnown
        /\ tx \in AnnotatedTransaction
    BY Where DEF IInv, TypeOK, Reading, InputKnown
  <1>2. cell \in Cell
    BY <1>1, CellRead DEF IInv, TypeOK, MoreItems
  <1>3. CASE at.vec = "source"
    <2>1. at.j = Index /\ InSource
      BY <1>1, <1>3 DEF SourceKnown, InSource
    <2>2. at.i + 1 \in SpentAt(tx) /\ SpentCells(tx)[at.i + 1] = SpentNow
      BY <1>1, <2>1, InputNow DEF MoreItems
    <2>3. SpentNow = cell
      BY <1>3, <2>1 DEF SpentNow, cell, CellsRead
    <2> QED BY <1>2, <2>2, <2>3 DEF Standard
  <1>4. CASE at.vec = "outputs"
    <2>1. cell = tx.outputs[at.j + 1] /\ at.j < Len(tx.outputs)
      BY <1>1, <1>4 DEF cell, CellsRead, MoreItems
    <2>2. at.j + 1 \in DOMAIN tx.outputs
      BY <1>1, <2>1, PaidTotals, Lengths
    <2> QED BY <1>2, <2>1, <2>2 DEF Standard
  <1> QED BY <1>1, <1>3, <1>4

(* The callbacks of the scripts of a standard cell do not reject.          *)
LEMMA ScriptsAccepted ==
    ASSUME IInv, Reading, Standard(tx), ParserStep, at.cb \in CellLevel \ {"input_lock_arg_end", "output_end"}
    PROVE  maybe_transaction'.unsafe = maybe_transaction.unsafe
  <1>1. maybe_transaction \in MaybeTransaction
    BY DEF IInv, TypeOK, FieldsOK
  <1>2. /\ (CellScripts /\ cell_state.active) \/ InactiveCell
        /\ at.cb \in TypeCallbacks => HasType(cell)
    <2>1. PositionOK /\ at.vec \in {"source", "outputs"}
      BY Where DEF IInv, TypeOK
    <2>2. at.cb \in {"cell_capacity", "cell_lock_code_hash", "lock_hash_type", "script_arg_start_input",
                     "script_arg_chunk", "cell_type_code_hash", "type_hash_type", "cell_type_arg_length"}
      BY DEF CellLevel, AfterCapacity, AfterLockCode, AfterLockHash, AfterArgs, AfterTypeCode, AfterTypeHash
    <2>3. at.cb \in TypeCallbacks => HasType(cell)
      BY <2>1, <2>2, Where DEF TypeCallbacks, AfterTypeCode, AfterTypeHash
    <2>4. (CellScripts /\ cell_state.active) \/ InactiveCell
      BY <2>1, <2>2, SourceActions, OutputsActions
    <2> QED BY <2>3, <2>4
  <1>3. CASE InactiveCell
    BY <1>3 DEF InactiveCell
  <1>4. CASE CellScripts /\ cell_state.active
    <2>1. cell \in Cell /\ StandardCell(cell)
      BY <1>4, ActiveCell
    <2> PICK c : c = cell
      OBVIOUS
    <2>2. /\ c.lock.code_hash \in {"default", "multisig"} /\ c.lock.hash_type = "type"
          /\ at.cb \in TypeCallbacks =>
                c.type_.code_hash = "dao" /\ c.type_.hash_type = "type" /\ c.type_.args = "empty"
      BY <1>2, <2>1 DEF StandardCell, IsDao
    <2> USE DEF MaybeTransaction, RejectIf, RejectUnlessAllowed, TypeCallbacks
    <2>3. CASE cell_lock_code_hash
      BY <1>1, <2>2, <2>3 DEF cell_lock_code_hash
    <2>4. CASE cell_script_hash_type
      <3>1. at.cb \in {"lock_hash_type", "type_hash_type"}
        BY <2>4, CellCallbacksOf
      <3> QED BY <1>1, <2>2, <2>4, <3>1 DEF cell_script_hash_type, ParseActive, Parse
    <2>5. CASE cell_type_code_hash
      <3>1. at.cb = "cell_type_code_hash"
        BY <2>5, CellCallbacksOf
      <3> QED BY <1>1, <2>2, <2>5, <3>1 DEF cell_type_code_hash
    <2>6. CASE cell_type_arg_length
      <3>1. at.cb = "cell_type_arg_length"
        BY <2>6, CellCallbacksOf
      <3> QED BY <1>1, <2>2, <2>6, <3>1 DEF cell_type_arg_length
    <2>7. CASE cell_capacity \/ script_arg_start_input \/ script_arg_chunk
      BY <2>7 DEF cell_capacity, script_arg_start_input, script_arg_chunk
    <2> QED BY <1>4, <2>3, <2>4, <2>5, <2>6, <2>7, CellCallbacksOf DEF CellScripts
  <1> QED BY <1>2, <1>3, <1>4

(* What is signed for in one source does not start a second.               *)
LEMMA OneStart ==
    ASSUME NEW t \in AnnotatedTransaction, OneOwned(t), NEW n \in Nat, n + 1 \in SpentAt(t),
           NEW c \in Cell, c = SpentCells(t)[n + 1], NEW fst \in Nat, FirstIs(fst, t, n),
           SourcesAmong(t)[n].hash # c.lock.args.hash, IsKey(c, t.signPath)
    PROVE  fst = 0
  <1> PICK S : S = SourcesAmong(t)
    OBVIOUS
  <1>1. S[n].count \in Nat /\ S[n + 1].count = S[n].count + 1
    <2> PICK hash : hash = c.lock.args.hash
      OBVIOUS
    <2>1. S[n] \in SourceCounted /\ S[n + 1] = NextSource(S[n], hash)
      BY SourcesMore
    <2> QED BY <2>1 DEF NextSource, SourceCounted
  <1>2. n + 1 \in SignedFor(t)
    BY DEF SignedFor
  <1>3. \A i \in SignedFor(t) : S[i].count = S[n + 1].count
    BY <1>2 DEF OneOwned, SourceOf
  <1>4. fst # 0 => fst <= S[n].count /\ \E i \in SignedFor(t) : S[i].count = fst
    BY DEF FirstIs, SourceOf
  <1> QED BY <1>1, <1>3, <1>4

(* input_lock_arg_end: there is no second source of ours.                  *)
LEMMA LockAccepted ==
    ASSUME IInv, Reading, SourcesKnown, FirstKnown, Live, OneOwned(tx), ParserStep, Follow, tx' = tx,
           at.cb = "input_lock_arg_end"
    PROVE  ~maybe_transaction'.unsafe
  <1>1. /\ at.vec = "source" /\ MoreItems /\ PositionOK /\ SourceKnown /\ at.i \in Nat /\ at.j \in Nat
        /\ at.cb \in AfterArgs /\ at.cb \in CellLevel
        /\ inp \in Inp /\ maybe_transaction \in MaybeTransaction /\ tx \in AnnotatedTransaction
    BY Where DEF IInv, TypeOK, FieldsOK, Reading, InputKnown, SourceCallbacks, CellLevel, AfterCapacity, AfterLockCode,
       AfterLockHash, AfterArgs
  <1>2. input_lock_arg_end \/ InactiveCell
    <2>1. ~(Prologue \/ Inputs \/ CellsData \/ Outputs \/ finalize_raw_transaction \/ witnesses)
      BY InputCallbacksOf, CellCallbacksOf, OutputCallbacksOf DEF Prologue, Inputs, CellsData, Outputs
    <2> QED BY <2>1, CellCallbacksOf DEF ParserStep, CellScripts
  <1>3. CASE InactiveCell
    BY <1>3 DEF InactiveCell, Live
  <1>4. CASE input_lock_arg_end
    <2>1. at.j = Index /\ LockEnds
      BY <1>1, <1>4, CellCallbacksOf DEF SourceKnown, LockEnds
    <2> PICK c, n : c = SpentNow /\ n = at.i
      OBVIOUS
    <2>2. n + 1 \in SpentAt(tx) /\ InputsSourced = n
      BY <2>1, SourceProgress
    <2>3. SpentCells(tx)[n + 1] = c /\ c \in Cell
      BY <1>1, <2>2, InputNow, SpentOK DEF InSource
    <2>4. LockCompared(c, tx.signPath)
      <3>1. ~Comes /\ ~Gone
        BY <1>1, <2>1 DEF Comes, Gone
      <3> QED BY <1>1, <3>1 DEF SourceKnown, CellSoFar
    <2> PICK fst, t : fst = maybe_transaction.input_count_fst /\ t = tx
      OBVIOUS
    <2>5. FirstIs(fst, t, n) /\ fst \in Nat
      BY <1>1, <2>2 DEF FirstKnown, MaybeTransaction
    <2>6. inp.last_input_lock_arg = SourcesAmong(t)[n].hash
      BY <1>1, <2>2 DEF SourcesKnown, Outgoing
    <2>7. SourcesAmong(t)[n].hash # c.lock.args.hash /\ IsKey(c, t.signPath) => fst = 0
      BY <1>1, <2>2, <2>3, <2>5, OneStart
    <2>8. lock_arg_tmp = c.lock.args /\ (cell_state.lock_arg_nonequal <=> ~IsKey(c, t.signPath))
      <3>1. ProperLock(c, t.signPath)
        BY <2>2, <2>3 DEF Live, ProperLocks
      <3> QED BY <2>4, <3>1 DEF LockCompared
    <2>9. ~(NewSource /\ ~cell_state.lock_arg_nonequal /\ maybe_transaction.input_count_fst # 0)
      BY <2>6, <2>7, <2>8 DEF NewSource
    <2> QED BY <1>1, <1>4, <2>9 DEF input_lock_arg_end, MaybeTransaction, Live
  <1> QED BY <1>2, <1>3, <1>4

(* A DAO cell of a supported transaction joins the operation so far.       *)
LEMMA SpentJoins ==
    ASSUME NEW t \in AnnotatedTransaction, Supported(t), NEW tag \in Pending, tag # "MULTI_OUTPUT_TRANSFER",
           NEW spent \in SUBSET DaoCells(SpentCells(t)), NEW paid \in SUBSET DaoCells(t.outputs),
           OperationIs(tag, t, spent, paid),
           NEW i \in DaoCells(SpentCells(t)), NEW c, c = SpentCells(t)[i]
    PROVE  c.data.size = 8 /\ tag \in {IF c.data.nonzero THEN "DAO_WITHDRAW" ELSE "DAO_PREPARE", "NOT_SET"}
  <1>1. Prepares(t) \/ Withdraws(t)
    BY SupportedIs DEF OneSource, SomeSources, NoDao, Deposits
  <1>2. /\ Prepares(t) => c.data.size = 8 /\ ~c.data.nonzero
        /\ Withdraws(t) => c.data.size = 8 /\ c.data.nonzero
        /\ ~Deposits(t)
    BY DEF Prepares, Withdraws, Deposits, OnlyDao
  <1>3. /\ tag = "DAO_DEPOSIT" => Deposits(t)
        /\ tag = "DAO_PREPARE" => Prepares(t)
        /\ tag = "DAO_WITHDRAW" => Withdraws(t)
    BY OperationOf
  <1> QED BY <1>1, <1>2, <1>3 DEF Pending

(* A DAO cell that is paid fits the operation begun.                       *)
LEMMA PaidJoins ==
    ASSUME NEW t \in AnnotatedTransaction, Supported(t), NEW tag \in Pending, tag # "MULTI_OUTPUT_TRANSFER",
           NEW spent \in SUBSET DaoCells(SpentCells(t)), NEW paid \in SUBSET DaoCells(t.outputs),
           OperationIs(tag, t, spent, paid),
           NEW n \in DaoCells(t.outputs), NEW c, c = t.outputs[n],
           NEW op, op = IF \E m \in 1 .. n : t.outputs[m].data.nonzero THEN "DAO_PREPARE" ELSE "DAO_DEPOSIT"
    PROVE  c.data.size = 8 /\ tag \in {op, "NOT_SET"} /\ PaidToChange(t, c)
  <1>1. Deposits(t) \/ Prepares(t)
    BY SupportedIs DEF OneSource, SomeSources, NoDao, Withdraws
  <1>2. /\ Deposits(t) => c.data.size = 8 /\ ~c.data.nonzero
        /\ Prepares(t) => c.data.size = 8 /\ c.data.nonzero
        /\ PaidToChange(t, c) /\ ~Withdraws(t)
    BY <1>1 DEF Prepares, Withdraws, Deposits, OnlyDao, DaoToChange
  <1>3. /\ tag = "DAO_DEPOSIT" => Deposits(t)
        /\ tag = "DAO_PREPARE" => Prepares(t)
        /\ tag = "DAO_WITHDRAW" => Withdraws(t)
    BY OperationOf
  <1>4. DOMAIN t.outputs = 1 .. Len(t.outputs) /\ Len(t.outputs) \in Nat /\ n \in 1 .. Len(t.outputs)
    BY PaidTotals DEF DaoCells
  <1>5. Deposits(t) => op = "DAO_DEPOSIT"
    <2> SUFFICES ASSUME Deposits(t), NEW m \in 1 .. n, t.outputs[m].data.nonzero PROVE FALSE
      OBVIOUS
    <2>1. m \in DOMAIN t.outputs
      BY <1>4
    <2>2. t.outputs[m] \in Cell /\ (m \in DaoCells(t.outputs) <=> IsDao(t.outputs[m])) /\ StandardCell(t.outputs[m])
      BY <2>1, PaidTotals, SupportedIs DEF Standard
    <2>3. m \in DaoCells(t.outputs)
      BY <2>2, StandardData0
    <2> QED BY <2>3 DEF Deposits, OnlyDao
  <1>6. Prepares(t) => op = "DAO_PREPARE"
    BY <1>2, <1>4
  <1> QED BY <1>1, <1>2, <1>3, <1>5, <1>6 DEF Pending

(* finish_input_cell_data, of plain cells and of DAO cells.                *)
LEMMA SpentDataAccepted ==
    ASSUME IInv, Reading, OperationKnown, RowsKnown, Live, Supported(tx), ParserStep,
           at.cb = "finish_input_cell_data"
    PROVE  ~maybe_transaction'.unsafe
  <1>1. /\ at.vec = "source_data" /\ MoreItems /\ PositionOK /\ at.i \in Nat /\ at.j \in Nat
        /\ maybe_transaction \in MaybeTransaction /\ tx \in AnnotatedTransaction
    BY Where DEF IInv, TypeOK, FieldsOK
  <1>2. CASE ~DataEnd
    BY <1>2, SpentDataEnds DEF Live
  <1>3. CASE DataEnd
    <2> PICK c, i, t, tag : c = SpentNow /\ i = at.i + 1 /\ t = tx /\ tag = maybe_transaction.tag
      OBVIOUS
    <2>1. /\ finish_input_cell_data_dao \/ finish_input_cell_data_plain
          /\ c \in Cell /\ (cell_state.is_dao <=> IsDao(c))
          /\ cell_state.dao_data_is_nonzero <=> c.data.nonzero
          /\ cell_state.data_size = IF c.data.size < 15 THEN c.data.size ELSE 15
      BY <1>3, SpentDataEnds DEF WholeCell
    <2>2. i \in SpentAt(t) /\ SpentCells(t)[i] = c
      BY <1>1, <1>3, InputNow DEF InSource, DataEnd, MoreItems
    <2>3. StandardCell(c) /\ (i \in DaoCells(SpentCells(t)) <=> IsDao(c))
      BY <1>1, <2>2, SupportedIs, SpentTotals DEF Standard
    <2>4. CASE ~IsDao(c)
      <3>1. cell_state.data_size = 0 /\ finish_input_cell_data_plain
        BY <2>1, <2>3, <2>4, StandardData0 DEF finish_input_cell_data_dao
      <3> QED BY <3>1 DEF finish_input_cell_data_plain, NoteContractData, Live
    <2>5. CASE IsDao(c)
      <3>1. tag \in Pending /\ tag # "MULTI_OUTPUT_TRANSFER"
        BY <1>1 DEF IInv, Ledger, TagKnown, RowsKnown, Outgoing
      <3>2. OperationIs(tag, t, DaoSeen(SpentCells(t), InputsCounted), DaoSeen(t.outputs, OutputsCounted))
        BY DEF OperationKnown
      <3>3. /\ DaoSeen(SpentCells(t), InputsCounted) \in SUBSET DaoCells(SpentCells(t))
            /\ DaoSeen(t.outputs, OutputsCounted) \in SUBSET DaoCells(t.outputs)
        BY DEF DaoSeen
      <3>4. c.data.size = 8 /\ tag \in {IF c.data.nonzero THEN "DAO_WITHDRAW" ELSE "DAO_PREPARE", "NOT_SET"}
        <4> PICK spent, paid : /\ spent = DaoSeen(SpentCells(t), InputsCounted)
                               /\ paid = DaoSeen(t.outputs, OutputsCounted)
          OBVIOUS
        <4>1. Supported(t) /\ t \in AnnotatedTransaction
          BY <1>1
        <4>2. i \in DaoCells(SpentCells(t)) /\ c = SpentCells(t)[i] /\ OperationIs(tag, t, spent, paid)
              /\ spent \in SUBSET DaoCells(SpentCells(t)) /\ paid \in SUBSET DaoCells(t.outputs)
          BY <2>2, <2>3, <2>5, <3>2, <3>3
        <4> QED BY <3>1, <4>1, <4>2, SpentJoins
      <3>5. finish_input_cell_data_dao /\ cell_state.data_size = 8
        BY <2>1, <2>5, <3>4 DEF finish_input_cell_data_plain
      <3>6. JoinsOperation(IF cell_state.dao_data_is_nonzero THEN "DAO_WITHDRAW" ELSE "DAO_PREPARE")
        BY <2>1, <3>4 DEF JoinsOperation
      <3> QED BY <1>1, <3>5, <3>6 DEF finish_input_cell_data_dao, MaybeTransaction, Live
    <2> QED BY <2>4, <2>5
  <1> QED BY <1>2, <1>3

(* How many outputs have been read.                                        *)
LEMMA OutputsWithin ==
    ASSUME IInv, Reading, Outgoing
    PROVE  OutputsScripted \in Nat /\ OutputsScripted <= Len(tx.outputs)
  <1>1. PositionOK /\ at.j \in Nat /\ Len(tx.outputs) \in Nat
    BY Where, Lengths DEF IInv, TypeOK
  <1>2. at.vec = "outputs" => at.j <= Len(tx.outputs)
    <2> SUFFICES ASSUME at.vec = "outputs" PROVE at.j <= Len(tx.outputs)
      OBVIOUS
    <2>1. CellsRead = tx.outputs
      BY DEF CellsRead
    <2>2. CASE at.cb \in {"outputs", "outputs_end"}
      BY <1>1, <2>2 DEF Reading, EndsReached
    <2>3. CASE at.cb \notin {"outputs", "outputs_end"}
      BY <1>1, <2>1, <2>3 DEF PositionOK, AtOutputs, MoreItems
    <2> QED BY <2>2, <2>3
  <1> QED BY <1>1, <1>2 DEF OutputsScripted, Outgoing

(* Once the operation is a transfer to several, two rows are due.          *)
LEMMA SeveralRows ==
    ASSUME IInv, Reading, RowsKnown, RowsCounted, Live, maybe_transaction.tag = "MULTI_OUTPUT_TRANSFER"
    PROVE  Outgoing /\ Len(Payments(tx)) >= 2 /\ Len(Payments(tx)) \in Nat
  <1>1. Outgoing /\ utx.output_count >= 2 /\ ~utx.is_self_transfer /\ utx.output_count \in Nat
    BY DEF RowsKnown, RowsAre, IInv, TypeOK, FieldsOK, UTx, MAX_OUTPUTS
  <1> PICK n, count : n = OutputsScripted /\ count = utx.output_count
    OBVIOUS
  <1>2. n \in Nat /\ n <= Len(tx.outputs) /\ tx \in AnnotatedTransaction
    BY <1>1, OutputsWithin DEF IInv, TypeOK
  <1>3. count <= Len(PaymentsAmong(tx)[n])
    BY <1>1 DEF RowsCounted, CountIs
  <1> PICK x, y : x = Len(PaymentsAmong(tx)[n]) /\ y = Len(Payments(tx))
    OBVIOUS
  <1>4. x \in Nat /\ y \in Nat /\ x <= y
    BY <1>2, PaymentsGrow
  <1>5. y >= 2
    BY <1>1, <1>3, <1>4
  <1> QED BY <1>1, <1>4, <1>5

(* Only a transfer of one source has more than one row.                    *)
LEMMA RowsTell ==
    ASSUME NEW t \in AnnotatedTransaction, Supported(t), Len(Payments(t)) >= 2
    PROVE  OneSource(t) /\ Len(Payments(t)) <= 5
  <1>1. Len(t.outputs) \in Nat
    BY Lengths
  <1>2. Len(Payments(t)) \in Nat /\ (PaidToOthers(t) = {} => Len(Payments(t)) = 0)
    BY <1>1, PaymentsGrow
  <1> PICK y : y = Len(Payments(t))
    OBVIOUS
  <1>3. ~(y <= 1) /\ y # 0
    BY <1>2
  <1> QED BY <1>2, <1>3, SupportedIs DEF OneSource, SomeSources, Deposits, Prepares, Withdraws

(* output_end, all five ways.                                              *)
LEMMA OutputAccepted ==
    ASSUME IInv, Reading, OperationKnown, RowsKnown, RowsCounted, Live, Supported(tx), ParserStep, Follow,
           tx' = tx, at.cb = "output_end"
    PROVE  ~maybe_transaction'.unsafe
  <1> PICK c, n, t, tag, m : c = cell /\ n = at.j + 1 /\ t = tx /\ tag = maybe_transaction.tag /\ m = maybe_transaction
    OBVIOUS
  <1>1. /\ at.vec = "outputs" /\ PositionOK /\ at.j \in Nat /\ utx \in UTx
        /\ m \in MaybeTransaction /\ t \in AnnotatedTransaction /\ cell_state \in CellState
        /\ tag \in Pending /\ Supported(t) /\ ~m.unsafe
    BY Where DEF IInv, TypeOK, FieldsOK, Ledger, TagKnown, Live
  <1>2. /\ output_end /\ WholeCell(c, t.changePath) /\ c \in Cell
        /\ n \in DOMAIN t.outputs /\ c = t.outputs[n] /\ OutputsScripted = at.j
    BY OutputEnds, OutputProgress
  <1>3. /\ cell_state.is_dao <=> IsDao(c)
        /\ NotChange <=> ~PaidToChange(t, c)
        /\ lock_arg_tmp = c.lock.args /\ cell_state.is_multisig = (c.lock.code_hash = "multisig")
    <2>1. ProperLock(c, t.changePath)
      BY <1>1, <1>2, ProperOutput DEF Live
    <2> QED BY <1>1, <1>2, <2>1 DEF WholeCell, LockCompared, NotChange, PaidToChange, IsKey, KeyLock, CellState
  <1>4. n \in DaoCells(t.outputs) <=> IsDao(c)
    BY <1>1, <1>2, PaidTotals
  <1>5. /\ OperationIs(tag, t, DaoSeen(SpentCells(t), InputsCounted), DaoSeen(t.outputs, OutputsCounted))
        /\ DaoSeen(SpentCells(t), InputsCounted) \in SUBSET DaoCells(SpentCells(t))
        /\ DaoSeen(t.outputs, OutputsCounted) \in SUBSET DaoCells(t.outputs)
    BY DEF OperationKnown, DaoSeen
  <1>6. CASE output_end_dao
    <2>1. n \in DaoCells(t.outputs)
      BY <1>3, <1>4, <1>6 DEF output_end_dao, OutputEnd
    <2>2. DaoToChange(t)
      BY <1>1, <2>1, SupportedIs DEF OneSource, SomeSources, NoDao, Deposits, Prepares, Withdraws
    <2>3. ~NotChange
      BY <1>2, <1>3, <2>1, <2>2 DEF DaoToChange
    <2> QED BY <1>1, <1>6, <2>3 DEF output_end_dao, SetFlag, MaybeTransaction
  <1>7. CASE output_end_change \/ output_end_same
    BY <1>1, <1>7 DEF output_end_change, output_end_same, SetFlag, MaybeTransaction
  <1>8. CASE output_end_first
    <2>1. at' # Refused
      BY VectorsInOrder, Where DEF IInv, TypeOK, Refused, Position
    <2> QED BY <1>1, <1>8, <2>1 DEF output_end_first, Throw, SetFlag, MaybeTransaction
  <1>9. CASE output_end_other
    <2> PICK table, count, rows : table = utx.outputs /\ count = utx.output_count /\ rows = PaymentsAmong(t)[at.j]
      OBVIOUS
    <2>1. Pays(t, c) /\ HasFlag("HAS_DESTINATION_ADDRESS") /\ ~SameAsLast
      BY <1>3, <1>9 DEF output_end_other, OutputEnd, PlainOutput, Pays
    <2>2. table \in [Slot -> Output] /\ count \in 1 .. MAX_OUTPUTS
      BY <1>1, <2>1, FirstRow DEF UTx, MAX_OUTPUTS
    <2>3. ~SameRow(table[count - 1], c)
      BY <1>3, <2>1 DEF SameAsLast, SameRow, last_output
    <2>4. rows \in Seq(PaymentRow) /\ PaymentsAmong(t)[n] = Pay(rows, c)
      <3>1. IsPayments(PaymentsAmong(t), t) /\ n \in PaidToOthers(t)
        BY <1>1, <1>2, <2>1, PaymentsIs, PaidTotals
      <3> QED BY <1>1, <1>2, <3>1 DEF IsPayments
    <2>5. CountIs(table, count, rows)
      BY <1>1, <1>2, FirstRow DEF RowsCounted, Outgoing
    <2>6. count + 1 <= Len(Pay(rows, c))
      <3>1. ProperLock(c, t.changePath)
        BY <1>1, <1>2, ProperOutput DEF Live
      <3> QED BY <1>2, <2>2, <2>3, <2>4, <2>5, <3>1, CountStarts DEF MAX_OUTPUTS
    <2> PICK x, y : x = Len(PaymentsAmong(t)[n]) /\ y = Len(Payments(t))
      OBVIOUS
    <2>7. x \in Nat /\ y \in Nat /\ x <= y
      <3>1. n \in Nat /\ n <= Len(t.outputs)
        BY <1>1, <1>2, PaidTotals, Lengths
      <3> QED BY <1>1, <3>1, PaymentsGrow
    <2>8. y >= 2 /\ count + 1 <= y
      BY <2>2, <2>4, <2>6, <2>7 DEF MAX_OUTPUTS
    <2>9. OneSource(t) /\ y <= 5
      BY <1>1, <2>8, RowsTell
    <2>10. ~TableFull
      BY <2>2, <2>7, <2>8, <2>9 DEF TableFull, MAX_OUTPUTS
    <2> PICK spent, paid : spent = DaoSeen(SpentCells(t), InputsCounted) /\ paid = DaoSeen(t.outputs, OutputsCounted)
      OBVIOUS
    <2>11. /\ OperationIs(tag, t, spent, paid) /\ NoDao(t)
           /\ spent \in SUBSET DaoCells(SpentCells(t)) /\ paid \in SUBSET DaoCells(t.outputs)
      BY <1>5, <2>9 DEF OneSource
    <2>12. tag \in {"NOT_SET", "MULTI_OUTPUT_TRANSFER"}
      BY ONLY <1>1, <2>11, OperationOf
    <2> QED BY <1>1, <1>9, <2>10, <2>12 DEF output_end_other, JoinsOperation, MaybeTransaction
  <1> QED BY <1>2, <1>6, <1>7, <1>8, <1>9 DEF output_end

(* finish_output_cell_data, of plain cells and of DAO cells.               *)
LEMMA OutputDataAccepted ==
    ASSUME IInv, Reading, OperationKnown, RowsKnown, RowsCounted, Live, Supported(tx), ParserStep, Follow,
           tx' = tx, at.cb = "finish_output_cell_data"
    PROVE  ~maybe_transaction'.unsafe
  <1> PICK c, n, t, tag, m : c = cell /\ n = at.j + 1 /\ t = tx /\ tag = maybe_transaction.tag /\ m = maybe_transaction
    OBVIOUS
  <1>1. /\ at.vec = "outputs_data" /\ at.j \in Nat /\ m \in MaybeTransaction /\ t \in AnnotatedTransaction
        /\ tag \in Pending /\ Supported(t) /\ ~m.unsafe
    BY Where DEF IInv, TypeOK, FieldsOK, Ledger, TagKnown, Live
  <1>2. /\ finish_output_cell_data
        /\ c = t.outputs[n] /\ n \in DOMAIN t.outputs /\ c \in Cell
        /\ cell_state.is_dao <=> IsDao(c)
        /\ cell_state.dao_data_is_nonzero <=> NonzeroAmong(n)
        /\ cell_state.data_size = IF c.data.size < 15 THEN c.data.size ELSE 15
    BY OutputDataEnds
  <1>3. StandardCell(c) /\ (n \in DaoCells(t.outputs) <=> IsDao(c))
    BY <1>1, <1>2, SupportedIs, PaidTotals DEF Standard
  <1>4. CASE ~IsDao(c)
    <2>1. cell_state.data_size = 0 /\ ~cell_state.is_dao
      BY <1>2, <1>3, <1>4, StandardData0
    <2> QED BY <1>1, <1>2, <2>1 DEF finish_output_cell_data, NoteContractData
  <1>5. CASE IsDao(c)
    <2> PICK op : op = IF \E k \in 1 .. n : t.outputs[k].data.nonzero THEN "DAO_PREPARE" ELSE "DAO_DEPOSIT"
      OBVIOUS
    <2>1. n \in DaoCells(t.outputs)
      BY <1>3, <1>5
    <2>2. tag # "MULTI_OUTPUT_TRANSFER"
      BY <1>1, <2>1, SeveralRows, RowsTell DEF OneSource, NoDao
    <2> PICK spent, paid : spent = DaoSeen(SpentCells(t), InputsCounted) /\ paid = DaoSeen(t.outputs, OutputsCounted)
      OBVIOUS
    <2>3. /\ OperationIs(tag, t, spent, paid)
          /\ spent \in SUBSET DaoCells(SpentCells(t)) /\ paid \in SUBSET DaoCells(t.outputs)
      BY DEF OperationKnown, DaoSeen
    <2>4. c.data.size = 8 /\ tag \in {op, "NOT_SET"}
      <3>1. op = IF \E k \in 1 .. n : t.outputs[k].data.nonzero THEN "DAO_PREPARE" ELSE "DAO_DEPOSIT"
        OBVIOUS
      <3> QED BY ONLY <1>1, <1>2, <2>1, <2>2, <2>3, <3>1, PaidJoins
    <2>5. op = IF cell_state.dao_data_is_nonzero THEN "DAO_PREPARE" ELSE "DAO_DEPOSIT"
      BY <1>2 DEF NonzeroAmong
    <2>6. cell_state.is_dao /\ cell_state.data_size = 8 /\ JoinsOperation(op)
      BY <1>2, <1>5, <2>4 DEF JoinsOperation
    <2> QED BY <1>1, <1>2, <2>5, <2>6 DEF finish_output_cell_data, MaybeTransaction
  <1> QED BY <1>4, <1>5

(* A transfer to oneself spends no DAO cell.                               *)
SelfPlain == Live /\ Outgoing /\ utx.is_self_transfer => DaoCells(SpentCells(tx)) = {}

(* outputs_end alone makes one, and only without DAO operations.           *)
LEMMA SelfPlainStep ==
    ASSUME IInv, Reading, OperationKnown, SelfPlain, ParserStep
    PROVE  SelfPlain'
  <1> SUFFICES ASSUME Live', Outgoing', utx'.is_self_transfer PROVE DaoCells(SpentCells(tx')) = {}
    BY DEF SelfPlain
  <1>1. Live /\ Follow /\ tx' = tx /\ ~maybe_transaction'.unsafe
    BY LiveStep DEF Live
  <1>2. Outgoing /\ at.cb # "finish_inputs"
    BY <1>1, OutgoingStep DEF ZeroUTx
  <1>3. CASE utx.is_self_transfer
    BY <1>1, <1>2, <1>3 DEF SelfPlain
  <1>4. CASE ~utx.is_self_transfer
    <2>1. at.cb \in {"output_end", "outputs_end"}
      BY <1>2, <1>4, TableStays DEF SameTable
    <2>2. at.cb # "output_end"
      BY <1>1, <1>4, OutputCounted DEF OutputAmounts, Live
    <2>3. SelfOnly
      BY <1>1, <1>4, <2>1, <2>2, OutputsEnded
    <2> PICK tag, t : tag = maybe_transaction.tag /\ t = tx
      OBVIOUS
    <2>4. tag \in Pending /\ t \in AnnotatedTransaction /\ at.vec = "outputs"
      BY <1>1, <2>1, <2>2, Where DEF IInv, TypeOK, FieldsOK, Ledger, TagKnown, Live
    <2>5. OperationIs(tag, t, DaoSeen(SpentCells(t), Len(t.inputs)), DaoSeen(t.outputs, 0))
      BY <1>1, <2>4 DEF OperationKnown, InputsCounted, OutputsCounted
    <2>6. DaoSeen(SpentCells(t), Len(t.inputs)) = DaoCells(SpentCells(t))
      BY <2>4, DaoAllSeen
    <2>7. DOMAIN t.outputs \subseteq Nat \ {0}
      BY <2>4, PaidTotals
    <2>8. DaoSeen(t.outputs, 0) = {}
      BY <2>7, DaoSeenMore
    <2>9. tag \in {"NOT_SET", "MULTI_OUTPUT_TRANSFER", "DAO_DEPOSIT"}
      BY <2>3, <2>4 DEF SelfOnly, Pending
    <2>10. DaoCells(SpentCells(t)) = {}
      BY <2>5, <2>6, <2>8, <2>9 DEF OperationIs, Transfers
    <2> QED BY <1>1, <2>10
  <1> QED BY <1>3, <1>4

(* Where finalize_raw_transaction finds the counters: everything is read.  *)
LEMMA EndCounters ==
    ASSUME IInv, Reading, SpentKnown, SourcesKnown, OperationKnown, AmountsKnown, SelfPlain, FirstKnown,
           Live, at.cb = "finalize_raw_transaction"
    PROVE  /\ at.vec = "outputs_data" /\ Outgoing
           /\ SpentIs(sums, tx, Len(tx.inputs)) /\ sums.distinct_input_sources = SourceCount(tx)
           /\ AmountsAre(utx, tx, Len(tx.outputs))
           /\ maybe_transaction.tag \in Pending
           /\ OperationIs(maybe_transaction.tag, tx, DaoCells(SpentCells(tx)), DaoCells(tx.outputs))
           /\ InputsSourced = Len(tx.inputs)
  <1>1. at.vec = "outputs_data" /\ at.j = Len(tx.outputs) /\ tx \in AnnotatedTransaction
    BY Where DEF IInv, TypeOK, Reading, EndsReached
  <1>2. /\ Outgoing /\ InputsCounted = Len(tx.inputs) /\ InputsSourced = Len(tx.inputs)
        /\ OutputsScripted = Len(tx.outputs) /\ OutputsCounted = Len(tx.outputs)
    BY <1>1 DEF Outgoing, InputsCounted, InputsSourced, LockRead, InputsScripted, OutputsScripted, OutputsCounted
  <1>3. SpentIs(sums, tx, Len(tx.inputs)) /\ sums.distinct_input_sources = SourceCount(tx)
    BY <1>2 DEF SpentKnown, SourcesKnown, SourceCount, SourceOf
  <1>4. AmountsAre(utx, tx, Len(tx.outputs))
    BY <1>2 DEF AmountsKnown
  <1>5. maybe_transaction.tag \in Pending
    BY <1>1 DEF IInv, Ledger, TagKnown, Live
  <1>6. OperationIs(maybe_transaction.tag, tx, DaoCells(SpentCells(tx)), DaoCells(tx.outputs))
    BY <1>1, <1>2, DaoAllSeen DEF OperationKnown
  <1> QED BY <1>1, <1>2, <1>3, <1>4, <1>5, <1>6

(* What finalize_raw_transaction rejects.                                  *)
LEMMA Rejected ==
    ASSUME IInv, finalize_raw_transaction, ~maybe_transaction.unsafe, maybe_transaction'.unsafe
    PROVE  \/ /\ maybe_transaction.tag = "NOT_SET" /\ sums.distinct_input_sources > 1
              /\ sums.signing_multisig_input \/ maybe_transaction.input_count_fst = 0
           \/ maybe_transaction.tag = "MULTI_OUTPUT_TRANSFER" /\ sums.distinct_input_sources > 1
           \/ maybe_transaction.tag = "DAO_PREPARE" /\ utx.dao_output_amount # sums.dao_input_amount
           \/ /\ maybe_transaction.tag = "DAO_WITHDRAW"
              /\ utx.dao_output_amount # 0 \/ utx.plain_output_amount # 0
  <1>1. maybe_transaction \in MaybeTransaction
    BY DEF IInv, TypeOK, FieldsOK
  <1> USE DEF MaybeTransaction, Finalize
  <1>2. ~finalize_single_source
    BY <1>1 DEF finalize_single_source
  <1>3. ~finalize_dao_deposit
    BY <1>1 DEF finalize_dao_deposit
  <1>4. CASE finalize_multi_source
    BY <1>1, <1>4 DEF finalize_multi_source
  <1>5. CASE finalize_multi_output
    BY <1>1, <1>5 DEF finalize_multi_output
  <1>6. CASE finalize_dao_prepare
    BY <1>1, <1>6 DEF finalize_dao_prepare
  <1>7. CASE finalize_dao_withdraw
    BY <1>1, <1>7 DEF finalize_dao_withdraw
  <1> QED BY <1>2, <1>3, <1>4, <1>5, <1>6, <1>7 DEF finalize_raw_transaction

(* None of this happens to a transaction the app is for.                   *)
LEMMA FinalizeAccepted ==
    ASSUME IInv, Reading, Known, MultisigKnown, FirstKnown, RowsCounted, SelfPlain, Live, Supported(tx), ParserStep,
           at.cb = "finalize_raw_transaction"
    PROVE  ~maybe_transaction'.unsafe
  <1> SUFFICES ASSUME maybe_transaction'.unsafe PROVE FALSE
    OBVIOUS
  <1> PICK t, s, u, m, spent, paid : t = tx /\ s = sums /\ u = utx /\ m = maybe_transaction
                                     /\ spent = DaoCells(SpentCells(tx)) /\ paid = DaoCells(tx.outputs)
    OBVIOUS
  <1>1. /\ at.vec = "outputs_data" /\ Outgoing
        /\ SpentIs(s, t, Len(t.inputs)) /\ s.distinct_input_sources = SourceCount(t)
        /\ AmountsAre(u, t, Len(t.outputs)) /\ m.tag \in Pending
        /\ OperationIs(m.tag, t, spent, paid)
        /\ InputsSourced = Len(t.inputs)
    BY EndCounters DEF Known
  <1>2. /\ t \in AnnotatedTransaction /\ Supported(t)
        /\ spent = DaoCells(SpentCells(t)) /\ paid = DaoCells(t.outputs)
        /\ spent \in SUBSET spent /\ paid \in SUBSET paid
    BY DEF IInv, TypeOK
  <1>3. \/ m.tag = "NOT_SET" /\ s.distinct_input_sources > 1 /\ (s.signing_multisig_input \/ m.input_count_fst = 0)
        \/ m.tag = "MULTI_OUTPUT_TRANSFER" /\ s.distinct_input_sources > 1
        \/ m.tag = "DAO_PREPARE" /\ u.dao_output_amount # s.dao_input_amount
        \/ m.tag = "DAO_WITHDRAW" /\ (u.dao_output_amount # 0 \/ u.plain_output_amount # 0)
    BY HashActions, Rejected DEF Live
  <1>4. /\ m.tag = "DAO_PREPARE" => Prepares(t)
        /\ m.tag = "DAO_WITHDRAW" => Withdraws(t)
    BY ONLY <1>1, <1>2, OperationOf
  <1>5. ASSUME m.tag = "NOT_SET", s.distinct_input_sources > 1 PROVE SomeSources(t)
    <2>1. NoDao(t)
      BY <1>1, <1>2, <1>5 DEF OperationIs, Transfers, NoDao
    <2>2. OneSource(t) \/ SomeSources(t)
      BY <1>2, <2>1, SupportedIs
    <2> QED BY <1>1, <1>5, <2>2 DEF OneSource
  <1>6. ASSUME m.tag = "NOT_SET", s.distinct_input_sources > 1, s.signing_multisig_input PROVE FALSE
    <2>1. \E i \in SpentAt(t) : SpentCells(t)[i].lock.code_hash = "multisig"
      BY <1>6 DEF MultisigKnown
    <2> QED BY <1>5, <1>6, <2>1 DEF SomeSources
  <1>7. ASSUME m.tag = "NOT_SET", s.distinct_input_sources > 1, m.input_count_fst = 0 PROVE FALSE
    <2>1. SomeSources(t)
      BY <1>5, <1>7
    <2>2. OursIs(m.input_count_fst, t, Len(t.inputs))
      BY <1>1 DEF Known, OursKnown
    <2>3. PICK i \in SignedFor(t) : TRUE
      BY <2>1 DEF SomeSources
    <2>4. i <= Len(t.inputs)
      <3>1. i \in 1 .. Len(t.inputs) /\ Len(t.inputs) \in Nat
        BY <1>2, SpentOK, Lengths DEF SignedFor
      <3> QED BY <3>1
    <2> QED BY <1>7, <2>2, <2>4 DEF OursIs
  <1>8. ASSUME m.tag = "MULTI_OUTPUT_TRANSFER", s.distinct_input_sources > 1 PROVE FALSE
    <2>1. Len(Payments(t)) >= 2
      BY <1>8, SeveralRows DEF Known
    <2>2. OneSource(t)
      BY <1>2, <2>1, RowsTell
    <2> QED BY <1>1, <1>8, <2>2 DEF OneSource
  <1>9. ASSUME m.tag = "DAO_PREPARE" PROVE u.dao_output_amount = s.dao_input_amount
    BY <1>1, <1>2, <1>4, <1>9 DEF Prepares, TotalSpent, TotalPaid, SpentIs, AmountsAre
  <1>10. ASSUME m.tag = "DAO_WITHDRAW" PROVE u.dao_output_amount = 0 /\ u.plain_output_amount = 0
    <2>1. DaoCells(t.outputs) = {} /\ PaidToOthers(t) = {} /\ spent # {}
      BY <1>1, <1>4, <1>10 DEF Withdraws, OperationIs
    <2>2. ~u.is_self_transfer
      BY <1>1, <1>2, <2>1 DEF SelfPlain
    <2>3. Totals(t.outputs, {})[Len(t.outputs)] = 0
      <3>1. Amounts(t.outputs, {}) /\ Len(t.outputs) \in Nat
        BY <1>2, Lengths DEF Amounts
      <3> QED BY ONLY <3>1, TotalsNone
    <2> QED BY <1>1, <2>1, <2>2, <2>3 DEF AmountsAre
  <1> QED BY <1>3, <1>6, <1>7, <1>8, <1>9, <1>10

-----------------------------------------------------------------------------
(* A transaction of the kinds the app is for is not marked unsafe while it *)
(* is read, and what keeps it from being: the strengthening of             *)
(* SupportedNotRefused.                                                    *)
Fine == at.vec # "end" /\ Supported(tx) => ~maybe_transaction.unsafe
Accepting == MultisigKnown /\ FirstKnown /\ RowsCounted /\ SelfPlain /\ Fine

(* Every callback.                                                         *)
LEMMA FineStep ==
    ASSUME IInv, Reading, Known, Accepting, ParserStep
    PROVE  Fine'
  <1> SUFFICES ASSUME at'.vec # "end", Supported(tx') PROVE ~maybe_transaction'.unsafe
    BY DEF Fine
  <1>1. Follow /\ tx' = tx /\ at.vec # "end"
    BY StepShape, VectorsInOrder DEF env, Refused, Position, IInv, TypeOK
  <1>2. Supported(tx) /\ Live /\ tx \in AnnotatedTransaction
    BY <1>1, SupportedIs DEF Accepting, Fine, Live, IInv, TypeOK
  <1>3. Standard(tx) /\ OneOwned(tx)
    BY <1>2, SupportedIs
  <1>4. CASE at.cb \notin Rejecting
    BY <1>2, <1>4, UnsafeStays DEF Live
  <1>5. CASE at.cb \in CellLevel \ {"input_lock_arg_end", "output_end"}
    BY <1>2, <1>3, <1>5, ScriptsAccepted DEF Live
  <1>6. CASE at.cb = "input_lock_arg_end"
    BY <1>1, <1>2, <1>3, <1>6, LockAccepted DEF Known, Accepting
  <1>7. CASE at.cb = "finish_input_cell_data"
    BY <1>2, <1>7, SpentDataAccepted DEF Known, Accepting
  <1>8. CASE at.cb = "output_end"
    BY <1>1, <1>2, <1>8, OutputAccepted DEF Known, Accepting
  <1>9. CASE at.cb = "finish_output_cell_data"
    BY <1>1, <1>2, <1>9, OutputDataAccepted DEF Known, Accepting
  <1>10. CASE at.cb = "finalize_raw_transaction"
    BY <1>2, <1>10, FinalizeAccepted DEF Accepting
  <1> QED BY <1>4, <1>5, <1>6, <1>7, <1>8, <1>9, <1>10
      DEF Rejecting, CellLevel, AfterCapacity, AfterLockCode, AfterLockHash, AfterArgs, AfterTypeCode, AfterTypeHash

LEMMA AcceptingStep ==
    ASSUME IInv, Reading, Known, Accepting, ParserStep
    PROVE  Accepting'
  BY MultisigStep, FirstStep, RowsCountedStep, SelfPlainStep, FineStep DEF Accepting, Known

(* What clear_data leaves has counted nothing.                             *)
LEMMA AcceptingClear ==
    at.vec = "none" /\ maybe_transaction = ZeroMaybeTransaction /\ sums = ZeroSums => Accepting
  <1> SUFFICES ASSUME at.vec = "none", maybe_transaction = ZeroMaybeTransaction, sums = ZeroSums
               PROVE  Accepting
    OBVIOUS
  <1>1. ~Outgoing
    BY DEF Outgoing
  <1>2. ~sums.signing_multisig_input /\ maybe_transaction.input_count_fst = 0 /\ ~maybe_transaction.unsafe
    BY DEF ZeroSums, ZeroMaybeTransaction
  <1> QED BY <1>1, <1>2 DEF Accepting, MultisigKnown, FirstKnown, FirstIs, RowsCounted, SelfPlain, Fine

LEMMA AcceptingNext == IInv /\ Reading /\ Known /\ Accepting /\ [Next]_vars => Accepting'
  <1> SUFFICES ASSUME IInv, Reading, Known, Accepting, [Next]_vars PROVE Accepting'
    OBVIOUS
  <1>1. ASSUME first_chunk \/ sign_ok \/ sign_reject PROVE Accepting'
    <2>1. at'.vec = "none" /\ maybe_transaction' = ZeroMaybeTransaction /\ sums' = ZeroSums
      BY <1>1 DEF first_chunk, sign_ok, sign_reject, clear_data, clear_counters, Idle, Position
    <2>2. (at.vec = "none" /\ maybe_transaction = ZeroMaybeTransaction /\ sums = ZeroSums)'
      BY <2>1 DEF ZeroMaybeTransaction, ZeroSums
    <2> QED BY <2>2, AcceptingClear, PTL
  <1>2. ASSUME chunk_refused \/ Complete PROVE Accepting'
    <2>1. at' \in {Refused, Review}
      BY <1>2 DEF chunk_refused, Complete, complete_unmarked, complete_hard_reject, complete_unsafe, sign_complete, Throw
    <2>2. ~Live' /\ at'.vec = "end"
      BY <2>1 DEF Live, Refused, Review, Position
    <2> QED BY <2>2 DEF Accepting, MultisigKnown, FirstKnown, RowsCounted, SelfPlain, Fine
  <1>3. ASSUME switch_contract_data \/ UNCHANGED vars PROVE Accepting'
    <2>1. UNCHANGED <<tx, at, maybe_transaction, sums, utx>>
      BY <1>3 DEF switch_contract_data, parseState, vars, env
    <2>2. /\ Live' = Live /\ Outgoing' = Outgoing /\ InputsSourced' = InputsSourced
          /\ OutputsScripted' = OutputsScripted
      BY <2>1 DEF Live, Outgoing, InputsScripted, OutputsScripted, InputsSourced, LockRead, Gone, Index, AfterTypeCode
    <2> QED BY <2>1, <2>2 DEF Accepting, MultisigKnown, FirstKnown, RowsCounted, SelfPlain, Fine
  <1> QED BY <1>1, <1>2, <1>3, AcceptingStep DEF Next

(* What a callback answers when it throws.                                 *)
LEMMA ParserAnswers ==
    ASSUME ParserStep
    PROVE  at' # Refused \/ Follow \/ reply' \in {"EXC_PARSE_ERROR", "EXC_MEMORY_ERROR", "EXC_WRONG_PARAM"}
  <1>1. CASE Prologue
    BY <1>1 DEF Prologue, set_sign_path, set_change_path, init_bip32_rejects, set_input_count,
       computeNewOffsetsToHash, blake2b_chunk, Parse
  <1>2. CASE Inputs
    BY <1>2 DEF Inputs, inputs_start, input_start, blake2b_input_count, input_save_index,
       input_context_start_idx, context_blake2b_chunk, finish_context_txn, finish_inputs, Parse
  <1>3. CASE CellScripts
    BY <1>3 DEF CellScripts, cell_capacity, cell_lock_code_hash, cell_script_hash_type, script_arg_start_input,
       script_arg_chunk, input_lock_arg_end, cell_type_code_hash, cell_type_arg_length, ParseActive, Parse
  <1>4. CASE CellsData \/ InactiveCell
    BY <1>4 DEF CellsData, set_cell_data_size, check_cell_data_data_chunk, finish_input_cell_data_dao,
       finish_input_cell_data_plain, InactiveCell, ParseActive, Parse
  <1>5. CASE Outputs
    BY <1>5 DEF Outputs, output_start, output_end, output_end_dao, output_end_change, output_end_first,
       output_end_same, output_end_other, OutputEnd, Continue, Throw, outputs_end, validate_output_data_start,
       finish_output_cell_data, Parse
  <1>6. CASE finalize_raw_transaction \/ witnesses
    BY <1>6 DEF finalize_raw_transaction, finalize_single_source, finalize_multi_source, finalize_multi_output,
       finalize_dao_deposit, finalize_dao_prepare, finalize_dao_withdraw, Finalize, witnesses, Parse
  <1> QED BY <1>1, <1>2, <1>3, <1>4, <1>5, <1>6 DEF ParserStep

(* An answer other than EXC_PARSE_ERROR is complete_unsafe's, which Fine   *)
(* excludes, or an internal error, which IInv does.                        *)
LEMMA SupportedNext == IInv /\ Reading /\ Accepting /\ SupportedNotRefused /\ [Next]_vars => SupportedNotRefused'
  <1> SUFFICES ASSUME IInv, Reading, Accepting, SupportedNotRefused, [Next]_vars,
                      at' = Refused, reply' # "EXC_PARSE_ERROR", Supported(tx')
               PROVE  FALSE
    BY DEF SupportedNotRefused
  <1>1. IInv'
    BY NextOK
  <1>2. CASE ParserStep
    <2>1. ~Follow
      BY Where, VectorsInOrder DEF IInv, TypeOK, Vectors, Refused, Position
    <2>2. reply' \notin {"EXC_MEMORY_ERROR", "EXC_WRONG_PARAM"}
      BY <1>1 DEF IInv, Ledger, NoInternalError
    <2> QED BY <1>2, <2>1, <2>2, ParserAnswers
  <1>3. CASE \E secure_only \in BOOLEAN : complete_unsafe(secure_only)
    <2>1. at.cb = "last_chunk" /\ maybe_transaction.unsafe /\ tx' = tx
      BY <1>3 DEF complete_unsafe, env
    <2>2. at.vec = "outputs_data"
      BY <2>1, Where DEF IInv, TypeOK
    <2> QED BY <2>1, <2>2 DEF Accepting, Fine
  <1>4. CASE switch_contract_data \/ UNCHANGED vars
    <2>1. tx' = tx /\ at' = at /\ reply' = reply
      BY <1>4 DEF switch_contract_data, vars, env, ui
    <2> QED BY <2>1 DEF SupportedNotRefused
  <1>5. CASE chunk_refused \/ complete_unmarked \/ complete_hard_reject
    BY <1>5 DEF chunk_refused, complete_unmarked, complete_hard_reject, Throw
  <1>6. CASE first_chunk \/ sign_ok \/ sign_reject \/ sign_complete
    BY <1>6 DEF first_chunk, sign_ok, sign_reject, sign_complete, Idle, Refused, Review, Position
  <1> QED BY <1>2, <1>3, <1>4, <1>5, <1>6 DEF Next, Complete

LEMMA AcceptingInit == Init => Accepting /\ SupportedNotRefused
  BY AcceptingClear DEF Init, SupportedNotRefused, Idle, Refused, Position

(* Whatever the host sends, in however many attempts: a transaction of the *)
(* kinds the app is for gets no answer but the one to a stream that ends   *)
(* wrong (the REJECTs and THROWs of the callbacks, and handle_apdu).       *)
THEOREM SupportedAccepted == Spec => []SupportedNotRefused
  BY InitOK, NextOK, ReadingInit, ReadingNext, KnownInit, KnownNext, AcceptingInit, AcceptingNext, SupportedNext,
     PTL DEF Spec
=============================================================================
