-------------------------- MODULE TransactionReview --------------------------
(***************************************************************************)
(* What transaction signing promises, without the parser: a transaction is *)
(* received and then either refused or presented to the user on a screen,  *)
(* which is faithful to it if the transaction is ordinary, and a signature *)
(* is only ever made over a transaction whose screen the user approved.    *)
(* How the screen is computed from a stream of chunks in a few hundred     *)
(* bytes of memory is the business of SignTransaction, which implements    *)
(* this specification.                                                     *)
(***************************************************************************)
EXTENDS TransactionViews

VARIABLES
    tx,         \* the transaction in progress
    phase,      \* "idle", "receiving", "refused" or "review"
    screen,     \* what is on display during a review
    signature   \* the last signature given out

vars == <<tx, phase, screen, signature>>

-----------------------------------------------------------------------------
NoScreen == [confirm |-> "nothing"]

Init ==
    /\ tx \in AnnotatedTransaction
    /\ phase = "idle" /\ screen = NoScreen
    /\ signature = [key |-> ZeroHash, hash |-> <<>>]

Receive ==
    /\ phase # "review"
    /\ phase' = "receiving" /\ tx' \in AnnotatedTransaction
    /\ screen' = NoScreen /\ UNCHANGED signature

Refuse ==
    /\ phase = "receiving" /\ phase' = "refused"
    /\ UNCHANGED <<tx, screen, signature>>

Present ==
    /\ phase = "receiving" /\ phase' = "review"
    /\ Ordinary(tx) => Faithful(tx, screen')
    /\ UNCHANGED <<tx, signature>>

(* The signature is made with the key of the path the host asked for, over *)
(* the hash that the lock script of the chain will check.                  *)
Approve ==
    /\ phase = "review" /\ phase' = "idle"
    /\ signature' = [key |-> tx.signPath, hash |-> FinalHash(tx)]
    /\ screen' = NoScreen /\ UNCHANGED tx

Decline ==
    /\ phase = "review" /\ phase' = "idle"
    /\ screen' = NoScreen /\ UNCHANGED <<tx, signature>>

Next == Receive \/ Refuse \/ Present \/ Approve \/ Decline

Spec == Init /\ [][Next]_vars
=============================================================================
