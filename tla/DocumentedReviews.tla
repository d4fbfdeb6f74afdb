-------------------------- MODULE DocumentedReviews --------------------------
(***************************************************************************)
(* Statements of the documentation about the prompts of a transaction that *)
(* the code does not live up to, each with the transactions that show it.  *)
(***************************************************************************)
EXTENDS MCSignTransaction

(* What is on the screen of a review, by address.                          *)
ShownAddresses ==
    IF screen.confirm = "Transaction (outputs)"
    THEN {screen.outputs[n].address : n \in DOMAIN screen.outputs}
    ELSE {screen.destination}

OnScreen(confirms) == at = Review /\ screen.confirm \in confirms

-----------------------------------------------------------------------------
(* Outputs to one multisig script with different time locks are different  *)
(* addresses.                                                              *)
TimelockedOutputs ==
    Family({Plain(Sig(me))}, {1}, {Plain(Multi(NoPeriod)), Plain(Multi(timelock))}, {2}, {change})

(* ChangeLog.md:124, v0.3.0: "Verifying and signing transactions with      *)
(* multiple outputs (...), displaying destination lock args for all        *)
(* outputs".  output_end merges an output into the previous row when hash  *)
(* and script agree, without a look at lock_period.                        *)
EveryDestinationShown ==
    OnScreen({"Transaction", "Transaction (outputs)", "Multi-Input Transaction"}) =>
        \A n \in PaidToOthers(tx) : AddressOf(tx.outputs[n]) \in ShownAddresses

-----------------------------------------------------------------------------
(* One deposit is prepared for withdrawal and one is made, with capacities *)
(* as a prepare wants them.                                                *)
PrepareAndDeposit ==
    {[t EXCEPT !.outputs = [i \in 1 .. 2 |->
            [t.outputs[i] EXCEPT !.capacity = t.inputs[i].source[1].capacity]]] :
        t \in Family({DaoCell(Sig(me), FALSE)}, {2},
                     {DaoCell(Sig(me), TRUE), DaoCell(Sig(me), FALSE)}, {2}, {me})}

(* apdu_sign.c:648: "Can't mix deposit, prepare, and withdraw in one       *)
(* transaction".  dao_data_is_nonzero is not reset between the data of two *)
(* outputs, so that a deposit after a prepared cell counts as prepared too *)
(* (and a deposit after a cell with contract data is turned down).         *)
MixedDaoRejected ==
    at = Review =>
        ~ \E i, k \in DOMAIN tx.outputs :
            /\ IsDao(tx.outputs[i]) /\ ~tx.outputs[i].data.nonzero
            /\ IsDao(tx.outputs[k]) /\ tx.outputs[k].data.nonzero
=============================================================================
