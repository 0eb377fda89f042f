------------------------------ MODULE Spending ------------------------------
(***************************************************************************)
(* Melts and swaps run side by side on one table of proofs.                 *)
(***************************************************************************)
EXTENDS Melt, Swap

(* "melt_" and "swap_" keep the transaction ids apart. *)
ASSUME SpendingAssumption == Quotes \cap Swaps = {}

vars == <<spentBy, meltVars, swapVars>>

TypeOK == MeltTypeOK /\ SwapTypeOK

Init == ProofStoreInit /\ MeltInit /\ SwapInit

Next ==
  \/ MeltNext /\ UNCHANGED swapVars
  \/ SwapNext /\ UNCHANGED meltVars

Spec == Init /\ [][Next]_vars

(* Every await of a melt request resolves or throws. *)
FairSpec == Spec /\ \A h \in Handlers : WF_vars(Serve(h) /\ UNCHANGED swapVars)

(* A proof is burned once the payment left or the outputs were signed;      *)
(* until then its row may still be deleted.                                 *)
Final(t) == IF t \in Quotes THEN sent[t] > 0 ELSE t \in Swaps /\ swapPc[t] = "done"

BurnedBy == [p \in Proofs |-> IF Final(spentBy[p]) THEN spentBy[p] ELSE None]

Payout ==
  [t \in Txs |->
     IF t \in Quotes THEN sent[t] * Amount[t] + change[t]
     ELSE IF t \in Swaps THEN signed[t] ELSE 0]

Ecash == INSTANCE Redemption WITH burnedBy <- BurnedBy, payout <- Payout

(* Melts and swaps, however they interleave, fail or die, never redeem a    *)
(* proof twice, never give back a proof that was paid for, and never pay or *)
(* sign more than the proofs they took.                                     *)
ImplementsRedemption == Ecash!Spec
=============================================================================
