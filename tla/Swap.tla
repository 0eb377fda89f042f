-------------------------------- MODULE Swap --------------------------------
(***************************************************************************)
(* Swapping: proofs are handed in for new signatures of the same value less *)
(* the input fee.  SwapService.swap marks the inputs in a transaction of    *)
(* its own and signs afterwards, outside of it.                             *)
(***************************************************************************)
EXTENDS ProofStore

CONSTANT Swaps   \* swap requests; each has a transaction_id of its own

ASSUME SwapAssumption == Swaps \subseteq Txs

VARIABLES
  swapPc,   \* where a swap request is
  swapIn,   \* the inputs it came with
  signed    \* history: value signed for it

swapVars == <<swapPc, swapIn, signed>>

SwapTypeOK ==
  /\ ProofStoreTypeOK
  /\ swapPc \in [Swaps -> {"mark", "sign", "done", "failed"}]
  /\ swapIn \in [Swaps -> SUBSET Proofs]
  /\ signed \in [Swaps -> Nat]

(* Each swap comes with inputs whose outputs add up; it may still be        *)
(* refused.                                                                 *)
SwapInit ==
  /\ swapPc = [s \in Swaps |-> "mark"]
  /\ swapIn \in [Swaps -> {ps \in SUBSET Proofs : ps # {} /\ Worth[ps] >= InputFees[ps]}]
  /\ signed = [s \in Swaps |-> 0]

MarkInputs(s) ==
  /\ swapPc[s] = "mark"
  /\ MarkSpent(swapIn[s], s)
  /\ swapPc' = [swapPc EXCEPT ![s] = "sign"]
  /\ UNCHANGED <<swapIn, signed>>

SignOutputs(s) ==
  /\ swapPc[s] = "sign"
  /\ signed' = [signed EXCEPT ![s] = Worth[swapIn[s]] - InputFees[swapIn[s]]]
  /\ swapPc' = [swapPc EXCEPT ![s] = "done"]
  /\ UNCHANGED <<spentBy, swapIn>>

(* A check refuses, a signature or a query fails, or the process dies.      *)
SwapFail(s) ==
  /\ swapPc[s] \in {"mark", "sign"}
  /\ swapPc' = [swapPc EXCEPT ![s] = "failed"]
  /\ UNCHANGED <<spentBy, swapIn, signed>>

SwapNext == \E s \in Swaps : MarkInputs(s) \/ SignOutputs(s) \/ SwapFail(s)
=============================================================================
