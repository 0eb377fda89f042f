----------------------------- MODULE Redemption -----------------------------
(***************************************************************************)
(* What redeeming ecash promises, whatever the request was: a proof is      *)
(* burned at most once and never comes back, and what a redemption pays out *)
(* never exceeds the proofs burned for it.                                  *)
(***************************************************************************)
EXTENDS Naturals

CONSTANTS Proofs, Txs, Worth, None

VARIABLES
  burnedBy,   \* the redemption a proof was burned for
  payout      \* value paid or signed for a redemption

Burned(t) == {p \in Proofs : burnedBy[p] = t}

Init ==
  /\ burnedBy = [p \in Proofs |-> None]
  /\ payout = [t \in Txs |-> 0]

(* Proofs are burned for a redemption, against a payment. *)
Redeem(t, ps, v) ==
  /\ payout[t] = 0
  /\ \A p \in ps : burnedBy[p] = None
  /\ burnedBy' = [p \in Proofs |-> IF p \in ps THEN t ELSE burnedBy[p]]
  /\ payout' = [payout EXCEPT ![t] = v]

(* Part of what was burned comes back as change. *)
Return(t, v) ==
  /\ payout[t] + v <= Worth[Burned(t)]
  /\ payout' = [payout EXCEPT ![t] = @ + v]
  /\ UNCHANGED burnedBy

Next ==
  \E t \in Txs :
    \/ \E ps \in SUBSET Proofs : \E v \in 0 .. Worth[ps] : Redeem(t, ps, v)
    \/ \E v \in 1 .. Worth[Burned(t)] : Return(t, v)

Spec == Init /\ [][Next]_<<burnedBy, payout>>
=============================================================================
