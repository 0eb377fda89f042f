------------------------------- MODULE Treasury -------------------------------
(***************************************************************************)
(* What the reserve of runes promises: deposits come in, and a withdrawal   *)
(* takes exactly its amount out, at most once.                              *)
(***************************************************************************)
EXTENDS Naturals

CONSTANTS Withdrawals, Amount

VARIABLES reserve, paid

Init == reserve \in Nat /\ paid = [w \in Withdrawals |-> 0]

Receive == reserve' > reserve /\ UNCHANGED paid

Pay(w) ==
  /\ paid[w] = 0
  /\ reserve' + Amount[w] = reserve
  /\ paid' = [paid EXCEPT ![w] = Amount[w]]

Next == Receive \/ \E w \in Withdrawals : Pay(w)

Spec == Init /\ [][Next]_<<reserve, paid>>
=============================================================================
