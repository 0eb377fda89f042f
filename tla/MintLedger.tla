----------------------------- MODULE MintLedger -----------------------------
(***************************************************************************)
(* What minting promises, without requests, polls or states of a quote: a   *)
(* deposit backs at most one quote for ever, and the ecash signed for a     *)
(* quote never exceeds the deposits that back it.                           *)
(***************************************************************************)
EXTENDS Naturals, FiniteSetsExt

CONSTANTS Quotes, Deposits, Value, None

VARIABLES
  backs,    \* the quote a deposit backs
  signed    \* ecash signed for a quote

Backing(q) == MapThenSumSet(LAMBDA d : Value[d], {d \in Deposits : backs[d] = q})

Init ==
  /\ backs = [d \in Deposits |-> None]
  /\ signed = [q \in Quotes |-> 0]

Credit(q, d) ==
  /\ backs[d] = None
  /\ backs' = [backs EXCEPT ![d] = q]
  /\ UNCHANGED signed

Sign(q, v) ==
  /\ signed[q] + v <= Backing(q)
  /\ signed' = [signed EXCEPT ![q] = @ + v]
  /\ UNCHANGED backs

Next ==
  \E q \in Quotes :
    \/ \E d \in Deposits : Credit(q, d)
    \/ \E v \in 1 .. Backing(q) : Sign(q, v)

Spec == Init /\ [][Next]_<<backs, signed>>
=============================================================================
