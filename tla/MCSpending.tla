----------------------------- MODULE MCSpending -----------------------------
(***************************************************************************)
(* Instances of Spending.  Every proof is worth 3, every payment 1, and the *)
(* keyset asks 500 ppk, so that one proof pays a quote and leaves change.   *)
(***************************************************************************)
EXTENDS Spending, FiniteSets, TLC

CONSTANTS
  ln1, ln2,  \* bolt11 quotes for one invoice
  btc,       \* onchain sat quote
  old        \* quote of the legacy method "unit"

MCTxs == Quotes \cup Swaps
MCWorth == [ps \in SUBSET Proofs |-> 3 * Cardinality(ps)]
MCInputFees == [ps \in SUBSET Proofs |-> (Cardinality(ps) + 1) \div 2]
MCMethod == [q \in Quotes |->
  IF q \in {ln1, ln2} THEN "bolt11" ELSE IF q = btc THEN "onchain" ELSE "unit"]
MCRequest == [q \in Quotes |-> IF q \in {ln1, ln2} THEN "invoice" ELSE "address"]
MCAmount == [q \in Quotes |-> 1]
MCReserve == [q \in Quotes |-> IF q = old THEN 0 ELSE 1]

Symmetry == Permutations(Handlers) \cup Permutations(Proofs)
=============================================================================
