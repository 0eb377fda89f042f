---------------------------- MODULE MCMintQuotes ----------------------------
(***************************************************************************)
(* Instances of MintQuotes.  The quotes and deposits of a run are chosen in *)
(* its .cfg among the ones below.                                           *)
(***************************************************************************)
EXTENDS MintQuotesLedger, TLC

CONSTANTS
  free,        \* amountless onchain UNIT quote with an address of its own
  vague,       \* amountless onchain UNIT quote on the mint's own address
  legacy1, legacy2,  \* UNIT quotes of amount 1 on the mint's own address
  btc1, btc2,  \* onchain sat quotes of amount 1 on one configured address
  bolt,        \* bolt11 quote of amount 1
  f1, f2, f3,  \* deposits to the address of free, worth 1, 2 and 1
  s1, s2, s3,  \* deposits to the mint's own address, worth 1, 1 and 2
  b1, b2,      \* deposits to the address of btc1 and btc2, worth 1 each
  inv          \* the settled invoice of bolt

MCAddresses == {"own", "shared", "btc", "invoice"}

MCMethod == [q \in Quotes |->
  IF q = bolt THEN "bolt11" ELSE IF q \in {legacy1, legacy2} THEN "unit" ELSE "onchain"]
MCUnit == [q \in Quotes |-> IF q \in {btc1, btc2, bolt} THEN "sat" ELSE "unit"]
MCAsked == [q \in Quotes |-> IF q \in {free, vague} THEN 0 ELSE 1]
MCRequest == [q \in Quotes |->
  CASE q = free -> "own"
    [] q \in {vague, legacy1, legacy2} -> "shared"
    [] q \in {btc1, btc2} -> "btc"
    [] q = bolt -> "invoice"]
MCPaidTo == [d \in Deposits |->
  CASE d \in {f1, f2, f3} -> "own"
    [] d \in {s1, s2, s3} -> "shared"
    [] d \in {b1, b2} -> "btc"
    [] d = inv -> "invoice"]
MCValue == [d \in Deposits |-> IF d \in {f2, s3} THEN 2 ELSE 1]

Symmetry == Permutations(Handlers)

(* f1 and f3 pay the same amount to the same address.                       *)
SymmetryFree == Symmetry \cup Permutations({f1, f3})
=============================================================================
