-------------------------- MODULE MintQuotesLedger --------------------------
(***************************************************************************)
(* MintQuotes implements MintLedger: the table mint_deposits is the         *)
(* backing, the signatures handed out are the ecash.  Bolt11 quotes leave   *)
(* no row in mint_deposits, so they are left out of the ledger.             *)
(***************************************************************************)
EXTENDS MintQuotes, FiniteSetsExt

Ledger == INSTANCE MintLedger WITH
  Quotes <- Quotes \ Bolt11,
  backs <- owner,
  signed <- [q \in Quotes \ Bolt11 |-> minted[q]]

(* A deposit backs one quote for ever and no quote is signed more than its  *)
(* deposits carry, whichever requests, monitor cycles and crashes occur.    *)
ImplementsLedger == Ledger!Spec

(* amount_paid of an onchain quote is the sum of the rows mint_deposits has *)
(* for it: no deposit is counted twice, none is forgotten.                  *)
PaidIsClaimed ==
  \A q \in Onchain :
    amount_paid[q] = MapThenSumSet(LAMBDA d : Value[d], {d \in Deposits : owner[d] = q})
=============================================================================
