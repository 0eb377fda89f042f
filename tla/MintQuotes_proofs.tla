-------------------------- MODULE MintQuotes_proofs --------------------------
(***************************************************************************)
(* What holds of minting for any number of quotes, deposits and requests,   *)
(* any amounts and any addresses.                                           *)
(***************************************************************************)
EXTENDS MintQuotesLedger, DataTheorems, TLAPS

-----------------------------------------------------------------------------
(* Types.                                                                   *)

(* A step label changes, and the job is dropped with the label "idle":      *)
(* requests stay well-formed.                                               *)
LEMMA GotoType ==
  ASSUME TypeOK, NEW h \in Handlers, pc[h] # "idle",
         NEW label \in {"idle", "lock"}, Goto(h, label)
  PROVE  /\ pc' \in [Handlers -> {"idle", "check", "claim", "lock"}]
         /\ job' \in [Handlers -> Jobs \cup {NoJob}]
         /\ \A g \in Handlers : pc'[g] # "idle" => job'[g] \in Jobs
         /\ \A g \in Handlers : pc'[g] = "claim" => job'[g].deposit \in Deposits
  BY DEF TypeOK, Goto

LEMMA LabelTypes ==
  ASSUME NEW j
  PROVE  AfterFailure(j) \in {"idle", "lock"} /\ AfterClaim(j) \in {"idle", "lock"}
  BY DEF AfterFailure, AfterClaim

LEMMA InitType == Init => TypeOK
  BY ConstantsAssumption DEF Init, TypeOK

LEMMA EnvironmentType == TypeOK /\ Environment => TypeOK'
<1> SUFFICES ASSUME TypeOK, Environment PROVE TypeOK'
  OBVIOUS
<1>1. CASE \E q \in Quotes : Create(q)
  BY <1>1 DEF TypeOK, Create
<1>2. ASSUME NEW d \in Deposits, Pay(d) PROVE TypeOK'
  BY <1>2 DEF TypeOK, Pay, SetChain, quoteVars
<1>3. ASSUME NEW d \in Deposits, Confirm(d) PROVE TypeOK'
  BY <1>3 DEF TypeOK, Confirm, SetChain, quoteVars
<1>4. ASSUME NEW d \in Deposits, Reorg(d) PROVE TypeOK'
  BY <1>4 DEF TypeOK, Reorg, SetChain, quoteVars
<1>5. ASSUME NEW d \in Deposits, Withdraw(d) PROVE TypeOK'
  BY <1>5 DEF TypeOK, Withdraw, SetChain, quoteVars
<1>6. ASSUME NEW d \in Deposits, Sync(d) PROVE TypeOK'
  BY <1>6 DEF TypeOK, Sync, quoteVars
<1> QED
  BY <1>1, <1>2, <1>3, <1>4, <1>5, <1>6 DEF Environment

LEMMA StartType ==
  ASSUME TypeOK, NEW h \in Handlers, NEW o \in {"mint", "get", "monitor"},
         NEW q \in Quotes, NEW t \in Totals \cup {0}, Start(h, o, q, t)
  PROVE  TypeOK'
<1> DEFINE j == [op |-> o, quote |-> q, amount |-> amount[q],
                 outpoint |-> outpoint[q], total |-> t, deposit |-> None]
<1>1. j \in Jobs
  BY ConstantsAssumption DEF TypeOK, Jobs
<1>2. job' = [job EXCEPT ![h] = j] /\ pc' = [pc EXCEPT ![h] = "check"]
  BY DEF Start
<1> HIDE DEF j
<1> QED
  BY <1>1, <1>2 DEF TypeOK, Start, quoteVars

LEMMA CheckType ==
  ASSUME TypeOK, NEW h \in Handlers, NEW d \in Deposits, Check(h, d)
  PROVE  TypeOK'
<1>1. job[h] \in Jobs
  BY DEF TypeOK, Check
<1>2. [job[h] EXCEPT !.deposit = d] \in Jobs
  BY <1>1 DEF Jobs
<1>3. job' = [job EXCEPT ![h] = [job[h] EXCEPT !.deposit = d]]
  BY DEF Check
<1>4. job'[h].deposit = d
  BY <1>1, <1>3 DEF TypeOK, Jobs
<1>5. tracked' \subseteq Deposits
  BY DEF TypeOK, Check
<1> QED
  BY <1>2, <1>3, <1>4, <1>5 DEF TypeOK, Check, quoteVars

LEMMA ClaimDepositType ==
  ASSUME TypeOK, NEW h \in Handlers, ClaimDeposit(h)
  PROVE  TypeOK'
<1> DEFINE d == job[h].deposit
           q == job[h].quote
<1>1. d \in Deposits /\ q \in Quotes
  BY DEF TypeOK, ClaimDeposit, Jobs
<1>2. Value[d] \in Nat
  BY <1>1, ConstantsAssumption
<1>3. /\ owner' \in [Deposits -> Quotes \cup {None}]
      /\ amount' \in [Quotes -> Nat]
      /\ outpoint' \in [Quotes -> Deposits \cup {None}]
  BY <1>1, <1>2 DEF TypeOK, ClaimDeposit, RecordOutpoint
<1>4. /\ amount_paid' \in [Quotes -> Nat]
      /\ state' \in [Quotes -> {"ABSENT", "UNPAID", "PAID", "ISSUED"}]
  <2>1. CASE q \in Onchain
    <3>1. IncrementPaid(q, Value[d])
      BY <2>1 DEF ClaimDeposit
    <3> QED
      BY <1>1, <1>2, <3>1 DEF TypeOK, IncrementPaid, StateAfterCredit
  <2>2. CASE q \notin Onchain
    <3>1. SetPaid(q, Value[d])
      BY <2>2 DEF ClaimDeposit
    <3> QED
      BY <1>1, <1>2, <3>1 DEF TypeOK, SetPaid
  <2> QED
    BY <2>1, <2>2
<1>5. Goto(h, AfterClaim(job[h])) /\ pc[h] # "idle"
  BY DEF ClaimDeposit
<1> QED
  BY <1>3, <1>4, <1>5, GotoType, LabelTypes DEF TypeOK, ClaimDeposit

LEMMA IssueType ==
  ASSUME TypeOK, NEW h \in Handlers, IssueOnchain(h) \/ IssueFixed(h)
  PROVE  TypeOK'
<1>1. Goto(h, "idle") /\ pc[h] # "idle"
  BY DEF IssueOnchain, IssueFixed
<1>2. job[h] \in Jobs /\ job[h].quote \in Quotes /\ job[h].total \in Nat
  BY <1>1 DEF TypeOK, Jobs
<1>3. CASE IssueOnchain(h)
  BY <1>1, <1>2, <1>3, GotoType DEF TypeOK, IssueOnchain
<1>4. CASE IssueFixed(h)
  BY <1>1, <1>2, <1>4, GotoType DEF TypeOK, IssueFixed
<1> QED
  BY <1>3, <1>4

(* The steps that write nothing but the request itself. *)
LEMMA RequestOnlyType ==
  ASSUME TypeOK, NEW h \in Handlers,
         CheckMiss(h) \/ ClaimConflict(h) \/ Fail(h) \/ GoOn(h)
  PROVE  TypeOK'
<1>1. /\ pc[h] # "idle"
      /\ \E label \in {"idle", "lock"} : Goto(h, label)
  BY LabelTypes DEF CheckMiss, ClaimConflict, Fail, GoOn
<1>2. UNCHANGED <<quoteVars, owner, tracked, chain, minted>>
  BY DEF CheckMiss, ClaimConflict, Fail, GoOn
<1> QED
  BY <1>1, <1>2, GotoType DEF TypeOK, quoteVars

LEMMA MarkPaidType ==
  ASSUME TypeOK, NEW h \in Handlers, MarkPaid(h)
  PROVE  TypeOK'
<1>1. Goto(h, AfterClaim(job[h])) /\ pc[h] # "idle"
  BY DEF MarkPaid
<1>2. state' \in [Quotes -> {"ABSENT", "UNPAID", "PAID", "ISSUED"}]
  BY DEF TypeOK, MarkPaid
<1> QED
  BY <1>1, <1>2, GotoType, LabelTypes DEF TypeOK, MarkPaid

LEMMA NextType == TypeOK /\ [Next]_vars => TypeOK'
<1> SUFFICES ASSUME TypeOK, [Next]_vars PROVE TypeOK'
  OBVIOUS
<1>1. CASE UNCHANGED vars
  BY <1>1 DEF TypeOK, vars, quoteVars
<1>2. CASE Environment
  BY <1>2, EnvironmentType
<1>3. ASSUME NEW h \in Handlers, Step(h) PROVE TypeOK'
  BY <1>3, StartType, CheckType, ClaimDepositType, IssueType, RequestOnlyType,
     MarkPaidType DEF Step, Serve
<1> QED
  BY <1>1, <1>2, <1>3 DEF Next

(* Every variable keeps its type: a counter never goes below zero, a quote  *)
(* only holds states of its table, and a request that is about to claim     *)
(* has a deposit to claim.                                                  *)
THEOREM TypeCorrect == Spec => []TypeOK
<1>1. Init => TypeOK
  BY InitType
<1>2. TypeOK /\ [Next]_vars => TypeOK'
  BY NextType
<1> QED
  BY <1>1, <1>2, PTL DEF Spec

-----------------------------------------------------------------------------
(* The two counters of an onchain quote.                                    *)

(* What a request carries to the row lock: it is a mint request, and it     *)
(* asks for a positive sum.                                                 *)
JobsInv ==
  \A h \in Handlers : pc[h] # "idle" =>
    /\ job[h].op = "mint" => job[h].total \in Totals
    /\ pc[h] = "lock" => job[h].op = "mint"

LedgerInv == NeverOverIssued /\ StateMatchesLedger

LEMMA InitJobs == Init => JobsInv
  BY DEF Init, JobsInv

LEMMA NextJobs == TypeOK /\ JobsInv /\ [Next]_vars => JobsInv'
<1> SUFFICES ASSUME TypeOK, JobsInv, [Next]_vars PROVE JobsInv'
  OBVIOUS
<1>1. CASE UNCHANGED <<pc, job>>
  BY <1>1 DEF JobsInv
<1>2. ASSUME NEW h \in Handlers,
             NEW o \in {"mint", "get", "monitor"}, NEW q \in Quotes,
             NEW t \in Totals \cup {0}, Start(h, o, q, t)
      PROVE  JobsInv'
  BY <1>2 DEF TypeOK, JobsInv, Start
<1>3. ASSUME NEW h \in Handlers, NEW d \in Deposits, Check(h, d)
      PROVE  JobsInv'
  BY <1>3 DEF TypeOK, JobsInv, Check, Jobs
<1>4. ASSUME NEW h \in Handlers, NEW label, Goto(h, label), pc[h] # "idle",
             label = "lock" => job[h].op = "mint"
      PROVE  JobsInv'
  BY <1>4 DEF TypeOK, JobsInv, Goto
<1>5. ASSUME NEW h \in Handlers, Serve(h), \A d \in Deposits : ~Check(h, d)
      PROVE  JobsInv'
  <2>1. /\ pc[h] # "idle"
        /\ \E label : Goto(h, label) /\ (label = "lock" => job[h].op = "mint")
    BY <1>5 DEF Serve, CheckMiss, ClaimDeposit, ClaimConflict, MarkPaid,
       IssueOnchain, IssueFixed, Fail, GoOn, AfterFailure, AfterClaim, Lenient
  <2> QED
    BY <1>4, <2>1
<1>6. Environment \/ UNCHANGED vars => UNCHANGED <<pc, job>>
  BY DEF Environment, Create, Pay, Confirm, Reorg, Withdraw, Sync, SetChain, vars
<1> QED
  BY <1>1, <1>2, <1>3, <1>5, <1>6 DEF Next, Step, Serve

LEMMA InitLedger == Init => LedgerInv
  BY DEF Init, LedgerInv, NeverOverIssued, StateMatchesLedger, Onchain

(* A credit raises amount_paid above amount_issued, whatever was issued     *)
(* before.                                                                  *)
LEMMA ClaimDepositLedger ==
  ASSUME TypeOK, LedgerInv, NEW h \in Handlers, ClaimDeposit(h)
  PROVE  LedgerInv'
<1> DEFINE d == job[h].deposit
           q == job[h].quote
<1>1. d \in Deposits /\ q \in Quotes
  BY DEF TypeOK, ClaimDeposit, Jobs
<1>2. Value[d] \in Nat /\ Value[d] > 0
  BY <1>1, ConstantsAssumption
<1>3. UNCHANGED <<minted, amount_issued>>
  BY DEF ClaimDeposit
<1>4. CASE q \in Onchain
  <2>1. /\ amount_paid' = [amount_paid EXCEPT ![q] = @ + Value[d]]
        /\ state' = [state EXCEPT ![q] =
                       IF amount_paid[q] + Value[d] > amount_issued[q] THEN "PAID" ELSE @]
    BY <1>4 DEF ClaimDeposit, IncrementPaid, StateAfterCredit
  <2>2. amount_issued[q] <= amount_paid[q] /\ amount_issued[q] \in Nat /\ amount_paid[q] \in Nat
    BY <1>1, <1>4 DEF TypeOK, LedgerInv, NeverOverIssued
  <2>3. amount_paid[q] + Value[d] > amount_issued[q]
    BY <1>2, <2>2
  <2>4. NeverOverIssued'
    BY <1>1, <1>2, <1>3, <2>1, <2>2 DEF TypeOK, LedgerInv, NeverOverIssued, Onchain
  <2>5. StateMatchesLedger'
    BY <1>1, <1>2, <1>3, <2>1, <2>2, <2>3 DEF TypeOK, LedgerInv, StateMatchesLedger, Onchain
  <2> QED
    BY <2>4, <2>5 DEF LedgerInv
<1>5. CASE q \notin Onchain
  <2>1. \A p \in Onchain : amount_paid'[p] = amount_paid[p] /\ state'[p] = state[p]
    BY <1>1, <1>5 DEF TypeOK, ClaimDeposit, SetPaid, Onchain
  <2> QED
    BY <1>3, <2>1 DEF LedgerInv, NeverOverIssued, StateMatchesLedger
<1> QED
  BY <1>4, <1>5

LEMMA IssueOnchainLedger ==
  ASSUME TypeOK, JobsInv, LedgerInv, NEW h \in Handlers, IssueOnchain(h)
  PROVE  LedgerInv'
<1> DEFINE q == job[h].quote
           t == job[h].total
<1>1. q \in Quotes /\ q \in Onchain /\ t \in Nat /\ t > 0
  BY ConstantsAssumption DEF TypeOK, JobsInv, IssueOnchain, Jobs
<1>2. /\ amount_issued[q] \in Nat /\ amount_paid[q] \in Nat /\ minted[q] \in Nat
      /\ minted[q] = amount_issued[q]
      /\ amount_issued[q] + t <= amount_paid[q]
  BY <1>1 DEF TypeOK, LedgerInv, NeverOverIssued, IssueOnchain, CanIssueOnchain, Available
<1>3. state[q] = "PAID"
  BY <1>1, <1>2 DEF LedgerInv, StateMatchesLedger
<1>4. /\ amount_issued' = [amount_issued EXCEPT ![q] = @ + t]
      /\ minted' = [minted EXCEPT ![q] = @ + t]
      /\ state' = [state EXCEPT ![q] =
                     IF amount_issued[q] + t >= amount_paid[q] THEN "ISSUED" ELSE @]
      /\ amount_paid' = amount_paid
  BY DEF IssueOnchain
<1>5. NeverOverIssued'
  BY <1>1, <1>2, <1>4 DEF TypeOK, LedgerInv, NeverOverIssued, Onchain
<1>6. StateMatchesLedger'
  BY <1>1, <1>2, <1>3, <1>4 DEF TypeOK, LedgerInv, StateMatchesLedger, Onchain
<1> QED
  BY <1>5, <1>6 DEF LedgerInv

LEMMA NextLedger == TypeOK /\ JobsInv /\ LedgerInv /\ [Next]_vars => LedgerInv'
<1> SUFFICES ASSUME TypeOK, JobsInv, LedgerInv, [Next]_vars PROVE LedgerInv'
  OBVIOUS
<1>1. ASSUME UNCHANGED <<state, amount_paid, amount_issued, minted>> PROVE LedgerInv'
  BY <1>1 DEF LedgerInv, NeverOverIssued, StateMatchesLedger
<1>2. ASSUME NEW q \in Quotes, Create(q) PROVE LedgerInv'
  BY <1>2 DEF TypeOK, Create, LedgerInv, NeverOverIssued, StateMatchesLedger, Onchain
<1>3. ASSUME NEW h \in Handlers, MarkPaid(h) PROVE LedgerInv'
  BY <1>3 DEF TypeOK, MarkPaid, LedgerInv, NeverOverIssued, StateMatchesLedger, Onchain, Bolt11
<1>4. ASSUME NEW h \in Handlers, IssueFixed(h) PROVE LedgerInv'
  BY <1>4 DEF TypeOK, IssueFixed, LedgerInv, NeverOverIssued, StateMatchesLedger, Onchain
<1>5. ASSUME NEW h \in Handlers,
             \/ \E o \in {"mint", "get", "monitor"}, q \in Quotes, t \in Totals \cup {0} :
                   Start(h, o, q, t)
             \/ \E d \in Deposits : Check(h, d)
             \/ CheckMiss(h) \/ ClaimConflict(h) \/ Fail(h) \/ GoOn(h)
      PROVE  LedgerInv'
  BY <1>1, <1>5 DEF Start, Check, CheckMiss, ClaimConflict, Fail, GoOn, quoteVars
<1>6. ASSUME NEW d \in Deposits,
             Pay(d) \/ Confirm(d) \/ Reorg(d) \/ Withdraw(d) \/ Sync(d)
      PROVE  LedgerInv'
  BY <1>1, <1>6 DEF Pay, Confirm, Reorg, Withdraw, Sync, SetChain, quoteVars
<1>7. CASE UNCHANGED vars
  BY <1>1, <1>7 DEF vars, quoteVars
<1> QED
  BY <1>2, <1>3, <1>4, <1>5, <1>6, <1>7, ClaimDepositLedger, IssueOnchainLedger
     DEF Next, Environment, Step, Serve

LEMMA LedgerAlways == Spec => []LedgerInv
<1>1. Init => TypeOK /\ JobsInv /\ LedgerInv
  BY InitType, InitJobs, InitLedger
<1>2. TypeOK /\ JobsInv /\ LedgerInv /\ [Next]_vars => (TypeOK /\ JobsInv /\ LedgerInv)'
  BY NextType, NextJobs, NextLedger
<1> QED
  BY <1>1, <1>2, PTL DEF Spec

(* An onchain quote never signs more than was credited to it, whichever     *)
(* requests run at once.                                                    *)
THEOREM LedgerCorrect == Spec => []NeverOverIssued
<1>1. LedgerInv => NeverOverIssued
  BY DEF LedgerInv
<1> QED
  BY <1>1, LedgerAlways, PTL

(* The state column of an onchain quote always agrees with its counters,    *)
(* although other requests write the one than the others.                   *)
THEOREM StateCorrect == Spec => []StateMatchesLedger
<1>1. LedgerInv => StateMatchesLedger
  BY DEF LedgerInv
<1> QED
  BY <1>1, LedgerAlways, PTL

-----------------------------------------------------------------------------
(* Which deposit may be claimed for which quote.                            *)

(* A deposit fits a quote when it pays the quote's address and carries the  *)
(* amount the quote was created with, if it was created with one.           *)
Fits(d, q) ==
  /\ PaidTo[d] = Request[q]
  /\ Asked[q] # 0 => Value[d] = Asked[q]

(* What a request remembers stays true while others run: the amount of a    *)
(* fixed-amount quote never changes, a claim is never taken back.           *)
ClaimsInv ==
  /\ \A q \in Quotes : Asked[q] # 0 => amount[q] = Asked[q]
  /\ \A q \in Quotes : outpoint[q] # None => owner[outpoint[q]] = q
  /\ \A d \in Deposits : owner[d] # None => Fits(d, owner[d])
  /\ \A h \in Handlers : pc[h] # "idle" =>
       /\ Asked[job[h].quote] # 0 => job[h].amount = Asked[job[h].quote]
       /\ job[h].outpoint # None => owner[job[h].outpoint] = job[h].quote
       /\ pc[h] = "claim" => Fits(job[h].deposit, job[h].quote)

LEMMA InitClaims == Init => ClaimsInv
  BY DEF Init, ClaimsInv

(* What a backend answers fits the quote it was asked about.                *)
LEMMA AnswersFit ==
  ASSUME TypeOK, ClaimsInv, NEW h \in Handlers, pc[h] # "idle",
         NEW d \in Answers(job[h])
  PROVE  Fits(d, job[h].quote)
<1> DEFINE j == job[h]
           q == job[h].quote
<1>1. /\ q \in Quotes /\ j.amount \in Nat /\ j.outpoint \in Deposits \cup {None}
      /\ Asked[q] # 0 => j.amount = Asked[q]
      /\ j.outpoint # None => owner[j.outpoint] = q
  BY DEF TypeOK, ClaimsInv, Jobs
<1>2. CASE d \in VerifySpecificDeposit(j) /\ j.outpoint # None
  <2>1. d \in Deposits /\ owner[d] = q /\ q # None
    BY <1>1, <1>2, ConstantsAssumption DEF VerifySpecificDeposit
  <2> QED
    BY <2>1 DEF ClaimsInv
<1>3. CASE d \in CheckDeposit(j)
  <2>1. Asked[q] # 0 => Expected(j) = Asked[q]
    BY <1>1 DEF Expected
  <2> QED
    BY <1>3, <2>1 DEF CheckDeposit, ExactMatches, AnyMatches, Fits
<1> QED
  BY <1>2, <1>3 DEF Answers

LEMMA ClaimDepositClaims ==
  ASSUME TypeOK, ClaimsInv, NEW h \in Handlers, ClaimDeposit(h)
  PROVE  ClaimsInv'
<1> DEFINE d == job[h].deposit
           q == job[h].quote
<1>1. d \in Deposits /\ q \in Quotes /\ owner[d] = None /\ Fits(d, q)
  BY DEF TypeOK, ClaimsInv, ClaimDeposit, Unclaimed, Jobs
<1>2. owner' = [owner EXCEPT ![d] = q]
  BY DEF ClaimDeposit
<1>3. \A e \in Deposits : owner[e] # None => owner'[e] = owner[e]
  BY <1>1, <1>2 DEF TypeOK
<1>4. \A p \in Quotes : Asked[p] # 0 => amount'[p] = Asked[p]
  BY <1>1, ConstantsAssumption DEF TypeOK, ClaimsInv, ClaimDeposit
<1>5. \A p \in Quotes : outpoint'[p] # None => owner'[outpoint'[p]] = p
  <2> SUFFICES ASSUME NEW p \in Quotes, outpoint'[p] # None
               PROVE  owner'[outpoint'[p]] = p
    OBVIOUS
  <2>1. CASE outpoint[p] # None
    BY <1>1, <1>3, <2>1, ConstantsAssumption
       DEF TypeOK, ClaimsInv, ClaimDeposit, RecordOutpoint
  <2>2. CASE outpoint[p] = None
    BY <1>1, <1>2, <2>2 DEF TypeOK, ClaimDeposit, RecordOutpoint
  <2> QED
    BY <2>1, <2>2
<1>6. \A e \in Deposits : owner'[e] # None => Fits(e, owner'[e])
  BY <1>1, <1>2 DEF TypeOK, ClaimsInv
<1>7. \A g \in Handlers : pc'[g] # "idle" =>
        /\ pc[g] # "idle"
        /\ job'[g] = job[g]
        /\ pc'[g] = "claim" => pc[g] = "claim"
  BY LabelTypes DEF TypeOK, ClaimDeposit, Goto
<1>8. \A g \in Handlers : pc'[g] # "idle" =>
        /\ Asked[job'[g].quote] # 0 => job'[g].amount = Asked[job'[g].quote]
        /\ pc'[g] = "claim" => Fits(job'[g].deposit, job'[g].quote)
  BY <1>7 DEF ClaimsInv
<1>9. ASSUME NEW g \in Handlers, pc'[g] # "idle", job'[g].outpoint # None
      PROVE  owner'[job'[g].outpoint] = job'[g].quote
  <2>1. /\ job'[g] = job[g] /\ job[g] \in Jobs
        /\ owner[job[g].outpoint] = job[g].quote
    BY <1>7, <1>9 DEF TypeOK, ClaimsInv
  <2>2. job[g].outpoint \in Deposits /\ job[g].quote # None
    BY <1>9, <2>1, ConstantsAssumption DEF Jobs
  <2> QED
    BY <1>3, <2>1, <2>2
<1> QED
  BY <1>4, <1>5, <1>6, <1>8, <1>9 DEF ClaimsInv, Fits

LEMMA NextClaims == TypeOK /\ ClaimsInv /\ [Next]_vars => ClaimsInv'
<1> SUFFICES ASSUME TypeOK, ClaimsInv, [Next]_vars PROVE ClaimsInv'
  OBVIOUS
<1>1. ASSUME UNCHANGED <<amount, outpoint, owner, pc, job>> PROVE ClaimsInv'
  BY <1>1 DEF ClaimsInv, Fits
<1>2. Environment \/ UNCHANGED vars => ClaimsInv'
  BY <1>1 DEF Environment, Create, Pay, Confirm, Reorg, Withdraw, Sync, SetChain,
     vars, quoteVars
<1>3. ASSUME NEW h \in Handlers,
             NEW o \in {"mint", "get", "monitor"}, NEW q \in Quotes,
             NEW t \in Totals \cup {0}, Start(h, o, q, t)
      PROVE  ClaimsInv'
  <2>1. UNCHANGED <<amount, outpoint, owner>>
    BY <1>3 DEF Start, quoteVars
  <2>2. /\ \A g \in Handlers : g # h => job'[g] = job[g] /\ pc'[g] = pc[g]
        /\ pc'[h] = "check" /\ job'[h].quote = q
        /\ job'[h].amount = amount[q] /\ job'[h].outpoint = outpoint[q]
    BY <1>3 DEF TypeOK, Start
  <2> QED
    BY <2>1, <2>2 DEF ClaimsInv, Fits
<1>4. ASSUME NEW h \in Handlers, NEW d \in Deposits, Check(h, d)
      PROVE  ClaimsInv'
  <2>1. UNCHANGED <<amount, outpoint, owner>>
    BY <1>4 DEF Check, quoteVars
  <2>2. job[h] \in Jobs /\ pc[h] # "idle"
    BY <1>4 DEF TypeOK, Check
  <2>3. /\ \A g \in Handlers : g # h => job'[g] = job[g] /\ pc'[g] = pc[g]
        /\ job'[h].quote = job[h].quote /\ job'[h].amount = job[h].amount
        /\ job'[h].outpoint = job[h].outpoint /\ job'[h].deposit = d
    BY <1>4, <2>2 DEF TypeOK, Check, Jobs
  <2>4. Fits(d, job[h].quote)
    BY <1>4, <2>2, AnswersFit DEF Check
  <2> QED
    BY <2>1, <2>2, <2>3, <2>4 DEF ClaimsInv, Fits
<1>5. ASSUME NEW h \in Handlers, NEW label \in {"idle", "lock"}, Goto(h, label),
             pc[h] # "idle", UNCHANGED <<amount, outpoint, owner>>
      PROVE  ClaimsInv'
  <2>1. \A g \in Handlers : pc'[g] # "idle" =>
          pc[g] # "idle" /\ job'[g] = job[g] /\ (pc'[g] = "claim" => pc[g] = "claim")
    BY <1>5 DEF TypeOK, Goto
  <2> QED
    BY <1>5, <2>1 DEF ClaimsInv, Fits
<1>6. ASSUME NEW h \in Handlers,
             \/ CheckMiss(h) \/ ClaimConflict(h) \/ MarkPaid(h)
             \/ IssueOnchain(h) \/ IssueFixed(h) \/ Fail(h) \/ GoOn(h)
      PROVE  ClaimsInv'
  <2>1. /\ pc[h] # "idle" /\ UNCHANGED <<amount, outpoint, owner>>
        /\ \E label \in {"idle", "lock"} : Goto(h, label)
    BY <1>6, LabelTypes DEF CheckMiss, ClaimConflict, MarkPaid, IssueOnchain,
       IssueFixed, Fail, GoOn, quoteVars
  <2> QED
    BY <1>5, <2>1
<1> QED
  BY <1>2, <1>3, <1>4, <1>6, ClaimDepositClaims DEF Next, Step, Serve

(* A deposit is only ever claimed by a quote it was paid to, and where the  *)
(* quote was created with an amount, by one of exactly that amount.         *)
THEOREM ClaimsCorrect == Spec => []ClaimedWherePaid
<1>1. Init => TypeOK /\ ClaimsInv
  BY InitType, InitClaims
<1>2. TypeOK /\ ClaimsInv /\ [Next]_vars => (TypeOK /\ ClaimsInv)'
  BY NextType, NextClaims
<1>3. ClaimsInv => ClaimedWherePaid
  BY DEF ClaimsInv, Fits, ClaimedWherePaid
<1> QED
  BY <1>1, <1>2, <1>3, PTL DEF Spec

-----------------------------------------------------------------------------
(* UNIT quotes with a fixed amount.                                         *)

(* Whoever passed the claim of a fixed-amount quote left amount_paid at the *)
(* amount asked, and nothing lowers it afterwards.                          *)
FixedInv ==
  /\ \A q \in FixedUnit :
       /\ amount_paid[q] \in {0, Asked[q]}
       /\ minted[q] \in {0, Asked[q]}
       /\ minted[q] > 0 => state[q] = "ISSUED" /\ amount_paid[q] = Asked[q]
  /\ \A d \in Deposits : owner[d] \in FixedUnit => amount_paid[owner[d]] = Asked[owner[d]]
  /\ \A h \in Handlers :
       pc[h] = "lock" /\ job[h].quote \in FixedUnit
         => amount_paid[job[h].quote] = Asked[job[h].quote]

LEMMA FixedConstants ==
  \A q \in FixedUnit : /\ q \in Quotes /\ q \notin Onchain /\ q \notin Bolt11
                       /\ Asked[q] \in Nat /\ Asked[q] > 0
<1> SUFFICES ASSUME NEW q \in FixedUnit
             PROVE  /\ q \in Quotes /\ q \notin Onchain /\ q \notin Bolt11
                    /\ Asked[q] \in Nat /\ Asked[q] > 0
  OBVIOUS
<1>1. q \in Quotes /\ Method[q] = "unit"
  BY DEF FixedUnit
<1>2. Asked[q] \in Nat /\ Asked[q] # 0
  BY <1>1, ConstantsAssumption
<1> QED
  BY <1>1, <1>2 DEF Onchain, Bolt11

LEMMA InitFixed == Init => FixedInv
  BY FixedConstants, ConstantsAssumption DEF Init, FixedInv

LEMMA ClaimDepositFixed ==
  ASSUME TypeOK, ClaimsInv, FixedInv, NEW h \in Handlers, ClaimDeposit(h)
  PROVE  FixedInv'
<1> DEFINE d == job[h].deposit
           q == job[h].quote
<1>1. d \in Deposits /\ q \in Quotes /\ pc[h] = "claim" /\ Fits(d, q)
  BY DEF TypeOK, ClaimsInv, ClaimDeposit, Jobs
<1>2. /\ owner' = [owner EXCEPT ![d] = q] /\ minted' = minted
      /\ Goto(h, AfterClaim(job[h]))
  BY DEF ClaimDeposit
<1>3. CASE q \in FixedUnit
  <2>1. SetPaid(q, Value[d]) /\ Value[d] = Asked[q]
    BY <1>1, <1>3, FixedConstants DEF ClaimDeposit, Fits
  <2>2. /\ amount_paid'[q] = Asked[q]
        /\ state'[q] = IF state[q] = "ISSUED" THEN "ISSUED" ELSE "PAID"
        /\ \A p \in Quotes : p # q => amount_paid'[p] = amount_paid[p] /\ state'[p] = state[p]
    BY <1>1, <1>3, <2>1, FixedConstants DEF TypeOK, SetPaid, FixedInv
  <2>3. \A p \in FixedUnit :
          /\ amount_paid'[p] \in {0, Asked[p]}
          /\ minted'[p] \in {0, Asked[p]}
          /\ minted'[p] > 0 => state'[p] = "ISSUED" /\ amount_paid'[p] = Asked[p]
    BY <1>2, <2>2, FixedConstants DEF FixedInv
  <2>4. \A e \in Deposits :
          owner'[e] \in FixedUnit => amount_paid'[owner'[e]] = Asked[owner'[e]]
    BY <1>1, <1>2, <2>2, FixedConstants DEF TypeOK, FixedInv
  <2>5. \A g \in Handlers :
          pc'[g] = "lock" /\ job'[g].quote \in FixedUnit
            => amount_paid'[job'[g].quote] = Asked[job'[g].quote]
    BY <1>1, <1>2, <2>2, FixedConstants DEF TypeOK, Goto, FixedInv
  <2> QED
    BY <2>3, <2>4, <2>5 DEF FixedInv
<1>4. CASE q \notin FixedUnit
  <2>1. \A p \in FixedUnit : amount_paid'[p] = amount_paid[p] /\ state'[p] = state[p]
    BY <1>1, <1>4, FixedConstants
       DEF TypeOK, ClaimDeposit, IncrementPaid, SetPaid
  <2>2. \A e \in Deposits : owner'[e] \in FixedUnit => owner'[e] = owner[e]
    BY <1>1, <1>2, <1>4 DEF TypeOK
  <2>3. \A g \in Handlers : pc'[g] = "lock" /\ job'[g].quote \in FixedUnit
          => pc[g] = "lock" /\ job'[g] = job[g]
    BY <1>2, <1>4 DEF TypeOK, Goto
  <2> QED
    BY <1>2, <2>1, <2>2, <2>3 DEF FixedInv
<1> QED
  BY <1>3, <1>4

LEMMA IssueFixedFixed ==
  ASSUME TypeOK, ClaimsInv, FixedInv, NEW h \in Handlers, IssueFixed(h)
  PROVE  FixedInv'
<1> DEFINE q == job[h].quote
           t == job[h].total
<1>1. q \in Quotes /\ pc[h] = "lock" /\ state[q] # "ISSUED" /\ t = amount[q]
  BY DEF TypeOK, IssueFixed, CanIssueFixed, Jobs
<1>2. /\ state' = [state EXCEPT ![q] = "ISSUED"]
      /\ minted' = [minted EXCEPT ![q] = @ + t]
      /\ UNCHANGED <<amount_paid, owner>> /\ Goto(h, "idle")
  BY DEF IssueFixed
<1>3. q \in FixedUnit => minted[q] = 0 /\ t = Asked[q] /\ amount_paid[q] = Asked[q]
  BY <1>1, FixedConstants DEF TypeOK, FixedInv, ClaimsInv
<1>4. \A p \in FixedUnit :
        /\ minted'[p] \in {0, Asked[p]}
        /\ minted'[p] > 0 => state'[p] = "ISSUED" /\ amount_paid'[p] = Asked[p]
  BY <1>1, <1>2, <1>3, FixedConstants DEF TypeOK, FixedInv
<1>5. \A g \in Handlers : pc'[g] = "lock" => pc[g] = "lock" /\ job'[g] = job[g]
  BY <1>2 DEF TypeOK, Goto
<1> QED
  BY <1>2, <1>4, <1>5 DEF FixedInv

LEMMA NextFixed == TypeOK /\ ClaimsInv /\ FixedInv /\ [Next]_vars => FixedInv'
<1> SUFFICES ASSUME TypeOK, ClaimsInv, FixedInv, [Next]_vars PROVE FixedInv'
  OBVIOUS
<1>1. ASSUME UNCHANGED <<amount_paid, owner, minted>>,
             \A q \in FixedUnit : state[q] = "ISSUED" => state'[q] = "ISSUED",
             \A h \in Handlers : pc'[h] = "lock" /\ job'[h].quote \in FixedUnit
               => \/ pc[h] = "lock" /\ job'[h] = job[h]
                  \/ amount_paid[job'[h].quote] = Asked[job'[h].quote]
      PROVE  FixedInv'
  BY <1>1 DEF FixedInv
<1>2. Environment \/ UNCHANGED vars => FixedInv'
  <2>1. ASSUME NEW q \in Quotes, Create(q) PROVE FixedInv'
    BY <1>1, <2>1, FixedConstants DEF TypeOK, Create
  <2> QED
    BY <1>1, <2>1 DEF Environment, Pay, Confirm, Reorg, Withdraw, Sync, SetChain,
       vars, quoteVars
<1>3. ASSUME NEW h \in Handlers,
             \/ \E o \in {"mint", "get", "monitor"}, q \in Quotes, t \in Totals \cup {0} :
                   Start(h, o, q, t)
             \/ \E d \in Deposits : Check(h, d)
      PROVE  FixedInv'
  <2>1. \A g \in Handlers : pc'[g] = "lock" => pc[g] = "lock" /\ job'[g] = job[g]
    BY <1>3 DEF TypeOK, Start, Check
  <2> QED
    BY <1>1, <1>3, <2>1 DEF Start, Check, quoteVars
<1>4. ASSUME NEW h \in Handlers, NEW label, Goto(h, label), pc[h] # "idle",
             UNCHANGED <<amount_paid, owner, minted>>,
             \A q \in FixedUnit : state[q] = "ISSUED" => state'[q] = "ISSUED",
             label = "lock" /\ job[h].quote \in FixedUnit
               => amount_paid[job[h].quote] = Asked[job[h].quote]
      PROVE  FixedInv'
  <2>1. \A g \in Handlers : pc'[g] = "lock" /\ job'[g].quote \in FixedUnit
               => \/ pc[g] = "lock" /\ job'[g] = job[g]
                  \/ amount_paid[job'[g].quote] = Asked[job'[g].quote]
    BY <1>4 DEF TypeOK, Goto
  <2> QED
    BY <1>1, <1>4, <2>1
<1>5. ASSUME NEW h \in Handlers, CheckMiss(h) \/ Fail(h) \/ GoOn(h) PROVE FixedInv'
  BY <1>4, <1>5, FixedConstants
     DEF CheckMiss, Fail, GoOn, AfterFailure, Lenient, quoteVars
<1>6. ASSUME NEW h \in Handlers, ClaimConflict(h) PROVE FixedInv'
  <2>1. job[h].deposit \in Deposits
    BY <1>6 DEF TypeOK, ClaimConflict
  <2>2. owner[job[h].deposit] = job[h].quote /\ job[h].quote \in FixedUnit
          => amount_paid[job[h].quote] = Asked[job[h].quote]
    BY <2>1 DEF FixedInv
  <2> QED
    BY <1>4, <1>6, <2>2, FixedConstants DEF ClaimConflict, AfterFailure, Lenient, quoteVars
<1>7. ASSUME NEW h \in Handlers, MarkPaid(h) PROVE FixedInv'
  BY <1>4, <1>7, FixedConstants DEF TypeOK, MarkPaid
<1>8. ASSUME NEW h \in Handlers, IssueOnchain(h) PROVE FixedInv'
  <2>1. /\ UNCHANGED <<amount_paid, owner>> /\ Goto(h, "idle")
        /\ \A q \in FixedUnit : state'[q] = state[q] /\ minted'[q] = minted[q]
    BY <1>8, FixedConstants DEF TypeOK, IssueOnchain
  <2>2. \A g \in Handlers : pc'[g] = "lock" => pc[g] = "lock" /\ job'[g] = job[g]
    BY <2>1 DEF TypeOK, Goto
  <2> QED
    BY <2>1, <2>2 DEF FixedInv
<1> QED
  BY <1>2, <1>3, <1>5, <1>6, <1>7, <1>8, ClaimDepositFixed, IssueFixedFixed
     DEF Next, Step, Serve

(* A UNIT quote of a fixed amount is minted at most once, for that amount,  *)
(* and only after a deposit of that amount was credited to it.              *)
THEOREM FixedUnitCorrect ==
  Spec => []FixedUnitIsPaid /\ [](\A q \in FixedUnit : minted[q] \in {0, Asked[q]})
<1> DEFINE I == TypeOK /\ ClaimsInv /\ FixedInv
<1>1. Init => I
  BY InitType, InitClaims, InitFixed
<1>2. I /\ [Next]_vars => I'
  BY NextType, NextClaims, NextFixed
<1>3. I => FixedUnitIsPaid /\ \A q \in FixedUnit : minted[q] \in {0, Asked[q]}
  BY DEF FixedInv, FixedUnitIsPaid
<1> QED
  BY <1>1, <1>2, <1>3, PTL DEF Spec

(* Where no quote is bolt11, every quote with a fixed amount is minted once *)
(* and for that amount.  (A bolt11 quote is not: a late poll re-opens it.)  *)
THEOREM MintedOnceCorrect ==
  ASSUME Bolt11 = {}
  PROVE  Spec => []MintedAtMostOnce
<1> DEFINE F == \A q \in FixedUnit : minted[q] \in {0, Asked[q]}
<1>1. Quotes \ Onchain = FixedUnit
  BY ConstantsAssumption DEF Onchain, FixedUnit, Bolt11
<1>2. F => MintedAtMostOnce
  BY <1>1 DEF MintedAtMostOnce
<1> QED
  BY <1>2, FixedUnitCorrect, PTL

-----------------------------------------------------------------------------
(* Steps.                                                                   *)

LEMMA IssuedStep ==
  ASSUME TypeOK, [Next]_vars, NEW q \in Quotes \ Bolt11,
         state[q] = "ISSUED", state'[q] # "ISSUED"
  PROVE  amount_paid'[q] > amount_paid[q]
<1>1. PICK h \in Handlers : ClaimDeposit(h)
  BY DEF TypeOK, Next, Environment, Create, Pay, Confirm, Reorg, Withdraw, Sync,
     SetChain, Step, Serve, Start, Check, CheckMiss, ClaimConflict, MarkPaid,
     IssueOnchain, IssueFixed, Fail, GoOn, vars, quoteVars
<1> DEFINE d == job[h].deposit
           p == job[h].quote
<1>2. p \in Quotes /\ Value[d] \in Nat /\ Value[d] > 0
  <2>1. p \in Quotes /\ d \in Deposits
    BY <1>1 DEF TypeOK, ClaimDeposit, Jobs
  <2> QED
    BY <2>1, ConstantsAssumption
<1>3. p \in Onchain => IncrementPaid(p, Value[d])
  BY <1>1 DEF ClaimDeposit
<1>4. p \notin Onchain => SetPaid(p, Value[d])
  BY <1>1 DEF ClaimDeposit
<1>5. p = q /\ p \in Onchain
  BY <1>2, <1>3, <1>4 DEF TypeOK, IncrementPaid, SetPaid
<1>6. amount_paid' = [amount_paid EXCEPT ![q] = @ + Value[d]]
  BY <1>3, <1>5 DEF IncrementPaid
<1> QED
  BY <1>2, <1>6 DEF TypeOK

(* An ISSUED onchain or UNIT quote is only opened again by another credit.  *)
THEOREM IssuedFinal == Spec => IssuedIsFinal
<1>1. Init => TypeOK
  BY InitType
<1>2. TypeOK /\ [Next]_vars => TypeOK'
  BY NextType
<1>3. TypeOK /\ [Next]_vars =>
        [\A q \in Quotes \ Bolt11 : state[q] = "ISSUED" /\ state'[q] # "ISSUED"
            => amount_paid'[q] > amount_paid[q]]_vars
  BY IssuedStep
<1> QED
  BY <1>1, <1>2, <1>3, PTL DEF Spec, IssuedIsFinal

-----------------------------------------------------------------------------
(* The outpoint a quote records.                                            *)

(* Nothing was credited yet, or the recorded outpoint gave the amount.      *)
FirstClaim(q) ==
  \/ /\ amount_paid[q] = 0
     /\ outpoint[q] = None
     /\ amount[q] = Asked[q]
  \/ /\ amount_paid[q] > 0
     /\ outpoint[q] \in Deposits
     /\ Value[outpoint[q]] = amount[q]

Claiming == Onchain \cup FixedUnit

OutpointInv == \A q \in Claiming : FirstClaim(q)

LEMMA InitOutpoint == Init => OutpointInv
<1> SUFFICES ASSUME Init, NEW q \in Claiming PROVE FirstClaim(q)
  BY DEF OutpointInv
<1>1. q \in Quotes
  BY DEF Claiming, Onchain, FixedUnit
<1> QED
  BY <1>1 DEF Init, FirstClaim

LEMMA ClaimDepositOutpoint ==
  ASSUME TypeOK, ClaimsInv, OutpointInv, NEW h \in Handlers, ClaimDeposit(h)
  PROVE  OutpointInv'
<1>1. PICK d \in Deposits, q \in Quotes :
        d = job[h].deposit /\ q = job[h].quote /\ Fits(d, q)
  BY DEF TypeOK, ClaimsInv, ClaimDeposit, Jobs
<1>2. Value[d] \in Nat /\ Value[d] > 0 /\ None \notin Deposits /\ Asked[q] \in Nat
  BY <1>1, ConstantsAssumption
<1>3. /\ amount' = [amount EXCEPT ![q] = IF @ = 0 THEN Value[d] ELSE @]
      /\ outpoint' = [outpoint EXCEPT ![q] = IF @ = None THEN d ELSE @]
  BY <1>1 DEF ClaimDeposit, RecordOutpoint
<1>4. /\ amount_paid'[q] > 0
      /\ \A p \in Quotes : p # q => amount_paid'[p] = amount_paid[p]
  BY <1>1, <1>2 DEF TypeOK, ClaimDeposit, IncrementPaid, SetPaid
<1>5. \A p \in Claiming : p # q => FirstClaim(p)'
  BY <1>1, <1>3, <1>4 DEF TypeOK, OutpointInv, FirstClaim, Claiming, Onchain, FixedUnit
<1>6. ASSUME q \in Claiming PROVE FirstClaim(q)'
  <2>1. FirstClaim(q) /\ amount[q] \in Nat
    BY <1>1, <1>6 DEF OutpointInv, TypeOK
  <2>2. CASE outpoint[q] = None
    <3>1. amount[q] = Asked[q]
      BY <1>2, <2>1, <2>2 DEF FirstClaim
    <3>2. amount'[q] = Value[d] /\ outpoint'[q] = d
      BY <1>1, <1>3, <2>2, <3>1 DEF TypeOK, Fits
    <3> QED
      BY <1>1, <1>4, <3>2 DEF FirstClaim
  <2>3. CASE outpoint[q] # None
    <3>1. /\ outpoint[q] \in Deposits /\ Value[outpoint[q]] = amount[q]
          /\ Value[outpoint[q]] \in Nat /\ Value[outpoint[q]] > 0
      BY <2>1, <2>3, ConstantsAssumption DEF FirstClaim
    <3>2. amount'[q] = amount[q] /\ outpoint'[q] = outpoint[q]
      BY <1>1, <1>3, <2>3, <3>1 DEF TypeOK
    <3> QED
      BY <1>4, <3>1, <3>2 DEF FirstClaim
  <2> QED
    BY <2>2, <2>3
<1> QED
  BY <1>5, <1>6 DEF OutpointInv, Claiming

LEMMA NextOutpoint == TypeOK /\ ClaimsInv /\ OutpointInv /\ [Next]_vars => OutpointInv'
<1> SUFFICES ASSUME TypeOK, ClaimsInv, OutpointInv, [Next]_vars PROVE OutpointInv'
  OBVIOUS
<1>1. ASSUME UNCHANGED <<amount, amount_paid, outpoint>> PROVE OutpointInv'
  BY <1>1 DEF OutpointInv, FirstClaim
<1>2. CASE \E h \in Handlers : ClaimDeposit(h)
  BY <1>2, ClaimDepositOutpoint
<1>3. CASE ~\E h \in Handlers : ClaimDeposit(h)
  <2>1. UNCHANGED <<amount, amount_paid, outpoint>>
    BY <1>3 DEF Next, Environment, Create, Pay, Confirm, Reorg, Withdraw, Sync,
       SetChain, Step, Serve, Start, Check, CheckMiss, ClaimConflict, MarkPaid,
       IssueOnchain, IssueFixed, Fail, GoOn, vars, quoteVars
  <2> QED
    BY <1>1, <2>1
<1> QED
  BY <1>2, <1>3

(* The outpoint that mintTokens verifies instead of scanning is the deposit *)
(* the quote took its amount from, and belongs to that quote alone.         *)
THEOREM OutpointCorrect == Spec => []OutpointIsFirstClaim
<1> DEFINE I == TypeOK /\ ClaimsInv /\ OutpointInv
<1>1. Init => I
  BY InitType, InitClaims, InitOutpoint
<1>2. I /\ [Next]_vars => I'
  BY NextType, NextClaims, NextOutpoint
<1>3. I => OutpointIsFirstClaim
  <2> SUFFICES ASSUME I, NEW q \in Claiming
               PROVE  IF amount_paid[q] = 0
                      THEN outpoint[q] = None /\ amount[q] = Asked[q]
                      ELSE /\ outpoint[q] \in Deposits
                           /\ owner[outpoint[q]] = q
                           /\ Value[outpoint[q]] = amount[q]
    BY DEF OutpointIsFirstClaim, Claiming
  <2>1. FirstClaim(q) /\ q \in Quotes
    BY DEF OutpointInv, Claiming, Onchain, FixedUnit
  <2>2. outpoint[q] \in Deposits => owner[outpoint[q]] = q
    BY <2>1, ConstantsAssumption DEF ClaimsInv
  <2> QED
    BY <2>1, <2>2 DEF FirstClaim
<1> QED
  BY <1>1, <1>2, <1>3, PTL DEF Spec

-----------------------------------------------------------------------------
(* Quotes that cannot tell their deposit from another's.                    *)

Vague == {q \in Onchain : Runes(q) /\ Asked[q] = 0 /\ Request[q] = Canonical}

(* Only the monitor visits such a quote, and it is told of no deposit.      *)
VagueInv ==
  /\ \A q \in Vague : amount[q] = 0 /\ amount_paid[q] = 0 /\ minted[q] = 0
  /\ \A h \in Handlers :
       pc[h] # "idle" /\ job[h].quote \in Vague
         => pc[h] = "check" /\ job[h].op = "monitor" /\ job[h].amount = 0

LEMMA InitVague == Init => VagueInv
  BY DEF Init, VagueInv, Vague, Onchain

LEMMA NextVague == TypeOK /\ VagueInv /\ [Next]_vars => VagueInv'
<1> SUFFICES ASSUME TypeOK, VagueInv, [Next]_vars PROVE VagueInv'
  OBVIOUS
<1>1. Vague \subseteq Quotes /\ Vague \subseteq Onchain /\ Vague \cap Bolt11 = {}
  BY DEF Vague, Onchain, Bolt11
<1>2. ASSUME UNCHANGED <<amount, amount_paid, minted, pc, job>> PROVE VagueInv'
  BY <1>2 DEF VagueInv, Vague, Runes
<1>3. Environment \/ UNCHANGED vars => VagueInv'
  BY <1>2 DEF Environment, Create, Pay, Confirm, Reorg, Withdraw, Sync, SetChain,
     vars, quoteVars
<1>4. ASSUME NEW h \in Handlers,
             NEW o \in {"mint", "get", "monitor"}, NEW q \in Quotes,
             NEW t \in Totals \cup {0}, Start(h, o, q, t)
      PROVE  VagueInv'
  <2>1. UNCHANGED <<amount, amount_paid, minted>>
    BY <1>4 DEF Start, quoteVars
  <2>2. /\ \A g \in Handlers : g # h => job'[g] = job[g] /\ pc'[g] = pc[g]
        /\ pc'[h] = "check" /\ job'[h].quote = q
        /\ job'[h].amount = amount[q] /\ job'[h].op = o
    BY <1>4 DEF TypeOK, Start
  <2>3. q \in Vague => Ambiguous(q) /\ amount[q] = 0 /\ q \in Onchain
    BY DEF VagueInv, Vague, Ambiguous
  <2>4. q \in Vague => o = "monitor"
    BY <1>4, <2>3 DEF Start
  <2> QED
    BY <2>1, <2>2, <2>3, <2>4 DEF VagueInv, Vague, Runes
<1>5. ASSUME NEW h \in Handlers, NEW d \in Deposits, Check(h, d) PROVE VagueInv'
  <2>1. UNCHANGED <<amount, amount_paid, minted>>
    BY <1>5 DEF Check, quoteVars
  <2>2. job[h].quote \notin Vague
    <3> SUFFICES ASSUME job[h].quote \in Vague PROVE FALSE
      OBVIOUS
    <3>1. job[h].op = "monitor" /\ job[h].amount = 0 /\ Request[job[h].quote] = Canonical
      BY <1>5 DEF Check, VagueInv, Vague
    <3>2. Answers(job[h]) = {}
      BY <3>1 DEF Answers, CheckDeposit, Expected, AnyMatches
    <3> QED
      BY <1>5, <3>2 DEF Check
  <2>3. job[h] \in Jobs
    BY <1>5 DEF TypeOK, Check
  <2>4. /\ \A g \in Handlers : g # h => job'[g] = job[g] /\ pc'[g] = pc[g]
        /\ job'[h].quote = job[h].quote
    BY <1>5, <2>3 DEF TypeOK, Check, Jobs
  <2> QED
    BY <2>1, <2>2, <2>4 DEF VagueInv, Vague, Runes
<1>6. ASSUME NEW h \in Handlers, NEW label, Goto(h, label), pc[h] # "idle",
             label = "lock" => job[h].op = "mint",
             label \in {"idle", "lock"},
             \A q \in Vague : /\ amount'[q] = 0
                              /\ amount_paid'[q] = 0
                              /\ minted'[q] = 0
      PROVE  VagueInv'
  <2>1. \A g \in Handlers : pc'[g] # "idle" /\ job'[g].quote \in Vague
          => pc'[g] = pc[g] /\ job'[g] = job[g] /\ pc[g] # "idle"
    BY <1>6 DEF TypeOK, Goto, VagueInv
  <2> QED
    BY <1>6, <2>1 DEF VagueInv, Vague, Runes
<1>7. ASSUME NEW h \in Handlers, CheckMiss(h) \/ ClaimConflict(h) \/ MarkPaid(h) \/ Fail(h) \/ GoOn(h)
      PROVE  VagueInv'
  <2>1. /\ pc[h] # "idle" /\ UNCHANGED <<amount, amount_paid, minted>>
        /\ \E label \in {"idle", "lock"} :
             Goto(h, label) /\ (label = "lock" => job[h].op = "mint")
    BY <1>7 DEF CheckMiss, ClaimConflict, MarkPaid, Fail, GoOn, AfterFailure, AfterClaim,
       Lenient, quoteVars
  <2> QED
    BY <1>6, <2>1 DEF VagueInv
<1>8. ASSUME NEW h \in Handlers, ClaimDeposit(h) \/ IssueOnchain(h) \/ IssueFixed(h)
      PROVE  VagueInv'
  <2>1. job[h].quote \in Quotes \ Vague
    BY <1>8 DEF TypeOK, VagueInv, Jobs, ClaimDeposit, IssueOnchain, IssueFixed
  <2>2. \A q \in Quotes : q # job[h].quote =>
          amount'[q] = amount[q] /\ amount_paid'[q] = amount_paid[q] /\ minted'[q] = minted[q]
    BY <1>8, <2>1 DEF TypeOK, ClaimDeposit, IncrementPaid, SetPaid, IssueOnchain, IssueFixed
  <2>3. \E label \in {"idle", "lock"} :
          Goto(h, label) /\ (label = "lock" => job[h].op = "mint")
    BY <1>8 DEF ClaimDeposit, IssueOnchain, IssueFixed, AfterClaim
  <2> QED
    BY <1>1, <1>6, <1>8, <2>1, <2>2, <2>3 DEF VagueInv, ClaimDeposit, IssueOnchain, IssueFixed
<1> QED
  BY <1>3, <1>4, <1>5, <1>7, <1>8 DEF Next, Step, Serve

(* Nothing is credited to, or signed for, an amountless UNIT quote on the   *)
(* address it shares with others.                                           *)
THEOREM AmbiguousCorrect == Spec => []AmbiguousNeverCredited
<1>1. Init => TypeOK /\ VagueInv
  BY InitType, InitVague
<1>2. TypeOK /\ VagueInv /\ [Next]_vars => (TypeOK /\ VagueInv)'
  BY NextType, NextVague
<1>3. VagueInv => AmbiguousNeverCredited
  BY DEF VagueInv, Vague, AmbiguousNeverCredited
<1> QED
  BY <1>1, <1>2, <1>3, PTL DEF Spec

-----------------------------------------------------------------------------
(* Invoices.                                                                *)

Settled(q) == \E d \in Deposits : PaidTo[d] = Request[q] /\ chain[d] = "confirmed"

(* A request on a bolt11 quote only gets past the backend's answer when the *)
(* invoice is settled.                                                      *)
InvoiceInv ==
  /\ \A q \in Bolt11 : outpoint[q] = None
  /\ \A q \in Bolt11 : minted[q] > 0 => Settled(q)
  /\ \A h \in Handlers : pc[h] # "idle" /\ job[h].quote \in Bolt11 =>
       /\ job[h].outpoint = None
       /\ pc[h] \in {"claim", "lock"} => Settled(job[h].quote)

LEMMA BoltConstants ==
  \A q \in Bolt11 : q \in Quotes /\ q \notin Onchain /\ Asked[q] \in Nat /\ Asked[q] # 0
<1> SUFFICES ASSUME NEW q \in Bolt11
             PROVE  q \in Quotes /\ q \notin Onchain /\ Asked[q] \in Nat /\ Asked[q] # 0
  OBVIOUS
<1>1. q \in Quotes /\ Method[q] = "bolt11"
  BY DEF Bolt11
<1> QED
  BY <1>1, ConstantsAssumption DEF Onchain

LEMMA InitInvoice == Init => InvoiceInv
  BY DEF Init, InvoiceInv, Bolt11

LEMMA SettledStays ==
  ASSUME TypeOK, [Next]_vars, NEW q \in Bolt11, Settled(q)
  PROVE  Settled(q)'
<1>1. PICK d \in Deposits : PaidTo[d] = Request[q] /\ chain[d] = "confirmed"
  BY DEF Settled
<1>2. d \notin Reorgable \cup Withdrawable
  BY <1>1, InvoicesStaySettled
<1>3. chain'[d] = "confirmed"
  BY <1>1, <1>2 DEF TypeOK, Next, Environment, Create, Pay, Confirm, Reorg, Withdraw, Sync,
     SetChain, Step, Serve, Start, Check, CheckMiss, ClaimDeposit, ClaimConflict, MarkPaid,
     IssueOnchain, IssueFixed, Fail, GoOn, vars
<1> QED
  BY <1>1, <1>3 DEF Settled

LEMMA NextInvoice == TypeOK /\ ClaimsInv /\ InvoiceInv /\ [Next]_vars => InvoiceInv'
<1> SUFFICES ASSUME TypeOK, ClaimsInv, InvoiceInv, [Next]_vars PROVE InvoiceInv'
  OBVIOUS
<1>1. ASSUME \A q \in Bolt11 : outpoint'[q] = outpoint[q],
             \A q \in Bolt11 : minted'[q] > 0 => minted[q] > 0 \/ Settled(q),
             \A h \in Handlers : pc'[h] # "idle" /\ job'[h].quote \in Bolt11 =>
               /\ job'[h].outpoint = None
               /\ pc'[h] \in {"claim", "lock"} => Settled(job'[h].quote)
      PROVE  InvoiceInv'
  BY <1>1, SettledStays DEF InvoiceInv
<1>2. ASSUME UNCHANGED <<outpoint, minted, pc, job>> PROVE InvoiceInv'
  BY <1>1, <1>2 DEF InvoiceInv
<1>3. Environment \/ UNCHANGED vars => InvoiceInv'
  BY <1>2 DEF Environment, Create, Pay, Confirm, Reorg, Withdraw, Sync, SetChain,
     vars, quoteVars
<1>4. ASSUME NEW h \in Handlers,
             NEW o \in {"mint", "get", "monitor"}, NEW q \in Quotes,
             NEW t \in Totals \cup {0}, Start(h, o, q, t)
      PROVE  InvoiceInv'
  <2>1. /\ \A g \in Handlers : g # h => job'[g] = job[g] /\ pc'[g] = pc[g]
        /\ pc'[h] = "check" /\ job'[h].quote = q /\ job'[h].outpoint = outpoint[q]
        /\ UNCHANGED <<outpoint, minted>>
    BY <1>4 DEF TypeOK, Start, quoteVars
  <2> QED
    BY <1>1, <2>1 DEF InvoiceInv
<1>5. ASSUME NEW h \in Handlers, NEW d \in Deposits, Check(h, d) PROVE InvoiceInv'
  <2>1. UNCHANGED <<outpoint, minted>>
    BY <1>5 DEF Check, quoteVars
  <2>2. job[h] \in Jobs
    BY <1>5 DEF TypeOK, Check
  <2>3. /\ \A g \in Handlers : g # h => job'[g] = job[g] /\ pc'[g] = pc[g]
        /\ job'[h].quote = job[h].quote /\ job'[h].outpoint = job[h].outpoint
    BY <1>5, <2>2 DEF TypeOK, Check, Jobs
  <2>4. ASSUME job[h].quote \in Bolt11 PROVE Settled(job[h].quote) /\ job[h].outpoint = None
    <3>1. job[h].outpoint = None /\ job[h].amount = Asked[job[h].quote] /\ job[h].amount # 0
      BY <1>5, <2>4, BoltConstants DEF Check, InvoiceInv, ClaimsInv
    <3>2. d \in ExactMatches(job[h].quote, job[h].amount)
      BY <1>5, <3>1 DEF Check, Answers, CheckDeposit, Expected
    <3> QED
      BY <3>1, <3>2 DEF ExactMatches, Settled
  <2> QED
    BY <1>1, <2>1, <2>3, <2>4 DEF InvoiceInv
<1>6. ASSUME NEW h \in Handlers, NEW label, Goto(h, label), pc[h] # "idle",
             label = "lock" /\ job[h].quote \in Bolt11 => Settled(job[h].quote),
             label \in {"idle", "lock"},
             \A q \in Bolt11 : outpoint'[q] = outpoint[q],
             \A q \in Bolt11 : minted'[q] > 0 => minted[q] > 0 \/ Settled(q)
      PROVE  InvoiceInv'
  <2>1. \A g \in Handlers : pc'[g] # "idle" => job'[g] = job[g] /\ pc[g] # "idle"
    BY <1>6 DEF TypeOK, Goto
  <2>2. \A g \in Handlers : g # h => pc'[g] = pc[g]
    BY <1>6 DEF TypeOK, Goto
  <2>3. pc'[h] = label
    BY <1>6 DEF TypeOK, Goto
  <2> QED
    BY <1>1, <1>6, <2>1, <2>2, <2>3 DEF InvoiceInv
<1>7. ASSUME NEW h \in Handlers, CheckMiss(h) \/ ClaimConflict(h) \/ Fail(h) \/ GoOn(h)
      PROVE  InvoiceInv'
  <2>1. /\ pc[h] # "idle" /\ UNCHANGED <<outpoint, minted>>
        /\ \E label \in {"idle", "lock"} :
             Goto(h, label) /\ (label = "lock" => job[h].quote \notin Bolt11)
    BY <1>7, BoltConstants DEF CheckMiss, ClaimConflict, Fail, GoOn, AfterFailure, AfterClaim,
       Lenient, quoteVars
  <2> QED
    BY <1>6, <2>1
<1>8. ASSUME NEW h \in Handlers, MarkPaid(h) PROVE InvoiceInv'
  <2>1. /\ Goto(h, AfterClaim(job[h])) /\ UNCHANGED <<outpoint, minted>>
        /\ pc[h] = "claim" /\ job[h].quote \in Bolt11
    BY <1>8 DEF MarkPaid
  <2>2. Settled(job[h].quote)
    BY <2>1 DEF InvoiceInv
  <2> QED
    BY <1>6, <2>1, <2>2, LabelTypes
<1>9. ASSUME NEW h \in Handlers, ClaimDeposit(h) PROVE InvoiceInv'
  <2>1. /\ Goto(h, AfterClaim(job[h])) /\ UNCHANGED minted
        /\ pc[h] # "idle" /\ job[h].quote \notin Bolt11 /\ job[h].quote \in Quotes
        /\ \A q \in Bolt11 : outpoint'[q] = outpoint[q]
    BY <1>9, BoltConstants DEF TypeOK, Jobs, ClaimDeposit, RecordOutpoint
  <2> QED
    BY <1>6, <2>1, LabelTypes
<1>10. ASSUME NEW h \in Handlers, IssueOnchain(h) \/ IssueFixed(h) PROVE InvoiceInv'
  <2>1. /\ Goto(h, "idle") /\ UNCHANGED outpoint /\ pc[h] = "lock"
        /\ \A q \in Bolt11 : q # job[h].quote => minted'[q] = minted[q]
    BY <1>10, BoltConstants DEF TypeOK, IssueOnchain, IssueFixed
  <2>2. job[h].quote \in Bolt11 => Settled(job[h].quote)
    BY <2>1 DEF InvoiceInv
  <2> QED
    BY <1>6, <2>1, <2>2
<1> QED
  BY <1>3, <1>4, <1>5, <1>7, <1>8, <1>9, <1>10 DEF Next, Step, Serve

(* Ecash of a bolt11 quote is only signed when its invoice was settled.     *)
THEOREM InvoiceCorrect == Spec => []BackedByInvoice
<1> DEFINE I == TypeOK /\ ClaimsInv /\ InvoiceInv
<1>1. Init => I
  BY InitType, InitClaims, InitInvoice
<1>2. I /\ [Next]_vars => I'
  BY NextType, NextClaims, NextInvoice
<1>3. I => BackedByInvoice
  BY DEF InvoiceInv, Settled, BackedByInvoice
<1> QED
  BY <1>1, <1>2, <1>3, PTL DEF Spec

-----------------------------------------------------------------------------
(* The credit of a quote is the sum of the rows mint_deposits has for it.   *)

Claimed(q) == {d \in Deposits : owner[d] = q}

(* Only finitely many rows were ever inserted, so the sums exist.           *)
PaidInv ==
  /\ IsFiniteSet({d \in Deposits : owner[d] # None})
  /\ \A q \in Onchain : amount_paid[q] = SumOver(Value, Claimed(q))

LEMMA ClaimedFinite ==
  ASSUME PaidInv, NEW q \in Quotes
  PROVE  IsFiniteSet(Claimed(q)) /\ \A d \in Claimed(q) : Value[d] \in Nat
<1>1. Claimed(q) \subseteq {d \in Deposits : owner[d] # None}
  BY ConstantsAssumption DEF Claimed
<1>2. IsFiniteSet(Claimed(q))
  BY <1>1, FS_Subset DEF PaidInv
<1> QED
  BY <1>2, ConstantsAssumption DEF Claimed

LEMMA InitPaid == Init => PaidInv
<1> SUFFICES ASSUME Init PROVE PaidInv
  OBVIOUS
<1>1. {d \in Deposits : owner[d] # None} = {}
  BY DEF Init
<1>2. \A q \in Onchain : amount_paid[q] = 0 /\ Claimed(q) = {}
  BY ConstantsAssumption DEF Init, Claimed, Onchain
<1> QED
  BY <1>1, <1>2, SumEmpty, FS_EmptySet DEF PaidInv

LEMMA ClaimDepositPaid ==
  ASSUME TypeOK, PaidInv, NEW h \in Handlers, ClaimDeposit(h)
  PROVE  PaidInv'
<1>1. PICK d \in Deposits, q \in Quotes : d = job[h].deposit /\ q = job[h].quote
  BY DEF TypeOK, ClaimDeposit, Jobs
<1>2. Value[d] \in Nat /\ q # None
  BY ConstantsAssumption
<1>3. owner[d] = None /\ owner' = [owner EXCEPT ![d] = q]
  BY <1>1 DEF ClaimDeposit, Unclaimed
<1>4. {e \in Deposits : owner'[e] # None} = {e \in Deposits : owner[e] # None} \cup {d}
  BY <1>2, <1>3 DEF TypeOK
<1>5. IsFiniteSet({e \in Deposits : owner'[e] # None})
  BY <1>4, FS_AddElement DEF PaidInv
<1>6. /\ Claimed(q)' = Claimed(q) \cup {d} /\ d \notin Claimed(q)
      /\ \A p \in Quotes : p # q => Claimed(p)' = Claimed(p)
  BY <1>2, <1>3, ConstantsAssumption DEF TypeOK, Claimed
<1>7. \A p \in Quotes : p # q => amount_paid'[p] = amount_paid[p]
  BY <1>1 DEF TypeOK, ClaimDeposit, IncrementPaid, SetPaid
<1>8. q \in Onchain => amount_paid'[q] = amount_paid[q] + Value[d]
  BY <1>1 DEF TypeOK, ClaimDeposit, IncrementPaid
<1>9. SumOver(Value, Claimed(q) \cup {d}) = SumOver(Value, Claimed(q)) + Value[d]
  BY <1>2, <1>6, ClaimedFinite, SumAdd
<1>10. \A p \in Onchain : amount_paid'[p] = SumOver(Value, Claimed(p)')
  BY <1>6, <1>7, <1>8, <1>9 DEF PaidInv, Onchain
<1> QED
  BY <1>5, <1>10 DEF PaidInv

LEMMA NextPaid == TypeOK /\ PaidInv /\ [Next]_vars => PaidInv'
<1> SUFFICES ASSUME TypeOK, PaidInv, [Next]_vars PROVE PaidInv'
  OBVIOUS
<1>1. CASE \E h \in Handlers : ClaimDeposit(h)
  BY <1>1, ClaimDepositPaid
<1>2. CASE ~\E h \in Handlers : ClaimDeposit(h)
  <2>1. UNCHANGED <<owner, amount_paid>>
    BY <1>2 DEF Next, Environment, Create, Pay, Confirm, Reorg, Withdraw, Sync,
       SetChain, Step, Serve, Start, Check, CheckMiss, ClaimConflict, MarkPaid,
       IssueOnchain, IssueFixed, Fail, GoOn, vars, quoteVars
  <2> QED
    BY <2>1 DEF PaidInv, Claimed
<1> QED
  BY <1>1, <1>2

LEMMA ClaimedSum ==
  ASSUME NEW q
  PROVE  MapThenSumSet(LAMBDA d : Value[d], {d \in Deposits : owner[d] = q})
           = SumOver(Value, Claimed(q))
BY DEF SumOver, Claimed

(* amount_paid of an onchain quote is the sum of the deposits it claimed.   *)
THEOREM PaidCorrect == Spec => []PaidIsClaimed
<1>1. Init => TypeOK /\ PaidInv
  BY InitType, InitPaid
<1>2. TypeOK /\ PaidInv /\ [Next]_vars => (TypeOK /\ PaidInv)'
  BY NextType, NextPaid
<1>3. PaidInv => PaidIsClaimed
  BY ClaimedSum DEF PaidInv, PaidIsClaimed
<1> QED
  BY <1>1, <1>2, <1>3, PTL DEF Spec

-----------------------------------------------------------------------------
(* Minting implements the ledger.                                           *)

LEMMA LedgerBacking ==
  ASSUME NEW q
  PROVE  Ledger!Backing(q) = SumOver(Value, Claimed(q))
BY DEF SumOver, Claimed, Ledger!Backing, MapThenSumSet, MapThenFoldSet,
   Ledger!MapThenSumSet, Ledger!MapThenFoldSet

ImplementInv ==
  /\ TypeOK /\ JobsInv /\ LedgerInv /\ ClaimsInv
  /\ FixedInv /\ OutpointInv /\ PaidInv

LEMMA LedgerInit == Init => Ledger!Init
  BY DEF Init, Ledger!Init

LEMMA CreditStep ==
  ASSUME ImplementInv, NEW h \in Handlers, ClaimDeposit(h)
  PROVE  Ledger!Next
<1>1. PICK d \in Deposits, q \in Quotes \ Bolt11 : d = job[h].deposit /\ q = job[h].quote
  BY DEF ImplementInv, TypeOK, ClaimDeposit, Jobs
<1>2. Ledger!Credit(q, d)
  BY <1>1 DEF ClaimDeposit, Unclaimed, Ledger!Credit
<1> QED
  BY <1>1, <1>2 DEF Ledger!Next

(* A signature of t is a step of the ledger when the quote's deposits cover *)
(* it.                                                                      *)
LEMMA SignStep ==
  ASSUME ImplementInv, NEW q \in Quotes \ Bolt11, NEW t \in Nat, t > 0,
         minted' = [minted EXCEPT ![q] = @ + t], UNCHANGED owner,
         minted[q] + t <= SumOver(Value, Claimed(q))
  PROVE  Ledger!Next
<1> DEFINE b == Ledger!Backing(q)
<1>1. b \in Nat /\ minted[q] \in Nat /\ minted[q] + t <= b
  BY ClaimedFinite, SumType, LedgerBacking DEF ImplementInv, TypeOK
<1> HIDE DEF b
<1>2. t \in 1 .. b
  BY <1>1
<1>3. [p \in Quotes \ Bolt11 |-> minted'[p]]
        = [[p \in Quotes \ Bolt11 |-> minted[p]] EXCEPT ![q] = @ + t]
  BY DEF ImplementInv, TypeOK
<1>4. Ledger!Sign(q, t)
  BY <1>1, <1>3 DEF Ledger!Sign, b
<1> QED
  BY <1>2, <1>4 DEF Ledger!Next, b

LEMMA IssueOnchainStep ==
  ASSUME ImplementInv, NEW h \in Handlers, IssueOnchain(h)
  PROVE  Ledger!Next
<1>1. PICK q \in Quotes \ Bolt11, t \in Nat :
        /\ q = job[h].quote /\ t = job[h].total /\ t > 0 /\ q \in Onchain
  BY ConstantsAssumption DEF ImplementInv, TypeOK, JobsInv, IssueOnchain, Jobs, Onchain, Bolt11
<1>2. /\ minted[q] + t <= amount_paid[q]
      /\ minted' = [minted EXCEPT ![q] = @ + t] /\ UNCHANGED owner
  BY <1>1 DEF ImplementInv, TypeOK, LedgerInv, NeverOverIssued, IssueOnchain,
     CanIssueOnchain, Available
<1>3. amount_paid[q] = SumOver(Value, Claimed(q))
  BY <1>1 DEF ImplementInv, PaidInv
<1> QED
  BY <1>1, <1>2, <1>3, SignStep

LEMMA IssueFixedStep ==
  ASSUME ImplementInv, NEW h \in Handlers, IssueFixed(h), job[h].quote \notin Bolt11
  PROVE  Ledger!Next
<1>1. PICK q \in FixedUnit, t \in Nat : q = job[h].quote /\ t = job[h].total
  <2>1. job[h].quote \in Quotes \ (Onchain \cup Bolt11) /\ job[h].total \in Nat
    BY DEF ImplementInv, TypeOK, IssueFixed, Jobs
  <2>2. job[h].quote \in FixedUnit
    BY <2>1, ConstantsAssumption DEF Onchain, Bolt11, FixedUnit
  <2> QED
    BY <2>1, <2>2
<1>2. /\ q \in Quotes \ Bolt11 /\ Asked[q] \in Nat /\ Asked[q] > 0
  BY FixedConstants
<1>3. /\ minted[q] = 0 /\ t = Asked[q] /\ amount_paid[q] = Asked[q]
      /\ minted' = [minted EXCEPT ![q] = @ + t] /\ UNCHANGED owner
  BY <1>1, <1>2 DEF ImplementInv, TypeOK, FixedInv, ClaimsInv, IssueFixed, CanIssueFixed
<1> DEFINE o == outpoint[q]
<1>4. o \in Deposits /\ owner[o] = q
  BY <1>2, <1>3, ConstantsAssumption
     DEF ImplementInv, OutpointInv, FirstClaim, Claiming, ClaimsInv
<1>5. Value[o] = Asked[q]
  BY <1>2, <1>4, ConstantsAssumption DEF ImplementInv, ClaimsInv, Fits
<1> HIDE DEF o
<1>6. SumOver(Value, Claimed(q)) = Value[o] + SumOver(Value, Claimed(q) \ {o})
  BY <1>2, <1>4, ClaimedFinite, SumRemove DEF ImplementInv, Claimed
<1>7. SumOver(Value, Claimed(q) \ {o}) \in Nat
  <2>1. IsFiniteSet(Claimed(q) \ {o}) /\ \A d \in Claimed(q) \ {o} : Value[d] \in Nat
    BY <1>2, ClaimedFinite, FS_Subset DEF ImplementInv
  <2> QED
    BY <2>1, SumType
<1>8. minted[q] + t <= SumOver(Value, Claimed(q))
  BY <1>2, <1>3, <1>5, <1>6, <1>7
<1> QED
  BY <1>2, <1>3, <1>8, SignStep

LEMMA LedgerStep ==
  ASSUME ImplementInv, [Next]_vars
  PROVE  [Ledger!Next]_<<owner, [q \in Quotes \ Bolt11 |-> minted[q]]>>
<1>1. CASE \E h \in Handlers : ClaimDeposit(h)
  BY <1>1, CreditStep
<1>2. CASE \E h \in Handlers : IssueOnchain(h)
  BY <1>2, IssueOnchainStep
<1>3. CASE \E h \in Handlers : IssueFixed(h) /\ job[h].quote \notin Bolt11
  BY <1>3, IssueFixedStep
<1>4. CASE \E h \in Handlers : IssueFixed(h) /\ job[h].quote \in Bolt11
  <2>1. UNCHANGED owner /\ \A q \in Quotes \ Bolt11 : minted'[q] = minted[q]
    BY <1>4 DEF ImplementInv, TypeOK, IssueFixed
  <2> QED
    BY <2>1
<1>5. CASE ~\E h \in Handlers : ClaimDeposit(h) \/ IssueOnchain(h) \/ IssueFixed(h)
  <2>1. UNCHANGED <<owner, minted>>
    BY <1>5 DEF Next, Environment, Create, Pay, Confirm, Reorg, Withdraw, Sync,
       SetChain, Step, Serve, Start, Check, CheckMiss, ClaimConflict, MarkPaid,
       Fail, GoOn, vars, quoteVars
  <2> QED
    BY <2>1
<1> QED
  BY <1>1, <1>2, <1>3, <1>4, <1>5

(* Minting implements the ledger: a deposit backs one quote for ever, and   *)
(* no onchain or UNIT quote is signed more than its deposits carry.         *)
THEOREM LedgerImplemented == Spec => ImplementsLedger
<1>1. Init => ImplementInv
  BY InitType, InitJobs, InitLedger, InitClaims, InitFixed, InitOutpoint, InitPaid
     DEF ImplementInv
<1>2. ImplementInv /\ [Next]_vars => ImplementInv'
  BY NextType, NextJobs, NextLedger, NextClaims, NextFixed, NextOutpoint, NextPaid
     DEF ImplementInv
<1>3. Init => Ledger!Init
  BY LedgerInit
<1>4. ImplementInv /\ [Next]_vars
        => [Ledger!Next]_<<owner, [q \in Quotes \ Bolt11 |-> minted[q]]>>
  BY LedgerStep
<1> QED
  BY <1>1, <1>2, <1>3, <1>4, PTL DEF Spec, ImplementsLedger, Ledger!Spec
=============================================================================
