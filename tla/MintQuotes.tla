----------------------------- MODULE MintQuotes -----------------------------
(***************************************************************************)
(* Minting: how a deposit becomes credit of a mint quote and how that       *)
(* credit becomes signed ecash.  The state is the mint_quotes row of every  *)
(* quote, the mint_deposits table, the mint_utxos table (only whether an    *)
(* outpoint is in it), the chain (or the Lightning node) that the backends  *)
(* ask, and the requests in flight.                                         *)
(*                                                                         *)
(* A request in flight is a POST /v1/mint ("mint"), a GET of the quote      *)
(* ("get") or the visit of one quote by a cycle of the DepositMonitor       *)
(* ("monitor").  Each of its awaits is a step of its own: it reads the      *)
(* quote row, asks the backend, claims the deposit in a transaction, and    *)
(* (mint only) signs and saves under the row lock.  Between two of these    *)
(* steps any other request may run, and the process may die.                *)
(***************************************************************************)
EXTENDS Naturals

CONSTANTS
  Quotes,      \* ids of mint quotes
  Deposits,    \* outpoints (txid:vout) and, for bolt11, settled invoices
  Handlers,    \* requests and monitor visits that can be in flight at once
  Addresses,   \* deposit addresses and invoices
  Canonical,   \* the mint's own taproot address, shared by old UNIT quotes
  Method,      \* [Quotes -> {"onchain", "unit", "bolt11"}]
  Unit,        \* [Quotes -> {"unit", "sat"}]
  Asked,       \* amount stored when the quote is created, 0 if amountless
  Request,     \* address or invoice stored in the quote
  PaidTo,      \* address a deposit pays
  Value,       \* amount a deposit carries
  Totals,      \* sums of outputs a client may ask to have signed
  Reorgable,   \* deposits whose block a reorganisation may remove
  Withdrawable,\* deposits a withdrawal of the mint may spend
  IssueBound,  \* bound of the model on the ecash signed for one quote
  None

Onchain == {q \in Quotes : Method[q] = "onchain"}
FixedUnit == {q \in Quotes : Method[q] = "unit"}
Bolt11 == {q \in Quotes : Method[q] = "bolt11"}

ASSUME ConstantsAssumption ==
  /\ Method \in [Quotes -> {"onchain", "unit", "bolt11"}]
  /\ Unit \in [Quotes -> {"unit", "sat"}]
  /\ Asked \in [Quotes -> Nat]
  /\ Request \in [Quotes -> Addresses]
  /\ PaidTo \in [Deposits -> Addresses]
  /\ Value \in [Deposits -> Nat \ {0}]
  /\ Totals \subseteq Nat \ {0}
  /\ IssueBound \in Nat
  /\ None \notin Quotes \cup Deposits
  /\ \A q \in Quotes :
       /\ Method[q] = "unit" => Unit[q] = "unit"
       /\ Method[q] = "bolt11" => Unit[q] = "sat"
       /\ Asked[q] = 0 => Method[q] = "onchain" /\ Unit[q] = "unit"

(* A settled invoice is neither reorganised away nor spent by a withdrawal. *)
ASSUME InvoicesStaySettled ==
  \A q \in Bolt11, d \in Deposits :
    PaidTo[d] = Request[q] => d \notin Reorgable \cup Withdrawable

VARIABLES
  state,          \* mint_quotes.state, "ABSENT" before the row exists
  amount,         \* mint_quotes.amount
  amount_paid,    \* mint_quotes.amount_paid
  amount_issued,  \* mint_quotes.amount_issued
  outpoint,       \* mint_quotes.(txid, vout), None while vout is null
  owner,          \* mint_deposits: the quote that claimed an outpoint
  tracked,        \* outpoints with a row in mint_utxos
  chain,          \* what the backends' node says of a deposit
  minted,         \* history: ecash signed for a quote since it was created
  pc, job         \* the requests in flight

quoteVars == <<state, amount, amount_paid, amount_issued, outpoint>>
vars == <<quoteVars, owner, tracked, chain, minted, pc, job>>

Jobs == [op : {"mint", "get", "monitor"}, quote : Quotes, amount : Nat,
         outpoint : Deposits \cup {None}, total : Nat,
         deposit : Deposits \cup {None}]

NoJob == [op |-> "get", quote |-> None, amount |-> 0, outpoint |-> None,
          total |-> 0, deposit |-> None]

TypeOK ==
  /\ state \in [Quotes -> {"ABSENT", "UNPAID", "PAID", "ISSUED"}]
  /\ amount \in [Quotes -> Nat]
  /\ amount_paid \in [Quotes -> Nat]
  /\ amount_issued \in [Quotes -> Nat]
  /\ outpoint \in [Quotes -> Deposits \cup {None}]
  /\ owner \in [Deposits -> Quotes \cup {None}]
  /\ tracked \subseteq Deposits
  /\ chain \in [Deposits -> {"none", "mempool", "confirmed", "spent"}]
  /\ minted \in [Quotes -> Nat]
  /\ pc \in [Handlers -> {"idle", "check", "claim", "lock"}]
  /\ job \in [Handlers -> Jobs \cup {NoJob}]
  /\ \A h \in Handlers : pc[h] # "idle" => job[h] \in Jobs
  /\ \A h \in Handlers : pc[h] = "claim" => job[h].deposit \in Deposits

Init ==
  /\ state = [q \in Quotes |-> "ABSENT"]
  /\ amount = Asked
  /\ amount_paid = [q \in Quotes |-> 0]
  /\ amount_issued = [q \in Quotes |-> 0]
  /\ outpoint = [q \in Quotes |-> None]
  /\ owner = [d \in Deposits |-> None]
  /\ tracked = {}
  /\ chain = [d \in Deposits |-> "none"]
  /\ minted = [q \in Quotes |-> 0]
  /\ pc = [h \in Handlers |-> "idle"]
  /\ job = [h \in Handlers |-> NoJob]

-----------------------------------------------------------------------------
(* The environment: quotes are asked for, wallets pay, blocks come and go,  *)
(* and the mint's own withdrawals spend the outputs it received.             *)

Create(q) ==
  /\ state[q] = "ABSENT"
  /\ state' = [state EXCEPT ![q] = "UNPAID"]
  /\ UNCHANGED <<amount, amount_paid, amount_issued, outpoint, owner, tracked,
                 chain, minted, pc, job>>

SetChain(d, from, to) ==
  /\ chain[d] = from
  /\ chain' = [chain EXCEPT ![d] = to]
  /\ UNCHANGED <<quoteVars, owner, tracked, minted, pc, job>>

(* An address is only known to the wallet once its quote was created. *)
Pay(d) ==
  /\ \E q \in Quotes : Request[q] = PaidTo[d] /\ state[q] # "ABSENT"
  /\ SetChain(d, "none", "mempool")

Confirm(d) == SetChain(d, "mempool", "confirmed")

Reorg(d) == d \in Reorgable /\ SetChain(d, "confirmed", "mempool")

Withdraw(d) ==
  /\ d \in Withdrawable
  /\ d \in tracked \/ \E q \in Onchain : Unit[q] = "sat" /\ Request[q] = PaidTo[d]
  /\ SetChain(d, "confirmed", "spent")

(* UtxoSyncService: RunesBackend.syncUtxos inserts what it sees at the      *)
(* mint's own address, whoever it was meant for.                            *)
Sync(d) ==
  /\ PaidTo[d] = Canonical
  /\ chain[d] \in {"mempool", "confirmed"}
  /\ tracked' = tracked \cup {d}
  /\ UNCHANGED <<quoteVars, owner, chain, minted, pc, job>>

-----------------------------------------------------------------------------
(* What a backend answers.                                                  *)

Runes(q) == Unit[q] = "unit"

(* Mutant: nothing is ambiguous. *)
AmbiguousNever(q) == FALSE

(* An amountless UNIT quote on the shared address cannot tell its deposit   *)
(* from another's.                                                          *)
Ambiguous(q) == Runes(q) /\ amount[q] = 0 /\ Request[q] = Canonical

(* The amount the caller wants matched exactly; 0 stands for undefined.     *)
Expected(j) == IF j.amount = 0 /\ j.op = "mint" THEN j.total ELSE j.amount

(* RunesBackend skips outpoints that another quote claimed. *)
SkipClaimed(d, q) == Runes(q) => owner[d] \in {None, q}

(* Mutant: the amount is not compared. *)
ExactMatchesAnyValue(q, a) ==
  {d \in Deposits : /\ PaidTo[d] = Request[q]
                    /\ SkipClaimed(d, q)
                    /\ chain[d] = "confirmed"}

(* Mutant: an invoice that exists counts as settled. *)
ExactMatchesUnsettled(q, a) ==
  {d \in Deposits : /\ PaidTo[d] = Request[q]
                    /\ SkipClaimed(d, q)
                    /\ Value[d] = a}

ExactMatches(q, a) ==
  {d \in Deposits : /\ PaidTo[d] = Request[q]
                    /\ SkipClaimed(d, q)
                    /\ Value[d] = a
                    /\ chain[d] = "confirmed"}

(* Mutant: tracked outputs are skipped for everyone. *)
AnyMatchesUntracked(q, includeTracked) ==
  IF Request[q] = Canonical THEN {}
  ELSE {d \in Deposits : /\ PaidTo[d] = Request[q]
                         /\ SkipClaimed(d, q)
                         /\ d \notin tracked
                         /\ chain[d] \in {"mempool", "confirmed"}}

(* The fallback loop takes the first output listed, confirmed or not; the   *)
(* monitor passes includeTracked = false.                                   *)
AnyMatches(q, includeTracked) ==
  IF Request[q] = Canonical THEN {}
  ELSE {d \in Deposits : /\ PaidTo[d] = Request[q]
                         /\ SkipClaimed(d, q)
                         /\ d \notin tracked \/ includeTracked
                         /\ chain[d] \in {"mempool", "confirmed"}}

CheckDeposit(j) ==
  IF Expected(j) = 0 THEN AnyMatches(j.quote, j.op # "monitor")
                     ELSE ExactMatches(j.quote, Expected(j))

(* A recorded outpoint is verified by itself, spent or not. *)
VerifySpecificDeposit(j) ==
  {d \in {j.outpoint} : chain[d] \in {"confirmed", "spent"} /\ Value[d] = j.amount}

Answers(j) ==
  IF j.op = "mint" /\ j.quote \notin Onchain /\ j.outpoint # None
  THEN VerifySpecificDeposit(j)
  ELSE CheckDeposit(j)

-----------------------------------------------------------------------------
(* The requests.                                                            *)

(* A request that is over leaves nothing behind. *)
Goto(h, label) ==
  /\ pc' = [pc EXCEPT ![h] = label]
  /\ job' = IF label = "idle" THEN [job EXCEPT ![h] = NoJob] ELSE job

(* mintTokens on an onchain quote that has an amount polls the deposit      *)
(* through getOnchainMintQuote, which logs every failure and goes on.       *)
Lenient(j) == j.op = "mint" /\ j.quote \in Onchain /\ j.amount > 0

(* Mutant: every mint goes on. *)
AfterFailureGoesOn(j) == IF j.op = "mint" THEN "lock" ELSE "idle"

AfterFailure(j) == IF Lenient(j) THEN "lock" ELSE "idle"
AfterClaim(j) == IF j.op = "mint" THEN "lock" ELSE "idle"

(* Reading the quote row.  The monitor reads UNPAID rows (those its batch,  *)
(* expiry and age limits leave); a GET of a fixed-amount quote that is not  *)
(* UNPAID returns at once.                                                  *)
Start(h, o, q, t) ==
  /\ pc[h] = "idle"
  /\ state[q] # "ABSENT"
  /\ o = "monitor" \/ (o = "get" /\ q \notin Onchain) => state[q] = "UNPAID"
  /\ o # "monitor" => ~(q \in Onchain /\ Ambiguous(q))
  /\ IF o = "mint" THEN t \in Totals ELSE t = 0
  /\ job' = [job EXCEPT ![h] = [op |-> o, quote |-> q, amount |-> amount[q],
                                outpoint |-> outpoint[q], total |-> t,
                                deposit |-> None]]
  /\ pc' = [pc EXCEPT ![h] = "check"]
  /\ UNCHANGED <<quoteVars, owner, tracked, chain, minted>>

(* The backend reports a confirmed deposit; RunesBackend has put it into    *)
(* mint_utxos before it answers.                                            *)
Check(h, d) ==
  /\ pc[h] = "check"
  /\ d \in Answers(job[h])
  /\ chain[d] # "mempool"
  /\ tracked' = IF Runes(job[h].quote) THEN tracked \cup {d} ELSE tracked
  /\ job' = [job EXCEPT ![h].deposit = d]
  /\ pc' = [pc EXCEPT ![h] = "claim"]
  /\ UNCHANGED <<quoteVars, owner, chain, minted>>

CheckMiss(h) ==
  /\ pc[h] = "check"
  /\ Answers(job[h]) = {} \/ \E d \in Answers(job[h]) : chain[d] = "mempool"
  /\ Goto(h, AfterFailure(job[h]))
  /\ UNCHANGED <<quoteVars, owner, tracked, chain, minted>>

(* Mutant: only the first deposit makes the quote PAID. *)
StateAfterCreditOnce(q, v) == IF state[q] = "UNPAID" THEN "PAID" ELSE state[q]

(* claimMintDeposit, creditMode "increment-paid": the deposit adds to what  *)
(* an onchain quote may issue.                                              *)
StateAfterCredit(q, v) ==
  IF amount_paid[q] + v > amount_issued[q] THEN "PAID" ELSE state[q]

IncrementPaid(q, v) ==
  /\ amount_paid' = [amount_paid EXCEPT ![q] = @ + v]
  /\ state' = [state EXCEPT ![q] = StateAfterCredit(q, v)]

(* Mutant: a late claim takes the quote back to PAID. *)
SetPaidAgain(q, v) ==
  /\ amount_paid' = [amount_paid EXCEPT ![q] = IF @ > v THEN @ ELSE v]
  /\ state' = [state EXCEPT ![q] = "PAID"]

(* creditMode "set-paid": the quote is paid once, an ISSUED one stays so.   *)
SetPaid(q, v) ==
  /\ amount_paid' = [amount_paid EXCEPT ![q] = IF @ > v THEN @ ELSE v]
  /\ state' = [state EXCEPT ![q] = IF @ = "ISSUED" THEN @ ELSE "PAID"]

(* Mutant: the last deposit overwrites the recorded outpoint. *)
RecordOutpointLast(q, d) == outpoint' = [outpoint EXCEPT ![q] = d]

(* txid = COALESCE(txid, $2), vout = COALESCE(vout, $3). *)
RecordOutpoint(q, d) ==
  outpoint' = [outpoint EXCEPT ![q] = IF @ = None THEN d ELSE @]

(* Mutant: the insert overwrites the owner. *)
UnclaimedAlways(d) == TRUE

(* The INSERT into mint_deposits hits ON CONFLICT (txid, vout). *)
Unclaimed(d) == owner[d] = None

(* The deposit is new: record its owner and credit the quote, in one        *)
(* transaction.                                                             *)
ClaimDeposit(h) ==
  LET d == job[h].deposit
      q == job[h].quote
  IN /\ pc[h] = "claim"
     /\ q \notin Bolt11
     /\ Unclaimed(d)
     /\ owner' = [owner EXCEPT ![d] = q]
     /\ amount' = [amount EXCEPT ![q] = IF @ = 0 THEN Value[d] ELSE @]
     /\ RecordOutpoint(q, d)
     /\ IF q \in Onchain THEN IncrementPaid(q, Value[d]) ELSE SetPaid(q, Value[d])
     /\ Goto(h, AfterClaim(job[h]))
     /\ UNCHANGED <<amount_issued, tracked, chain, minted>>

(* Mutant: the owner's second claim marks the quote PAID again. *)
ClaimConflictMarks(h) ==
  LET d == job[h].deposit
      q == job[h].quote
  IN /\ pc[h] = "claim"
     /\ q \notin Bolt11
     /\ ~Unclaimed(d)
     /\ state' = IF owner[d] = q THEN [state EXCEPT ![q] = "PAID"] ELSE state
     /\ Goto(h, IF owner[d] = q THEN AfterClaim(job[h]) ELSE AfterFailure(job[h]))
     /\ UNCHANGED <<amount, amount_paid, amount_issued, outpoint, owner, tracked,
                    chain, minted>>

(* The outpoint is in the table already: the owner goes on without a second *)
(* credit, anyone else is refused.                                          *)
ClaimConflict(h) ==
  LET d == job[h].deposit
      q == job[h].quote
  IN /\ pc[h] = "claim"
     /\ q \notin Bolt11
     /\ ~Unclaimed(d)
     /\ Goto(h, IF owner[d] = q THEN AfterClaim(job[h]) ELSE AfterFailure(job[h]))
     /\ UNCHANGED <<quoteVars, owner, tracked, chain, minted>>

(* Lightning reports no vout, so nothing is claimed: the state is written,  *)
(* whatever it was, and (txid, vout) stays incomplete.                      *)
MarkPaid(h) ==
  LET q == job[h].quote
  IN /\ pc[h] = "claim"
     /\ q \in Bolt11
     /\ state' = [state EXCEPT ![q] = "PAID"]
     /\ Goto(h, AfterClaim(job[h]))
     /\ UNCHANGED <<amount, amount_paid, amount_issued, outpoint, owner, tracked,
                    chain, minted>>

(* Under the row lock of withMintQuoteLock: the checks, the signatures, the *)
(* rows of issued_signatures and the new state are one transaction.         *)
AvailableForEver(q) == amount_paid[q]  \* mutant: what was issued is not subtracted
Available(q) == amount_paid[q] - amount_issued[q]

(* Mutant: the amount of the quote is all that is compared. *)
CanIssueOnchainAmount(q, t) ==
  /\ amount[q] > 0 => t = amount[q]
  /\ Runes(q) /\ amount[q] = 0 => t = Available(q)

CanIssueOnchain(q, t) ==
  /\ amount[q] > 0 => t = amount[q]
  /\ Runes(q) /\ amount[q] = 0 => t = Available(q)
  /\ t <= Available(q)

CanIssueFixed(q, t) == state[q] # "ISSUED" /\ t = amount[q]

IssueOnchain(h) ==
  LET q == job[h].quote
      t == job[h].total
  IN /\ pc[h] = "lock"
     /\ q \in Onchain
     /\ CanIssueOnchain(q, t)
     /\ amount_issued' = [amount_issued EXCEPT ![q] = @ + t]
     /\ state' = [state EXCEPT ![q] = IF amount_issued[q] + t >= amount_paid[q]
                                      THEN "ISSUED" ELSE @]
     /\ minted' = [minted EXCEPT ![q] = @ + t]
     /\ Goto(h, "idle")
     /\ UNCHANGED <<amount, amount_paid, outpoint, owner, tracked, chain>>

IssueFixed(h) ==
  LET q == job[h].quote
      t == job[h].total
  IN /\ pc[h] = "lock"
     /\ q \notin Onchain
     /\ CanIssueFixed(q, t)
     /\ minted[q] + t <= IssueBound
     /\ state' = [state EXCEPT ![q] = "ISSUED"]
     /\ minted' = [minted EXCEPT ![q] = @ + t]
     /\ Goto(h, "idle")
     /\ UNCHANGED <<amount, amount_paid, amount_issued, outpoint, owner, tracked,
                    chain>>

(* A check refuses, a query or a backend call throws, or the process dies:  *)
(* the open transaction is rolled back and the request is over.             *)
Fail(h) ==
  /\ pc[h] # "idle"
  /\ Goto(h, "idle")
  /\ UNCHANGED <<quoteVars, owner, tracked, chain, minted>>

(* getOnchainMintQuote swallowed the error on the way to the lock. *)
GoOn(h) ==
  /\ pc[h] \in {"check", "claim"}
  /\ Lenient(job[h])
  /\ Goto(h, "lock")
  /\ UNCHANGED <<quoteVars, owner, tracked, chain, minted>>

-----------------------------------------------------------------------------

Environment ==
  \/ \E q \in Quotes : Create(q)
  \/ \E d \in Deposits : Pay(d) \/ Confirm(d) \/ Reorg(d) \/ Withdraw(d) \/ Sync(d)

(* What a request in flight does next. *)
Serve(h) ==
  \/ \E d \in Deposits : Check(h, d)
  \/ CheckMiss(h)
  \/ ClaimDeposit(h)
  \/ ClaimConflict(h)
  \/ MarkPaid(h)
  \/ IssueOnchain(h)
  \/ IssueFixed(h)
  \/ Fail(h)
  \/ GoOn(h)

Step(h) ==
  \/ \E o \in {"mint", "get", "monitor"}, q \in Quotes, t \in Totals \cup {0} :
        Start(h, o, q, t)
  \/ Serve(h)

Next == Environment \/ \E h \in Handlers : Step(h)

Spec == Init /\ [][Next]_vars

(* Blocks are mined, every await of a request resolves or throws, and what  *)
(* is tried for a quote again and again does not throw every time: the call *)
(* of the backend, which answers with one of the deposits it could answer   *)
(* with, always the same one if need be, and the claim of that answer.  A   *)
(* backend answers again and again once what was paid is confirmed, and for *)
(* bolt11 while LNbits lists the invoice among its newest payments.         *)
Progress ==
  /\ WF_vars(\E d \in Deposits : Confirm(d))
  /\ \A h \in Handlers : WF_vars(Serve(h))
  /\ \A h \in Handlers, q \in Quotes :
       /\ SF_vars(job[h].quote = q /\ \E d \in Deposits : Check(h, d))
       /\ SF_vars(job[h].quote = q /\ (ClaimDeposit(h) \/ ClaimConflict(h) \/ MarkPaid(h)))

(* The wallet polls its quote. *)
Polled == \A q \in Quotes : SF_vars(\E h \in Handlers : Start(h, "get", q, 0))

WalletSpec == Spec /\ Progress /\ Polled

-----------------------------------------------------------------------------
(* Safety.                                                                  *)

(* The state column of an onchain quote is a function of its two counters:  *)
(* UNPAID while nothing was credited, PAID while credit is left, ISSUED     *)
(* when all of it was signed.  Each counter is written by other requests    *)
(* than the ones that write the state.                                      *)
StateMatchesLedger ==
  \A q \in Onchain :
    /\ state[q] \in {"ABSENT", "UNPAID"} <=> amount_paid[q] = 0
    /\ state[q] = "PAID" <=> amount_issued[q] < amount_paid[q]

(* An onchain quote never signs more than the deposits credited to it,      *)
(* however many mint requests run at once.                                  *)
NeverOverIssued ==
  \A q \in Onchain :
    minted[q] = amount_issued[q] /\ amount_issued[q] <= amount_paid[q]

(* A quote with a fixed amount is minted once, and for that amount          *)
(* ("Quote already issued - tokens already minted").                        *)
MintedAtMostOnce == \A q \in Quotes \ Onchain : minted[q] \in {0, Asked[q]}

(* A legacy UNIT quote is only minted once its amount was credited.         *)
FixedUnitIsPaid ==
  \A q \in FixedUnit : minted[q] > 0 => state[q] = "ISSUED" /\ amount_paid[q] = Asked[q]

(* The recorded outpoint, which mintTokens verifies instead of scanning, is *)
(* the deposit that gave the quote its amount, and belongs to no other.     *)
OutpointIsFirstClaim ==
  \A q \in Onchain \cup FixedUnit :
    IF amount_paid[q] = 0
    THEN outpoint[q] = None /\ amount[q] = Asked[q]
    ELSE /\ outpoint[q] \in Deposits
         /\ owner[outpoint[q]] = q
         /\ Value[outpoint[q]] = amount[q]

(* A deposit is claimed by a quote it was paid to, and where the quote was  *)
(* created with an amount the deposit carries exactly that.                 *)
ClaimedWherePaid ==
  \A d \in Deposits : owner[d] # None =>
    /\ PaidTo[d] = Request[owner[d]]
    /\ Asked[owner[d]] # 0 => Value[d] = Asked[owner[d]]

(* An amountless UNIT quote on the shared address is never credited.        *)
AmbiguousNeverCredited ==
  \A q \in Onchain :
    Runes(q) /\ Asked[q] = 0 /\ Request[q] = Canonical
      => amount_paid[q] = 0 /\ minted[q] = 0

(* Ecash of a bolt11 quote is only signed once its invoice was settled.     *)
BackedByInvoice ==
  \A q \in Bolt11 :
    minted[q] > 0 => \E d \in Deposits : PaidTo[d] = Request[q] /\ chain[d] = "confirmed"

(* An onchain or UNIT quote leaves ISSUED only in the step that credits      *)
(* another deposit; no poll, replay or late claim re-opens it.              *)
IssuedIsFinal ==
  [][\A q \in Quotes \ Bolt11 : state[q] = "ISSUED" /\ state'[q] # "ISSUED"
                          => amount_paid'[q] > amount_paid[q]]_vars

(* The confirmed deposits a quote as it was created can be paid with.       *)
Payments(q) ==
  {d \in Deposits : /\ PaidTo[d] = Request[q] /\ chain[d] = "confirmed"
                    /\ Asked[q] \in {0, Value[d]}}

(* Liveness: a quote that was paid becomes PAID, whichever of its deposits  *)
(* the backend answers with, unless another quote claimed one of them first *)
(* ("Automatically updates quote states when deposits are confirmed").  It  *)
(* is one deposit that has to be credited: the first claim fixes the amount *)
(* of an amountless quote, and from then on the backend matches that amount *)
(* exactly and returns the first output that has it.                        *)
PaidQuoteIsCredited ==
  \A q \in Quotes :
    state[q] # "ABSENT" /\ ~Ambiguous(q) /\ Payments(q) # {}
      ~> \/ state[q] \in {"PAID", "ISSUED"}
         \/ \E d \in Payments(q) : owner[d] \notin {None, q}
=============================================================================
