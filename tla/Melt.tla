-------------------------------- MODULE Melt --------------------------------
(***************************************************************************)
(* Melting: proofs are handed in, the backend pays the quote's request, and *)
(* what was not needed comes back as signed change.  The state is the       *)
(* column melt_quotes.state, the table proofs, what left the mint, and the  *)
(* POST /v1/melt requests in flight.  meltTokens holds no transaction       *)
(* across its awaits: claim, mark, pay, sign and settle are separate steps, *)
(* each of which may fail or be the last one before the process dies.       *)
(***************************************************************************)
EXTENDS ProofStore

CONSTANTS
  Quotes,    \* ids of melt quotes; the transaction_id is melt_<id>
  Handlers,  \* melt requests that can be in flight at once
  Method,    \* [Quotes -> {"bolt11", "unit", "onchain"}]
  Request,   \* invoice or address to pay
  Amount,    \* amount to pay
  Reserve,   \* fee reserve or, onchain, the fee charged to the wallet
  Fees,      \* fees a Lightning payment may cost
  Lossy,     \* replies that may get lost: "commit", "payment"
  SendBound, \* bound of the model on payments whose answer is lost, per quote
  Deaths     \* whether a request may be cut off between two steps

Bolt11 == {q \in Quotes : Method[q] = "bolt11"}

ASSUME MeltAssumption ==
  /\ Quotes \subseteq Txs
  /\ Method \in [Quotes -> {"bolt11", "unit", "onchain"}]
  /\ Amount \in [Quotes -> Nat \ {0}]
  /\ Reserve \in [Quotes -> Nat]
  /\ Fees \subseteq Nat
  /\ Lossy \subseteq {"commit", "payment"}
  /\ SendBound \in Nat
  /\ Deaths \in BOOLEAN

VARIABLES
  state,    \* melt_quotes.state
  sent,     \* history: payments that left the mint for a quote
  change,   \* history: change signed for a quote
  pc, job   \* the requests in flight

meltVars == <<state, sent, change, pc, job>>

Jobs == [quote : Quotes, inputs : SUBSET Proofs, change : Nat]
NoJob == [quote |-> None, inputs |-> {}, change |-> 0]

Labels == {"idle", "check", "claim", "mark", "withdraw", "revert", "release",
           "change", "settle"}

MeltTypeOK ==
  /\ ProofStoreTypeOK
  /\ state \in [Quotes -> {"UNPAID", "PENDING", "PAID"}]
  /\ sent \in [Quotes -> Nat]
  /\ change \in [Quotes -> Nat]
  /\ pc \in [Handlers -> Labels]
  /\ job \in [Handlers -> Jobs \cup {NoJob}]
  /\ \A h \in Handlers : pc[h] # "idle" => job[h] \in Jobs

MeltInit ==
  /\ state = [q \in Quotes |-> "UNPAID"]
  /\ sent = [q \in Quotes |-> 0]
  /\ change = [q \in Quotes |-> 0]
  /\ pc = [h \in Handlers |-> "idle"]
  /\ job = [h \in Handlers |-> NoJob]

-----------------------------------------------------------------------------

Goto(h, label) ==
  /\ pc' = [pc EXCEPT ![h] = label]
  /\ job' = IF label = "idle" THEN [job EXCEPT ![h] = NoJob] ELSE job

(* Another quote for the same invoice is in flight or paid. *)
SettledTwin(q) ==
  \E p \in Bolt11 \ {q} : Request[p] = Request[q] /\ state[p] \in {"PENDING", "PAID"}

Reserved(q, ps) == Amount[q] + Reserve[q] + InputFees[ps]

(* The quote row is read; only a bolt11 quote's state is looked at.  The    *)
(* inputs are sound and cover the amount and the reserve.                   *)
Start(h, q, ps) ==
  /\ pc[h] = "idle"
  /\ q \in Bolt11 => state[q] = "UNPAID"
  /\ Worth[ps] >= Reserved(q, ps)
  /\ job' = [job EXCEPT ![h] = [quote |-> q, inputs |-> ps, change |-> 0]]
  /\ pc' = [pc EXCEPT ![h] = IF q \in Bolt11 THEN "check" ELSE "claim"]
  /\ UNCHANGED <<spentBy, state, sent, change>>

(* findSettledMeltQuoteByRequest. *)
CheckSettled(h) ==
  /\ pc[h] = "check"
  /\ ~SettledTwin(job[h].quote)
  /\ Goto(h, "claim")
  /\ UNCHANGED <<spentBy, state, sent, change>>

(* Mutant: the partial unique index of migration 010 is missing. *)
ClaimableRow(q) == state[q] = "UNPAID"

(* Mutant: the state of the locked row is not looked at. *)
ClaimableIndex(q) == q \in Bolt11 => ~SettledTwin(q)

(* The row lock of claimMeltQuotePending, and the unique index on settled   *)
(* bolt11 requests.                                                         *)
Claimable(q) == state[q] = "UNPAID" /\ (q \in Bolt11 => ~SettledTwin(q))

Claim(h) ==
  LET q == job[h].quote
  IN /\ pc[h] = "claim"
     /\ Claimable(q)
     /\ state' = [state EXCEPT ![q] = "PENDING"]
     /\ Goto(h, "mark")
     /\ UNCHANGED <<spentBy, sent, change>>

Mark(h) ==
  /\ pc[h] = "mark"
  /\ MarkSpent(job[h].inputs, job[h].quote)
  /\ Goto(h, "withdraw")
  /\ UNCHANGED <<state, sent, change>>

(* A proof is spent already, or a query failed: the quote is given back. *)
MarkFails(h) ==
  /\ pc[h] = "mark"
  /\ Goto(h, "release")
  /\ UNCHANGED <<spentBy, state, sent, change>>

(* The rows were committed, but COMMIT or a listener of the notification    *)
(* bus threw.                                                               *)
MarkUnanswered(h) ==
  /\ "commit" \in Lossy
  /\ pc[h] = "mark"
  /\ MarkSpent(job[h].inputs, job[h].quote)
  /\ Goto(h, "release")
  /\ UNCHANGED <<state, sent, change>>

(* Mutant: only the fee of the payment is taken off. *)
LeftoverOfAll(q, ps, fee) ==
  LET spent == IF q \in Bolt11 THEN fee ELSE Reserve[q]
  IN IF Worth[ps] > spent THEN Worth[ps] - spent ELSE 0

(* What the wallet gets back: a Lightning payment costs what it costs, the  *)
(* other methods keep the whole reserve.                                    *)
Leftover(q, ps, fee) ==
  LET spent == IF q \in Bolt11 THEN Amount[q] + fee + InputFees[ps] ELSE Reserved(q, ps)
  IN IF Worth[ps] > spent THEN Worth[ps] - spent ELSE 0

Withdraw(h, fee) ==
  LET q == job[h].quote
  IN /\ pc[h] = "withdraw"
     /\ sent' = [sent EXCEPT ![q] = @ + 1]
     /\ job' = [job EXCEPT ![h].change = Leftover(q, job[h].inputs, fee)]
     /\ pc' = [pc EXCEPT ![h] = "change"]
     /\ UNCHANGED <<spentBy, state, change>>

(* Mutant: only the quote is given back. *)
WithdrawFailsHalfway(h) ==
  /\ pc[h] = "withdraw"
  /\ Goto(h, "release")
  /\ UNCHANGED <<spentBy, state, sent, change>>

WithdrawFails(h) ==
  /\ pc[h] = "withdraw"
  /\ Goto(h, "revert")
  /\ UNCHANGED <<spentBy, state, sent, change>>

(* The payment left, but withdraw threw: the answer was lost, the txid did  *)
(* not match, or mint_utxos could not be updated after the broadcast.       *)
WithdrawUnanswered(h) ==
  /\ "payment" \in Lossy
  /\ pc[h] = "withdraw"
  /\ sent[job[h].quote] < SendBound
  /\ sent' = [sent EXCEPT ![job[h].quote] = @ + 1]
  /\ Goto(h, "revert")
  /\ UNCHANGED <<spentBy, state, change>>

(* Mutant: the proofs stay behind. *)
RevertNothing(h) ==
  /\ pc[h] = "revert"
  /\ Goto(h, "release")
  /\ UNCHANGED <<spentBy, state, sent, change>>

Revert(h) ==
  /\ pc[h] = "revert"
  /\ DeleteByTransactionId(job[h].quote)
  /\ Goto(h, "release")
  /\ UNCHANGED <<state, sent, change>>

Release(h) ==
  /\ pc[h] = "release"
  /\ state' = [state EXCEPT ![job[h].quote] = "UNPAID"]
  /\ Goto(h, "idle")
  /\ UNCHANGED <<spentBy, sent, change>>

(* signChangeOutputs: the largest powers of two of the change, as many as   *)
(* the wallet sent blank outputs for.                                       *)
Signable(c) == {x \in 0 .. c : \E j \in 0 .. c : x = c - (c % (2 ^ j))}

SignChange(h, c) ==
  /\ pc[h] = "change"
  /\ c \in Signable(job[h].change)
  /\ change' = [change EXCEPT ![job[h].quote] = @ + c]
  /\ Goto(h, "settle")
  /\ UNCHANGED <<spentBy, state, sent>>

(* An onchain quote stays PENDING: nothing in the mint calls completeMelt.  *)
Settle(h) ==
  LET q == job[h].quote
  IN /\ pc[h] = "settle"
     /\ state' = [state EXCEPT ![q] = IF Method[q] = "onchain" THEN "PENDING" ELSE "PAID"]
     /\ Goto(h, "idle")
     /\ UNCHANGED <<spentBy, sent, change>>

(* A check refuses, a query outside the two try blocks throws, or the       *)
(* process dies: nothing is undone.                                         *)
Fail(h) ==
  /\ Deaths \/ pc[h] \in {"check", "claim"}
  /\ pc[h] # "idle"
  /\ Goto(h, "idle")
  /\ UNCHANGED <<spentBy, state, sent, change>>

-----------------------------------------------------------------------------

Serve(h) ==
  \/ CheckSettled(h) \/ Claim(h)
  \/ Mark(h) \/ MarkFails(h) \/ MarkUnanswered(h)
  \/ \E fee \in Fees : Withdraw(h, fee)
  \/ WithdrawFails(h) \/ WithdrawUnanswered(h)
  \/ Revert(h) \/ Release(h)
  \/ \E c \in 0 .. job[h].change : SignChange(h, c)
  \/ Settle(h)
  \/ Fail(h)

MeltNext ==
  \E h \in Handlers :
    \/ \E q \in Quotes, ps \in SUBSET Proofs : Start(h, q, ps)
    \/ Serve(h)

-----------------------------------------------------------------------------

Owning == {"mark", "withdraw", "revert", "release", "change", "settle"}

(* Two requests never work on one quote at once, and the quote they work on *)
(* is PENDING, so nobody else can claim it.                                 *)
OneOwner ==
  \A h \in Handlers : pc[h] \in Owning =>
    /\ state[job[h].quote] = "PENDING"
    /\ \A g \in Handlers \ {h} :
         pc[g] \in Owning => job[g].quote # job[h].quote

(* An invoice is paid once, over all the quotes made for it, and no quote   *)
(* is paid twice ("A bolt11 invoice should only be in-flight or paid        *)
(* once.").                                                                 *)
PaidOnce ==
  /\ \A q \in Quotes : sent[q] <= 1
  /\ \A q, p \in Bolt11 : q # p /\ Request[q] = Request[p] => sent[q] + sent[p] <= 1

(* "Withdrawal failed - your ecash tokens remain valid": a quote that is    *)
(* UNPAID again, with nobody at work on it, was not paid and holds no       *)
(* proof.                                                                   *)
UnpaidIsClean ==
  \A q \in Quotes :
    state[q] = "UNPAID" /\ (\A h \in Handlers : pc[h] \in Owning => job[h].quote # q)
      => sent[q] = 0 /\ Held(q) = {}

(* What left the mint for a quote was paid for: the proofs held under its   *)
(* transaction cover the payment and the change.                            *)
PaidIsCovered ==
  \A q \in Quotes : sent[q] > 0 =>
    Worth[Held(q)] >= Amount[q] + change[q]

(* Whatever answers get lost, a quote that ends up PAID holds proofs for    *)
(* one payment and its change.                                              *)
SettledIsCovered ==
  \A q \in Quotes : state[q] = "PAID" => Worth[Held(q)] >= Amount[q] + change[q]

(* Liveness: proofs taken for a quote are paid out or given back.           *)
LockResolves ==
  \A q \in Quotes : Held(q) # {} ~> Held(q) = {} \/ sent[q] > 0
=============================================================================
