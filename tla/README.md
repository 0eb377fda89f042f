# Verification of the UNIT Cashu mint

TLA+ models of the mint in `src/`, TLC configurations that check them on small
instances, and TLAPS proofs about them. The mint is a TypeScript server on
PostgreSQL. Wallets deposit Runes (unit `unit`), BTC on chain or Lightning
payments (unit `sat`) and get blind signatures, *ecash*; they swap ecash for
ecash, and melt it into withdrawals. Everything that is at stake is in the
database rows, and everything that is difficult is between the awaits.

## 1. Inventory

| Component | State | Operations | Talks to |
|---|---|---|---|
| MintService | none of its own | createMintQuote, getMintQuote, mintTokens | QuoteRepository, backends, MintCrypto, SignatureRepository |
| MeltService | none | createMeltQuote, meltTokens (completeMelt, failMelt: no caller) | QuoteRepository, ProofRepository, backends, notification bus |
| SwapService | none | swap | ProofRepository, MintCrypto, SignatureRepository |
| QuoteRepository | tables mint_quotes, melt_quotes, mint_deposits | claimMintDeposit, withMintQuoteLock, incrementMintQuoteIssued, claimMeltQuotePending, updateMeltQuoteState | PostgreSQL |
| ProofRepository | table proofs | markSpent, deleteByTransactionId, checkSpent | PostgreSQL, notification bus |
| SignatureRepository | table issued_signatures | saveMany, restore lookups | PostgreSQL |
| RunesBackend, UtxoManager | table mint_utxos | checkDeposit, verifySpecificDeposit, withdraw (sendRunes), syncUtxos | ord, esplora |
| BTCBackend | none | checkDeposit, verifySpecificDeposit, withdraw | esplora |
| LNbitsBackend | none | checkDeposit, verifySpecificDeposit, withdraw | LNbits |
| BackendRegistry | method and unit to backend | register, getByMethod | the services |
| DepositMonitor, BackgroundTaskManager | timers, isStarted | start, stop, checkPendingDeposits | QuoteRepository, backends |
| UtxoSyncService | timer | syncUtxos | RunesBackend |
| KeyManager, KeyEncryptor | table keysets, cache, access token | getPrivateKey, getActiveKeysets, getKeysetByRuneIdAndUnit, deactivateKeyset | PostgreSQL, Cloud KMS |
| ws route, notification bus | subscriptions per socket | subscribe, unsubscribe, publish | MintService, MeltService, CheckStateService |
| Database access | pool of 20 connections | query, transaction | PostgreSQL |
| Migrations | tables schema_migrations, migrations | the script run before the server | PostgreSQL |
| Certificate storage | /data/caddy, a secret | restore, snapshot, watch | Secret Manager, Caddy |
| Audit monitor | none; the log | a run every six hours | Cloud Logging |
| UtxoSelector, PSBT, runestone, transaction builders, wallet keys | none (pure) | selection, layout, encoding, derivation | RunesBackend, BTCBackend |
| Amounts, BOLT11 | none (pure) | splitAmount, fees, parsing and encoding of invoices | the services, backends |
| MintCrypto, P2PKService | none (pure) | sign, verify, verifySpendingConditions | KeyManager |

What is hard here: one request is a chain of awaits, and the handlers, the
monitor's cycles and the sync run between any two of them; the chain gives a
different answer each time it is asked; transactions cover single steps of a
request, never the request; a reply may be lost after the effect; the process
may die anywhere, and nothing is resumed at start. What makes the components
correct: a deposit backs one quote; what is signed never exceeds what backs it;
a proof is redeemed once; what is paid or signed is covered by the proofs taken;
an invoice is paid once; what is refused costs the wallet nothing; a quote that
was paid is credited in the end; mint_utxos gives up no coin the mint still has;
tokens of a unit are backed by what that unit stands for, but for losses that
can be named. `PROJECT.json` lists
each hazard at its line with the properties that would catch it.

## 2. Modules

```
MintLedger  <---implements---  MintQuotesLedger --> MintQuotes
                                     ^                  ^
                                MCMintQuotes     MintQuotes_proofs

Redemption  <---implements---  Spending --> Melt --> ProofStore
                                  ^  ^ \--> Swap ------^
                          MCSpending  Spending_proofs

Treasury    <---implements---  RuneReserve <-- MCRuneReserve, RuneReserve_proofs

Services -+-> Calls -> Transactions, Runestone, WalletKeys,     Daemons -+-> ConnectionPool
   ^      |            Amounts, Invoice, Tokens                          +-> Monitor
MCServices|                                                              +-> CertificateStore
          +-> Keysets, Migrations, Units, AccessTokens, AuditMonitor     |
          +-> Subscriptions <--------------------------------------------+

Calls_proofs -> Calls, Codecs_proofs        Units_proofs -> Units, DataTheorems
Codecs_proofs -> Amounts, Runestone, Invoice, DataTheorems
Services_proofs -> Keysets, AccessTokens, AuditMonitor, Migrations, Subscriptions
MintQuotes_proofs -> MintQuotesLedger, DataTheorems
RuneReserve_proofs -> RuneReserve, DataTheorems
```

`Services` and `Daemons` are not compositions: the parts they put side by side
share no state, so a run lets one of them (`service`) move while the others stay
in an initial state. One run then shows what a run for each would. In an initial
state no step with a fairness condition is enabled, so the fairness of one part asks nothing
of a behaviour of another.

### MintQuotes: from a deposit to ecash

*State.* A column of `mint_quotes` is a variable of its own (`state`, `amount`,
`amount_paid`, `amount_issued`; `outpoint` is the pair txid, vout, `None` while
vout is null); `owner` is `mint_deposits`; `tracked` are the outpoints with a row
in `mint_utxos`; `chain` is what the node behind the backends says of a deposit
(`none`, `mempool`: fewer than MINT_CONFIRMATIONS, `confirmed`, `spent`);
`minted` is history; `pc` and `job` are the requests in flight with the snapshot
of the quote they work on.

*Requests.* `Start` reads the quote row (`mintTokens`, `getMintQuote` or the
monitor's query), `Check`/`CheckMiss` ask the backend, `ClaimDeposit`,
`ClaimConflict` and `MarkPaid` are `claimDepositForQuote`, `IssueOnchain` and
`IssueFixed` are the transaction of `withMintQuoteLock`. `Fail` ends a request at
any await: a refusing check, a throwing call or the end of the process, with the
open transaction rolled back. A POST of an onchain quote that has an amount
polls through `getOnchainMintQuote`, which swallows errors: `Lenient`, `GoOn`.

*Decisions.*
- The read of the claims and the read of the chain in `checkDeposit` are one
  step. Claims only grow and `claimMintDeposit` looks at them again, so an older
  snapshot of them adds answers that end as `ClaimConflict`, which is modelled.
- A cycle of the DepositMonitor is one handler for each quote it visits. Its
  batch, age and expiry limits only leave visits out (they are in `Monitor`); the
  safety properties hold for the larger set.
- The reorganisation (`Reorg`) takes a deposit back to the mempool; a transaction that
  the mempool evicts is not modelled.
- The branch of `getOnchainMintQuote` for deposits without a vout
  (`updateMintQuotePayment`) is unreachable: both onchain backends report one.
- FakeLightningBackend is a test double and left out.
- `IssueBound` bounds what is signed for one quote of a fixed amount; only bolt11
  quotes, which are signed again and again, ever reach it (1 in `MintFree`, where
  the second issue is out of scope: it is what `BoltReissue` shows; 3 elsewhere).
- A backend lists the outputs of an address in an order of its own and returns the
  first that matches; the models leave open which. So nothing here says that a
  *second* deposit to a quote is ever credited, and in the code it need not be: the first
  credit fixes the amount of an amountless quote (`QuoteRepository.ts:190`), another
  value never matches again, and an output of the same value stays behind the first one.
- LNbits is asked for its newest 100 payments (`LNbitsBackend.ts:129`); an invoice
  beyond them is `CheckMiss` for ever.
- `Reorgable` and `Withdrawable` say which deposits a reorganisation or a
  withdrawal may hit, so that a run can say which of the two it needs.

`MintLedger` is what minting promises, without requests or polls; and
`MintQuotesLedger` maps `owner` and `minted` to it.

### ProofStore, Melt, Swap, Spending: from ecash to a payment

`ProofStore` is the table `proofs` (`spentBy`: transaction id of a proof's row).
`Melt` is `meltTokens`: `Start` (checks), `CheckSettled`, `Claim`, `Mark`,
`Withdraw`, `SignChange`, `Settle`; `MarkFails` and `WithdrawFails` lead to
`Release` and `Revert`; `MarkUnanswered` and `WithdrawUnanswered` are the steps
whose effect remains although they throw, `Fail` leaves everything as it is.
`createMeltQuote` only inserts an UNPAID row, which is where `MeltInit` begins.
`Swap` is `SwapService.swap`: mark, sign, or fail in between. `Spending` runs both
on one table. `Redemption` is what they promise together: a proof is burned
once, for ever, and what is paid out is covered by what was burned.

*Decisions.*
- `Worth` is the sum of the amounts of a set of proofs; all that is assumed of it
  is additivity (`ProofStoreAssumption`). `InputFees` is arbitrary.
- `Lossy` names the replies that may get lost: `"commit"` (the transaction of
  markSpent) and `"payment"` (withdraw). With `"payment"` the mint can pay twice,
  which `MeltLostReply` shows, so the promises about payments are stated without.
- `Deaths` says whether a request may be cut off between two steps. Refusals
  before the claim are always possible.
- `SendBound` bounds the payments of one quote whose answer gets lost.
- Change is any number of the top powers of two of what is left, as
  `signChangeOutputs` signs as many as the wallet sent blank outputs for.
- `Fees` are the fees a Lightning payment may cost. Every run has them within
  the reserve; `Units` has fees above it, which the change is clamped for, at
  the mint's cost.
- An onchain quote stays PENDING after `Settle`: the comment at `MeltService.ts:406`
  expects a monitoring service to call `completeMelt`, and none does.
- Two quotes are for one invoice when their texts are equal, as in the lookup and in the
  partial unique index. The same invoice in capitals is another text for both; it
  is not in the model.
- The amount of a quote is what is paid. That an amount in the request takes the place of
  the invoice's is in `Units`.
- The state of a quote is not read for onchain and legacy quotes at the start,
  as in the code; the claim refuses them.

### RuneReserve, Treasury: the coins behind the runes

*State.* The chain (`known`, `mined`, `held`, `spender`), the table (`row`), what
an answer of ord listed and nobody has inserted yet (`seen`), and the calls of
`sendRunes` (`pc`, `job`). An output is named by its transaction.

*Actions.* `Select` is everything up to the signed PSBT, `Broadcast` the POST and
`BroadcastUnanswered` the one whose answer is lost, `MarkInput` and
`TrackReturn` the updates of mint_utxos, one by one; `Fail` ends the call at any
of these, the process's end included, and `Retry` is a melt that is tried again. `See`
and `SyncInsert` are the two halves of the sync and of `checkDeposit`'s tracking.
`Acceptable` is what a node accepts.

*Decisions.*
- A selection reads rows, esplora and ord in one step. An older reading adds
  selections that the node refuses, which `Fail` covers.
- Rows come in any order, so `Covering` is every set that the loop can stop at.
- Fee outputs are never in mint_utxos: the update after the broadcast finds no
  row. The change output always exists here; whether it is dust is in
  `Transactions`.
- The account of a row is only missing for rows from before account_index was
  recorded (`Legacy`); it is derived from the quote that claimed the deposit.
- `Treasury` is the promise: a withdrawal takes exactly its amount, once.

### Transactions, Runestone, WalletKeys, Amounts, Invoice, Tokens, Calls: pure functions

`Calls` calls one function with bounded arguments and keeps the answer, so that
the invariants compare it with a reference: what goes in comes out (fees and dust aside),
a decoder inverts its encoder, amounts add up, an unblinded signature
verifies, the keys that sign are those of the coins.
- `Transactions`: `buildTransaction` of the BTC backend (the sort and the loop are the
  order `Before` and the sets `Taken` it goes through), the inputs and
  outputs of the rune PSBT, with the constants of the code (vbytes, dust, 12000,
  21000 sats).
- `Runestone`: edicts and varints, and the one byte that says how long the payload is;
  `Digit` stands for 128, `LengthByte` for 256. A longer payload would be cut off by its
  own length, and an edict below the one before it would be a negative difference; the
  only caller (`psbt-builder.ts`) writes one edict, so `ArgumentsAssumption` leaves both out.
- `Invoice`: the human
  readable part and the tags; `WordBase` stands for 32, `Satoshi` for 1000,
  `MCMillis` has 2 for 10; the unit of an amount without a multiplier is called "bitcoin".
  The bases are parameters because nothing but their
  relation to one another is used. A field whose length needs three words does not occur:
  the mint writes hashes, numbers and a short text.
- `Amounts`: `splitAmount` over the powers of two, of which keysets have those up to 2^23,
  change outputs, input fees in ppk, rounded up.
- What is a loop in the code is a recursive function here, with the loop's variables as a
  record, so that the proofs can unfold it.
- `Tokens`: blind signatures over a group of prime order `Order`, written
  additively, and which messages NUT-11 accepts a signature over.
- `WalletKeys`: which account signs which input; derivation is a constructor.

### Keysets

`KeyManager` over its table: `rows` (oldest first), `active`, `cipher`, the
cache, and calls with database and Cloud KMS between their steps. A keyset is
named by its input fee, since all else that goes into its id is fixed.
`Start` is `preloadActiveKeysets` in `server.ts`, under another fee or encryption
mode than the last process. `Create` upserts: a fee configured back to an
earlier value reactivates the old row, which keeps its place.

### Units

Which backend holds what a unit stands for, and the unit checks of the services.
One call at a time, since nothing here depends on two of them racing, with
`Deactivate` and `Reorg` between its steps. `Routes` and `Registrations` are
`initializeContainer`. The mint does lose backing; the model has these ways in which it does:

| Step | In the code | Counted in |
|---|---|---|
| `Pay`, a fee above what was charged | a Lightning fee above fee_reserve, more BTC inputs than estimated; a rune withdrawal charges nothing and its fee coin is one of the mint's own segwit address, which may also be MINT_BTC_ADDRESS (`FeePayer`) | `subsidy` |
| `PayUnanswered` | withdraw throws after the payment left, the proofs are given back (`MeltService.ts:303`) | `unnoticed` |
| `Reorg` | the block of a credited deposit goes (`MintService.ts:440`) | `unnoticed` |
| `BeginMelt` with `invoice` above `amount` | the amount in a request replaces the invoice's (`MeltService.ts:107`), withdraw pays the invoice | `overpaid` |
| `BeginMintAgain`, `SignMintAgain` | the poll of an ISSUED bolt11 quote writes PAID (`MintService.ts:585`) and it is signed again | `reissued` |

`Lost(b)` adds up those that can reach a backend. `UnitIsBacked` is that nothing else is lost,
and that runes are lost in two of these ways only: whatever goes wrong with fees, overrides and
second issues is paid in bitcoins. The fee of a rune transaction counts against the btc backend as far as
its coins pay it; a fee of 0 is the operator's own coin.

### Monitor, Subscriptions, ConnectionPool

- `Monitor`: which quotes a run of the DepositMonitor looks at (the newest
  `BatchSize` UNPAID rows, expired ones filtered afterwards), overlapping runs,
  errors that end a look and not the run, start and stop.
- `Subscriptions`: one socket with one subId. Changes of an item are `Loud` (a
  notification is published later) or `Silent`; `subscribe` registers, then reads
  and sends initial states. `Crash` covers a rejected read, which nothing catches.
  `heard` and `published` count versions, because a mint quote's
  notification may be older than the row.
- `ConnectionPool`: `mintTokens` holds one connection with the row lock and asks
  for another; connect times out (`GiveUp`), a row lock does not.

### Migrations, CertificateStore, AccessTokens, AuditMonitor

- `Migrations`: files in order, the backfill from the legacy table, two instances
  that start together and stop anywhere. Its two reads are one step.
- `CertificateStore`: restore at start, and the watch loop of two
  instances that overlap during a deployment; archiving is external.
- `AccessTokens`: the kept token against time; its assumption is that an answer
  and a request together take no more than the margin of 60 s. Nothing in the code enforces
  it: the requests have no timeout. A static GOOGLE_OAUTH_ACCESS_TOKEN is not modelled.
- `AuditMonitor`: the window of a run (24 h lookback, baseline) against late
  entries and failed runs; its assumption is that failures in a row and the delay of
  the log fit into the lookback.

## 3. Runs

| Run | Question | Result |
|---|---|---|
| MintFree | one amountless UNIT quote with three deposits (1, 2, 1), a bolt11 quote, two requests, a reorganisation, a withdrawal: are counters, state, outpoint and claims consistent, and is no invoice signed unsettled? | StateMatchesLedger, NeverOverIssued, PaidIsClaimed, OutpointIsFirstClaim, BackedByInvoice, ImplementsLedger, IssuedIsFinal hold |
| MintShared | two legacy quotes and an amountless one on the shared address, three deposits: who gets which? | MintedAtMostOnce, FixedUnitIsPaid, ClaimedWherePaid, AmbiguousNeverCredited hold |
| MintPolled | wallets poll an amountless UNIT quote with two deposits of different value, and two sat quotes on one address with one: does a quote that was paid become PAID? | PaidQuoteIsCredited holds |
| Melts | a bolt11 and an onchain quote, three proofs, two requests that may die anywhere, lost answers and retries | OneOwner, SettledIsCovered hold |
| MeltAndSwap | two quotes for one invoice, a legacy quote and a swap on the same proofs, commits may be unanswered | PaidOnce, PaidIsCovered, ImplementsRedemption hold |
| MeltResolves | no deaths, no lost answers: are proofs taken for a quote paid out or given back? | LockResolves, UnpaidIsClean hold |
| Reserve | a deposit on the mint's address and an old one on a quote's, two withdrawals that may want the same coins, die anywhere and lose the answer of the broadcast, a sync with old answers | SpentRowIsSpent, SpentStaysSpent, AffordableIsSelected, ImplementsTreasury, LostReturnIsFound, WithdrawalGoesOut hold |
| Services | the pure functions on bounded arguments, keysets, migrations, units, tokens, audit, a socket | TransactionsBalance, CodecsRoundTrip, ChangeAddsUp, InputsAreGenuine, KeysMatchCoins, RetiredAfterRestart, AppliedOnceInOrder, UnitIsBacked, TokenIsValid, NothingIsMissed, Informed hold |
| Daemons | the parts that owe something in the end: socket, pool, monitor, certificates | EachFilterIsAnswered, EveryCallEnds, DueQuotesAreLookedAt, LastStorageIsKept hold |
| BoltReissue | is a bolt11 quote minted once? | **violated**: MarkPaid takes ISSUED back to PAID |
| MeltLostReply | is a released quote unpaid? | **violated**: withdraw threw after the broadcast |
| KeyMigration | does a mint switched from local encryption to Cloud KMS start, its local key still configured? | **violated**: the key is only kept in local mode, the preload throws |

Every property of a passing run has a mutant: a plausible bug in the code's
translation that makes TLC report the property. The mutants are operators in
the modules, next to the definitions they replace.

*Bounds.* Two requests in flight suffice for a race over a row; a third could
only repeat one of the two roles (reader of a stale row, writer in between),
since every guard after the first read is taken inside one transaction. Three
deposits of two different values let a quote be credited, issued, credited again
and issued again with deposits that match the amount and one that does not. Two
proofs suffice for two redemptions to compete or for one retry after a lost
commit, three for retries of two quotes. Each proof is worth 3 and each payment 1 with a reserve of
1 and a fee of 1, so that a fee of 0 leaves change. `Symmetry` is over handlers and
proofs, which no definition tells apart, and in `MintFree` over the two deposits of one value
(`SymmetryFree`; the third is the one that a reorganisation and a withdrawal may hit); it is not used in liveness runs.

`MintPolled` has one handler, which all three quotes share: what can keep a deposit from being
credited is what earlier polls left behind (a tracked outpoint, a fixed amount), not a race.
Its withdrawals and reorganisations are off, since a deposit that is spent or gone before
the claim is never credited. The bolt11 quote is in `MintFree`: liveness of an invoice is one
poll.

The reserve has deposits of 2 and 1 and withdrawals of 1 and 2: the large one
needs what the small one wants, or the small one's return output. `Units` has at most
two units of money in a backend, amounts up to 2 and one unit of losses of any kind
(`MaxLost`): each kind is a step of its own, and the proof is without the bound. The pool
has three calls on two connections and two rows, so that all connections can be
held by calls that want another one, or that wait for a row. The monitor has three quotes
and a batch of two; one run of it at a time suffices for liveness, since
runs share nothing. The socket has two filters, two calls of subscribe and two
changes of each other's items in `Services`, one in `Daemons`, where the question is only whether
an answer comes. Keysets have two fees, a change back and forth; two
calls; migrations three files and two instances. The audit monitor runs seven times with a
lookback of 4, two failures in a row and `LogDelay = 2`: an event may reach the log only
after the run of its own interval, and two runs after that fail, the widest gap that is still covered.
The arguments of the pure functions (`MCServices`) lie on both sides of every
threshold in the code: dust, the price of an input, 2^23, the widths of a
varint, of a tag's length and of an invoice's unit. `LengthByte` is 32 there, which the longest payload
of two edicts does not reach.

*Deadlock.* A mint quote can always be polled again, so deadlock is checked in
the minting runs. Elsewhere the system may simply stop, a request that is
over, a pure call that has its answer, a counter at its bound: `CHECK_DEADLOCK FALSE`.

*Fairness.* `Progress`: blocks are mined; every await resolves or throws (weak
fairness of a handler's next step, `Fail` included, because Node resumes every
settled promise and the HTTP and database clients have timeouts); and for a quote that is looked at again and again, not every look and not every claim throws
(strong fairness of `Check` and of the claim, for each handler and quote). It says nothing of a single
deposit: which of the matching outputs a backend answers with is its own order. `Polled` is a wallet that
keeps asking. `FairSpec` of Spending only assumes the second; that of RuneReserve
that blocks are mined, the sync runs every minute and the insert of an output
does not fail for ever, and, for `WithdrawalGoesOut`, that the steps of a call go on and that of a
withdrawal tried again and again not every selection that could be made, and not every broadcast that the
node would accept, throws. Between them others may take the coins, as often as they have some left to send. `PoolFairness`: timers fire, queries are answered, a row is
handed to its waiters (strong, since others may take it in between). `MonitorFairness`: the interval fires and
a backend answers or throws. `StoreFairness`: the loop goes on, and adding a version does
not fail for ever. `SubscriptionsFairness`: queries are answered.

## 4. Proofs

Every safety property that a passing run checks is a theorem; what is left to TLC is liveness.
A theorem holds for all values of the constants that the named assumptions of
the modules allow: any number of quotes, deposits, proofs, requests, items and keysets, any
amounts. None of the proofs uses the bounds of the runs.

### DataTheorems: sums, recursion, remainders, sequences

The library's induction theorems take an operator as a parameter and cannot be instantiated
here, and a recursive function is a CHOOSE of which nothing is known before it is shown to
exist. This module gets around both without an operator parameter.

- *Sums.* Amounts are added up with `MapThenSumSet`, a fold. `SumOver(f, S)` names it, and the
  lemmas say what it yields for every finite set: zero for the empty set, one value more
  for one element more (`SumAdd`), one less for one less (`SumRemove`), the sum
  of the parts (`SumSplit`), equal sums for equal values (`SumEqual`), sums of sums (`SumPlus`).
  The induction is by smallest counterexample (`SmallestSet`): if a
  formula fails for some subset of S, it fails for one that fails for no subset with an
  element less, and the fold's recursion (`RecursionExists`, `SumUnfold`) leads from there to
  a contradiction.
- *Recursion along a path.* A loop leads from each state to the next one, and something
  shrinks (`Shrinks`). The domain, the states where it stops, the next state and
  the value are functions and sets, never operators. `PathFunction`: then there is a function
  that obeys the recursion, in the range that base and step stay in (`Stays`). `PathInduction`:
  a set that holds the states where the loop stops, and each state whose
  successor it holds, holds all of them. To prove a formula for all arguments, take the
  set of those that satisfy it. The functions agree on what they share (`PathAgrees`), so
  the union of those along single paths is one for all (`PathRecursion`).
- *Remainders.* Quotient and remainder by any positive number are unique (`ModUnique`).
- *Sequences.* What `FlattenSeq` yields (`FlattenIs`), and when a piece lies in a
  sequence (`LiesAt`, `LiesSplit`): the piece an encoder wrote is where the decoder looks.

### MintQuotes_proofs

For any quotes, deposits, addresses, amounts, requests and reorganisations allowed
by `ConstantsAssumption`:

- `TypeCorrect`: `TypeOK`. Its last two conjuncts (a request in flight has a quote, a
  request about to claim has a deposit) are what makes it inductive.
- `LedgerCorrect` and `StateCorrect`: `NeverOverIssued` and `StateMatchesLedger`. They are
  inductive together (`LedgerInv`), with `JobsInv`: a request at the row lock asks for a
  positive sum.
- `ClaimsCorrect`: `ClaimedWherePaid`. The inductive invariant `ClaimsInv` says of the
  request in flight what the property says of the table: the deposit in its hand
  *fits* the quote, although the quote was read several steps ago. It rests on
  `amount` never changing once it is positive.
- `FixedUnitCorrect`: `FixedUnitIsPaid`, and that such a quote is minted at most once.
  `FixedInv`: a request that reached the lock left the quote credited, and ISSUED is
  never left. `MintedOnceCorrect` extends it: where no quote is bolt11, `MintedAtMostOnce`. The
  hypothesis is needed: `BoltReissue` shows a bolt11 quote minted twice.
- `IssuedFinal`: the action property `IssuedIsFinal`, from `LedgerInv` and `FixedInv`.
- `OutpointCorrect`: `OutpointIsFirstClaim`. `OutpointInv`: as long as nothing was credited
  a quote has its first amount and no outpoint, afterwards the outpoint is the deposit whose
  value is the amount; with `ClaimsInv` it belongs to the quote.
- `AmbiguousCorrect`: `AmbiguousNeverCredited`. `VagueInv`: only the monitor's visits
  reach such a quote, and they are told of no deposit, so none of them gets past the check.
- `InvoiceCorrect`: `BackedByInvoice`. `InvoiceInv`: a request on a bolt11 quote beyond the
  check has a settled invoice behind it. It assumes that LNbits never takes a settled invoice
  back (`InvoicesStaySettled`; the property of a reorganisation or withdrawal is one of
  deposits on chain).
- `PaidCorrect`: `PaidIsClaimed`. `PaidInv` adds that only finitely many
  rows were ever inserted, so that the sum exists; a claim adds one deposit to it (`SumAdd`),
  the credit of the same step adds its value to `amount_paid`.
- `LedgerImplemented`: `ImplementsLedger`, from all of these (`ImplementInv`). `ClaimDeposit` maps
  to a deposit that starts to back a quote, `IssueOnchain` and `IssueFixed` map to a signature that the
  deposits cover, everything else to a stutter. It is about onchain and UNIT quotes: a bolt11
  quote claims no deposits.

### Spending_proofs

For any quotes, swaps, proofs, amounts, fees, any number of
requests in flight, deaths and lost commits, from the assumptions of ProofStore, Melt,
Swap and Spending (`Worth` is additive, ids of melts and swaps differ):

- `TypeCorrect`: `TypeOK`, together with `SwapPays` (a swap's inputs cover its fee).
- `OwnerCorrect`: `OneOwner`. It is inductive on top of the types: a claim needs UNPAID, a
  request at work means PENDING, and the request that takes PENDING back is at work on it.
- `SettledCorrect`: `SettledIsCovered`, whichever replies get lost. The inductive
  invariant `CoverInv` follows the proofs of a request from `Mark` to `Settle`: they are
  held, they cover amount and reserve, and the change in its hand fits what is left.
- `PaidOnceCorrect` and `PaidCorrect`: `PaidOnce` and `PaidIsCovered`, assuming
  `"payment" \notin Lossy`, that is, that a withdraw that throws did not pay. The assumption
  is needed: `MeltLostReply` shows the code without it. `PaymentsInv` is inductive: a quote
  was paid at most once, a paid quote is never UNPAID again, a request before its payment
  works on an unpaid quote, and of two quotes for one invoice one is UNPAID.
- `CleanCorrect`: `UnpaidIsClean`, assuming `Lossy = {}`. `CleanInv`: an UNPAID quote holds
  nothing, and neither does one whose request is about to mark or to release it. Deaths are
  allowed, unlike in the run: a request that dies leaves its quote PENDING. A lost
  commit breaks `CleanInv`: `MarkUnanswered` goes to the release with the proofs inserted.
- `RedemptionCorrect`: with `"payment" \notin Lossy`, Spending implements `Redemption`. The
  refinement mapping (`BurnedBy`, `Payout`) sees a proof as burned once its payment left or
  its swap was signed. `SwapInv` adds that a swap holds its inputs until it has
  signed. `Withdraw` and `SignOutputs` map to `Redeem`, `SignChange` to `Return` or, when
  nothing is signed, to a stutter, every other step to a stutter (`RedeemStep`).

### RuneReserve_proofs

For any deposits, withdrawals and amounts allowed by `ReserveAssumption`:

- `TypeCorrect`: `TypeOK`: what is mined is known to the node.
- `SpentRowCorrect` and `SpentStays`: `SpentRowIsSpent` and `SpentStaysSpent`. The inductive
  invariant `RowsInv` adds `Marking`: what a call has still to mark is all of its inputs
  before the broadcast, and is spent on the chain after it (`SpenderStays`).
- `TreasuryImplemented`: `ImplementsTreasury`. `CoinsInv`: finitely many transactions are
  known, and a call that has not broadcast holds coins that cover its amount. A broadcast that the node
  accepts takes the coins out and adds the return output, so the reserve sinks by
  the amount (`SumSplit`, `SumAdd`); a deposit raises it; the rest are stutters.
- `AffordableCorrect`: `AffordableIsSelected`. From a finite set that is worth enough, a set
  at which `selectUtxos` stops can be picked: of its subsets that cover the amount, a smallest one.

### Calls_proofs

For any arguments that the callers pass (`ArgumentsAssumption`). A step of `Calls` answers
once, with the value of one function, so that each invariant is a lemma about that function
(`PaymentsInv`: the answer is the value).

- `TransactionsCorrect`: `TransactionsBalance`. That the largest-first loop finds funds whenever
  any choice of coins pays is not obvious, as each coin costs a fee of its own, which may
  exceed its value. `TakenOfSize`: the loop passes a set of every size. `TakenIsMost`:
  none of that size is worth more (what differs is bounded from both sides, `SumAtLeast`
  and `SumAtMost`), and the fee depends on the size only. `FirstRound`: it stops at the smallest that
  pays. The PSBT's inputs and outputs are added up coin by coin (`InputsAddUp`, `OutputsAddUp`).
- `GenuineCorrect`: `InputsAreGenuine`. `UnblindSigned`: unblinding leaves the key times the
  point of the secret; `TimesInjective`: in a group of prime order another key yields another
  point. It assumes that the keys of a keyset differ: `generateKeyset` hashes the
  amount into each. `LocksOpened`
  is about NUT-11: one signature opens all SIG_ALL locks because they are the same lock.
- `KeysCorrect`: `KeysMatchCoins`. `RowsNameKeys`: a row either names the account of its
  address, or is an old one of a deposit to a quote's address, which the claim tells; account
  0 is never a quote's on the rune side.

- `ChangeCorrect`: `ChangeAddsUp`, from the lemmas of Codecs_proofs about change and `SumOfIs`.
- `CodecsCorrect`: `CodecsRoundTrip`, from those about prefixes, fields and runestones.

### Codecs_proofs: digits, varints, words

For amounts, numbers and sequences of any size, any base of a digit and of a word.

- Change (`ChangeIs`). `IsDigits` says what a round of `splitAmount` has to find: powers of two
  that add up to the amount, each larger than all behind it together. `EvenDigits` and
  `OddDigits` are the two kinds of round. Hence what is cut off for want of blank
  outputs is less than any output that remains, and a wallet's ceil(log2) outputs are enough.
- Runestones (`RunestoneRead`). A varint that lies anywhere in the bytes is read as its number,
  up to the place behind it; so are an edict's four, and the ids add up again;
  so are, from the last one back, all edicts.
- Prefixes (`HrpRead`, `PaymentRead`). The prefix of an invoice of the mint is read as the amount by
  `parsePrefix`, and by `decodeBolt11AmountSats` of MeltService unless it names whole bitcoins: there the
  pattern takes the separator for a digit. Whatever else it reads is exactly what the prefix names.
- Fields (`TagsRead`). The two words of length say where the next field begins, so that fields
  of unknown codes are stepped over and the others come back in order. It needs the
  assumption that a length fits in two words.

### One component, one theorem

- `Units_proofs`, `BackedCorrect`: `UnitIsBacked`. The property speaks of the state between
  calls; `Backed` adds what the call in progress owes (`Owed`: its inputs from the moment they are
  spent, its change once it is paid), and `OrderInv` keeps what the checks at its
  start found: inputs and outputs of one unit, enough of them, and of a rune withdrawal that it pays what
  it charges and charges no fee. `PayKeeps` is the heart: what a payment takes (`Outflow`) is at most what its
  inputs bring, plus the fee above the reserve, plus the invoice above the amount, each
  counted where it falls. `PayUnansweredKeeps` and `ReorgKeeps`: what goes is counted in full.
- `Services_proofs`, `InformedCorrect`: `Informed`. `ToldOrDue`: what a subscriber of an
  item has not heard, some call has still to read, or has read and not sent yet.
- `Services_proofs`, `RetiredCorrect` and `SignedCorrect`: `RetiredAfterRestart`, and that a key only
  signs with its row in the table (`SignedHasRow`). `KeysetsInv` says of a copy in the hand of a
  call, and of the cache, that its row exists, and that it was active
  in this process if the copy says so; `deactivateKeyset` does not disturb that.
- `Services_proofs`, `TokenValid`: `TokenIsValid`. The mint believes a kept token lives longer than it
  does, by at most `AnswerDelay` (`TokensInv`); the margin absorbs that and the way to KMS.
- `Services_proofs`, `NothingMissed`: `NothingIsMissed`. An unreported event is at most `LogDelay` and the
  failures since then old (`DueInTime`), which is within the lookback.
- `Services_proofs`, `AppliedInOrder`: `AppliedOnceInOrder`. The legacy table names exactly what was applied, a
  prefix of the files, and an instance that is past its backfill lists all that is not recorded.

### Only model-checked

Liveness, which the prover cannot do: `PaidQuoteIsCredited`, `LockResolves`,
`LostReturnIsFound`, `WithdrawalGoesOut`, `EachFilterIsAnswered`, `EveryCallEnds`, `DueQuotesAreLookedAt` and
`LastStorageIsKept`.

## 5. Findings

The violated runs are disagreements between the code and what its comments,
tests or documents say; `PROJECT.json` quotes both sides of each.

Some behaviour is known and has no run of its own, because no line of the repository
promises otherwise; the hazards list describes it.

- A swap that dies between marking and signing loses its inputs (`SwapService.ts:64`).
- A melt that dies, or whose publish or revert throws, between claim and settlement stays PENDING
  (`MeltService.ts:277`): `LockResolves` is checked without deaths.
- An onchain quote that was credited is still minted after a reorganisation took its deposit back
  (`MintService.ts:440`); `Units` counts it.
- A second deposit to one quote (`QuoteRepository.ts:190`), a deposit that a withdrawal spends before
  its quote claims it (`BTCBackend.ts:292`) and an invoice that the newest 100 payments push out
  (`LNbitsBackend.ts:129`) are never credited.
- Change of 2^24 or more contains an output that no keyset can sign (`MeltService.ts:475`):
  `ChangeAddsUp` is stated for amounts below.
- A keyset that was deactivated signs on in a process that loaded it late (`KeyManager.ts:327`), and
  becomes active again when its fee is configured again (`KeysetRepository.ts:11`): `RetiredAfterRestart`
  takes the first to end at the restart, and the second as an activation.
- UNPAID quotes beyond the newest 50 are not looked at (`DepositMonitor.ts:98`): `DueQuotesAreLookedAt`
  speaks of those in the batch.
- What a socket is sent may be older than what it was sent before, as a state that was read before a
  notification is sent after it (`ws.ts:140`): `Informed` says that the newest published state arrives,
  not that it is the last. A read that fails ends the process, and with it every filter (`ws.ts:152`).

## 6. Not modelled

- Verification of one signature, hashing, elliptic curves, AES,
  bech32 checksums: byte-level and stateless; where a property needs them they are constructors
  that tell their arguments apart.
- HTTP routes, dashboard, mint info, configuration, logging: validation and
  formatting of requests that the models take as given.
- Attestation, build and verification scripts, end-to-end tests: straight-line programs
  that gather and print documents, or drive the mint from outside.
- FakeLightningBackend (a test double) and SchnorrSignature (no caller).
- Several processes on one database: `ecosystem.config.cjs` starts one instance, and the
  models of the requests assume nothing else writes the tables; only Migrations has two.
- Two BTC withdrawals that select the same coins: the node refuses the second, and the
  backend keeps no table of its own.
- An eviction from the mempool, and confirmations that are counted rather than reached.
