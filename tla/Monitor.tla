------------------------------- MODULE Monitor --------------------------------
(***************************************************************************)
(* Which quotes the deposit monitor looks at: every interval it starts a    *)
(* run over the newest UNPAID quotes, whether or not the last run has       *)
(* ended.  What a look does to a quote is MintQuotes; here it pays it, does *)
(* nothing, or fails.                                                       *)
(***************************************************************************)
EXTENDS Naturals, Sequences, SequencesExt, FiniteSetsExt

CONSTANTS
  MaxQuotes,  \* bound: quotes, numbered in the order of created_at
  BatchSize,  \* config.batchSize
  Runs        \* bound: runs that may overlap

ASSUME MonitorAssumption == MaxQuotes \in Nat /\ BatchSize \in Nat \ {0}

VARIABLES
  quotes,   \* state of each quote that was created
  failing,  \* quotes whose backend's answer is an error, for now
  started,  \* isStarted of BackgroundTaskManager
  batch,    \* of each run: the quotes it still looks at
  looked    \* the quote looked at in this step, 0 if none

monitorVars == <<quotes, failing, started, batch, looked>>

Rows == 1 .. Len(quotes)

(* overdue: still UNPAID, but past its expiry or older than maxAge          *)
MonitorInit ==
  /\ quotes = <<>> /\ failing = {}
  /\ started = FALSE
  /\ batch = [r \in Runs |-> <<>>]
  /\ looked = 0

CreateQuote ==
  /\ Len(quotes) < MaxQuotes
  /\ quotes' = Append(quotes, "UNPAID") /\ looked' = 0
  /\ UNCHANGED <<failing, started, batch>>

(* Time passes; the other poller or a call of mintTokens finds the deposit. *)
Leave(q) ==
  /\ quotes[q] = "UNPAID"
  /\ \E to \in {"overdue", "PAID"} : quotes' = [quotes EXCEPT ![q] = to]
  /\ looked' = 0
  /\ UNCHANGED <<failing, started, batch>>

(* A backend is unreachable, or is reachable again. *)
Flip(q) ==
  /\ quotes[q] = "UNPAID"
  /\ failing' = IF q \in failing THEN failing \ {q} ELSE failing \cup {q}
  /\ looked' = 0
  /\ UNCHANGED <<quotes, started, batch>>

(* Start, and stop, which does not end a run; both do nothing a second time.*)
StartTasks ==
  /\ ~started /\ started' = TRUE /\ looked' = 0
  /\ UNCHANGED <<quotes, failing, batch>>

StopTasks ==
  /\ started /\ started' = FALSE /\ looked' = 0
  /\ UNCHANGED <<quotes, failing, batch>>

(* findMintQuotesByState: the rows are UNPAID, newest first, and counted    *)
(* before those overdue are left out.                                       *)
Pending == {q \in Rows : quotes[q] \in {"UNPAID", "overdue"}}
Newer(q) == {p \in Pending : p > q}
Selected == {q \in Pending : Cardinality(Newer(q)) < BatchSize /\ quotes[q] = "UNPAID"}

Tick(r) ==
  /\ started /\ batch[r] = <<>>
  /\ batch' = [batch EXCEPT ![r] = Reverse(SetToSortSeq(Selected, <))]
  /\ looked' = 0
  /\ UNCHANGED <<quotes, failing, started>>

BackendAnswers(r, q) ==
  /\ quotes' \in {quotes} \cup
       IF quotes[q] \in {"UNPAID", "overdue"} /\ q \notin failing
       THEN {[quotes EXCEPT ![q] = "PAID"]} ELSE {}
  /\ looked' = q /\ UNCHANGED <<failing, started>>

(* Mutant: an error is not caught before the end of the run. *)
LookUntilError(r) ==
  /\ batch[r] # <<>>
  /\ BackendAnswers(r, Head(batch[r]))
  /\ batch' = [batch EXCEPT ![r] = IF Head(@) \in failing THEN <<>> ELSE Tail(@)]

(* checkDeposit, and what follows; an error is logged, and the next quote   *)
(* is looked at.                                                            *)
Look(r) ==
  /\ batch[r] # <<>>
  /\ BackendAnswers(r, Head(batch[r]))
  /\ batch' = [batch EXCEPT ![r] = Tail(@)]

MonitorNext ==
  \/ CreateQuote \/ StartTasks \/ StopTasks
  \/ \E q \in Rows : Leave(q) \/ Flip(q)
  \/ \E r \in Runs : Tick(r) \/ Look(r)

(* The timer of setInterval fires; a backend answers or its call fails.     *)
MonitorFairness == \A r \in Runs : WF_monitorVars(Tick(r)) /\ WF_monitorVars(Look(r))

MonitorSpec == MonitorInit /\ [][MonitorNext]_monitorVars /\ MonitorFairness

-----------------------------------------------------------------------------

(* Liveness: while the monitor runs, a quote that is to be paid and has     *)
(* fewer than BatchSize UNPAID rows newer than itself is looked at again    *)
(* and again, whatever happens to the quotes before it in the batch.        *)
DueQuotesAreLookedAt ==
  \A q \in 1 .. MaxQuotes :
    []<>(looked = q \/ ~started \/ q \notin Rows \/ q \notin Selected)
=============================================================================
