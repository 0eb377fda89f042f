---------------------------- MODULE ConnectionPool ----------------------------
(***************************************************************************)
(* The pool of database connections under calls that lock a mint quote and  *)
(* may, inside the lock, query the pool a second time (the keyset and key   *)
(* lookups of KeyManager do not use the transaction's client).              *)
(***************************************************************************)
EXTENDS Naturals, Sequences, SequencesExt, FiniteSets

CONSTANTS
  Calls,        \* of mintTokens
  LockedQuotes, \* mint quotes
  MaxClients    \* pool.max

ASSUME ConnectionPoolAssumption == MaxClients \in Nat \ {0}

VARIABLES
  quoteOf,  \* the quote each call is about
  stage,    \* how far a call is
  pending   \* the pool's queue: calls waiting for a connection

poolVars == <<quoteOf, stage, pending>>

(* out, connect, begun: wants the row; locked; lookup: wants a second       *)
(* connection; reading: has it; rollback                                    *)
Connections(c) ==
  CASE stage[c] \in {"begun", "locked", "lookup", "rollback"} -> 1
    [] stage[c] = "reading" -> 2
    [] OTHER -> 0

InUse == FoldFunctionOnSet(+, 0, [c \in Calls |-> Connections(c)], Calls)
HasRow(c) == stage[c] \in {"locked", "lookup", "reading", "rollback"}

PoolInit ==
  /\ quoteOf \in [Calls -> LockedQuotes]
  /\ stage = [c \in Calls |-> "out"]
  /\ pending = <<>>

Go(c, from, to) == stage[c] = from /\ stage' = [stage EXCEPT ![c] = to]

(* pool.connect() and pool.query(): first come, first served.               *)
AskFirst(c) ==
  /\ Go(c, "out", "connect")
  /\ pending' = Append(pending, c) /\ UNCHANGED quoteOf

AskSecond(c) ==
  /\ Go(c, "locked", "lookup")
  /\ pending' = Append(pending, c) /\ UNCHANGED quoteOf

Serve ==
  /\ pending # <<>> /\ InUse < MaxClients
  /\ LET c == Head(pending)
     IN stage' = [stage EXCEPT ![c] = IF @ = "connect" THEN "begun" ELSE "reading"]
  /\ pending' = Tail(pending) /\ UNCHANGED quoteOf

(* Mutant: only the first connection is waited for with a timeout.          *)
GiveUpOutside(c) ==
  /\ c \in ToSet(pending) /\ stage[c] = "connect"
  /\ pending' = Remove(pending, c)
  /\ stage' = [stage EXCEPT ![c] = "out"]
  /\ UNCHANGED quoteOf

(* connectionTimeoutMillis: connect and query reject.  Inside a transaction *)
(* the error rolls it back.                                                 *)
GiveUp(c) ==
  /\ c \in ToSet(pending)
  /\ pending' = Remove(pending, c)
  /\ stage' = [stage EXCEPT ![c] = IF @ = "connect" THEN "out" ELSE "rollback"]
  /\ UNCHANGED quoteOf

(* SELECT ... FOR UPDATE waits without a timeout, holding its connection.   *)
LockRow(c) ==
  /\ \A d \in Calls : HasRow(d) => quoteOf[d] # quoteOf[c]
  /\ Go(c, "begun", "locked") /\ UNCHANGED <<quoteOf, pending>>

(* The second connection is released when its query ends.                   *)
LookedUp(c) == Go(c, "reading", "locked") /\ UNCHANGED <<quoteOf, pending>>

(* The callback throws.                                                     *)
Throw(c) == Go(c, "locked", "rollback") /\ UNCHANGED <<quoteOf, pending>>

(* COMMIT or ROLLBACK, then release.                                        *)
End(c) ==
  /\ Go(c, "locked", "out") \/ Go(c, "rollback", "out")
  /\ UNCHANGED <<quoteOf, pending>>

PoolNext ==
  \/ Serve
  \/ \E c \in Calls : AskFirst(c) \/ AskSecond(c) \/ GiveUp(c) \/ LockRow(c)
                      \/ LookedUp(c) \/ Throw(c) \/ End(c)

(* Timers fire and queries are answered; a callback asks a bounded number   *)
(* of times and comes to its end; the database hands a row to its waiters.  *)
PoolFairness ==
  /\ WF_poolVars(Serve)
  /\ \A c \in Calls : /\ WF_poolVars(GiveUp(c)) /\ SF_poolVars(LockRow(c))
                      /\ WF_poolVars(LookedUp(c)) /\ SF_poolVars(End(c))

PoolSpec == PoolInit /\ [][PoolNext]_poolVars /\ PoolFairness

-----------------------------------------------------------------------------

(* Liveness: however many calls wait inside a lock for a connection that    *)
(* others hold, every call comes to an end and releases its connections.    *)
EveryCallEnds == \A c \in Calls : stage[c] # "out" ~> stage[c] = "out"
=============================================================================
