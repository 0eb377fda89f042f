----------------------------- MODULE Subscriptions -----------------------------
(***************************************************************************)
(* A WebSocket with one subscription: quotes or proofs change in the        *)
(* database, some of the changes are published afterwards, and a call of    *)
(* subscribe reads the present state of each filter and sends it later.     *)
(***************************************************************************)
EXTENDS Naturals, Sequences, SequencesExt, FiniteSetsExt

CONSTANTS
  Items,       \* quotes, or Y values of proofs
  MaxChanges,  \* bound: changes of all items
  Flows        \* calls of subscribe that may overlap

ASSUME SubscriptionsAssumption == MaxChanges \in Nat /\ Items # {} /\ IsFiniteSet(Items)

VARIABLES
  kind,       \* of the items
  state,      \* of an item in the database
  version,    \* how often it changed
  untold,     \* items whose change is committed and not published yet
  open,       \* the socket, readyState
  filters,    \* what is subscribed to; none: {}
  flow,       \* [todo, got]: filters to read and states to send
  heard,      \* history: newest version received for a filter, 0 if none
  published   \* history: newest version published

subscriptionVars == <<kind, state, version, untold, open, filters, flow, heard, published>>

Done == [todo |-> <<>>, got |-> <<>>]
First == [bolt11_mint_quote |-> "UNPAID", bolt11_melt_quote |-> "UNPAID", proof_state |-> "UNSPENT"]

SubscriptionsInit ==
  /\ kind \in DOMAIN First
  /\ state = [i \in Items |-> First[kind]]
  /\ version = [i \in Items |-> 1]
  /\ untold = {}
  /\ open = FALSE /\ filters = {}
  /\ flow = [f \in Flows |-> Done]
  /\ heard = [i \in Items |-> 0]
  /\ published = [i \in Items |-> 1]

-----------------------------------------------------------------------------
(* The publishers.                                                          *)

(* getMintQuote finds the deposit; meltTokens takes the proofs, and pays;   *)
(* markSpent.                                                               *)
Loud == [bolt11_mint_quote |-> {<<"UNPAID", "PAID">>},
         bolt11_melt_quote |-> {<<"UNPAID", "PENDING">>, <<"PENDING", "PAID">>},
         proof_state       |-> {<<"UNSPENT", "SPENT">>}]

(* The deposit monitor credits, mintTokens issues; a failed melt is undone. *)
Silent == [bolt11_mint_quote |-> {<<"UNPAID", "PAID">>, <<"PAID", "ISSUED">>},
           bolt11_melt_quote |-> {<<"PENDING", "UNPAID">>},
           proof_state       |-> {<<"SPENT", "UNSPENT">>}]

(* A quote that was paid may be issued by another call before it is         *)
(* published; the proofs of a claimed melt quote may turn out to be spent,  *)
(* and then its claim is not published.  Otherwise the call that changes an *)
(* item publishes before it goes on.                                        *)
Change(i, to) ==
  /\ MapThenSumSet(LAMBDA j : version[j] - 1, Items) < MaxChanges
  /\ LET change == <<state[i], to>>
     IN \/ change \in Loud[kind] /\ i \notin untold /\ untold' = untold \cup {i}
        \/ /\ change \in Silent[kind]
           /\ \/ i \notin untold /\ UNCHANGED untold
              \/ kind = "bolt11_mint_quote" /\ i \in untold /\ UNCHANGED untold
              \/ kind = "bolt11_melt_quote" /\ i \in untold /\ untold' = untold \ {i}
  /\ state' = [state EXCEPT ![i] = to]
  /\ version' = [version EXCEPT ![i] = @ + 1]
  /\ UNCHANGED <<kind, open, filters, flow, heard, published>>

Newest(a, b) == IF a > b THEN a ELSE b

(* Mutant: a subscription takes effect when its initial states are sent. *)
HearsAfterState(i) == open /\ i \in filters /\ \A f \in Flows : flow[f] = Done

Hears(i) == open /\ i \in filters

(* onNotification.  A mint quote that was issued meanwhile is published as  *)
(* PAID, one version late.                                                  *)
Publish(i) ==
  /\ i \in untold
  /\ untold' = untold \ {i}
  /\ LET told == IF state[i] = "ISSUED" THEN version[i] - 1 ELSE version[i]
     IN /\ published' = [published EXCEPT ![i] = told]
        /\ heard' = IF Hears(i) THEN [heard EXCEPT ![i] = Newest(@, told)] ELSE heard
  /\ UNCHANGED <<kind, state, version, open, filters, flow>>

-----------------------------------------------------------------------------
(* The socket.                                                              *)

Connect ==
  /\ ~open /\ open' = TRUE
  /\ UNCHANGED <<kind, state, version, untold, filters, flow, heard, published>>

(* The subscription is in place before the first state is read; one with    *)
(* the same subId is replaced.                                              *)
Subscribe(f, wanted) ==
  /\ open /\ flow[f] = Done
  /\ filters' = wanted
  /\ flow' = [flow EXCEPT ![f] = [todo |-> SetToSeq(wanted), got |-> <<>>]]
  /\ heard' = [i \in Items |-> 0]
  /\ UNCHANGED <<kind, state, version, untold, open, published>>

Unsubscribe ==
  /\ open /\ filters # {} /\ filters' = {}
  /\ heard' = [i \in Items |-> 0]
  /\ UNCHANGED <<kind, state, version, untold, open, flow, published>>

Close ==
  /\ open /\ open' = FALSE
  /\ filters' = {} /\ heard' = [i \in Items |-> 0]
  /\ UNCHANGED <<kind, state, version, untold, flow, published>>

(* sendInitialState: quotes are read one by one, proofs by one query.       *)
Batch(todo) == IF kind = "proof_state" THEN todo ELSE <<Head(todo)>>

(* Mutant: a call waits until no other is reading. *)
ReadStateAlone(f) ==
  /\ \A g \in Flows \ {f} : flow[g] = Done
  /\ flow[f].got = <<>> /\ flow[f].todo # <<>>
  /\ flow' = [flow EXCEPT ![f].got = <<[item |-> Head(flow[f].todo),
                                        version |-> version[Head(flow[f].todo)]]>>]
  /\ UNCHANGED <<kind, state, version, untold, open, filters, heard, published>>

ReadState(f) ==
  /\ flow[f].got = <<>> /\ flow[f].todo # <<>>
  /\ flow' = [flow EXCEPT ![f].got =
                [n \in DOMAIN Batch(flow[f].todo) |->
                   [item |-> flow[f].todo[n], version |-> version[flow[f].todo[n]]]]]
  /\ UNCHANGED <<kind, state, version, untold, open, filters, heard, published>>

Rest(f) == SubSeq(flow[f].todo, Len(flow[f].got) + 1, Len(flow[f].todo))

(* What was read is sent under the subId, whether or not the subscription   *)
(* is still there.                                                          *)
SendState(f) ==
  /\ flow[f].got # <<>>
  /\ heard' = IF ~open THEN heard
              ELSE [i \in Items |->
                     IF \E p \in ToSet(flow[f].got) : p.item = i
                     THEN Newest(heard[i], (CHOOSE p \in ToSet(flow[f].got) : p.item = i).version)
                     ELSE heard[i]]
  /\ flow' = [flow EXCEPT ![f] = [todo |-> Rest(f), got |-> <<>>]]
  /\ UNCHANGED <<kind, state, version, untold, open, filters, published>>

(* The process ends.  It also does when a read fails, a quote that does not *)
(* exist for one: nothing catches the error of handleMessage.               *)
Crash ==
  /\ open' = FALSE /\ filters' = {} /\ untold' = {}
  /\ flow' = [f \in Flows |-> Done]
  /\ heard' = [i \in Items |-> 0]
  /\ UNCHANGED <<kind, state, version, published>>

SubscriptionsNext ==
  \/ \E i \in Items :
       Publish(i) \/ \E to \in {"PAID", "ISSUED", "PENDING", "UNPAID", "SPENT", "UNSPENT"} : Change(i, to)
  \/ Connect \/ Unsubscribe \/ Close \/ Crash
  \/ \E f \in Flows :
       ReadState(f) \/ SendState(f) \/ \E wanted \in SUBSET Items \ {{}} : Subscribe(f, wanted)

(* Queries are answered. *)
SubscriptionsFairness == \A f \in Flows : WF_subscriptionVars(ReadState(f) \/ SendState(f))

SubscriptionsSpec == SubscriptionsInit /\ [][SubscriptionsNext]_subscriptionVars /\ SubscriptionsFairness

-----------------------------------------------------------------------------

(* No change falls between the initial state and the notifications: once    *)
(* its initial states are sent, a subscriber has heard a state at least as  *)
(* new as the newest one published.                                         *)
Informed ==
  open /\ (\A f \in Flows : flow[f] = Done) =>
    \A i \in filters : heard[i] >= published[i]

(* Liveness: each filter of a subscription is answered with some state,     *)
(* unless the subscription or the socket goes.                              *)
EachFilterIsAnswered ==
  \A i \in Items : i \in filters ~> heard[i] > 0 \/ i \notin filters
=============================================================================
