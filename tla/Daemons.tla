-------------------------------- MODULE Daemons --------------------------------
(***************************************************************************)
(* As Services, for the parts that owe something in the end: the socket,    *)
(* the pool of connections, the deposit monitor and the loop that keeps the *)
(* certificates.                                                            *)
(***************************************************************************)
EXTENDS Subscriptions, ConnectionPool, Monitor, CertificateStore

VARIABLE service

DaemonsInit ==
  /\ service \in {"subscriptions", "pool", "monitor", "store"}
  /\ SubscriptionsInit /\ PoolInit /\ MonitorInit /\ StoreInit
  /\ service # "subscriptions" => kind = "proof_state"
  /\ service # "pool" => quoteOf = [c \in Calls |-> CHOOSE q \in LockedQuotes : TRUE]

DaemonsNext ==
  \/ /\ service = "subscriptions" /\ SubscriptionsNext
     /\ UNCHANGED <<service, poolVars, monitorVars, storeVars>>
  \/ /\ service = "pool" /\ PoolNext
     /\ UNCHANGED <<service, subscriptionVars, monitorVars, storeVars>>
  \/ /\ service = "monitor" /\ MonitorNext
     /\ UNCHANGED <<service, subscriptionVars, poolVars, storeVars>>
  \/ /\ service = "store" /\ StoreNext
     /\ UNCHANGED <<service, subscriptionVars, poolVars, monitorVars>>

(* Each component under its own fairness; in an initial state of the others *)
(* nothing fair is enabled.                                                *)
DaemonsSpec ==
  /\ DaemonsInit /\ [][DaemonsNext]_<<service, subscriptionVars, poolVars, monitorVars, storeVars>>
  /\ SubscriptionsFairness /\ PoolFairness /\ MonitorFairness /\ StoreFairness
=============================================================================
