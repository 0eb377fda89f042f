-------------------------------- MODULE Services --------------------------------
(***************************************************************************)
(* Parts of the system that share no state with one another nor with the    *)
(* quotes and proofs, for one run.  As none of them can see another,        *)
(* nothing is lost by letting one of them run: the variable service names   *)
(* it, and the others stay in one of their initial states.                  *)
(***************************************************************************)
EXTENDS Calls, Keysets, Migrations, Units, AccessTokens, AuditMonitor, Subscriptions

VARIABLE service

NoCall == [fn |-> "none", args |-> <<>>]

ServicesInit ==
  /\ service \in {"calls", "keysets", "migrations", "units", "tokens", "audit", "subscriptions"}
  /\ IF service = "calls" THEN CallsInit ELSE call = NoCall /\ answer = NoAnswer
  /\ KeysetsInit /\ MigrationsInit /\ UnitsInit /\ TokensInit /\ AuditInit
  /\ SubscriptionsInit
  /\ service # "migrations" => legacy = {}
  /\ service # "tokens" => mode = "gcp-kms"
  /\ service # "audit" => baseline = 0
  /\ service # "subscriptions" => kind = "proof_state"

ServicesNext ==
  \/ /\ service = "calls" /\ CallsNext
     /\ UNCHANGED <<service, keysetVars, migrationVars, unitVars, tokenVars, auditVars,
                    subscriptionVars>>
  \/ /\ service = "keysets" /\ KeysetsNext
     /\ UNCHANGED <<service, callVars, migrationVars, unitVars, tokenVars, auditVars,
                    subscriptionVars>>
  \/ /\ service = "migrations" /\ MigrationsNext
     /\ UNCHANGED <<service, callVars, keysetVars, unitVars, tokenVars, auditVars,
                    subscriptionVars>>
  \/ /\ service = "units" /\ UnitsNext
     /\ UNCHANGED <<service, callVars, keysetVars, migrationVars, tokenVars, auditVars,
                    subscriptionVars>>
  \/ /\ service = "tokens" /\ AccessTokensNext
     /\ UNCHANGED <<service, callVars, keysetVars, migrationVars, unitVars, auditVars,
                    subscriptionVars>>
  \/ /\ service = "audit" /\ AuditNext
     /\ UNCHANGED <<service, callVars, keysetVars, migrationVars, unitVars, tokenVars,
                    subscriptionVars>>
  \/ /\ service = "subscriptions" /\ SubscriptionsNext
     /\ UNCHANGED <<service, callVars, keysetVars, migrationVars, unitVars, tokenVars,
                    auditVars>>

ServicesSpec ==
  ServicesInit /\ [][ServicesNext]_<<service, callVars, keysetVars, migrationVars, unitVars,
                                     tokenVars, auditVars, subscriptionVars>>
=============================================================================
