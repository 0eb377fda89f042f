------------------------------ MODULE AuditMonitor ------------------------------
(***************************************************************************)
(* The scheduled monitor of the audit log: every six hours a run lists the  *)
(* sensitive admin events of the last day, but none from before the         *)
(* baseline, and reports those nobody was meant to cause.  Runs fail, and   *)
(* entries reach the log late.  Time is counted in intervals of the         *)
(* schedule.                                                                *)
(***************************************************************************)
EXTENDS Naturals, FiniteSets

CONSTANTS
  Lookback,     \* AUDIT_LOOKBACK_MINUTES
  LogDelay,     \* intervals until an event is in the log at the latest
  MaxFailures,  \* bound: runs that fail in a row
  MaxRuns,      \* bound
  MaxEvents     \* bound

ASSUME AuditMonitorAssumption ==
  /\ {Lookback, LogDelay, MaxFailures, MaxRuns, MaxEvents} \subseteq Nat
  /\ LogDelay > 0 /\ MaxFailures + LogDelay <= Lookback

VARIABLES
  interval,   \* of the schedule; a run ends it
  baseline,   \* AUDIT_BASELINE_TIME
  delayed,    \* events that are not in the log yet
  logged,     \* those that are
  reported,   \* history: events some run reported
  failures    \* runs that failed since the last one that did not

auditVars == <<interval, baseline, delayed, logged, reported, failures>>

AuditInit ==
  /\ interval = 0 /\ baseline \in 0 .. 1
  /\ delayed = {} /\ logged = {} /\ reported = {} /\ failures = 0

(* Who: a principal that is allowed, another one, or none, as the server's  *)
(* own identity has none.  What: a version of the ACME secret, something    *)
(* else that is sensitive, or something that is not.                        *)
Events == [at : {interval}, who : {"allowed", "other", "none"}, what : {"acme", "sensitive", "harmless"}]

Happen(e) ==
  /\ Cardinality(delayed \cup logged) < MaxEvents
  /\ e \notin delayed \cup logged
  /\ delayed' = delayed \cup {e}
  /\ UNCHANGED <<interval, baseline, logged, reported, failures>>

ReachLog(e) ==
  /\ e \in delayed
  /\ delayed' = delayed \ {e} /\ logged' = logged \cup {e}
  /\ UNCHANGED <<interval, baseline, reported, failures>>

SensitiveMethod(e) == e.what # "harmless"

(* The server adds versions of its ACME secret.                             *)
IsExpectedSystemEvent(e) == e.who = "none" /\ e.what = "acme"

Unexpected(e) == SensitiveMethod(e) /\ e.who # "allowed" /\ ~IsExpectedSystemEvent(e)

(* Mutant: a run looks back to the one before it. *)
SinceLastRun(now) == IF now - 1 > baseline THEN now - 1 ELSE baseline

(* The later one of the lookback and the baseline.                          *)
Since(now) == IF now > Lookback /\ now - Lookback > baseline THEN now - Lookback ELSE baseline

ListSensitiveAdminEvents(since) == {e \in logged : e.at >= since /\ SensitiveMethod(e)}

EndInterval ==
  /\ interval < MaxRuns
  /\ interval' = interval + 1
  /\ \A e \in delayed : interval' < e.at + LogDelay
  /\ UNCHANGED <<baseline, delayed, logged>>

Run ==
  /\ EndInterval
  /\ reported' = reported \cup {e \in ListSensitiveAdminEvents(Since(interval')) : Unexpected(e)}
  /\ failures' = 0

(* No token, or the log cannot be read: nothing is reported.                *)
RunFails ==
  /\ EndInterval
  /\ failures < MaxFailures /\ failures' = failures + 1
  /\ UNCHANGED reported

AuditNext == (\E e \in Events : Happen(e)) \/ (\E e \in delayed : ReachLog(e)) \/ Run \/ RunFails

AuditSpec == AuditInit /\ [][AuditNext]_auditVars

-----------------------------------------------------------------------------

(* An unexpected event that no run will list any more has been reported,    *)
(* also when it came into the log after the run of its interval and the     *)
(* next runs failed; what the server itself does is never reported.         *)
NothingIsMissed ==
  /\ \A e \in delayed \cup logged :
       Unexpected(e) /\ e.at >= baseline /\ e.at + Lookback < interval => e \in reported
  /\ \A e \in reported : ~IsExpectedSystemEvent(e)
=============================================================================
