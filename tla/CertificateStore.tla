--------------------------- MODULE CertificateStore ---------------------------
(***************************************************************************)
(* The ACME storage of the server's Caddy.  Its disk is lost with the       *)
(* instance, so a loop copies it into a secret, from which the next         *)
(* instance restores it.  During a deployment the old instance and the new  *)
(* one both run the loop.                                                   *)
(***************************************************************************)
EXTENDS Naturals

CONSTANTS
  Machines,         \* instances
  MaxCertificates,  \* bound: certificates issued, numbered; 0 is none
  Oversize          \* storages above --max-bytes

ASSUME CertificateStoreAssumption ==
  MaxCertificates \in Nat /\ Oversize \subseteq 1 .. MaxCertificates

VARIABLES
  up,        \* instances that run
  storage,   \* of each instance: the certificate in /data/caddy
  secret,    \* the latest version of the secret
  issued,    \* certificates issued so far
  archive    \* of each loop: what it is about to add, 0 if nothing

storeVars == <<up, storage, secret, issued, archive>>

StoreInit ==
  /\ up = {} /\ issued = 0 /\ secret = 0
  /\ storage = [m \in Machines |-> 0]
  /\ archive = [m \in Machines |-> 0]

(* restore, before Caddy starts; when it fails, Caddy starts with nothing.  *)
Restore(m) ==
  /\ m \notin up /\ up' = up \cup {m}
  /\ \E c \in {secret, 0} : storage' = [storage EXCEPT ![m] = c]
  /\ UNCHANGED <<secret, issued, archive>>

(* Caddy obtains or renews a certificate. *)
Obtain(m) ==
  /\ m \in up /\ issued < MaxCertificates
  /\ issued' = issued + 1
  /\ storage' = [storage EXCEPT ![m] = issued + 1]
  /\ UNCHANGED <<up, secret, archive>>

Terminate(m) ==
  /\ m \in up /\ up' = up \ {m}
  /\ storage' = [storage EXCEPT ![m] = 0]
  /\ archive' = [archive EXCEPT ![m] = 0]
  /\ UNCHANGED <<secret, issued>>

(* An empty storage is skipped, one that is too large is an error. *)
Archivable(c) == c # 0 /\ c \notin Oversize

(* Mutant: a secret that has a version is left as it is. *)
ChangedFirst(c) == secret = 0

(* Hashes of the archive and of the latest version. *)
Changed(c) == c # secret

(* snapshot: archive the storage and compare it with the latest version ... *)
Snapshot(m) ==
  /\ m \in up /\ archive[m] = 0
  /\ Archivable(storage[m]) /\ Changed(storage[m])
  /\ archive' = [archive EXCEPT ![m] = storage[m]]
  /\ UNCHANGED <<up, storage, secret, issued>>

(* ... and add a version; another instance may have added one meanwhile.    *)
AddVersion(m) ==
  /\ archive[m] # 0
  /\ secret' = archive[m]
  /\ archive' = [archive EXCEPT ![m] = 0]
  /\ UNCHANGED <<up, storage, issued>>

(* A request fails, which is logged; the loop goes on.                      *)
SnapshotFails(m) ==
  /\ archive[m] # 0
  /\ archive' = [archive EXCEPT ![m] = 0]
  /\ UNCHANGED <<up, storage, secret, issued>>

StoreNext ==
  \E m \in Machines :
    Restore(m) \/ Obtain(m) \/ Terminate(m) \/ Snapshot(m) \/ AddVersion(m) \/ SnapshotFails(m)

(* The loop goes on, and the requests do not fail every time.               *)
StoreFairness ==
  \A m \in Machines : WF_storeVars(Snapshot(m)) /\ SF_storeVars(AddVersion(m))

StoreSpec == StoreInit /\ [][StoreNext]_storeVars /\ StoreFairness

-----------------------------------------------------------------------------

(* Liveness: once the other instances are gone, the certificate of the one  *)
(* that stays is in the secret and remains there, whatever the others wrote *)
(* over it while they ran.                                                  *)
LastStorageIsKept ==
  \A m \in Machines :
    <>[](up = {m} /\ Archivable(storage[m])) => <>[](secret = storage[m])
=============================================================================
