-------------------------------- MODULE Keysets --------------------------------
(***************************************************************************)
(* KeyManager over the table of keysets, for one rune and unit.  The keys   *)
(* are derived from the seed, so the id of a keyset stands for its input    *)
(* fee.  Calls load rows into the cache, or create them, with the database  *)
(* and the encryption of the keys between their steps; the cache is lost    *)
(* with the process, and a new process may have another fee and another     *)
(* encryption.                                                              *)
(***************************************************************************)
EXTENDS Naturals, Sequences, SequencesExt

CONSTANTS
  Fees,       \* input fees that are configured in turn
  Modes,      \* subset of {"local", "kms"}: KEY_ENCRYPTION_MODE
  Requests    \* concurrent calls

ASSUME KeysetsAssumption == Fees # {} /\ Modes # {} /\ Modes \subseteq {"local", "kms"}

VARIABLES
  rows,        \* keysets in the table, the oldest first
  active,      \* those whose row is active
  cipher,      \* how the private keys of a row are encrypted
  keysetCache, \* copies of rows with decrypted keys
  status,      \* of the process: "down", "up", or "refused" to start
  config,      \* its fee and mode
  request,     \* what a call is about to do
  signed,      \* history: keysets this process signed with
  met          \* history: keysets that were active while this process ran

keysetVars == <<rows, active, cipher, keysetCache, status, config, request, signed, met>>

Idle == [op |-> "none", step |-> "idle", id |-> CHOOSE f \in Fees : TRUE, todo |-> {}]
NoCache == [k \in Fees |-> "none"]

KeysetsInit ==
  /\ rows = <<>> /\ active = {}
  /\ cipher = [k \in Fees |-> CHOOSE m \in Modes : TRUE]
  /\ keysetCache = NoCache
  /\ status = "down"
  /\ config = [fee |-> CHOOSE f \in Fees : TRUE, mode |-> CHOOSE m \in Modes : TRUE]
  /\ request = [r \in Requests |-> Idle]
  /\ signed = {} /\ met = {}

-----------------------------------------------------------------------------
(* KeyEncryptor: the mode decides how keys are encrypted, the prefix of a   *)
(* row how they are decrypted.                                              *)

(* The constructor keeps ENCRYPTION_KEY in one mode only.                   *)
HasLocalKey(mode) == mode = "local"

CanDecrypt(copy, mode) == copy.cipher = "local" => HasLocalKey(mode)

-----------------------------------------------------------------------------
(* Reading rows.                                                            *)

Copy(k) == [id |-> k, active |-> k \in active, cipher |-> cipher[k]]

(* findActive.  Loops and limits take the newest of the copies first. *)
FindActive == {Copy(k) : k \in active}

Place(k) == CHOOSE i \in DOMAIN rows : rows[i] = k
IsNewest(copy, copies) == \A other \in copies : Place(other.id) <= Place(copy.id)

Flag(copy) == IF copy.active THEN "active" ELSE "inactive"

(* Where a loop over copies decrypts next: it skips the cached ones.        *)
Uncached(copies, cached) ==
  {copy \in copies : \E left \in copies : cached[left.id] = "none" /\ Place(copy.id) <= Place(left.id)}

Goto(r, step, todo) == request' = [request EXCEPT ![r].step = step, ![r].todo = todo]
Finish(r) == request' = [request EXCEPT ![r] = Idle]

Fill(r, copies) ==
  LET todo == Uncached(copies, keysetCache)
  IN IF todo = {} THEN Finish(r) ELSE Goto(r, "decrypt", todo)

Begin(r, op, k) ==
  /\ status = "up" /\ request[r] = Idle
  /\ request' = [request EXCEPT ![r] = [op |-> op, step |-> "read", id |-> k, todo |-> {}]]
  /\ UNCHANGED <<rows, active, cipher, keysetCache, status, config, signed, met>>

Step(r, op, step) == request[r].op \in op /\ request[r].step = step

(* Mutant: whether the keyset is active is not looked at. *)
SignedByCopyUnchecked(k, flag) == {k}

(* getPrivateKey throws for an inactive copy. *)
SignedByCopy(k, flag) == IF flag = "active" THEN {k} ELSE {}

(* getPrivateKey and getPublicKeys: the cached copy if there is one, else   *)
(* the row, which is cached as it was read.                                 *)
GetPrivateKey(r, k) ==
  \/ /\ status = "up" /\ request[r] = Idle /\ keysetCache[k] # "none"
     /\ signed' = signed \cup SignedByCopy(k, keysetCache[k])
     /\ UNCHANGED <<rows, active, cipher, keysetCache, status, config, request, met>>
  \/ keysetCache[k] = "none" /\ Begin(r, "sign", k)

GetPublicKeys(r, k) == keysetCache[k] = "none" /\ Begin(r, "publish", k)

FindById(r) ==
  /\ Step(r, {"sign", "publish"}, "read")
  /\ IF request[r].id \in ToSet(rows) THEN Goto(r, "decrypt", {Copy(request[r].id)})
     ELSE Finish(r)
  /\ UNCHANGED <<rows, active, cipher, keysetCache, status, config, signed, met>>

(* getActiveKeysets.                                                        *)
GetActiveKeysets(r) == Begin(r, "list", config.fee)

ReadActive(r) ==
  /\ Step(r, {"list"}, "read")
  /\ Fill(r, FindActive)
  /\ UNCHANGED <<rows, active, cipher, keysetCache, status, config, signed, met>>

(* A copy is decrypted and cached, and the next one is looked for.          *)
Decrypt(r) ==
  /\ Step(r, {"sign", "publish", "list", "ensure"}, "decrypt")
  /\ \E copy \in request[r].todo :
        /\ IsNewest(copy, request[r].todo)
        /\ CanDecrypt(copy, config.mode)
        /\ keysetCache' = [keysetCache EXCEPT ![copy.id] = Flag(copy)]
        /\ LET todo == Uncached(request[r].todo \ {copy}, keysetCache')
           IN IF todo = {} THEN Finish(r) ELSE Goto(r, "decrypt", todo)
        /\ signed' = IF request[r].op = "sign" THEN signed \cup SignedByCopy(copy.id, Flag(copy))
                     ELSE signed
  /\ UNCHANGED <<rows, active, cipher, status, config, met>>

-----------------------------------------------------------------------------
(* getKeysetByRuneIdAndUnit, and generateKeyset where there is no keyset or *)
(* the newest one charges another fee.                                      *)

EnsureKeyset(r) == Begin(r, "ensure", config.fee)

FindNewest(r) ==
  /\ Step(r, {"ensure"}, "read")
  /\ IF config.fee \in active /\ IsNewest(Copy(config.fee), FindActive)
     THEN Fill(r, {Copy(config.fee)}) ELSE Goto(r, "create", {})
  /\ UNCHANGED <<rows, active, cipher, keysetCache, status, config, signed, met>>

(* Mutant: the insert is not awaited, and lost. *)
CreateCached(r) ==
  /\ Step(r, {"ensure"}, "create")
  /\ keysetCache' = [keysetCache EXCEPT ![config.fee] = "active"]
  /\ Goto(r, "store", {})
  /\ UNCHANGED <<rows, active, cipher, status, config, signed, met>>

(* The keys are encrypted, then the row is inserted; a row with the id is   *)
(* made active and keeps its place in the order.                            *)
Create(r) ==
  /\ Step(r, {"ensure"}, "create")
  /\ rows' = IF config.fee \in ToSet(rows) THEN rows ELSE Append(rows, config.fee)
  /\ active' = active \cup {config.fee}
  /\ cipher' = [cipher EXCEPT ![config.fee] = config.mode]
  /\ met' = met \cup {config.fee}
  /\ Goto(r, "store", {})
  /\ UNCHANGED <<keysetCache, status, config, signed>>

CacheNew(r) ==
  /\ Step(r, {"ensure"}, "store")
  /\ keysetCache' = [keysetCache EXCEPT ![config.fee] = "active"]
  /\ Finish(r)
  /\ UNCHANGED <<rows, active, cipher, status, config, signed, met>>

-----------------------------------------------------------------------------

DeactivateKeyset(r, k) == Begin(r, "deactivate", k)

SetInactive(r) ==
  /\ Step(r, {"deactivate"}, "read")
  /\ active' = active \ {request[r].id}
  /\ Goto(r, "forget", {})
  /\ UNCHANGED <<rows, cipher, keysetCache, status, config, signed, met>>

Forget(r) ==
  /\ Step(r, {"deactivate"}, "forget")
  /\ keysetCache' = [keysetCache EXCEPT ![request[r].id] = "none"]
  /\ Finish(r)
  /\ UNCHANGED <<rows, active, cipher, status, config, signed, met>>

(* The database, Cloud KMS or the local key is missing.                     *)
RequestFails(r) ==
  /\ request[r].step \in {"read", "decrypt", "create"}
  /\ Finish(r)
  /\ UNCHANGED <<rows, active, cipher, keysetCache, status, config, signed, met>>

-----------------------------------------------------------------------------
(* server.ts: preloadActiveKeysets comes before the first request; if it    *)
(* throws, the process exits.                                               *)

Start(fee, mode) ==
  /\ status # "up"
  /\ config' = [fee |-> fee, mode |-> mode]
  /\ IF \A copy \in FindActive : CanDecrypt(copy, mode)
     THEN /\ status' = "up"
          /\ keysetCache' = [k \in Fees |-> IF k \in active THEN "active" ELSE "none"]
     ELSE status' = "refused" /\ keysetCache' = NoCache
  /\ signed' = {} /\ met' = active
  /\ UNCHANGED <<rows, active, cipher, request>>

Stop ==
  /\ status = "up"
  /\ status' = "down"
  /\ keysetCache' = NoCache
  /\ request' = [r \in Requests |-> Idle]
  /\ UNCHANGED <<rows, active, cipher, config, signed, met>>

KeysetsNext ==
  \/ \E r \in Requests :
       \/ \E k \in Fees : GetPrivateKey(r, k) \/ GetPublicKeys(r, k) \/ DeactivateKeyset(r, k)
       \/ GetActiveKeysets(r) \/ EnsureKeyset(r)
       \/ FindById(r) \/ ReadActive(r) \/ Decrypt(r) \/ FindNewest(r)
       \/ Create(r) \/ CacheNew(r) \/ SetInactive(r) \/ Forget(r) \/ RequestFails(r)
  \/ \E f \in Fees, m \in Modes : Start(f, m)
  \/ Stop

KeysetsSpec == KeysetsInit /\ [][KeysetsNext]_keysetVars

-----------------------------------------------------------------------------

(* What the mint signs can still be verified after a restart: no key signs  *)
(* before its keyset is in the table, whichever call cached it.             *)
SignedHasRow == signed \subseteq ToSet(rows)

(* A deactivated keyset may sign for as long as the process runs, through a *)
(* copy that a slow load put back into the cache; a process that started    *)
(* afterwards does not sign with it, unless it generated it anew.           *)
RetiredAfterRestart == signed \subseteq met

(* A mint that moves from local encryption to Cloud KMS, with its           *)
(* ENCRYPTION_KEY still configured, starts and reads its old rows.          *)
MigrationStarts == status # "refused"
=============================================================================
