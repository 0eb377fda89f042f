---------------------------- MODULE Services_proofs ----------------------------
(***************************************************************************)
(* What runs around the mint: the keysets, the tokens for Cloud KMS, the    *)
(* audit monitor, the migrations and the subscriptions, for any fees,       *)
(* modes, numbers of calls, events, files, instances, items and changes.    *)
(***************************************************************************)
EXTENDS Keysets, AccessTokens, AuditMonitor, Migrations, Subscriptions,
        FiniteSetTheorems, SequenceTheorems, TLAPS

-----------------------------------------------------------------------------
(* The keysets: what a process signs with is in the table, and was active   *)
(* while it ran.                                                            *)

Copies == [id : Fees, active : BOOLEAN, cipher : Modes]
KeysetCalls ==
  [op : {"none", "sign", "publish", "list", "ensure", "deactivate"},
   step : {"idle", "read", "decrypt", "create", "store", "forget"}, id : Fees, todo : SUBSET Copies]

KeysetsType ==
  /\ rows \in Seq(Fees)
  /\ active \in SUBSET Fees
  /\ cipher \in [Fees -> Modes]
  /\ keysetCache \in [Fees -> {"none", "active", "inactive"}]
  /\ config \in [fee : Fees, mode : Modes]
  /\ request \in [Requests -> KeysetCalls]
  /\ status \in {"down", "up", "refused"}

(* A keyset is stored before it is read, cached or used; what is known as   *)
(* active was so while this process ran.                                    *)
Stored(k) == k \in ToSet(rows)
Known(copy) == Stored(copy.id) /\ (copy.active => copy.id \in met)

(* What a call is about to cache is known; without a process there is none. *)
RequestInv ==
  \A r \in Requests :
    /\ status # "up" => request[r] = Idle
    /\ \A copy \in request[r].todo : Known(copy)
    /\ request[r].step = "store" => Stored(config.fee) /\ config.fee \in met

CacheInv ==
  \A k \in Fees :
    /\ keysetCache[k] # "none" => Stored(k)
    /\ keysetCache[k] = "active" => k \in met

KeysetsInv ==
  /\ KeysetsType
  /\ \A k \in active : Stored(k) /\ k \in met
  /\ RequestInv /\ CacheInv
  /\ signed \subseteq ToSet(rows) /\ signed \subseteq met

-----------------------------------------------------------------------------

LEMMA IdleIsCall == Idle \in KeysetCalls /\ Idle.todo = {} /\ Idle.step = "idle"
<1>1. (CHOOSE f \in Fees : TRUE) \in Fees
  BY KeysetsAssumption
<1> QED
  BY <1>1 DEF Idle, KeysetCalls

(* A copy of a row that may be active is known.                             *)
LEMMA CopyIsKnown ==
  ASSUME KeysetsInv, NEW k \in Fees, Stored(k)
  PROVE  Copy(k) \in Copies /\ Known(Copy(k))
<1>1. Copy(k).id = k /\ Copy(k).active = (k \in active)
  BY DEF Copy
<1>2. cipher[k] \in Modes /\ (k \in active) \in BOOLEAN
  BY DEF KeysetsInv, KeysetsType
<1>3. Copy(k) \in Copies
  BY <1>2 DEF Copy, Copies
<1>4. Known(Copy(k))
  BY <1>1 DEF KeysetsInv, Known
<1> QED
  BY <1>3, <1>4

LEMMA FindActiveIsKnown ==
  ASSUME KeysetsInv
  PROVE  FindActive \subseteq Copies /\ \A copy \in FindActive : Known(copy)
BY CopyIsKnown DEF FindActive, KeysetsInv, KeysetsType

(* Only stored keysets come into the cache, as active only known ones.      *)
CacheMoves ==
  /\ keysetCache' \in [Fees -> {"none", "active", "inactive"}]
  /\ \A k \in Fees :
       /\ keysetCache'[k] \in {keysetCache[k], "none"} \/ Stored(k)
       /\ keysetCache'[k] = "active" => keysetCache[k] = "active" \/ k \in met

LEMMA CacheStays == KeysetsInv /\ UNCHANGED keysetCache => CacheMoves
BY DEF KeysetsInv, KeysetsType, CacheMoves

(* Another call of r, over known copies, with the table and the process as  *)
(* they are.                                                                *)
LEMMA RequestMoves ==
  ASSUME KeysetsInv, NEW r \in Requests, NEW call \in KeysetCalls, request' = [request EXCEPT ![r] = call],
         status = "up" \/ call = Idle,
         \A copy \in call.todo : Known(copy),
         call.step = "store" => Stored(config.fee) /\ config.fee \in met,
         UNCHANGED <<rows, active, cipher, status, config, met>>,
         CacheMoves, signed' \subseteq ToSet(rows), signed' \subseteq met
  PROVE  KeysetsInv'
<1>1. /\ request' \in [Requests -> KeysetCalls] /\ request'[r] = call
      /\ \A q \in Requests \ {r} : request'[q] = request[q]
  BY DEF KeysetsInv, KeysetsType
<1>2. KeysetsType'
  BY <1>1 DEF KeysetsInv, KeysetsType, CacheMoves
<1>3. RequestInv'
  BY <1>1 DEF KeysetsInv, RequestInv, Known, Stored
<1>4. CacheInv'
  BY DEF KeysetsInv, CacheInv, CacheMoves, Stored
<1> QED
  BY <1>2, <1>3, <1>4 DEF KeysetsInv, Stored

LEMMA FinishKeeps ==
  ASSUME KeysetsInv, NEW r \in Requests, Finish(r),
         UNCHANGED <<rows, active, cipher, keysetCache, status, config, signed, met>>
  PROVE  KeysetsInv'
<1>1. request' = [request EXCEPT ![r] = Idle]
      /\ signed' \subseteq ToSet(rows) /\ signed' \subseteq met
  BY DEF Finish, KeysetsInv, KeysetsType
<1> QED
  BY <1>1, IdleIsCall, CacheStays, RequestMoves

(* The state outside of the request and of signed is as it was.             *)
LEMMA GotoKeeps ==
  ASSUME KeysetsInv, NEW r \in Requests, status = "up",
         NEW step \in {"decrypt", "create"}, NEW missing \in SUBSET Copies, \A copy \in missing : Known(copy),
         Goto(r, step, missing),
         UNCHANGED <<rows, active, cipher, keysetCache, status, config, signed, met>>
  PROVE  KeysetsInv'
<1> DEFINE call == [request[r] EXCEPT !.step = step, !.todo = missing]
<1>1. request[r] \in KeysetCalls
  BY DEF KeysetsInv, KeysetsType
<1>2. call \in KeysetCalls /\ call.step = step /\ call.todo = missing
  BY <1>1 DEF KeysetCalls
<1>3. request' = [request EXCEPT ![r] = call]
  BY DEF Goto
<1>4. signed' \subseteq ToSet(rows) /\ signed' \subseteq met
  BY DEF KeysetsInv, KeysetsType
<1> HIDE DEF call
<1> QED
  BY <1>2, <1>3, <1>4, CacheStays, RequestMoves

(* A call that is under way has a process.                                  *)
LEMMA StepIsUp ==
  ASSUME KeysetsInv, NEW r \in Requests, request[r].step # "idle"
  PROVE  status = "up"
BY IdleIsCall DEF KeysetsInv, RequestInv

LEMMA FillKeeps ==
  ASSUME KeysetsInv, NEW r \in Requests, status = "up",
         NEW copies \in SUBSET Copies, \A copy \in copies : Known(copy), Fill(r, copies),
         UNCHANGED <<rows, active, cipher, keysetCache, status, config, signed, met>>
  PROVE  KeysetsInv'
<1> DEFINE missing == Uncached(copies, keysetCache)
<1>1. missing \subseteq copies
  BY DEF Uncached
<1>2. missing \in SUBSET Copies /\ \A copy \in missing : Known(copy)
  BY <1>1
<1>3. Finish(r) \/ Goto(r, "decrypt", missing)
  BY DEF Fill
<1> HIDE DEF missing
<1> QED
  BY <1>2, <1>3, FinishKeeps, GotoKeeps

LEMMA BeginKeeps ==
  ASSUME KeysetsInv, NEW r \in Requests, NEW op \in {"sign", "publish", "list", "ensure", "deactivate"},
         NEW k \in Fees, Begin(r, op, k)
  PROVE  KeysetsInv'
<1> DEFINE call == [op |-> op, step |-> "read", id |-> k, todo |-> {}]
<1>1. /\ status = "up" /\ request' = [request EXCEPT ![r] = call]
      /\ UNCHANGED <<rows, active, cipher, keysetCache, status, config, signed, met>>
  BY DEF Begin
<1>2. call \in KeysetCalls /\ call.todo = {} /\ call.step = "read"
  BY DEF KeysetCalls
<1>3. signed' \subseteq ToSet(rows) /\ signed' \subseteq met
  BY <1>1 DEF KeysetsInv, KeysetsType
<1> HIDE DEF call
<1> QED
  BY <1>1, <1>2, <1>3, CacheStays, RequestMoves

LEMMA GetPrivateKeyKeeps ==
  ASSUME KeysetsInv, NEW r \in Requests, NEW k \in Fees, GetPrivateKey(r, k)
  PROVE  KeysetsInv'
<1>1. CASE /\ keysetCache[k] # "none" /\ signed' = signed \cup SignedByCopy(k, keysetCache[k])
           /\ UNCHANGED <<rows, active, cipher, keysetCache, status, config, request, met>>
  <2>1. signed' \subseteq signed \cup {k} /\ (k \in signed' => k \in signed \/ keysetCache[k] = "active")
    BY <1>1 DEF SignedByCopy
  <2>2. signed' \subseteq ToSet(rows) /\ signed' \subseteq met
    BY <1>1, <2>1 DEF KeysetsInv, CacheInv, Stored
  <2> QED
    BY <1>1, <2>2 DEF KeysetsInv, KeysetsType, RequestInv, CacheInv, Stored, Known
<1> QED
  BY <1>1, BeginKeeps DEF GetPrivateKey

LEMMA DecryptKeeps ==
  ASSUME KeysetsInv, NEW r \in Requests, Decrypt(r)
  PROVE  KeysetsInv'
<1>1. PICK copy \in request[r].todo :
        /\ keysetCache' = [keysetCache EXCEPT ![copy.id] = Flag(copy)]
        /\ LET missing == Uncached(request[r].todo \ {copy}, keysetCache')
           IN IF missing = {} THEN Finish(r) ELSE Goto(r, "decrypt", missing)
        /\ signed' = IF request[r].op = "sign" THEN signed \cup SignedByCopy(copy.id, Flag(copy))
                     ELSE signed
  BY DEF Decrypt
<1>2. status = "up" /\ UNCHANGED <<rows, active, cipher, status, config, met>>
  BY StepIsUp DEF Decrypt, Step
<1>3. request[r] \in KeysetCalls /\ request[r].todo \subseteq Copies /\ \A c \in request[r].todo : Known(c)
  BY DEF KeysetsInv, KeysetsType, RequestInv, KeysetCalls
<1>4. copy.id \in Fees /\ Known(copy) /\ Flag(copy) \in {"active", "inactive"}
      /\ (Flag(copy) = "active" => copy.active)
  BY <1>3 DEF Copies, Flag
<1>5. Stored(copy.id) /\ (Flag(copy) = "active" => copy.id \in met)
  BY <1>4 DEF Known
<1>6. signed' \subseteq ToSet(rows) /\ signed' \subseteq met
  BY <1>1, <1>5 DEF KeysetsInv, SignedByCopy, Stored
<1>7. CacheMoves
  BY <1>1, <1>4, <1>5 DEF KeysetsInv, KeysetsType, CacheMoves
<1> DEFINE missing == Uncached(request[r].todo \ {copy}, keysetCache')
           call == [request[r] EXCEPT !.step = "decrypt", !.todo = missing]
<1>8. missing \in SUBSET Copies /\ \A c \in missing : Known(c)
  BY <1>3 DEF Uncached
<1>9. request' = [request EXCEPT ![r] = Idle] \/ request' = [request EXCEPT ![r] = call]
  BY <1>1 DEF Finish, Goto
<1> HIDE DEF missing
<1>10. call \in KeysetCalls /\ call.todo = missing /\ call.step = "decrypt"
  BY <1>3, <1>8 DEF KeysetCalls
<1> HIDE DEF call
<1>11. CASE request' = [request EXCEPT ![r] = Idle]
  BY <1>2, <1>6, <1>7, <1>11, IdleIsCall, RequestMoves
<1>12. CASE request' = [request EXCEPT ![r] = call]
  BY <1>2, <1>6, <1>7, <1>8, <1>10, <1>12, RequestMoves
<1> QED
  BY <1>9, <1>11, <1>12

(* The row is there before the cached keyset, and the call that created it  *)
(* remembers that it was active.                                            *)
LEMMA CreateKeeps ==
  ASSUME KeysetsInv, NEW r \in Requests, Create(r)
  PROVE  KeysetsInv'
<1> DEFINE call == [request[r] EXCEPT !.step = "store", !.todo = {}]
<1>1. /\ rows' = IF config.fee \in ToSet(rows) THEN rows ELSE Append(rows, config.fee)
      /\ active' = active \cup {config.fee} /\ cipher' = [cipher EXCEPT ![config.fee] = config.mode]
      /\ met' = met \cup {config.fee} /\ request' = [request EXCEPT ![r] = call]
      /\ UNCHANGED <<keysetCache, status, config, signed>>
  BY DEF Create, Goto
<1>2. status = "up"
  BY StepIsUp DEF Create, Step
<1>3. rows \in Seq(Fees) /\ config.fee \in Fees /\ config.mode \in Modes /\ request[r] \in KeysetCalls
  BY DEF KeysetsInv, KeysetsType
<1>4. rows' \in Seq(Fees) /\ ToSet(rows) \subseteq ToSet(rows') /\ config.fee \in ToSet(rows')
  <2>1. CASE config.fee \in ToSet(rows)
    BY <1>1, <1>3, <2>1
  <2>2. CASE config.fee \notin ToSet(rows)
    <3>1. /\ rows' \in Seq(Fees) /\ Len(rows') = Len(rows) + 1
          /\ \A i \in 1 .. Len(rows) : rows'[i] = rows[i]
          /\ rows'[Len(rows) + 1] = config.fee
      BY <1>1, <1>3, <2>2, AppendProperties
    <3>2. DOMAIN rows = 1 .. Len(rows) /\ DOMAIN rows' = 1 .. Len(rows) + 1 /\ Len(rows) \in Nat
      BY <1>3, <3>1, LenProperties
    <3> QED
      BY <3>1, <3>2 DEF ToSet
  <2> QED
    BY <2>1, <2>2
<1>5. call \in KeysetCalls /\ call.todo = {}
  BY <1>3 DEF KeysetCalls
<1>6. request' \in [Requests -> KeysetCalls] /\ request'[r].todo = {} /\ \A q \in Requests \ {r} : request'[q] = request[q]
  BY <1>1, <1>5 DEF KeysetsInv, KeysetsType
<1> HIDE DEF call
<1>7. KeysetsType'
  BY <1>1, <1>3, <1>4, <1>6 DEF KeysetsInv, KeysetsType
<1>8. \A copy : Known(copy) => Known(copy)'
  BY <1>1, <1>4 DEF Known, Stored
<1>9. RequestInv'
  BY <1>1, <1>2, <1>4, <1>6, <1>8 DEF KeysetsInv, RequestInv, Stored
<1>10. CacheInv'
  BY <1>1, <1>4 DEF KeysetsInv, CacheInv, Stored
<1>11. signed' \subseteq ToSet(rows') /\ signed' \subseteq met' /\ \A k \in active' : Stored(k)' /\ k \in met'
  BY <1>1, <1>4 DEF KeysetsInv, Stored
<1> QED
  BY <1>7, <1>9, <1>10, <1>11 DEF KeysetsInv

LEMMA CacheNewKeeps ==
  ASSUME KeysetsInv, NEW r \in Requests, CacheNew(r)
  PROVE  KeysetsInv'
<1>1. /\ request[r].step = "store" /\ keysetCache' = [keysetCache EXCEPT ![config.fee] = "active"]
      /\ request' = [request EXCEPT ![r] = Idle]
      /\ UNCHANGED <<rows, active, cipher, status, config, signed, met>>
  BY DEF CacheNew, Step, Finish
<1>2. Stored(config.fee) /\ config.fee \in met
  BY <1>1 DEF KeysetsInv, RequestInv
<1>3. CacheMoves
  BY <1>1, <1>2 DEF KeysetsInv, KeysetsType, CacheMoves
<1>4. signed' \subseteq ToSet(rows) /\ signed' \subseteq met
  BY <1>1 DEF KeysetsInv
<1> QED
  BY <1>1, <1>3, <1>4, IdleIsCall, RequestMoves

(* A row that is no longer active stays known: that is what RetiredAfter-   *)
(* Restart is about.                                                        *)
LEMMA SetInactiveKeeps ==
  ASSUME KeysetsInv, NEW r \in Requests, SetInactive(r)
  PROVE  KeysetsInv'
<1> DEFINE call == [request[r] EXCEPT !.step = "forget", !.todo = {}]
<1>1. /\ active' = active \ {request[r].id} /\ request' = [request EXCEPT ![r] = call]
      /\ UNCHANGED <<rows, cipher, keysetCache, status, config, signed, met>>
  BY DEF SetInactive, Goto
<1>2. status = "up"
  BY StepIsUp DEF SetInactive, Step
<1>3. request[r] \in KeysetCalls
  BY DEF KeysetsInv, KeysetsType
<1>4. call \in KeysetCalls /\ call.todo = {} /\ call.step = "forget"
  BY <1>3 DEF KeysetCalls
<1> HIDE DEF call
<1>5. request' \in [Requests -> KeysetCalls] /\ request'[r] = call /\ \A q \in Requests \ {r} : request'[q] = request[q]
  BY <1>1, <1>4 DEF KeysetsInv, KeysetsType
<1>6. KeysetsType'
  BY <1>1, <1>5 DEF KeysetsInv, KeysetsType
<1>7. RequestInv'
  BY <1>1, <1>2, <1>4, <1>5 DEF KeysetsInv, RequestInv, Known, Stored
<1>8. CacheInv'
  BY <1>1 DEF KeysetsInv, CacheInv, Stored
<1> QED
  BY <1>1, <1>6, <1>7, <1>8 DEF KeysetsInv, Stored

LEMMA ForgetKeeps ==
  ASSUME KeysetsInv, NEW r \in Requests, Forget(r)
  PROVE  KeysetsInv'
<1>1. /\ keysetCache' = [keysetCache EXCEPT ![request[r].id] = "none"]
      /\ request' = [request EXCEPT ![r] = Idle]
      /\ UNCHANGED <<rows, active, cipher, status, config, signed, met>>
  BY DEF Forget, Finish
<1>2. CacheMoves
  BY <1>1 DEF KeysetsInv, KeysetsType, CacheMoves
<1>3. signed' \subseteq ToSet(rows) /\ signed' \subseteq met
  BY <1>1 DEF KeysetsInv
<1> QED
  BY <1>1, <1>2, <1>3, IdleIsCall, RequestMoves

(* Nothing but the table survives: the new process knows what is active.    *)
LEMMA StartKeeps ==
  ASSUME KeysetsInv, NEW fee \in Fees, NEW m \in Modes, Start(fee, m)
  PROVE  KeysetsInv'
<1>1. /\ status # "up" /\ config' = [fee |-> fee, mode |-> m] /\ status' \in {"up", "refused"}
      /\ \/ keysetCache' = [k \in Fees |-> IF k \in active THEN "active" ELSE "none"]
         \/ keysetCache' = NoCache
      /\ signed' = {} /\ met' = active /\ UNCHANGED <<rows, active, cipher, request>>
  BY DEF Start
<1>2. \A r \in Requests : request[r] = Idle
  BY <1>1 DEF KeysetsInv, RequestInv
<1>3. keysetCache' \in [Fees -> {"none", "active", "inactive"}]
      /\ \A k \in Fees : keysetCache'[k] # "none" => k \in active
  BY <1>1 DEF NoCache
<1>4. KeysetsType'
  BY <1>1, <1>3 DEF KeysetsInv, KeysetsType
<1>5. RequestInv'
  BY <1>1, <1>2, IdleIsCall DEF RequestInv
<1>6. CacheInv'
  BY <1>1, <1>3 DEF KeysetsInv, CacheInv, Stored
<1> QED
  BY <1>1, <1>4, <1>5, <1>6 DEF KeysetsInv, Stored

LEMMA StopKeeps ==
  ASSUME KeysetsInv, Stop
  PROVE  KeysetsInv'
<1>1. /\ status' = "down" /\ keysetCache' = NoCache /\ request' = [r \in Requests |-> Idle]
      /\ UNCHANGED <<rows, active, cipher, config, signed, met>>
  BY DEF Stop
<1>2. KeysetsType'
  BY <1>1, IdleIsCall DEF KeysetsInv, KeysetsType, NoCache
<1>3. RequestInv' /\ CacheInv'
  BY <1>1, IdleIsCall DEF RequestInv, CacheInv, NoCache
<1> QED
  BY <1>1, <1>2, <1>3 DEF KeysetsInv, Stored

LEMMA KeysetsStep == KeysetsInv /\ [KeysetsNext]_keysetVars => KeysetsInv'
<1> SUFFICES ASSUME KeysetsInv, [KeysetsNext]_keysetVars
             PROVE  KeysetsInv'
  OBVIOUS
<1>0. config.fee \in Fees
  BY DEF KeysetsInv, KeysetsType
<1>1. ASSUME NEW r \in Requests, NEW k \in Fees,
             GetPrivateKey(r, k) \/ GetPublicKeys(r, k) \/ DeactivateKeyset(r, k)
      PROVE  KeysetsInv'
  BY <1>1, GetPrivateKeyKeeps, BeginKeeps DEF GetPublicKeys, DeactivateKeyset
<1>2. ASSUME NEW r \in Requests, GetActiveKeysets(r) \/ EnsureKeyset(r)
      PROVE  KeysetsInv'
  BY <1>0, <1>2, BeginKeeps DEF GetActiveKeysets, EnsureKeyset
<1>3. ASSUME NEW r \in Requests, FindById(r)
      PROVE  KeysetsInv'
  <2> DEFINE k == request[r].id
  <2>1. status = "up" /\ k \in Fees
    BY <1>3, StepIsUp DEF FindById, Step, KeysetsInv, KeysetsType, KeysetCalls
  <2>2. CASE k \in ToSet(rows)
    <3>1. Goto(r, "decrypt", {Copy(k)}) /\ UNCHANGED <<rows, active, cipher, keysetCache, status, config, signed, met>>
      BY <1>3, <2>2 DEF FindById
    <3>2. Copy(k) \in Copies /\ Known(Copy(k))
      BY <2>1, <2>2, CopyIsKnown DEF Stored
    <3> QED
      BY <2>1, <3>1, <3>2, GotoKeeps
  <2>3. CASE k \notin ToSet(rows)
    BY <1>3, <2>3, FinishKeeps DEF FindById
  <2> QED
    BY <2>2, <2>3
<1>4. ASSUME NEW r \in Requests, ReadActive(r)
      PROVE  KeysetsInv'
  BY <1>4, StepIsUp, FindActiveIsKnown, FillKeeps DEF ReadActive, Step
<1>5. ASSUME NEW r \in Requests, FindNewest(r)
      PROVE  KeysetsInv'
  <2>1. status = "up" /\ UNCHANGED <<rows, active, cipher, keysetCache, status, config, signed, met>>
    BY <1>5, StepIsUp DEF FindNewest, Step
  <2>2. CASE config.fee \in active /\ Fill(r, {Copy(config.fee)})
    <3>1. Copy(config.fee) \in Copies /\ Known(Copy(config.fee))
      BY <1>0, <2>2, CopyIsKnown DEF KeysetsInv
    <3> QED
      BY <2>1, <2>2, <3>1, FillKeeps
  <2>3. CASE Goto(r, "create", {})
    BY <2>1, <2>3, GotoKeeps
  <2> QED
    BY <1>5, <2>2, <2>3 DEF FindNewest
<1>6. ASSUME NEW r \in Requests, RequestFails(r)
      PROVE  KeysetsInv'
  BY <1>6, FinishKeeps DEF RequestFails
<1>7. CASE UNCHANGED keysetVars
  BY <1>7 DEF keysetVars, KeysetsInv, KeysetsType, RequestInv, CacheInv, Known, Stored
<1> QED
  BY <1>1, <1>2, <1>3, <1>4, <1>5, <1>6, <1>7, DecryptKeeps, CreateKeeps, CacheNewKeeps, SetInactiveKeeps,
     ForgetKeeps, StartKeeps, StopKeeps DEF KeysetsNext

LEMMA KeysetsAlways == KeysetsSpec => []KeysetsInv
<1>1. KeysetsInit => KeysetsInv
  <2> SUFFICES ASSUME KeysetsInit
               PROVE  KeysetsInv
    OBVIOUS
  <2>1. (CHOOSE f \in Fees : TRUE) \in Fees /\ (CHOOSE m \in Modes : TRUE) \in Modes
    BY KeysetsAssumption
  <2>2. KeysetsType
    BY <2>1, IdleIsCall DEF KeysetsInit, KeysetsType, NoCache
  <2> QED
    BY <2>2, IdleIsCall DEF KeysetsInit, KeysetsInv, RequestInv, CacheInv, NoCache
<1> QED
  BY <1>1, KeysetsStep, PTL DEF KeysetsSpec

(* A process never signs with a keyset that was retired before it started,  *)
(* unless it made the keyset active again: what a slow load of an older     *)
(* copy puts back into the cache (deactivateKeyset, getPrivateKey,          *)
(* getActiveKeysets of KeyManager) is gone with the process.                *)
THEOREM RetiredCorrect == KeysetsSpec => []RetiredAfterRestart
<1>1. KeysetsInv => RetiredAfterRestart
  BY DEF KeysetsInv, RetiredAfterRestart
<1> QED
  BY <1>1, KeysetsAlways, PTL

(* No key signs before its keyset is in the table, so that what is signed   *)
(* can be verified after a restart (generateKeyset).                        *)
THEOREM SignedCorrect == KeysetsSpec => []SignedHasRow
<1>1. KeysetsInv => SignedHasRow
  BY DEF KeysetsInv, SignedHasRow
<1> QED
  BY <1>1, KeysetsAlways, PTL

-----------------------------------------------------------------------------
(* The tokens for Cloud KMS.                                               *)

(* A call that waits for its token knows the least that is left of it; one  *)
(* that carries a token does so for no longer than SendDelay, and the token *)
(* outlives that.                                                           *)
Waits(call) ==
  /\ call.life \in Lifetimes
  /\ call.expires = call.since + call.life
  /\ call.since <= clock /\ clock <= call.since + AnswerDelay

Carries(call) ==
  /\ call.since <= clock /\ clock <= call.since + SendDelay
  /\ call.expires > call.since + SendDelay

KmsCallRecords ==
  [step : {"none", "exchange", "answer", "send"}, expires : Nat, life : Nat, since : Nat]

(* The mint is wrong about the kept token by at most AnswerDelay.           *)
TokensInv ==
  /\ clock \in Nat
  /\ mode \in {"gcp-kms", "gcp-confidential-space-kms"}
  /\ cachedToken \in [expires : Nat, expiresAt : Nat]
  /\ cachedToken.expiresAt <= cachedToken.expires + AnswerDelay
  /\ kmsCall \in [KmsCalls -> KmsCallRecords]
  /\ \A c \in KmsCalls :
       /\ kmsCall[c].step = "answer" => Waits(kmsCall[c])
       /\ kmsCall[c].step = "send" => Carries(kmsCall[c])

(* Choosing a token that outlives SendDelay from now on.                    *)
LEMMA CarryKept ==
  ASSUME TokensInv, NEW c \in KmsCalls, NEW expires \in Nat, expires > clock + SendDelay,
         Carry(c, expires), UNCHANGED clock
  PROVE  /\ kmsCall' \in [KmsCalls -> KmsCallRecords]
         /\ \A d \in KmsCalls : /\ kmsCall'[d].step = "answer" => Waits(kmsCall[d])'
                                /\ kmsCall'[d].step = "send" => Carries(kmsCall[d])'
<1> DEFINE new == [step |-> "send", expires |-> expires, life |-> 0, since |-> clock]
<1>1. clock \in Nat /\ SendDelay \in Nat
  BY AccessTokensAssumption DEF TokensInv
<1>2. new \in KmsCallRecords
  BY <1>1 DEF KmsCallRecords
<1>3. kmsCall' = [kmsCall EXCEPT ![c] = new]
  BY DEF Carry
<1>4. kmsCall' \in [KmsCalls -> KmsCallRecords]
  BY <1>2, <1>3 DEF TokensInv
<1>5. ASSUME NEW d \in KmsCalls
      PROVE  /\ kmsCall'[d].step = "answer" => Waits(kmsCall[d])'
             /\ kmsCall'[d].step = "send" => Carries(kmsCall[d])'
  <2>1. CASE d = c
    <3>1. kmsCall'[d] = new
      BY <1>3, <2>1 DEF TokensInv
    <3>2. QED
      BY <1>1, <3>1 DEF Carries
  <2>2. CASE d # c
    <3>1. kmsCall'[d] = kmsCall[d]
      BY <1>3, <2>2 DEF TokensInv
    <3>2. QED
      BY <3>1 DEF TokensInv, Waits, Carries
  <2>3. QED
    BY <2>1, <2>2
<1>6. QED
  BY <1>4, <1>5

LEMMA TokensStep == TokensInv /\ [AccessTokensNext]_tokenVars => TokensInv'
<1> SUFFICES ASSUME TokensInv, [AccessTokensNext]_tokenVars
             PROVE  TokensInv'
  OBVIOUS
<1> USE AccessTokensAssumption
<1>0. AnswerDelay \in Nat /\ SendDelay \in Nat /\ Margin \in Nat
  OBVIOUS
<1>1. CASE ClockTicks
  <2>1. \A c \in KmsCalls : kmsCall[c] \in KmsCallRecords
    BY DEF TokensInv
  <2>2. ASSUME NEW c \in KmsCalls, kmsCall[c].step = "answer"
        PROVE  Waits(kmsCall[c])'
    BY <1>0, <1>1, <2>1, <2>2 DEF ClockTicks, TokensInv, Waits, KmsCallRecords
  <2>3. ASSUME NEW c \in KmsCalls, kmsCall[c].step = "send"
        PROVE  Carries(kmsCall[c])'
    BY <1>0, <1>1, <2>1, <2>3 DEF ClockTicks, TokensInv, Carries, KmsCallRecords
  <2>4. QED
    BY <1>1, <2>2, <2>3 DEF ClockTicks, TokensInv
<1>2. ASSUME NEW c \in KmsCalls, UseKept(c)
      PROVE  TokensInv'
  <2>1. cachedToken.expires \in Nat /\ cachedToken.expires > clock + SendDelay
    BY <1>0, <1>2 DEF UseKept, KeptIsUsable, TokensInv
  <2>2. Carry(c, cachedToken.expires) /\ UNCHANGED <<clock, mode, cachedToken>>
    BY <1>2 DEF UseKept
  <2>3. QED
    BY <2>1, <2>2, CarryKept DEF TokensInv
<1>3. ASSUME NEW c \in KmsCalls, Attest(c)
      PROVE  TokensInv'
  <2>1. kmsCall' = [kmsCall EXCEPT ![c].step = "exchange"]
    BY <1>3 DEF Attest
  <2>2. kmsCall' \in [KmsCalls -> KmsCallRecords]
    BY <2>1 DEF TokensInv, KmsCallRecords
  <2>3. \A d \in KmsCalls \ {c} : kmsCall'[d] = kmsCall[d]
    BY <2>1 DEF TokensInv
  <2>4. kmsCall'[c].step = "exchange"
    BY <2>1 DEF TokensInv, KmsCallRecords
  <2>5. QED
    BY <1>3, <2>2, <2>3, <2>4 DEF Attest, TokensInv, Waits, Carries
<1>4. ASSUME NEW c \in KmsCalls, NEW life \in Lifetimes, IssueToken(c, life)
      PROVE  TokensInv'
  <2> DEFINE new == [step |-> "answer", expires |-> clock + life, life |-> life, since |-> clock]
  <2>1. clock \in Nat /\ life \in Nat
    BY DEF TokensInv
  <2>2. kmsCall' = [kmsCall EXCEPT ![c] = new]
    BY <1>4 DEF IssueToken
  <2>3. new \in KmsCallRecords
    BY <2>1 DEF KmsCallRecords
  <2>4. kmsCall' \in [KmsCalls -> KmsCallRecords]
    BY <2>2, <2>3 DEF TokensInv
  <2>5. kmsCall'[c] = new /\ \A d \in KmsCalls \ {c} : kmsCall'[d] = kmsCall[d]
    BY <2>2 DEF TokensInv
  <2>6. Waits(kmsCall[c])'
    BY <1>0, <1>4, <2>1, <2>5 DEF IssueToken, Waits
  <2>7. QED
    BY <1>4, <2>4, <2>5, <2>6 DEF IssueToken, TokensInv, Waits, Carries
<1>5. ASSUME NEW c \in KmsCalls, TokenArrives(c)
      PROVE  TokensInv'
  <2> DEFINE call == kmsCall[c]
  <2>1. Waits(call) /\ call \in KmsCallRecords /\ clock \in Nat
    BY <1>5 DEF TokenArrives, TokensInv
  <2>2. call.expires \in Nat /\ call.since \in Nat /\ call.life \in Nat
        /\ call.life > AnswerDelay + SendDelay
    BY <2>1 DEF Waits, KmsCallRecords
  <2>3. call.expires > clock + SendDelay /\ clock + call.life <= call.expires + AnswerDelay
    BY <1>0, <2>1, <2>2 DEF Waits
  <2>4. Carry(c, call.expires) /\ UNCHANGED <<clock, mode>>
    BY <1>5 DEF TokenArrives
  <2>5. /\ cachedToken' \in [expires : Nat, expiresAt : Nat]
        /\ cachedToken'.expiresAt <= cachedToken'.expires + AnswerDelay
    BY <1>5, <2>1, <2>2, <2>3 DEF TokenArrives, TokensInv
  <2>6. QED
    BY <2>2, <2>3, <2>4, <2>5, CarryKept DEF TokensInv
<1>6. ASSUME NEW c \in KmsCalls, EndKmsCall(c)
      PROVE  TokensInv'
  <2>1. kmsCall' = [kmsCall EXCEPT ![c] = NoKmsCall] /\ NoKmsCall \in KmsCallRecords
    BY <1>6 DEF EndKmsCall, NoKmsCall, KmsCallRecords
  <2>2. kmsCall' \in [KmsCalls -> KmsCallRecords]
    BY <2>1 DEF TokensInv
  <2>3. kmsCall'[c].step = "none" /\ \A d \in KmsCalls \ {c} : kmsCall'[d] = kmsCall[d]
    BY <2>1 DEF TokensInv, NoKmsCall
  <2>4. QED
    BY <1>6, <2>2, <2>3 DEF EndKmsCall, TokensInv, Waits, Carries
<1>7. CASE UNCHANGED tokenVars
  BY <1>7 DEF tokenVars, TokensInv, Waits, Carries
<1>8. QED
  BY <1>1, <1>2, <1>3, <1>4, <1>5, <1>6, <1>7 DEF AccessTokensNext

(* No request reaches Cloud KMS with an expired token (getAccessToken and   *)
(* its cache in KeyEncryptor), if an answer and a request together take no  *)
(* longer than the margin.                                                  *)
THEOREM TokenValid == AccessTokensSpec => []TokenIsValid
<1>1. TokensInit => TokensInv
  BY AccessTokensAssumption
     DEF TokensInit, TokensInv, NoToken, NoKmsCall, KmsCallRecords
<1>2. TokensInv => TokenIsValid
  BY AccessTokensAssumption DEF TokensInv, TokenIsValid, Carries, KmsCallRecords
<1>3. QED
  BY <1>1, <1>2, TokensStep, PTL DEF AccessTokensSpec

-----------------------------------------------------------------------------
(* The audit monitor.                                                      *)

(* What an event is, whenever it happened.                                  *)
AnyEvent == [at : Nat, who : {"allowed", "other", "none"}, what : {"acme", "sensitive", "harmless"}]

(* An event no run has reported is young enough for the next one: it came   *)
(* into the log in time, and every run since then has failed.               *)
DueInTime(e) == interval < e.at + LogDelay + failures

AuditInv ==
  /\ interval \in Nat /\ baseline \in Nat
  /\ failures \in Nat /\ failures <= MaxFailures
  /\ delayed \subseteq AnyEvent /\ logged \subseteq AnyEvent
  /\ \A e \in delayed : interval < e.at + LogDelay
  /\ \A e \in logged :
       Unexpected(e) /\ e.at >= baseline => e \in reported \/ DueInTime(e)
  /\ \A e \in reported : Unexpected(e)

(* Since leaves out nothing that is still due.                              *)
LEMMA SinceReaches ==
  ASSUME AuditInv, NEW e \in AnyEvent, e.at >= baseline, DueInTime(e)
  PROVE  e.at >= Since(interval + 1)
<1>1. /\ interval \in Nat /\ failures \in Nat /\ e.at \in Nat /\ baseline \in Nat
      /\ {Lookback, LogDelay, MaxFailures} \subseteq Nat
  BY AuditMonitorAssumption DEF AuditInv, AnyEvent
<1>2. interval < e.at + LogDelay + failures /\ failures + LogDelay <= Lookback
  BY <1>1, AuditMonitorAssumption DEF AuditInv, DueInTime
<1>3. interval + 1 <= e.at + Lookback
  BY <1>1, <1>2
<1>4. QED
  BY <1>1, <1>3 DEF Since

LEMMA AuditStep == AuditInv /\ [AuditNext]_auditVars => AuditInv'
<1> SUFFICES ASSUME AuditInv, [AuditNext]_auditVars
             PROVE  AuditInv'
  OBVIOUS
<1>0. LogDelay \in Nat \ {0} /\ MaxFailures \in Nat /\ interval \in Nat /\ failures \in Nat
  BY AuditMonitorAssumption DEF AuditInv
<1>1. ASSUME NEW e \in Events, Happen(e)
      PROVE  AuditInv'
  <2>1. e \in AnyEvent /\ e.at = interval
    BY <1>0 DEF Events, AnyEvent
  <2>2. interval < e.at + LogDelay
    BY <1>0, <2>1
  <2>3. QED
    BY <1>1, <2>1, <2>2 DEF Happen, AuditInv, DueInTime
<1>2. ASSUME NEW e \in delayed, ReachLog(e)
      PROVE  AuditInv'
  <2>1. e \in AnyEvent /\ interval < e.at + LogDelay
    BY DEF AuditInv
  <2>2. DueInTime(e)
    BY <1>0, <2>1 DEF DueInTime, AnyEvent
  <2>3. QED
    BY <1>2, <2>1, <2>2 DEF ReachLog, AuditInv, DueInTime
<1>3. CASE Run
  <2>1. interval' = interval + 1 /\ failures' = 0 /\ UNCHANGED <<baseline, delayed, logged>>
    BY <1>3 DEF Run, EndInterval
  <2>2. \A e \in delayed' : interval' < e.at + LogDelay
    BY <1>3, <2>1 DEF Run, EndInterval
  <2>3. ASSUME NEW e \in logged', Unexpected(e), e.at >= baseline'
        PROVE  e \in reported'
    <3>1. e \in AnyEvent /\ e.at >= baseline /\ (e \in reported \/ DueInTime(e))
      BY <2>1, <2>3 DEF AuditInv
    <3>2. CASE e \in reported
      BY <1>3, <3>2 DEF Run
    <3>3. CASE DueInTime(e)
      <4>1. e \in ListSensitiveAdminEvents(Since(interval'))
        BY <2>1, <2>3, <3>1, <3>3, SinceReaches DEF ListSensitiveAdminEvents, Unexpected
      <4>2. QED
        BY <1>3, <2>3, <4>1 DEF Run
    <3>4. QED
      BY <3>1, <3>2, <3>3
  <2>4. \A e \in reported' : Unexpected(e)
    BY <1>3 DEF Run, AuditInv
  <2>5. QED
    BY <1>0, <2>1, <2>2, <2>3, <2>4 DEF AuditInv
<1>4. CASE RunFails
  <2>1. /\ interval' = interval + 1 /\ failures' = failures + 1
        /\ UNCHANGED <<baseline, delayed, logged, reported>>
    BY <1>4 DEF RunFails, EndInterval
  <2>2. \A e \in delayed' : interval' < e.at + LogDelay
    BY <1>4, <2>1 DEF RunFails, EndInterval
  <2>3. failures' \in Nat /\ failures' <= MaxFailures
    BY <1>0, <1>4, <2>1 DEF RunFails
  <2>4. ASSUME NEW e \in logged, DueInTime(e)
        PROVE  DueInTime(e)'
    BY <1>0, <2>1, <2>4 DEF DueInTime, AuditInv, AnyEvent
  <2>5. QED
    BY <1>0, <2>1, <2>2, <2>3, <2>4 DEF AuditInv
<1>5. CASE UNCHANGED auditVars
  BY <1>5 DEF auditVars, AuditInv, DueInTime
<1>6. QED
  BY <1>1, <1>2, <1>3, <1>4, <1>5 DEF AuditNext

(* Every unexpected admin event is reported before it is out of reach of    *)
(* the runs of gcp-confidential-space-audit-monitor.mjs, and what the       *)
(* server does itself is not reported.                                      *)
THEOREM NothingMissed == AuditSpec => []NothingIsMissed
<1>1. AuditInit => AuditInv
  BY AuditMonitorAssumption DEF AuditInit, AuditInv
<1>2. ASSUME AuditInv
      PROVE  NothingIsMissed
  <2>1. ASSUME NEW e \in delayed \cup logged,
               Unexpected(e), e.at >= baseline, e.at + Lookback < interval
        PROVE  e \in reported
    <3>1. /\ e.at \in Nat /\ interval \in Nat /\ failures \in Nat /\ failures <= MaxFailures
          /\ {Lookback, LogDelay, MaxFailures} \subseteq Nat
          /\ MaxFailures + LogDelay <= Lookback
      BY <1>2, AuditMonitorAssumption DEF AuditInv, AnyEvent
    <3>2. ~(interval < e.at + LogDelay) /\ ~DueInTime(e)
      BY <2>1, <3>1 DEF DueInTime
    <3>3. QED
      BY <1>2, <2>1, <3>2 DEF AuditInv
  <2>2. \A e \in reported : ~IsExpectedSystemEvent(e)
    BY <1>2 DEF AuditInv, Unexpected
  <2>3. QED
    BY <2>1, <2>2 DEF NothingIsMissed
<1>3. QED
  BY <1>1, <1>2, AuditStep, PTL DEF AuditSpec

-----------------------------------------------------------------------------
(* The migrations.                                                         *)

MigrationTypes ==
  /\ recorded \subseteq legacy
  /\ legacy \subseteq AllFiles
  /\ applied \in [AllFiles -> Nat]
  /\ phase \in [Instances -> {"down", "backfill", "apply", "serving"}]
  /\ todo \in [Instances -> SUBSET AllFiles]

(* The legacy table names what was applied, and that is a prefix.           *)
LegacyInv ==
  /\ \A f \in AllFiles : applied[f] = IF f \in legacy THEN 1 ELSE 0
  /\ \A f \in legacy : 1 .. f \subseteq legacy

(* An instance that has still to backfill knows what is missing; after      *)
(* that, nothing is missing any more, and what is not recorded yet is in    *)
(* its list.                                                                *)
TodoInv ==
  \A i \in Instances :
    /\ phase[i] = "backfill" => legacy \ recorded \subseteq todo[i] /\ todo[i] \subseteq legacy
    /\ phase[i] \in {"apply", "serving"} => legacy \subseteq recorded
    /\ phase[i] = "apply" => AllFiles \ recorded \subseteq todo[i]
    /\ phase[i] = "serving" => AllFiles \subseteq recorded

MigrationsInv == MigrationTypes /\ LegacyInv /\ TodoInv

LEMMA MigrationsStep == MigrationsInv /\ [MigrationsNext]_migrationVars => MigrationsInv'
<1> SUFFICES ASSUME MigrationsInv, [MigrationsNext]_migrationVars
             PROVE  MigrationsInv'
  OBVIOUS
<1> USE DEF MigrationsInv
<1>1. ASSUME NEW i \in Instances, StartBackfill(i)
      PROVE  MigrationsInv'
  BY <1>1 DEF StartBackfill, MigrationTypes, LegacyInv, TodoInv
<1>2. ASSUME NEW i \in Instances, NEW f \in AllFiles, Backfill(i, f)
      PROVE  MigrationsInv'
  <2>1. f \in legacy
    BY <1>2 DEF Backfill, LeastTodo, TodoInv
  <2>2. MigrationTypes' /\ LegacyInv'
    BY <1>2, <2>1 DEF Backfill, MigrationTypes, LegacyInv
  <2>3. TodoInv'
    BY <1>2 DEF Backfill, MigrationTypes, TodoInv
  <2>4. QED
    BY <2>2, <2>3
<1>3. ASSUME NEW i \in Instances, ListFiles(i)
      PROVE  MigrationsInv'
  BY <1>3 DEF ListFiles, MigrationTypes, LegacyInv, TodoInv
<1>4. ASSUME NEW i \in Instances, NEW f \in AllFiles, Apply(i, f)
      PROVE  MigrationsInv'
  <2>1. legacy = recorded /\ f \notin legacy
    BY <1>4 DEF Apply, MigrationTypes, TodoInv
  <2>2. 1 .. f \subseteq legacy'
    <3>1. ASSUME NEW g \in 1 .. f, g # f
          PROVE  g \in recorded
      <4>1. g \in AllFiles /\ ~(f <= g)
        BY <3>1, MigrationsAssumption DEF AllFiles
      <4>2. g \notin todo[i]
        BY <1>4, <4>1 DEF Apply, LeastTodo
      <4>3. QED
        BY <1>4, <4>1, <4>2 DEF Apply, TodoInv
    <3>2. QED
      BY <1>4, <2>1, <3>1 DEF Apply
  <2>3. LegacyInv'
    BY <1>4, <2>1, <2>2 DEF Apply, MigrationTypes, LegacyInv
  <2>4. MigrationTypes'
    <3>1. applied'  \in [AllFiles -> Nat]
      BY <1>4 DEF Apply, MigrationTypes
    <3>2. QED
      BY <1>4, <3>1 DEF Apply, MigrationTypes
  <2>5. TodoInv'
    BY <1>4 DEF Apply, MigrationTypes, TodoInv
  <2>6. QED
    BY <2>3, <2>4, <2>5
<1>5. ASSUME NEW i \in Instances, Serving(i)
      PROVE  MigrationsInv'
  BY <1>5 DEF Serving, MigrationTypes, LegacyInv, TodoInv
<1>6. ASSUME NEW i \in Instances, Down(i)
      PROVE  MigrationsInv'
  BY <1>6 DEF Down, MigrationTypes, LegacyInv, TodoInv
<1>7. CASE UNCHANGED migrationVars
  BY <1>7 DEF migrationVars, MigrationTypes, LegacyInv, TodoInv
<1>8. QED
  BY <1>1, <1>2, <1>3, <1>4, <1>5, <1>6, <1>7 DEF MigrationsNext

(* Instances that run migrate.ts together, stop anywhere and take over the  *)
(* older runner's table apply each file once, in order, and serve only      *)
(* when all are applied.                                                    *)
THEOREM AppliedInOrder == MigrationsSpec => []AppliedOnceInOrder
<1>1. MigrationsInit => MigrationsInv
  <2> SUFFICES ASSUME MigrationsInit
               PROVE  MigrationsInv
    OBVIOUS
  <2>1. PICK k \in 0 .. Files : /\ legacy = 1 .. k
                                /\ applied = [f \in AllFiles |-> IF f <= k THEN 1 ELSE 0]
    BY DEF MigrationsInit
  <2>2. Files \in Nat /\ k \in Nat /\ k <= Files
    BY MigrationsAssumption
  <2>3. legacy \subseteq AllFiles /\ LegacyInv
    BY <2>1, <2>2 DEF AllFiles, LegacyInv
  <2>4. applied \in [AllFiles -> Nat]
    BY <2>1, <2>2 DEF AllFiles
  <2>5. QED
    BY <2>3, <2>4 DEF MigrationsInit, MigrationsInv, MigrationTypes, TodoInv
<1>2. ASSUME MigrationsInv
      PROVE  AppliedOnceInOrder
  <2>1. ASSUME NEW f \in AllFiles
        PROVE  applied[f] <= 1 /\ (applied[f] = 1 => \A g \in 1 .. f : applied[g] = 1)
    <3>1. applied[f] = (IF f \in legacy THEN 1 ELSE 0)
          /\ (f \in legacy => 1 .. f \subseteq legacy)
      BY <1>2 DEF MigrationsInv, LegacyInv
    <3>2. 1 .. f \subseteq AllFiles
      BY MigrationsAssumption DEF AllFiles
    <3>3. \A g \in AllFiles : g \in legacy => applied[g] = 1
      BY <1>2 DEF MigrationsInv, LegacyInv
    <3>4. QED
      BY <3>1, <3>2, <3>3
  <2>2. ASSUME NEW i \in Instances, phase[i] = "serving", NEW f \in AllFiles
        PROVE  applied[f] = 1
    BY <1>2, <2>2 DEF MigrationsInv, MigrationTypes, LegacyInv, TodoInv
  <2>3. QED
    BY <2>1, <2>2 DEF AppliedOnceInOrder
<1>3. QED
  BY <1>1, <1>2, MigrationsStep, PTL DEF MigrationsSpec

-----------------------------------------------------------------------------
(* The subscriptions: a subscriber is told the newest published state, for  *)
(* any items, changes and overlapping calls of subscribe.                   *)

ReadStates == [item : Items, version : Nat]
FlowRecords == [todo : Seq(Items), got : Seq(ReadStates)]

(* What one query found is of one moment, and about the first filters of    *)
(* those to read.                                                           *)
OfOneMoment(call) ==
  /\ Len(call.got) <= Len(call.todo)
  /\ \A m \in DOMAIN call.got, n \in DOMAIN call.got :
       call.got[m].item = call.got[n].item => call.got[m].version = call.got[n].version
  /\ \A n \in DOMAIN call.got : call.got[n].item = call.todo[n]

FlowsType == flow \in [Flows -> FlowRecords] /\ \A f \in Flows : OfOneMoment(flow[f])

SubscriptionsType ==
  /\ version \in [Items -> Nat \ {0}]
  /\ heard \in [Items -> Nat]
  /\ published \in [Items -> Nat]
  /\ filters \subseteq Items
  /\ untold \subseteq Items
  /\ FlowsType

(* A call has i still to read; it has read a state of i that is as new as   *)
(* what was published.                                                      *)
HasToRead(f, i) ==
  \E n \in DOMAIN flow[f].todo : n > Len(flow[f].got) /\ flow[f].todo[n] = i
HasRead(f, i) ==
  \E n \in DOMAIN flow[f].got : flow[f].got[n].item = i /\ flow[f].got[n].version >= published[i]

(* What a subscriber has not heard of a filter, it is about to be sent.     *)
ToldOrDue ==
  \A i \in filters : heard[i] >= published[i] \/ \E f \in Flows : HasToRead(f, i) \/ HasRead(f, i)

SubscriptionsInv ==
  /\ SubscriptionsType
  /\ ~open => filters = {}
  /\ \A i \in Items : published[i] <= version[i]
  /\ ToldOrDue

-----------------------------------------------------------------------------

(* SetToSeq lists every member of a finite set.                             *)
LEMMA ListsAll ==
  ASSUME NEW S, IsFiniteSet(S)
  PROVE  SetToSeq(S) \in Seq(S) /\ \A x \in S : \E n \in DOMAIN SetToSeq(S) : SetToSeq(S)[n] = x
<1> DEFINE n == Cardinality(S)
           list == SetToSeq(S)
<1>1. n \in Nat /\ ExistsBijection(1 .. n, S)
  BY FS_CardinalityType
<1>2. \E f \in [1 .. n -> S] : IsInjective(f)
  BY <1>1 DEF ExistsBijection, Bijection, Injection
<1>3. list \in [1 .. n -> S] /\ IsInjective(list)
  BY <1>2 DEF SetToSeq
<1>4. list \in Injection(1 .. n, S)
  BY <1>3 DEF Injection
<1>5. Cardinality(1 .. n) = n
  BY <1>1, FS_Interval
<1>6. list \in Surjection(1 .. n, S)
  BY <1>4, <1>5, FS_Injection
<1>7. \A x \in S : \E m \in 1 .. n : list[m] = x
  BY <1>6 DEF Surjection
<1>8. DOMAIN list = 1 .. n
  BY <1>3
<1>9. list \in Seq(S)
  BY <1>1, <1>3, SeqDef
<1> QED
  BY <1>7, <1>8, <1>9

LEMMA DoneIsFlow == Done \in FlowRecords /\ Len(Done.got) = 0 /\ Len(Done.todo) = 0
BY DEF Done, FlowRecords

(* A new call has all it is asked for to read.                              *)
LEMMA SubscribeKeeps ==
  ASSUME SubscriptionsInv, NEW f \in Flows, NEW wanted \in SUBSET Items \ {{}}, Subscribe(f, wanted)
  PROVE  SubscriptionsInv'
<1> DEFINE list == SetToSeq(wanted)
           new == [todo |-> list, got |-> <<>>]
<1>1. /\ open /\ flow[f] = Done /\ filters' = wanted /\ flow' = [flow EXCEPT ![f] = new]
      /\ heard' = [i \in Items |-> 0]
      /\ UNCHANGED <<kind, state, version, untold, open, published>>
  BY DEF Subscribe
<1>2. IsFiniteSet(wanted)
  BY SubscriptionsAssumption, FS_Subset
<1>3. list \in Seq(wanted) /\ \A i \in wanted : \E n \in DOMAIN list : list[n] = i
  BY <1>2, ListsAll
<1>4. list \in Seq(Items)
  BY <1>3, SeqMonotonic
<1> HIDE DEF list
<1>5. new \in FlowRecords /\ Len(new.got) = 0 /\ DOMAIN new.got = {} /\ Len(list) \in Nat /\ DOMAIN list = 1 .. Len(list)
  BY <1>4 DEF FlowRecords
<1> HIDE DEF new
<1>6. flow \in [Flows -> FlowRecords]
  BY DEF SubscriptionsInv, SubscriptionsType, FlowsType
<1>7. flow'[f] = new /\ \A g \in Flows \ {f} : flow'[g] = flow[g]
  BY <1>1, <1>6
<1>8. FlowsType'
  <2>1. OfOneMoment(new)
    BY <1>5 DEF OfOneMoment, new
  <2>2. flow' \in [Flows -> FlowRecords]
    BY <1>1, <1>5, <1>6
  <2> QED
    BY <1>7, <2>1, <2>2 DEF SubscriptionsInv, SubscriptionsType, FlowsType
<1>9. SubscriptionsType'
  BY <1>1, <1>8 DEF SubscriptionsInv, SubscriptionsType
<1>10. ToldOrDue'
  <2>1. ASSUME NEW i \in wanted
        PROVE  HasToRead(f, i)'
    <3>1. PICK n \in DOMAIN list : list[n] = i
      BY <1>3
    <3>2. n > 0
      BY <1>5
    <3>3. flow'[f].todo = list /\ Len(flow'[f].got) = 0
      BY <1>5, <1>7 DEF new
    <3> QED
      BY <3>1, <3>2, <3>3 DEF HasToRead
  <2> QED
    BY <1>1, <2>1 DEF ToldOrDue
<1> QED
  BY <1>1, <1>9, <1>10 DEF SubscriptionsInv

(* While the calls and what was published stay, so does what is due.        *)
LEMMA DueStays ==
  ASSUME UNCHANGED <<flow, published>>, NEW i,
         \E f \in Flows : HasToRead(f, i) \/ HasRead(f, i)
  PROVE  (\E f \in Flows : HasToRead(f, i) \/ HasRead(f, i))'
BY DEF HasToRead, HasRead

LEMMA ChangeKeeps ==
  ASSUME SubscriptionsInv, NEW i \in Items, NEW to, Change(i, to)
  PROVE  SubscriptionsInv'
<1>1. /\ version' = [version EXCEPT ![i] = @ + 1]
      /\ untold' \subseteq untold \cup {i}
      /\ UNCHANGED <<open, filters, flow, heard, published>>
  BY DEF Change
<1>2. SubscriptionsType'
  BY <1>1 DEF SubscriptionsInv, SubscriptionsType, FlowsType
<1>3. \A j \in Items : published'[j] <= version'[j]
  BY <1>1 DEF SubscriptionsInv, SubscriptionsType
<1>4. ToldOrDue'
  BY <1>1, DueStays DEF SubscriptionsInv, ToldOrDue
<1> QED
  BY <1>1, <1>2, <1>3, <1>4 DEF SubscriptionsInv

(* A subscriber of i hears what is published; for the others, nothing is.   *)
LEMMA PublishKeeps ==
  ASSUME SubscriptionsInv, NEW i \in Items, Publish(i)
  PROVE  SubscriptionsInv'
<1> DEFINE told == IF state[i] = "ISSUED" THEN version[i] - 1 ELSE version[i]
<1>1. /\ untold' = untold \ {i} /\ published' = [published EXCEPT ![i] = told]
      /\ heard' = IF Hears(i) THEN [heard EXCEPT ![i] = Newest(@, told)] ELSE heard
      /\ UNCHANGED <<kind, state, version, open, filters, flow>>
  BY DEF Publish
<1>2. version[i] \in Nat \ {0} /\ heard[i] \in Nat
  BY DEF SubscriptionsInv, SubscriptionsType
<1>3. told \in Nat /\ told <= version[i]
  BY <1>2
<1> HIDE DEF told
<1>4. Newest(heard[i], told) \in Nat /\ Newest(heard[i], told) >= told
  BY <1>2, <1>3 DEF Newest
<1>5. SubscriptionsType'
  BY <1>1, <1>3, <1>4 DEF SubscriptionsInv, SubscriptionsType, FlowsType
<1>6. \A j \in Items : published'[j] <= version'[j]
  BY <1>1, <1>3 DEF SubscriptionsInv, SubscriptionsType
<1>7. ToldOrDue'
  <2> SUFFICES ASSUME NEW j \in filters'
               PROVE  heard'[j] >= published'[j] \/ (\E f \in Flows : HasToRead(f, j) \/ HasRead(f, j))'
    BY DEF ToldOrDue
  <2>1. j \in filters /\ j \in Items /\ open
    BY <1>1 DEF SubscriptionsInv, SubscriptionsType
  <2>2. CASE j = i
    <3>1. Hears(i)
      BY <2>1, <2>2 DEF Hears
    <3>2. heard'[i] = Newest(heard[i], told) /\ published'[i] = told
      BY <1>1, <3>1 DEF SubscriptionsInv, SubscriptionsType
    <3> QED
      BY <1>4, <2>2, <3>2
  <2>3. CASE j # i
    <3>1. heard'[j] = heard[j] /\ published'[j] = published[j]
      BY <1>1, <2>1, <2>3 DEF SubscriptionsInv, SubscriptionsType
    <3>2. heard[j] >= published[j] \/ \E f \in Flows : HasToRead(f, j) \/ HasRead(f, j)
      BY <2>1 DEF SubscriptionsInv, ToldOrDue
    <3>3. \A f \in Flows : HasToRead(f, j) => HasToRead(f, j)'
      BY <1>1 DEF HasToRead
    <3>4. \A f \in Flows : HasRead(f, j) => HasRead(f, j)'
      BY <1>1, <3>1 DEF HasRead
    <3> QED
      BY <3>1, <3>2, <3>3, <3>4
  <2> QED
    BY <2>2, <2>3
<1> QED
  BY <1>1, <1>5, <1>6, <1>7 DEF SubscriptionsInv

(* What a query reads is at least as new as what was published before it.   *)
LEMMA ReadStateKeeps ==
  ASSUME SubscriptionsInv, NEW f \in Flows, ReadState(f)
  PROVE  SubscriptionsInv'
<1> DEFINE wanted == flow[f].todo
           batch == Batch(wanted)
           got == [n \in DOMAIN batch |-> [item |-> wanted[n], version |-> version[wanted[n]]]]
<1>1. /\ flow[f].got = <<>> /\ wanted # <<>> /\ flow' = [flow EXCEPT ![f].got = got]
      /\ UNCHANGED <<kind, state, version, untold, open, filters, heard, published>>
  BY DEF ReadState
<1>2. flow \in [Flows -> FlowRecords] /\ wanted \in Seq(Items)
  BY DEF SubscriptionsInv, SubscriptionsType, FlowsType, FlowRecords
<1> HIDE DEF wanted
<1>3. \E k \in Nat : k <= Len(wanted) /\ DOMAIN batch = 1 .. k
  <2>1. Len(wanted) \in Nat \ {0} /\ DOMAIN wanted = 1 .. Len(wanted)
    BY <1>1, <1>2, EmptySeq, LenProperties
  <2>2. DOMAIN <<Head(wanted)>> = 1 .. 1
    OBVIOUS
  <2>3. CASE kind = "proof_state"
    <3>1. Len(wanted) \in Nat /\ Len(wanted) <= Len(wanted) /\ DOMAIN batch = 1 .. Len(wanted)
      BY <2>1, <2>3 DEF Batch
    <3> QED
      BY <3>1
  <2>4. CASE kind # "proof_state"
    <3>1. 1 \in Nat /\ 1 <= Len(wanted) /\ DOMAIN batch = 1 .. 1
      BY <2>1, <2>2, <2>4 DEF Batch
    <3> QED
      BY <3>1
  <2> QED
    BY <2>3, <2>4
<1>4. PICK k \in Nat : k <= Len(wanted) /\ DOMAIN batch = 1 .. k
  BY <1>3
<1>5. \A n \in 1 .. Len(wanted) : wanted[n] \in Items /\ version[wanted[n]] \in Nat /\ published[wanted[n]] <= version[wanted[n]]
  BY <1>2, ElementOfSeq DEF SubscriptionsInv, SubscriptionsType
<1> HIDE DEF batch
<1>6. got \in [1 .. k -> ReadStates]
  BY <1>2, <1>4, <1>5, LenProperties DEF ReadStates
<1>7. got \in Seq(ReadStates) /\ Len(got) = k /\ DOMAIN got = 1 .. k
  BY <1>6, SeqDef
<1>8. \A n \in 1 .. k : got[n].item = wanted[n] /\ got[n].version = version[wanted[n]]
  BY <1>4
<1> HIDE DEF got
<1>9. flow' = [flow EXCEPT ![f] = [todo |-> wanted, got |-> got]]
  <2>1. flow' = [flow EXCEPT ![f] = [flow[f] EXCEPT !.got = got]]
    BY <1>1
  <2>2. flow[f] \in FlowRecords
    BY <1>2
  <2>3. [flow[f] EXCEPT !.got = got] = [todo |-> wanted, got |-> got]
    BY <2>2 DEF wanted, FlowRecords
  <2> QED
    BY <2>1, <2>3
<1>10. flow'[f].todo = wanted /\ flow'[f].got = got /\ \A g \in Flows \ {f} : flow'[g] = flow[g]
  BY <1>2, <1>9
<1>11. FlowsType'
  <2>1. flow' \in [Flows -> FlowRecords]
    BY <1>2, <1>7, <1>9 DEF FlowRecords
  <2>2. OfOneMoment([todo |-> wanted, got |-> got])
    BY <1>4, <1>7, <1>8 DEF OfOneMoment
  <2> QED
    BY <1>9, <1>10, <2>1, <2>2 DEF SubscriptionsInv, SubscriptionsType, FlowsType
<1>12. SubscriptionsType'
  BY <1>1, <1>11 DEF SubscriptionsInv, SubscriptionsType
<1>13. ToldOrDue'
  <2> SUFFICES ASSUME NEW i \in filters, ~(heard[i] >= published[i])
               PROVE  (\E g \in Flows : HasToRead(g, i) \/ HasRead(g, i))'
    BY <1>1 DEF ToldOrDue
  <2>1. PICK g \in Flows : HasToRead(g, i) \/ HasRead(g, i)
    BY DEF SubscriptionsInv, ToldOrDue
  <2>2. CASE g # f
    <3>1. flow'[g] = flow[g]
      BY <1>10, <2>2
    <3> QED
      BY <1>1, <2>1, <3>1 DEF HasToRead, HasRead
  <2>3. CASE g = f
    <3>1. ~HasRead(f, i)
      BY <1>1 DEF HasRead
    <3>2. PICK n \in DOMAIN wanted : wanted[n] = i
      BY <2>1, <2>3, <3>1 DEF HasToRead, wanted
    <3>3. DOMAIN wanted = 1 .. Len(wanted) /\ Len(wanted) \in Nat
      BY <1>2, LenProperties
    <3>4. CASE n <= k
      <4>1. n \in DOMAIN got /\ got[n].item = i /\ got[n].version >= published[i]
        BY <1>5, <1>7, <1>8, <3>2, <3>3, <3>4
      <4> QED
        BY <1>1, <1>10, <4>1 DEF HasRead
    <3>5. CASE n > k
      BY <1>7, <1>10, <3>2, <3>5 DEF HasToRead
    <3> QED
      BY <3>3, <3>4, <3>5
  <2> QED
    BY <2>2, <2>3
<1> QED
  BY <1>1, <1>12, <1>13 DEF SubscriptionsInv

(* What is left to read after a batch are the filters it did not read.      *)
LEMMA RestOfTodo ==
  ASSUME NEW wanted \in Seq(Items), NEW k \in Nat, k <= Len(wanted)
  PROVE  /\ SubSeq(wanted, k + 1, Len(wanted)) \in Seq(Items)
         /\ \A n \in DOMAIN wanted : n > k =>
              \E m \in DOMAIN SubSeq(wanted, k + 1, Len(wanted)) :
                m > 0 /\ SubSeq(wanted, k + 1, Len(wanted))[m] = wanted[n]
<1> DEFINE rest == SubSeq(wanted, k + 1, Len(wanted))
           len == Len(wanted)
<1>1. len \in Nat /\ DOMAIN wanted = 1 .. len /\ \A n \in 1 .. len : wanted[n] \in Items
  BY LenProperties, ElementOfSeq
<1>2. \A n \in k + 1 .. len : wanted[n] \in Items
  BY <1>1
<1>3. /\ rest \in Seq(Items)
      /\ Len(rest) = IF k + 1 <= len THEN len - (k + 1) + 1 ELSE 0
      /\ \A n \in 1 .. len - (k + 1) + 1 : rest[n] = wanted[k + 1 + n - 1]
  BY <1>1, <1>2, SubSeqProperties
<1>4. DOMAIN rest = 1 .. Len(rest)
  BY <1>3, LenProperties
<1> HIDE DEF rest, len
<1>5. ASSUME NEW n \in DOMAIN wanted, n > k
      PROVE  \E m \in DOMAIN rest : m > 0 /\ rest[m] = wanted[n]
  <2>0. n \in 1 .. len /\ n > k /\ k \in Nat /\ len \in Nat /\ k + 1 <= len
    BY <1>1, <1>5
  <2>1. n - k \in 1 .. len - (k + 1) + 1 /\ n - k \in DOMAIN rest /\ k + 1 + (n - k) - 1 = n
    <3>1. Len(rest) = len - (k + 1) + 1
      BY <1>3, <2>0
    <3>2. n - k \in 1 .. len - (k + 1) + 1 /\ k + 1 + (n - k) - 1 = n
      BY <2>0
    <3> QED
      BY <1>4, <3>1, <3>2
  <2>2. rest[n - k] = wanted[n] /\ n - k > 0
    BY <1>1, <1>3, <1>5, <2>1
  <2> QED
    BY <2>1, <2>2
<1> QED
  BY <1>3, <1>5 DEF rest, len

(* What was read is heard; what is left is still to be read.                *)
LEMMA SendStateKeeps ==
  ASSUME SubscriptionsInv, NEW f \in Flows, SendState(f)
  PROVE  SubscriptionsInv'
<1> DEFINE wanted == flow[f].todo
           got == flow[f].got
           rest == SubSeq(wanted, Len(got) + 1, Len(wanted))
           Sent(i) == \E p \in ToSet(got) : p.item = i
           The(i) == CHOOSE p \in ToSet(got) : p.item = i
<1>1. /\ heard' = IF ~open THEN heard
                  ELSE [i \in Items |-> IF Sent(i) THEN Newest(heard[i], The(i).version) ELSE heard[i]]
      /\ flow' = [flow EXCEPT ![f] = [todo |-> rest, got |-> <<>>]]
      /\ UNCHANGED <<kind, state, version, untold, open, filters, published>>
  BY DEF SendState, Rest
<1>2. flow \in [Flows -> FlowRecords] /\ wanted \in Seq(Items) /\ got \in Seq(ReadStates) /\ OfOneMoment(flow[f])
  BY DEF SubscriptionsInv, SubscriptionsType, FlowsType, FlowRecords
<1>3. Len(got) \in Nat /\ DOMAIN got = 1 .. Len(got) /\ \A n \in DOMAIN got : got[n] \in ReadStates
  BY <1>2, LenProperties, ElementOfSeq
<1>4. Len(got) <= Len(wanted)
  BY <1>2 DEF OfOneMoment
<1>5. rest \in Seq(Items) /\ \A n \in DOMAIN wanted : n > Len(got) =>
        \E m \in DOMAIN rest : m > 0 /\ rest[m] = wanted[n]
  BY <1>2, <1>3, <1>4, RestOfTodo
<1>6. ASSUME NEW n \in DOMAIN got
      PROVE  Sent(got[n].item) /\ The(got[n].item).version = got[n].version
  <2> DEFINE i == got[n].item
  <2>1. got[n] \in ToSet(got) /\ got[n].item = i
    BY DEF ToSet
  <2>2. The(i) \in ToSet(got) /\ The(i).item = i
    BY <2>1
  <2>3. PICK m \in DOMAIN got : The(i) = got[m]
    BY <2>2 DEF ToSet
  <2>4. got[m].item = got[n].item
    BY <2>2, <2>3
  <2>5. got[m].version = got[n].version
    BY <1>2, <2>4 DEF OfOneMoment
  <2> QED
    BY <2>1, <2>3, <2>5
<1>7. ASSUME NEW i, Sent(i)
      PROVE  \E n \in DOMAIN got : got[n].item = i /\ The(i).version = got[n].version
  <2>1. PICK n \in DOMAIN got : got[n].item = i
    BY <1>7 DEF ToSet
  <2> QED
    BY <1>6, <2>1
<1>8. \A i \in Items : Sent(i) => The(i).version \in Nat
  BY <1>3, <1>7 DEF ReadStates
<1> HIDE DEF wanted, got, rest, Sent, The
<1>9. heard' \in [Items -> Nat] /\ \A i \in Items : heard'[i] >= heard[i]
  BY <1>1, <1>8 DEF SubscriptionsInv, SubscriptionsType, Newest
<1>10. SubscriptionsType'
  <2>1. [todo |-> rest, got |-> <<>>] \in FlowRecords
    BY <1>5 DEF FlowRecords
  <2>2. OfOneMoment([todo |-> rest, got |-> <<>>])
    BY <1>5, LenProperties DEF OfOneMoment
  <2>3. flow' \in [Flows -> FlowRecords] /\ \A g \in Flows : OfOneMoment(flow'[g])
    BY <1>1, <1>2, <2>1, <2>2 DEF SubscriptionsInv, SubscriptionsType, FlowsType
  <2> QED
    BY <1>1, <1>9, <2>3 DEF SubscriptionsInv, SubscriptionsType, FlowsType
<1>11. ToldOrDue'
  <2> SUFFICES ASSUME NEW i \in filters, ~(heard'[i] >= published[i])
               PROVE  (\E g \in Flows : HasToRead(g, i) \/ HasRead(g, i))'
    BY <1>1 DEF ToldOrDue
  <2>1. i \in Items /\ open /\ heard[i] \in Nat /\ published[i] \in Nat /\ heard'[i] \in Nat
    BY <1>9 DEF SubscriptionsInv, SubscriptionsType
  <2>2. ~(heard[i] >= published[i])
    BY <1>9, <2>1
  <2>3. PICK g \in Flows : HasToRead(g, i) \/ HasRead(g, i)
    BY <2>2 DEF SubscriptionsInv, ToldOrDue
  <2>4. CASE g # f
    <3>1. flow'[g] = flow[g]
      BY <1>1, <1>2, <2>4
    <3> QED
      BY <1>1, <2>3, <3>1 DEF HasToRead, HasRead
  <2>5. CASE g = f
    <3>1. ~HasRead(f, i)
      <4> SUFFICES ASSUME HasRead(f, i)
                   PROVE  FALSE
        OBVIOUS
      <4>1. PICK n \in DOMAIN got : got[n].item = i /\ got[n].version >= published[i]
        BY DEF HasRead, got
      <4>2. Sent(i) /\ The(i).version = got[n].version
        BY <1>6, <4>1
      <4>3. heard'[i] = Newest(heard[i], got[n].version)
        BY <1>1, <2>1, <4>2
      <4>4. got[n].version \in Nat
        BY <1>3 DEF ReadStates
      <4> QED
        BY <2>1, <4>1, <4>3, <4>4 DEF Newest
    <3>2. PICK n \in DOMAIN wanted : n > Len(got) /\ wanted[n] = i
      BY <2>3, <2>5, <3>1 DEF HasToRead, wanted, got
    <3>3. PICK m \in DOMAIN rest : m > 0 /\ rest[m] = i
      BY <1>5, <3>2
    <3>4. flow'[f] = [todo |-> rest, got |-> <<>>]
      BY <1>1, <1>2
    <3>5. flow'[f].todo = rest /\ Len(flow'[f].got) = 0
      BY <3>4
    <3> QED
      BY <3>3, <3>5 DEF HasToRead
  <2> QED
    BY <2>4, <2>5
<1> QED
  BY <1>1, <1>10, <1>11 DEF SubscriptionsInv

(* Without a subscription nothing is due.                                   *)
LEMMA EndsKeep ==
  ASSUME SubscriptionsInv, Unsubscribe \/ Close \/ Crash
  PROVE  SubscriptionsInv'
<1>1. /\ filters' = {} /\ heard' = [i \in Items |-> 0] /\ untold' \subseteq untold
      /\ UNCHANGED <<version, published>>
  BY DEF Unsubscribe, Close, Crash
<1>2. FlowsType'
  <2>1. CASE flow' = flow
    BY <2>1 DEF SubscriptionsInv, SubscriptionsType, FlowsType
  <2>2. CASE flow' = [f \in Flows |-> Done]
    <3>1. OfOneMoment(Done)
      BY DEF OfOneMoment, Done
    <3>2. Done \in FlowRecords
      BY DoneIsFlow
    <3> QED
      BY <2>2, <3>1, <3>2 DEF FlowsType
  <2> QED
    BY <2>1, <2>2 DEF Unsubscribe, Close, Crash
<1> QED
  BY <1>1, <1>2 DEF SubscriptionsInv, SubscriptionsType, ToldOrDue

LEMMA SubscriptionsStep == SubscriptionsInv /\ [SubscriptionsNext]_subscriptionVars => SubscriptionsInv'
<1> SUFFICES ASSUME SubscriptionsInv, [SubscriptionsNext]_subscriptionVars
             PROVE  SubscriptionsInv'
  OBVIOUS
<1>1. CASE \E i \in Items :
             Publish(i) \/ \E to \in {"PAID", "ISSUED", "PENDING", "UNPAID", "SPENT", "UNSPENT"} : Change(i, to)
  BY <1>1, PublishKeeps, ChangeKeeps
<1>2. CASE UNCHANGED subscriptionVars
  <2>1. UNCHANGED <<version, untold, open, filters, flow, heard, published>>
    BY <1>2 DEF subscriptionVars
  <2>2. SubscriptionsType'
    BY <2>1 DEF SubscriptionsInv, SubscriptionsType, FlowsType
  <2>3. ToldOrDue'
    BY <2>1, DueStays DEF SubscriptionsInv, ToldOrDue
  <2> QED
    BY <2>1, <2>2, <2>3 DEF SubscriptionsInv
<1>3. CASE Connect
  <2>1. open' /\ ~open /\ UNCHANGED <<version, untold, filters, flow, heard, published>>
    BY <1>3 DEF Connect
  <2>2. SubscriptionsType'
    BY <2>1 DEF SubscriptionsInv, SubscriptionsType, FlowsType
  <2>3. filters' = {}
    BY <2>1 DEF SubscriptionsInv
  <2> QED
    BY <2>1, <2>2, <2>3 DEF SubscriptionsInv, ToldOrDue
<1>4. CASE Unsubscribe \/ Close \/ Crash
  BY <1>4, EndsKeep
<1>5. CASE \E f \in Flows :
             ReadState(f) \/ SendState(f) \/ \E wanted \in SUBSET Items \ {{}} : Subscribe(f, wanted)
  BY <1>5, ReadStateKeeps, SendStateKeeps, SubscribeKeeps
<1> QED
  BY <1>1, <1>2, <1>3, <1>4, <1>5 DEF SubscriptionsNext

(* No change falls between the initial state a subscriber is sent and the   *)
(* notifications (handleSubscribe, sendInitialState, onNotification), for   *)
(* any items, any order of publishing and any calls of subscribe that       *)
(* overlap, those of an earlier subscription included.                      *)
THEOREM InformedCorrect == SubscriptionsSpec => []Informed
<1>1. SubscriptionsInit => SubscriptionsInv
  <2> SUFFICES ASSUME SubscriptionsInit
               PROVE  SubscriptionsInv
    OBVIOUS
  <2>1. OfOneMoment(Done)
    BY DEF OfOneMoment, Done
  <2>2. FlowsType
    BY <2>1, DoneIsFlow DEF SubscriptionsInit, FlowsType
  <2> QED
    BY <2>2 DEF SubscriptionsInit, SubscriptionsInv, SubscriptionsType, ToldOrDue
<1>2. ASSUME SubscriptionsInv
      PROVE  Informed
  <2> SUFFICES ASSUME \A f \in Flows : flow[f] = Done, NEW i \in filters
               PROVE  heard[i] >= published[i]
    BY DEF Informed
  <2>1. \A f \in Flows : DOMAIN flow[f].todo = {} /\ DOMAIN flow[f].got = {}
    BY DEF Done
  <2>2. \A f \in Flows : ~HasToRead(f, i) /\ ~HasRead(f, i)
    BY <2>1 DEF HasToRead, HasRead
  <2> QED
    BY <1>2, <2>2 DEF SubscriptionsInv, ToldOrDue
<1> QED
  BY <1>1, <1>2, SubscriptionsStep, PTL DEF SubscriptionsSpec
================================================================================
