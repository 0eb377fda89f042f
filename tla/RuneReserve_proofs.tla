--------------------------- MODULE RuneReserve_proofs ---------------------------
(***************************************************************************)
(* mint_utxos against the chain, and the runes that come in and go out, for *)
(* any deposits, withdrawals and amounts.                                   *)
(***************************************************************************)
EXTENDS RuneReserve, DataTheorems, TLAPS

(* A set that covers an amount is one of those it is taken from.            *)
LEMMA CoveringWithin ==
  ASSUME NEW S, NEW amount, NEW T \in Covering(S, amount)
  PROVE  T \subseteq S
BY DEF Covering

(* What is selected is confirmed and, so far, unspent.                      *)
LEMMA SelectedIsSpendable ==
  ASSUME NEW amount, NEW S \in Selections(amount)
  PROVE  \A o \in S : o \in mined /\ held[o] > 0 /\ spender[o] = None
<1>1. \E offered : S \in Covering(Spendable(offered), amount)
  BY DEF Selections
<1>2. QED
  BY <1>1, CoveringWithin DEF Spendable

-----------------------------------------------------------------------------

LEMMA TypeStep == TypeOK /\ [Next]_vars => TypeOK'
<1> SUFFICES ASSUME TypeOK, [Next]_vars
             PROVE  TypeOK'
  OBVIOUS
<1> USE DEF TypeOK, chainVars, callVars
<1>1. ASSUME NEW d \in Deposits, Arrive(d)
      PROVE  TypeOK'
  BY <1>1 DEF Arrive, Outputs
<1>2. ASSUME NEW d \in Deposits, Claim(d)
      PROVE  TypeOK'
  BY <1>2 DEF Claim
<1>3. ASSUME NEW o \in Outputs, Mine(o)
      PROVE  TypeOK'
  BY <1>3 DEF Mine
<1>4. ASSUME NEW o \in Outputs, See(o)
      PROVE  TypeOK'
  BY <1>4 DEF See
<1>5. ASSUME NEW o \in Outputs, SyncInsert(o)
      PROVE  TypeOK'
  BY <1>5 DEF SyncInsert, AddUtxo
<1>6. ASSUME NEW o \in Outputs, SyncSkip(o)
      PROVE  TypeOK'
  BY <1>6 DEF SyncSkip
<1>7. ASSUME NEW w \in Withdrawals, Select(w)
      PROVE  TypeOK'
  <2>1. PICK S \in Selections(Amount[w]), f \in SatUtxos :
          job' = [job EXCEPT ![w] = [coins |-> S, fee |-> f, unmarked |-> S]]
    BY <1>7 DEF Select
  <2>2. S \subseteq Outputs /\ f \in FeeOutputs
    BY <2>1, SelectedIsSpendable DEF SatUtxos
  <2>3. job' \in [Withdrawals -> Jobs]
    BY <2>1, <2>2 DEF Jobs
  <2>4. QED
    BY <1>7, <2>3 DEF Select
<1>8. ASSUME NEW w \in Withdrawals, Send(w), UNCHANGED <<mined, row, claimed, seen, job>>,
             NEW to \in {"mark", "failed"}, pc' = [pc EXCEPT ![w] = to]
      PROVE  TypeOK'
  <2>1. Amount[w] \in Nat
    BY ReserveAssumption
  <2>2. paid' \in [Withdrawals -> Nat]
    BY <1>8, <2>1 DEF Send, Edict
  <2>3. DOMAIN held' = Outputs
    BY <1>8 DEF Send
  <2>4. spender' \in [Outputs -> Withdrawals \cup {None}]
    BY <1>8 DEF Send
  <2>5. feeSpender' \in [FeeOutputs -> Withdrawals \cup {None}]
    BY <1>8 DEF Send
  <2>6. QED
    BY <1>8, <2>2, <2>3, <2>4, <2>5 DEF Send, Outputs
<1>9. ASSUME NEW w \in Withdrawals, MarkInput(w)
      PROVE  TypeOK'
  <2>1. PICK o \in job[w].unmarked :
          /\ MarkSpent(o)
          /\ job' = [job EXCEPT ![w].unmarked = @ \ {o}]
          /\ pc' = [pc EXCEPT ![w] = IF job[w].unmarked = {o} THEN "track" ELSE "mark"]
    BY <1>9 DEF MarkInput
  <2>2. row' \in [Outputs -> {"none", "unspent", "spent"}]
    BY <2>1 DEF MarkSpent
  <2>3. job' \in [Withdrawals -> Jobs]
    <3> DEFINE new == [job[w] EXCEPT !.unmarked = job[w].unmarked \ {o}]
    <3>1. job' = [job EXCEPT ![w] = new]
      BY <2>1
    <3>2. job[w] \in Jobs
      OBVIOUS
    <3>3. new \in Jobs
      BY <3>2 DEF Jobs
    <3>4. QED
      BY <3>1, <3>3
  <2>4. QED
    BY <1>9, <2>1, <2>2, <2>3 DEF MarkInput
<1>10. ASSUME NEW w \in Withdrawals, TrackReturn(w)
       PROVE  TypeOK'
  <2>1. row' \in [Outputs -> {"none", "unspent", "spent"}]
    BY <1>10 DEF TrackReturn, AddUtxo
  <2>2. QED
    BY <1>10, <2>1 DEF TrackReturn
<1>11. ASSUME NEW w \in Withdrawals, Fail(w)
       PROVE  TypeOK'
  BY <1>11 DEF Fail
<1>12. ASSUME NEW w \in Withdrawals, Retry(w)
       PROVE  TypeOK'
  BY <1>12 DEF Retry, NoJob, Jobs
<1>13. ASSUME NEW w \in Withdrawals, SendRunes(w)
       PROVE  TypeOK'
  BY <1>7, <1>8, <1>9, <1>10, <1>11, <1>12, <1>13
     DEF SendRunes, Broadcast, BroadcastUnanswered, Send
<1>14. CASE UNCHANGED vars
  BY <1>14 DEF vars
<1>15. QED
  BY <1>1, <1>2, <1>3, <1>4, <1>5, <1>6, <1>13, <1>14 DEF Next

(* Every reachable state of the reserve is well typed; mined transactions   *)
(* are known ones, as the node is asked for a coin that ord listed.         *)
THEOREM TypeCorrect == Spec => []TypeOK
<1>1. Init => TypeOK
  BY ReserveAssumption DEF Init, TypeOK, Outputs, Jobs, NoJob
<1>2. QED
  BY <1>1, TypeStep, PTL DEF Spec

-----------------------------------------------------------------------------

(* A call marks the inputs of a transaction that is out: what it has still  *)
(* to mark is spent, and before the broadcast all of it is still to mark.   *)
Marking ==
  \A w \in Withdrawals :
    /\ pc[w] = "broadcast" => job[w].unmarked = job[w].coins
    /\ pc[w] = "mark" => \A o \in job[w].unmarked : spender[o] # None

RowsInv == TypeOK /\ Marking /\ SpentRowIsSpent

(* What the chain has spent stays spent.                                    *)
LEMMA SpenderStays ==
  ASSUME TypeOK, [Next]_vars, NEW o \in Outputs, spender[o] # None
  PROVE  spender'[o] # None
<1>1. CASE UNCHANGED spender
  BY <1>1
<1>2. ASSUME NEW w \in Withdrawals, Send(w)
      PROVE  spender'[o] # None
  BY <1>2, ReserveAssumption DEF Send
<1>3. QED
  BY <1>1, <1>2
     DEF Next, vars, chainVars, callVars, Arrive, Claim, Mine, See, SyncInsert, SyncSkip, SendRunes,
         Select, Broadcast, BroadcastUnanswered, MarkInput, TrackReturn, Fail, Retry

(* A row becomes spent only by the call that has it to mark, and then stays *)
(* as it is.                                                                *)
LEMMA RowStep ==
  ASSUME TypeOK, [Next]_vars, NEW o \in Outputs
  PROVE  /\ row[o] = "spent" => row'[o] = "spent"
         /\ row[o] # "spent" /\ row'[o] = "spent" =>
              \E w \in Withdrawals : pc[w] = "mark" /\ o \in job[w].unmarked
<1>1. CASE UNCHANGED row
  BY <1>1
<1>2. ASSUME NEW p \in Outputs, AddUtxo(p)
      PROVE  (row[o] = "spent") <=> (row'[o] = "spent")
  BY <1>2 DEF AddUtxo, TypeOK
<1>3. ASSUME NEW w \in Withdrawals, MarkInput(w)
      PROVE  /\ row[o] = "spent" => row'[o] = "spent"
             /\ row[o] # "spent" /\ row'[o] = "spent" => pc[w] = "mark" /\ o \in job[w].unmarked
  BY <1>3 DEF MarkInput, MarkSpent, TypeOK
<1>4. Withdrawals \subseteq Outputs
  BY DEF Outputs
<1>5. QED
  BY <1>1, <1>2, <1>3, <1>4
     DEF Next, vars, chainVars, callVars, Arrive, Claim, Mine, See, SyncInsert, SyncSkip, SendRunes,
         Select, Broadcast, BroadcastUnanswered, Send, TrackReturn, Fail, Retry

LEMMA MarkingStep == TypeOK /\ Marking /\ [Next]_vars => Marking'
<1> SUFFICES ASSUME TypeOK, Marking, [Next]_vars, NEW w \in Withdrawals
             PROVE  /\ pc'[w] = "broadcast" => job'[w].unmarked = job'[w].coins
                    /\ pc'[w] = "mark" => \A o \in job'[w].unmarked : spender'[o] # None
  BY DEF Marking
<1> DEFINE Goal == /\ pc'[w] = "broadcast" => job'[w].unmarked = job'[w].coins
                   /\ pc'[w] = "mark" => \A o \in job'[w].unmarked : spender'[o] # None
<1>0. job[w].unmarked \subseteq Outputs /\ job[w].coins \subseteq Outputs
  BY DEF TypeOK, Jobs
<1>1. CASE pc'[w] = pc[w] /\ job'[w] = job[w]
  BY <1>0, <1>1, SpenderStays DEF Marking
<1>2. CASE pc'[w] \notin {"broadcast", "mark"}
  BY <1>2
<1>3. CASE Select(w)
  <2>1. pc'[w] = "broadcast" /\ job'[w].unmarked = job'[w].coins
    BY <1>3 DEF Select, TypeOK
  <2>2. QED
    BY <2>1
<1>4. CASE Broadcast(w)
  <2>1. pc[w] = "broadcast" /\ pc'[w] = "mark" /\ job'[w] = job[w]
    BY <1>4 DEF Broadcast, Send, TypeOK
  <2>2. job[w].unmarked = job[w].coins
    BY <2>1 DEF Marking
  <2>3. \A o \in job[w].coins : spender'[o] = w
    BY <1>0, <1>4 DEF Broadcast, Send
  <2>4. QED
    BY <2>1, <2>2, <2>3, ReserveAssumption
<1>5. CASE MarkInput(w)
  <2>1. pc[w] = "mark" /\ pc'[w] # "broadcast" /\ job'[w].unmarked \subseteq job[w].unmarked
    BY <1>5 DEF MarkInput, TypeOK, Jobs
  <2>2. QED
    BY <1>0, <2>1, SpenderStays DEF Marking
<1>6. ASSUME NEW v \in Withdrawals, SendRunes(v)
      PROVE  Goal
  <2>1. CASE v # w
    <3>1. pc'[w] = pc[w] /\ job'[w] = job[w]
      BY <1>6, <2>1
         DEF SendRunes, Select, Broadcast, BroadcastUnanswered, Send, MarkInput, TrackReturn, Fail,
             Retry, TypeOK, chainVars
    <3>2. QED
      BY <3>1, <1>1
  <2>2. CASE v = w /\ (BroadcastUnanswered(w) \/ TrackReturn(w) \/ Fail(w) \/ Retry(w))
    <3>1. pc'[w] \notin {"broadcast", "mark"}
      BY <2>2 DEF BroadcastUnanswered, TrackReturn, Fail, Retry, TypeOK
    <3>2. QED
      BY <3>1
  <2>3. QED
    BY <1>3, <1>4, <1>5, <1>6, <2>1, <2>2 DEF SendRunes
<1>7. CASE UNCHANGED callVars
  BY <1>7, <1>1 DEF callVars
<1>8. QED
  BY <1>6, <1>7
     DEF Next, vars, chainVars, callVars, Arrive, Claim, Mine, See, SyncInsert, SyncSkip

LEMMA RowsStep == RowsInv /\ [Next]_vars => RowsInv'
<1> SUFFICES ASSUME RowsInv, [Next]_vars
             PROVE  RowsInv'
  OBVIOUS
<1>1. TypeOK' /\ Marking'
  BY TypeStep, MarkingStep DEF RowsInv
<1>2. ASSUME NEW o \in Outputs, row'[o] = "spent"
      PROVE  spender'[o] # None
  <2>1. spender[o] # None
    BY <1>2, RowStep DEF RowsInv, SpentRowIsSpent, Marking
  <2>2. QED
    BY <2>1, SpenderStays DEF RowsInv
<1>3. QED
  BY <1>1, <1>2 DEF RowsInv, SpentRowIsSpent

LEMMA RowsInitially == Init => RowsInv
<1> SUFFICES ASSUME Init
             PROVE  RowsInv
  OBVIOUS
<1>1. TypeOK
  BY ReserveAssumption DEF Init, TypeOK, Outputs, Jobs, NoJob
<1>2. Marking /\ SpentRowIsSpent
  BY DEF Init, Marking, SpentRowIsSpent
<1>3. QED
  BY <1>1, <1>2 DEF RowsInv

LEMMA RowsAlways == Spec => []RowsInv
BY RowsInitially, RowsStep, PTL DEF Spec

(* mint_utxos calls no coin spent that the mint still has, wherever         *)
(* sendRunes fails, loses an answer or is cut off, for any number of calls. *)
THEOREM SpentRowCorrect == Spec => []SpentRowIsSpent
<1>1. RowsInv => SpentRowIsSpent
  BY DEF RowsInv
<1>2. QED
  BY <1>1, RowsAlways, PTL

(* UtxoManager.addUtxo never brings a spent row back, however old the       *)
(* answer that the sync inserts.                                            *)
THEOREM SpentStays == Spec => SpentStaysSpent
<1>1. RowsInv /\ [Next]_vars => [\A o \in Outputs : row[o] = "spent" => row'[o] = "spent"]_vars
  BY RowStep DEF RowsInv
<1>2. QED
  BY <1>1, RowsAlways, PTL DEF Spec, SpentStaysSpent

-----------------------------------------------------------------------------
(* What the coins are worth.                                                *)

LEMMA WorthIsSum ==
  ASSUME NEW S
  PROVE  Worth(S) = SumOver(held, S)
BY DEF Worth, SumOver

LEMMA WorthIsSumNext ==
  /\ Worth(Coins)' = SumOver(held', Coins')
  /\ \A w : Worth(job[w].coins)' = SumOver(held', job'[w].coins)
<1>1. Worth(Coins)' = SumOver(held', Coins')
  BY DEF Worth, SumOver, MapThenSumSet, MapThenFoldSet
<1>2. ASSUME NEW w PROVE Worth(job[w].coins)' = SumOver(held', job'[w].coins)
  BY DEF Worth, SumOver, MapThenSumSet, MapThenFoldSet
<1> QED
  BY <1>1, <1>2

(* Only finitely many transactions are known.  What an output holds, and    *)
(* that a withdrawal paid, is settled when its transaction gets known: a    *)
(* call that has not broadcast has selected coins that cover its amount.    *)
CoinsInv ==
  /\ IsFiniteSet(known)
  /\ \A o \in Outputs : held[o] \in Nat
  /\ \A o \in Outputs : spender[o] # None => o \in known
  /\ \A w \in Withdrawals :
       /\ w \notin known => paid[w] = 0
       /\ pc[w] \in {"select", "broadcast"} => w \notin known
       /\ pc[w] = "broadcast" =>
            job[w].coins \subseteq known /\ Worth(job[w].coins) >= Amount[w]

LEMMA FinitePart ==
  ASSUME TypeOK, CoinsInv, NEW S, S \subseteq known
  PROVE  IsFiniteSet(S) /\ (\A o \in S : held[o] \in Nat) /\ Worth(S) \in Nat
<1>1. IsFiniteSet(S) /\ \A o \in S : held[o] \in Nat
  BY FS_Subset DEF CoinsInv, TypeOK
<1> QED
  BY <1>1, SumType, WorthIsSum

LEMMA CoinsInitially == Init => CoinsInv
<1> SUFFICES ASSUME Init PROVE CoinsInv
  OBVIOUS
<1>1. \A o \in Outputs : held[o] \in Nat /\ spender[o] = None
  BY ReserveAssumption DEF Init, Outputs
<1>2. \A w \in Withdrawals : paid[w] = 0 /\ pc[w] = "select" /\ w \notin known
  BY ReserveAssumption DEF Init
<1> QED
  BY <1>1, <1>2, ReserveAssumption DEF Init, CoinsInv

(* A transaction that is known keeps the runes on its output.               *)
LEMMA HeldStays ==
  ASSUME TypeOK, CoinsInv, [Next]_vars, NEW o \in known
  PROVE  held'[o] = held[o] /\ o \in known'
<1>1. CASE UNCHANGED <<known, held>>
  BY <1>1
<1>2. ASSUME NEW d \in Deposits, Arrive(d) PROVE held'[o] = held[o] /\ o \in known'
  BY <1>2 DEF Arrive, TypeOK
<1>3. ASSUME NEW w \in Withdrawals, Send(w) PROVE held'[o] = held[o] /\ o \in known'
  BY <1>3 DEF Send, TypeOK, CoinsInv
<1> QED
  BY <1>1, <1>2, <1>3
     DEF Next, vars, chainVars, callVars, Arrive, Claim, Mine, See, SyncInsert, SyncSkip, SendRunes,
         Select, Broadcast, BroadcastUnanswered, MarkInput, TrackReturn, Fail, Retry

LEMMA WorthStays ==
  ASSUME TypeOK, CoinsInv, [Next]_vars, NEW S, S \subseteq known
  PROVE  SumOver(held', S) = Worth(S)
<1>1. \A o \in S : held'[o] = held[o]
  BY HeldStays
<1>2. IsFiniteSet(S)
  BY FinitePart
<1>3. SumOver(held', S) = SumOver(held, S)
  BY <1>1, <1>2, SumEqual
<1> QED
  BY <1>3, WorthIsSum

(* What is selected is known and covers the amount.                         *)
LEMMA SelectedCovers ==
  ASSUME TypeOK, NEW amount, NEW S \in Selections(amount)
  PROVE  S \subseteq known /\ Worth(S) >= amount
<1>1. S \subseteq known
  BY SelectedIsSpendable DEF TypeOK
<1>2. Worth(S) >= amount
  <2>1. \E offered : S \in Covering(Spendable(offered), amount)
    BY DEF Selections
  <2> QED
    BY <2>1 DEF Covering
<1> QED
  BY <1>1, <1>2

(* The transaction of a call spends its coins and returns what is left.     *)
LEMMA SendCoins ==
  ASSUME TypeOK, CoinsInv, NEW w \in Withdrawals, Send(w)
  PROVE  /\ job[w].coins \subseteq Coins
         /\ Worth(job[w].coins) \in Nat /\ Worth(job[w].coins) >= Amount[w]
         /\ w \notin known
         /\ held'[w] = Worth(job[w].coins) - Amount[w]
         /\ held'[w] \in Nat
         /\ \A o \in Outputs : o # w => held'[o] = held[o]
         /\ Coins' = (Coins \ job[w].coins) \cup (IF held'[w] > 0 THEN {w} ELSE {})
<1> DEFINE c == job[w].coins
<1>1. pc[w] = "broadcast" /\ c \subseteq Coins
  BY DEF Send, Acceptable
<1>2. w \notin known /\ w \in Outputs /\ c \subseteq known /\ Worth(c) >= Amount[w]
  BY <1>1 DEF CoinsInv, Outputs
<1>3. Worth(c) \in Nat /\ Amount[w] \in Nat
  BY <1>2, FinitePart, ReserveAssumption
<1>4. /\ held' = [held EXCEPT ![w] = Worth(c) - Amount[w]]
      /\ known' = known \cup {w}
      /\ spender' = [o \in Outputs |-> IF o \in c THEN w ELSE spender[o]]
  BY DEF Send, Edict
<1> HIDE DEF c
<1>5. held'[w] = Worth(c) - Amount[w] /\ \A o \in Outputs : o # w => held'[o] = held[o]
  BY <1>2, <1>4 DEF TypeOK
<1>6. held'[w] \in Nat
  BY <1>2, <1>3, <1>5
<1>7. spender[w] = None /\ w \notin c
  BY <1>1, <1>2 DEF CoinsInv
<1>8. w # None
  BY ReserveAssumption
<1>9. \A o \in known : o \in Outputs /\ o # w
  BY <1>2 DEF TypeOK
<1>10. Coins' = (Coins \ c) \cup (IF held'[w] > 0 THEN {w} ELSE {})
  <2>1. ASSUME NEW o
        PROVE  o \in Coins' <=> o \in (Coins \ c) \cup (IF held'[w] > 0 THEN {w} ELSE {})
    <3>1. CASE o \in known
      BY <1>4, <1>5, <1>8, <1>9, <3>1 DEF Coins
    <3>2. CASE o = w
      BY <1>2, <1>4, <1>7, <3>2 DEF Coins
    <3>3. CASE o \notin known /\ o # w
      BY <1>4, <3>3 DEF Coins
    <3> QED
      BY <3>1, <3>2, <3>3
  <2> QED
    BY <2>1
<1> QED
  BY <1>1, <1>2, <1>3, <1>5, <1>6, <1>10 DEF c

LEMMA CoinsStep == TypeOK /\ CoinsInv /\ [Next]_vars => CoinsInv'
<1> SUFFICES ASSUME TypeOK, CoinsInv, [Next]_vars PROVE CoinsInv'
  OBVIOUS
<1>1. IsFiniteSet(known')
  <2>1. \/ known' = known
        \/ \E t : known' = known \cup {t}
    BY DEF Next, vars, chainVars, callVars, Arrive, Claim, Mine, See, SyncInsert, SyncSkip,
           SendRunes, Select, Broadcast, BroadcastUnanswered, Send, MarkInput, TrackReturn,
           Fail, Retry
  <2> QED
    BY <2>1, FS_AddElement DEF CoinsInv
<1>2. \A o \in Outputs : held'[o] \in Nat
  <2>1. CASE UNCHANGED held
    BY <2>1 DEF CoinsInv
  <2>2. ASSUME NEW d \in Deposits, Arrive(d), NEW o \in Outputs PROVE held'[o] \in Nat
    BY <2>2, ReserveAssumption DEF Arrive, TypeOK, CoinsInv
  <2>3. ASSUME NEW w \in Withdrawals, Send(w), NEW o \in Outputs PROVE held'[o] \in Nat
    BY <2>3, SendCoins DEF CoinsInv
  <2> QED
    BY <2>1, <2>2, <2>3
       DEF Next, vars, chainVars, callVars, Claim, Mine, See, SyncInsert, SyncSkip,
           SendRunes, Select, Broadcast, BroadcastUnanswered, MarkInput, TrackReturn, Fail, Retry
<1>3. \A o \in Outputs : spender'[o] # None => o \in known'
  <2>1. CASE UNCHANGED spender
    BY <2>1, HeldStays DEF CoinsInv
  <2>2. ASSUME NEW w \in Withdrawals, Send(w), NEW o \in Outputs, spender'[o] # None
        PROVE  o \in known'
    BY <2>2, HeldStays DEF Send, Acceptable, Coins, CoinsInv
  <2> QED
    BY <2>1, <2>2
       DEF Next, vars, chainVars, callVars, Arrive, Claim, Mine, See, SyncInsert, SyncSkip,
           SendRunes, Select, Broadcast, BroadcastUnanswered, MarkInput, TrackReturn, Fail, Retry
<1> DEFINE Call(w) ==
      /\ w \notin known => paid[w] = 0
      /\ pc[w] \in {"select", "broadcast"} => w \notin known
      /\ pc[w] = "broadcast" =>
           job[w].coins \subseteq known /\ Worth(job[w].coins) >= Amount[w]
<1>4. ASSUME NEW w \in Withdrawals
      PROVE  /\ w \notin known' => paid'[w] = 0
             /\ pc'[w] \in {"select", "broadcast"} => w \notin known'
             /\ pc'[w] = "broadcast" => /\ job'[w].coins \subseteq known'
                                        /\ SumOver(held', job'[w].coins) >= Amount[w]
  <2>1. CASE /\ pc'[w] \in {"select", "broadcast"} => pc'[w] = pc[w]
             /\ job'[w].coins = job[w].coins
             /\ w \in known' <=> w \in known
             /\ paid'[w] = paid[w]
    <3>1. pc[w] = "broadcast" => SumOver(held', job[w].coins) = Worth(job[w].coins)
      BY WorthStays DEF CoinsInv
    <3> QED
      BY <2>1, <3>1, HeldStays DEF CoinsInv
  <2>2. CASE Select(w)
    <3>1. /\ pc[w] = "select" /\ pc'[w] = "broadcast" /\ known' = known /\ paid' = paid
          /\ job'[w].coins \in Selections(Amount[w])
      BY <2>2 DEF Select, TypeOK, chainVars
    <3>2. job'[w].coins \subseteq known /\ Worth(job'[w].coins) >= Amount[w]
      BY <3>1, SelectedCovers
    <3>3. SumOver(held', job'[w].coins) = Worth(job'[w].coins)
      BY <3>2, WorthStays
    <3> QED
      BY <3>1, <3>2, <3>3 DEF CoinsInv
  <2>3. CASE Broadcast(w) \/ BroadcastUnanswered(w)
    BY <2>3 DEF Broadcast, BroadcastUnanswered, Send, TypeOK
  <2>4. CASE Retry(w)
    BY <2>4 DEF Retry, TypeOK, CoinsInv, chainVars
  <2>5. CASE MarkInput(w) \/ TrackReturn(w) \/ Fail(w)
    <3>1. /\ pc'[w] \notin {"select", "broadcast"}
          /\ known' = known /\ paid' = paid
      BY <2>5 DEF MarkInput, TrackReturn, Fail, TypeOK, chainVars
    <3> QED
      BY <3>1 DEF CoinsInv
  <2>6. ASSUME NEW v \in Withdrawals, v # w, SendRunes(v)
        PROVE  /\ pc'[w] = pc[w] /\ job'[w] = job[w] /\ paid'[w] = paid[w]
               /\ w \in known' <=> w \in known
    BY <2>6 DEF SendRunes, Select, Broadcast, BroadcastUnanswered, Send, MarkInput, TrackReturn,
                Fail, Retry, TypeOK, chainVars
  <2>7. ASSUME ~\E v \in Withdrawals : SendRunes(v)
        PROVE  UNCHANGED <<pc, job, paid>> /\ (w \in known' <=> w \in known)
    BY <2>7, ReserveAssumption
       DEF Next, vars, chainVars, callVars, Arrive, Claim, Mine, See, SyncInsert, SyncSkip
  <2> QED
    BY <2>1, <2>2, <2>3, <2>4, <2>5, <2>6, <2>7 DEF SendRunes
<1>5. \A w \in Withdrawals : Worth(job[w].coins)' = SumOver(held', job'[w].coins)
  BY WorthIsSumNext
<1> QED
  BY <1>1, <1>2, <1>3, <1>4, <1>5 DEF CoinsInv

TreasuryInv == TypeOK /\ CoinsInv

LEMMA TreasuryAlways == Spec => []TreasuryInv
<1>1. Init => TreasuryInv
  BY RowsInitially, CoinsInitially DEF TreasuryInv, RowsInv
<1>2. TreasuryInv /\ [Next]_vars => TreasuryInv'
  BY TypeStep, CoinsStep DEF TreasuryInv
<1> QED
  BY <1>1, <1>2, PTL DEF Spec

-----------------------------------------------------------------------------
(* The reserve implements the treasury.                                     *)

LEMMA ReserveInitially == Init => Holdings!Init
<1> SUFFICES ASSUME Init PROVE Holdings!Init
  OBVIOUS
<1>1. TypeOK /\ CoinsInv
  BY RowsInitially, CoinsInitially DEF RowsInv
<1>2. Worth(Coins) \in Nat
  BY <1>1, FinitePart DEF Coins
<1> QED
  BY <1>2 DEF Init, Holdings!Init

LEMMA ReceiveStep ==
  ASSUME TreasuryInv, NEW d \in Deposits, Arrive(d)
  PROVE  Holdings!Receive
<1>1. d \in Outputs /\ d \notin known /\ spender[d] = None
  BY DEF TreasuryInv, CoinsInv, Arrive, Outputs
<1>2. /\ held'[d] = Value[d] /\ Value[d] \in Nat /\ Value[d] > 0
      /\ \A o \in known : held'[o] = held[o]
  BY <1>1, ReserveAssumption DEF TreasuryInv, TypeOK, Arrive
<1>3. Coins' = Coins \cup {d} /\ d \notin Coins
  BY <1>1, <1>2 DEF Coins, Arrive
<1>4. /\ IsFiniteSet(Coins) /\ Coins \subseteq known /\ Worth(Coins) \in Nat
      /\ \A o \in Coins : held[o] \in Nat
  BY FinitePart DEF TreasuryInv, Coins
<1>5. SumOver(held', Coins) = Worth(Coins)
  BY <1>2, <1>4, SumEqual, WorthIsSum
<1>6. SumOver(held', Coins \cup {d}) = SumOver(held', Coins) + held'[d]
  <2>1. \A o \in Coins : held'[o] \in Nat
    BY <1>2, <1>4
  <2> QED
    BY <1>2, <1>3, <1>4, <2>1, SumAdd
<1>7. Worth(Coins)' = Worth(Coins) + Value[d]
  BY <1>2, <1>3, <1>5, <1>6, WorthIsSumNext
<1> DEFINE before == Worth(Coins)
           after == Worth(Coins)'
<1>8. after > before
  <2> HIDE DEF before, after
  <2> QED
    BY <1>2, <1>4, <1>7 DEF before, after
<1> QED
  BY <1>8 DEF Holdings!Receive, Arrive

LEMMA PayStep ==
  ASSUME TreasuryInv, NEW w \in Withdrawals, Send(w)
  PROVE  Holdings!Pay(w)
<1> DEFINE c == job[w].coins
           rest == Coins \ c
<1>1. /\ c \subseteq Coins /\ Worth(c) \in Nat /\ Worth(c) >= Amount[w] /\ w \notin known
      /\ held'[w] = Worth(c) - Amount[w] /\ held'[w] \in Nat
      /\ \A o \in Outputs : o # w => held'[o] = held[o]
      /\ Coins' = rest \cup (IF held'[w] > 0 THEN {w} ELSE {})
  BY SendCoins DEF TreasuryInv
<1>2. Amount[w] \in Nat
  BY ReserveAssumption
<1>3. paid[w] = 0 /\ paid' = [paid EXCEPT ![w] = Amount[w]]
  BY <1>1 DEF TreasuryInv, CoinsInv, Send, Edict
<1>4. rest \subseteq known /\ Coins \subseteq known /\ known \subseteq Outputs
  BY DEF Coins, TreasuryInv, TypeOK
<1>5. /\ IsFiniteSet(Coins) /\ \A o \in Coins : held[o] \in Nat
      /\ IsFiniteSet(rest) /\ \A o \in rest : held[o] \in Nat
      /\ Worth(rest) \in Nat
  BY <1>4, FinitePart DEF TreasuryInv
<1>6. Worth(Coins) = Worth(c) + Worth(rest)
  <2>1. SumOver(held, Coins) = SumOver(held, c) + SumOver(held, Coins \ c)
    <3> HIDE DEF c
    <3> QED
      BY <1>1, <1>5, SumSplit
  <2> QED
    BY <2>1, WorthIsSum
<1>7. \A o \in rest : held'[o] = held[o]
  BY <1>1, <1>4
<1>8. SumOver(held', rest) = Worth(rest)
  BY <1>5, <1>7, SumEqual, WorthIsSum
<1>9. SumOver(held', Coins') = Worth(rest) + held'[w]
  <2>1. CASE held'[w] > 0
    <3>1. w \notin rest /\ Coins' = rest \cup {w} /\ \A o \in rest : held'[o] \in Nat
      BY <1>1, <1>4, <1>5, <1>7, <2>1
    <3>2. SumOver(held', rest \cup {w}) = SumOver(held', rest) + held'[w]
      BY <1>1, <1>5, <3>1, SumAdd
    <3> QED
      BY <1>8, <3>1, <3>2
  <2>2. CASE held'[w] = 0
    <3>1. Coins' = rest
      BY <1>1, <2>2
    <3> QED
      BY <1>5, <1>8, <2>2, <3>1
  <2> QED
    BY <1>1, <2>1, <2>2
<1> DEFINE before == Worth(Coins)
           after == Worth(Coins)'
           sum == Worth(c)
           left == Worth(rest)
<1>10. after + Amount[w] = before
  <2>1. after = left + held'[w] /\ before = sum + left
    BY <1>6, <1>9, WorthIsSumNext
  <2>2. sum \in Nat /\ left \in Nat /\ held'[w] = sum - Amount[w] /\ held'[w] \in Nat
    BY <1>1, <1>5
  <2> HIDE DEF before, after, sum, left
  <2> QED
    BY <1>2, <2>1, <2>2
<1> QED
  BY <1>3, <1>10 DEF Holdings!Pay

(* Every step of the reserve is a deposit, the payment of one withdrawal or *)
(* leaves both the coins and the payments as they are: sendRunes takes out  *)
(* exactly the amount, once, whatever fails, is cut off or runs beside it.  *)
THEOREM TreasuryImplemented == Spec => ImplementsTreasury
<1>1. Init => Holdings!Init
  BY ReserveInitially
<1>2. TreasuryInv /\ [Next]_vars => [Holdings!Next]_<<Worth(Coins), paid>>
  <2> SUFFICES ASSUME TreasuryInv, [Next]_vars
               PROVE  [Holdings!Next]_<<Worth(Coins), paid>>
    OBVIOUS
  <2>1. CASE \E d \in Deposits : Arrive(d)
    BY <2>1, ReceiveStep DEF Holdings!Next
  <2>2. CASE \E w \in Withdrawals : Send(w)
    BY <2>2, PayStep DEF Holdings!Next
  <2>3. CASE UNCHANGED <<known, held, spender, paid>>
    <3>1. UNCHANGED Worth(Coins)
      <4>1. held' = held /\ Coins' = Coins
        BY <2>3 DEF Coins
      <4> QED
        BY <4>1, WorthIsSum, WorthIsSumNext
    <3> QED
      BY <2>3, <3>1
  <2> QED
    BY <2>1, <2>2, <2>3
       DEF Next, vars, chainVars, callVars, Claim, Mine, See, SyncInsert, SyncSkip, SendRunes,
           Select, Broadcast, BroadcastUnanswered, MarkInput, TrackReturn, Fail, Retry
<1> QED
  BY <1>1, <1>2, TreasuryAlways, PTL DEF Spec, ImplementsTreasury, Holdings!Spec

-----------------------------------------------------------------------------
(* What can be paid is paid.                                                *)

(* Collecting coins one by one ends with a set that covers the amount.      *)
LEMMA CoveringExists ==
  ASSUME TypeOK, CoinsInv, NEW S, S \subseteq known,
         NEW amount \in Nat, amount > 0, Worth(S) >= amount
  PROVE  Covering(S, amount) # {}
<1> DEFINE B == {T \in SUBSET S : Worth(T) >= amount}
<1>1. IsFiniteSet(S) /\ S \in B
  BY FinitePart
<1>2. PICK T \in B : T \subseteq S /\ IsFiniteSet(T) /\ \A x \in T : T \ {x} \notin B
  <2>1. B \subseteq SUBSET S /\ B # {}
    BY <1>1
  <2> HIDE DEF B
  <2> QED
    BY <1>1, <2>1, SmallestSet
<1>3. Worth({}) = 0
  BY SumEmpty, WorthIsSum
<1>4. PICK o \in T : TRUE
  <2>1. T # {}
    BY <1>2, <1>3
  <2> QED
    BY <2>1
<1>5. Worth(T \ {o}) \in Nat
  BY <1>2, FinitePart
<1>6. Worth(T \ {o}) < amount
  BY <1>2, <1>4, <1>5
<1> QED
  BY <1>2, <1>4, <1>6 DEF Covering

(* When every confirmed coin has its row and every legacy row its claim,    *)
(* sendRunes finds coins for any amount the confirmed coins can pay.        *)
THEOREM AffordableCorrect == Spec => []AffordableIsSelected
<1>1. ASSUME RowsInv, CoinsInv
      PROVE  AffordableIsSelected
  <2> DEFINE coins == Coins \cap mined
  <2> SUFFICES ASSUME \A o \in coins : row[o] # "none" /\ (o \in Legacy => o \in claimed),
                      NEW w \in Withdrawals, Worth(coins) >= Amount[w]
               PROVE  Selections(Amount[w]) # {}
    BY DEF AffordableIsSelected, Affordable
  <2>1. coins \subseteq known /\ known \subseteq Outputs
    BY <1>1 DEF Coins, RowsInv, TypeOK
  <2>2. \A o \in coins : row[o] = "unspent"
    BY <1>1, <2>1 DEF RowsInv, SpentRowIsSpent, Coins, TypeOK
  <2>3. Spendable(Tracked) = coins
    <3>1. coins \subseteq Spendable(Tracked)
      BY <2>1, <2>2 DEF Spendable, Tracked, Coins
    <3>2. Spendable(Tracked) \subseteq coins
      BY <1>1 DEF Spendable, Coins, RowsInv, TypeOK
    <3> QED
      BY <3>1, <3>2
  <2>4. Amount[w] \in Nat /\ Amount[w] > 0
    BY ReserveAssumption
  <2> HIDE DEF coins
  <2>5. Covering(coins, Amount[w]) # {}
    BY <1>1, <2>1, <2>4, CoveringExists DEF RowsInv
  <2> QED
    BY <2>3, <2>5 DEF Selections
<1> QED
  BY <1>1, RowsAlways, TreasuryAlways, PTL DEF TreasuryInv
=============================================================================
