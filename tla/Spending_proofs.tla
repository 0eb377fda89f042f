--------------------------- MODULE Spending_proofs ---------------------------
(***************************************************************************)
(* What holds of melts and swaps for any quotes, proofs and requests, any   *)
(* amounts and any fees.                                                    *)
(***************************************************************************)
EXTENDS Spending, TLAPS

-----------------------------------------------------------------------------
(* Types.                                                                   *)

(* A swap came with inputs that pay for their fee. *)
SwapPays == \A s \in Swaps : Worth[swapIn[s]] >= InputFees[swapIn[s]]

TypeInv == TypeOK /\ SwapPays

LEMMA WorthType ==
  ASSUME NEW ps \in SUBSET Proofs
  PROVE  Worth[ps] \in Nat /\ InputFees[ps] \in Nat
  BY ProofStoreAssumption

LEMMA ReservedType ==
  ASSUME NEW q \in Quotes, NEW ps \in SUBSET Proofs
  PROVE  /\ Amount[q] \in Nat /\ Amount[q] > 0 /\ Reserve[q] \in Nat
         /\ Reserved(q, ps) \in Nat
         /\ Reserved(q, ps) = Amount[q] + Reserve[q] + InputFees[ps]
  BY WorthType, MeltAssumption DEF Reserved

(* Change is a number, and what was paid and what comes back as change is   *)
(* never more than the inputs, if the inputs cover the payment.             *)
LEMMA LeftoverType ==
  ASSUME NEW q \in Quotes, NEW ps \in SUBSET Proofs, NEW fee \in Fees
  PROVE  /\ Leftover(q, ps, fee) \in Nat
         /\ Worth[ps] >= Reserved(q, ps) => Amount[q] + Leftover(q, ps, fee) <= Worth[ps]
<1>1. fee \in Nat
  BY MeltAssumption
<1> QED
  BY <1>1, WorthType, ReservedType DEF Leftover

LEMMA MarkSpentType ==
  ASSUME TypeOK, NEW ps \in SUBSET Proofs, NEW t \in Txs, MarkSpent(ps, t)
  PROVE  spentBy' \in [Proofs -> Txs \cup {None}]
  BY DEF TypeOK, MeltTypeOK, ProofStoreTypeOK, MarkSpent

LEMMA GotoType ==
  ASSUME TypeOK, NEW h \in Handlers, pc[h] # "idle", NEW label \in Labels, Goto(h, label)
  PROVE  /\ pc' \in [Handlers -> Labels]
         /\ job' \in [Handlers -> Jobs \cup {NoJob}]
         /\ \A g \in Handlers : pc'[g] # "idle" => job'[g] \in Jobs
  BY DEF TypeOK, MeltTypeOK, Goto

LEMMA JobType ==
  ASSUME TypeOK, NEW h \in Handlers, pc[h] # "idle"
  PROVE  /\ job[h] \in Jobs
         /\ job[h].quote \in Quotes /\ job[h].quote \in Txs
         /\ job[h].inputs \in SUBSET Proofs
         /\ job[h].change \in Nat
  BY MeltAssumption DEF TypeOK, MeltTypeOK, Jobs

LEMMA HistoryType ==
  ASSUME TypeOK
  PROVE  sent \in [Quotes -> Nat] /\ change \in [Quotes -> Nat]
  BY DEF TypeOK, MeltTypeOK

LEMMA InitType == Init => TypeInv
<1> SUFFICES ASSUME Init PROVE TypeInv
  OBVIOUS
<1>1. MeltTypeOK
  BY DEF Init, ProofStoreInit, MeltInit, MeltTypeOK, ProofStoreTypeOK, Labels
<1>2. SwapTypeOK
  BY <1>1 DEF Init, SwapInit, SwapTypeOK, MeltTypeOK
<1>3. SwapPays
  BY DEF Init, SwapInit, SwapPays
<1> QED
  BY <1>1, <1>2, <1>3 DEF TypeInv, TypeOK

LEMMA StartType ==
  ASSUME TypeOK, NEW h \in Handlers, NEW q \in Quotes, NEW ps \in SUBSET Proofs,
         Start(h, q, ps)
  PROVE  MeltTypeOK'
<1> DEFINE j == [quote |-> q, inputs |-> ps, change |-> 0]
<1>1. j \in Jobs
  BY DEF Jobs
<1>2. /\ job' = [job EXCEPT ![h] = j]
      /\ \E label \in Labels : pc' = [pc EXCEPT ![h] = label]
  BY DEF Start, Labels
<1> HIDE DEF j
<1> QED
  BY <1>1, <1>2 DEF Start, TypeOK, MeltTypeOK, ProofStoreTypeOK

(* The steps of a request that leave the proofs and the history alone. *)
LEMMA StateStepType ==
  ASSUME TypeOK, NEW h \in Handlers,
         \/ CheckSettled(h) \/ Claim(h) \/ MarkFails(h) \/ WithdrawFails(h)
         \/ Release(h) \/ Settle(h) \/ Fail(h)
  PROVE  MeltTypeOK'
<1>1. pc[h] # "idle" /\ \E label \in Labels : Goto(h, label)
  BY DEF CheckSettled, Claim, MarkFails, WithdrawFails, Release, Settle, Fail, Labels
<1>2. /\ pc' \in [Handlers -> Labels]
      /\ job' \in [Handlers -> Jobs \cup {NoJob}]
      /\ \A g \in Handlers : pc'[g] # "idle" => job'[g] \in Jobs
  BY <1>1, GotoType
<1>3. state' \in [Quotes -> {"UNPAID", "PENDING", "PAID"}]
  BY DEF CheckSettled, Claim, MarkFails, WithdrawFails, Release, Settle, Fail,
         TypeOK, MeltTypeOK
<1>4. UNCHANGED <<spentBy, sent, change>>
  BY DEF CheckSettled, Claim, MarkFails, WithdrawFails, Release, Settle, Fail
<1> QED
  BY <1>2, <1>3, <1>4 DEF TypeOK, MeltTypeOK, ProofStoreTypeOK

(* The steps that insert rows into proofs or delete them. *)
LEMMA ProofStepType ==
  ASSUME TypeOK, NEW h \in Handlers, Mark(h) \/ MarkUnanswered(h) \/ Revert(h)
  PROVE  MeltTypeOK'
<1>1. pc[h] # "idle" /\ \E label \in Labels : Goto(h, label)
  BY DEF Mark, MarkUnanswered, Revert, Labels
<1>2. /\ pc' \in [Handlers -> Labels]
      /\ job' \in [Handlers -> Jobs \cup {NoJob}]
      /\ \A g \in Handlers : pc'[g] # "idle" => job'[g] \in Jobs
  BY <1>1, GotoType
<1>3. spentBy' \in [Proofs -> Txs \cup {None}]
  <2>1. CASE Mark(h) \/ MarkUnanswered(h)
    BY <2>1, <1>1, JobType, MarkSpentType DEF Mark, MarkUnanswered
  <2>2. CASE Revert(h)
    BY <2>2 DEF Revert, DeleteByTransactionId, TypeOK, MeltTypeOK, ProofStoreTypeOK
  <2> QED
    BY <2>1, <2>2
<1>4. UNCHANGED <<state, sent, change>>
  BY DEF Mark, MarkUnanswered, Revert
<1> QED
  BY <1>2, <1>3, <1>4 DEF TypeOK, MeltTypeOK, ProofStoreTypeOK

LEMMA WithdrawType ==
  ASSUME TypeOK, NEW h \in Handlers, NEW fee \in Fees, Withdraw(h, fee)
  PROVE  MeltTypeOK'
<1> DEFINE q == job[h].quote
           left == Leftover(q, job[h].inputs, fee)
<1>1. pc[h] # "idle"
  BY DEF Withdraw
<1>2. left \in Nat
  BY <1>1, JobType, LeftoverType
<1>3. [job[h] EXCEPT !.change = left] \in Jobs
  BY <1>1, <1>2, JobType DEF Jobs
<1>4. job' = [job EXCEPT ![h] = [job[h] EXCEPT !.change = left]]
  BY DEF Withdraw
<1>5. pc' = [pc EXCEPT ![h] = "change"] /\ sent' = [sent EXCEPT ![q] = @ + 1]
  BY DEF Withdraw
<1>6. UNCHANGED <<spentBy, state, change>>
  BY DEF Withdraw
<1> HIDE DEF left
<1>7. sent' \in [Quotes -> Nat]
  BY <1>1, <1>5, HistoryType, JobType
<1>8. /\ pc' \in [Handlers -> Labels]
      /\ job' \in [Handlers -> Jobs \cup {NoJob}]
      /\ \A g \in Handlers : pc'[g] # "idle" => job'[g] \in Jobs
  BY <1>3, <1>4, <1>5 DEF TypeOK, MeltTypeOK, Labels
<1> QED
  BY <1>6, <1>7, <1>8 DEF TypeOK, MeltTypeOK, ProofStoreTypeOK

LEMMA WithdrawUnansweredType ==
  ASSUME TypeOK, NEW h \in Handlers, WithdrawUnanswered(h)
  PROVE  MeltTypeOK'
<1>1. pc[h] # "idle" /\ Goto(h, "revert") /\ "revert" \in Labels
  BY DEF WithdrawUnanswered, Labels
<1>2. /\ pc' \in [Handlers -> Labels]
      /\ job' \in [Handlers -> Jobs \cup {NoJob}]
      /\ \A g \in Handlers : pc'[g] # "idle" => job'[g] \in Jobs
  BY <1>1, GotoType
<1>3. sent' \in [Quotes -> Nat]
  BY <1>1, HistoryType, JobType DEF WithdrawUnanswered
<1> QED
  BY <1>2, <1>3 DEF WithdrawUnanswered, TypeOK, MeltTypeOK, ProofStoreTypeOK

LEMMA SignChangeType ==
  ASSUME TypeOK, NEW h \in Handlers, NEW c \in 0 .. job[h].change, SignChange(h, c)
  PROVE  MeltTypeOK'
<1>1. pc[h] # "idle" /\ Goto(h, "settle") /\ "settle" \in Labels
  BY DEF SignChange, Labels
<1>2. /\ pc' \in [Handlers -> Labels]
      /\ job' \in [Handlers -> Jobs \cup {NoJob}]
      /\ \A g \in Handlers : pc'[g] # "idle" => job'[g] \in Jobs
  BY <1>1, GotoType
<1>3. c \in Nat
  BY <1>1, JobType
<1>4. change' \in [Quotes -> Nat]
  BY <1>1, <1>3, HistoryType, JobType DEF SignChange
<1> QED
  BY <1>2, <1>4 DEF SignChange, TypeOK, MeltTypeOK, ProofStoreTypeOK

LEMMA SwapType ==
  ASSUME TypeInv, NEW s \in Swaps, MarkInputs(s) \/ SignOutputs(s) \/ SwapFail(s)
  PROVE  SwapTypeOK' /\ SwapPays'
<1>1. /\ s \in Txs /\ swapIn[s] \in SUBSET Proofs
      /\ Worth[swapIn[s]] \in Nat /\ InputFees[swapIn[s]] \in Nat
      /\ Worth[swapIn[s]] >= InputFees[swapIn[s]]
  BY SwapAssumption, WorthType DEF TypeInv, TypeOK, SwapTypeOK, SwapPays
<1>2. spentBy' \in [Proofs -> Txs \cup {None}]
  BY <1>1, MarkSpentType
  DEF MarkInputs, SignOutputs, SwapFail, TypeInv, TypeOK, SwapTypeOK, ProofStoreTypeOK
<1>3. signed' \in [Swaps -> Nat]
  BY <1>1 DEF MarkInputs, SignOutputs, SwapFail, TypeInv, TypeOK, SwapTypeOK
<1>4. swapPc' \in [Swaps -> {"mark", "sign", "done", "failed"}] /\ swapIn' = swapIn
  BY DEF MarkInputs, SignOutputs, SwapFail, TypeInv, TypeOK, SwapTypeOK
<1> QED
  BY <1>2, <1>3, <1>4 DEF TypeInv, TypeOK, SwapTypeOK, ProofStoreTypeOK, SwapPays

LEMMA MeltStepType == TypeOK /\ MeltNext => MeltTypeOK'
<1> SUFFICES ASSUME TypeOK, NEW h \in Handlers,
                    \/ \E q \in Quotes, ps \in SUBSET Proofs : Start(h, q, ps)
                    \/ Serve(h)
             PROVE  MeltTypeOK'
  BY DEF MeltNext
<1>1. CASE \E q \in Quotes, ps \in SUBSET Proofs : Start(h, q, ps)
  BY <1>1, StartType
<1>2. CASE \/ CheckSettled(h) \/ Claim(h) \/ MarkFails(h) \/ WithdrawFails(h)
           \/ Release(h) \/ Settle(h) \/ Fail(h)
  BY <1>2, StateStepType
<1>3. CASE Mark(h) \/ MarkUnanswered(h) \/ Revert(h)
  BY <1>3, ProofStepType
<1>4. CASE \E fee \in Fees : Withdraw(h, fee)
  BY <1>4, WithdrawType
<1>5. CASE WithdrawUnanswered(h)
  BY <1>5, WithdrawUnansweredType
<1>6. CASE \E c \in 0 .. job[h].change : SignChange(h, c)
  BY <1>6, SignChangeType
<1> QED
  BY <1>1, <1>2, <1>3, <1>4, <1>5, <1>6 DEF Serve

LEMMA TypeStep == TypeInv /\ [Next]_vars => TypeInv'
<1> SUFFICES ASSUME TypeInv, [Next]_vars PROVE TypeInv'
  OBVIOUS
<1>1. CASE MeltNext /\ UNCHANGED swapVars
  <2>1. MeltTypeOK'
    BY <1>1, MeltStepType DEF TypeInv
  <2> QED
    BY <1>1, <2>1 DEF TypeInv, TypeOK, SwapTypeOK, MeltTypeOK, swapVars, SwapPays
<1>2. CASE SwapNext /\ UNCHANGED meltVars
  <2>1. SwapTypeOK' /\ SwapPays'
    BY <1>2, SwapType DEF SwapNext
  <2> QED
    BY <1>2, <2>1 DEF TypeInv, TypeOK, SwapTypeOK, MeltTypeOK, meltVars
<1>3. CASE UNCHANGED vars
  BY <1>3 DEF vars, meltVars, swapVars, TypeInv, TypeOK, MeltTypeOK, SwapTypeOK,
              ProofStoreTypeOK, SwapPays
<1> QED
  BY <1>1, <1>2, <1>3 DEF Next

(* Every reachable state is well typed; a request in flight has a quote and *)
(* its inputs in hand.                                                      *)
THEOREM TypeCorrect == Spec => []TypeOK
<1>1. TypeInv => TypeOK
  BY DEF TypeInv
<1> QED
  BY InitType, TypeStep, <1>1, PTL DEF Spec

LEMMA TypeInvariant == Spec => []TypeInv
  BY InitType, TypeStep, PTL DEF Spec

-----------------------------------------------------------------------------
(* One request works on a quote at a time.                                  *)

(* A step of one request leaves the others where they are, and its own      *)
(* quote and inputs as they were.                                           *)
LEMMA ServeFrame ==
  ASSUME TypeOK, NEW h \in Handlers, Serve(h)
  PROVE  /\ pc[h] # "idle"
         /\ \A g \in Handlers \ {h} : pc'[g] = pc[g] /\ job'[g] = job[g]
         /\ pc'[h] # "idle" => /\ job'[h].quote = job[h].quote
                               /\ job'[h].inputs = job[h].inputs
<1>1. CASE \E fee \in Fees : Withdraw(h, fee)
  <2>1. PICK fee \in Fees : Withdraw(h, fee)
    BY <1>1
  <2> DEFINE left == Leftover(job[h].quote, job[h].inputs, fee)
  <2>2. pc[h] # "idle" /\ job' = [job EXCEPT ![h] = [job[h] EXCEPT !.change = left]]
        /\ pc' = [pc EXCEPT ![h] = "change"]
    BY <2>1 DEF Withdraw
  <2> HIDE DEF left
  <2>3. job[h] \in Jobs
    BY <2>2, JobType
  <2> QED
    BY <2>2, <2>3 DEF TypeOK, MeltTypeOK, Jobs
<1>2. CASE ~\E fee \in Fees : Withdraw(h, fee)
  <2>1. pc[h] # "idle" /\ \E label \in Labels : Goto(h, label)
    BY <1>2 DEF Serve, CheckSettled, Claim, Mark, MarkFails, MarkUnanswered, WithdrawFails,
                WithdrawUnanswered, Revert, Release, SignChange, Settle, Fail, Labels
  <2> QED
    BY <2>1 DEF Goto, TypeOK, MeltTypeOK
<1> QED
  BY <1>1, <1>2

(* Only Claim makes a request the owner of a quote, and only an owner       *)
(* writes the state.                                                        *)
LEMMA OwnerSteps ==
  ASSUME TypeOK, NEW h \in Handlers, Serve(h)
  PROVE  \/ Claim(h)
         \/ pc[h] \in Owning /\ pc'[h] \in Owning /\ state' = state
         \/ pc'[h] \notin Owning /\ pc[h] \in Owning
              /\ \A q \in Quotes \ {job[h].quote} : state'[q] = state[q]
         \/ pc'[h] \notin Owning /\ pc[h] \notin Owning /\ state' = state
<1>1. pc \in [Handlers -> Labels] /\ state \in [Quotes -> {"UNPAID", "PENDING", "PAID"}]
  BY DEF TypeOK, MeltTypeOK
<1>2. CASE CheckSettled(h) \/ Fail(h)
  BY <1>1, <1>2 DEF CheckSettled, Fail, Goto, Owning
<1>3. CASE Mark(h) \/ MarkFails(h) \/ MarkUnanswered(h) \/ Revert(h)
  BY <1>1, <1>3 DEF Mark, MarkFails, MarkUnanswered, Revert, Goto, Owning
<1>4. CASE \E fee \in Fees : Withdraw(h, fee)
  BY <1>1, <1>4 DEF Withdraw, Owning
<1>5. CASE WithdrawFails(h) \/ WithdrawUnanswered(h)
  BY <1>1, <1>5 DEF WithdrawFails, WithdrawUnanswered, Goto, Owning
<1>6. CASE \E c \in 0 .. job[h].change : SignChange(h, c)
  BY <1>1, <1>6 DEF SignChange, Goto, Owning
<1>7. CASE Release(h) \/ Settle(h)
  BY <1>1, <1>7 DEF Release, Settle, Goto, Owning
<1> QED
  BY <1>2, <1>3, <1>4, <1>5, <1>6, <1>7 DEF Serve

(* A request that starts, and a swap, change nothing but the request and    *)
(* the proofs.                                                              *)
LEMMA StartFrame ==
  ASSUME TypeOK, NEW h \in Handlers, NEW q \in Quotes, NEW ps \in SUBSET Proofs,
         Start(h, q, ps)
  PROVE  /\ pc[h] = "idle" /\ pc'[h] \in {"check", "claim"}
         /\ job'[h] = [quote |-> q, inputs |-> ps, change |-> 0]
         /\ \A g \in Handlers \ {h} : pc'[g] = pc[g] /\ job'[g] = job[g]
         /\ Worth[ps] >= Reserved(q, ps)
         /\ UNCHANGED <<spentBy, state, sent, change>>
<1>1. pc \in [Handlers -> Labels] /\ job \in [Handlers -> Jobs \cup {NoJob}]
  BY DEF TypeOK, MeltTypeOK
<1> QED
  BY <1>1 DEF Start

LEMMA OwnerStep == TypeInv /\ OneOwner /\ [Next]_vars => OneOwner'
<1> SUFFICES ASSUME TypeInv, OneOwner, [Next]_vars PROVE OneOwner'
  OBVIOUS
<1>1. TypeOK
  BY DEF TypeInv
<1>2. CASE UNCHANGED meltVars
  BY <1>2 DEF OneOwner, meltVars
<1>3. ASSUME NEW h \in Handlers, NEW q \in Quotes, NEW ps \in SUBSET Proofs, Start(h, q, ps)
      PROVE  OneOwner'
  <2>1. /\ pc'[h] \in {"check", "claim"} /\ state' = state
        /\ \A g \in Handlers \ {h} : pc'[g] = pc[g] /\ job'[g] = job[g]
    BY <1>1, <1>3, StartFrame
  <2> QED
    BY <2>1 DEF OneOwner, Owning
<1>4. ASSUME NEW h \in Handlers, Serve(h)
      PROVE  OneOwner'
  <2> DEFINE q == job[h].quote
  <2>1. /\ pc[h] # "idle"
        /\ \A g \in Handlers \ {h} : pc'[g] = pc[g] /\ job'[g] = job[g]
        /\ pc'[h] # "idle" => job'[h].quote = q
    BY <1>1, <1>4, ServeFrame
  <2>2. q \in Quotes /\ \A g \in Handlers : pc[g] \in Owning => job[g].quote \in Quotes
    BY <1>1, <2>1, JobType DEF Owning
  <2>3. CASE Claim(h)
    <3>1. /\ state[q] = "UNPAID" /\ state' = [state EXCEPT ![q] = "PENDING"]
          /\ pc'[h] = "mark"
      BY <1>1, <2>3 DEF Claim, Claimable, Goto, TypeOK, MeltTypeOK
    <3>2. state'[q] = "PENDING" /\ \A p \in Quotes \ {q} : state'[p] = state[p]
      BY <1>1, <2>2, <3>1 DEF TypeOK, MeltTypeOK
    <3> QED
      BY <2>1, <2>2, <3>1, <3>2 DEF OneOwner, Owning
  <2>4. CASE pc[h] \in Owning /\ pc'[h] \in Owning /\ state' = state
    BY <2>1, <2>2, <2>4 DEF OneOwner, Owning
  <2>5. CASE pc'[h] \notin Owning /\ pc[h] \in Owning
             /\ \A p \in Quotes \ {q} : state'[p] = state[p]
    BY <2>1, <2>2, <2>5 DEF OneOwner
  <2>6. CASE pc'[h] \notin Owning /\ pc[h] \notin Owning /\ state' = state
    BY <2>1, <2>2, <2>6 DEF OneOwner
  <2> QED
    BY <1>1, <1>4, <2>3, <2>4, <2>5, <2>6, OwnerSteps
<1> QED
  BY <1>2, <1>3, <1>4 DEF Next, MeltNext, vars, meltVars

LEMMA OwnerInit == Init => OneOwner
  BY DEF Init, MeltInit, OneOwner, Owning

(* Two melt requests never work on one quote at once, and the quote one     *)
(* works on is PENDING (claimMeltQuotePending).                             *)
THEOREM OwnerCorrect == Spec => []OneOwner
  BY TypeInvariant, OwnerInit, OwnerStep, PTL DEF Spec

-----------------------------------------------------------------------------
(* The table proofs.                                                        *)

LEMMA HeldType ==
  ASSUME NEW t PROVE Held(t) \in SUBSET Proofs
  BY DEF Held

(* A larger set of proofs is worth at least as much. *)
LEMMA WorthMonotone ==
  ASSUME NEW S \in SUBSET Proofs, NEW T \in SUBSET Proofs, S \subseteq T
  PROVE  Worth[S] <= Worth[T]
<1>1. S \cup (T \ S) = T /\ S \cap (T \ S) = {} /\ T \ S \in SUBSET Proofs
  OBVIOUS
<1>2. Worth[S \cup (T \ S)] = Worth[S] + Worth[T \ S]
  BY <1>1, ProofStoreAssumption
<1>3. Worth[S] \in Nat /\ Worth[T \ S] \in Nat
  BY <1>1, WorthType
<1>4. Worth[T] = Worth[S] + Worth[T \ S]
  BY <1>1, <1>2
<1> QED
  BY <1>1, <1>3, <1>4, WorthType

(* markSpent adds its proofs to one transaction and disturbs no other. *)
LEMMA MarkGrows ==
  ASSUME NEW ps \in SUBSET Proofs, NEW t \in Txs, MarkSpent(ps, t)
  PROVE  /\ ps \subseteq Held(t)' /\ Held(t) \subseteq Held(t)'
         /\ \A u \in Txs \ {t} : Held(u)' = Held(u)
<1>1. /\ \A p \in ps : spentBy[p] = None
      /\ spentBy' = [p \in Proofs |-> IF p \in ps THEN t ELSE spentBy[p]]
      /\ None \notin Txs
  BY ProofStoreAssumption DEF MarkSpent, Unspent
<1> QED
  BY <1>1 DEF Held

LEMMA DeleteKeeps ==
  ASSUME NEW t \in Txs, NEW u \in Txs \ {t}, DeleteByTransactionId(t)
  PROVE  Held(u)' = Held(u)
<1>1. /\ spentBy' = [p \in Proofs |-> IF spentBy[p] = t THEN None ELSE spentBy[p]]
      /\ None \notin Txs
  BY ProofStoreAssumption DEF DeleteByTransactionId
<1> QED
  BY <1>1 DEF Held

-----------------------------------------------------------------------------
(* A quote that ends up PAID is covered.                                    *)

Covered(q) == Worth[Held(q)] >= Amount[q] + change[q]

(* What a request knows: its inputs pay for the quote; nothing was signed   *)
(* as change before it; and once its proofs are marked it holds them until  *)
(* it settles.                                                              *)
JobCovered(h) ==
  LET q == job[h].quote
      ps == job[h].inputs
  IN /\ pc[h] # "idle" => Worth[ps] >= Reserved(q, ps)
     /\ pc[h] \in Owning \ {"settle"} => change[q] = 0
     /\ pc[h] \in {"withdraw", "change"} => ps \subseteq Held(q)
     /\ pc[h] = "change" => Amount[q] + job[h].change <= Worth[ps]
     /\ pc[h] = "settle" => Covered(q)

CoverInv ==
  /\ \A q \in Quotes : state[q] = "UNPAID" => change[q] = 0
  /\ \A h \in Handlers : JobCovered(h)
  /\ SettledIsCovered

(* What a quote holds and what was signed for it is only ever touched by    *)
(* the request that owns it; others may at most add proofs.                 *)
LEMMA QuoteFrame ==
  ASSUME TypeOK, NEW h \in Handlers, Serve(h), NEW q \in Quotes,
         pc[h] \in Owning => q # job[h].quote
  PROVE  Held(q) \subseteq Held(q)' /\ change'[q] = change[q] /\ sent'[q] = sent[q]
<1>1. pc[h] # "idle" /\ job[h].quote \in Txs /\ job[h].inputs \in SUBSET Proofs
      /\ q \in Txs
  BY ServeFrame, JobType, MeltAssumption
<1>2. sent \in [Quotes -> Nat] /\ change \in [Quotes -> Nat]
  BY HistoryType
<1>3. CASE CheckSettled(h) \/ Claim(h) \/ MarkFails(h) \/ WithdrawFails(h) \/ Release(h)
           \/ Settle(h) \/ Fail(h)
  BY <1>3 DEF CheckSettled, Claim, MarkFails, WithdrawFails, Release, Settle, Fail, Held
<1>4. CASE Mark(h) \/ MarkUnanswered(h)
  BY <1>1, <1>4, MarkGrows DEF Mark, MarkUnanswered, Owning
<1>5. CASE \E fee \in Fees : Withdraw(h, fee)
  BY <1>2, <1>5 DEF Withdraw, Owning, Held
<1>6. CASE WithdrawUnanswered(h)
  BY <1>2, <1>6 DEF WithdrawUnanswered, Owning, Held
<1>7. CASE Revert(h)
  BY <1>1, <1>7, DeleteKeeps DEF Revert, Owning
<1>8. CASE \E c \in 0 .. job[h].change : SignChange(h, c)
  BY <1>2, <1>8 DEF SignChange, Owning, Held
<1> QED
  BY <1>3, <1>4, <1>5, <1>6, <1>7, <1>8 DEF Serve

LEMMA CoveredGrows ==
  ASSUME TypeOK, TypeOK', NEW q \in Quotes, Covered(q),
         Held(q) \subseteq Held(q)', change'[q] = change[q]
  PROVE  Covered(q)'
<1>1. Held(q) \in SUBSET Proofs /\ Held(q)' \in SUBSET Proofs
  BY DEF Held
<1>2. Worth[Held(q)] <= Worth[Held(q)'] /\ Worth[Held(q)] \in Nat /\ Worth[Held(q)'] \in Nat
  BY <1>1, WorthMonotone, WorthType
<1>3. Amount[q] \in Nat /\ change[q] \in Nat
  BY MeltAssumption, HistoryType
<1> QED
  BY <1>2, <1>3 DEF Covered

(* A request is not disturbed by what leaves its quote alone. *)
LEMMA JobKept ==
  ASSUME TypeOK, TypeOK', NEW g \in Handlers, JobCovered(g), pc'[g] = pc[g], job'[g] = job[g],
         pc[g] \in Owning => /\ Held(job[g].quote) \subseteq Held(job[g].quote)'
                             /\ change'[job[g].quote] = change[job[g].quote]
  PROVE  JobCovered(g)'
<1> DEFINE q == job[g].quote
<1>1. CASE pc[g] \in Owning
  <2>1. q \in Quotes /\ job'[g].quote = q /\ job'[g].inputs = job[g].inputs
        /\ job'[g].change = job[g].change
    BY <1>1, JobType DEF Owning
  <2>2. Covered(q) => Covered(q)'
    BY <1>1, <2>1, CoveredGrows
  <2>3. Covered(job[g].quote)' <=> Covered(q)'
    BY <2>1 DEF Covered, Held
  <2>4. Reserved(job[g].quote, job[g].inputs)' = Reserved(q, job[g].inputs)
        /\ Held(job[g].quote)' = Held(q)'
    BY <2>1 DEF Reserved, Held
  <2> QED
    BY <1>1, <2>1, <2>2, <2>3, <2>4 DEF JobCovered
<1>2. CASE pc[g] \notin Owning
  BY <1>2 DEF JobCovered, Owning, Reserved
<1> QED
  BY <1>1, <1>2

(* What the request itself knows after each of its steps. *)
LEMMA JobStep ==
  ASSUME TypeOK, TypeOK', OneOwner, CoverInv, NEW h \in Handlers, Serve(h)
  PROVE  JobCovered(h)'
<1> DEFINE q == job[h].quote
           ps == job[h].inputs
<1>1. /\ pc[h] # "idle" /\ q \in Quotes /\ q \in Txs /\ ps \in SUBSET Proofs
      /\ job[h].change \in Nat /\ JobCovered(h)
      /\ pc'[h] # "idle" => job'[h].quote = q /\ job'[h].inputs = ps
  BY ServeFrame, JobType DEF CoverInv
<1>2. Worth[ps] >= Reserved(q, ps)
  BY <1>1 DEF JobCovered
<1>3. pc \in [Handlers -> Labels] /\ change \in [Quotes -> Nat] /\ job[h] \in Jobs
      /\ job \in [Handlers -> Jobs \cup {NoJob}]
      /\ state \in [Quotes -> {"UNPAID", "PENDING", "PAID"}]
  BY <1>1, JobType DEF TypeOK, MeltTypeOK
<1>4. pc'[h] # "idle" => Worth[job'[h].inputs] >= Reserved(job'[h].quote, job'[h].inputs)
  BY <1>1, <1>2
<1>5. CASE pc'[h] = "idle"
  BY <1>5 DEF JobCovered, Owning
<1>6. CASE CheckSettled(h)
  BY <1>1, <1>2, <1>3, <1>6 DEF CheckSettled, Goto, JobCovered, Owning, Reserved
<1>7. CASE Claim(h)
  <2>1. pc'[h] = "mark" /\ change' = change /\ job' = job /\ state[q] = "UNPAID"
    BY <1>3, <1>7 DEF Claim, Claimable, Goto
  <2>2. change[q] = 0
    BY <1>1, <2>1 DEF CoverInv
  <2> QED
    BY <1>2, <2>1, <2>2 DEF JobCovered, Owning, Reserved
<1>8. CASE Mark(h)
  <2>1. pc[h] = "mark" /\ pc'[h] = "withdraw" /\ change' = change /\ job' = job
        /\ MarkSpent(ps, q)
    BY <1>3, <1>8 DEF Mark, Goto
  <2>2. ps \subseteq Held(q)'
    BY <1>1, <2>1, MarkGrows
  <2>3. change[q] = 0
    BY <1>1, <2>1 DEF JobCovered, Owning
  <2> QED
    BY <1>2, <2>1, <2>2, <2>3 DEF JobCovered, Owning, Reserved, Held
<1>9. CASE MarkFails(h) \/ MarkUnanswered(h) \/ WithdrawFails(h) \/ WithdrawUnanswered(h)
           \/ Revert(h)
  <2>1. pc[h] \in Owning \ {"settle"} /\ pc'[h] \in {"revert", "release"}
        /\ change' = change /\ job' = job
    BY <1>3, <1>9 DEF MarkFails, MarkUnanswered, WithdrawFails, WithdrawUnanswered, Revert,
                      Goto, Owning
  <2>2. change[q] = 0
    BY <1>1, <2>1 DEF JobCovered
  <2> QED
    BY <1>2, <2>1, <2>2 DEF JobCovered, Owning, Reserved
<1>10. CASE \E fee \in Fees : Withdraw(h, fee)
  <2>1. PICK fee \in Fees : Withdraw(h, fee)
    BY <1>10
  <2> DEFINE left == Leftover(q, ps, fee)
  <2>2. /\ pc[h] = "withdraw" /\ pc'[h] = "change" /\ change' = change
        /\ job' = [job EXCEPT ![h] = [job[h] EXCEPT !.change = left]]
        /\ spentBy' = spentBy
    BY <1>3, <2>1 DEF Withdraw
  <2>3. Amount[q] + left <= Worth[ps]
    BY <1>1, <1>2, LeftoverType
  <2> HIDE DEF left
  <2>4. job'[h].change = left /\ job'[h].quote = q /\ job'[h].inputs = ps
    BY <1>1, <1>3, <2>2 DEF Jobs
  <2>5. ps \subseteq Held(q) /\ change[q] = 0
    BY <1>1, <2>2 DEF JobCovered, Owning
  <2>6. Held(q)' = Held(q)
    BY <2>2 DEF Held
  <2>7. Held(job[h].quote)' = Held(q)'
        /\ Reserved(job[h].quote, job[h].inputs)' = Reserved(q, ps)
    BY <2>4 DEF Held, Reserved
  <2> QED
    BY <1>2, <2>2, <2>3, <2>4, <2>5, <2>6, <2>7 DEF JobCovered, Owning
<1>11. CASE \E c \in 0 .. job[h].change : SignChange(h, c)
  <2>1. PICK c \in 0 .. job[h].change : SignChange(h, c)
    BY <1>11
  <2>2. /\ pc[h] = "change" /\ pc'[h] = "settle" /\ job' = job /\ spentBy' = spentBy
        /\ change' = [change EXCEPT ![q] = @ + c]
    BY <1>3, <2>1 DEF SignChange, Goto
  <2>3. /\ change[q] = 0 /\ ps \subseteq Held(q)
        /\ Amount[q] + job[h].change <= Worth[ps]
    BY <1>1, <2>2 DEF JobCovered, Owning
  <2>4. change'[q] = c /\ c \in Nat /\ c <= job[h].change
    BY <1>1, <1>3, <2>2, <2>3
  <2>5. Worth[ps] <= Worth[Held(q)] /\ Worth[ps] \in Nat /\ Worth[Held(q)] \in Nat
        /\ Amount[q] \in Nat
    BY <1>1, <2>3, HeldType, WorthMonotone, WorthType, MeltAssumption
  <2>6. Worth[Held(q)] >= Amount[q] + change'[q]
    BY <1>1, <2>3, <2>4, <2>5
  <2>7. Covered(job[h].quote)' <=> Worth[Held(q)] >= Amount[q] + change'[q]
    BY <2>2 DEF Covered, Held
  <2> QED
    BY <1>2, <2>2, <2>6, <2>7 DEF JobCovered, Owning, Reserved
<1>12. CASE Release(h) \/ Settle(h) \/ Fail(h)
  BY <1>3, <1>5, <1>12 DEF Release, Settle, Fail, Goto
<1> QED
  BY <1>6, <1>7, <1>8, <1>9, <1>10, <1>11, <1>12 DEF Serve

(* A swap adds proofs to its own transaction only. *)
LEMMA SwapFrame ==
  ASSUME TypeInv, SwapNext
  PROVE  \A q \in Quotes : Held(q)' = Held(q)
<1> SUFFICES ASSUME NEW q \in Quotes PROVE Held(q)' = Held(q)
  OBVIOUS
<1>1. PICK s \in Swaps : MarkInputs(s) \/ SignOutputs(s) \/ SwapFail(s)
  BY DEF SwapNext
<1>2. s \in Txs /\ q \in Txs \ {s} /\ swapIn[s] \in SUBSET Proofs
  BY SwapAssumption, MeltAssumption, SpendingAssumption DEF TypeInv, TypeOK, SwapTypeOK
<1> QED
  BY <1>1, <1>2, MarkGrows DEF MarkInputs, SignOutputs, SwapFail, Held

LEMMA CoverInit == Init => CoverInv
  BY DEF Init, MeltInit, CoverInv, JobCovered, SettledIsCovered, Owning

LEMMA CoverStep == TypeInv /\ TypeInv' /\ OneOwner /\ CoverInv /\ [Next]_vars => CoverInv'
<1> SUFFICES ASSUME TypeInv, TypeInv', OneOwner, CoverInv, [Next]_vars PROVE CoverInv'
  OBVIOUS
<1>1. TypeOK /\ TypeOK'
  BY DEF TypeInv
<1>2. SettledIsCovered <=> \A q \in Quotes : state[q] = "PAID" => Covered(q)
  BY DEF SettledIsCovered, Covered
<1>3. SettledIsCovered' <=> \A q \in Quotes : state'[q] = "PAID" => Covered(q)'
  BY DEF SettledIsCovered, Covered
<1>4. CASE UNCHANGED meltVars /\ \A q \in Quotes : Held(q)' = Held(q)
  <2>1. \A q \in Quotes : Covered(q)' <=> Covered(q)
    BY <1>4 DEF Covered, meltVars
  <2>2. ASSUME NEW h \in Handlers PROVE JobCovered(h)'
    <3>1. pc[h] \in Owning => job[h].quote \in Quotes
      BY <1>1, JobType DEF Owning
    <3> QED
      BY <1>1, <1>4, <3>1, JobKept DEF CoverInv, meltVars
  <2> QED
    BY <1>2, <1>3, <1>4, <2>1, <2>2 DEF CoverInv, meltVars
<1>5. ASSUME NEW h \in Handlers, NEW q \in Quotes, NEW ps \in SUBSET Proofs, Start(h, q, ps)
      PROVE  CoverInv'
  <2>1. /\ pc[h] = "idle" /\ pc'[h] \in {"check", "claim"}
        /\ job'[h] = [quote |-> q, inputs |-> ps, change |-> 0]
        /\ \A g \in Handlers \ {h} : pc'[g] = pc[g] /\ job'[g] = job[g]
        /\ Worth[ps] >= Reserved(q, ps)
        /\ UNCHANGED <<spentBy, state, sent, change>>
    BY <1>1, <1>5, StartFrame
  <2>2. JobCovered(h)'
    BY <2>1 DEF JobCovered, Owning, Reserved
  <2>3. ASSUME NEW g \in Handlers \ {h} PROVE JobCovered(g)'
    BY <1>1, <2>1, JobKept DEF CoverInv, Held
  <2>4. \A p \in Quotes : Covered(p)' <=> Covered(p)
    BY <2>1 DEF Covered, Held
  <2> QED
    BY <1>2, <1>3, <2>1, <2>2, <2>3, <2>4 DEF CoverInv
<1>6. ASSUME NEW h \in Handlers, Serve(h)
      PROVE  CoverInv'
  <2> DEFINE r == job[h].quote
  <2>1. /\ pc[h] # "idle" /\ r \in Quotes
        /\ \A g \in Handlers \ {h} : pc'[g] = pc[g] /\ job'[g] = job[g]
    BY <1>1, <1>6, ServeFrame, JobType
  <2>2. JobCovered(h)'
    BY <1>1, <1>6, JobStep
  <2>3. ASSUME NEW g \in Handlers \ {h} PROVE JobCovered(g)'
    <3>1. pc[g] \in Owning => job[g].quote \in Quotes
      BY <1>1, JobType DEF Owning
    <3>2. pc[g] \in Owning /\ pc[h] \in Owning => job[g].quote # r
      BY DEF OneOwner
    <3>3. pc[g] \in Owning => /\ Held(job[g].quote) \subseteq Held(job[g].quote)'
                              /\ change'[job[g].quote] = change[job[g].quote]
      <4> SUFFICES ASSUME pc[g] \in Owning
                   PROVE  /\ Held(job[g].quote) \subseteq Held(job[g].quote)'
                          /\ change'[job[g].quote] = change[job[g].quote]
        OBVIOUS
      <4> DEFINE p == job[g].quote
      <4>1. Held(p) \subseteq {x \in Proofs : spentBy'[x] = p} /\ change'[p] = change[p]
        BY <1>1, <1>6, <3>1, <3>2, QuoteFrame DEF Held
      <4> QED
        BY <2>1, <4>1 DEF Held
    <3> QED
      BY <1>1, <2>1, <3>3, JobKept DEF CoverInv
  <2>4. ASSUME NEW q \in Quotes, state'[q] = "UNPAID" PROVE change'[q] = 0
    <3>1. CASE pc[h] \in Owning /\ q = r
      <4>1. state[q] = "PENDING"
        BY <3>1 DEF OneOwner
      <4>2. Release(h)
        BY <1>1, <1>6, <2>1, <2>4, <3>1, <4>1
        DEF Serve, CheckSettled, Claim, Mark, MarkFails, MarkUnanswered, Withdraw, WithdrawFails,
            WithdrawUnanswered, Revert, SignChange, Settle, Fail, TypeOK, MeltTypeOK
      <4> QED
        BY <3>1, <4>2 DEF CoverInv, JobCovered, Owning, Release
    <3>2. CASE ~(pc[h] \in Owning /\ q = r)
      <4>1. change'[q] = change[q]
        BY <1>1, <1>6, <3>2, QuoteFrame
      <4>2. state[q] = "UNPAID"
        <5>1. CASE Claim(h)
          BY <1>1, <2>4, <5>1 DEF Claim, TypeOK, MeltTypeOK
        <5>2. CASE ~Claim(h)
          BY <1>1, <1>6, <2>4, <3>2, <5>2, OwnerSteps
        <5> QED
          BY <5>1, <5>2
      <4> QED
        BY <4>1, <4>2 DEF CoverInv
    <3> QED
      BY <3>1, <3>2
  <2>5. ASSUME NEW q \in Quotes, state'[q] = "PAID" PROVE Covered(q)'
    <3>1. CASE pc[h] \in Owning /\ q = r
      <4>1. state[q] = "PENDING"
        BY <3>1 DEF OneOwner
      <4>2. Settle(h)
        BY <1>1, <1>6, <2>1, <2>5, <3>1, <4>1
        DEF Serve, CheckSettled, Claim, Mark, MarkFails, MarkUnanswered, Withdraw, WithdrawFails,
            WithdrawUnanswered, Revert, SignChange, Release, Fail, TypeOK, MeltTypeOK
      <4>3. Covered(q) /\ UNCHANGED <<spentBy, change>>
        BY <3>1, <4>2 DEF CoverInv, JobCovered, Settle
      <4> QED
        BY <4>3 DEF Covered, Held
    <3>2. CASE ~(pc[h] \in Owning /\ q = r)
      <4>1. Held(q) \subseteq Held(q)' /\ change'[q] = change[q]
        BY <1>1, <1>6, <3>2, QuoteFrame
      <4>2. state[q] = "PAID"
        <5>1. CASE Claim(h)
          BY <1>1, <2>5, <5>1 DEF Claim, TypeOK, MeltTypeOK
        <5>2. CASE ~Claim(h)
          BY <1>1, <1>6, <2>5, <3>2, <5>2, OwnerSteps
        <5> QED
          BY <5>1, <5>2
      <4> QED
        BY <1>1, <1>2, <4>1, <4>2, CoveredGrows DEF CoverInv
    <3> QED
      BY <3>1, <3>2
  <2> QED
    BY <1>3, <2>2, <2>3, <2>4, <2>5 DEF CoverInv
<1>7. CASE SwapNext /\ UNCHANGED meltVars
  BY <1>4, <1>7, SwapFrame
<1>8. CASE UNCHANGED vars
  BY <1>4, <1>8 DEF vars, Held
<1> QED
  BY <1>5, <1>6, <1>7, <1>8 DEF Next, MeltNext

LEMMA CoverInvariant == Spec => [](TypeInv /\ OneOwner /\ CoverInv)
<1>1. Init => TypeInv /\ OneOwner /\ CoverInv
  BY InitType, OwnerInit, CoverInit
<1>2. TypeInv /\ OneOwner /\ CoverInv /\ [Next]_vars => (TypeInv /\ OneOwner /\ CoverInv)'
  BY TypeStep, OwnerStep, CoverStep
<1> QED
  BY <1>1, <1>2, PTL DEF Spec

(* Whatever answers get lost and however often a melt is retried, a quote   *)
(* that ends up PAID holds proofs for one payment and for the change that   *)
(* was signed (meltTokens).                                                 *)
THEOREM SettledCorrect == Spec => []SettledIsCovered
<1>1. CoverInv => SettledIsCovered
  BY DEF CoverInv
<1> QED
  BY CoverInvariant, <1>1, PTL

-----------------------------------------------------------------------------
(* Payments, where the answer of withdraw is never lost.                    *)

(* An invoice is settled by one of its quotes, and what was sent for a      *)
(* quote shows in its state and in the request that owns it.                *)
PaymentsInv ==
  /\ \A q \in Quotes :
       /\ sent[q] \in {0, 1}
       /\ sent[q] = 0 => change[q] = 0
       /\ sent[q] = 1 => state[q] # "UNPAID" /\ Covered(q)
  /\ \A h \in Handlers :
       /\ pc[h] \in {"mark", "withdraw", "revert", "release"} => sent[job[h].quote] = 0
       /\ pc[h] \in {"change", "settle"} => sent[job[h].quote] = 1
  /\ \A q, p \in Bolt11 :
       q # p /\ Request[q] = Request[p]
         => state[q] = "UNPAID" \/ state[p] = "UNPAID"

LEMMA PaymentsInit == Init => PaymentsInv
  BY DEF Init, MeltInit, PaymentsInv, Bolt11

(* A step of a request keeps what the invariant says of other quotes.       *)
LEMMA OtherQuotes ==
  ASSUME TypeOK, TypeOK', PaymentsInv, NEW h \in Handlers, Serve(h), NEW q \in Quotes,
         pc[h] \in Owning => q # job[h].quote
  PROVE  /\ sent'[q] = sent[q] /\ change'[q] = change[q]
         /\ sent[q] = 1 => state'[q] # "UNPAID" /\ Covered(q)'
<1>1. Held(q) \subseteq Held(q)' /\ change'[q] = change[q] /\ sent'[q] = sent[q]
  BY QuoteFrame
<1>2. sent[q] = 1 => Covered(q)'
  BY <1>1, CoveredGrows DEF PaymentsInv
<1>3. sent[q] = 1 => state'[q] # "UNPAID"
  <2>1. CASE Claim(h)
    BY <2>1 DEF PaymentsInv, Claim, TypeOK, MeltTypeOK
  <2>2. CASE ~Claim(h)
    BY <2>2, OwnerSteps DEF PaymentsInv
  <2> QED
    BY <2>1, <2>2
<1> QED
  BY <1>1, <1>2, <1>3

(* What the owner's step does to its own quote. *)
LEMMA OwnQuote ==
  ASSUME "payment" \notin Lossy,
         TypeOK, TypeOK', OneOwner, CoverInv, CoverInv', PaymentsInv,
         NEW h \in Handlers, Serve(h), pc[h] \in Owning,
         NEW q \in Quotes, q = job[h].quote
  PROVE  /\ sent'[q] \in {0, 1}
         /\ sent'[q] = 0 => change'[q] = 0
         /\ sent'[q] = 1 => state'[q] # "UNPAID" /\ Covered(q)'
         /\ pc'[h] \in {"mark", "withdraw", "revert", "release"} => sent'[q] = 0
         /\ pc'[h] \in {"change", "settle"} => sent'[q] = 1
<1>1. /\ pc[h] # "idle" /\ q \in Quotes /\ q \in Txs /\ job[h].inputs \in SUBSET Proofs
      /\ pc'[h] # "idle" => job'[h].quote = q /\ job'[h].inputs = job[h].inputs
      /\ state[q] = "PENDING"
  BY ServeFrame, JobType DEF OneOwner
<1>2. pc \in [Handlers -> Labels] /\ change \in [Quotes -> Nat] /\ sent \in [Quotes -> Nat]
      /\ state \in [Quotes -> {"UNPAID", "PENDING", "PAID"}] /\ job[h] \in Jobs
      /\ job \in [Handlers -> Jobs \cup {NoJob}]
  BY <1>1, JobType DEF TypeOK, MeltTypeOK
<1>3. CASE Mark(h) \/ MarkFails(h) \/ WithdrawFails(h) \/ Revert(h) \/ MarkUnanswered(h)
           \/ Release(h)
  <2>1. /\ pc[h] \in {"mark", "withdraw", "revert", "release"}
        /\ pc'[h] \in {"withdraw", "revert", "release", "idle"}
        /\ sent' = sent /\ change' = change
    BY <1>2, <1>3 DEF Mark, MarkFails, WithdrawFails, Revert, MarkUnanswered, Release, Goto
  <2>2. sent[q] = 0 /\ change[q] = 0
    BY <1>1, <2>1 DEF PaymentsInv
  <2> QED
    BY <2>1, <2>2
<1>4. CASE \E fee \in Fees : Withdraw(h, fee)
  <2>1. /\ pc[h] = "withdraw" /\ pc'[h] = "change" /\ state' = state /\ change' = change
        /\ sent' = [sent EXCEPT ![q] = @ + 1]
    BY <1>2, <1>4 DEF Withdraw
  <2>2. sent[q] = 0 /\ change[q] = 0
    BY <1>1, <2>1 DEF PaymentsInv
  <2>3. sent'[q] = 1
    BY <1>1, <1>2, <2>1, <2>2
  <2>4. /\ job'[h].inputs \subseteq Held(job[h].quote)'
        /\ Worth[job'[h].inputs] >= Reserved(q, job[h].inputs)
    BY <1>1, <2>1 DEF CoverInv, JobCovered, Held, Reserved
  <2>5. Covered(q)'
    <3>1. Held(q)' \in SUBSET Proofs
      BY DEF Held
    <3>2. Worth[job[h].inputs] <= Worth[Held(q)'] /\ Worth[Held(q)'] \in Nat
          /\ Worth[job[h].inputs] \in Nat
      BY <1>1, <2>1, <2>4, <3>1, WorthMonotone, WorthType
    <3>3. Worth[job[h].inputs] >= Amount[q] /\ Amount[q] \in Nat
      BY <1>1, <2>1, <2>4, <3>2, ReservedType, WorthType
    <3>4. Worth[Held(q)'] >= Amount[q] + change'[q]
      BY <2>1, <2>2, <3>2, <3>3
    <3> QED
      BY <3>4 DEF Covered
  <2> QED
    BY <1>1, <2>1, <2>2, <2>3, <2>5
<1>5. CASE \E c \in 0 .. job[h].change : SignChange(h, c)
  <2>1. /\ pc[h] = "change" /\ pc'[h] = "settle" /\ state' = state /\ sent' = sent
        /\ job' = job
    BY <1>2, <1>5 DEF SignChange, Goto
  <2>2. sent[q] = 1
    BY <1>1, <2>1 DEF PaymentsInv
  <2>3. JobCovered(h)'
    BY DEF CoverInv
  <2>4. Covered(q)'
    BY <2>1, <2>3 DEF JobCovered, Covered, Held
  <2> QED
    BY <1>1, <2>1, <2>2, <2>4
<1>6. CASE Settle(h)
  <2>1. /\ pc[h] = "settle" /\ pc'[h] = "idle" /\ sent' = sent /\ change' = change
        /\ spentBy' = spentBy /\ state'[q] # "UNPAID"
    BY <1>1, <1>2, <1>6 DEF Settle, Goto
  <2>2. sent[q] = 1 /\ Covered(q)
    BY <1>1, <2>1 DEF PaymentsInv
  <2> QED
    BY <2>1, <2>2 DEF Covered, Held
<1>7. CASE Fail(h)
  <2>1. pc'[h] = "idle" /\ UNCHANGED <<spentBy, state, sent, change>>
    BY <1>2, <1>7 DEF Fail, Goto
  <2> QED
    BY <1>1, <2>1 DEF PaymentsInv, Covered, Held
<1>8. ~CheckSettled(h) /\ ~Claim(h) /\ ~WithdrawUnanswered(h)
  BY DEF CheckSettled, Claim, WithdrawUnanswered, Owning
<1> QED
  BY <1>3, <1>4, <1>5, <1>6, <1>7, <1>8 DEF Serve

(* A quote leaves UNPAID only when no other quote for its invoice is        *)
(* settled: the unique index of migration 010.                              *)
LEMMA InvoiceStep ==
  ASSUME TypeOK, OneOwner, PaymentsInv, NEW h \in Handlers, Serve(h),
         NEW q \in Bolt11, NEW p \in Bolt11, q # p, Request[q] = Request[p]
  PROVE  state'[q] = "UNPAID" \/ state'[p] = "UNPAID"
<1>1. q \in Quotes /\ p \in Quotes
  BY DEF Bolt11
<1>2. state[q] = "UNPAID" \/ state[p] = "UNPAID"
  BY DEF PaymentsInv
<1>3. CASE Claim(h)
  <2>1. /\ state' = [state EXCEPT ![job[h].quote] = "PENDING"]
        /\ job[h].quote \in Bolt11 => ~SettledTwin(job[h].quote)
        /\ state \in [Quotes -> {"UNPAID", "PENDING", "PAID"}]
    BY <1>3 DEF Claim, Claimable, TypeOK, MeltTypeOK
  <2> QED
    BY <1>1, <1>2, <2>1 DEF SettledTwin
<1>4. CASE ~Claim(h)
  <2>1. CASE pc[h] \in Owning
    <3>1. job[h].quote \in Quotes /\ state[job[h].quote] = "PENDING"
      BY <2>1, JobType DEF OneOwner, Owning
    <3> QED
      BY <1>1, <1>2, <1>4, <2>1, <3>1, OwnerSteps
  <2>2. CASE pc[h] \notin Owning
    BY <1>2, <1>4, <2>2, OwnerSteps
  <2> QED
    BY <2>1, <2>2
<1> QED
  BY <1>3, <1>4

LEMMA PaymentsStep ==
  ASSUME "payment" \notin Lossy
  PROVE  TypeInv /\ TypeInv' /\ OneOwner /\ CoverInv /\ CoverInv' /\ PaymentsInv
           /\ [Next]_vars => PaymentsInv'
<1> SUFFICES ASSUME TypeInv, TypeInv', OneOwner, CoverInv, CoverInv', PaymentsInv, [Next]_vars
             PROVE  PaymentsInv'
  OBVIOUS
<1>1. TypeOK /\ TypeOK'
  BY DEF TypeInv
<1>2. CASE UNCHANGED meltVars /\ \A q \in Quotes : Held(q)' = Held(q)
  <2>1. \A q \in Quotes : Covered(q)' <=> Covered(q)
    BY <1>2 DEF Covered, meltVars
  <2> QED
    BY <1>2, <2>1 DEF PaymentsInv, meltVars
<1>3. ASSUME NEW h \in Handlers, NEW q \in Quotes, NEW ps \in SUBSET Proofs, Start(h, q, ps)
      PROVE  PaymentsInv'
  <2>1. /\ pc[h] = "idle" /\ pc'[h] \in {"check", "claim"}
        /\ \A g \in Handlers \ {h} : pc'[g] = pc[g] /\ job'[g] = job[g]
        /\ UNCHANGED <<spentBy, state, sent, change>>
    BY <1>1, <1>3, StartFrame
  <2>2. \A p \in Quotes : Covered(p)' <=> Covered(p)
    BY <2>1 DEF Covered, Held
  <2> QED
    BY <2>1, <2>2 DEF PaymentsInv
<1>4. ASSUME NEW h \in Handlers, Serve(h)
      PROVE  PaymentsInv'
  <2> DEFINE r == job[h].quote
  <2>1. /\ pc[h] # "idle" /\ r \in Quotes
        /\ \A g \in Handlers \ {h} : pc'[g] = pc[g] /\ job'[g] = job[g]
        /\ pc'[h] # "idle" => job'[h].quote = r
    BY <1>1, <1>4, ServeFrame, JobType
  <2>2. ASSUME NEW q \in Quotes
        PROVE  /\ sent'[q] \in {0, 1}
               /\ sent'[q] = 0 => change'[q] = 0
               /\ sent'[q] = 1 => state'[q] # "UNPAID" /\ Covered(q)'
    <3>1. CASE pc[h] \in Owning /\ q = r
      BY <1>1, <1>4, <3>1, OwnQuote DEF Covered, Held
    <3>2. CASE ~(pc[h] \in Owning /\ q = r)
      BY <1>1, <1>4, <3>2, OtherQuotes DEF PaymentsInv
    <3> QED
      BY <3>1, <3>2
  <2>3. ASSUME NEW g \in Handlers
        PROVE  /\ pc'[g] \in {"mark", "withdraw", "revert", "release"} => sent'[job'[g].quote] = 0
               /\ pc'[g] \in {"change", "settle"} => sent'[job'[g].quote] = 1
    <3>1. CASE g = h /\ pc[h] \in Owning
      BY <1>1, <1>4, <2>1, <3>1, OwnQuote
    <3>2. CASE g = h /\ Claim(h)
      <4>1. pc'[h] = "mark" /\ sent' = sent /\ state[r] = "UNPAID"
        BY <1>1, <3>2 DEF Claim, Claimable, Goto, TypeOK, MeltTypeOK
      <4> QED
        BY <2>1, <3>2, <4>1 DEF PaymentsInv
    <3>3. CASE g = h /\ pc[h] \notin Owning /\ ~Claim(h)
      BY <1>1, <1>4, <3>3, OwnerSteps DEF Owning
    <3>4. CASE g # h
      <4>1. CASE pc[g] \in Owning
        <5>1. job[g].quote \in Quotes /\ (pc[h] \in Owning => job[g].quote # r)
          BY <1>1, <3>4, <4>1, JobType DEF OneOwner, Owning
        <5>2. sent'[job[g].quote] = sent[job[g].quote]
          BY <1>1, <1>4, <5>1, OtherQuotes
        <5> QED
          BY <2>1, <3>4, <5>2 DEF PaymentsInv
      <4>2. CASE pc[g] \notin Owning
        BY <2>1, <3>4, <4>2 DEF Owning
      <4> QED
        BY <4>1, <4>2
    <3> QED
      BY <3>1, <3>2, <3>3, <3>4
  <2>4. \A q, p \in Bolt11 :
          q # p /\ Request[q] = Request[p] => state'[q] = "UNPAID" \/ state'[p] = "UNPAID"
    BY <1>1, <1>4, InvoiceStep
  <2> QED
    BY <2>2, <2>3, <2>4 DEF PaymentsInv
<1>5. CASE SwapNext /\ UNCHANGED meltVars
  BY <1>2, <1>5, SwapFrame
<1>6. CASE UNCHANGED vars
  BY <1>2, <1>6 DEF vars, Held
<1> QED
  BY <1>3, <1>4, <1>5, <1>6 DEF Next, MeltNext

PaidInv == TypeInv /\ OneOwner /\ CoverInv /\ PaymentsInv

LEMMA PaidInvariant ==
  ASSUME "payment" \notin Lossy
  PROVE  Spec => []PaidInv
<1>1. Init => PaidInv
  BY InitType, OwnerInit, CoverInit, PaymentsInit DEF PaidInv
<1>2. PaidInv /\ [Next]_vars => PaidInv'
  BY TypeStep, OwnerStep, CoverStep, PaymentsStep DEF PaidInv
<1> QED
  BY <1>1, <1>2, PTL DEF Spec

(* As long as withdraw answers, no quote and no invoice is paid twice,      *)
(* however many quotes were made for the invoice and however many requests  *)
(* race for them.                                                           *)
THEOREM PaidOnceCorrect ==
  ASSUME "payment" \notin Lossy
  PROVE  Spec => []PaidOnce
<1>1. PaidInv => PaidOnce
  BY DEF PaidInv, PaymentsInv, PaidOnce, Bolt11
<1> QED
  BY PaidInvariant, <1>1, PTL

(* As long as withdraw answers, every payment that left the mint is covered *)
(* by proofs held for it, also when the process dies right after it.        *)
THEOREM PaidCorrect ==
  ASSUME "payment" \notin Lossy
  PROVE  Spec => []PaidIsCovered
<1>1. PaidInv => PaidIsCovered
  BY HistoryType DEF PaidInv, TypeInv, PaymentsInv, PaidIsCovered, Covered
<1> QED
  BY PaidInvariant, <1>1, PTL

-----------------------------------------------------------------------------
(* A quote that is UNPAID again is clean, where no answer is lost.          *)

(* Proofs are inserted under a quote only between its claim and its         *)
(* release, and the release comes after they are deleted.                   *)
CleanInv ==
  /\ \A q \in Quotes : state[q] = "UNPAID" => Held(q) = {}
  /\ \A h \in Handlers : pc[h] \in {"mark", "release"} => Held(job[h].quote) = {}

LEMMA CleanInit == Init => CleanInv
<1> SUFFICES ASSUME Init PROVE CleanInv
  OBVIOUS
<1>1. \A q \in Quotes : q # None
  BY MeltAssumption, ProofStoreAssumption
<1> QED
  BY <1>1 DEF Init, ProofStoreInit, MeltInit, CleanInv, Held

(* The proofs held under a quote are written by the request that owns it.   *)
LEMMA HeldFrame ==
  ASSUME TypeOK, NEW h \in Handlers, Serve(h), NEW q \in Quotes,
         pc[h] \in Owning => q # job[h].quote
  PROVE  Held(q)' = Held(q)
<1>1. job[h].quote \in Txs /\ job[h].inputs \in SUBSET Proofs /\ q \in Txs
  BY ServeFrame, JobType, MeltAssumption
<1>2. CASE Mark(h) \/ MarkUnanswered(h)
  BY <1>1, <1>2, MarkGrows DEF Mark, MarkUnanswered, Owning
<1>3. CASE Revert(h)
  BY <1>1, <1>3, DeleteKeeps DEF Revert, Owning
<1>4. CASE ~(Mark(h) \/ MarkUnanswered(h) \/ Revert(h))
  <2>1. spentBy' = spentBy
    BY <1>4 DEF Serve, CheckSettled, Claim, MarkFails, Withdraw, WithdrawFails,
                WithdrawUnanswered, Release, SignChange, Settle, Fail
  <2> QED
    BY <2>1 DEF Held
<1> QED
  BY <1>2, <1>3, <1>4

(* What the owner's step does to its own quote. *)
LEMMA OwnClean ==
  ASSUME "commit" \notin Lossy, TypeOK, OneOwner, CleanInv, NEW h \in Handlers, Serve(h),
         NEW q \in Quotes, q = job[h].quote
  PROVE  /\ pc[h] \in Owning /\ state'[q] = "UNPAID" => Held(q)' = {}
         /\ pc'[h] \in {"mark", "release"} => Held(q)' = {}
<1>1. /\ pc \in [Handlers -> Labels] /\ q \in Txs
      /\ state \in [Quotes -> {"UNPAID", "PENDING", "PAID"}]
      /\ pc[h] \in Owning => state[q] = "PENDING"
  BY MeltAssumption DEF TypeOK, MeltTypeOK, OneOwner
<1>2. CASE Claim(h)
  <2>1. state[q] = "UNPAID" /\ spentBy' = spentBy /\ pc[h] \notin Owning
    BY <1>2 DEF Claim, Claimable, Owning
  <2> QED
    BY <2>1 DEF CleanInv, Held
<1>3. CASE MarkFails(h) \/ Release(h)
  <2>1. pc[h] \in {"mark", "release"} /\ spentBy' = spentBy
    BY <1>3 DEF MarkFails, Release
  <2> QED
    BY <2>1 DEF CleanInv, Held
<1>4. CASE Revert(h)
  <2>1. spentBy' = [p \in Proofs |-> IF spentBy[p] = q THEN None ELSE spentBy[p]]
        /\ None \notin Txs
    BY <1>4, ProofStoreAssumption DEF Revert, DeleteByTransactionId
  <2> QED
    BY <1>1, <2>1 DEF Held
<1>5. CASE Mark(h) \/ WithdrawFails(h) \/ WithdrawUnanswered(h)
  BY <1>1, <1>5 DEF Mark, WithdrawFails, WithdrawUnanswered, Goto, Owning
<1>6. CASE \E fee \in Fees : Withdraw(h, fee)
  BY <1>1, <1>6 DEF Withdraw, Owning
<1>7. CASE \E c \in 0 .. job[h].change : SignChange(h, c)
  BY <1>1, <1>7 DEF SignChange, Goto, Owning
<1>8. CASE CheckSettled(h) \/ Settle(h) \/ Fail(h)
  BY <1>1, <1>8 DEF CheckSettled, Settle, Fail, Goto, Owning
<1>9. ~MarkUnanswered(h)
  BY DEF MarkUnanswered
<1> QED
  BY <1>2, <1>3, <1>4, <1>5, <1>6, <1>7, <1>8, <1>9 DEF Serve

LEMMA CleanStep ==
  ASSUME "commit" \notin Lossy
  PROVE  TypeInv /\ OneOwner /\ CleanInv /\ [Next]_vars => CleanInv'
<1> SUFFICES ASSUME TypeInv, OneOwner, CleanInv, [Next]_vars PROVE CleanInv'
  OBVIOUS
<1>1. TypeOK /\ \A g \in Handlers : pc[g] # "idle" => job[g].quote \in Quotes
  BY JobType DEF TypeInv
<1>2. CASE UNCHANGED meltVars /\ \A q \in Quotes : Held(q)' = Held(q)
  <2>1. ASSUME NEW g \in Handlers, pc'[g] \in {"mark", "release"}
        PROVE  Held(job[g].quote)' = {}
    <3>1. PICK q \in Quotes : q = job[g].quote /\ job'[g].quote = q /\ Held(q) = {}
      BY <1>1, <1>2, <2>1 DEF CleanInv, meltVars
    <3> QED
      BY <1>2, <3>1 DEF Held
  <2> QED
    BY <1>2, <2>1 DEF CleanInv, meltVars
<1>3. ASSUME NEW h \in Handlers, NEW q \in Quotes, NEW ps \in SUBSET Proofs, Start(h, q, ps)
      PROVE  CleanInv'
  <2>1. /\ pc'[h] \in {"check", "claim"} /\ UNCHANGED <<spentBy, state>>
        /\ \A g \in Handlers \ {h} : pc'[g] = pc[g] /\ job'[g] = job[g]
    BY <1>1, <1>3, StartFrame
  <2> QED
    BY <2>1 DEF CleanInv, Held
<1>4. ASSUME NEW h \in Handlers, Serve(h)
      PROVE  CleanInv'
  <2> DEFINE held(q) == {p \in Proofs : spentBy'[p] = q}
  <2>1. PICK r \in Quotes :
          /\ r = job[h].quote
          /\ pc'[h] # "idle" => job'[h].quote = r
          /\ \A g \in Handlers \ {h} : pc'[g] = pc[g] /\ job'[g] = job[g]
    BY <1>1, <1>4, ServeFrame
  <2>2. \A q \in Quotes : (pc[h] \in Owning => q # r) => held(q) = Held(q)
    BY <1>1, <1>4, <2>1, HeldFrame DEF Held
  <2>3. /\ pc[h] \in Owning /\ state'[r] = "UNPAID" => held(r) = {}
        /\ pc'[h] \in {"mark", "release"} => held(r) = {}
    BY <1>1, <1>4, <2>1, OwnClean DEF Held
  <2>4. ASSUME NEW q \in Quotes, state'[q] = "UNPAID" PROVE held(q) = {}
    <3>1. CASE pc[h] \in Owning /\ q = r
      BY <2>3, <2>4, <3>1
    <3>2. CASE ~(pc[h] \in Owning /\ q = r)
      <4>1. state[q] = "UNPAID"
        <5>1. CASE Claim(h)
          BY <1>1, <2>4, <5>1 DEF Claim, TypeOK, MeltTypeOK
        <5>2. CASE ~Claim(h)
          BY <1>1, <1>4, <2>1, <2>4, <3>2, <5>2, OwnerSteps
        <5> QED
          BY <5>1, <5>2
      <4> QED
        BY <2>2, <3>2, <4>1 DEF CleanInv
    <3> QED
      BY <3>1, <3>2
  <2>5. ASSUME NEW g \in Handlers, pc'[g] \in {"mark", "release"} PROVE held(job'[g].quote) = {}
    <3>1. CASE g = h
      BY <2>1, <2>3, <2>5, <3>1
    <3>2. CASE g # h
      <4>1. pc[g] \in Owning /\ job'[g] = job[g] /\ Held(job[g].quote) = {}
            /\ job[g].quote \in Quotes
        BY <1>1, <2>1, <2>5, <3>2 DEF CleanInv, Owning
      <4>2. pc[h] \in Owning => job[g].quote # r
        BY <2>1, <3>2, <4>1 DEF OneOwner
      <4> QED
        BY <2>2, <4>1, <4>2
    <3> QED
      BY <3>1, <3>2
  <2> QED
    BY <2>4, <2>5 DEF CleanInv, Held
<1>5. CASE SwapNext /\ UNCHANGED meltVars
  BY <1>2, <1>5, SwapFrame
<1>6. CASE UNCHANGED vars
  BY <1>2, <1>6 DEF vars, Held
<1> QED
  BY <1>3, <1>4, <1>5, <1>6 DEF Next, MeltNext

(* Where neither a COMMIT nor a payment goes unanswered, a failed melt      *)
(* leaves nothing behind: a quote that is UNPAID again was not paid and     *)
(* holds no proof, whatever fails or dies between two awaits (meltTokens).  *)
THEOREM CleanCorrect ==
  ASSUME Lossy = {}
  PROVE  Spec => []UnpaidIsClean
<1>1. Init => CleanInv
  BY CleanInit
<1>2. TypeInv /\ OneOwner /\ CleanInv /\ [Next]_vars => CleanInv'
  BY CleanStep
<1>3. PaidInv => TypeInv /\ OneOwner
  BY DEF PaidInv
<1>4. PaidInv /\ CleanInv => UnpaidIsClean
  BY DEF PaidInv, PaymentsInv, CleanInv, UnpaidIsClean
<1>5. Spec => []PaidInv
  BY PaidInvariant
<1> QED
  BY <1>1, <1>2, <1>3, <1>4, <1>5, PTL DEF Spec

-----------------------------------------------------------------------------
(* Melts and swaps implement Redemption.                                    *)

(* A swap that marked its inputs holds them until it has signed, and signed *)
(* nothing before.                                                          *)
SwapInv ==
  \A s \in Swaps :
    /\ swapPc[s] = "sign" => swapIn[s] \subseteq Held(s)
    /\ swapPc[s] # "done" => signed[s] = 0

LEMMA SwapInit0 == Init => SwapInv
  BY DEF Init, SwapInit, SwapInv

(* A melt touches only the proofs of melts. *)
LEMMA MeltFrame ==
  ASSUME TypeInv, MeltNext
  PROVE  \A s \in Swaps : Held(s)' = Held(s)
<1> SUFFICES ASSUME NEW s \in Swaps PROVE Held(s)' = Held(s)
  OBVIOUS
<1>1. TypeOK
  BY DEF TypeInv
<1>2. PICK h \in Handlers :
        \/ \E q \in Quotes, ps \in SUBSET Proofs : Start(h, q, ps)
        \/ Serve(h)
  BY DEF MeltNext
<1>3. CASE \E q \in Quotes, ps \in SUBSET Proofs : Start(h, q, ps)
  BY <1>3 DEF Start, Held
<1>4. CASE Serve(h)
  <2>1. /\ job[h].quote \in Quotes /\ job[h].quote \in Txs
        /\ job[h].inputs \in SUBSET Proofs /\ s \in Txs \ {job[h].quote}
    BY <1>1, <1>4, ServeFrame, JobType, SwapAssumption, SpendingAssumption
  <2>2. CASE Mark(h) \/ MarkUnanswered(h)
    BY <2>1, <2>2, MarkGrows DEF Mark, MarkUnanswered
  <2>3. CASE Revert(h)
    BY <2>1, <2>3, DeleteKeeps DEF Revert
  <2>4. CASE ~(Mark(h) \/ MarkUnanswered(h) \/ Revert(h))
    <3>1. spentBy' = spentBy
      BY <1>4, <2>4 DEF Serve, CheckSettled, Claim, MarkFails, Withdraw, WithdrawFails,
                        WithdrawUnanswered, Release, SignChange, Settle, Fail
    <3> QED
      BY <3>1 DEF Held
  <2> QED
    BY <2>2, <2>3, <2>4
<1> QED
  BY <1>2, <1>3, <1>4

LEMMA SwapStep == TypeInv /\ SwapInv /\ [Next]_vars => SwapInv'
<1> SUFFICES ASSUME TypeInv, SwapInv, [Next]_vars PROVE SwapInv'
  OBVIOUS
<1>1. CASE UNCHANGED swapVars /\ \A s \in Swaps : Held(s)' = Held(s)
  BY <1>1 DEF SwapInv, swapVars
<1>2. ASSUME NEW s \in Swaps, MarkInputs(s) \/ SignOutputs(s) \/ SwapFail(s)
      PROVE  SwapInv'
  <2>1. /\ s \in Txs /\ swapIn[s] \in SUBSET Proofs /\ swapIn' = swapIn
        /\ swapPc \in [Swaps -> {"mark", "sign", "done", "failed"}]
        /\ signed \in [Swaps -> Nat]
    BY <1>2, SwapAssumption
    DEF TypeInv, TypeOK, SwapTypeOK, MarkInputs, SignOutputs, SwapFail
  <2>2. ASSUME NEW r \in Swaps, swapPc'[r] = "sign" PROVE swapIn[r] \subseteq Held(r)'
    <3>1. CASE MarkInputs(s)
      <4>1. CASE r = s
        BY <2>1, <3>1, <4>1, MarkGrows DEF MarkInputs
      <4>2. CASE r # s
        <5>1. r \in Txs \ {s} /\ swapPc[r] = "sign"
          BY <2>1, <2>2, <3>1, <4>2, SwapAssumption DEF MarkInputs
        <5>2. Held(r)' = Held(r)
          BY <2>1, <3>1, <5>1, MarkGrows DEF MarkInputs
        <5> QED
          BY <5>1, <5>2 DEF SwapInv
      <4> QED
        BY <4>1, <4>2
    <3>2. CASE SignOutputs(s) \/ SwapFail(s)
      <4>1. swapPc[r] = "sign" /\ spentBy' = spentBy
        BY <2>1, <2>2, <3>2 DEF SignOutputs, SwapFail
      <4> QED
        BY <4>1 DEF SwapInv, Held
    <3> QED
      BY <1>2, <3>1, <3>2
  <2>3. ASSUME NEW r \in Swaps, swapPc'[r] # "done" PROVE signed'[r] = 0
    BY <1>2, <2>1, <2>3 DEF SwapInv, MarkInputs, SignOutputs, SwapFail
  <2> QED
    BY <2>1, <2>2, <2>3 DEF SwapInv, Held
<1>3. CASE MeltNext /\ UNCHANGED swapVars
  BY <1>1, <1>3, MeltFrame
<1>4. CASE UNCHANGED vars
  BY <1>1, <1>4 DEF vars, Held
<1> QED
  BY <1>2, <1>3, <1>4 DEF Next, SwapNext

RedeemInv == PaidInv /\ SwapInv

LEMMA NoneIsNotFinal == ~Final(None)
  BY ProofStoreAssumption, MeltAssumption, SwapAssumption DEF Final

LEMMA TimesZeroOrOne ==
  ASSUME NEW n \in Nat PROVE 0 * n = 0 /\ 1 * n = n
  OBVIOUS

LEMMA RedeemInit == Init => Ecash!Init
<1> SUFFICES ASSUME Init PROVE Ecash!Init
  OBVIOUS
<1>1. BurnedBy = [p \in Proofs |-> None]
  BY NoneIsNotFinal DEF Init, ProofStoreInit, BurnedBy
<1>2. \A q \in Quotes : sent[q] = 0 /\ change[q] = 0 /\ 0 * Amount[q] = 0
  BY TimesZeroOrOne, MeltAssumption DEF Init, MeltInit
<1>3. \A s \in Swaps : signed[s] = 0
  BY DEF Init, SwapInit
<1>4. Payout = [t \in Txs |-> 0]
  BY <1>2, <1>3 DEF Payout
<1> QED
  BY <1>1, <1>4 DEF Ecash!Init

(* Final, of given values of the variables. *)
IsFinal(t, s, sp) == IF t \in Quotes THEN s[t] > 0 ELSE t \in Swaps /\ sp[t] = "done"

LEMMA BurnedByIs ==
  /\ BurnedBy = [p \in Proofs |-> IF IsFinal(spentBy[p], sent, swapPc) THEN spentBy[p] ELSE None]
  /\ BurnedBy' = [p \in Proofs |->
                    IF IsFinal(spentBy'[p], sent', swapPc') THEN spentBy'[p] ELSE None]
  BY DEF BurnedBy, Final, IsFinal

(* Rows come and go unseen while their transaction is not final. *)
LEMMA Unseen ==
  ASSUME \A t \in Txs \cup {None} : IsFinal(t, sent', swapPc') <=> IsFinal(t, sent, swapPc),
         \A p \in Proofs : /\ spentBy'[p] \in Txs \cup {None}
                           /\ \/ spentBy'[p] = spentBy[p]
                              \/ /\ ~IsFinal(spentBy[p], sent, swapPc)
                                 /\ ~IsFinal(spentBy'[p], sent, swapPc)
  PROVE  BurnedBy' = BurnedBy
  BY BurnedByIs

(* Payout is a number for each kind of transaction. *)
LEMMA PayoutIs ==
  ASSUME TypeOK, PaymentsInv
  PROVE  /\ DOMAIN Payout = Txs
         /\ \A q \in Quotes : Payout[q] = (IF sent[q] = 1 THEN Amount[q] ELSE 0) + change[q]
         /\ \A s \in Swaps : Payout[s] = signed[s]
<1>1. \A q \in Quotes : q \in Txs
  BY MeltAssumption
<1>2. \A s \in Swaps : s \in Txs /\ s \notin Quotes
  BY SwapAssumption, SpendingAssumption
<1>3. ASSUME NEW q \in Quotes
      PROVE  Payout[q] = (IF sent[q] = 1 THEN Amount[q] ELSE 0) + change[q]
  <2>1. Payout[q] = sent[q] * Amount[q] + change[q]
    BY <1>1 DEF Payout
  <2>2. Amount[q] \in Nat /\ 0 * Amount[q] = 0 /\ 1 * Amount[q] = Amount[q]
    BY MeltAssumption, TimesZeroOrOne
  <2>3. sent[q] = 0 \/ sent[q] = 1
    BY DEF PaymentsInv
  <2> QED
    BY <2>1, <2>2, <2>3
<1> QED
  BY <1>2, <1>3 DEF Payout

LEMMA AbstractStutter ==
  ASSUME UNCHANGED <<spentBy, sent, change, swapPc, signed>>
  PROVE  UNCHANGED <<BurnedBy, Payout>>
  BY DEF BurnedBy, Payout, Final

(* Marking the proofs of a melt or giving them back, while nothing was paid *)
(* for them, is not seen.                                                   *)
LEMMA ProofStepUnseen ==
  ASSUME RedeemInv, RedeemInv', NEW h \in Handlers, Serve(h), UNCHANGED swapVars,
         Mark(h) \/ MarkUnanswered(h) \/ Revert(h)
  PROVE  UNCHANGED <<BurnedBy, Payout>>
<1> DEFINE q == job[h].quote
<1>1. TypeOK /\ TypeOK' /\ PaymentsInv
  BY DEF RedeemInv, PaidInv, TypeInv
<1>2. q \in Quotes /\ q \in Txs /\ job[h].inputs \in SUBSET Proofs
  BY <1>1, ServeFrame, JobType
<1>3. sent[q] = 0 /\ UNCHANGED <<sent, change, swapPc, signed>>
  BY <1>1 DEF PaymentsInv, Mark, MarkUnanswered, Revert, swapVars
<1>4. ~IsFinal(q, sent, swapPc) /\ ~IsFinal(None, sent, swapPc)
  BY <1>2, <1>3, ProofStoreAssumption, MeltAssumption, SwapAssumption DEF IsFinal
<1>5. \A p \in Proofs : spentBy'[p] \in Txs \cup {None}
  BY <1>1 DEF TypeOK, MeltTypeOK, ProofStoreTypeOK
<1>6. \A p \in Proofs : \/ spentBy'[p] = spentBy[p]
                        \/ spentBy[p] \in {q, None} /\ spentBy'[p] \in {q, None}
  <2>1. CASE Mark(h) \/ MarkUnanswered(h)
    BY <2>1 DEF Mark, MarkUnanswered, MarkSpent, Unspent
  <2>2. CASE Revert(h)
    BY <2>2 DEF Revert, DeleteByTransactionId
  <2> QED
    BY <2>1, <2>2
<1>7. BurnedBy' = BurnedBy
  BY <1>3, <1>4, <1>5, <1>6, Unseen
<1>8. Payout' = Payout
  BY <1>3 DEF Payout
<1> QED
  BY <1>7, <1>8

(* The payment burns the proofs the quote holds. *)
LEMMA WithdrawRedeems ==
  ASSUME RedeemInv, RedeemInv', NEW h \in Handlers, NEW fee \in Fees, Withdraw(h, fee),
         Serve(h), UNCHANGED swapVars,
         NEW q \in Quotes, q = job[h].quote
  PROVE  Ecash!Redeem(q, Held(q), Amount[q]) /\ Amount[q] \in 0 .. Worth[Held(q)]
<1>1. TypeOK /\ TypeOK' /\ PaymentsInv /\ PaymentsInv' /\ CoverInv /\ CoverInv'
  BY DEF RedeemInv, PaidInv, TypeInv
<1>2. /\ pc[h] = "withdraw" /\ sent' = [sent EXCEPT ![q] = @ + 1]
      /\ UNCHANGED <<spentBy, change, swapPc, signed>>
  BY DEF Withdraw, swapVars
<1>3. sent[q] = 0 /\ change[q] = 0 /\ q \in Txs
  BY <1>1, <1>2, MeltAssumption DEF PaymentsInv
<1>4. sent'[q] = 1 /\ \A t \in Quotes \ {q} : sent'[t] = sent[t]
  BY <1>1, <1>2, <1>3, HistoryType
<1>5. Payout[q] = 0
  BY <1>1, <1>3, PayoutIs
<1>6. \A p \in Held(q) : BurnedBy[p] = None
  BY <1>3, BurnedByIs DEF Held, IsFinal
<1>7. BurnedBy' = [p \in Proofs |-> IF p \in Held(q) THEN q ELSE BurnedBy[p]]
  <2>1. IsFinal(q, sent', swapPc')
    BY <1>4 DEF IsFinal
  <2>2. ASSUME NEW t \in (Txs \cup {None}) \ {q}
        PROVE  IsFinal(t, sent', swapPc') <=> IsFinal(t, sent, swapPc)
    BY <1>2, <1>4 DEF IsFinal
  <2>3. \A p \in Proofs : spentBy[p] \in Txs \cup {None}
    BY <1>1 DEF TypeOK, MeltTypeOK, ProofStoreTypeOK
  <2> QED
    BY <1>2, <2>1, <2>2, <2>3, BurnedByIs DEF Held
<1>8. Payout' = [Payout EXCEPT ![q] = Amount[q]]
  <2>1. \A t \in Quotes : Payout'[t] = (IF sent'[t] = 1 THEN Amount[t] ELSE 0) + change'[t]
    <3>1. ASSUME NEW t \in Quotes PROVE Payout'[t] = sent'[t] * Amount[t] + change'[t]
      BY MeltAssumption DEF Payout
    <3>2. ASSUME NEW t \in Quotes
          PROVE  Amount[t] \in Nat /\ 0 * Amount[t] = 0 /\ 1 * Amount[t] = Amount[t]
      BY MeltAssumption, TimesZeroOrOne
    <3>3. ASSUME NEW t \in Quotes PROVE sent'[t] = 0 \/ sent'[t] = 1
      BY <1>1 DEF PaymentsInv
    <3> QED
      BY <3>1, <3>2, <3>3
  <2>2. ASSUME NEW t \in Txs PROVE Payout'[t] = (IF t = q THEN Amount[q] ELSE Payout[t])
    <3>1. CASE t = q
      BY <1>2, <1>3, <1>4, <2>1, <3>1, MeltAssumption
    <3>2. CASE t \in Quotes \ {q}
      BY <1>1, <1>2, <1>4, <2>1, <3>2, PayoutIs
    <3>3. CASE t \notin Quotes
      BY <1>2, <3>3 DEF Payout
    <3> QED
      BY <3>1, <3>2, <3>3
  <2>3. /\ Payout = [t \in Txs |-> Payout[t]]
        /\ Payout' = [t \in Txs |-> Payout'[t]]
    BY DEF Payout
  <2> QED
    BY <1>3, <2>2, <2>3
<1>9. Worth[Held(q)] >= Amount[q] /\ Worth[Held(q)] \in Nat /\ Amount[q] \in Nat
  <2>1. Covered(q)'
    BY <1>1, <1>4 DEF PaymentsInv
  <2>2. Worth[Held(q)] >= Amount[q] + change[q]
    BY <1>2, <2>1 DEF Covered, Held
  <2> QED
    BY <1>3, <2>2, HeldType, WorthType, MeltAssumption
<1> QED
  BY <1>5, <1>6, <1>7, <1>8, <1>9 DEF Ecash!Redeem

(* Change is a part of what was burned. *)
LEMMA SignChangeReturns ==
  ASSUME RedeemInv, RedeemInv', NEW h \in Handlers, NEW c \in 0 .. job[h].change,
         SignChange(h, c), Serve(h), UNCHANGED swapVars,
         NEW q \in Quotes, q = job[h].quote
  PROVE  Ecash!Return(q, c) /\ c \in 0 .. Worth[Ecash!Burned(q)]
<1>1. TypeOK /\ TypeOK' /\ PaymentsInv /\ PaymentsInv' /\ CoverInv /\ CoverInv'
  BY DEF RedeemInv, PaidInv, TypeInv
<1>2. /\ pc[h] = "change" /\ change' = [change EXCEPT ![q] = @ + c]
      /\ UNCHANGED <<spentBy, sent, swapPc, signed>>
  BY DEF SignChange, swapVars
<1>3. sent[q] = 1 /\ change[q] = 0 /\ q \in Txs /\ c \in Nat
  BY <1>1, <1>2, JobType, MeltAssumption DEF PaymentsInv, CoverInv, JobCovered, Owning
<1>4. change'[q] = c /\ \A t \in Quotes \ {q} : change'[t] = change[t]
  BY <1>1, <1>2, <1>3, HistoryType
<1>5. BurnedBy' = BurnedBy
  BY <1>2 DEF BurnedBy, Final
<1>6. Ecash!Burned(q) = Held(q)
  BY <1>3, BurnedByIs, ProofStoreAssumption DEF Ecash!Burned, Held, IsFinal
<1>7. Worth[Held(q)] >= Amount[q] + c
  <2>1. Covered(q)'
    BY <1>1, <1>2, <1>3 DEF PaymentsInv
  <2> QED
    BY <1>2, <1>4, <2>1 DEF Covered, Held
<1>8. Worth[Held(q)] \in Nat /\ Amount[q] \in Nat
  BY HeldType, WorthType, MeltAssumption
<1>9. Payout[q] = Amount[q]
  BY <1>1, <1>3, <1>8, PayoutIs
<1>10. Payout' = [Payout EXCEPT ![q] = Payout[q] + c]
  <2>1. Payout'[q] = Payout[q] + c
    <3>1. Payout'[q] = 1 * Amount[q] + c
      BY <1>2, <1>3, <1>4 DEF Payout
    <3> QED
      BY <1>8, <1>9, <3>1, TimesZeroOrOne
  <2>2. ASSUME NEW t \in Txs \ {q} PROVE Payout'[t] = Payout[t]
    BY <1>2, <1>4 DEF Payout
  <2>3. /\ Payout = [t \in Txs |-> Payout[t]]
        /\ Payout' = [t \in Txs |-> Payout'[t]]
    BY DEF Payout
  <2> QED
    BY <1>3, <2>1, <2>2, <2>3
<1> QED
  BY <1>3, <1>5, <1>6, <1>7, <1>8, <1>9, <1>10 DEF Ecash!Return

(* A swap that marks its inputs, or gives up, burned nothing yet. *)
LEMMA SwapUnseen ==
  ASSUME RedeemInv, RedeemInv', NEW s \in Swaps, MarkInputs(s) \/ SwapFail(s),
         UNCHANGED meltVars
  PROVE  UNCHANGED <<BurnedBy, Payout>>
<1>1. /\ TypeOK /\ TypeOK'
      /\ swapPc \in [Swaps -> {"mark", "sign", "done", "failed"}]
  BY DEF RedeemInv, PaidInv, TypeInv, TypeOK, SwapTypeOK
<1>2. s \in Txs /\ s \notin Quotes
  BY SwapAssumption, SpendingAssumption
<1>3. /\ swapPc[s] \in {"mark", "sign"} /\ swapPc'[s] \in {"sign", "failed"}
      /\ \A r \in Swaps \ {s} : swapPc'[r] = swapPc[r]
      /\ UNCHANGED <<sent, change, signed>>
  BY <1>1 DEF MarkInputs, SwapFail, meltVars
<1>4. \A t \in Txs \cup {None} : IsFinal(t, sent', swapPc') <=> IsFinal(t, sent, swapPc)
  BY <1>3 DEF IsFinal
<1>5. ~IsFinal(s, sent, swapPc) /\ ~IsFinal(None, sent, swapPc)
  BY <1>2, <1>3, ProofStoreAssumption, MeltAssumption, SwapAssumption DEF IsFinal
<1>6. \A p \in Proofs : spentBy'[p] \in Txs \cup {None}
  BY <1>1 DEF TypeOK, MeltTypeOK, ProofStoreTypeOK
<1>7. \A p \in Proofs : \/ spentBy'[p] = spentBy[p]
                        \/ spentBy[p] = None /\ spentBy'[p] \in {s, None}
  <2>1. CASE MarkInputs(s)
    BY <2>1 DEF MarkInputs, MarkSpent, Unspent
  <2>2. CASE SwapFail(s)
    BY <2>2 DEF SwapFail
  <2> QED
    BY <2>1, <2>2
<1>8. BurnedBy' = BurnedBy
  BY <1>4, <1>5, <1>6, <1>7, Unseen
<1>9. Payout' = Payout
  BY <1>3 DEF Payout
<1> QED
  BY <1>8, <1>9

(* Signing the outputs burns the inputs. *)
LEMMA SignRedeems ==
  ASSUME RedeemInv, NEW s \in Swaps, SignOutputs(s), UNCHANGED meltVars,
         NEW v, v = Worth[swapIn[s]] - InputFees[swapIn[s]]
  PROVE  Ecash!Redeem(s, Held(s), v) /\ v \in 0 .. Worth[Held(s)]
<1>1. /\ TypeOK /\ PaymentsInv /\ SwapInv /\ SwapPays
      /\ swapPc \in [Swaps -> {"mark", "sign", "done", "failed"}]
      /\ signed \in [Swaps -> Nat] /\ swapIn[s] \in SUBSET Proofs
  BY DEF RedeemInv, PaidInv, TypeInv, TypeOK, SwapTypeOK
<1>2. s \in Txs /\ s \notin Quotes
  BY SwapAssumption, SpendingAssumption
<1>3. /\ swapPc[s] = "sign" /\ swapPc'[s] = "done"
      /\ \A r \in Swaps \ {s} : swapPc'[r] = swapPc[r]
      /\ signed' = [signed EXCEPT ![s] = v]
      /\ UNCHANGED <<spentBy, sent, change>>
  BY <1>1 DEF SignOutputs, meltVars
<1>4. Payout[s] = 0
  BY <1>1, <1>3, PayoutIs DEF SwapInv
<1>5. \A p \in Held(s) : BurnedBy[p] = None
  BY <1>2, <1>3, BurnedByIs DEF Held, IsFinal
<1>6. BurnedBy' = [p \in Proofs |-> IF p \in Held(s) THEN s ELSE BurnedBy[p]]
  <2>1. IsFinal(s, sent', swapPc')
    BY <1>2, <1>3 DEF IsFinal
  <2>2. ASSUME NEW t \in (Txs \cup {None}) \ {s}
        PROVE  IsFinal(t, sent', swapPc') <=> IsFinal(t, sent, swapPc)
    BY <1>3 DEF IsFinal
  <2>3. \A p \in Proofs : spentBy[p] \in Txs \cup {None}
    BY <1>1 DEF TypeOK, MeltTypeOK, ProofStoreTypeOK
  <2> QED
    BY <1>3, <2>1, <2>2, <2>3, BurnedByIs DEF Held
<1>7. Payout' = [Payout EXCEPT ![s] = v]
  <2>1. ASSUME NEW t \in Txs PROVE Payout'[t] = (IF t = s THEN v ELSE Payout[t])
    BY <1>1, <1>2, <1>3 DEF Payout
  <2>2. /\ Payout = [t \in Txs |-> Payout[t]]
        /\ Payout' = [t \in Txs |-> Payout'[t]]
    BY DEF Payout
  <2> QED
    BY <1>2, <2>1, <2>2
<1>8. v \in 0 .. Worth[Held(s)]
  <2>1. Worth[swapIn[s]] <= Worth[Held(s)]
    BY <1>1, <1>3, WorthMonotone, HeldType DEF SwapInv
  <2>2. /\ Worth[swapIn[s]] \in Nat /\ InputFees[swapIn[s]] \in Nat
        /\ Worth[swapIn[s]] >= InputFees[swapIn[s]] /\ Worth[Held(s)] \in Nat
    BY <1>1, WorthType, HeldType DEF SwapPays
  <2> QED
    BY <2>1, <2>2
<1> QED
  BY <1>4, <1>5, <1>6, <1>7, <1>8 DEF Ecash!Redeem

(* Every step of a melt or a swap is a step of Redemption, or is not seen.  *)
LEMMA RedeemStep ==
  ASSUME "payment" \notin Lossy
  PROVE  RedeemInv /\ RedeemInv' /\ [Next]_vars => [Ecash!Next]_<<BurnedBy, Payout>>
<1> SUFFICES ASSUME RedeemInv, RedeemInv', [Next]_vars
             PROVE  [Ecash!Next]_<<BurnedBy, Payout>>
  OBVIOUS
<1>1. ASSUME NEW h \in Handlers, NEW q \in Quotes, NEW ps \in SUBSET Proofs,
             Start(h, q, ps), UNCHANGED swapVars
      PROVE  UNCHANGED <<BurnedBy, Payout>>
  BY <1>1, AbstractStutter DEF Start, swapVars
<1>2. ASSUME NEW h \in Handlers, Serve(h), UNCHANGED swapVars
      PROVE  [Ecash!Next]_<<BurnedBy, Payout>>
  <2>1. job[h].quote \in Quotes /\ job[h].quote \in Txs
    BY <1>2, ServeFrame, JobType, MeltAssumption DEF RedeemInv, PaidInv, TypeInv
  <2>2. PICK q \in Quotes : q = job[h].quote
    BY <2>1
  <2>3. CASE Mark(h) \/ MarkUnanswered(h) \/ Revert(h)
    BY <1>2, <2>3, ProofStepUnseen
  <2>4. CASE \E fee \in Fees : Withdraw(h, fee)
    <3>1. PICK fee \in Fees : Withdraw(h, fee)
      BY <2>4
    <3>2. Ecash!Redeem(q, Held(q), Amount[q]) /\ Amount[q] \in 0 .. Worth[Held(q)]
      BY <1>2, <2>2, <3>1, WithdrawRedeems
    <3> QED
      BY <2>1, <2>2, <3>2, HeldType DEF Ecash!Next
  <2>5. CASE \E c \in 0 .. job[h].change : SignChange(h, c)
    <3>1. PICK c \in 0 .. job[h].change : SignChange(h, c)
      BY <2>5
    <3>2. Ecash!Return(q, c) /\ c \in 0 .. Worth[Ecash!Burned(q)]
      BY <1>2, <2>2, <3>1, SignChangeReturns
    <3>3. CASE c = 0
      <4>1. change' = change
        <5>1. change' = [change EXCEPT ![q] = @ + 0] /\ change[q] \in Nat
          BY <2>2, <3>1, <3>3, HistoryType DEF SignChange, RedeemInv, PaidInv, TypeInv
        <5> QED
          BY <5>1, HistoryType DEF RedeemInv, PaidInv, TypeInv, TypeOK, MeltTypeOK
      <4> QED
        BY <1>2, <3>1, <4>1, AbstractStutter DEF SignChange, swapVars
    <3>4. CASE c # 0
      <4>1. c \in 1 .. Worth[Ecash!Burned(q)]
        BY <3>2, <3>4
      <4> QED
        BY <2>1, <2>2, <3>2, <4>1 DEF Ecash!Next
    <3> QED
      BY <3>3, <3>4
  <2>6. CASE \/ CheckSettled(h) \/ Claim(h) \/ MarkFails(h) \/ WithdrawFails(h)
             \/ Release(h) \/ Settle(h) \/ Fail(h)
    <3>1. UNCHANGED <<spentBy, sent, change>>
      BY <2>6 DEF CheckSettled, Claim, MarkFails, WithdrawFails, Release, Settle, Fail
    <3> QED
      BY <1>2, <3>1, AbstractStutter DEF swapVars
  <2>7. ~WithdrawUnanswered(h)
    BY DEF WithdrawUnanswered
  <2> QED
    BY <1>2, <2>3, <2>4, <2>5, <2>6, <2>7 DEF Serve
<1>3. ASSUME NEW s \in Swaps, MarkInputs(s) \/ SignOutputs(s) \/ SwapFail(s),
             UNCHANGED meltVars
      PROVE  [Ecash!Next]_<<BurnedBy, Payout>>
  <2>1. CASE MarkInputs(s) \/ SwapFail(s)
    BY <1>3, <2>1, SwapUnseen
  <2>2. CASE SignOutputs(s)
    <3>1. PICK v : v = Worth[swapIn[s]] - InputFees[swapIn[s]]
      OBVIOUS
    <3>2. Ecash!Redeem(s, Held(s), v) /\ v \in 0 .. Worth[Held(s)]
      BY <1>3, <2>2, <3>1, SignRedeems
    <3> QED
      BY <3>2, HeldType, SwapAssumption DEF Ecash!Next
  <2> QED
    BY <1>3, <2>1, <2>2
<1>4. CASE UNCHANGED vars
  BY <1>4, AbstractStutter DEF vars, meltVars, swapVars
<1> QED
  BY <1>1, <1>2, <1>3, <1>4 DEF Next, MeltNext, SwapNext

(* As long as withdraw answers, melts and swaps implement Redemption: a     *)
(* proof is redeemed once, for a melt or for a swap, it is never given back *)
(* after it was paid for, and no melt or swap pays out more than the proofs *)
(* it burned, whatever fails or dies between two awaits.                    *)
THEOREM RedemptionCorrect ==
  ASSUME "payment" \notin Lossy
  PROVE  Spec => ImplementsRedemption
<1>1. Init => RedeemInv
  BY InitType, OwnerInit, CoverInit, PaymentsInit, SwapInit0 DEF RedeemInv, PaidInv
<1>2. RedeemInv /\ [Next]_vars => RedeemInv'
  BY TypeStep, OwnerStep, CoverStep, PaymentsStep, SwapStep DEF RedeemInv, PaidInv
<1>3. Init => Ecash!Init
  BY RedeemInit
<1>4. RedeemInv /\ RedeemInv' /\ [Next]_vars => [Ecash!Next]_<<BurnedBy, Payout>>
  BY RedeemStep
<1> QED
  BY <1>1, <1>2, <1>3, <1>4, PTL DEF Spec, Ecash!Spec, ImplementsRedemption
=============================================================================
