------------------------------ MODULE RuneReserve ------------------------------
(***************************************************************************)
(* The reserve of runes: what the mint holds on the chain, what the table   *)
(* mint_utxos believes of it, and the calls of sendRunes that spend from    *)
(* it.  Nothing locks an output between its selection and the broadcast,    *)
(* the rows are updated one by one after the broadcast, and the sync writes *)
(* what the index reported some time ago.                                   *)
(*                                                                          *)
(* A rune output is named by its transaction: a deposit, or output 0 (the   *)
(* return output) of a withdrawal.  A fee output is one of FeeCoins or the  *)
(* change of a withdrawal, named by it as well.                             *)
(***************************************************************************)
EXTENDS Naturals, FiniteSets, FiniteSetsExt

CONSTANTS
  Deposits,     \* transactions that pay runes to the mint
  Value,        \* runes a deposit pays
  Quoted,       \* deposits to the own address of a quote, not to the mint's
  Legacy,       \* quoted deposits tracked before account_index was recorded
  FeeCoins,     \* confirmed outputs on the segwit address
  Withdrawals,  \* calls of sendRunes; each has one transaction
  Amount,       \* runes to send
  None

ASSUME ReserveAssumption ==
  /\ Value \in [Deposits -> Nat \ {0}]
  /\ Amount \in [Withdrawals -> Nat \ {0}]
  /\ Legacy \subseteq Quoted /\ Quoted \subseteq Deposits
  /\ Deposits \cap Withdrawals = {}
  /\ FeeCoins \cap Withdrawals = {}
  /\ None \notin Withdrawals \cup Deposits
  /\ IsFiniteSet(Legacy)  \* they are rows of a table

Outputs == Deposits \cup Withdrawals
FeeOutputs == FeeCoins \cup Withdrawals

VARIABLES
  known,      \* transactions the node knows, in the mempool or a block
  mined,      \* those in a block, which is all that ord indexes
  held,       \* runes on an output
  spender,    \* withdrawal that spends a rune output
  feeSpender, \* withdrawal that spends a fee output
  paid,       \* history: runes the destination of a withdrawal received
  row,        \* rows of mint_utxos
  claimed,    \* legacy deposits with a row in mint_deposits
  seen,       \* outputs an answer of ord listed, not inserted yet
  pc, job     \* the calls of sendRunes

chainVars == <<known, mined, held, spender, feeSpender, paid>>
callVars == <<pc, job>>
vars == <<chainVars, row, claimed, seen, callVars>>

Jobs == [coins : SUBSET Outputs, fee : FeeOutputs \cup {None}, unmarked : SUBSET Outputs]
NoJob == [coins |-> {}, fee |-> None, unmarked |-> {}]

TypeOK ==
  /\ known \subseteq Outputs
  /\ mined \subseteq known
  /\ DOMAIN held = Outputs
  /\ spender \in [Outputs -> Withdrawals \cup {None}]
  /\ feeSpender \in [FeeOutputs -> Withdrawals \cup {None}]
  /\ paid \in [Withdrawals -> Nat]
  /\ row \in [Outputs -> {"none", "unspent", "spent"}]
  /\ claimed \subseteq Legacy
  /\ seen \subseteq Outputs
  /\ pc \in [Withdrawals -> {"select", "broadcast", "mark", "track", "done", "failed"}]
  /\ job \in [Withdrawals -> Jobs]

Init ==
  /\ known = Legacy /\ mined = Legacy
  /\ held = [o \in Outputs |-> IF o \in Legacy THEN Value[o] ELSE 0]
  /\ spender = [o \in Outputs |-> None]
  /\ feeSpender = [f \in FeeOutputs |-> None]
  /\ paid = [w \in Withdrawals |-> 0]
  /\ row = [o \in Outputs |-> IF o \in Legacy THEN "unspent" ELSE "none"]
  /\ claimed = {}
  /\ seen = {}
  /\ pc = [w \in Withdrawals |-> "select"]
  /\ job = [w \in Withdrawals |-> NoJob]

-----------------------------------------------------------------------------
(* The chain, and what its services report.                                 *)

Worth(S) == MapThenSumSet(LAMBDA o : held[o], S)

Coins == {o \in known : held[o] > 0 /\ spender[o] = None}

(* Mutant: what the mint itself sent back is not listed. *)
ListedOthers == {o \in mined \ Withdrawals : held[o] > 0 /\ spender[o] \notin mined}

(* ord looks at blocks only: a coin spent in the mempool is still listed,   *)
(* an unconfirmed one is not.                                               *)
Listed == {o \in mined : held[o] > 0 /\ spender[o] \notin mined}

Arrive(d) ==
  /\ d \in Deposits \ known
  /\ known' = known \cup {d}
  /\ held' = [held EXCEPT ![d] = Value[d]]
  /\ UNCHANGED <<mined, spender, feeSpender, paid, row, claimed, seen, callVars>>

Mine(t) ==
  /\ t \in known \ mined
  /\ mined' = mined \cup {t}
  /\ UNCHANGED <<known, held, spender, feeSpender, paid, row, claimed, seen, callVars>>

(* A legacy deposit is claimed by its quote.                                *)
Claim(d) ==
  /\ d \in Legacy \ claimed
  /\ claimed' = claimed \cup {d}
  /\ UNCHANGED <<chainVars, row, seen, callVars>>

-----------------------------------------------------------------------------
(* mint_utxos and the sync.                                                 *)

(* Mutant: a row that exists is written again. *)
AddUtxoAgain(o) == row' = [row EXCEPT ![o] = "unspent"]

(* INSERT ... ON CONFLICT DO NOTHING.                                       *)
AddUtxo(o) == row' = [row EXCEPT ![o] = IF @ = "none" THEN "unspent" ELSE @]

(* syncUtxos, and checkDeposit of a quote, read what an address holds and   *)
(* insert it later.                                                         *)
See(o) ==
  /\ o \in Listed \ seen
  /\ seen' = seen \cup {o}
  /\ UNCHANGED <<chainVars, row, claimed, callVars>>

SyncInsert(o) ==
  /\ o \in seen
  /\ AddUtxo(o)
  /\ seen' = seen \ {o}
  /\ UNCHANGED <<chainVars, claimed, callVars>>

(* The insert of one output fails, which is only logged.                    *)
SyncSkip(o) ==
  /\ o \in seen
  /\ seen' = seen \ {o}
  /\ UNCHANGED <<chainVars, row, claimed, callVars>>

(* UPDATE: nothing happens where there is no row.                           *)
MarkSpent(o) == row' = [row EXCEPT ![o] = IF @ = "none" THEN "none" ELSE "spent"]

-----------------------------------------------------------------------------
(* sendRunes.                                                               *)

(* Mutant: a row of a quote's address without an account is skipped. *)
TrackedRecorded == {o \in Outputs : row[o] = "unspent" /\ o \notin Legacy}

(* The account of a legacy row is derived from the quote that claimed it;   *)
(* a row no quote has claimed is skipped.                                   *)
Tracked == {o \in Outputs : row[o] = "unspent" /\ (o \in Legacy => o \in claimed)}

(* Mutant: the chain is not asked whether a coin is spent. *)
SpendableByRow(S) == {o \in S \cap mined : held[o] > 0}

(* esplora says the coin is unspent and ord knows its runes.                *)
Spendable(S) == {o \in S \cap mined : held[o] > 0 /\ spender[o] = None}

(* Coins are collected one by one, in whatever order they are listed, until *)
(* they cover the amount.                                                   *)
Covering(S, amount) ==
  {T \in SUBSET S : Worth(T) >= amount /\ \E o \in T : Worth(T \ {o}) < amount}

(* The rows first; if they do not cover the amount, the mint's own address. *)
(* The two are never combined.                                              *)
Selections(amount) ==
  LET tracked == Covering(Spendable(Tracked), amount)
  IN IF tracked # {} THEN tracked
     ELSE Covering(Spendable({o \in Listed \ Quoted : row[o] # "spent"}), amount)

SatUtxos ==
  {f \in FeeOutputs : (f \in Withdrawals => f \in mined) /\ feeSpender[f] = None}

Select(w) ==
  /\ pc[w] = "select"
  /\ \E S \in Selections(Amount[w]), f \in SatUtxos :
       job' = [job EXCEPT ![w] = [coins |-> S, fee |-> f, unmarked |-> S]]
  /\ pc' = [pc EXCEPT ![w] = "broadcast"]
  /\ UNCHANGED <<chainVars, row, claimed, seen>>

(* What a node accepts.                                                     *)
Acceptable(coins, fee) == coins \subseteq Coins /\ fee \in SatUtxos

(* Mutant: the edict sends all there is. *)
EdictAll(w) == Worth(job[w].coins)

(* The edict sends the amount to the destination; what is left of the runes *)
(* goes to output 0.                                                        *)
Edict(w) == Amount[w]

Send(w) ==
  /\ pc[w] = "broadcast"
  /\ Acceptable(job[w].coins, job[w].fee)
  /\ known' = known \cup {w}
  /\ spender' = [o \in Outputs |-> IF o \in job[w].coins THEN w ELSE spender[o]]
  /\ feeSpender' = [feeSpender EXCEPT ![job[w].fee] = w]
  /\ paid' = [paid EXCEPT ![w] = Edict(w)]
  /\ held' = [held EXCEPT ![w] = Worth(job[w].coins) - Edict(w)]
  /\ UNCHANGED <<mined, row, claimed, seen, job>>

Broadcast(w) == Send(w) /\ pc' = [pc EXCEPT ![w] = "mark"]

(* The transaction is out, but the answer is lost or names another txid.    *)
BroadcastUnanswered(w) == Send(w) /\ pc' = [pc EXCEPT ![w] = "failed"]

(* Mutant: the inputs are marked before the transaction is out. *)
MarkInputEarly(w) ==
  /\ pc[w] \in {"broadcast", "mark"}
  /\ \E o \in job[w].unmarked :
       /\ MarkSpent(o)
       /\ job' = [job EXCEPT ![w].unmarked = @ \ {o}]
       /\ pc' = [pc EXCEPT ![w] = IF @ = "mark" /\ job[w].unmarked = {o} THEN "track" ELSE @]
  /\ UNCHANGED <<chainVars, claimed, seen>>

(* One UPDATE for each rune input.  The one for the fee output finds no     *)
(* row: fee outputs are not in mint_utxos.                                  *)
MarkInput(w) ==
  /\ pc[w] = "mark"
  /\ \E o \in job[w].unmarked :
       /\ MarkSpent(o)
       /\ job' = [job EXCEPT ![w].unmarked = @ \ {o}]
       /\ pc' = [pc EXCEPT ![w] = IF job[w].unmarked = {o} THEN "track" ELSE "mark"]
  /\ UNCHANGED <<chainVars, claimed, seen>>

TrackReturn(w) ==
  /\ pc[w] = "track"
  /\ IF Worth(job[w].coins) > Amount[w] THEN AddUtxo(w) ELSE UNCHANGED row
  /\ pc' = [pc EXCEPT ![w] = "done"]
  /\ UNCHANGED <<chainVars, claimed, seen, job>>

(* Not enough coins, a service or the database fails, the node refuses the  *)
(* transaction, or the process dies; what was done stays done.              *)
Fail(w) ==
  /\ pc[w] \in {"select", "broadcast", "mark", "track"}
  /\ pc' = [pc EXCEPT ![w] = "failed"]
  /\ UNCHANGED <<chainVars, row, claimed, seen, job>>

(* A melt whose payment did not leave is tried again.                       *)
Retry(w) ==
  /\ pc[w] = "failed" /\ w \notin known
  /\ pc' = [pc EXCEPT ![w] = "select"]
  /\ job' = [job EXCEPT ![w] = NoJob]
  /\ UNCHANGED <<chainVars, row, claimed, seen>>

-----------------------------------------------------------------------------

SendRunes(w) ==
  \/ Select(w) \/ Broadcast(w) \/ BroadcastUnanswered(w)
  \/ MarkInput(w) \/ TrackReturn(w) \/ Fail(w) \/ Retry(w)

Next ==
  \/ \E d \in Deposits : Arrive(d) \/ Claim(d)
  \/ \E o \in Outputs : Mine(o) \/ See(o) \/ SyncInsert(o) \/ SyncSkip(o)
  \/ \E w \in Withdrawals : SendRunes(w)

Spec == Init /\ [][Next]_vars

(* Blocks are mined, the sync runs every minute, and the insert of an       *)
(* output does not fail every time.  Every call ends; a wallet whose        *)
(* payment did not leave tries again, and neither the selection nor the     *)
(* broadcast fails every time they could succeed.                           *)
FairSpec ==
  /\ Spec
  /\ \A o \in Outputs : WF_vars(Mine(o)) /\ WF_vars(See(o)) /\ SF_vars(SyncInsert(o))
  /\ \A w \in Withdrawals :
       /\ WF_vars(SendRunes(w)) /\ SF_vars(Select(w))
       /\ SF_vars(Broadcast(w) \/ BroadcastUnanswered(w))

-----------------------------------------------------------------------------

(* mint_utxos never gives up a coin the mint still has: a row is marked     *)
(* spent only when the output is spent on the chain, whatever was refused,  *)
(* lost or cut off on the way.                                              *)
SpentRowIsSpent == \A o \in Outputs : row[o] = "spent" => spender[o] # None

(* An answer of ord that is older than the withdrawal does not bring a      *)
(* spent row back.                                                          *)
SpentStaysSpent ==
  [][\A o \in Outputs : row[o] = "spent" => row'[o] = "spent"]_vars

(* Every confirmed coin has its row, every legacy row its claim, and they    *)
(* are worth what w sends.                                                  *)
Affordable(w) ==
  LET coins == Coins \cap mined
  IN /\ \A o \in coins : row[o] # "none" /\ (o \in Legacy => o \in claimed)
     /\ Worth(coins) >= Amount[w]

(* Once every confirmed coin has its row and every legacy row its claim, a  *)
(* withdrawal the mint can pay for from confirmed coins is not refused for  *)
(* want of funds.                                                           *)
AffordableIsSelected ==
  \A w \in Withdrawals : Affordable(w) => Selections(Amount[w]) # {}

(* A withdrawal sends its amount, once, and the rest of the runes it took   *)
(* comes back to the mint.                                                  *)
Holdings == INSTANCE Treasury WITH reserve <- Worth(Coins)
ImplementsTreasury == Holdings!Spec

(* Liveness: a coin on the mint's own address gets its row in the end, also *)
(* the return output of a withdrawal that was cut off after its broadcast.  *)
LostReturnIsFound ==
  \A o \in Outputs \ Quoted : o \in Coins ~> row[o] # "none" \/ o \notin Coins

(* Liveness: nothing is reserved between a selection and its broadcast, and *)
(* the table goes on offering coins that are gone (a call cut off before it *)
(* marked its rows, a sync that wrote an old answer); a withdrawal that is  *)
(* retried goes out nevertheless as long as the mint can afford it, however *)
(* often it lost its coins to another one.                                  *)
WithdrawalGoesOut ==
  \A w \in Withdrawals : []<>(w \in known \/ ~Affordable(w) \/ SatUtxos = {})
=============================================================================
