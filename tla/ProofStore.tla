----------------------------- MODULE ProofStore -----------------------------
(***************************************************************************)
(* The table proofs: which ecash proof was handed in, and by which          *)
(* transaction.  A row exists while the proof is spent; deleting the row is *)
(* how a melt gives the proof back.  The table is what melts and swaps      *)
(* share.                                                                   *)
(***************************************************************************)
EXTENDS Naturals

CONSTANTS
  Proofs,     \* ecash proofs (their Y values)
  Txs,        \* values of proofs.transaction_id
  Worth,      \* sum of the amounts of a set of proofs
  InputFees,  \* input fee of a set of proofs
  None

ASSUME ProofStoreAssumption ==
  /\ Worth \in [SUBSET Proofs -> Nat]
  /\ Worth[{}] = 0
  /\ \A S, T \in SUBSET Proofs :
       S \cap T = {} => Worth[S \cup T] = Worth[S] + Worth[T]
  /\ InputFees \in [SUBSET Proofs -> Nat]
  /\ None \notin Txs

VARIABLE spentBy   \* transaction_id of a proof's row, None while there is no row

ProofStoreTypeOK == spentBy \in [Proofs -> Txs \cup {None}]

ProofStoreInit == spentBy = [p \in Proofs |-> None]

Held(t) == {p \in Proofs : spentBy[p] = t}

(* Mutant: what another request has spent is not looked up. *)
UnspentAlways(ps) == TRUE

(* checkSpent inside the transaction, and the primary key on Y. *)
Unspent(ps) == \A p \in ps : spentBy[p] = None

(* markSpent: all rows or none. *)
MarkSpent(ps, t) ==
  /\ Unspent(ps)
  /\ spentBy' = [p \in Proofs |-> IF p \in ps THEN t ELSE spentBy[p]]

DeleteByTransactionId(t) ==
  spentBy' = [p \in Proofs |-> IF spentBy[p] = t THEN None ELSE spentBy[p]]
=============================================================================
