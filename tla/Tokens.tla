-------------------------------- MODULE Tokens --------------------------------
(***************************************************************************)
(* Blind signatures and spending conditions.  Points are multiples of the   *)
(* generator modulo a small prime, so that the algebra of NUT-00 is kept    *)
(* and nothing else of the curve.  A signature over a message is the pair   *)
(* of the key and the message.                                              *)
(***************************************************************************)
EXTENDS Integers, Sequences

CONSTANTS
  Order,      \* order of the group, a prime
  Key,        \* [keyset -> [amount -> private key]]
  Secrets,    \* secrets of proofs
  Y           \* hash_to_curve: [Secrets -> points]

(* The order is a prime: a product of factors below it is no multiple of    *)
(* it.  A keyset has a key of its own for each amount.                      *)
ASSUME TokensAssumption ==
  /\ Order \in Nat /\ Order > 2
  /\ \A a, b \in 1 .. Order - 1 : (a * b) % Order # 0
  /\ Y \in [Secrets -> 1 .. Order - 1]
  /\ \A id \in DOMAIN Key : \A a, b \in DOMAIN Key[id] :
       Key[id][a] \in 1 .. Order - 1 /\ (Key[id][a] = Key[id][b] => a = b)

Times(k, point) == (k * point) % Order

-----------------------------------------------------------------------------
(* MintCrypto.  What the wallet does is external.                           *)

Blind(secret, r) == (Y[secret] + r) % Order
Unblind(signature, r, public) == (signature + Order * Order - r * public) % Order

(* Mutant: one key for all amounts of a keyset. *)
PrivateKeyOfKeyset(id, amount) == Key[id][CHOOSE a \in DOMAIN Key[id] : TRUE]

PrivateKey(id, amount) == Key[id][amount]

SignBlindedMessage(message) ==
  [id |-> message.id, amount |-> message.amount,
   C |-> Times(PrivateKey(message.id, message.amount), message.B)]

VerifyProof(proof) == proof.C = Times(PrivateKey(proof.id, proof.amount), Y[proof.secret])

-----------------------------------------------------------------------------
(* P2PKService.  A locked secret names a key and a flag; isP2PKSpend-       *)
(* Authorised of cashu-ts is external.                                      *)

Signed(proof, message) == [key |-> proof.lock.key, message |-> message] \in proof.witness

(* Its own secret, unless another message is given.                         *)
OwnMessage(proof) == [kind |-> "secret", about |-> <<proof.secret>>]

(* sigAllMessages: the form of older wallets and the present one.           *)
SigAllMessages(proofs, outputs) ==
  {[kind |-> form, about |-> <<proofs, outputs>>] : form \in {"legacy", "current"}}

IsP2PKProof(proof) == proof.lock.key # "none"

(* Where among the proofs those with a flag are.                            *)
Flagged(proofs, flag) == {i \in DOMAIN proofs : IsP2PKProof(proofs[i]) /\ proofs[i].lock.flag = flag}

(* Mutant: the other SIG_ALL proofs are not compared. *)
ConsistentAlways(proofs, all) == TRUE

(* hasConsistentSigAllSecrets: the same lock, whatever the nonce.           *)
HasConsistentSigAllSecrets(proofs, all) == \A i, j \in all : proofs[i].lock = proofs[j].lock

VerifyP2PKProofs(proofs, outputs) ==
  LET all == Flagged(proofs, "SIG_ALL")
      names == [i \in DOMAIN proofs |-> proofs[i].secret]
  IN /\ \A i \in Flagged(proofs, "SIG_INPUTS") : Signed(proofs[i], OwnMessage(proofs[i]))
     /\ all # {} =>
          /\ outputs # <<>>
          /\ HasConsistentSigAllSecrets(proofs, all)
          /\ \E first \in all :
               /\ \A i \in all : first <= i
               /\ \E m \in SigAllMessages(names, outputs) : Signed(proofs[first], m)
=============================================================================
