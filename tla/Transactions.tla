----------------------------- MODULE Transactions -----------------------------
(***************************************************************************)
(* The transactions that pay withdrawals, in satoshis: buildTransaction for *)
(* BTC, and the PSBT that moves runes.  Coins are a function from their     *)
(* places in the list the caller has to records with a value; the amounts   *)
(* of the code are kept.                                                    *)
(***************************************************************************)
EXTENDS Integers, Sequences, FiniteSets, FiniteSetsExt

(* RUNES_TX_CONSTANTS. *)
FEE == 1000
RECIPIENT_SATS == 10000
RUNE_RETURN_SATS == 10000
DUST_LIMIT == 546

MIN_SAT_UTXO == 12000

TotalOf(coins, S) ==
  LET value == [i \in DOMAIN coins |-> coins[i].value] IN MapThenSumSet(LAMBDA i : value[i], S)

Total(coins) == TotalOf(coins, DOMAIN coins)

Runes(coins) ==
  LET runes == [i \in DOMAIN coins |-> coins[i].runes]
  IN MapThenSumSet(LAMBDA i : runes[i], DOMAIN coins)

-----------------------------------------------------------------------------
(* BTC.                                                                     *)

EstimateTxSize(inputs, outputs) == 68 * inputs + 31 * outputs + 10

(* The sort, the largest coin first, keeps the order of equal ones.         *)
Before(coins, i, j) ==
  \/ coins[i].value > coins[j].value
  \/ coins[i].value = coins[j].value /\ i < j

(* What the loop has taken after each round.                                *)
Taken(coins) ==
  {S \in SUBSET (DOMAIN coins) :
     S # {} /\ \A i \in S, j \in DOMAIN coins \ S : Before(coins, i, j)}

Affords(coins, S, amount, rate) ==
  TotalOf(coins, S) >= amount + EstimateTxSize(Cardinality(S), 2) * rate

Error == [error |-> TRUE]

(* Mutant: what is too small for an output is forgotten. *)
BtcOutcomeDustLost(coins, S, amount, rate) ==
  LET fee == EstimateTxSize(Cardinality(S), 2) * rate
      change == TotalOf(coins, S) - amount - fee
  IN [error |-> FALSE, inputs |-> S, change |-> IF change > DUST_LIMIT THEN change ELSE 0,
      fee |-> fee]

(* Change that is too small for an output is left to the miners.            *)
BtcOutcome(coins, S, amount, rate) ==
  LET fee == EstimateTxSize(Cardinality(S), 2) * rate
      change == TotalOf(coins, S) - amount - fee
  IN IF change > DUST_LIMIT
     THEN [error |-> FALSE, inputs |-> S, change |-> change, fee |-> fee]
     ELSE [error |-> FALSE, inputs |-> S, change |-> 0, fee |-> fee + change]

(* Coins are added until they pay for the amount and for themselves.        *)
BuildTransaction(coins, amount, rate) ==
  LET enough == {S \in Taken(coins) : Affords(coins, S, amount, rate)}
  IN IF enough = {} THEN Error
     ELSE BtcOutcome(coins, CHOOSE S \in enough : \A T \in enough : S \subseteq T, amount, rate)

-----------------------------------------------------------------------------
(* Runes.                                                                   *)

(* The mint's return output, the recipient's, the change unless it is too   *)
(* small, and the runestone, in this order.                                 *)
PsbtOutputs(change) ==
  LET return == [to |-> "mint", value |-> RUNE_RETURN_SATS]
      payment == [to |-> "recipient", value |-> RECIPIENT_SATS]
      runestone == [to |-> "runestone", value |-> 0]
  IN IF change >= DUST_LIMIT
     THEN <<return, payment, [to |-> "fees", value |-> change], runestone>>
     ELSE <<return, payment, runestone>>

PsbtEdict(amount) == [amount |-> amount, output |-> 1]

(* Input 0 is the fee coin, the others are the rune coins.                  *)
PsbtInputs(satCoin, runeCoins) ==
  [i \in {0} \cup DOMAIN runeCoins |-> IF i = 0 THEN satCoin ELSE runeCoins[i]]

(* Outputs with a negative value are refused by bitcoinjs; no such output   *)
(* is made, the transaction then spends more than it has.                   *)
BuildRunesPsbt(satCoin, runeCoins, amount) ==
  LET change == satCoin.value + Total(runeCoins) - (FEE + RECIPIENT_SATS + RUNE_RETURN_SATS)
  IN [inputs |-> PsbtInputs(satCoin, runeCoins), outputs |-> PsbtOutputs(change),
      edict |-> PsbtEdict(amount), fee |-> FEE]

(* The fee coins findSatUtxo accepts. *)
FeeCoin(coin) == coin.confirmed /\ coin.value >= MIN_SAT_UTXO

(* Where the runes end up: the edict names an output, the rest goes to the  *)
(* first output that is no runestone.                                       *)
RunesAt(psbt, i) ==
  LET left == Runes(psbt.inputs) - psbt.edict.amount
  IN (IF psbt.edict.output + 1 = i THEN psbt.edict.amount ELSE 0) + (IF i = 1 THEN left ELSE 0)
=============================================================================
