------------------------------- MODULE MCServices -------------------------------
(***************************************************************************)
(* Bounded arguments for the pure functions, and the units of the keysets.  *)
(***************************************************************************)
EXTENDS Services

SeqsUpTo(S, n) == UNION {[1 .. k -> S] : k \in 0 .. n}

(* Coins on both sides of what they cost to spend at 5 sat/vbyte (340).     *)
BtcArguments ==
  [coins : SeqsUpTo({[value |-> v] : v \in {200, 900, 1700, 4000}}, 3) \ {<<>>},
   amount : {1, 500, 1000, 3000}, rate : {1, 5}]

(* Fee coins around MIN_SAT_UTXO and the dust limit; rune coins from the    *)
(* outside (546 sats) and from the mint itself.                             *)
PsbtArguments ==
  [satCoin : {[value |-> v, runes |-> 0, confirmed |-> c] :
                v \in {11999, 12000, 20999, 21000, 21545, 21546, 90000}, c \in BOOLEAN},
   runeCoins : SeqsUpTo({[value |-> v, runes |-> r] : v \in {546, 10000}, r \in {1, 5}}, 2) \ {<<>>},
   amount : {1}]

Tags == [code : {1, 2, 3}, data : {<<>>, <<3>>, <<0, 3>>, <<1, 2, 3, 1, 2, 3>>, [i \in 1 .. 15 |-> 2]}]

InvoiceArguments ==
  [satoshis : 1 .. 300, tags : {<<>>}] \cup [satoshis : {1}, tags : SeqsUpTo(Tags, 2)]

(* Ids in ascending order, as the differences need them.                    *)
Ids == {[block |-> 0, tx |-> 1], [block |-> 3, tx |-> 4], [block |-> 17, tx |-> 4]}
Edicts == {[block |-> id.block, tx |-> id.tx, amount |-> m, output |-> o] :
             id \in Ids, m \in {0, 3, 4, 15, 16, 70}, o \in {0, 1}}
RunestoneArguments ==
  [edicts : {s \in SeqsUpTo(Edicts, 2) :
               /\ Len(s) = 2 => s[1].block <= s[2].block
               /\ Len(Payload(s)) < LengthByte}]

ChangeArguments == [blanks : 1 .. 6, amount : (1 .. 40) \cup {2 ^ 24 - 1, 2 ^ 24}]
FeeArguments == [ppks : SeqsUpTo({0, 100, 500, 1000}, 3)]

MCKey == [keyset |-> [a \in {1, 2} |-> a + 1], other |-> [a \in {1, 2} |-> 6 - a]]
MCSecrets == {"s1", "s2"}
MCY == [s \in MCSecrets |-> IF s = "s1" THEN 1 ELSE 6]
SignArguments ==
  [id : DOMAIN MCKey, amount : {1, 2}, claimed : {1, 2}, secret : MCSecrets, r : 0 .. 6]

Locks == {[key |-> "none", flag |-> "SIG_INPUTS"]} \cup
         {[key |-> k, flag |-> f] : k \in {"A", "B"}, f \in {"SIG_INPUTS", "SIG_ALL"}}
Messages(s, outs) ==
  {[kind |-> "secret", about |-> <<s>>]} \cup
  {[kind |-> "current", about |-> <<names, outs>>] : names \in {<<"s1">>, <<"s1", "s2">>}}
ProofsOf(s, outs) ==
  {[secret |-> s, lock |-> l, witness |-> w] : l \in Locks,
     w \in {{}} \cup {{[key |-> k, message |-> m]} : k \in {"A", "B"}, m \in Messages(s, outs)}}
LockArguments ==
  UNION {[proofs : {<<p>> : p \in ProofsOf("s1", outs)} \cup
                   {<<p, q>> : p \in ProofsOf("s1", outs), q \in ProofsOf("s2", outs)},
          outputs : {outs}] : outs \in {<<>>, <<"b">>}}

PaymentArguments == [unit : {"bitcoin", "m", "u", "n", "p"}, number : (1 .. 40) \cup {80, 160, 161, 240}]

(* Digests beyond the last account.                                         *)
MCDigest == [q \in {"q1", "q2", "q3"} |-> CASE q = "q1" -> 2 [] q = "q2" -> 7 [] q = "q3" -> 13]
RuneDeposits ==
  {d \in [quote : DOMAIN MCDigest, own : BOOLEAN, legacy : BOOLEAN,
          claimedBy : DOMAIN MCDigest \cup {NoQuote}] : d.claimedBy \in {d.quote, NoQuote}}
RuneKeyArguments == [configured : BOOLEAN, deposits : SeqsUpTo(RuneDeposits, 2) \ {<<>>}]

BtcQuotes == [id : DOMAIN MCDigest,
              request : {DeriveDepositAddress(q) : q \in DOMAIN MCDigest} \cup {Segwit(0), WalletKey("operator", "84", 0)}]
BtcKeyArguments ==
  [configured : BOOLEAN,
   quotes : {s \in SUBSET BtcQuotes : Cardinality(s) <= 2 /\ \A q, r \in s : q.request = r.request => q = r}]

MCArguments ==
  [btc |-> BtcArguments, psbt |-> PsbtArguments, invoice |-> InvoiceArguments,
   runestone |-> RunestoneArguments, change |-> ChangeArguments, fees |-> FeeArguments,
   sign |-> SignArguments, locks |-> LockArguments,
   pay |-> PaymentArguments, runekeys |-> RuneKeyArguments, btckeys |-> BtcKeyArguments]

(* The decimal exponents of the units, with 2 for 10. *)
MCMillis == [u \in {"bitcoin", "m", "u", "n"} |->
  2 ^ (CASE u = "bitcoin" -> 11 [] u = "m" -> 8 [] u = "u" -> 5 [] u = "n" -> 2)]

MCUnitOf == [k \in {"k1", "k2"} |-> IF k = "k1" THEN "unit" ELSE "sat"]
MCMaxFunds == [b \in Backends |-> IF b = "lightning" THEN 2 ELSE 1]
=============================================================================
