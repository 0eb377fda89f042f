--------------------------------- MODULE Calls ---------------------------------
(***************************************************************************)
(* Calls of the mint's pure functions: the arguments, then the answer.      *)
(***************************************************************************)
EXTENDS Transactions, Invoice, Runestone, Amounts, Tokens, WalletKeys, FiniteSets

CONSTANTS
  Arguments,   \* [function name -> set of argument records]
  KnownTags,   \* TAG_NAMES
  NoAnswer

(* What the callers pass: a fee coin holds no runes, keysets have the       *)
(* amounts that are asked for, a lock has one of two flags, a deposit is    *)
(* claimed by the quote it was paid to, and the quotes come one for each    *)
(* address (DISTINCT ON).  A prefix that matched has one of five units; an  *)
(* invoice holds hashes, numbers and a short text, whose lengths fit in two *)
(* words; a runestone is a withdrawal's, with one edict, or holds its       *)
(* edicts in order and is no longer than its byte can say.                  *)
ASSUME ArgumentsAssumption ==
  /\ \A a \in Arguments["btc"] :
       /\ IsFiniteSet(DOMAIN a.coins) /\ DOMAIN a.coins \subseteq Nat
       /\ \A i \in DOMAIN a.coins : a.coins[i].value \in Nat
       /\ a.amount \in Nat /\ a.rate \in Nat
  /\ \A a \in Arguments["psbt"] :
       /\ IsFiniteSet(DOMAIN a.runeCoins) /\ 0 \notin DOMAIN a.runeCoins
       /\ \A i \in DOMAIN a.runeCoins : a.runeCoins[i].value \in Nat /\ a.runeCoins[i].runes \in Nat
       /\ a.satCoin.value \in Nat /\ a.satCoin.runes = 0 /\ a.amount \in Nat
  /\ \A a \in Arguments["sign"] :
       /\ a.id \in DOMAIN Key /\ a.amount \in DOMAIN Key[a.id] /\ a.claimed \in DOMAIN Key[a.id]
       /\ a.secret \in Secrets /\ a.r \in 0 .. Order - 1
  /\ \A a \in Arguments["locks"] :
       \A i \in DOMAIN a.proofs : a.proofs[i].lock.flag \in {"SIG_INPUTS", "SIG_ALL"}
  /\ \A a \in Arguments["runekeys"] :
       /\ a.configured \in BOOLEAN /\ 0 \notin DOMAIN a.deposits
       /\ \A i \in DOMAIN a.deposits :
            LET d == a.deposits[i]
            IN d.quote \in DOMAIN Digest /\ d.claimedBy \in {d.quote, NoQuote}
  /\ \A a \in Arguments["btckeys"] :
       /\ \A q \in a.quotes : q.id \in DOMAIN Digest
       /\ \A q, r \in a.quotes : q.request = r.request => q = r
  /\ \A a \in Arguments["change"] : a.blanks \in Nat /\ a.amount \in Nat
  /\ \A a \in Arguments["fees"] : a.ppks \in Seq(Nat)
  /\ \A a \in Arguments["pay"] : a.unit \in {"bitcoin", "m", "u", "n", "p"} /\ a.number \in Nat
  /\ \A a \in Arguments["invoice"] :
       /\ a.satoshis \in Nat
       /\ a.tags \in Seq([code : Nat, data : Seq(Nat)])
       /\ \A i \in DOMAIN a.tags : Len(a.tags[i].data) < WordBase * WordBase
  /\ \A a \in Arguments["runestone"] :
       /\ a.edicts \in Seq([block : Nat, tx : Nat, amount : Nat, output : Nat])
       /\ \A i \in 2 .. Len(a.edicts) :
            a.edicts[i - 1].block <= a.edicts[i].block /\ a.edicts[i - 1].tx <= a.edicts[i].tx
       /\ Len(Payload(a.edicts)) < LengthByte

VARIABLES call, answer

callVars == <<call, answer>>

CallsInit ==
  /\ call \in UNION {{[fn |-> fn, args |-> a] : a \in Arguments[fn]} : fn \in DOMAIN Arguments}
  /\ answer = NoAnswer

Return(fn, value) ==
  /\ call.fn = fn /\ answer = NoAnswer
  /\ answer' = value
  /\ UNCHANGED call

WithdrawBtc ==
  LET a == call.args IN Return("btc", BuildTransaction(a.coins, a.amount, a.rate))

WithdrawRunes ==
  LET a == call.args IN Return("psbt", BuildRunesPsbt(a.satCoin, a.runeCoins, a.amount))

(* createBolt11Invoice and decodeBolt11Invoice.                             *)
ReadInvoice ==
  LET a == call.args
  IN Return("invoice", [satoshis |-> ParsePrefix(SatoshisToHrp(a.satoshis)),
                        tags |-> DecodeTags(EncodeTags(a.tags), KnownTags)])

(* A melt quote, of an invoice from elsewhere.                              *)
ReadPayment ==
  LET a == call.args IN Return("pay", DecodeBolt11AmountSats(a))

ReadRunestone ==
  LET a == call.args IN Return("runestone", DecodeRunestone(EncodeRunestone(a.edicts)))

SplitChange ==
  LET a == call.args IN Return("change", ChangeOutputs(a.blanks, a.amount))

ChargeInputs ==
  LET a == call.args IN Return("fees", CalculateInputFees(a.ppks))

(* A wallet blinds a secret, the mint signs, the wallet unblinds and later  *)
(* hands the proof in, perhaps as one of another amount.                    *)
SignAndVerify ==
  LET a == call.args
      message == [id |-> a.id, amount |-> a.amount, B |-> Blind(a.secret, a.r)]
      public == PrivateKey(a.id, a.amount)
  IN Return("sign", VerifyProof([id |-> a.id, amount |-> a.claimed, secret |-> a.secret,
                                 C |-> Unblind(SignBlindedMessage(message).C, a.r, public)]))

CheckLocks ==
  LET a == call.args IN Return("locks", VerifyP2PKProofs(a.proofs, a.outputs))

(* The coins of deposits, tracked by the mint or by its older versions.     *)
RowOf(deposit, mint) ==
  LET address == IF deposit.own THEN DeriveQuoteTaprootAddress(deposit.quote) ELSE mint.taproot
  IN IF deposit.legacy THEN LegacyRow(deposit.claimedBy, address)
     ELSE TrackDepositUtxo(deposit.quote, address)

SignRunes ==
  LET a == call.args
      mint == MintAddresses(a.configured)
      rows == [i \in DOMAIN a.deposits |-> RowOf(a.deposits[i], mint)]
  IN Return("runekeys", SignRunesPsbt(mint, NormalizeTrackedRuneUtxos(rows, mint)))

SignBtc ==
  LET a == call.args
  IN Return("btckeys", SignTransaction(BtcCoins(MintAddresses(a.configured), a.quotes)))

CallsNext ==
  \/ WithdrawBtc \/ WithdrawRunes \/ ReadInvoice \/ ReadPayment \/ ReadRunestone
  \/ SplitChange \/ ChargeInputs \/ SignAndVerify \/ CheckLocks \/ SignRunes \/ SignBtc

CallsSpec == CallsInit /\ [][CallsNext]_callVars

-----------------------------------------------------------------------------

Answered(fn) == call.fn = fn /\ answer # NoAnswer

(* A BTC withdrawal is refused for want of funds only if no choice of coins *)
(* pays for the amount and for its own inputs, also where a coin costs more *)
(* to spend than it is worth.                                               *)
BtcFindsFunds ==
  Answered("btc") =>
    LET a == call.args
    IN answer.error =
         ~\E S \in SUBSET (DOMAIN a.coins) : S # {} /\ Affords(a.coins, S, a.amount, a.rate)

BtcBalances ==
  Answered("btc") /\ ~answer.error =>
    LET a == call.args
        size == EstimateTxSize(Cardinality(answer.inputs), IF answer.change = 0 THEN 1 ELSE 2)
    IN /\ answer.inputs # {} /\ answer.inputs \subseteq DOMAIN a.coins
       /\ TotalOf(a.coins, answer.inputs) = a.amount + answer.change + answer.fee
       /\ answer.change = 0 \/ answer.change > DUST_LIMIT
       /\ answer.fee >= size * a.rate

(* The recipient gets the amount, the mint the other runes.  With any fee   *)
(* coin the selector takes, a transaction that spends coins the mint sent   *)
(* itself before pays its fee and no more.                                  *)
PsbtBalances ==
  Answered("psbt") =>
    LET a == call.args
        last == Len(answer.outputs)
    IN /\ \A i \in 1 .. last :
            /\ (answer.outputs[i].to = "runestone") = (i = last)
            /\ i < last => answer.outputs[i].value >= DUST_LIMIT
            /\ RunesAt(answer, i) =
                 CASE answer.outputs[i].to = "recipient" -> a.amount
                   [] answer.outputs[i].to = "mint"      -> Runes(a.runeCoins) - a.amount
                   [] OTHER                              -> 0
       /\ FeeCoin(a.satCoin)
            /\ (\E i \in DOMAIN a.runeCoins : a.runeCoins[i].value >= RUNE_RETURN_SATS)
            => Total(answer.inputs) - Total(answer.outputs) = FEE

(* Withdrawals, in BTC and in runes: those the mint can pay for are built,  *)
(* what goes in comes out, and no output is too small to be relayed.        *)
TransactionsBalance == BtcFindsFunds /\ BtcBalances /\ PsbtBalances

Known(tags) ==
  FlattenSeq([i \in 1 .. Len(tags) |-> IF tags[i].code \in KnownTags THEN <<tags[i]>> ELSE <<>>])

(* An invoice the mint made is read as it was meant, fields of unknown      *)
(* codes aside, and so is a runestone, whatever the lengths of its numbers. *)
(* The amount read from another invoice is the one it names, or none.       *)
CodecsRoundTrip ==
  /\ Answered("pay") /\ answer # NotWhole =>
       IF call.args.unit = "p" THEN answer * Satoshi * 10 = call.args.number
       ELSE answer * Satoshi = call.args.number * Millis[call.args.unit]
  /\ Answered("invoice") =>
       /\ LET hrp == SatoshisToHrp(call.args.satoshis)
          IN hrp.unit # "bitcoin" => DecodeBolt11AmountSats(hrp) = call.args.satoshis
       /\ answer.satoshis = call.args.satoshis
       /\ answer.tags = Known(call.args.tags)
  /\ Answered("runestone") => answer = call.args.edicts

(* Change is made of denominations a keyset has, never exceeds what is due, *)
(* loses less than any smaller choice of outputs would, and nothing at all  *)
(* with the blank outputs a wallet sends for the reserve.  The input fee is *)
(* rounded up once.                                                         *)
ChangeAddsUp ==
  /\ Answered("change") =>
       LET a == call.args
           lost == a.amount - SumOf(answer)
       IN /\ Len(answer) <= a.blanks
          /\ a.amount < PowerOfTwo[24] => ToSet(answer) \subseteq Denominations
          /\ lost >= 0
          /\ \A d \in ToSet(answer) : lost < d
          /\ a.blanks >= Blanks(a.amount) => lost = 0
  /\ Answered("fees") =>
       answer * 1000 - SumOf(call.args.ppks) \in 0 .. 999

(* A proof verifies for the amount the mint signed and for no other.        *)
TokensVerify ==
  Answered("sign") => (answer <=> call.args.claimed = call.args.amount)

(* Inputs are accepted only if the key of every lock signed: the proof's    *)
(* own secret, or all inputs and outputs of the request together.           *)
LocksAreSigned ==
  Answered("locks") /\ answer =>
    LET a == call.args
        names == [i \in DOMAIN a.proofs |-> a.proofs[i].secret]
        signed(p, m) == \E w \in ToSet(a.proofs) : [key |-> p.lock.key, message |-> m] \in w.witness
    IN \A p \in ToSet(a.proofs) : IsP2PKProof(p) =>
         IF p.lock.flag = "SIG_ALL"
         THEN a.outputs # <<>> /\ \E m \in SigAllMessages(names, a.outputs) : signed(p, m)
         ELSE signed(p, OwnMessage(p))

(* What a proof claims was signed by the mint, and its lock was opened.     *)
InputsAreGenuine == TokensVerify /\ LocksAreSigned

(* Every input of a withdrawal is signed with the key of the address its    *)
(* coin is on, whether the coin came to the mint's address or to a quote's, *)
(* and whether its row names the account or only, through the claim, the    *)
(* quote; a fee coin on another wallet's address makes a withdrawal of      *)
(* runes fail.  In BTC, all and only the coins are signed that are on the   *)
(* address of their quote or on the mint's, if that is the seed's.          *)
KeysMatchCoins ==
  /\ Answered("runekeys") =>
       LET found == {i \in DOMAIN call.args.deposits :
                       LET d == call.args.deposits[i] IN ~(d.own /\ d.legacy /\ d.claimedBy = NoQuote)}
       IN /\ answer.signed = ~call.args.configured
          /\ answer.signed => DOMAIN answer.keys = {0} \cup found
  /\ Answered("btckeys") =>
       /\ answer.signed
       /\ \A q \in call.args.quotes :
            (\E c \in DOMAIN answer.keys : answer.keys[c] = q.request)
              <=> \/ q.request = DeriveDepositAddress(q.id)
                  \/ ~call.args.configured /\ q.request = Segwit(0)
=============================================================================
