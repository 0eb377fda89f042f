----------------------------- MODULE Calls_proofs -----------------------------
(***************************************************************************)
(* The answers of every call: tokens, locks, keys and transactions, for any *)
(* group, keysets, proofs, deposits and coins; change, fees, invoices and   *)
(* runestones, for any amounts and numbers.                                 *)
(***************************************************************************)
EXTENDS Calls, Codecs_proofs, TLAPS

-----------------------------------------------------------------------------
(* Blind signatures.                                                        *)

(* A product in the group is a remainder. *)
LEMMA TimesIs ==
  ASSUME NEW k \in Int, NEW y \in Int
  PROVE  Times(k, y) \in 0 .. Order - 1 /\ \E d \in Int : k * y = Order * d + Times(k, y)
<1>1. Order \in Nat /\ Order > 0 /\ k * y \in Int
  BY TokensAssumption
<1>2. /\ (k * y) % Order \in 0 .. Order - 1
      /\ (k * y) \div Order \in Int
      /\ k * y = Order * ((k * y) \div Order) + ((k * y) % Order)
  BY <1>1, ModRange
<1> QED
  BY <1>2 DEF Times

(* Two factors that yield the same are the same: the order is a prime. *)
LEMMA TimesInjective ==
  ASSUME NEW k \in 1 .. Order - 1, NEW m \in 1 .. Order - 1, NEW y \in 1 .. Order - 1,
         Times(k, y) = Times(m, y)
  PROVE  k = m
<1>1. Order \in Nat /\ Order > 2
  BY TokensAssumption
<1>2. ASSUME NEW a \in 1 .. Order - 1, NEW b \in 1 .. Order - 1, Times(a, y) = Times(b, y),
             a > b
      PROVE  FALSE
  <2>0. a \in Int /\ b \in Int /\ y \in Int
    BY <1>1
  <2>1. a * y \in Int /\ b * y \in Int
    BY <1>1
  <2>2. PICK d \in Int : a * y = Order * d + Times(a, y)
    BY <2>0, TimesIs
  <2>3. PICK e \in Int : b * y = Order * e + Times(b, y)
    BY <2>0, TimesIs
  <2>4. Times(a, y) \in Int /\ Times(b, y) \in Int
    BY <2>0, TimesIs
  <2>5. (a - b) * y = Order * (d - e) + 0
    <3>1. (a - b) * y = a * y - b * y
      BY <1>1
    <3>2. Order * (d - e) = Order * d - Order * e
      BY <1>1
    <3> QED
      BY <1>1, <1>2, <2>1, <2>2, <2>3, <2>4, <3>1, <3>2
  <2>6. (Order * (d - e) + 0) % Order = 0
    <3>1. 0 \in 0 .. Order - 1 /\ d - e \in Int /\ Order > 0
      BY <1>1
    <3> QED
      BY <1>1, <3>1, ModUnique
  <2>7. a - b \in 1 .. Order - 1
    BY <1>1, <1>2
  <2> QED
    BY <2>5, <2>6, <2>7, TokensAssumption
<1> QED
  BY <1>1, <1>2

(* Unblinding takes the blinding factor out of a signature. *)
LEMMA UnblindSigned ==
  ASSUME NEW k \in 1 .. Order - 1, NEW y \in 1 .. Order - 1, NEW r \in 0 .. Order - 1
  PROVE  Unblind(Times(k, (y + r) % Order), r, k) = Times(k, y)
<1> DEFINE s == (y + r) % Order
           c == Times(k, s)
<1>1. Order \in Nat /\ Order > 0
  BY TokensAssumption
<1>2. PICK d \in Int : s \in 0 .. Order - 1 /\ y + r = Order * d + s
  BY <1>1, ModRange
<1> HIDE DEF s
<1>3. PICK e \in Int : c \in 0 .. Order - 1 /\ k * s = Order * e + c
  <2>1. k * s \in Int
    BY <1>1, <1>2
  <2> QED
    BY <1>1, <2>1, ModRange DEF Times
<1> HIDE DEF c
<1>4. s = y + r - Order * d /\ c = k * s - Order * e
  BY <1>1, <1>2, <1>3
<1>5. k * s = k * y + k * r - Order * (k * d)
  BY <1>1, <1>4
<1>6. c + Order * Order - r * k = k * y + Order * (Order - e - k * d)
  BY <1>1, <1>3, <1>4, <1>5
<1>7. k * y \in Int /\ Order - e - k * d \in Int
  BY <1>1
<1>8. (k * y + Order * (Order - e - k * d)) % Order = (k * y) % Order
  BY <1>1, <1>7, ModShift
<1>9. Unblind(c, r, k) = Times(k, y)
  BY <1>6, <1>8 DEF Unblind, Times
<1> QED
  BY <1>9 DEF c, s
-----------------------------------------------------------------------------
(* Answers.                                                                 *)

(* A call is one of those the callers make.                                 *)
CallIsMade == call.fn \in DOMAIN Arguments /\ call.args \in Arguments[call.fn]

(* A wallet's proof verifies for the amount that was signed only.           *)
LEMMA SignedForAmount ==
  ASSUME NEW a \in Arguments["sign"],
         call.args = a, SignAndVerify
  PROVE  answer' <=> a.claimed = a.amount
<1> DEFINE k == Key[a.id][a.amount]
           m == Key[a.id][a.claimed]
           y == Y[a.secret]
<1>1. /\ a.id \in DOMAIN Key /\ a.amount \in DOMAIN Key[a.id] /\ a.claimed \in DOMAIN Key[a.id]
      /\ a.secret \in Secrets /\ a.r \in 0 .. Order - 1
  BY ArgumentsAssumption
<1>2. k \in 1 .. Order - 1 /\ m \in 1 .. Order - 1 /\ y \in 1 .. Order - 1
  BY <1>1, TokensAssumption
<1>3. k = m => a.amount = a.claimed
  BY <1>1, TokensAssumption
<1>4. answer' = (Unblind(Times(k, (y + a.r) % Order), a.r, k) = Times(m, y))
  BY DEF SignAndVerify, Return, VerifyProof, SignBlindedMessage, PrivateKey, Blind
<1>5. a.amount = a.claimed => k = m
  OBVIOUS
<1> HIDE DEF k, m, y
<1>6. Unblind(Times(k, (y + a.r) % Order), a.r, k) = Times(k, y)
  BY <1>1, <1>2, UnblindSigned
<1>7. Times(k, y) = Times(m, y) => k = m
  BY <1>2, TimesInjective
<1> QED
  BY <1>3, <1>4, <1>5, <1>6, <1>7

(* Locked inputs that are accepted have the signature of every lock's key.  *)
LEMMA LocksOpened ==
  ASSUME NEW a \in Arguments["locks"], VerifyP2PKProofs(a.proofs, a.outputs),
         NEW i \in DOMAIN a.proofs, IsP2PKProof(a.proofs[i])
  PROVE  LET names == [j \in DOMAIN a.proofs |-> a.proofs[j].secret]
             opened(m) == \E j \in DOMAIN a.proofs :
                            [key |-> a.proofs[i].lock.key, message |-> m] \in a.proofs[j].witness
         IN IF a.proofs[i].lock.flag = "SIG_ALL"
            THEN a.outputs # <<>> /\ \E m \in SigAllMessages(names, a.outputs) : opened(m)
            ELSE opened(OwnMessage(a.proofs[i]))
<1> DEFINE names == [j \in DOMAIN a.proofs |-> a.proofs[j].secret]
           all == Flagged(a.proofs, "SIG_ALL")
<1>1. CASE a.proofs[i].lock.flag = "SIG_ALL"
  <2>1. i \in all
    BY <1>1 DEF Flagged
  <2>2. PICK first \in all, m \in SigAllMessages(names, a.outputs) : Signed(a.proofs[first], m)
    BY <2>1 DEF VerifyP2PKProofs
  <2>3. a.outputs # <<>> /\ a.proofs[first].lock = a.proofs[i].lock /\ first \in DOMAIN a.proofs
    BY <2>1, <2>2 DEF VerifyP2PKProofs, HasConsistentSigAllSecrets, Flagged
  <2> QED
    BY <1>1, <2>2, <2>3 DEF Signed
<1>2. CASE a.proofs[i].lock.flag # "SIG_ALL"
  <2>1. a.proofs[i].lock.flag = "SIG_INPUTS"
    BY <1>2, ArgumentsAssumption
  <2>2. Signed(a.proofs[i], OwnMessage(a.proofs[i]))
    BY <2>1 DEF VerifyP2PKProofs, Flagged
  <2> QED
    BY <1>2, <2>2 DEF Signed
<1> QED
  BY <1>1, <1>2

(* A call is answered once: a step that answers found no answer.            *)
LEMMA AnsweredOnce ==
  ASSUME CallsNext, NEW fn, answer'  # NoAnswer, call.fn = fn
  PROVE  call' = call /\ answer = NoAnswer
  BY DEF CallsNext, WithdrawBtc, WithdrawRunes, ReadInvoice, ReadPayment, ReadRunestone,
         SplitChange, ChargeInputs, SignAndVerify, CheckLocks, SignRunes, SignBtc, Return

(* Who answers a call to sign. *)
LEMMA SignAnswers ==
  ASSUME CallsNext, call.fn = "sign" PROVE SignAndVerify
  BY DEF CallsNext, WithdrawBtc, WithdrawRunes, ReadInvoice, ReadPayment, ReadRunestone,
         SplitChange, ChargeInputs, SignAndVerify, CheckLocks, SignRunes, SignBtc, Return

(* Who answers a call to check locks. *)
LEMMA LocksAnswer ==
  ASSUME CallsNext, call.fn = "locks" PROVE CheckLocks
  BY DEF CallsNext, WithdrawBtc, WithdrawRunes, ReadInvoice, ReadPayment, ReadRunestone,
         SplitChange, ChargeInputs, SignAndVerify, CheckLocks, SignRunes, SignBtc, Return

(* No call is answered at the start. *)
LEMMA CallsStart == CallsInit => CallIsMade /\ answer = NoAnswer
  BY DEF CallsInit, CallIsMade

(* A step keeps the call, and an answer that was given. *)
LEMMA CallsStep ==
  ASSUME CallIsMade, [CallsNext]_callVars
  PROVE  CallIsMade' /\ call' = call /\ (answer' = answer \/ answer = NoAnswer)
<1>1. call' = call
  BY DEF callVars, CallsNext, WithdrawBtc, WithdrawRunes, ReadInvoice, ReadPayment, ReadRunestone,
         SplitChange, ChargeInputs, SignAndVerify, CheckLocks, SignRunes, SignBtc, Return
<1>2. answer' = answer \/ answer = NoAnswer
  BY DEF callVars, CallsNext, WithdrawBtc, WithdrawRunes, ReadInvoice, ReadPayment, ReadRunestone,
         SplitChange, ChargeInputs, SignAndVerify, CheckLocks, SignRunes, SignBtc, Return
<1> QED
  BY <1>1, <1>2 DEF CallIsMade

(* For every order of the group, keyset, amount, secret and blinding        *)
(* factor, a proof verifies for the amount the mint signed and for no       *)
(* other; and whatever inputs a swap or a melt accepts, every lock among    *)
(* them is signed for by its key (MintCrypto, P2PKService).                 *)
THEOREM GenuineCorrect == CallsSpec => []InputsAreGenuine
<1>1. CallsInit => CallIsMade /\ InputsAreGenuine
  BY CallsStart DEF InputsAreGenuine, TokensVerify, LocksAreSigned, Answered
<1>2. CallIsMade /\ InputsAreGenuine /\ [CallsNext]_callVars => CallIsMade' /\ InputsAreGenuine'
  <2> SUFFICES ASSUME CallIsMade, InputsAreGenuine, [CallsNext]_callVars
               PROVE  CallIsMade' /\ InputsAreGenuine'
    OBVIOUS
  <2>1. CallIsMade' /\ call' = call /\ (answer' = answer \/ answer = NoAnswer)
    BY CallsStep
  <2>2. CASE answer' = answer
    BY <2>1, <2>2 DEF InputsAreGenuine, TokensVerify, LocksAreSigned, Answered
  <2>3. CASE answer' # answer
    <3>1. CallsNext
      BY <2>3 DEF callVars
    <3>2. TokensVerify'
      <4> SUFFICES ASSUME call.fn = "sign"
                   PROVE  answer' <=> call.args.claimed = call.args.amount
        BY <2>1 DEF TokensVerify, Answered
      <4>1. SignAndVerify
        BY <3>1, SignAnswers
      <4> QED
        BY <2>1, <2>3, <4>1, SignedForAmount DEF CallIsMade
    <3>3. LocksAreSigned'
      <4> SUFFICES ASSUME call.fn = "locks", answer'
                   PROVE  LocksAreSigned'
        BY <2>1 DEF LocksAreSigned, Answered
      <4>1. VerifyP2PKProofs(call.args.proofs, call.args.outputs)
        BY <3>1, LocksAnswer DEF CheckLocks, Return
      <4>2. ASSUME NEW p \in ToSet(call.args.proofs), IsP2PKProof(p)
            PROVE  LET a == call.args
                       names == [i \in DOMAIN a.proofs |-> a.proofs[i].secret]
                       signed(m) == \E w \in ToSet(a.proofs) : [key |-> p.lock.key, message |-> m] \in w.witness
                   IN IF p.lock.flag = "SIG_ALL"
                      THEN a.outputs # <<>> /\ \E m \in SigAllMessages(names, a.outputs) : signed(m)
                      ELSE signed(OwnMessage(p))
        <5>1. PICK i \in DOMAIN call.args.proofs : p = call.args.proofs[i]
          BY DEF ToSet
        <5>2. call.args \in Arguments["locks"]
          BY DEF CallIsMade
        <5>3. \A j \in DOMAIN call.args.proofs : call.args.proofs[j] \in ToSet(call.args.proofs)
          BY DEF ToSet
        <5> QED
          BY <4>1, <4>2, <5>1, <5>2, <5>3, LocksOpened
      <4> QED
        BY <2>1, <4>2 DEF LocksAreSigned
    <3> QED
      BY <2>1, <3>2, <3>3 DEF InputsAreGenuine
  <2> QED
    BY <2>2, <2>3
<1> QED
  BY <1>1, <1>2, PTL DEF CallsSpec

-----------------------------------------------------------------------------
(* Keys of withdrawals.                                                     *)

(* No quote has account 0, and no address is on the operator's wallet. *)
LEMMA KeysDiffer ==
  ASSUME NEW account, NEW q \in DOMAIN Digest
  PROVE  /\ QuoteAccountIndex(q) # 0
         /\ Taproot(account) # WalletKey("operator", "86", 0)
         /\ Segwit(account) # WalletKey("operator", "84", 0)
<1>1. Digest[q] \in Nat /\ MaxIndex \in Nat /\ MaxIndex > 0 /\ q # NoQuote
  BY WalletKeysAssumption
<1>2. Digest[q] % MaxIndex \in 0 .. MaxIndex - 1
  BY <1>1, ModRange
<1>3. QuoteAccountIndex(q) # 0
  BY <1>1, <1>2 DEF QuoteAccountIndex
<1>4. Taproot(account).wallet = "seed" /\ Segwit(account).wallet = "seed"
  BY DEF Taproot, Segwit, WalletKey
<1>5. /\ WalletKey("operator", "86", 0).wallet = "operator"
      /\ WalletKey("operator", "84", 0).wallet = "operator"
  BY DEF WalletKey
<1> QED
  BY <1>3, <1>4, <1>5

(* The rows of deposits that are found again name the key of their address. *)
LEMMA RowsNameKeys ==
  ASSUME NEW a \in Arguments["runekeys"], ~a.configured, NEW i \in DOMAIN a.deposits
  PROVE  LET d == a.deposits[i]
             mint == MintAddresses(a.configured)
             row == RowOf(d, mint)
             own == row.account # 0 \/ row.address = mint.taproot
         IN /\ own => Taproot(row.account) = row.address
            /\ ~own => d.own /\ d.legacy /\ Taproot(QuoteAccountIndex(d.quote)) = row.address
            /\ ~own => row.quote = d.claimedBy
            /\ d.own /\ d.legacy => ~own
<1> DEFINE d == a.deposits[i]
           mint == MintAddresses(a.configured)
           address == IF d.own THEN DeriveQuoteTaprootAddress(d.quote) ELSE mint.taproot
<1>1. d.quote \in DOMAIN Digest /\ d.claimedBy \in {d.quote, NoQuote}
  BY ArgumentsAssumption
<1>2. mint.taproot = Taproot(0)
  BY DEF MintAddresses
<1>3. QuoteAccountIndex(d.quote) # 0
  BY <1>1, KeysDiffer
<1>4. \A m, n : Taproot(m) = Taproot(n) => m = n
  <2>1. \A m : Taproot(m).account = m
    BY DEF Taproot, WalletKey
  <2> QED
    BY <2>1
<1>5. CASE d.legacy
  <2>1. RowOf(d, mint) = [address |-> address, account |-> 0, quote |-> d.claimedBy]
    BY <1>5 DEF RowOf, LegacyRow
  <2> QED
    BY <1>2, <1>3, <1>4, <1>5, <2>1 DEF DeriveQuoteTaprootAddress
<1>6. CASE ~d.legacy
  <2>1. RowOf(d, mint) = [address |-> address, account |-> AccountIndexForDeposit(d.quote, address),
                          quote |-> d.quote]
    BY <1>6 DEF RowOf, TrackDepositUtxo
  <2>2. CASE d.own
    BY <1>2, <1>3, <1>4, <1>6, <2>1, <2>2 DEF DeriveQuoteTaprootAddress, AccountIndexForDeposit
  <2>3. CASE ~d.own
    BY <1>2, <1>3, <1>4, <1>6, <2>1, <2>3 DEF DeriveQuoteTaprootAddress, AccountIndexForDeposit
  <2> QED
    BY <2>2, <2>3
<1> QED
  BY <1>5, <1>6

(* A withdrawal of runes signs its fee coin and the coins whose row leads to a key. *)
LEMMA RunesSigned ==
  ASSUME NEW a \in Arguments["runekeys"], call.args = a, SignRunes
  PROVE  /\ answer'.signed = ~a.configured
         /\ ~a.configured =>
              DOMAIN answer'.keys = {0} \cup {i \in DOMAIN a.deposits :
                LET d == a.deposits[i] IN ~(d.own /\ d.legacy /\ d.claimedBy = NoQuote)}
<1> DEFINE mint == MintAddresses(a.configured)
           rows == [i \in DOMAIN a.deposits |-> RowOf(a.deposits[i], mint)]
           own(r) == r.account # 0 \/ r.address = mint.taproot
           kept == {i \in DOMAIN a.deposits : own(rows[i]) \/ rows[i].quote # NoQuote}
           found == NormalizeTrackedRuneUtxos(rows, mint)
           inputs == {0} \cup kept
           keys == [i \in inputs |-> IF i = 0 THEN Segwit(0) ELSE Taproot(found[i].account)]
           addresses == [i \in inputs |-> IF i = 0 THEN mint.segwit ELSE found[i].address]
<1>1. found = [i \in kept |->
                 IF own(rows[i]) THEN rows[i]
                 ELSE [rows[i] EXCEPT !.account = QuoteAccountIndex(rows[i].quote)]]
  BY DEF NormalizeTrackedRuneUtxos
<1>2. DOMAIN found = kept
  BY <1>1
<1> HIDE DEF found
<1>3. answer' = SignedWith(keys, addresses)
  <2>1. answer' = SignRunesPsbt(mint, found)
    BY DEF SignRunes, Return, found
  <2> QED
    BY <1>2, <2>1 DEF SignRunesPsbt
<1>4. a.configured \in BOOLEAN /\ 0 \notin DOMAIN a.deposits
  BY ArgumentsAssumption
<1>5. CASE a.configured
  <2>1. mint.segwit = WalletKey("operator", "84", 0)
    BY <1>5 DEF MintAddresses
  <2>2. Segwit(0).wallet = "seed" /\ mint.segwit.wallet = "operator"
    BY <2>1 DEF Segwit, WalletKey
  <2>3. 0 \in inputs /\ keys[0] = Segwit(0) /\ addresses[0] = mint.segwit
    OBVIOUS
  <2>4. keys # addresses
    BY <2>2, <2>3
  <2> QED
    BY <1>3, <1>5, <2>4 DEF SignedWith, Refused
<1>6. CASE ~a.configured
  <2>1. mint.segwit = Segwit(0)
    BY <1>6 DEF MintAddresses
  <2>2. ASSUME NEW i \in kept
        PROVE  Taproot(found[i].account) = found[i].address
    <3>1. rows[i] = RowOf(a.deposits[i], mint) /\ i \in DOMAIN a.deposits
      OBVIOUS
    <3>2. a.deposits[i].quote \in DOMAIN Digest
          /\ a.deposits[i].claimedBy \in {a.deposits[i].quote, NoQuote}
      BY <3>1, ArgumentsAssumption
    <3>3. CASE own(rows[i])
      <4>1. Taproot(rows[i].account) = rows[i].address
        BY <1>6, <3>1, <3>3, RowsNameKeys
      <4> QED
        BY <1>1, <3>3, <4>1
    <3>4. CASE ~own(rows[i])
      <4>1. /\ rows[i].quote = a.deposits[i].claimedBy
            /\ Taproot(QuoteAccountIndex(a.deposits[i].quote)) = rows[i].address
        BY <1>6, <3>1, <3>4, RowsNameKeys
      <4>2. rows[i].quote = a.deposits[i].quote
        BY <3>2, <3>4, <4>1
      <4>3. found[i] = [rows[i] EXCEPT !.account = QuoteAccountIndex(rows[i].quote)]
        BY <1>1, <3>4
      <4>4. found[i].address = rows[i].address /\ found[i].account = QuoteAccountIndex(rows[i].quote)
        <5>1. DOMAIN rows[i] = {"address", "account", "quote"}
          BY <3>1 DEF RowOf, LegacyRow, TrackDepositUtxo
        <5> HIDE DEF rows
        <5> QED
          BY <4>3, <5>1
      <4> QED
        BY <4>1, <4>2, <4>4
    <3> QED
      BY <3>3, <3>4
  <2>3. keys = addresses
    BY <2>1, <2>2
  <2>4. answer' = [signed |-> TRUE, keys |-> keys]
    BY <1>3, <2>3 DEF SignedWith
  <2>5. ASSUME NEW i \in DOMAIN a.deposits
        PROVE  i \in kept <=> ~(a.deposits[i].own /\ a.deposits[i].legacy
                                /\ a.deposits[i].claimedBy = NoQuote)
    <3>1. rows[i] = RowOf(a.deposits[i], mint)
      OBVIOUS
    <3>2. /\ ~own(rows[i]) => a.deposits[i].own /\ a.deposits[i].legacy
          /\ ~own(rows[i]) => rows[i].quote = a.deposits[i].claimedBy
          /\ a.deposits[i].own /\ a.deposits[i].legacy => ~own(rows[i])
      BY <1>6, <3>1, RowsNameKeys
    <3> QED
      BY <3>2
  <2>6. DOMAIN answer'.keys = inputs /\ answer'.signed = TRUE
    BY <2>4
  <2> QED
    BY <1>6, <2>5, <2>6
<1> QED
  BY <1>4, <1>5, <1>6

(* A withdrawal in BTC signs the coins on an address that is the mint's to sign for. *)
LEMMA BtcSigned ==
  ASSUME NEW a \in Arguments["btckeys"], call.args = a, SignBtc
  PROVE  /\ answer'.signed
         /\ \A q \in a.quotes :
              (\E c \in DOMAIN answer'.keys : answer'.keys[c] = q.request)
                <=> \/ q.request = DeriveDepositAddress(q.id)
                    \/ ~a.configured /\ q.request = Segwit(0)
<1> DEFINE mint == MintAddresses(a.configured)
           derived == {r \in a.quotes : r.request # mint.segwit /\ r.request = DeriveDepositAddress(r.id)}
           coin(r) == [address |-> r.request, account |-> BtcQuoteAccountIndex(r.id)]
           mine == [address |-> mint.segwit, account |-> 0]
           coins == BtcCoins(mint, a.quotes)
<1>1. \A q \in a.quotes : q.id \in DOMAIN Digest
  BY ArgumentsAssumption
<1>2. \A q, r \in a.quotes : q.request = r.request => q = r
  BY ArgumentsAssumption
<1>3. \A c : c \in coins <=> (mint.segwit = Segwit(0) /\ c = mine) \/ \E r \in derived : c = coin(r)
  BY DEF BtcCoins
<1> HIDE DEF coins
<1>4. \A c \in coins : Segwit(c.account) = c.address
  BY <1>3 DEF DeriveDepositAddress
<1>5. answer' = [signed |-> TRUE, keys |-> [c \in coins |-> c.address]]
  <2>1. answer' = SignTransaction(coins)
    BY DEF SignBtc, Return, coins
  <2>2. [c \in coins |-> Segwit(c.account)] = [c \in coins |-> c.address]
    BY <1>4
  <2> QED
    BY <2>1, <2>2 DEF SignTransaction, SignedWith
<1>6. ASSUME NEW q \in a.quotes
      PROVE  (\E c \in coins : c.address = q.request)
               <=> \/ q.request = DeriveDepositAddress(q.id)
                   \/ ~a.configured /\ q.request = Segwit(0)
  <2>1. mint.segwit = Segwit(0) <=> ~a.configured
    <3>1. Segwit(0) # WalletKey("operator", "84", 0)
      BY <1>1, KeysDiffer
    <3> QED
      BY <3>1 DEF MintAddresses
  <2>2. q.request = DeriveDepositAddress(q.id) /\ q.request = mint.segwit => ~a.configured
    <3>1. DeriveDepositAddress(q.id) # WalletKey("operator", "84", 0)
      BY <1>1, KeysDiffer DEF DeriveDepositAddress
    <3> QED
      BY <3>1 DEF MintAddresses
  <2>3. ASSUME NEW c \in coins, c.address = q.request
        PROVE  \/ q.request = DeriveDepositAddress(q.id)
               \/ ~a.configured /\ q.request = Segwit(0)
    BY <1>2, <1>3, <2>1, <2>3
  <2>4. q.request = DeriveDepositAddress(q.id) /\ q.request # mint.segwit => coin(q) \in coins
    BY <1>3
  <2>5. ~a.configured => mine \in coins /\ mint.segwit = Segwit(0)
    BY <1>3, <2>1
  <2> QED
    BY <2>1, <2>2, <2>3, <2>4, <2>5
<1> QED
  BY <1>5, <1>6

(* Who answers a call for keys. *)
LEMMA KeysAnswer ==
  ASSUME CallsNext
  PROVE  /\ call.fn = "runekeys" => SignRunes
         /\ call.fn = "btckeys" => SignBtc
  BY DEF CallsNext, WithdrawBtc, WithdrawRunes, ReadInvoice, ReadPayment, ReadRunestone,
         SplitChange, ChargeInputs, SignAndVerify, CheckLocks, SignRunes, SignBtc, Return

(* Whatever the digests of the quotes and the number of accounts, every     *)
(* coin of a withdrawal is signed with the key of its address, or the       *)
(* withdrawal fails because the fee coin is on another wallet's address     *)
(* (WalletKeyManager, BTCBackend, UtxoManager).                             *)
THEOREM KeysCorrect == CallsSpec => []KeysMatchCoins
<1>1. CallsInit => CallIsMade /\ KeysMatchCoins
  BY CallsStart DEF KeysMatchCoins, Answered
<1>2. CallIsMade /\ KeysMatchCoins /\ [CallsNext]_callVars => CallIsMade' /\ KeysMatchCoins'
  <2> SUFFICES ASSUME CallIsMade, KeysMatchCoins, [CallsNext]_callVars
               PROVE  CallIsMade' /\ KeysMatchCoins'
    OBVIOUS
  <2>1. CallIsMade' /\ call' = call /\ (answer' = answer \/ answer = NoAnswer)
    BY CallsStep
  <2>2. CASE answer' = answer
    BY <2>1, <2>2 DEF KeysMatchCoins, Answered
  <2>3. CASE answer' # answer
    <3>1. CallsNext
      BY <2>3 DEF callVars
    <3>2. CASE call.fn = "runekeys"
      <4>1. SignRunes /\ call.args \in Arguments["runekeys"]
        BY <3>1, <3>2, KeysAnswer DEF CallIsMade
      <4> QED
        BY <2>1, <3>2, <4>1, RunesSigned DEF KeysMatchCoins, Answered
    <3>3. CASE call.fn = "btckeys"
      <4>1. SignBtc /\ call.args \in Arguments["btckeys"]
        BY <3>1, <3>3, KeysAnswer DEF CallIsMade
      <4> QED
        BY <2>1, <3>3, <4>1, BtcSigned DEF KeysMatchCoins, Answered
    <3> QED
      BY <2>1, <3>2, <3>3 DEF KeysMatchCoins, Answered
  <2> QED
    BY <2>2, <2>3
<1> QED
  BY <1>1, <1>2, PTL DEF CallsSpec

-----------------------------------------------------------------------------
(* The transaction that pays a withdrawal in BTC.                           *)

(* What the selection is given.                                             *)
CoinList(coins) ==
  /\ IsFiniteSet(DOMAIN coins) /\ DOMAIN coins \subseteq Nat
  /\ \A i \in DOMAIN coins : coins[i].value \in Nat

(* The value of coins is a sum. *)
LEMMA TotalIsSum ==
  ASSUME NEW coins, NEW S
  PROVE  TotalOf(coins, S) = SumOver([i \in DOMAIN coins |-> coins[i].value], S)
BY DEF TotalOf, SumOver

(* The value of coins is a number. *)
LEMMA TotalType ==
  ASSUME NEW coins, CoinList(coins), NEW S \in SUBSET (DOMAIN coins)
  PROVE  IsFiniteSet(S) /\ Cardinality(S) \in Nat /\ TotalOf(coins, S) \in Nat
<1>1. IsFiniteSet(S)
  BY FS_Subset DEF CoinList
<1>2. \A i \in S : [j \in DOMAIN coins |-> coins[j].value][i] \in Nat
  BY DEF CoinList
<1> QED
  BY <1>1, <1>2, FS_CardinalityType, SumType, TotalIsSum

(* Of some coins one comes before the others.                               *)
LEMMA FirstExists ==
  ASSUME NEW coins, CoinList(coins), NEW R \in SUBSET (DOMAIN coins), R # {}
  PROVE  \E i \in R : \A j \in R \ {i} : Before(coins, i, j)
<1> DEFINE first(T) == \E i \in T : \A j \in T \ {i} : Before(coins, i, j)
           B == {T \in SUBSET R : T # {} /\ ~first(T)}
<1> SUFFICES ASSUME B # {} PROVE FALSE
  OBVIOUS
<1>1. IsFiniteSet(R)
  BY TotalType
<1>2. PICK T \in B : T \subseteq R /\ IsFiniteSet(T) /\ \A x \in T : T \ {x} \notin B
  <2>1. B \subseteq SUBSET R
    OBVIOUS
  <2> HIDE DEF B
  <2> QED
    BY <1>1, <2>1, SmallestSet
<1>3. PICK x \in T : TRUE
  OBVIOUS
<1>4. T \ {x} # {}
  OBVIOUS
<1>5. PICK y \in T \ {x} : \A j \in (T \ {x}) \ {y} : Before(coins, y, j)
  BY <1>2, <1>4
<1>6. \A j \in T : j \in Nat /\ coins[j].value \in Nat
  BY DEF CoinList
<1>7. CASE Before(coins, y, x)
  BY <1>5, <1>7
<1>8. CASE ~Before(coins, y, x)
  <2>1. \A j \in T \ {x} : Before(coins, x, j)
    BY <1>5, <1>6, <1>8 DEF Before
  <2> QED
    BY <2>1
<1> QED
  BY <1>7, <1>8

(* What the loop has taken after k rounds.                                  *)
LEMMA TakenOfSize ==
  ASSUME NEW coins, CoinList(coins), NEW k \in Nat, k > 0, k <= Cardinality(DOMAIN coins)
  PROVE  \E S \in Taken(coins) : Cardinality(S) = k
<1> DEFINE D == DOMAIN coins
           prefix(S) == \A i \in S, j \in D \ S : Before(coins, i, j)
           B == {R \in SUBSET D : prefix(D \ R) /\ Cardinality(D \ R) <= k}
<1>1. IsFiniteSet(D)
  BY DEF CoinList
<1>2. D \in B
  <2>1. D \ D = {}
    OBVIOUS
  <2> QED
    BY <2>1, FS_EmptySet
<1>3. PICK R \in B : R \subseteq D /\ IsFiniteSet(R) /\ \A x \in R : R \ {x} \notin B
  <2>1. B \subseteq SUBSET D /\ B # {}
    BY <1>2
  <2> HIDE DEF B
  <2> QED
    BY <1>1, <2>1, SmallestSet
<1> DEFINE P == D \ R
<1>4. P \in SUBSET D /\ IsFiniteSet(P) /\ Cardinality(P) \in Nat /\ Cardinality(P) <= k /\ prefix(P)
  BY <1>1, <1>3, FS_Subset, FS_CardinalityType
<1>5. CASE Cardinality(P) = k
  <2>1. P # {}
    BY <1>5, FS_EmptySet
  <2> QED
    BY <1>4, <1>5, <2>1 DEF Taken
<1>6. CASE Cardinality(P) # k
  <2>1. R # {}
    <3>1. R = {} => P = D
      OBVIOUS
    <3> QED
      BY <1>4, <1>6, <3>1
  <2>2. PICK x \in R : \A j \in R \ {x} : Before(coins, x, j)
    BY <1>3, <2>1, FirstExists
  <2>3. D \ (R \ {x}) = P \cup {x} /\ x \notin P
    BY <1>3
  <2>4. Cardinality(P \cup {x}) = Cardinality(P) + 1
    BY <1>4, <2>3, FS_AddElement
  <2>5. prefix(P \cup {x})
    <3> SUFFICES ASSUME NEW i \in P \cup {x}, NEW j \in D \ (P \cup {x})
                 PROVE  Before(coins, i, j)
      OBVIOUS
    <3>1. j \in R \ {x} /\ j \in D \ P
      BY <1>3
    <3> QED
      BY <1>4, <2>2, <3>1
  <2>6. R \ {x} \in B
    BY <1>3, <1>4, <1>6, <2>3, <2>4, <2>5
  <2> QED
    BY <1>3, <2>6
<1> QED
  BY <1>5, <1>6

(* No other coins, as many, are worth more than those the loop takes.       *)
LEMMA TakenIsMost ==
  ASSUME NEW coins, CoinList(coins), NEW P \in Taken(coins), NEW S \in SUBSET (DOMAIN coins),
         Cardinality(P) = Cardinality(S)
  PROVE  TotalOf(coins, P) >= TotalOf(coins, S)
<1> DEFINE f == [i \in DOMAIN coins |-> coins[i].value]
           X == P \ S
           Z == S \ P
<1>1. P \in SUBSET (DOMAIN coins) /\ \A i \in P, j \in DOMAIN coins \ P : Before(coins, i, j)
  BY DEF Taken
<1>2. \A i \in DOMAIN coins : f[i] \in Nat
  BY DEF CoinList
<1>3. /\ IsFiniteSet(P) /\ IsFiniteSet(S) /\ IsFiniteSet(X) /\ IsFiniteSet(Z) /\ IsFiniteSet(P \cap S)
      /\ Cardinality(X) \in Nat /\ Cardinality(Z) \in Nat /\ Cardinality(P \cap S) \in Nat
  BY <1>1, TotalType
<1>4. SumOver(f, P) = SumOver(f, P \cap S) + SumOver(f, X)
  <2>1. P \ (P \cap S) = X /\ P \cap S \subseteq P
    OBVIOUS
  <2>2. \A i \in P : f[i] \in Nat
    BY <1>1, <1>2
  <2> HIDE DEF f, X
  <2> QED
    BY <1>3, <2>1, <2>2, SumSplit
<1>5. SumOver(f, S) = SumOver(f, P \cap S) + SumOver(f, Z)
  <2>1. S \ (P \cap S) = Z /\ P \cap S \subseteq S
    OBVIOUS
  <2>2. \A i \in S : f[i] \in Nat
    BY <1>2
  <2> HIDE DEF f, Z
  <2> QED
    BY <1>3, <2>1, <2>2, SumSplit
<1>6. Cardinality(X) = Cardinality(Z)
  <2>1. Cardinality(X) = Cardinality(P) - Cardinality(P \cap S)
    BY <1>3, FS_Difference
  <2>2. Cardinality(Z) = Cardinality(S) - Cardinality(S \cap P)
    BY <1>3, FS_Difference
  <2>3. P \cap S = S \cap P
    OBVIOUS
  <2> HIDE DEF X, Z
  <2> QED
    BY <2>1, <2>2, <2>3
<1>7. /\ SumOver(f, X) \in Nat /\ SumOver(f, Z) \in Nat /\ SumOver(f, P \cap S) \in Nat
  <2>1. \A i \in P \cup S : f[i] \in Nat
    BY <1>1, <1>2
  <2> HIDE DEF f
  <2> QED
    BY <1>3, <2>1, SumType
<1>8. SumOver(f, X) >= SumOver(f, Z)
  <2>1. CASE Z = {}
    <3>1. SumOver(f, Z) = 0
      BY <2>1, SumEmpty
    <3> QED
      BY <1>7, <3>1
  <2>2. CASE Z # {}
    <3>1. PICK z \in Z : \A j \in Z \ {z} : Before(coins, z, j)
      BY <2>2, FirstExists
    <3> DEFINE v == coins[z].value
    <3>2. v \in Nat
      BY <1>2
    <3>3. \A i \in X : f[i] \in Nat /\ f[i] >= v
      BY <1>1, <1>2, <3>1 DEF Before
    <3>4. \A i \in Z : f[i] \in Nat /\ f[i] <= v
      BY <1>2, <3>1 DEF Before
    <3> HIDE DEF v, f
    <3>5. SumOver(f, X) >= v * Cardinality(X)
      BY <1>3, <3>2, <3>3, SumAtLeast
    <3>6. SumOver(f, Z) <= v * Cardinality(Z)
      BY <1>3, <3>2, <3>4, SumAtMost
    <3>7. v * Cardinality(X) \in Nat
      BY <1>3, <3>2
    <3> QED
      BY <1>6, <1>7, <3>5, <3>6, <3>7
  <2> QED
    BY <2>1, <2>2
<1>9. TotalOf(coins, P) = SumOver(f, P) /\ TotalOf(coins, S) = SumOver(f, S)
  BY TotalIsSum
<1> QED
  BY <1>4, <1>5, <1>7, <1>8, <1>9

(* Of what the loop has taken, one round's is part of another's.            *)
LEMMA TakenNest ==
  ASSUME NEW coins, CoinList(coins), NEW S \in Taken(coins), NEW T \in Taken(coins)
  PROVE  S \subseteq T \/ T \subseteq S
<1> SUFFICES ASSUME NEW i \in S \ T, NEW j \in T \ S PROVE FALSE
  OBVIOUS
<1>1. i \in DOMAIN coins /\ j \in DOMAIN coins /\ Before(coins, i, j) /\ Before(coins, j, i)
  BY DEF Taken
<1> QED
  BY <1>1 DEF Before, CoinList

(* The loop stops at the first round that pays.                             *)
LEMMA FirstRound ==
  ASSUME NEW coins, CoinList(coins), NEW E, E \subseteq Taken(coins), E # {}
  PROVE  \E S \in E : \A T \in E : S \subseteq T
<1> DEFINE D == DOMAIN coins
           B == {U \in SUBSET D : \E T \in E : T \subseteq U}
<1>1. \A T \in E : T \in SUBSET D /\ T \in B
  BY DEF Taken
<1>2. PICK U \in B : U \subseteq D /\ IsFiniteSet(U) /\ \A x \in U : U \ {x} \notin B
  <2>1. B \subseteq SUBSET D /\ B # {} /\ IsFiniteSet(D)
    BY <1>1 DEF CoinList
  <2> HIDE DEF B
  <2> QED
    BY <2>1, SmallestSet
<1>3. \A T \in E : T \subseteq U => T = U
  <2> SUFFICES ASSUME NEW T \in E, T \subseteq U, NEW x \in U, x \notin T
               PROVE  FALSE
    OBVIOUS
  <2>1. U \ {x} \in B
    BY <1>2
  <2> QED
    BY <1>2, <2>1
<1>4. U \in E
  BY <1>2, <1>3
<1> QED
  BY <1>3, <1>4, TakenNest

(* Enough coins are found when there are any.                               *)
LEMMA FindsFunds ==
  ASSUME NEW coins, CoinList(coins), NEW amount \in Nat, NEW rate \in Nat
  PROVE  (\E S \in Taken(coins) : Affords(coins, S, amount, rate))
           <=> \E S \in SUBSET (DOMAIN coins) : S # {} /\ Affords(coins, S, amount, rate)
<1>1. ASSUME NEW S \in SUBSET (DOMAIN coins), S # {}, Affords(coins, S, amount, rate)
      PROVE  \E P \in Taken(coins) : Affords(coins, P, amount, rate)
  <2>1. IsFiniteSet(S) /\ Cardinality(S) \in Nat /\ IsFiniteSet(DOMAIN coins)
    BY TotalType DEF CoinList
  <2>2. Cardinality(S) > 0 /\ Cardinality(S) <= Cardinality(DOMAIN coins)
    BY <1>1, <2>1, FS_EmptySet, FS_Subset
  <2>3. PICK P \in Taken(coins) : Cardinality(P) = Cardinality(S)
    BY <2>1, <2>2, TakenOfSize
  <2>4. TotalOf(coins, P) >= TotalOf(coins, S)
    BY <2>3, TakenIsMost
  <2>5. TotalOf(coins, P) \in Nat /\ TotalOf(coins, S) \in Nat
    BY TotalType DEF Taken
  <2> DEFINE needed == amount + EstimateTxSize(Cardinality(S), 2) * rate
  <2>6. needed \in Int
    BY <2>1 DEF EstimateTxSize
  <2>7. TotalOf(coins, S) >= needed
    BY <1>1 DEF Affords
  <2> HIDE DEF needed
  <2>8. TotalOf(coins, P) >= needed
    BY <2>4, <2>5, <2>6, <2>7
  <2> QED
    BY <2>3, <2>8 DEF Affords, needed
<1>2. \A S \in Taken(coins) : S \in SUBSET (DOMAIN coins) /\ S # {}
  BY DEF Taken
<1> QED
  BY <1>1, <1>2

(* Coins that pay for amount and fee make a transaction that balances. *)
LEMMA OutcomeBalances ==
  ASSUME NEW coins, CoinList(coins), NEW amount \in Nat, NEW rate \in Nat,
         NEW S \in SUBSET (DOMAIN coins), Affords(coins, S, amount, rate)
  PROVE  LET out == BtcOutcome(coins, S, amount, rate)
             size == EstimateTxSize(Cardinality(S), IF out.change = 0 THEN 1 ELSE 2)
         IN /\ out.error = FALSE /\ out.inputs = S
            /\ TotalOf(coins, S) = amount + out.change + out.fee
            /\ out.change = 0 \/ out.change > DUST_LIMIT
            /\ out.fee >= size * rate
<1> DEFINE n == Cardinality(S)
           total == TotalOf(coins, S)
           fee == EstimateTxSize(n, 2) * rate
           change == total - amount - fee
           out == BtcOutcome(coins, S, amount, rate)
<1>1. n \in Nat /\ total \in Nat
  BY TotalType
<1>2. EstimateTxSize(n, 2) \in Nat /\ EstimateTxSize(n, 1) \in Nat
      /\ EstimateTxSize(n, 2) = EstimateTxSize(n, 1) + 31
  BY <1>1 DEF EstimateTxSize
<1>3. fee \in Nat /\ EstimateTxSize(n, 1) * rate \in Nat /\ fee = EstimateTxSize(n, 1) * rate + 31 * rate
  BY <1>2
<1>4. total >= amount + fee
  BY DEF Affords
<1>5. CASE change > DUST_LIMIT
  <2>1. out = [error |-> FALSE, inputs |-> S, change |-> change, fee |-> fee]
    BY <1>5 DEF BtcOutcome
  <2>2. out.error = FALSE /\ out.inputs = S /\ out.change = change /\ out.fee = fee
    BY <2>1
  <2> HIDE DEF out, n, total, fee
  <2>3. change # 0
    BY <1>1, <1>3, <1>5 DEF DUST_LIMIT
  <2>4. total = amount + out.change + out.fee
    BY <1>1, <1>3, <2>2
  <2>5. out.fee >= EstimateTxSize(n, IF out.change = 0 THEN 1 ELSE 2) * rate
    BY <1>3, <2>2, <2>3 DEF fee
  <2> QED
    BY <1>5, <2>2, <2>4, <2>5 DEF out, n, total
<1>6. CASE ~(change > DUST_LIMIT)
  <2>1. out = [error |-> FALSE, inputs |-> S, change |-> 0, fee |-> fee + change]
    BY <1>6 DEF BtcOutcome
  <2>2. out.error = FALSE /\ out.inputs = S /\ out.change = 0 /\ out.fee = fee + change
    BY <2>1
  <2> HIDE DEF out, n, total, fee
  <2>4. total = amount + out.change + out.fee
    BY <1>1, <1>3, <2>2
  <2>5. out.fee >= EstimateTxSize(n, 1) * rate
    BY <1>1, <1>3, <1>4, <2>2
  <2>6. out.fee >= EstimateTxSize(n, IF out.change = 0 THEN 1 ELSE 2) * rate
    BY <2>2, <2>5
  <2> QED
    BY <2>2, <2>4, <2>6 DEF out, n, total
<1> QED
  BY <1>5, <1>6

(* What buildTransaction answers.                                           *)
LEMMA BtcAnswer ==
  ASSUME NEW coins, CoinList(coins), NEW amount \in Nat, NEW rate \in Nat
  PROVE  LET out == BuildTransaction(coins, amount, rate)
             funded == \E S \in SUBSET (DOMAIN coins) : S # {} /\ Affords(coins, S, amount, rate)
             size == EstimateTxSize(Cardinality(out.inputs), IF out.change = 0 THEN 1 ELSE 2)
         IN /\ out.error = ~funded
            /\ funded =>
                 /\ out.inputs # {} /\ out.inputs \subseteq DOMAIN coins
                 /\ TotalOf(coins, out.inputs) = amount + out.change + out.fee
                 /\ out.change = 0 \/ out.change > DUST_LIMIT
                 /\ out.fee >= size * rate
<1> DEFINE enough == {S \in Taken(coins) : Affords(coins, S, amount, rate)}
           first == CHOOSE S \in enough : \A T \in enough : S \subseteq T
           out == BuildTransaction(coins, amount, rate)
           funded == \E S \in SUBSET (DOMAIN coins) : S # {} /\ Affords(coins, S, amount, rate)
<1>1. funded <=> enough # {}
  BY FindsFunds
<1>2. CASE enough = {}
  <2>1. out = Error
    BY <1>2 DEF BuildTransaction
  <2>2. out.error = TRUE
    BY <2>1 DEF Error
  <2> HIDE DEF funded, out
  <2>3. ~funded
    BY <1>1, <1>2
  <2> QED
    BY <2>2, <2>3 DEF funded, out
<1>3. CASE enough # {}
  <2>1. out = BtcOutcome(coins, first, amount, rate)
    BY <1>3 DEF BuildTransaction
  <2>2. enough \subseteq Taken(coins)
    OBVIOUS
  <2>3. \E S \in enough : \A T \in enough : S \subseteq T
    <3> HIDE DEF enough
    <3> QED
      BY <1>3, <2>2, FirstRound
  <2>4. first \in enough
    <3> HIDE DEF enough
    <3> QED
      BY <2>3
  <2>5. first \in Taken(coins) /\ Affords(coins, first, amount, rate)
    BY <2>4
  <2> HIDE DEF first, enough, funded, out
  <2>6. first \in SUBSET (DOMAIN coins) /\ first # {}
    BY <2>5 DEF Taken
  <2>7. LET o == BtcOutcome(coins, first, amount, rate)
        IN /\ o.error = FALSE /\ o.inputs = first
           /\ TotalOf(coins, first) = amount + o.change + o.fee
           /\ o.change = 0 \/ o.change > DUST_LIMIT
           /\ o.fee >= EstimateTxSize(Cardinality(first), IF o.change = 0 THEN 1 ELSE 2) * rate
    BY <2>5, <2>6, OutcomeBalances
  <2>8. /\ out.error = FALSE /\ out.inputs = first
        /\ TotalOf(coins, first) = amount + out.change + out.fee
        /\ out.change = 0 \/ out.change > DUST_LIMIT
        /\ out.fee >= EstimateTxSize(Cardinality(first), IF out.change = 0 THEN 1 ELSE 2) * rate
    BY <2>1, <2>7
  <2>9. funded
    BY <1>1, <1>3
  <2> QED
    BY <2>6, <2>8, <2>9 DEF out, funded
<1> QED
  BY <1>2, <1>3

-----------------------------------------------------------------------------
(* The PSBT that moves runes.                                               *)

(* The runes of coins are a sum. *)
LEMMA RunesIsSum ==
  ASSUME NEW coins
  PROVE  Runes(coins) = SumOver([i \in DOMAIN coins |-> coins[i].runes], DOMAIN coins)
BY DEF Runes, SumOver

(* What the PSBT is given, the fee coin aside.                              *)
RuneCoins(coins) ==
  /\ IsFiniteSet(DOMAIN coins) /\ 0 \notin DOMAIN coins
  /\ \A i \in DOMAIN coins : coins[i].value \in Nat /\ coins[i].runes \in Nat

(* The fee coin adds its value to that of the rune coins.                   *)
LEMMA InputsAddUp ==
  ASSUME NEW satCoin, NEW coins, RuneCoins(coins), satCoin.value \in Nat, satCoin.runes = 0
  PROVE  /\ Total(PsbtInputs(satCoin, coins)) = satCoin.value + Total(coins)
         /\ Runes(PsbtInputs(satCoin, coins)) = Runes(coins)
         /\ Total(coins) \in Nat /\ Runes(coins) \in Nat
<1> DEFINE D == DOMAIN coins
           all == PsbtInputs(satCoin, coins)
           f == [i \in D |-> coins[i].value]
           g == [i \in D |-> coins[i].runes]
           F == [i \in D \cup {0} |-> all[i].value]
           G == [i \in D \cup {0} |-> all[i].runes]
<1>1. IsFiniteSet(D) /\ 0 \notin D /\ \A i \in D : f[i] \in Nat /\ g[i] \in Nat
  BY DEF RuneCoins
<1>2. DOMAIN all = D \cup {0} /\ all[0] = satCoin /\ \A i \in D : all[i] = coins[i]
  BY <1>1 DEF PsbtInputs
<1>3. \A i \in D : F[i] = f[i] /\ G[i] = g[i]
  BY <1>2
<1>4. F[0] = satCoin.value /\ G[0] = 0
  BY <1>2
<1>5. Total(all) = SumOver(F, D \cup {0}) /\ Runes(all) = SumOver(G, D \cup {0})
  BY <1>2, RunesIsSum, TotalIsSum DEF Total
<1>6. Total(coins) = SumOver(f, D) /\ Runes(coins) = SumOver(g, D)
  BY RunesIsSum, TotalIsSum DEF Total
<1> HIDE DEF D, all, f, g, F, G
<1>7. SumOver(F, D) = SumOver(f, D) /\ SumOver(G, D) = SumOver(g, D)
  BY <1>1, <1>3, SumEqual
<1>8. SumOver(f, D) \in Nat /\ SumOver(g, D) \in Nat
  BY <1>1, SumType
<1>9. /\ SumOver(F, D \cup {0}) = SumOver(F, D) + F[0]
      /\ SumOver(G, D \cup {0}) = SumOver(G, D) + G[0]
  BY <1>1, <1>3, <1>4, SumAdd
<1> QED
  BY <1>4, <1>5, <1>6, <1>7, <1>8, <1>9 DEF all

(* Sets of positions are finite. *)
LEMMA SmallSets == IsFiniteSet({1, 2}) /\ IsFiniteSet({1, 2, 3})
<1>1. IsFiniteSet({1} \cup {2})
  BY FS_Singleton, FS_AddElement
<1>2. IsFiniteSet(({1} \cup {2}) \cup {3})
  BY <1>1, FS_AddElement
<1>3. {1} \cup {2} = {1, 2} /\ ({1} \cup {2}) \cup {3} = {1, 2, 3}
  OBVIOUS
<1> QED
  BY <1>1, <1>2, <1>3

(* The outputs, added up one by one.                                        *)
LEMMA OutputsAddUp ==
  ASSUME NEW change \in Int
  PROVE  Total(PsbtOutputs(change)) =
           IF change >= DUST_LIMIT THEN RUNE_RETURN_SATS + RECIPIENT_SATS + change
           ELSE RUNE_RETURN_SATS + RECIPIENT_SATS
<1> DEFINE outs == PsbtOutputs(change)
           f == [i \in DOMAIN outs |-> outs[i].value]
<1>1. Total(outs) = SumOver(f, DOMAIN outs)
  BY TotalIsSum DEF Total
<1>2. /\ {1, 2} = 1 .. 2 /\ {1, 2, 3} = 1 .. 3
      /\ {1, 2} \cup {3} = 1 .. 3 /\ {1, 2, 3} \cup {4} = 1 .. 4
  OBVIOUS
<1>3. CASE change >= DUST_LIMIT
  <2>1. DOMAIN outs = 1 .. 4
    BY <1>3 DEF PsbtOutputs
  <2>2. f[1] = RUNE_RETURN_SATS /\ f[2] = RECIPIENT_SATS /\ f[3] = change /\ f[4] = 0
    BY <1>3, <2>1 DEF PsbtOutputs
  <2>3. f[1] \in Nat /\ f[2] \in Nat /\ f[3] \in Nat /\ f[4] \in Nat
    BY <1>3, <2>2 DEF RUNE_RETURN_SATS, RECIPIENT_SATS, DUST_LIMIT
  <2> HIDE DEF f, outs
  <2>4. SumOver(f, {1, 2}) = f[1] + f[2]
    <3>1. 1 # 2
      OBVIOUS
    <3> QED
      BY <2>3, <3>1, SumTwo
  <2>5. IsFiniteSet({1, 2}) /\ IsFiniteSet({1, 2, 3})
    BY SmallSets
  <2>6. SumOver(f, {1, 2} \cup {3}) = SumOver(f, {1, 2}) + f[3]
    <3>1. (\A i \in {1, 2} : f[i] \in Nat) /\ 3 \notin {1, 2}
      BY <2>3
    <3> QED
      BY <2>3, <2>5, <3>1, SumAdd
  <2>7. SumOver(f, {1, 2, 3} \cup {4}) = SumOver(f, {1, 2, 3}) + f[4]
    <3>1. (\A i \in {1, 2, 3} : f[i] \in Nat) /\ 4 \notin {1, 2, 3}
      BY <2>3
    <3> QED
      BY <2>3, <2>5, <3>1, SumAdd
  <2>8. {1, 2} \cup {3} = {1, 2, 3}
    OBVIOUS
  <2> QED
    BY <1>1, <1>2, <1>3, <2>1, <2>2, <2>3, <2>4, <2>6, <2>7, <2>8
       DEF outs, RUNE_RETURN_SATS, RECIPIENT_SATS
<1>4. CASE ~(change >= DUST_LIMIT)
  <2>1. DOMAIN outs = 1 .. 3
    BY <1>4 DEF PsbtOutputs
  <2>2. f[1] = RUNE_RETURN_SATS /\ f[2] = RECIPIENT_SATS /\ f[3] = 0
    BY <1>4, <2>1 DEF PsbtOutputs
  <2>3. f[1] \in Nat /\ f[2] \in Nat /\ f[3] \in Nat
    BY <2>2 DEF RUNE_RETURN_SATS, RECIPIENT_SATS
  <2> HIDE DEF f, outs
  <2>4. SumOver(f, {1, 2}) = f[1] + f[2]
    <3>1. 1 # 2
      OBVIOUS
    <3> QED
      BY <2>3, <3>1, SumTwo
  <2>5. IsFiniteSet({1, 2})
    BY SmallSets
  <2>6. SumOver(f, {1, 2} \cup {3}) = SumOver(f, {1, 2}) + f[3]
    <3>1. (\A i \in {1, 2} : f[i] \in Nat) /\ 3 \notin {1, 2}
      BY <2>3
    <3> QED
      BY <2>3, <2>5, <3>1, SumAdd
  <2> QED
    BY <1>1, <1>2, <1>4, <2>1, <2>2, <2>3, <2>4, <2>6 DEF outs, RUNE_RETURN_SATS, RECIPIENT_SATS
<1> QED
  BY <1>3, <1>4

(* What buildRunesPsbt answers.                                             *)
LEMMA PsbtAnswer ==
  ASSUME NEW satCoin, NEW coins, RuneCoins(coins), satCoin.value \in Nat, satCoin.runes = 0,
         NEW amount \in Nat
  PROVE  LET out == BuildRunesPsbt(satCoin, coins, amount)
             last == Len(out.outputs)
         IN /\ \A i \in 1 .. last :
                 /\ (out.outputs[i].to = "runestone") = (i = last)
                 /\ i < last => out.outputs[i].value >= DUST_LIMIT
                 /\ RunesAt(out, i) =
                      CASE out.outputs[i].to = "recipient" -> amount
                        [] out.outputs[i].to = "mint"      -> Runes(coins) - amount
                        [] OTHER                           -> 0
            /\ FeeCoin(satCoin) /\ (\E i \in DOMAIN coins : coins[i].value >= RUNE_RETURN_SATS)
                 => Total(out.inputs) - Total(out.outputs) = FEE
<1> DEFINE change == satCoin.value + Total(coins) - (FEE + RECIPIENT_SATS + RUNE_RETURN_SATS)
           out == BuildRunesPsbt(satCoin, coins, amount)
           inputs == PsbtInputs(satCoin, coins)
           outs == PsbtOutputs(change)
           last == Len(outs)
<1>1. out.inputs = inputs /\ out.outputs = outs /\ out.edict = PsbtEdict(amount)
  BY DEF BuildRunesPsbt
<1>2. /\ Total(inputs) = satCoin.value + Total(coins) /\ Runes(inputs) = Runes(coins)
      /\ Total(coins) \in Nat /\ Runes(coins) \in Nat
  BY InputsAddUp
<1>3. change \in Int
  BY <1>2 DEF FEE, RECIPIENT_SATS, RUNE_RETURN_SATS
<1> HIDE DEF change, out, inputs
<1>4. ASSUME NEW i \in 1 .. last
      PROVE  /\ (outs[i].to = "runestone") = (i = last)
             /\ i < last => outs[i].value >= DUST_LIMIT
             /\ (outs[i].to = "recipient") = (i = 2)
             /\ (outs[i].to = "mint") = (i = 1)
  <2>1. CASE change >= DUST_LIMIT
    <3>1. outs = <<[to |-> "mint", value |-> RUNE_RETURN_SATS],
                   [to |-> "recipient", value |-> RECIPIENT_SATS],
                   [to |-> "fees", value |-> change], [to |-> "runestone", value |-> 0]>>
      BY <2>1 DEF PsbtOutputs
    <3> HIDE DEF outs
    <3>2. last = 4
      BY <3>1
    <3>3. i \in {1, 2, 3, 4}
      BY <3>2
    <3>4. /\ outs[1].to = "mint" /\ outs[2].to = "recipient" /\ outs[3].to = "fees"
          /\ outs[4].to = "runestone" /\ outs[1].value = RUNE_RETURN_SATS
          /\ outs[2].value = RECIPIENT_SATS /\ outs[3].value = change
      BY <3>1
    <3> HIDE DEF last
    <3> QED
      BY <2>1, <3>2, <3>3, <3>4 DEF RUNE_RETURN_SATS, RECIPIENT_SATS, DUST_LIMIT
  <2>2. CASE ~(change >= DUST_LIMIT)
    <3>1. outs = <<[to |-> "mint", value |-> RUNE_RETURN_SATS],
                   [to |-> "recipient", value |-> RECIPIENT_SATS],
                   [to |-> "runestone", value |-> 0]>>
      BY <2>2 DEF PsbtOutputs
    <3> HIDE DEF outs
    <3>2. last = 3
      BY <3>1
    <3>3. i \in {1, 2, 3}
      BY <3>2
    <3>4. /\ outs[1].to = "mint" /\ outs[2].to = "recipient" /\ outs[3].to = "runestone"
          /\ outs[1].value = RUNE_RETURN_SATS /\ outs[2].value = RECIPIENT_SATS
      BY <3>1
    <3> HIDE DEF last
    <3> QED
      BY <3>2, <3>3, <3>4 DEF RUNE_RETURN_SATS, RECIPIENT_SATS, DUST_LIMIT
  <2> QED
    BY <2>1, <2>2
<1>5. ASSUME NEW i \in 1 .. last
      PROVE  RunesAt(out, i) = CASE outs[i].to = "recipient" -> amount
                                 [] outs[i].to = "mint"      -> Runes(coins) - amount
                                 [] OTHER                    -> 0
  <2>1. (outs[i].to = "recipient") = (i = 2) /\ (outs[i].to = "mint") = (i = 1)
    BY <1>4
  <2>2. Runes(out.inputs) = Runes(coins)
    BY <1>1, <1>2
  <2>3. out.edict.amount = amount /\ out.edict.output + 1 = 2
    BY <1>1 DEF PsbtEdict
  <2>4. RunesAt(out, i) = (IF i = 2 THEN amount ELSE 0) + (IF i = 1 THEN Runes(coins) - amount ELSE 0)
    BY <2>2, <2>3 DEF RunesAt
  <2>5. Runes(coins) \in Nat
    BY <1>2
  <2> HIDE DEF outs, last
  <2>6. CASE i = 1
    BY <2>1, <2>4, <2>5, <2>6
  <2>7. CASE i = 2
    BY <2>1, <2>4, <2>5, <2>7
  <2>8. CASE i # 1 /\ i # 2
    BY <2>1, <2>4, <2>5, <2>8
  <2> QED
    BY <2>6, <2>7, <2>8
<1>6. ASSUME FeeCoin(satCoin), NEW i \in DOMAIN coins, coins[i].value >= RUNE_RETURN_SATS
      PROVE  Total(inputs) - Total(outs) = FEE
  <2> DEFINE f == [j \in DOMAIN coins |-> coins[j].value]
  <2>1. Total(coins) = SumOver(f, DOMAIN coins)
    BY TotalIsSum DEF Total
  <2>2. \A j \in DOMAIN coins : f[j] \in Nat
    BY DEF RuneCoins
  <2>3. IsFiniteSet(DOMAIN coins) /\ f[i] >= RUNE_RETURN_SATS
    BY <1>6 DEF RuneCoins
  <2> HIDE DEF f
  <2>4. SumOver(f, DOMAIN coins) = f[i] + SumOver(f, DOMAIN coins \ {i})
    BY <2>2, <2>3, SumRemove
  <2>5. SumOver(f, DOMAIN coins \ {i}) \in Nat
    BY <2>2, <2>3, SumType, FS_RemoveElement
  <2>6. Total(coins) >= 10000
    BY <2>1, <2>2, <2>3, <2>4, <2>5 DEF RUNE_RETURN_SATS
  <2>7. satCoin.value >= 12000
    BY <1>6 DEF FeeCoin, MIN_SAT_UTXO
  <2>8. change >= DUST_LIMIT /\ change = satCoin.value + Total(coins) - 21000
    BY <1>2, <2>6, <2>7 DEF change, FEE, RECIPIENT_SATS, RUNE_RETURN_SATS, DUST_LIMIT
  <2>9. Total(outs) = RUNE_RETURN_SATS + RECIPIENT_SATS + change
    BY <1>3, <2>8, OutputsAddUp
  <2> HIDE DEF outs, last
  <2> QED
    BY <1>2, <1>3, <2>8, <2>9 DEF FEE, RECIPIENT_SATS, RUNE_RETURN_SATS
<1> HIDE DEF outs
<1> QED
  BY <1>1, <1>4, <1>5, <1>6 DEF out, inputs, outs

(* Who answers a call for a withdrawal. *)
LEMMA PaymentsAnswer ==
  ASSUME CallsNext
  PROVE  /\ call.fn = "btc" => WithdrawBtc
         /\ call.fn = "psbt" => WithdrawRunes
  BY DEF CallsNext, WithdrawBtc, WithdrawRunes, ReadInvoice, ReadPayment, ReadRunestone,
         SplitChange, ChargeInputs, SignAndVerify, CheckLocks, SignRunes, SignBtc, Return

(* The answer is the function's value.                                      *)
PaymentsInv ==
  /\ CallIsMade
  /\ \A a \in Arguments["btc"] :
       Answered("btc") /\ call.args = a => answer = BuildTransaction(a.coins, a.amount, a.rate)
  /\ \A a \in Arguments["psbt"] :
       Answered("psbt") /\ call.args = a => answer = BuildRunesPsbt(a.satCoin, a.runeCoins, a.amount)

(* An answer once given stays the value of the function. *)
LEMMA PaymentsStep == PaymentsInv /\ [CallsNext]_callVars => PaymentsInv'
<1> SUFFICES ASSUME PaymentsInv, [CallsNext]_callVars PROVE PaymentsInv'
  OBVIOUS
<1>1. CallIsMade' /\ call' = call /\ (answer' = answer \/ answer = NoAnswer)
  BY CallsStep DEF PaymentsInv
<1>2. ASSUME NEW a \in Arguments["btc"], call.fn = "btc", call.args = a, answer' # NoAnswer
      PROVE  answer' = BuildTransaction(a.coins, a.amount, a.rate)
  <2>1. CASE answer' = answer
    BY <1>2, <2>1 DEF PaymentsInv, Answered
  <2>2. CASE answer' # answer
    <3>1. WithdrawBtc
      BY <1>2, <2>2, PaymentsAnswer DEF callVars
    <3> QED
      BY <1>2, <3>1 DEF WithdrawBtc, Return
  <2> QED
    BY <2>1, <2>2
<1>3. ASSUME NEW a \in Arguments["psbt"], call.fn = "psbt", call.args = a, answer' # NoAnswer
      PROVE  answer' = BuildRunesPsbt(a.satCoin, a.runeCoins, a.amount)
  <2>1. CASE answer' = answer
    BY <1>3, <2>1 DEF PaymentsInv, Answered
  <2>2. CASE answer' # answer
    <3>1. WithdrawRunes
      BY <1>3, <2>2, PaymentsAnswer DEF callVars
    <3> QED
      BY <1>3, <3>1 DEF WithdrawRunes, Return
  <2> QED
    BY <2>1, <2>2
<1> QED
  BY <1>1, <1>2, <1>3 DEF PaymentsInv, Answered

(* Whatever coins there are, the loop over the largest first finds those    *)
(* that pay if any do, although each costs a fee of its own; what a         *)
(* withdrawal spends is what it pays, and its outputs are worth relaying    *)
(* (buildTransaction, buildRunesPsbt).                                      *)
THEOREM TransactionsCorrect == CallsSpec => []TransactionsBalance
<1>1. CallsInit => PaymentsInv
  BY CallsStart DEF PaymentsInv, Answered
<1>2. PaymentsInv => TransactionsBalance
  <2> SUFFICES ASSUME PaymentsInv PROVE TransactionsBalance
    OBVIOUS
  <2>1. ASSUME Answered("btc")
        PROVE  BtcFindsFunds /\ BtcBalances
    <3> DEFINE a == call.args
    <3>1. a \in Arguments["btc"] /\ answer = BuildTransaction(a.coins, a.amount, a.rate)
      BY <2>1 DEF PaymentsInv, CallIsMade, Answered
    <3>2. CoinList(a.coins) /\ a.amount \in Nat /\ a.rate \in Nat
      BY <3>1, ArgumentsAssumption DEF CoinList
    <3> QED
      BY <3>1, <3>2, BtcAnswer DEF BtcFindsFunds, BtcBalances
  <2>2. ASSUME Answered("psbt")
        PROVE  PsbtBalances
    <3> DEFINE a == call.args
    <3>1. a \in Arguments["psbt"] /\ answer = BuildRunesPsbt(a.satCoin, a.runeCoins, a.amount)
      BY <2>2 DEF PaymentsInv, CallIsMade, Answered
    <3>2. RuneCoins(a.runeCoins) /\ a.satCoin.value \in Nat /\ a.satCoin.runes = 0 /\ a.amount \in Nat
      BY <3>1, ArgumentsAssumption DEF RuneCoins
    <3> QED
      BY <3>1, <3>2, PsbtAnswer DEF PsbtBalances
  <2> QED
    BY <2>1, <2>2 DEF TransactionsBalance, BtcFindsFunds, BtcBalances, PsbtBalances
<1> QED
  BY <1>1, <1>2, PaymentsStep, PTL DEF CallsSpec

-----------------------------------------------------------------------------
(* Change and fees.                                                         *)

(* Who answers a call for change or a fee. *)
LEMMA ChangeAnswer ==
  ASSUME CallsNext
  PROVE  /\ call.fn = "change" => SplitChange
         /\ call.fn = "fees" => ChargeInputs
  BY DEF CallsNext, WithdrawBtc, WithdrawRunes, ReadInvoice, ReadPayment, ReadRunestone,
         SplitChange, ChargeInputs, SignAndVerify, CheckLocks, SignRunes, SignBtc, Return

(* The answer is the function's value, for change and for fees.             *)
ChangeInv ==
  /\ CallIsMade
  /\ \A a \in Arguments["change"] :
       Answered("change") /\ call.args = a => answer = ChangeOutputs(a.blanks, a.amount)
  /\ \A a \in Arguments["fees"] :
       Answered("fees") /\ call.args = a => answer = CalculateInputFees(a.ppks)

(* An answer once given stays the value of the function. *)
LEMMA ChangeStep == ChangeInv /\ [CallsNext]_callVars => ChangeInv'
<1> SUFFICES ASSUME ChangeInv, [CallsNext]_callVars PROVE ChangeInv'
  OBVIOUS
<1>1. CallIsMade' /\ call' = call /\ (answer' = answer \/ answer = NoAnswer)
  BY CallsStep DEF ChangeInv
<1>2. ASSUME NEW a \in Arguments["change"], call.fn = "change", call.args = a, answer' # NoAnswer
      PROVE  answer' = ChangeOutputs(a.blanks, a.amount)
  <2>1. CASE answer' = answer
    BY <1>2, <2>1 DEF ChangeInv, Answered
  <2>2. CASE answer' # answer
    <3>1. SplitChange
      BY <1>2, <2>2, ChangeAnswer DEF callVars
    <3> QED
      BY <1>2, <3>1 DEF SplitChange, Return
  <2> QED
    BY <2>1, <2>2
<1>3. ASSUME NEW a \in Arguments["fees"], call.fn = "fees", call.args = a, answer' # NoAnswer
      PROVE  answer' = CalculateInputFees(a.ppks)
  <2>1. CASE answer' = answer
    BY <1>3, <2>1 DEF ChangeInv, Answered
  <2>2. CASE answer' # answer
    <3>1. ChargeInputs
      BY <1>3, <2>2, ChangeAnswer DEF callVars
    <3> QED
      BY <1>3, <3>1 DEF ChargeInputs, Return
  <2> QED
    BY <2>1, <2>2
<1> QED
  BY <1>1, <1>2, <1>3 DEF ChangeInv, Answered

(* Whatever is due and however many blank outputs a wallet sent, the change *)
(* is made of a keyset's denominations, never more than due, and all of it  *)
(* with as many outputs as the wallet computes; the fee of any inputs is    *)
(* rounded up once (signChangeOutputs, calculateInputFees).                 *)
THEOREM ChangeCorrect == CallsSpec => []ChangeAddsUp
<1>1. CallsInit => ChangeInv
  BY CallsStart DEF ChangeInv, Answered
<1>2. ChangeInv => ChangeAddsUp
  <2> SUFFICES ASSUME ChangeInv PROVE ChangeAddsUp
    OBVIOUS
  <2> DEFINE a == call.args
             lost == a.amount - SumOf(answer)
  <2>1. ASSUME Answered("change")
        PROVE  /\ Len(answer) <= a.blanks
               /\ a.amount < PowerOfTwo[24] => ToSet(answer) \subseteq Denominations
               /\ lost >= 0
               /\ \A d \in ToSet(answer) : lost < d
               /\ a.blanks >= Blanks(a.amount) => lost = 0
    <3>1. a \in Arguments["change"] /\ answer = ChangeOutputs(a.blanks, a.amount)
      BY <2>1 DEF ChangeInv, CallIsMade, Answered
    <3>2. a.blanks \in Nat /\ a.amount \in Nat
      BY <3>1, ArgumentsAssumption
    <3> HIDE DEF a
    <3> QED
      BY <3>1, <3>2, ChangeIs
  <2>2. ASSUME Answered("fees")
        PROVE  answer * 1000 - SumOf(a.ppks) \in 0 .. 999
    <3> DEFINE sum == SumOf(a.ppks)
    <3>1. a \in Arguments["fees"] /\ answer = CalculateInputFees(a.ppks)
      BY <2>2 DEF ChangeInv, CallIsMade, Answered
    <3>2. sum \in Nat
      BY <3>1, ArgumentsAssumption, SumOfIs
    <3>3. answer = (sum + 999) \div 1000
      BY <3>1 DEF CalculateInputFees
    <3> HIDE DEF sum
    <3>4. answer * 1000 - sum \in 0 .. 999
      BY <3>2, <3>3
    <3> QED
      BY <3>4 DEF sum
  <2> QED
    BY <2>1, <2>2 DEF ChangeAddsUp
<1> QED
  BY <1>1, <1>2, ChangeStep, PTL DEF CallsSpec

-----------------------------------------------------------------------------
(* Invoices and runestones.                                                 *)

(* Who answers a call to read. *)
LEMMA CodecsAnswer ==
  ASSUME CallsNext
  PROVE  /\ call.fn = "pay" => ReadPayment
         /\ call.fn = "invoice" => ReadInvoice
         /\ call.fn = "runestone" => ReadRunestone
  BY DEF CallsNext, WithdrawBtc, WithdrawRunes, ReadInvoice, ReadPayment, ReadRunestone,
         SplitChange, ChargeInputs, SignAndVerify, CheckLocks, SignRunes, SignBtc, Return

(* The answer is what the reader finds in what the writer wrote.            *)
CodecsInv ==
  /\ CallIsMade
  /\ \A a \in Arguments["pay"] :
       Answered("pay") /\ call.args = a => answer = DecodeBolt11AmountSats(a)
  /\ \A a \in Arguments["invoice"] :
       Answered("invoice") /\ call.args = a => answer = [satoshis |-> ParsePrefix(SatoshisToHrp(a.satoshis)),
                                           tags |-> DecodeTags(EncodeTags(a.tags), KnownTags)]
  /\ \A a \in Arguments["runestone"] :
       Answered("runestone") /\ call.args = a => answer = DecodeRunestone(EncodeRunestone(a.edicts))

(* An answer once given stays the value of the function. *)
LEMMA CodecsStep == CodecsInv /\ [CallsNext]_callVars => CodecsInv'
<1> SUFFICES ASSUME CodecsInv, [CallsNext]_callVars PROVE CodecsInv'
  OBVIOUS
<1>1. CallIsMade' /\ call' = call /\ (answer' = answer \/ answer = NoAnswer)
  BY CallsStep DEF CodecsInv
<1>2. ASSUME NEW a \in Arguments["pay"], call.fn = "pay", call.args = a, answer' # NoAnswer
      PROVE  answer' = DecodeBolt11AmountSats(a)
  <2>1. CASE answer' = answer
    BY <1>2, <2>1 DEF CodecsInv, Answered
  <2>2. CASE answer' # answer
    <3>1. ReadPayment
      BY <1>2, <2>2, CodecsAnswer DEF callVars
    <3> QED
      BY <1>2, <3>1 DEF ReadPayment, Return
  <2> QED
    BY <2>1, <2>2
<1>3. ASSUME NEW a \in Arguments["invoice"], call.fn = "invoice", call.args = a, answer' # NoAnswer
      PROVE  answer' = [satoshis |-> ParsePrefix(SatoshisToHrp(a.satoshis)),
                                           tags |-> DecodeTags(EncodeTags(a.tags), KnownTags)]
  <2>1. CASE answer' = answer
    BY <1>3, <2>1 DEF CodecsInv, Answered
  <2>2. CASE answer' # answer
    <3>1. ReadInvoice
      BY <1>3, <2>2, CodecsAnswer DEF callVars
    <3> QED
      BY <1>3, <3>1 DEF ReadInvoice, Return
  <2> QED
    BY <2>1, <2>2
<1>4. ASSUME NEW a \in Arguments["runestone"], call.fn = "runestone", call.args = a, answer' # NoAnswer
      PROVE  answer' = DecodeRunestone(EncodeRunestone(a.edicts))
  <2>1. CASE answer' = answer
    BY <1>4, <2>1 DEF CodecsInv, Answered
  <2>2. CASE answer' # answer
    <3>1. ReadRunestone
      BY <1>4, <2>2, CodecsAnswer DEF callVars
    <3> QED
      BY <1>4, <3>1 DEF ReadRunestone, Return
  <2> QED
    BY <2>1, <2>2
<1> QED
  BY <1>1, <1>2, <1>3, <1>4 DEF CodecsInv, Answered

(* What an invoice or a runestone is made from is what its reader finds:    *)
(* the amount, the fields with a known code, in their order and whole, and  *)
(* the edicts with ids that are written as differences; an amount is never  *)
(* read as another (bolt11.ts, MeltService, runestone-encoder.ts).          *)
THEOREM CodecsCorrect == CallsSpec => []CodecsRoundTrip
<1>1. CallsInit => CodecsInv
  BY CallsStart DEF CodecsInv, Answered
<1>2. CodecsInv => CodecsRoundTrip
  <2> SUFFICES ASSUME CodecsInv PROVE CodecsRoundTrip
    OBVIOUS
  <2> DEFINE a == call.args
             hrp == SatoshisToHrp(a.satoshis)
  <2>1. ASSUME Answered("pay"), answer # NotWhole
        PROVE  IF a.unit = "p" THEN answer * Satoshi * 10 = a.number
               ELSE answer * Satoshi = a.number * Millis[a.unit]
    <3>1. a \in Arguments["pay"] /\ answer = DecodeBolt11AmountSats(a)
      BY <2>1 DEF CodecsInv, CallIsMade, Answered
    <3>2. a.unit \in {"bitcoin", "m", "u", "n", "p"} /\ a.number \in Nat
      BY <3>1, ArgumentsAssumption
    <3> HIDE DEF a
    <3> QED
      BY <2>1, <3>1, <3>2, PaymentRead
  <2>2. ASSUME Answered("invoice")
        PROVE  /\ hrp.unit # "bitcoin" => DecodeBolt11AmountSats(hrp) = a.satoshis
               /\ answer.satoshis = a.satoshis
               /\ answer.tags = Known(a.tags)
    <3>1. /\ a \in Arguments["invoice"]
          /\ answer = [satoshis |-> ParsePrefix(SatoshisToHrp(a.satoshis)),
                       tags |-> DecodeTags(EncodeTags(a.tags), KnownTags)]
      BY <2>2 DEF CodecsInv, CallIsMade, Answered
    <3>2. a.satoshis \in Nat
      BY <3>1, ArgumentsAssumption
    <3>3. Taggable(a.tags)
      <4>1. /\ a.tags \in Seq(TagRecords)
            /\ \A i \in DOMAIN a.tags : Len(a.tags[i].data) < WordBase * WordBase
        BY <3>1, ArgumentsAssumption DEF TagRecords
      <4> QED
        BY <4>1 DEF Taggable
    <3> HIDE DEF a
    <3>4. DecodeTags(EncodeTags(a.tags), KnownTags)
            = FlattenSeq([i \in 1 .. Len(a.tags) |-> Kept(a.tags[i], KnownTags)])
      BY <3>3, TagsRead
    <3>5. answer.tags = Known(a.tags)
      BY <3>1, <3>4 DEF Known, Kept
    <3>6. ParsePrefix(hrp) = a.satoshis /\ (hrp.unit # "bitcoin" => DecodeBolt11AmountSats(hrp) = a.satoshis)
      BY <3>2, HrpRead
    <3> QED
      BY <3>1, <3>5, <3>6
  <2>3. ASSUME Answered("runestone")
        PROVE  answer = a.edicts
    <3>1. a \in Arguments["runestone"] /\ answer = DecodeRunestone(EncodeRunestone(a.edicts))
      BY <2>3 DEF CodecsInv, CallIsMade, Answered
    <3>2. Encodable(a.edicts)
      BY <3>1, ArgumentsAssumption DEF Encodable, EdictRecords
    <3> HIDE DEF a
    <3> QED
      BY <3>1, <3>2, RunestoneRead
  <2> QED
    BY <2>1, <2>2, <2>3 DEF CodecsRoundTrip
<1> QED
  BY <1>1, <1>2, CodecsStep, PTL DEF CallsSpec
================================================================================
