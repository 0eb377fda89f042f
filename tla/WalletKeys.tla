------------------------------- MODULE WalletKeys -------------------------------
(***************************************************************************)
(* Which key of the seed belongs to a coin.  A quote has an account, derived *)
(* from its id; account 0 is the mint's own.  A key stands for the address   *)
(* made of it.  The mint's addresses may also be given in the environment,   *)
(* of a wallet whose seed the mint does not have.                            *)
(***************************************************************************)
EXTENDS Naturals

CONSTANTS
  Digest,    \* [quotes -> Nat]: the first word of sha256 of the id
  MaxIndex,  \* the largest account that is not hardened
  NoQuote

ASSUME WalletKeysAssumption ==
  /\ MaxIndex \in Nat \ {0}
  /\ Digest \in [DOMAIN Digest -> Nat] /\ NoQuote \notin DOMAIN Digest

WalletKey(wallet, chain, account) == [wallet |-> wallet, chain |-> chain, account |-> account]
Taproot(account) == WalletKey("seed", "86", account)
Segwit(account) == WalletKey("seed", "84", account)

(* Account 0 is never a quote's.                                             *)
QuoteAccountIndex(q) == IF q = NoQuote THEN 0 ELSE (Digest[q] % MaxIndex) + 1

(* BTCBackend has its own rule.                                              *)
BtcQuoteAccountIndex(q) == IF q = NoQuote THEN 0 ELSE Digest[q] % (MaxIndex + 1)

DeriveQuoteTaprootAddress(q) == Taproot(QuoteAccountIndex(q))
DeriveDepositAddress(q) == Segwit(BtcQuoteAccountIndex(q))

MintAddresses(configured) ==
  IF configured
  THEN [taproot |-> WalletKey("operator", "86", 0), segwit |-> WalletKey("operator", "84", 0)]
  ELSE [taproot |-> Taproot(0), segwit |-> Segwit(0)]

-----------------------------------------------------------------------------
(* Rows of mint_utxos.  A deposit was paid to a quote's address or, by an    *)
(* older client, to the mint's.                                              *)

AccountIndexForDeposit(q, address) ==
  IF address = DeriveQuoteTaprootAddress(q) THEN QuoteAccountIndex(q) ELSE 0

(* The quote is not written; it is found through mint_deposits.              *)
TrackDepositUtxo(q, address) ==
  [address |-> address, account |-> AccountIndexForDeposit(q, address), quote |-> q]

(* A row from before accounts were recorded.                                 *)
LegacyRow(q, address) == [address |-> address, account |-> 0, quote |-> q]

(* Mutant: the account of a legacy row stays 0. *)
NormalizeKept(rows, mint) == rows

NormalizeTrackedRuneUtxos(rows, mint) ==
  LET own(r) == r.account # 0 \/ r.address = mint.taproot
      kept == {i \in DOMAIN rows : own(rows[i]) \/ rows[i].quote # NoQuote}
  IN [i \in kept |->
        IF own(rows[i]) THEN rows[i] ELSE [rows[i] EXCEPT !.account = QuoteAccountIndex(rows[i].quote)]]

-----------------------------------------------------------------------------
(* Signing.  An input whose address is not that of the key is not signed,    *)
(* and the whole withdrawal fails.                                           *)

Refused == [signed |-> FALSE, keys |-> [i \in {} |-> NoQuote]]
SignedWith(keys, addresses) ==
  IF keys = addresses THEN [signed |-> TRUE, keys |-> keys] ELSE Refused

(* Input 0 is the fee coin, the others are the rune coins.                   *)
SignRunesPsbt(mint, rows) ==
  LET inputs == {0} \cup DOMAIN rows
  IN SignedWith([i \in inputs |-> IF i = 0 THEN Segwit(0) ELSE Taproot(rows[i].account)],
                [i \in inputs |-> IF i = 0 THEN mint.segwit ELSE rows[i].address])

SignTransaction(coins) ==
  SignedWith([c \in coins |-> Segwit(c.account)], [c \in coins |-> c.address])

(* The coins on the mint's address, if the seed has its key, and those on    *)
(* the addresses of quotes, if the seed has theirs.                          *)
BtcCoins(mint, quotes) ==
  LET own == IF mint.segwit = Segwit(0) THEN {[address |-> mint.segwit, account |-> 0]} ELSE {}
      derived == {r \in quotes : r.request # mint.segwit /\ r.request = DeriveDepositAddress(r.id)}
  IN own \cup {[address |-> r.request, account |-> BtcQuoteAccountIndex(r.id)] : r \in derived}
=============================================================================
