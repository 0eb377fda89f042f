------------------------------- MODULE Invoice -------------------------------
(***************************************************************************)
(* BOLT11 invoices: the amount in the human readable part, in the largest   *)
(* unit that divides it, and the tagged fields, each with its length in two *)
(* words.  The base of the words (32 in the code) and the units in          *)
(* millisatoshi are parameters.                                             *)
(***************************************************************************)
EXTENDS Integers, Sequences, SequencesExt

CONSTANTS
  WordBase,   \* values of a word
  Millis,     \* millisatoshis of the multipliers "bitcoin", "m", "u", "n"
  Satoshi     \* millisatoshis of a satoshi

ASSUME InvoiceAssumption ==
  /\ WordBase \in Nat /\ WordBase > 1
  /\ Millis \in [{"bitcoin", "m", "u", "n"} -> Nat \ {0}]
  /\ Satoshi \in Nat \ {0}

-----------------------------------------------------------------------------
(* The amount.                                                              *)

Fits(msat, unit) == msat % Millis[unit] = 0

(* Trailing zeros decide about the unit; a picobitcoin is a tenth of a      *)
(* millisatoshi.                                                            *)
SatoshisToHrp(satoshis) ==
  LET msat == satoshis * Satoshi
      In(unit) == [unit |-> unit, number |-> msat \div Millis[unit]]
  IN IF Fits(msat, "bitcoin") THEN In("bitcoin")
     ELSE IF Fits(msat, "m") THEN In("m")
     ELSE IF Fits(msat, "u") THEN In("u")
     ELSE IF Fits(msat, "n") THEN In("n")
     ELSE [unit |-> "p", number |-> msat * 10]

(* Any amount that names no whole satoshi is rounded down.                  *)
ParsePrefix(hrp) ==
  (IF hrp.unit = "p" THEN hrp.number \div 10 ELSE hrp.number * Millis[hrp.unit])
    \div Satoshi

(* A melt quote reads the amount by a pattern that ignores the separator: in *)
(* an invoice over whole bitcoins it takes the separator's 1 for a digit and *)
(* the first letter of the timestamp for the multiplier p.                   *)
AsMatched(hrp) == IF hrp.unit = "bitcoin" THEN [unit |-> "p", number |-> hrp.number * 10 + 1] ELSE hrp

NotWhole == 0

(* Only an amount in whole satoshis is paid.                                *)
DecodeBolt11AmountSats(hrp) ==
  LET read == AsMatched(hrp)
      pico == IF read.unit = "p" THEN read.number ELSE read.number * Millis[read.unit] * 10
  IN IF pico % (Satoshi * 10) = 0 THEN pico \div (Satoshi * 10) ELSE NotWhole

-----------------------------------------------------------------------------
(* The tagged fields.                                                       *)

WordsToInt(words) ==
  LET total[k \in 0 .. Len(words)] == IF k = 0 THEN 0 ELSE total[k - 1] * WordBase + words[k]
  IN total[Len(words)]

IntToWords(value) ==
  LET digits[n \in Nat] ==
        IF n < WordBase THEN <<n>> ELSE Append(digits[n \div WordBase], n % WordBase)
  IN digits[value]

LeftPadWords(words, length) == [i \in 1 .. length - Len(words) |-> 0] \o words

(* Mutant: a length of one word is not padded. *)
EncodeTagShort(tag) == <<tag.code>> \o IntToWords(Len(tag.data)) \o tag.data

EncodeTag(tag) ==
  <<tag.code>> \o LeftPadWords(IntToWords(Len(tag.data)), 2) \o tag.data

EncodeTags(tags) == FlattenSeq([i \in 1 .. Len(tags) |-> EncodeTag(tags[i])])

(* slice(): what lies behind the end is left out.                           *)
Slice(words, from, to) == SubSeq(words, from, IF to < Len(words) THEN to ELSE Len(words))

(* The loop over the fields; a field whose code is not known is skipped.    *)
DecodeTags(words, codes) ==
  LET from[cursor \in Nat \ {0}] ==
        IF cursor > Len(words) THEN <<>>
        ELSE LET size == WordsToInt(Slice(words, cursor + 1, cursor + 2))
                 tag == [code |-> words[cursor],
                         data |-> Slice(words, cursor + 3, cursor + 2 + size)]
             IN (IF tag.code \in codes THEN <<tag>> ELSE <<>>) \o from[cursor + 3 + size]
  IN from[1]
=============================================================================
