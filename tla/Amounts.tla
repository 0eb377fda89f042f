-------------------------------- MODULE Amounts --------------------------------
(***************************************************************************)
(* Sums of ecash: change in powers of two, and input fees in parts per      *)
(* thousand of a unit.                                                      *)
(***************************************************************************)
EXTENDS Integers, Sequences, SequencesExt, FiniteSetsExt

PowerOfTwo[i \in Nat] == IF i = 0 THEN 1 ELSE 2 * PowerOfTwo[i - 1]

(* DENOMINATIONS of a keyset.                                               *)
Denominations == {PowerOfTwo[i] : i \in 0 .. 23}

SumOf(amounts) == MapThenSumSet(LAMBDA i : amounts[i], DOMAIN amounts)

(* The binary digits of the amount, the largest first.                      *)
SplitAmount(amount) ==
  LET split[loop \in [remaining : Nat, bit : Nat]] ==
        IF loop.remaining = 0 THEN <<>>
        ELSE split[[remaining |-> loop.remaining \div 2, bit |-> loop.bit * 2]]
               \o (IF loop.remaining % 2 = 1 THEN <<loop.bit>> ELSE <<>>)
  IN split[[remaining |-> amount, bit |-> 1]]

(* Mutant: the smallest denominations are signed first. *)
ChangeOutputsSmallFirst(blanks, amount) ==
  LET split == Reverse(SplitAmount(amount))
  IN SubSeq(split, 1, IF blanks < Len(split) THEN blanks ELSE Len(split))

(* As many as the wallet sent blank outputs for.                            *)
ChangeOutputs(blanks, amount) ==
  LET split == SplitAmount(amount)
  IN SubSeq(split, 1, IF blanks < Len(split) THEN blanks ELSE Len(split))

(* What a wallet sends for a fee reserve: ceil(log2), and at least one.     *)
Blanks(reserve) == CHOOSE n \in 1 .. reserve + 1 :
  PowerOfTwo[n] >= reserve /\ \A m \in 1 .. n - 1 : PowerOfTwo[m] < reserve

CalculateInputFees(ppks) == (SumOf(ppks) + 999) \div 1000
=============================================================================
