----------------------------- MODULE Codecs_proofs -----------------------------
(***************************************************************************)
(* Change, runestones and invoices, for amounts, numbers and sequences of   *)
(* any size.                                                                *)
(***************************************************************************)
EXTENDS Amounts, Runestone, Invoice, DataTheorems

(* The recursion that defines the powers of two is well-founded. *)
LEMMA PowerUnfold ==
  \A i \in Nat : PowerOfTwo[i] = IF i = 0 THEN 1 ELSE 2 * PowerOfTwo[i - 1]
<1> DEFINE Is(g) == g = [i \in Nat |-> IF i = 0 THEN 1 ELSE 2 * g[i - 1]]
           stop == {0}
           next == [i \in Nat |-> i - 1]
           size == [i \in Nat |-> i]
           base == [i \in Nat |-> 1]
           step == [i \in Nat |-> [v \in Nat |-> 2 * v]]
<1>1. Shrinks(Nat, stop, next, size)
  BY DEF Shrinks
<1>2. Stays(Nat, Nat, stop, base, step)
  BY DEF Stays
<1>3. PICK f : f \in [Nat -> Nat] /\ Follows(f, Nat, stop, next, base, step)
  <2> HIDE DEF stop, next, size, base, step
  <2> QED
    BY <1>1, <1>2, PathFunction
<1>4. Is(f)
  <2>1. \A i \in Nat : f[i] = IF i = 0 THEN 1 ELSE 2 * f[i - 1]
    <3>1. ASSUME NEW i \in Nat
          PROVE  f[i] = IF i \in stop THEN base[i] ELSE step[i][f[next[i]]]
      <4> HIDE DEF stop, next, base, step
      <4> QED
        BY <1>3 DEF Follows
    <3>2. ASSUME NEW i \in Nat, i # 0
          PROVE  i - 1 \in Nat /\ f[i - 1] \in Nat
      BY <1>3, <3>2
    <3> QED
      BY <3>1, <3>2
  <2> QED
    BY <1>3, <2>1
<1>5. PowerOfTwo = CHOOSE g : Is(g)
  BY DEF PowerOfTwo
<1>6. Is(PowerOfTwo)
  <2> HIDE DEF Is
  <2> QED
    BY <1>4, <1>5
<1> QED
  BY <1>6

(* Every power is a positive number. *)
LEMMA PowerType == \A i \in Nat : PowerOfTwo[i] \in Nat \ {0}
<1> DEFINE G == {i \in Nat : PowerOfTwo[i] \in Nat \ {0}}
<1>1. 0 \in G
  BY PowerUnfold
<1>2. \A n \in Nat : n \in G => n + 1 \in G
  BY PowerUnfold
<1>3. Nat \subseteq G
  <2> HIDE DEF G
  <2> QED
    BY <1>1, <1>2, SetInduction
<1> QED
  BY <1>3

(* The next power is twice as large. *)
LEMMA PowerNext == \A i \in Nat : PowerOfTwo[i + 1] = 2 * PowerOfTwo[i]
  BY PowerUnfold

(* The larger the exponent, the larger the power. *)
LEMMA PowerMonotone ==
  ASSUME NEW i \in Nat, NEW j \in Nat, PowerOfTwo[i] < PowerOfTwo[j]
  PROVE  i < j
<1> DEFINE G == {k \in Nat : PowerOfTwo[j + k] >= PowerOfTwo[j]}
<1>1. Nat \subseteq G
  <2>1. 0 \in G
    BY PowerType
  <2>2. ASSUME NEW k \in Nat, k \in G
        PROVE  k + 1 \in G
    <3>1. PowerOfTwo[(j + k) + 1] = 2 * PowerOfTwo[j + k]
      BY PowerNext
    <3>2. (j + k) + 1 = j + (k + 1) /\ j + k \in Nat /\ k + 1 \in Nat
      OBVIOUS
    <3>3. PowerOfTwo[j + (k + 1)] = 2 * PowerOfTwo[j + k]
      BY <3>1, <3>2
    <3>4. PowerOfTwo[j + k] \in Nat /\ PowerOfTwo[j] \in Nat
      BY <3>2, PowerType
    <3>5. PowerOfTwo[j + k] >= PowerOfTwo[j]
      BY <2>2
    <3> QED
      BY <3>2, <3>3, <3>4, <3>5
  <2> HIDE DEF G
  <2> QED
    BY <2>1, <2>2, SetInduction
<1>2. ASSUME i >= j PROVE FALSE
  <2>1. i - j \in Nat /\ j + (i - j) = i
    BY <1>2
  <2>2. PowerOfTwo[i] >= PowerOfTwo[j]
    BY <1>1, <2>1
  <2> QED
    BY <2>2, PowerType
<1> QED
  BY <1>2

-----------------------------------------------------------------------------

Loops == [remaining : Nat, bit : Nat]
Rest(n, b) == [remaining |-> n \div 2, bit |-> b * 2]
Lowest(n, b) == IF n % 2 = 1 THEN <<b>> ELSE <<>>

IsSplit(f) ==
  f = [loop \in Loops |->
         IF loop.remaining = 0 THEN <<>>
         ELSE f[Rest(loop.remaining, loop.bit)] \o Lowest(loop.remaining, loop.bit)]

Split == CHOOSE f : IsSplit(f)

(* SplitAmount by the name of its recursive function. *)
LEMMA SplitDef ==
  ASSUME NEW amount
  PROVE  SplitAmount(amount) = Split[[remaining |-> amount, bit |-> 1]]
BY DEF SplitAmount, Split, IsSplit, Loops, Rest, Lowest

(* A number is twice its half and a bit. *)
LEMMA Halves ==
  ASSUME NEW n \in Nat
  PROVE  /\ n \div 2 \in Nat /\ n % 2 \in {0, 1}
         /\ n = 2 * (n \div 2) + (n % 2)
         /\ n # 0 => n \div 2 < n
OBVIOUS

(* Every round of the loop has less left to split. *)
LEMMA SplitShrinks ==
  Shrinks(Loops, {l \in Loops : l.remaining = 0},
          [l \in Loops |-> Rest(l.remaining, l.bit)], [l \in Loops |-> l.remaining])
<1> DEFINE stop == {l \in Loops : l.remaining = 0}
           next == [l \in Loops |-> Rest(l.remaining, l.bit)]
           size == [l \in Loops |-> l.remaining]
<1>1. size \in [Loops -> Nat]
  BY DEF Loops
<1>2. ASSUME NEW l \in Loops \ stop
      PROVE  next[l] \in Loops /\ size[next[l]] < size[l]
  <2>1. l.remaining \in Nat /\ l.remaining # 0
    BY DEF Loops
  <2>2. next[l] \in Loops /\ next[l].remaining = l.remaining \div 2
    BY Halves DEF Loops, Rest
  <2> QED
    BY <2>1, <2>2, Halves
<1> QED
  BY <1>1, <1>2 DEF Shrinks

(* The recursion of SplitAmount is well-founded. *)
LEMMA SplitExists == IsSplit(Split) /\ Split \in [Loops -> Seq(Nat)]
<1> DEFINE stop == {l \in Loops : l.remaining = 0}
           next == [l \in Loops |-> Rest(l.remaining, l.bit)]
           size == [l \in Loops |-> l.remaining]
           base == [l \in Loops |-> <<>>]
           step == [l \in Loops |-> [v \in Seq(Nat) |-> v \o Lowest(l.remaining, l.bit)]]
<1>0. \A l \in Loops : /\ Rest(l.remaining, l.bit) \in Loops
                       /\ Lowest(l.remaining, l.bit) \in Seq(Nat)
  BY Halves DEF Loops, Rest, Lowest
<1>1. Shrinks(Loops, stop, next, size)
  BY SplitShrinks
<1>2. Stays(Loops, Seq(Nat), stop, base, step)
  BY <1>0 DEF Stays
<1>3. PICK f : f \in [Loops -> Seq(Nat)] /\ Follows(f, Loops, stop, next, base, step)
  <2> HIDE DEF stop, next, size, base, step
  <2> QED
    BY <1>1, <1>2, PathFunction
<1>4. IsSplit(f)
  <2>1. ASSUME NEW l \in Loops
        PROVE  f[l] = IF l.remaining = 0 THEN <<>> ELSE f[Rest(l.remaining, l.bit)] \o Lowest(l.remaining, l.bit)
    <3>1. f[Rest(l.remaining, l.bit)] \in Seq(Nat)
      BY <1>0, <1>3
    <3> QED
      BY <1>3, <3>1 DEF Follows
  <2> QED
    BY <2>1, <1>3 DEF IsSplit
<1>5. IsSplit(Split)
  BY <1>4 DEF Split
<1> DEFINE G == {l \in Loops : Split[l] \in Seq(Nat)}
<1>6. \A l \in Loops : l \in stop \/ next[l] \in G => l \in G
  <2>1. ASSUME NEW l \in Loops, l \in stop \/ next[l] \in G
        PROVE  Split[l] \in Seq(Nat)
    <3>1. Split[l] = IF l.remaining = 0 THEN <<>>
                     ELSE Split[Rest(l.remaining, l.bit)] \o Lowest(l.remaining, l.bit)
      BY <1>5 DEF IsSplit
    <3>2. CASE l.remaining = 0
      BY <3>1, <3>2
    <3>3. CASE l.remaining # 0
      <4>1. Split[Rest(l.remaining, l.bit)] \in Seq(Nat)
        BY <2>1, <3>3
      <4> QED
        BY <1>0, <3>1, <3>3, <4>1
    <3> QED
      BY <3>2, <3>3
  <2> QED
    BY <2>1
<1>7. Loops \subseteq G
  <2> HIDE DEF G, stop, next, size
  <2> QED
    BY <1>1, <1>6, PathInduction
<1> QED
  BY <1>5, <1>7 DEF IsSplit

-----------------------------------------------------------------------------
(* Sums over sequences.                                                     *)

(* The sum of numbers is a number. *)
LEMMA SumOfIs ==
  ASSUME NEW s \in Seq(Nat)
  PROVE  SumOf(s) = SumOver(s, 1 .. Len(s)) /\ SumOf(s) \in Nat
<1>1. SumOf(s) = SumOver(s, DOMAIN s)
  BY DEF SumOf, SumOver
<1>2. DOMAIN s = 1 .. Len(s) /\ Len(s) \in Nat /\ \A i \in 1 .. Len(s) : s[i] \in Nat
  OBVIOUS
<1>3. IsFiniteSet(1 .. Len(s))
  BY <1>2, FS_Interval
<1> QED
  BY <1>1, <1>2, <1>3, SumType

(* The sum of the first elements. *)
LEMMA PrefixSum ==
  ASSUME NEW s \in Seq(Nat), NEW k \in 0 .. Len(s)
  PROVE  /\ IsFiniteSet(1 .. k) /\ SumOver(s, 1 .. k) \in Nat
         /\ k < Len(s) => /\ s[k + 1] \in Nat
                          /\ SumOver(s, 1 .. k + 1) = SumOver(s, 1 .. k) + s[k + 1]
<1>1. k \in Int /\ 1 \in Int /\ Len(s) \in Nat
  OBVIOUS
<1>2. \A i \in 1 .. k : s[i] \in Nat
  BY <1>1
<1>3. IsFiniteSet(1 .. k)
  BY <1>1, FS_Interval
<1>4. SumOver(s, 1 .. k) \in Nat
  BY <1>2, <1>3, SumType
<1>5. ASSUME k < Len(s)
      PROVE  /\ s[k + 1] \in Nat
             /\ SumOver(s, 1 .. k + 1) = SumOver(s, 1 .. k) + s[k + 1]
  <2> DEFINE S == 1 .. k
             x == k + 1
  <2>1. x \notin S /\ s[x] \in Nat /\ 1 .. x = S \cup {x}
    BY <1>1, <1>5
  <2>2. IsFiniteSet(S) /\ \A i \in S : s[i] \in Nat
    BY <1>2, <1>3
  <2>3. SumOver(s, S \cup {x}) = SumOver(s, S) + s[x]
    <3> HIDE DEF S, x
    <3> QED
      BY <2>1, <2>2, SumAdd
  <2> QED
    BY <2>1, <2>3
<1> QED
  BY <1>3, <1>4, <1>5

(* What is in front of a sequence's end, and how much that is. *)
LEMMA SumExtend ==
  ASSUME NEW s \in Seq(Nat), NEW b \in Nat
  PROVE  /\ s \o <<b>> \in Seq(Nat) /\ Len(s \o <<b>>) = Len(s) + 1
         /\ (s \o <<b>>)[Len(s) + 1] = b
         /\ \A i \in 1 .. Len(s) : (s \o <<b>>)[i] = s[i]
         /\ \A k \in 0 .. Len(s) : SumOver(s \o <<b>>, 1 .. k) = SumOver(s, 1 .. k)
         /\ SumOf(s \o <<b>>) = SumOf(s) + b
<1> DEFINE t == s \o <<b>>
           n == Len(s)
<1>1. /\ t \in Seq(Nat) /\ Len(t) = n + 1 /\ t[n + 1] = b /\ n \in Nat
      /\ \A i \in 1 .. n : t[i] = s[i]
  OBVIOUS
<1>2. ASSUME NEW k \in 0 .. n
      PROVE  SumOver(t, 1 .. k) = SumOver(s, 1 .. k)
  <2>1. \A i \in 1 .. k : t[i] = s[i]
    BY <1>1
  <2>2. IsFiniteSet(1 .. k)
    BY <1>1, FS_Interval
  <2> HIDE DEF t
  <2> QED
    BY <2>1, <2>2, SumEqual
<1>3. SumOf(t) = SumOf(s) + b
  <2>1. SumOf(t) = SumOver(t, 1 .. n + 1) /\ SumOf(s) = SumOver(s, 1 .. n)
    BY <1>1, SumOfIs
  <2>2. n \in 0 .. n /\ n \in 0 .. Len(t) /\ n < Len(t)
    BY <1>1
  <2>3. SumOver(t, 1 .. n + 1) = SumOver(t, 1 .. n) + t[n + 1]
    BY <1>1, <2>2, PrefixSum
  <2> QED
    BY <1>1, <1>2, <2>1, <2>2, <2>3
<1> QED
  BY <1>1, <1>2, <1>3

-----------------------------------------------------------------------------
(* Change.                                                                  *)

(* What s is for n, in units of b: it adds up; what follows any digit is    *)
(* less than the digit, by one at least; it is no longer than n is; its     *)
(* digits are powers of two.                                                *)
IsDigits(n, b, s) ==
  /\ s \in Seq(Nat)
  /\ SumOf(s) = n * b
  /\ \A k \in 1 .. Len(s) : SumOf(s) + b <= SumOver(s, 1 .. k) + s[k]
  /\ \A m \in Nat : n < PowerOfTwo[m] => Len(s) <= m
  /\ \A m \in Nat : n = PowerOfTwo[m] => Len(s) = 1
  /\ (\E j \in Nat : b = PowerOfTwo[j]) =>
       \A k \in 1 .. Len(s) : \E i \in Nat : s[k] = PowerOfTwo[i]

(* Zero has no digits. *)
LEMMA NoDigits ==
  ASSUME NEW b \in Nat
  PROVE  IsDigits(0, b, <<>>)
<1>1. <<>> \in Seq(Nat) /\ Len(<<>>) = 0
  OBVIOUS
<1>2. SumOf(<<>>) = 0
  <2>1. SumOf(<<>>) = SumOver(<<>>, 1 .. 0)
    BY <1>1, SumOfIs
  <2>2. 1 .. 0 = {}
    OBVIOUS
  <2> QED
    BY <2>1, <2>2, SumEmpty
<1> QED
  BY <1>1, <1>2, PowerType DEF IsDigits

(* A round whose lowest bit is zero adds no denomination. *)
LEMMA EvenDigits ==
  ASSUME NEW n \in Nat, NEW b \in Nat \ {0}, NEW s, n # 0, n % 2 = 0, IsDigits(n \div 2, b * 2, s)
  PROVE  IsDigits(n, b, s)
<1> DEFINE h == n \div 2
<1>1. h \in Nat /\ n = 2 * h /\ h # 0
  BY Halves
<1> HIDE DEF h
<1>2. IsDigits(h, b * 2, s)
  BY DEF h
<1>3. h * (b * 2) = n * b
  BY <1>1
<1>4. SumOf(s) = n * b /\ s \in Seq(Nat)
  BY <1>2, <1>3 DEF IsDigits
<1>5. ASSUME NEW k \in 1 .. Len(s)
      PROVE  SumOf(s) + b <= SumOver(s, 1 .. k) + s[k]
  <2>1. SumOf(s) + b * 2 <= SumOver(s, 1 .. k) + s[k]
    BY <1>2 DEF IsDigits
  <2>2. SumOver(s, 1 .. k) \in Nat
    <3>1. k \in 0 .. Len(s)
      BY <1>4
    <3> QED
      BY <1>4, <3>1, PrefixSum
  <2>3. SumOf(s) \in Nat /\ s[k] \in Nat
    BY <1>4, SumOfIs
  <2> QED
    BY <2>1, <2>2, <2>3
<1>6. ASSUME NEW m \in Nat, n < PowerOfTwo[m]
      PROVE  Len(s) <= m
  <2>1. m # 0 /\ m - 1 \in Nat
    BY <1>1, <1>6, PowerUnfold
  <2>2. PowerOfTwo[m] = 2 * PowerOfTwo[m - 1] /\ PowerOfTwo[m - 1] \in Nat
    BY <2>1, PowerUnfold, PowerType
  <2>3. h < PowerOfTwo[m - 1]
    BY <1>1, <1>6, <2>2
  <2>4. Len(s) <= m - 1
    BY <1>2, <2>1, <2>3 DEF IsDigits
  <2> QED
    BY <1>4, <2>4
<1>7. ASSUME NEW m \in Nat, n = PowerOfTwo[m]
      PROVE  Len(s) = 1
  <2>1. m # 0 /\ m - 1 \in Nat
    BY <1>1, <1>7, PowerUnfold
  <2>2. PowerOfTwo[m] = 2 * PowerOfTwo[m - 1] /\ PowerOfTwo[m - 1] \in Nat
    BY <2>1, PowerUnfold, PowerType
  <2>3. h = PowerOfTwo[m - 1]
    BY <1>1, <1>7, <2>2
  <2> QED
    BY <1>2, <2>1, <2>3 DEF IsDigits
<1>8. (\E j \in Nat : b = PowerOfTwo[j]) => \E j \in Nat : b * 2 = PowerOfTwo[j]
  <2> SUFFICES ASSUME NEW j \in Nat, b = PowerOfTwo[j] PROVE \E i \in Nat : b * 2 = PowerOfTwo[i]
    OBVIOUS
  <2>1. b * 2 = PowerOfTwo[j + 1] /\ j + 1 \in Nat
    BY PowerNext
  <2> QED
    BY <2>1
<1>9. (\E j \in Nat : b = PowerOfTwo[j]) => \A k \in 1 .. Len(s) : \E i \in Nat : s[k] = PowerOfTwo[i]
  BY <1>2, <1>8 DEF IsDigits
<1> QED
  BY <1>4, <1>5, <1>6, <1>7, <1>9 DEF IsDigits

(* A round whose lowest bit is one adds its denomination, smaller than all before it. *)
LEMMA OddDigits ==
  ASSUME NEW n \in Nat, NEW b \in Nat \ {0}, NEW s, n % 2 = 1, IsDigits(n \div 2, b * 2, s)
  PROVE  IsDigits(n, b, s \o <<b>>)
<1> DEFINE h == n \div 2
           t == s \o <<b>>
<1>1. h \in Nat /\ n = 2 * h + 1
  BY Halves
<1>2. IsDigits(h, b * 2, s)
  OBVIOUS
<1>3. s \in Seq(Nat) /\ SumOf(s) = h * (b * 2)
  BY <1>2 DEF IsDigits
<1>4. /\ t \in Seq(Nat) /\ Len(t) = Len(s) + 1 /\ t[Len(s) + 1] = b
      /\ \A i \in 1 .. Len(s) : t[i] = s[i]
      /\ \A k \in 0 .. Len(s) : SumOver(t, 1 .. k) = SumOver(s, 1 .. k)
      /\ SumOf(t) = SumOf(s) + b
  BY <1>3, SumExtend
<1>5. Len(s) \in Nat /\ SumOf(s) \in Nat
  BY <1>3, SumOfIs
<1> HIDE DEF h, t
<1>6. SumOf(t) = n * b
  <2>1. h * (b * 2) + b = (2 * h + 1) * b
    BY <1>1
  <2> QED
    BY <1>1, <1>3, <1>4, <2>1
<1>7. ASSUME NEW k \in 1 .. Len(t)
      PROVE  SumOf(t) + b <= SumOver(t, 1 .. k) + t[k]
  <2>1. CASE k = Len(s) + 1
    <3>1. SumOver(t, 1 .. k) = SumOf(t)
      BY <1>4, <2>1, SumOfIs
    <3>2. SumOf(t) \in Nat
      BY <1>4, SumOfIs
    <3> QED
      BY <1>4, <2>1, <3>1, <3>2
  <2>2. CASE k # Len(s) + 1
    <3>1. k \in 1 .. Len(s) /\ k \in 0 .. Len(s)
      BY <1>4, <1>5, <2>2
    <3>2. SumOf(s) + b * 2 <= SumOver(s, 1 .. k) + s[k]
      BY <1>2, <3>1 DEF IsDigits
    <3>3. SumOver(s, 1 .. k) \in Nat
      BY <1>3, <3>1, PrefixSum
    <3>4. SumOver(t, 1 .. k) = SumOver(s, 1 .. k) /\ t[k] = s[k] /\ s[k] \in Nat
      BY <1>3, <1>4, <3>1
    <3> QED
      BY <1>4, <1>5, <3>2, <3>3, <3>4
  <2> QED
    BY <2>1, <2>2
<1>8. ASSUME NEW m \in Nat, n < PowerOfTwo[m]
      PROVE  Len(t) <= m
  <2>1. m # 0 /\ m - 1 \in Nat
    BY <1>1, <1>8, PowerUnfold
  <2>2. PowerOfTwo[m] = 2 * PowerOfTwo[m - 1] /\ PowerOfTwo[m - 1] \in Nat
    BY <2>1, PowerUnfold, PowerType
  <2>3. h < PowerOfTwo[m - 1]
    BY <1>1, <1>8, <2>2
  <2>4. Len(s) <= m - 1
    BY <1>2, <2>1, <2>3 DEF IsDigits
  <2> QED
    BY <1>4, <1>5, <2>4
<1>9. ASSUME NEW m \in Nat, n = PowerOfTwo[m]
      PROVE  Len(t) = 1
  <2>1. m = 0
    <3> SUFFICES ASSUME m # 0 PROVE FALSE
      OBVIOUS
    <3>1. PowerOfTwo[m] = 2 * PowerOfTwo[m - 1] /\ PowerOfTwo[m - 1] \in Nat
      BY PowerUnfold, PowerType
    <3> QED
      BY <1>1, <1>9, <3>1
  <2>2. h = 0 /\ h < PowerOfTwo[0]
    BY <1>1, <1>9, <2>1, PowerUnfold
  <2>3. Len(s) <= 0
    BY <1>2, <2>2 DEF IsDigits
  <2> QED
    BY <1>4, <1>5, <2>3
<1>10. (\E j \in Nat : b = PowerOfTwo[j]) => \A k \in 1 .. Len(t) : \E i \in Nat : t[k] = PowerOfTwo[i]
  <2> SUFFICES ASSUME NEW j \in Nat, b = PowerOfTwo[j], NEW k \in 1 .. Len(t)
               PROVE  \E i \in Nat : t[k] = PowerOfTwo[i]
    OBVIOUS
  <2>1. b * 2 = PowerOfTwo[j + 1] /\ j + 1 \in Nat
    <3>1. PowerOfTwo[j + 1] = 2 * PowerOfTwo[j]
      BY PowerNext
    <3> QED
      BY <3>1
  <2>2. \A l \in 1 .. Len(s) : \E i \in Nat : s[l] = PowerOfTwo[i]
    BY <1>2, <2>1 DEF IsDigits
  <2>3. CASE k = Len(s) + 1
    BY <1>4, <2>3
  <2>4. CASE k # Len(s) + 1
    <3>1. k \in 1 .. Len(s)
      BY <1>4, <1>5, <2>4
    <3> QED
      BY <1>4, <2>2, <3>1
  <2> QED
    BY <2>3, <2>4
<1> QED
  BY <1>4, <1>6, <1>7, <1>8, <1>9, <1>10 DEF IsDigits, t

(* SplitAmount finds the binary digits. *)
LEMMA SplitDigits ==
  ASSUME NEW n \in Nat, NEW b \in Nat \ {0}
  PROVE  IsDigits(n, b, Split[[remaining |-> n, bit |-> b]])
<1> DEFINE stop == {l \in Loops : l.remaining = 0}
           next == [l \in Loops |-> Rest(l.remaining, l.bit)]
           size == [l \in Loops |-> l.remaining]
           G == {l \in Loops : l.bit # 0 => IsDigits(l.remaining, l.bit, Split[l])}
<1>1. Shrinks(Loops, stop, next, size)
  BY SplitShrinks
<1>2. ASSUME NEW l \in Loops, l \in stop \/ next[l] \in G, l.bit # 0
      PROVE  IsDigits(l.remaining, l.bit, Split[l])
  <2>1. l.remaining \in Nat /\ l.bit \in Nat \ {0}
    BY <1>2 DEF Loops
  <2>2. Split[l] = IF l.remaining = 0 THEN <<>>
                   ELSE Split[Rest(l.remaining, l.bit)] \o Lowest(l.remaining, l.bit)
    BY SplitExists DEF IsSplit
  <2>3. CASE l.remaining = 0
    BY <2>1, <2>2, <2>3, NoDigits
  <2>4. CASE l.remaining # 0
    <3> DEFINE r == Rest(l.remaining, l.bit)
               s == Split[r]
    <3>1. r \in Loops /\ r.remaining = l.remaining \div 2 /\ r.bit = l.bit * 2 /\ r.bit # 0
      BY <2>1, Halves DEF Rest, Loops
    <3>2. IsDigits(l.remaining \div 2, l.bit * 2, s)
      BY <1>2, <2>4, <3>1
    <3>3. s \in Seq(Nat)
      BY <3>1, SplitExists
    <3> HIDE DEF s
    <3>4. CASE l.remaining % 2 = 1
      <4>1. Split[l] = s \o <<l.bit>>
        BY <2>2, <2>4, <3>4 DEF s, Lowest
      <4> QED
        BY <2>1, <3>2, <3>4, <4>1, OddDigits
    <3>5. CASE l.remaining % 2 = 0
      <4>1. Split[l] = s
        <5>1. Lowest(l.remaining, l.bit) = <<>> /\ s \o <<>> = s
          BY <3>3, <3>5 DEF Lowest
        <5>2. Split[l] = s \o Lowest(l.remaining, l.bit)
          BY <2>2, <2>4 DEF s
        <5> QED
          BY <5>1, <5>2
      <4> QED
        BY <2>1, <2>4, <3>2, <3>5, <4>1, EvenDigits
    <3> QED
      BY <2>1, <3>4, <3>5, Halves
  <2> QED
    BY <2>3, <2>4
<1>3. Loops \subseteq G
  <2>1. \A l \in Loops : l \in stop \/ next[l] \in G => l \in G
    BY <1>2
  <2> HIDE DEF G, stop, next, size
  <2> QED
    BY <1>1, <2>1, PathInduction
<1>4. [remaining |-> n, bit |-> b] \in Loops
  BY DEF Loops
<1> QED
  BY <1>3, <1>4

(* Of so many blank outputs there is one for every digit.                   *)
LEMMA BlanksSuffice ==
  ASSUME NEW r \in Nat
  PROVE  /\ Blanks(r) \in Nat \ {0}
         /\ PowerOfTwo[Blanks(r)] >= r
<1> DEFINE G == {n \in Nat : PowerOfTwo[n] > n}
           B == {n \in Nat : n >= 1 /\ PowerOfTwo[n] >= r}
           P(n) == n \in 1 .. r + 1 /\ PowerOfTwo[n] >= r /\ \A m \in 1 .. n - 1 : PowerOfTwo[m] < r
<1>1. Nat \subseteq G
  <2>1. 0 \in G
    BY PowerUnfold
  <2>2. ASSUME NEW n \in Nat, n \in G
        PROVE  n + 1 \in G
    <3>1. PowerOfTwo[n + 1] = 2 * PowerOfTwo[n] /\ PowerOfTwo[n] \in Nat /\ PowerOfTwo[n] > n
      BY <2>2, PowerNext, PowerType
    <3> QED
      BY <3>1
  <2> HIDE DEF G
  <2> QED
    BY <2>1, <2>2, SetInduction
<1>2. r + 1 \in B
  <2>1. r + 1 \in Nat /\ PowerOfTwo[r + 1] > r + 1 /\ PowerOfTwo[r + 1] \in Nat
    BY <1>1, PowerType
  <2> QED
    BY <2>1
<1>3. PICK n \in B : \A m \in B : n <= m
  <2>1. B \subseteq Nat
    OBVIOUS
  <2> HIDE DEF B
  <2> QED
    BY <1>2, <2>1, LeastNat
<1>4. P(n)
  <2>1. n <= r + 1
    BY <1>2, <1>3
  <2>2. ASSUME NEW m \in 1 .. n - 1
        PROVE  PowerOfTwo[m] < r
    <3>1. m \in Nat /\ m >= 1 /\ ~(n <= m) /\ PowerOfTwo[m] \in Nat
      BY PowerType
    <3>2. m \notin B
      BY <1>3, <3>1
    <3> QED
      BY <3>1, <3>2
  <2> QED
    BY <2>1, <2>2
<1>5. Blanks(r) = CHOOSE k : P(k)
  BY DEF Blanks
<1>6. P(Blanks(r))
  <2> HIDE DEF P
  <2> QED
    BY <1>4, <1>5
<1> QED
  BY <1>6

(* What the change is said to be.                                           *)
LEMMA ChangeIs ==
  ASSUME NEW blanks \in Nat, NEW amount \in Nat, NEW answer, answer = ChangeOutputs(blanks, amount)
  PROVE  LET lost == amount - SumOf(answer)
         IN /\ Len(answer) <= blanks
            /\ amount < PowerOfTwo[24] => ToSet(answer) \subseteq Denominations
            /\ lost >= 0
            /\ \A d \in ToSet(answer) : lost < d
            /\ blanks >= Blanks(amount) => lost = 0
<1> DEFINE s == SplitAmount(amount)
           n == Len(s)
           c == IF blanks < n THEN blanks ELSE n
<1>1. IsDigits(amount, 1, s)
  <2>1. IsDigits(amount, 1, Split[[remaining |-> amount, bit |-> 1]])
    BY SplitDigits
  <2> QED
    BY <2>1, SplitDef
<1>2. s \in Seq(Nat) /\ SumOf(s) = amount /\ SumOver(s, 1 .. n) = amount
  BY <1>1, SumOfIs DEF IsDigits
<1>3. answer = SubSeq(s, 1, c)
  BY DEF ChangeOutputs
<1> HIDE DEF s
<1>4. c \in 0 .. n /\ n \in Nat /\ c <= blanks
  BY <1>2
<1>5. /\ answer \in Seq(Nat) /\ Len(answer) = c
      /\ \A i \in 1 .. c : answer[i] = s[i]
  BY <1>2, <1>3, <1>4
<1> HIDE DEF c
<1>6. SumOf(answer) = SumOver(s, 1 .. c)
  <2>1. SumOf(answer) = SumOver(answer, 1 .. c)
    BY <1>5, SumOfIs
  <2>2. IsFiniteSet(1 .. c)
    BY <1>2, <1>4, PrefixSum
  <2> QED
    BY <1>5, <2>1, <2>2, SumEqual
<1>7. ASSUME NEW k \in 0 .. n, NEW m \in k .. n
      PROVE  SumOver(s, 1 .. k) <= SumOver(s, 1 .. m)
  <2>1. m \in 0 .. n /\ 1 .. k \subseteq 1 .. m
    BY <1>4
  <2>2. IsFiniteSet(1 .. m) /\ \A i \in 1 .. m : s[i] \in Nat
    BY <1>2, <1>4, <2>1, PrefixSum
  <2>3. SumOver(s, 1 .. m) = SumOver(s, 1 .. k) + SumOver(s, (1 .. m) \ (1 .. k))
    BY <2>1, <2>2, SumSplit
  <2>4. IsFiniteSet((1 .. m) \ (1 .. k))
    BY <2>2, FS_Difference
  <2>5. SumOver(s, (1 .. m) \ (1 .. k)) \in Nat /\ SumOver(s, 1 .. k) \in Nat
    BY <1>2, <2>2, <2>4, SumType, PrefixSum
  <2> QED
    BY <2>3, <2>5
<1>8. SumOver(s, 1 .. c) \in Nat /\ SumOver(s, 1 .. c) <= amount
  BY <1>2, <1>4, <1>7, PrefixSum
<1>9. \A d \in ToSet(answer) : \E k \in 1 .. c : d = s[k]
  BY <1>5 DEF ToSet
<1>10. ASSUME NEW k \in 1 .. c
       PROVE  amount - SumOver(s, 1 .. c) < s[k] /\ s[k] <= amount /\ s[k] \in Nat
  <2>1. k \in 0 .. n /\ k \in 1 .. n /\ c \in k .. n /\ k - 1 \in 0 .. n /\ k \in k .. n /\ n \in k .. n
    BY <1>4
  <2>2. amount + 1 <= SumOver(s, 1 .. k) + s[k]
    BY <1>1, <1>2, <2>1 DEF IsDigits
  <2>3. SumOver(s, 1 .. k) <= SumOver(s, 1 .. c) /\ SumOver(s, 1 .. k) <= amount
    BY <1>2, <1>7, <2>1
  <2>4. SumOver(s, 1 .. k) \in Nat /\ s[k] \in Nat
    BY <1>2, <2>1, PrefixSum
  <2>5. /\ (k - 1) + 1 = k /\ k - 1 < n
        /\ SumOver(s, 1 .. k) = SumOver(s, 1 .. k - 1) + s[k] /\ SumOver(s, 1 .. k - 1) \in Nat
    <3>1. (k - 1) + 1 = k /\ k - 1 < n
      BY <1>4, <2>1
    <3>2. /\ SumOver(s, 1 .. k - 1) \in Nat
          /\ SumOver(s, 1 .. (k - 1) + 1) = SumOver(s, 1 .. k - 1) + s[(k - 1) + 1]
      BY <1>2, <2>1, <3>1, PrefixSum
    <3> QED
      BY <3>1, <3>2
  <2> QED
    BY <1>8, <2>2, <2>3, <2>4, <2>5
<1>11. ASSUME amount < PowerOfTwo[24], NEW k \in 1 .. c
       PROVE  s[k] \in Denominations
  <2>1. \E j \in Nat : 1 = PowerOfTwo[j]
    BY PowerUnfold
  <2>2. PICK i \in Nat : s[k] = PowerOfTwo[i]
    <3>1. \A m \in 1 .. Len(s) : \E i \in Nat : s[m] = PowerOfTwo[i]
      BY <1>1, <2>1 DEF IsDigits
    <3>2. k \in 1 .. Len(s)
      BY <1>4
    <3> QED
      BY <3>1, <3>2
  <2>3. PowerOfTwo[i] < PowerOfTwo[24]
    BY <1>10, <1>11, <2>2, PowerType
  <2>4. i < 24
    BY <2>3, PowerMonotone
  <2> QED
    BY <2>2, <2>4 DEF Denominations
<1>12. ASSUME blanks >= Blanks(amount)
       PROVE  SumOver(s, 1 .. c) = amount
  <2> DEFINE B == Blanks(amount)
  <2>1. B \in Nat \ {0} /\ PowerOfTwo[B] >= amount /\ PowerOfTwo[B] \in Nat
    BY BlanksSuffice, PowerType
  <2> HIDE DEF B
  <2>2. n <= B
    BY <1>1, <2>1 DEF IsDigits
  <2>3. c = n
    BY <1>4, <1>12, <2>1, <2>2 DEF B, c
  <2> QED
    BY <1>2, <2>3
<1> QED
  BY <1>4, <1>5, <1>6, <1>8, <1>9, <1>10, <1>11, <1>12

-----------------------------------------------------------------------------
(* Runestones.                                                              *)

-----------------------------------------------------------------------------
(* Varints. *)

IsVarint(f) ==
  f = [n \in Nat |-> IF n < Digit THEN <<n>> ELSE <<(n % Digit) + Digit>> \o f[n \div Digit]]

Varint == CHOOSE f : IsVarint(f)

(* EncodeVarint by the name of its recursive function. *)
LEMMA VarintDef ==
  ASSUME NEW n
  PROVE  EncodeVarint(n) = Varint[n]
  BY DEF EncodeVarint, Varint, IsVarint

(* Every digit leaves less to write. *)
LEMMA VarintShrinks ==
  Shrinks(Nat, {n \in Nat : n < Digit}, [n \in Nat |-> n \div Digit], [n \in Nat |-> n])
<1>1. ASSUME NEW n \in Nat, ~(n < Digit)
      PROVE  n \div Digit \in Nat /\ n \div Digit < n
  <2>1. Digit \in Nat /\ Digit > 1 /\ n > 0
    BY <1>1, RunestoneAssumption
  <2> QED
    BY <2>1, DivideNat
<1> QED
  BY <1>1 DEF Shrinks

(* The recursion of EncodeVarint is well-founded. *)
LEMMA VarintType == IsVarint(Varint) /\ Varint \in [Nat -> Seq(Nat)]
<1> DEFINE stop == {n \in Nat : n < Digit}
           next == [n \in Nat |-> n \div Digit]
           size == [n \in Nat |-> n]
           base == [n \in Nat |-> <<n>>]
           step == [n \in Nat |-> [v \in Seq(Nat) |-> <<(n % Digit) + Digit>> \o v]]
<1>0. \A n \in Nat : n \div Digit \in Nat /\ (n % Digit) + Digit \in Nat
  BY RunestoneAssumption, DivideNat
<1>1. Shrinks(Nat, stop, next, size)
  BY VarintShrinks
<1>2. Stays(Nat, Seq(Nat), stop, base, step)
  BY <1>0 DEF Stays
<1>3. PICK f : f \in [Nat -> Seq(Nat)] /\ Follows(f, Nat, stop, next, base, step)
  <2> HIDE DEF stop, next, size, base, step
  <2> QED
    BY <1>1, <1>2, PathFunction
<1>4. IsVarint(f)
  <2>1. ASSUME NEW n \in Nat
        PROVE  f[n] = IF n < Digit THEN <<n>> ELSE <<(n % Digit) + Digit>> \o f[n \div Digit]
    <3>1. f[n \div Digit] \in Seq(Nat)
      BY <1>0, <1>3
    <3> QED
      BY <1>3, <3>1 DEF Follows
  <2> QED
    BY <2>1, <1>3 DEF IsVarint
<1>5. IsVarint(Varint)
  BY <1>4 DEF Varint
<1> DEFINE G == {n \in Nat : Varint[n] \in Seq(Nat)}
<1>6. \A n \in Nat : n \in stop \/ next[n] \in G => n \in G
  <2>1. ASSUME NEW n \in Nat, n \in stop \/ next[n] \in G
        PROVE  Varint[n] \in Seq(Nat)
    <3>1. Varint[n] = IF n < Digit THEN <<n>> ELSE <<(n % Digit) + Digit>> \o Varint[n \div Digit]
      BY <1>5 DEF IsVarint
    <3>2. CASE n < Digit
      BY <3>1, <3>2
    <3>3. CASE ~(n < Digit)
      <4>1. Varint[n \div Digit] \in Seq(Nat)
        BY <2>1, <3>3
      <4> QED
        BY <1>0, <3>1, <3>3, <4>1
    <3> QED
      BY <3>2, <3>3
  <2> QED
    BY <2>1
<1>7. Nat \subseteq G
  <2> HIDE DEF G, stop, next, size
  <2> QED
    BY <1>1, <1>6, PathInduction
<1>8. Varint = [n \in Nat |-> Varint[n]]
  BY <1>5 DEF IsVarint
<1> QED
  BY <1>5, <1>7, <1>8

(* A varint has at least one byte. *)
LEMMA VarintLength ==
  ASSUME NEW n \in Nat
  PROVE  Len(Varint[n]) \in Nat \ {0}
<1>1. /\ Varint[n] \in Seq(Nat)
      /\ Varint[n] = IF n < Digit THEN <<n>> ELSE <<(n % Digit) + Digit>> \o Varint[n \div Digit]
  BY VarintType DEF IsVarint
<1>2. CASE n < Digit
  BY <1>1, <1>2
<1>3. CASE ~(n < Digit)
  <2>1. n \div Digit \in Nat
    BY RunestoneAssumption, DivideNat
  <2>2. Varint[n \div Digit] \in Seq(Nat)
    BY <2>1, VarintType
  <2>3. (n % Digit) + Digit \in Nat
    BY RunestoneAssumption, DivideNat
  <2>4. Len(<<(n % Digit) + Digit>> \o Varint[n \div Digit]) = 1 + Len(Varint[n \div Digit])
    BY <2>2, <2>3
  <2>5. Len(Varint[n \div Digit]) \in Nat
    BY <2>2
  <2> QED
    BY <1>1, <1>3, <2>4, <2>5
<1> QED
  BY <1>2, <1>3

Positions == Nat \ {0}

Results == [value : Nat, next : Nat]

ReadAt(bytes, i, rest) ==
  IF bytes[i] < Digit THEN [value |-> bytes[i], next |-> i + 1]
  ELSE [value |-> bytes[i] - Digit + Digit * rest.value, next |-> rest.next]

IsRead(f, bytes) ==
  f = [i \in Positions |->
         IF i > Len(bytes) THEN [value |-> 0, next |-> i]
         ELSE IF bytes[i] < Digit THEN [value |-> bytes[i], next |-> i + 1]
         ELSE [value |-> bytes[i] - Digit + Digit * f[i + 1].value, next |-> f[i + 1].next]]

Read(bytes) == CHOOSE f : IsRead(f, bytes)

(* DecodeVarint by the name of its recursive function. *)
LEMMA ReadDef ==
  ASSUME NEW bytes, NEW i
  PROVE  DecodeVarint(bytes, i) = Read(bytes)[i]
  BY DEF DecodeVarint, Read, IsRead, Positions

(* The walk over the bytes. *)
LEMMA WalkShrinks ==
  ASSUME NEW bytes \in Seq(Nat)
  PROVE  Shrinks(Positions, {i \in Positions : i > Len(bytes)}, [i \in Positions |-> i + 1],
                 [i \in Positions |-> IF i > Len(bytes) THEN 0 ELSE Len(bytes) + 1 - i])
<1>1. Len(bytes) \in Nat
  OBVIOUS
<1> QED
  BY <1>1 DEF Shrinks, Positions

(* The recursion of DecodeVarint is well-founded. *)
LEMMA ReadType ==
  ASSUME NEW bytes \in Seq(Nat)
  PROVE  IsRead(Read(bytes), bytes) /\ Read(bytes) \in [Positions -> Results]
<1> DEFINE stop == {i \in Positions : i > Len(bytes)}
           next == [i \in Positions |-> i + 1]
           size == [i \in Positions |-> IF i > Len(bytes) THEN 0 ELSE Len(bytes) + 1 - i]
           base == [i \in Positions |-> [value |-> 0, next |-> i]]
           step == [i \in Positions |-> [v \in Results |-> ReadAt(bytes, i, v)]]
           r == Read(bytes)
<1>0. \A i \in Positions : i + 1 \in Positions /\ (~(i > Len(bytes)) => bytes[i] \in Nat)
  <2>1. Len(bytes) \in Nat
    OBVIOUS
  <2> QED
    BY <2>1 DEF Positions
<1>1. Shrinks(Positions, stop, next, size)
  BY WalkShrinks
<1>2. ASSUME NEW i \in Positions, ~(i > Len(bytes)), NEW v \in Results
      PROVE  ReadAt(bytes, i, v) \in Results
  <2>1. bytes[i] \in Nat /\ i \in Nat /\ v.value \in Nat /\ v.next \in Nat /\ Digit \in Nat
    BY <1>0, <1>2, RunestoneAssumption DEF Positions, Results
  <2>2. Digit * v.value \in Nat
    BY <2>1
  <2> QED
    BY <2>1, <2>2 DEF ReadAt, Results
<1>3. Stays(Positions, Results, stop, base, step)
  <2>1. \A i \in Positions : base[i] \in Results
    BY DEF Positions, Results
  <2> QED
    BY <1>2, <2>1 DEF Stays
<1>4. PICK f : f \in [Positions -> Results] /\ Follows(f, Positions, stop, next, base, step)
  <2> HIDE DEF stop, next, size, base, step
  <2> QED
    BY <1>1, <1>3, PathFunction
<1>5. IsRead(f, bytes)
  <2>1. ASSUME NEW i \in Positions
        PROVE  f[i] = IF i > Len(bytes) THEN [value |-> 0, next |-> i] ELSE ReadAt(bytes, i, f[i + 1])
    <3>1. f[i + 1] \in Results
      BY <1>0, <1>4
    <3> QED
      BY <1>0, <1>4, <3>1 DEF Follows
  <2> QED
    BY <2>1, <1>4 DEF IsRead, ReadAt
<1>6. IsRead(r, bytes)
  BY <1>5 DEF Read
<1> DEFINE G == {i \in Positions : r[i] \in Results}
<1>7. \A i \in Positions : i \in stop \/ next[i] \in G => i \in G
  <2>1. ASSUME NEW i \in Positions, i \in stop \/ next[i] \in G
        PROVE  r[i] \in Results
    <3> HIDE DEF r
    <3>1. r[i] = IF i > Len(bytes) THEN [value |-> 0, next |-> i] ELSE ReadAt(bytes, i, r[i + 1])
      BY <1>6 DEF IsRead, ReadAt
    <3>2. CASE i > Len(bytes)
      BY <3>1, <3>2 DEF Positions, Results
    <3>3. CASE ~(i > Len(bytes))
      <4>1. r[i + 1] \in Results
        BY <2>1, <3>3
      <4> QED
        BY <1>2, <3>1, <3>3, <4>1
    <3> QED
      BY <3>2, <3>3
  <2> QED
    BY <2>1
<1>8. Positions \subseteq G
  <2> HIDE DEF G, stop, next, size
  <2> QED
    BY <1>1, <1>7, PathInduction
<1>9. r = [i \in Positions |-> r[i]]
  <2> HIDE DEF r
  <2> QED
    BY <1>6 DEF IsRead
<1> QED
  BY <1>6, <1>8, <1>9

(* Reading goes on. *)
LEMMA ReadForward ==
  ASSUME NEW bytes \in Seq(Nat), NEW i \in Positions
  PROVE  IF i > Len(bytes) THEN Read(bytes)[i].next = i ELSE Read(bytes)[i].next > i
<1> DEFINE stop == {k \in Positions : k > Len(bytes)}
           next == [k \in Positions |-> k + 1]
           size == [k \in Positions |-> IF k > Len(bytes) THEN 0 ELSE Len(bytes) + 1 - k]
           r == Read(bytes)
           G == {k \in Positions : IF k > Len(bytes) THEN r[k].next = k ELSE r[k].next > k}
<1>0. Len(bytes) \in Nat
  OBVIOUS
<1>1. Shrinks(Positions, stop, next, size)
  BY WalkShrinks
<1>2. IsRead(r, bytes) /\ \A k \in Positions : r[k] \in Results
  BY ReadType
<1> HIDE DEF r
<1>3. ASSUME NEW k \in Positions, k \in stop \/ next[k] \in G
      PROVE  k \in G
  <2>1. r[k] = IF k > Len(bytes) THEN [value |-> 0, next |-> k] ELSE ReadAt(bytes, k, r[k + 1])
    BY <1>2 DEF IsRead, ReadAt
  <2>2. CASE k > Len(bytes)
    BY <2>1, <2>2
  <2>3. CASE ~(k > Len(bytes))
    <3>1. k + 1 \in G /\ k + 1 \in Positions
      BY <1>3, <2>3 DEF Positions
    <3>2. r[k + 1].next \in Nat /\ r[k + 1].next >= k + 1
      BY <1>0, <1>2, <3>1 DEF Results, Positions
    <3>3. r[k].next = k + 1 \/ r[k].next = r[k + 1].next
      BY <2>1, <2>3 DEF ReadAt
    <3>4. r[k].next > k
      BY <3>2, <3>3 DEF Positions
    <3> QED
      BY <2>3, <3>4
  <2> QED
    BY <2>2, <2>3
<1>4. Positions \subseteq G
  <2>1. \A k \in Positions : k \in stop \/ next[k] \in G => k \in G
    BY <1>3
  <2> HIDE DEF G, stop, next, size
  <2> QED
    BY <1>1, <2>1, PathInduction
<1> QED
  BY <1>4 DEF r

(* A number that was written is read. *)
LEMMA ReadVarint ==
  ASSUME NEW bytes \in Seq(Nat), NEW n \in Nat, NEW i \in Positions, LiesAt(Varint[n], bytes, i)
  PROVE  /\ DecodeVarint(bytes, i) = [value |-> n, next |-> i + Len(Varint[n])]
         /\ i + Len(Varint[n]) \in Positions
<1> DEFINE stop == {m \in Nat : m < Digit}
           next == [m \in Nat |-> m \div Digit]
           size == [m \in Nat |-> m]
           r == Read(bytes)
           Ok(m, k) == LiesAt(Varint[m], bytes, k) => r[k] = [value |-> m, next |-> k + Len(Varint[m])]
           G == {m \in Nat : \A k \in Positions : Ok(m, k)}
<1>0. Len(bytes) \in Nat /\ Digit \in Nat /\ Digit > 1
  BY RunestoneAssumption
<1>1. Shrinks(Nat, stop, next, size)
  BY VarintShrinks
<1>2. IsRead(r, bytes)
  BY ReadType
<1> HIDE DEF r
<1>3. ASSUME NEW m \in Nat, m \in stop \/ next[m] \in G, NEW k \in Positions, LiesAt(Varint[m], bytes, k)
      PROVE  r[k] = [value |-> m, next |-> k + Len(Varint[m])]
  <2>1. r[k] = IF k > Len(bytes) THEN [value |-> 0, next |-> k] ELSE ReadAt(bytes, k, r[k + 1])
    BY <1>2 DEF IsRead, ReadAt
  <2>2. Varint[m] = IF m < Digit THEN <<m>> ELSE <<(m % Digit) + Digit>> \o Varint[m \div Digit]
    BY VarintType DEF IsVarint
  <2>3. k \in Nat /\ ~(k > Len(bytes)) /\ bytes[k] = Varint[m][1]
    <3>1. Len(Varint[m]) \in Nat \ {0}
      BY VarintLength
    <3>2. k \in Nat /\ k + 1 - 1 = k
      BY DEF Positions
    <3>3. 1 \in 1 .. Len(Varint[m])
      BY <3>1
    <3>4. k + Len(Varint[m]) <= Len(bytes) + 1 /\ bytes[k + 1 - 1] = Varint[m][1]
      BY <1>3, <3>3 DEF LiesAt
    <3> QED
      BY <1>0, <3>1, <3>2, <3>4
  <2>4. CASE m < Digit
    <3>1. Varint[m] = <<m>>
      BY <2>2, <2>4
    <3>2. bytes[k] = m /\ Len(Varint[m]) = 1
      BY <2>3, <3>1
    <3> QED
      BY <2>1, <2>3, <2>4, <3>2 DEF ReadAt
  <2>5. CASE ~(m < Digit)
    <3> DEFINE q == m \div Digit
               d == (m % Digit) + Digit
               w == Varint[q]
    <3>1. q \in Nat /\ d \in Nat /\ d >= Digit /\ m = Digit * q + (m % Digit) /\ m % Digit \in Nat
      BY <1>0, DivideNat
    <3>2. w \in Seq(Nat) /\ Len(w) \in Nat
      BY <3>1, VarintType
    <3>3. q \in G
      BY <1>3, <2>5
    <3>4. Varint[m] = <<d>> \o w
      BY <2>2, <2>5
    <3> HIDE DEF q, d, w
    <3>5. Varint[m][1] = d /\ Len(Varint[m]) = 1 + Len(w) /\ <<d>> \in Seq(Nat) /\ Len(<<d>>) = 1
      BY <3>1, <3>2, <3>4
    <3>6. LiesAt(w, bytes, k + Len(<<d>>))
      BY <1>3, <3>2, <3>4, <3>5, LiesSplit DEF Positions
    <3>7. k + 1 \in Positions /\ LiesAt(w, bytes, k + 1)
      BY <3>5, <3>6 DEF Positions
    <3>8. r[k + 1] = [value |-> q, next |-> (k + 1) + Len(w)]
      BY <3>3, <3>7 DEF w
    <3>9. r[k] = [value |-> d - Digit + Digit * q, next |-> (k + 1) + Len(w)]
      BY <1>0, <2>1, <2>3, <3>1, <3>5, <3>8 DEF ReadAt
    <3>10. d - Digit + Digit * q = m
      <4>1. Digit * q \in Nat
        BY <1>0, <3>1
      <4>2. d - Digit = m % Digit
        BY <1>0, <3>1 DEF d
      <4> QED
        BY <3>1, <4>1, <4>2
    <3>11. (k + 1) + Len(w) = k + Len(Varint[m])
      BY <2>3, <3>2, <3>5
    <3> QED
      BY <3>9, <3>10, <3>11
  <2> QED
    BY <2>4, <2>5
<1>4. Nat \subseteq G
  <2>1. \A m \in Nat : m \in stop \/ next[m] \in G => m \in G
    BY <1>3
  <2> HIDE DEF G, stop, next, size
  <2> QED
    BY <1>1, <2>1, PathInduction
<1>5. r[i] = [value |-> n, next |-> i + Len(Varint[n])]
  BY <1>4
<1>6. i + Len(Varint[n]) \in Positions
  BY VarintLength DEF Positions
<1> QED
  BY <1>5, <1>6, ReadDef DEF r

EdictRecords == [block : Nat, tx : Nat, amount : Nat, output : Nat]

(* Edicts as runestones hold them: ids go up, and the length fits its byte. *)
Encodable(edicts) ==
  /\ edicts \in Seq(EdictRecords)
  /\ \A i \in 2 .. Len(edicts) :
       edicts[i - 1].block <= edicts[i].block /\ edicts[i - 1].tx <= edicts[i].tx
  /\ Len(Payload(edicts)) < LengthByte

(* An edict is four varints. *)
LEMMA EdictEncoded ==
  ASSUME NEW e \in EdictRecords, NEW p, p.block \in Nat, p.tx \in Nat, p.block <= e.block, p.tx <= e.tx
  PROVE  /\ EncodeEdict(e, p) = Varint[e.block - p.block] \o Varint[e.tx - p.tx] \o Varint[e.amount] \o Varint[e.output]
         /\ e.block - p.block \in Nat /\ e.tx - p.tx \in Nat /\ e.amount \in Nat /\ e.output \in Nat
         /\ EncodeEdict(e, p) \in Seq(Nat)
         /\ Len(EncodeEdict(e, p)) \in Nat \ {0}
<1>1. e.block - p.block \in Nat /\ e.tx - p.tx \in Nat /\ e.amount \in Nat /\ e.output \in Nat
  BY DEF EdictRecords
<1>2. EncodeEdict(e, p) = Varint[e.block - p.block] \o Varint[e.tx - p.tx] \o Varint[e.amount] \o Varint[e.output]
  BY VarintDef DEF EncodeEdict
<1> DEFINE a == Varint[e.block - p.block]
           b == Varint[e.tx - p.tx]
           c == Varint[e.amount]
           d == Varint[e.output]
<1>3. a \in Seq(Nat) /\ b \in Seq(Nat) /\ c \in Seq(Nat) /\ d \in Seq(Nat)
  BY <1>1, VarintType
<1>4. Len(d) \in Nat \ {0}
  BY <1>1, VarintLength
<1> HIDE DEF a, b, c, d
<1>5. a \o b \in Seq(Nat)
  BY <1>3
<1>6. a \o b \o c \in Seq(Nat)
  BY <1>3, <1>5
<1>7. a \o b \o c \o d \in Seq(Nat) /\ Len(a \o b \o c \o d) = Len(a \o b \o c) + Len(d) /\ Len(a \o b \o c) \in Nat
  BY <1>3, <1>6
<1>8. Len(a \o b \o c \o d) \in Nat \ {0}
  BY <1>4, <1>7
<1>9. EncodeEdict(e, p) = a \o b \o c \o d
  BY <1>2 DEF a, b, c, d
<1> QED
  BY <1>1, <1>2, <1>7, <1>8, <1>9

Places == [offset : Nat \ {0}, block : Nat, tx : Nat]

(* What the loop reads at a place, and the place behind it. *)
TakenAt(bytes, at) ==
  LET b == DecodeVarint(bytes, at.offset)
      t == DecodeVarint(bytes, b.next)
      a == DecodeVarint(bytes, t.next)
      o == DecodeVarint(bytes, a.next)
  IN [block |-> at.block + b.value, tx |-> at.tx + t.value, amount |-> a.value, output |-> o.value]

PlaceAfter(bytes, at) ==
  LET b == DecodeVarint(bytes, at.offset)
      t == DecodeVarint(bytes, b.next)
      a == DecodeVarint(bytes, t.next)
      o == DecodeVarint(bytes, a.next)
  IN [offset |-> o.next, block |-> at.block + b.value, tx |-> at.tx + t.value]

IsFrom(f, bytes) ==
  f = [at \in Places |->
         IF at.offset > Len(bytes) THEN <<>>
         ELSE <<TakenAt(bytes, at)>> \o f[PlaceAfter(bytes, at)]]

From(bytes) == CHOOSE f : IsFrom(f, bytes)

(* DecodeRunestone by the name of its recursive function. *)
LEMMA DecodeDef ==
  ASSUME NEW script, NEW bytes, bytes = SubSeq(script.payload, 1, script.length)
  PROVE  DecodeRunestone(script) =
           IF bytes = <<>> \/ DecodeVarint(bytes, 1).value # 0 THEN <<>>
           ELSE From(bytes)[[offset |-> DecodeVarint(bytes, 1).next, block |-> 0, tx |-> 0]]
  BY DEF DecodeRunestone, From, IsFrom, TakenAt, PlaceAfter, Places

(* Reading a varint moves the offset forward. *)
LEMMA VarintRead ==
  ASSUME NEW bytes \in Seq(Nat), NEW i \in Positions
  PROVE  /\ DecodeVarint(bytes, i).value \in Nat
         /\ DecodeVarint(bytes, i).next \in Positions
         /\ DecodeVarint(bytes, i).next >= i
         /\ i <= Len(bytes) => DecodeVarint(bytes, i).next > i
<1>1. Len(bytes) \in Nat /\ i \in Nat
  BY DEF Positions
<1>2. Read(bytes)[i] \in Results
  BY ReadType
<1>3. IF i > Len(bytes) THEN Read(bytes)[i].next = i ELSE Read(bytes)[i].next > i
  BY ReadForward
<1>4. DecodeVarint(bytes, i) = Read(bytes)[i]
  BY ReadDef
<1> QED
  BY <1>1, <1>2, <1>3, <1>4 DEF Results, Positions

(* Reading an edict moves the offset forward. *)
LEMMA TakenType ==
  ASSUME NEW bytes \in Seq(Nat), NEW at \in Places
  PROVE  /\ TakenAt(bytes, at) \in EdictRecords
         /\ PlaceAfter(bytes, at) \in Places
         /\ at.offset <= Len(bytes) => PlaceAfter(bytes, at).offset > at.offset
<1> DEFINE b == DecodeVarint(bytes, at.offset)
           t == DecodeVarint(bytes, b.next)
           a == DecodeVarint(bytes, t.next)
           o == DecodeVarint(bytes, a.next)
<1>1. at.offset \in Positions /\ at.block \in Nat /\ at.tx \in Nat
  BY DEF Places, Positions
<1>2. b.value \in Nat /\ b.next \in Positions /\ (at.offset <= Len(bytes) => b.next > at.offset)
  BY <1>1, VarintRead
<1>3. t.value \in Nat /\ t.next \in Positions /\ t.next >= b.next
  <2> HIDE DEF b
  <2> QED
    BY <1>2, VarintRead
<1>4. a.value \in Nat /\ a.next \in Positions /\ a.next >= t.next
  <2> HIDE DEF t
  <2> QED
    BY <1>3, VarintRead
<1>5. o.value \in Nat /\ o.next \in Positions /\ o.next >= a.next
  <2> HIDE DEF a
  <2> QED
    BY <1>4, VarintRead
<1>6. /\ TakenAt(bytes, at) = [block |-> at.block + b.value, tx |-> at.tx + t.value, amount |-> a.value, output |-> o.value]
      /\ PlaceAfter(bytes, at) = [offset |-> o.next, block |-> at.block + b.value, tx |-> at.tx + t.value]
  BY DEF TakenAt, PlaceAfter
<1> HIDE DEF b, t, a, o
<1>7. at.offset <= Len(bytes) => o.next > at.offset
  BY <1>1, <1>2, <1>3, <1>4, <1>5 DEF Positions
<1>8. at.block + b.value \in Nat /\ at.tx + t.value \in Nat
  BY <1>1, <1>2, <1>3
<1> QED
  BY <1>4, <1>5, <1>6, <1>7, <1>8 DEF EdictRecords, Places, Positions

(* The recursion of DecodeRunestone is well-founded. *)
LEMMA FromType ==
  ASSUME NEW bytes \in Seq(Nat)
  PROVE  IsFrom(From(bytes), bytes) /\ \A at \in Places : From(bytes)[at] \in Seq(EdictRecords)
<1> DEFINE stop == {at \in Places : at.offset > Len(bytes)}
           next == [at \in Places |-> PlaceAfter(bytes, at)]
           size == [at \in Places |-> IF at.offset > Len(bytes) THEN 0 ELSE Len(bytes) + 1 - at.offset]
           base == [at \in Places |-> <<>>]
           step == [at \in Places |-> [v \in Seq(EdictRecords) |-> <<TakenAt(bytes, at)>> \o v]]
           r == From(bytes)
<1>0. Len(bytes) \in Nat /\ \A at \in Places : at.offset \in Nat \ {0} /\ TakenAt(bytes, at) \in EdictRecords
  BY TakenType DEF Places
<1>1. Shrinks(Places, stop, next, size)
  <2>1. size \in [Places -> Nat]
    BY <1>0
  <2>2. ASSUME NEW at \in Places, ~(at.offset > Len(bytes))
        PROVE  next[at] \in Places /\ size[next[at]] < size[at]
    <3>1. next[at] \in Places /\ next[at].offset > at.offset /\ at.offset \in Nat /\ next[at].offset \in Nat
      BY <1>0, <2>2, TakenType
    <3> HIDE DEF next
    <3> QED
      BY <1>0, <2>2, <3>1
  <2> QED
    BY <2>1, <2>2 DEF Shrinks
<1>2. Stays(Places, Seq(EdictRecords), stop, base, step)
  BY <1>0 DEF Stays
<1>3. PICK f : f \in [Places -> Seq(EdictRecords)] /\ Follows(f, Places, stop, next, base, step)
  <2> HIDE DEF stop, next, size, base, step
  <2> QED
    BY <1>1, <1>2, PathFunction
<1>4. IsFrom(f, bytes)
  <2>1. ASSUME NEW at \in Places
        PROVE  f[at] = IF at.offset > Len(bytes) THEN <<>> ELSE <<TakenAt(bytes, at)>> \o f[PlaceAfter(bytes, at)]
    <3>1. f[PlaceAfter(bytes, at)] \in Seq(EdictRecords)
      BY <1>3, TakenType
    <3> QED
      BY <1>3, <3>1 DEF Follows
  <2> QED
    BY <2>1, <1>3 DEF IsFrom
<1>5. IsFrom(r, bytes)
  BY <1>4 DEF From
<1> DEFINE G == {at \in Places : r[at] \in Seq(EdictRecords)}
<1>6. \A at \in Places : at \in stop \/ next[at] \in G => at \in G
  <2>1. ASSUME NEW at \in Places, at \in stop \/ next[at] \in G
        PROVE  r[at] \in Seq(EdictRecords)
    <3> HIDE DEF r
    <3>1. r[at] = IF at.offset > Len(bytes) THEN <<>> ELSE <<TakenAt(bytes, at)>> \o r[PlaceAfter(bytes, at)]
      BY <1>5 DEF IsFrom
    <3>2. CASE at.offset > Len(bytes)
      BY <3>1, <3>2
    <3>3. CASE ~(at.offset > Len(bytes))
      <4>1. r[PlaceAfter(bytes, at)] \in Seq(EdictRecords)
        BY <2>1, <3>3
      <4> QED
        BY <1>0, <3>1, <3>3, <4>1
    <3> QED
      BY <3>2, <3>3
  <2> QED
    BY <2>1
<1>7. Places \subseteq G
  <2> HIDE DEF G, stop, next, size
  <2> QED
    BY <1>1, <1>6, PathInduction
<1> QED
  BY <1>5, <1>7

(* An edict that was written is read. *)
LEMMA ReadEdict ==
  ASSUME NEW bytes \in Seq(Nat), NEW at \in Places, NEW e \in EdictRecords,
         at.block <= e.block, at.tx <= e.tx, LiesAt(EncodeEdict(e, at), bytes, at.offset)
  PROVE  /\ TakenAt(bytes, at) = e
         /\ PlaceAfter(bytes, at) = [offset |-> at.offset + Len(EncodeEdict(e, at)), block |-> e.block, tx |-> e.tx]
         /\ at.offset <= Len(bytes)
<1> DEFINE u == Varint[e.block - at.block]
           v == Varint[e.tx - at.tx]
           w == Varint[e.amount]
           x == Varint[e.output]
           i == at.offset
           b == DecodeVarint(bytes, i)
           t == DecodeVarint(bytes, b.next)
           a == DecodeVarint(bytes, t.next)
           o == DecodeVarint(bytes, a.next)
<1>1. i \in Positions /\ at.block \in Nat /\ at.tx \in Nat /\ i \in Nat \ {0}
  BY DEF Places, Positions
<1>2. /\ EncodeEdict(e, at) = u \o v \o w \o x
      /\ e.block - at.block \in Nat /\ e.tx - at.tx \in Nat /\ e.amount \in Nat /\ e.output \in Nat
      /\ Len(EncodeEdict(e, at)) \in Nat \ {0}
  BY <1>1, EdictEncoded
<1>3. u \in Seq(Nat) /\ v \in Seq(Nat) /\ w \in Seq(Nat) /\ x \in Seq(Nat)
  BY <1>2, VarintType
<1>4. /\ LiesAt(u, bytes, i) /\ LiesAt(v, bytes, i + Len(u)) /\ LiesAt(w, bytes, i + (Len(u) + Len(v)))
      /\ LiesAt(x, bytes, i + (Len(u) + Len(v) + Len(w)))
      /\ Len(u \o v \o w \o x) = Len(u) + Len(v) + Len(w) + Len(x)
      /\ Len(u) \in Nat /\ Len(v) \in Nat /\ Len(w) \in Nat /\ Len(x) \in Nat
  <2>0. LiesAt(u \o v \o w \o x, bytes, i)
    BY <1>2
  <2> HIDE DEF u, v, w, x, i
  <2>1. u \o v \in Seq(Nat) /\ Len(u \o v) = Len(u) + Len(v)
    BY <1>3
  <2>2. u \o v \o w \in Seq(Nat) /\ Len(u \o v \o w) = Len(u) + Len(v) + Len(w)
    BY <1>3, <2>1
  <2>3. Len(u \o v \o w \o x) = Len(u) + Len(v) + Len(w) + Len(x)
    BY <1>3, <2>2
  <2>4. LiesAt(u \o v \o w, bytes, i) /\ LiesAt(x, bytes, i + Len(u \o v \o w))
    BY <1>1, <1>3, <2>0, <2>2, LiesSplit
  <2>5. LiesAt(u \o v, bytes, i) /\ LiesAt(w, bytes, i + Len(u \o v))
    BY <1>1, <1>3, <2>1, <2>4, LiesSplit
  <2>6. LiesAt(u, bytes, i) /\ LiesAt(v, bytes, i + Len(u))
    BY <1>1, <1>3, <2>5, LiesSplit
  <2>7. Len(u) \in Nat /\ Len(v) \in Nat /\ Len(w) \in Nat /\ Len(x) \in Nat
    BY <1>3
  <2> QED
    BY <2>1, <2>2, <2>3, <2>4, <2>5, <2>6, <2>7
<1>5. b = [value |-> e.block - at.block, next |-> i + Len(u)] /\ i + Len(u) \in Positions
  BY <1>1, <1>2, <1>4, ReadVarint
<1>6. t = [value |-> e.tx - at.tx, next |-> (i + Len(u)) + Len(v)] /\ (i + Len(u)) + Len(v) \in Positions
  <2>1. t = DecodeVarint(bytes, i + Len(u))
    BY <1>5
  <2> QED
    BY <2>1, <1>2, <1>4, <1>5, ReadVarint
<1>7. a = [value |-> e.amount, next |-> (i + (Len(u) + Len(v))) + Len(w)] /\ (i + (Len(u) + Len(v))) + Len(w) \in Positions
  <2>1. (i + Len(u)) + Len(v) = i + (Len(u) + Len(v))
    <3> HIDE DEF u, v, i
    <3> QED
      BY <1>1, <1>4
  <2>2. a = DecodeVarint(bytes, i + (Len(u) + Len(v)))
    <3>1. t.next = (i + Len(u)) + Len(v)
      BY <1>6
    <3> QED
      BY <3>1, <2>1
  <2> QED
    BY <2>1, <2>2, <1>2, <1>4, <1>6, ReadVarint
<1>8. o = [value |-> e.output, next |-> (i + (Len(u) + Len(v) + Len(w))) + Len(x)]
  <2>1. (i + (Len(u) + Len(v))) + Len(w) = i + (Len(u) + Len(v) + Len(w))
    <3> HIDE DEF u, v, w, i
    <3> QED
      BY <1>1, <1>4
  <2>2. o = DecodeVarint(bytes, i + (Len(u) + Len(v) + Len(w)))
    <3>1. a.next = (i + (Len(u) + Len(v))) + Len(w)
      BY <1>7
    <3> QED
      BY <3>1, <2>1
  <2> QED
    BY <2>1, <2>2, <1>2, <1>4, <1>7, ReadVarint
<1>9. /\ TakenAt(bytes, at) = [block |-> at.block + b.value, tx |-> at.tx + t.value, amount |-> a.value, output |-> o.value]
      /\ PlaceAfter(bytes, at) = [offset |-> o.next, block |-> at.block + b.value, tx |-> at.tx + t.value]
  BY DEF TakenAt, PlaceAfter
<1>10. e.block \in Nat /\ e.tx \in Nat /\ e = [block |-> e.block, tx |-> e.tx, amount |-> e.amount, output |-> e.output]
  BY DEF EdictRecords
<1>11. i <= Len(bytes)
  <2>1. i + Len(EncodeEdict(e, at)) <= Len(bytes) + 1 /\ Len(bytes) \in Nat
    BY DEF LiesAt
  <2>2. i \in Nat \ {0} /\ Len(EncodeEdict(e, at)) \in Nat \ {0}
    BY <1>1, <1>2
  <2> DEFINE m == Len(EncodeEdict(e, at))
  <2> HIDE DEF i, m
  <2> QED
    BY <2>1, <2>2 DEF m
<1>12. (i + (Len(u) + Len(v) + Len(w))) + Len(x) = i + Len(EncodeEdict(e, at))
  <2>1. Len(EncodeEdict(e, at)) = Len(u) + Len(v) + Len(w) + Len(x)
    BY <1>2, <1>4
  <2> HIDE DEF u, v, w, x, i
  <2> QED
    BY <1>1, <1>4, <2>1
<1>13. at.block + (e.block - at.block) = e.block /\ at.tx + (e.tx - at.tx) = e.tx
  BY <1>1, <1>10
<1> HIDE DEF b, t, a, o, u, v, w, x
<1> QED
  BY <1>5, <1>6, <1>7, <1>8, <1>9, <1>10, <1>11, <1>12, <1>13

(* A runestone is read as it was written. *)
LEMMA RunestoneRead ==
  ASSUME NEW edicts, Encodable(edicts)
  PROVE  DecodeRunestone(EncodeRunestone(edicts)) = edicts
<1> DEFINE n == Len(edicts)
           before(i) == IF i = 1 THEN Origin ELSE edicts[i - 1]
           parts == [i \in 1 .. n |-> EncodeEdict(edicts[i], before(i))]
           bytes == Payload(edicts)
           tag == Varint[0]
           script == EncodeRunestone(edicts)
<1>0. n \in Nat /\ edicts \in Seq(EdictRecords) /\ \A i \in 1 .. n : edicts[i] \in EdictRecords
  BY DEF Encodable
<1>1. CASE edicts = <<>>
  <2>1. Payload(edicts) = <<>> /\ Len(<<>>) = 0 /\ 0 % LengthByte = 0
    BY <1>1, RunestoneAssumption DEF Payload
  <2>2. script = [length |-> 0, payload |-> <<>>]
    BY <2>1 DEF EncodeRunestone
  <2>3. SubSeq(script.payload, 1, script.length) = <<>>
    BY <2>2
  <2> HIDE DEF script
  <2>4. DecodeRunestone(script) = <<>>
    BY <2>3, DecodeDef
  <2> QED
    BY <1>1, <2>4 DEF script
<1>2. CASE edicts # <<>>
  <2>0. n # 0
    BY <1>0, <1>2
  <2>1. ASSUME NEW i \in 1 .. n
        PROVE  /\ edicts[i] \in EdictRecords
               /\ before(i).block \in Nat /\ before(i).tx \in Nat
               /\ before(i).block <= edicts[i].block /\ before(i).tx <= edicts[i].tx
    <3>1. edicts[i].block \in Nat /\ edicts[i].tx \in Nat /\ edicts[i] \in EdictRecords
      BY <1>0 DEF EdictRecords
    <3>2. CASE i = 1
      BY <3>1, <3>2 DEF Origin
    <3>3. CASE i # 1
      <4>1. i \in 2 .. n /\ i - 1 \in 1 .. n
        BY <1>0, <3>3
      <4>2. edicts[i - 1].block \in Nat /\ edicts[i - 1].tx \in Nat
        BY <1>0, <4>1 DEF EdictRecords
      <4>3. edicts[i - 1].block <= edicts[i].block /\ edicts[i - 1].tx <= edicts[i].tx
        BY <4>1 DEF Encodable
      <4> QED
        BY <3>1, <3>3, <4>2, <4>3
    <3> QED
      BY <3>2, <3>3
  <2>2. ASSUME NEW i \in 1 .. n
        PROVE  parts[i] \in Seq(Nat) /\ Len(parts[i]) \in Nat \ {0}
    <3> HIDE DEF before
    <3> QED
      BY <2>1, EdictEncoded
  <2>3. parts \in Seq(Seq(Nat)) /\ Len(parts) = n
    <3>1. parts \in [1 .. n -> Seq(Nat)]
      BY <2>2
    <3> HIDE DEF parts
    <3> QED
      BY <1>0, <3>1
  <2>4. PICK f \in [0 .. n -> Seq(Nat)] : Flattens(f, parts) /\ FlattenSeq(parts) = f[n]
    <3> HIDE DEF parts
    <3> QED
      BY <2>3, FlattenIs
  <2>5. bytes = tag \o f[n]
    <3>1. Payload(edicts) = EncodeVarint(0) \o FlattenSeq(parts)
      BY <1>2 DEF Payload
    <3> HIDE DEF parts
    <3> QED
      BY <2>4, <3>1, VarintDef
  <2>6. tag \in Seq(Nat) /\ Len(tag) \in Nat \ {0}
    BY VarintType, VarintLength
  <2>7. f[n] \in Seq(Nat) /\ Len(f[n]) \in Nat
    <3>1. f[n] \in Seq(Nat)
      BY <1>0
    <3> QED
      BY <3>1
  <2> HIDE DEF bytes, tag
  <2>8. bytes \in Seq(Nat) /\ Len(bytes) = Len(tag) + Len(f[n]) /\ Len(bytes) \in Nat
    BY <2>5, <2>6, <2>7
  <2>9. LiesAt(tag, bytes, 1) /\ LiesAt(f[n], bytes, 1 + Len(tag))
    <3> DEFINE body == f[n]
    <3>1. LiesAt(tag \o body, bytes, 1)
      BY <2>5, <2>8, LiesItself
    <3>2. body \in Seq(Nat) /\ 1 \in Nat \ {0}
      BY <2>7
    <3> HIDE DEF body
    <3>3. LiesAt(tag, bytes, 1) /\ LiesAt(body, bytes, 1 + Len(tag))
      BY <2>6, <2>8, <3>1, <3>2, LiesSplit
    <3> QED
      BY <3>3 DEF body
  <2> DEFINE o(k) == 1 + Len(tag) + Len(f[k])
             at(k) == [offset |-> o(k), block |-> before(k + 1).block, tx |-> before(k + 1).tx]
             r == From(bytes)
  <2>10. ASSUME NEW k \in 0 .. n
         PROVE  o(k) \in Nat \ {0} /\ f[k] \in Seq(Nat) /\ Len(f[k]) \in Nat
    <3>1. f[k] \in Seq(Nat)
      OBVIOUS
    <3>2. Len(f[k]) \in Nat
      BY <3>1
    <3> QED
      BY <2>6, <3>1, <3>2
  <2>11. o(0) = 1 + Len(tag) /\ o(n) = Len(bytes) + 1
    <3>1. Len(f[0]) = 0
      BY <2>4 DEF Flattens
    <3> QED
      <4> DEFINE body == f[n]
      <4>1. o(0) = 1 + Len(tag) + Len(f[0]) /\ o(n) = 1 + Len(tag) + Len(body)
        OBVIOUS
      <4> HIDE DEF o
      <4>2. Len(body) \in Nat /\ Len(bytes) = Len(tag) + Len(body)
        BY <2>7, <2>8
      <4> HIDE DEF body
      <4> QED
        BY <2>6, <3>1, <4>1, <4>2
  <2>12. ASSUME NEW k \in 0 .. n, k < n
         PROVE  r[at(k)] = <<edicts[k + 1]>> \o r[at(k + 1)]
    <3> DEFINE e == edicts[k + 1]
               p == before(k + 1)
               here == at(k)
    <3>1. k + 1 \in 1 .. n /\ k + 1 \in 0 .. n /\ (k + 1) - 1 = k /\ before((k + 1) + 1) = e
      BY <1>0, <2>12
    <3>2. e \in EdictRecords /\ p.block \in Nat /\ p.tx \in Nat /\ p.block <= e.block /\ p.tx <= e.tx
      <4> HIDE DEF before
      <4> QED
        BY <2>1, <3>1
    <3>3. parts[k + 1] = EncodeEdict(e, p)
      BY <3>1
    <3>4. EncodeEdict(e, here) = EncodeEdict(e, p)
      <4> HIDE DEF before, o
      <4> QED
        BY DEF EncodeEdict
    <3>5. /\ LiesAt(parts[k + 1], f[n], Len(f[k]) + 1)
          /\ Len(f[k + 1]) = Len(f[k]) + Len(parts[k + 1])
          /\ parts[k + 1] \in Seq(Nat) /\ Len(parts[k + 1]) \in Nat
      <4> DEFINE m == k + 1
      <4>1. m \in 1 .. n /\ m - 1 = k
        BY <3>1
      <4>2. parts[m] \in Seq(Nat) /\ Len(parts[m]) \in Nat
        BY <2>2, <4>1
      <4> HIDE DEF parts, n, m
      <4>3. /\ LiesAt(parts[m], f[n], Len(f[m - 1]) + 1)
            /\ Len(f[m]) = Len(f[m - 1]) + Len(parts[m])
        BY <2>3, <2>4, <4>1, FlattenLies
      <4>4. /\ LiesAt(parts[m], f[n], Len(f[k]) + 1)
            /\ Len(f[m]) = Len(f[k]) + Len(parts[m])
        BY <4>1, <4>3
      <4> QED
        BY <4>2, <4>4 DEF m
    <3>6. LiesAt(parts[k + 1], bytes, o(k))
      <4>1. Len(f[k]) + 1 \in Nat \ {0} /\ 1 + Len(tag) \in Nat \ {0} /\ (1 + Len(tag)) + (Len(f[k]) + 1) - 1 = o(k)
        BY <2>6, <2>10
      <4> HIDE DEF parts, o
      <4>2. LiesAt(parts[k + 1], bytes, (1 + Len(tag)) + (Len(f[k]) + 1) - 1)
        BY <2>7, <2>8, <2>9, <3>5, <4>1, LiesIn
      <4> QED
        BY <4>1, <4>2
    <3>7. here \in Places /\ here.offset = o(k) /\ here.block = p.block /\ here.tx = p.tx
      <4> HIDE DEF before, o
      <4> QED
        BY <2>10, <3>2 DEF Places
    <3>8. /\ TakenAt(bytes, here) = e
          /\ PlaceAfter(bytes, here) = [offset |-> o(k) + Len(EncodeEdict(e, p)), block |-> e.block, tx |-> e.tx]
          /\ o(k) <= Len(bytes)
      <4>1. here.block <= e.block /\ here.tx <= e.tx /\ LiesAt(EncodeEdict(e, here), bytes, here.offset)
        BY <3>2, <3>3, <3>4, <3>6, <3>7
      <4> HIDE DEF here, e, p, o
      <4> QED
        BY <2>8, <3>2, <3>4, <3>7, <4>1, ReadEdict
    <3>9. PlaceAfter(bytes, here) = at(k + 1)
      <4>1. o(k + 1) = o(k) + Len(EncodeEdict(e, p))
        <5>1. o(k + 1) = 1 + Len(tag) + Len(f[k + 1])
          OBVIOUS
        <5>2. o(k) = 1 + Len(tag) + Len(f[k])
          OBVIOUS
        <5>3. Len(f[k]) \in Nat
          BY <2>10
        <5> HIDE DEF o, parts
        <5> QED
          BY <2>6, <3>3, <3>5, <5>1, <5>2, <5>3
      <4>2. at(k + 1) = [offset |-> o(k + 1), block |-> e.block, tx |-> e.tx]
        BY <3>1
      <4> HIDE DEF here, o, at, e, p
      <4> QED
        BY <3>8, <4>1, <4>2
    <3>10. r[here] = IF here.offset > Len(bytes) THEN <<>> ELSE <<TakenAt(bytes, here)>> \o r[PlaceAfter(bytes, here)]
      <4>1. IsFrom(r, bytes)
        BY <2>8, FromType
      <4> HIDE DEF here, r
      <4> QED
        BY <3>7, <4>1 DEF IsFrom
    <3>11. ~(o(k) > Len(bytes))
      BY <2>8, <2>10, <3>8
    <3> HIDE DEF r, at, o, e
    <3> QED
      BY <3>7, <3>8, <3>9, <3>10, <3>11 DEF e
  <2>13. ASSUME NEW k \in 0 .. n
         PROVE  at(k) \in Places /\ r[at(k)] \in Seq(EdictRecords)
    <3>1. before(k + 1).block \in Nat /\ before(k + 1).tx \in Nat
      <4>1. CASE k = 0
        BY <4>1 DEF Origin
      <4>2. CASE k # 0
        <5>1. k + 1 # 1 /\ (k + 1) - 1 = k /\ k \in 1 .. n
          BY <1>0, <4>2
        <5> QED
          BY <1>0, <5>1 DEF EdictRecords
      <4> QED
        BY <4>1, <4>2
    <3>2. at(k) \in Places
      <4> HIDE DEF o, before
      <4> QED
        BY <2>10, <3>1 DEF Places
    <3> HIDE DEF at
    <3> QED
      BY <2>8, <3>2, FromType
  <2> DEFINE R == [k \in 0 .. n |-> r[at(k)]]
             singles == [k \in 1 .. n |-> <<edicts[k]>>]
             f1 == [k \in 0 .. n |-> SubSeq(edicts, 1, k)]
  <2>14. R \in [0 .. n -> Seq(EdictRecords)]
    <3> HIDE DEF at, r
    <3> QED
      BY <2>13
  <2>15. ASSUME NEW k \in 1 .. n
         PROVE  R[k - 1] = singles[k] \o R[k]
    <3>1. k - 1 \in 0 .. n /\ k - 1 < n /\ (k - 1) + 1 = k /\ k \in 0 .. n
      BY <1>0
    <3>2. r[at(k - 1)] = <<edicts[(k - 1) + 1]>> \o r[at((k - 1) + 1)]
      BY <2>12, <3>1
    <3> HIDE DEF at, r
    <3> QED
      BY <3>1, <3>2
  <2>16. r[at(0)] = edicts \o r[at(n)]
    <3>1. /\ singles \in Seq(Seq(EdictRecords)) /\ Len(singles) = n
          /\ f1 \in [0 .. n -> Seq(EdictRecords)]
          /\ Flattens(f1, singles)
      BY <1>0, SingletonsFlatten
    <3>2. f1[n] = edicts
      BY <1>0
    <3>3. R[0] = r[at(0)] /\ R[n] = r[at(n)]
      <4> HIDE DEF at, r
      <4> QED
        BY <1>0
    <3> HIDE DEF R, singles, f1
    <3>4. Leaves(R, singles)
      <4> HIDE DEF n
      <4> QED
        BY <2>15, <3>1 DEF Leaves
    <3>5. R[0] = f1[n] \o R[n]
      <4> HIDE DEF n
      <4> QED
        BY <2>14, <3>1, <3>4, FlattenReads
    <3> HIDE DEF at, r
    <3> QED
      BY <3>2, <3>3, <3>5
  <2>17. r[at(n)] = <<>>
    <3> DEFINE end == at(n)
    <3>1. end \in Places /\ end.offset > Len(bytes)
      <4>1. n \in 0 .. n
        BY <1>0
      <4>2. end \in Places
        BY <2>13, <4>1
      <4>3. end.offset = Len(bytes) + 1
        BY <2>11
      <4> HIDE DEF end
      <4> QED
        BY <2>8, <4>2, <4>3
    <3>2. IsFrom(r, bytes)
      BY <2>8, FromType
    <3> HIDE DEF end, r
    <3>3. r[end] = <<>>
      BY <3>1, <3>2 DEF IsFrom
    <3> QED
      BY <3>3 DEF end
  <2>18. r[at(0)] = edicts
    <3>1. edicts \o <<>> = edicts
      BY <1>0
    <3> HIDE DEF at, r
    <3> QED
      BY <2>16, <2>17, <3>1
  <2>19. script = [length |-> Len(bytes), payload |-> bytes]
    <3>1. Len(bytes) < LengthByte
      BY DEF Encodable, bytes
    <3>2. Len(bytes) % LengthByte = Len(bytes)
      BY <2>8, <3>1, RunestoneAssumption, ModSmall
    <3> QED
      BY <3>2 DEF EncodeRunestone, bytes
  <2>20. SubSeq(script.payload, 1, script.length) = bytes
    <3>1. SubSeq(bytes, 1, Len(bytes)) = bytes
      BY <2>8
    <3> HIDE DEF script
    <3> QED
      BY <2>19, <3>1
  <2>21. DecodeVarint(bytes, 1) = [value |-> 0, next |-> 1 + Len(tag)]
    <3>1. 1 \in Positions
      BY DEF Positions
    <3> QED
      BY <2>8, <2>9, <3>1, ReadVarint DEF tag
  <2>22. bytes # <<>>
    BY <2>6, <2>7, <2>8
  <2>23. at(0) = [offset |-> 1 + Len(tag), block |-> 0, tx |-> 0]
    <3>1. before(0 + 1) = Origin
      OBVIOUS
    <3> HIDE DEF before, o
    <3> QED
      BY <2>11, <3>1 DEF Origin
  <2>24. DecodeRunestone(script) = r[[offset |-> 1 + Len(tag), block |-> 0, tx |-> 0]]
    <3> HIDE DEF script
    <3>1. DecodeVarint(bytes, 1).value = 0 /\ DecodeVarint(bytes, 1).next = 1 + Len(tag)
      BY <2>21
    <3> HIDE DEF r
    <3>2. From(bytes) = r
      BY DEF r
    <3> QED
      BY <2>20, <2>22, <3>1, <3>2, DecodeDef
  <2> HIDE DEF at, r
  <2> QED
    BY <2>18, <2>23, <2>24
<1> QED
  BY <1>1, <1>2

-----------------------------------------------------------------------------
(* The amount. *)

(* What the assumption says of the constants. *)
LEMMA InvoiceConstants ==
  /\ WordBase \in Nat /\ WordBase > 1 /\ WordBase > 0
  /\ Satoshi \in Nat /\ Satoshi > 0
  /\ \A u \in {"bitcoin", "m", "u", "n"} : Millis[u] \in Nat /\ Millis[u] > 0
<1>1. WordBase \in Nat /\ WordBase > 1 /\ Satoshi \in Nat \ {0}
  BY InvoiceAssumption
<1>2. \A u \in {"bitcoin", "m", "u", "n"} : Millis[u] \in Nat \ {0}
  BY InvoiceAssumption
<1> QED
  BY <1>1, <1>2

(* The unit of a prefix is the largest that divides the amount, or it is the smallest. *)
LEMMA HrpIs ==
  ASSUME NEW s \in Nat
  PROVE  LET h == SatoshisToHrp(s)
         IN \/ /\ h.unit \in {"bitcoin", "m", "u", "n"} /\ Fits(s * Satoshi, h.unit)
               /\ h.number = (s * Satoshi) \div Millis[h.unit]
            \/ h.unit = "p" /\ h.number = (s * Satoshi) * 10
<1> DEFINE msat == s * Satoshi
<1>1. CASE Fits(msat, "bitcoin")
  BY <1>1 DEF SatoshisToHrp
<1>2. CASE ~Fits(msat, "bitcoin") /\ Fits(msat, "m")
  BY <1>2 DEF SatoshisToHrp
<1>3. CASE ~Fits(msat, "bitcoin") /\ ~Fits(msat, "m") /\ Fits(msat, "u")
  BY <1>3 DEF SatoshisToHrp
<1>4. CASE ~Fits(msat, "bitcoin") /\ ~Fits(msat, "m") /\ ~Fits(msat, "u") /\ Fits(msat, "n")
  BY <1>4 DEF SatoshisToHrp
<1>5. CASE ~Fits(msat, "bitcoin") /\ ~Fits(msat, "m") /\ ~Fits(msat, "u") /\ ~Fits(msat, "n")
  BY <1>5 DEF SatoshisToHrp
<1> QED
  BY <1>1, <1>2, <1>3, <1>4, <1>5

(* The prefix the mint writes is read as the amount, by both readers. *)
LEMMA HrpRead ==
  ASSUME NEW s \in Nat
  PROVE  /\ ParsePrefix(SatoshisToHrp(s)) = s
         /\ SatoshisToHrp(s).unit # "bitcoin" => DecodeBolt11AmountSats(SatoshisToHrp(s)) = s
<1> DEFINE h == SatoshisToHrp(s)
           msat == s * Satoshi
<1>0. Satoshi \in Nat \ {0} /\ msat \in Nat /\ msat = Satoshi * s
  BY InvoiceConstants
<1>1. \/ /\ h.unit \in {"bitcoin", "m", "u", "n"} /\ Fits(msat, h.unit)
         /\ h.number = msat \div Millis[h.unit]
      \/ h.unit = "p" /\ h.number = msat * 10
  BY HrpIs
<1>2. msat \div Satoshi = s
  BY <1>0, Multiple
<1>3. (msat * 10) % (Satoshi * 10) = 0 /\ (msat * 10) \div (Satoshi * 10) = s
  <2>1. Satoshi * 10 \in Nat \ {0} /\ msat * 10 = (Satoshi * 10) * s
    BY <1>0
  <2> DEFINE c == Satoshi * 10
  <2>2. c \in Nat \ {0} /\ msat * 10 = c * s
    BY <2>1
  <2> HIDE DEF msat, c
  <2>3. (msat * 10) % c = 0 /\ (msat * 10) \div c = s
    BY <2>2, Multiple
  <2> QED
    BY <2>3 DEF c
<1> HIDE DEF h, msat
<1>4. CASE h.unit = "p" /\ h.number = msat * 10
  <2>1. (msat * 10) \div 10 = msat
    <3>1. msat * 10 = 10 * msat /\ 10 \in Nat \ {0} /\ msat \in Int
      BY <1>0
    <3> QED
      BY <3>1, Multiple
  <2>2. ParsePrefix(h) = s
    BY <1>2, <1>4, <2>1 DEF ParsePrefix
  <2>3. AsMatched(h) = h
    BY <1>4 DEF AsMatched
  <2>4. DecodeBolt11AmountSats(h) = s
    BY <1>3, <1>4, <2>3 DEF DecodeBolt11AmountSats
  <2> QED
    BY <2>2, <2>4 DEF h
<1>5. CASE h.unit \in {"bitcoin", "m", "u", "n"} /\ Fits(msat, h.unit) /\ h.number = msat \div Millis[h.unit]
  <2> DEFINE p == Millis[h.unit]
  <2>1. p \in Nat \ {0}
    BY <1>5, InvoiceConstants
  <2>2. msat % p = 0 /\ h.unit # "p"
    BY <1>5 DEF Fits
  <2>3. h.number = msat \div p
    BY <1>5
  <2> HIDE DEF p
  <2>4. msat = p * h.number /\ h.number \in Nat
    BY <1>0, <2>1, <2>2, <2>3, NoRest
  <2>5. h.number * p = msat /\ h.number * p * 10 = msat * 10
    BY <2>1, <2>4
  <2>6. ParsePrefix(h) = s
    BY <1>2, <2>2, <2>5 DEF ParsePrefix, p
  <2>7. h.unit # "bitcoin" => DecodeBolt11AmountSats(h) = s
    <3> SUFFICES ASSUME h.unit # "bitcoin" PROVE DecodeBolt11AmountSats(h) = s
      OBVIOUS
    <3>1. AsMatched(h) = h
      BY DEF AsMatched
    <3> QED
      BY <1>3, <2>2, <2>5, <3>1 DEF DecodeBolt11AmountSats, p
  <2> QED
    BY <2>6, <2>7 DEF h
<1> QED
  BY <1>1, <1>4, <1>5

(* An amount that is read is the one the prefix names. *)
LEMMA PaymentRead ==
  ASSUME NEW a, a.unit \in {"bitcoin", "m", "u", "n", "p"}, a.number \in Nat,
         DecodeBolt11AmountSats(a) # NotWhole
  PROVE  IF a.unit = "p" THEN DecodeBolt11AmountSats(a) * Satoshi * 10 = a.number
         ELSE DecodeBolt11AmountSats(a) * Satoshi = a.number * Millis[a.unit]
<1> DEFINE read == AsMatched(a)
           pico == IF read.unit = "p" THEN read.number ELSE read.number * Millis[read.unit] * 10
           p == Satoshi * 10
           d == DecodeBolt11AmountSats(a)
<1>0. Satoshi \in Nat \ {0} /\ p \in Nat \ {0}
  BY InvoiceConstants
<1>1. d = (IF pico % p = 0 THEN pico \div p ELSE NotWhole)
  BY DEF DecodeBolt11AmountSats
<1> HIDE DEF d
<1>2. pico % p = 0 /\ d = pico \div p
  <2> HIDE DEF pico, p
  <2> QED
    BY <1>1 DEF d
<1>3. CASE a.unit = "p"
  <2>1. read = a /\ pico = a.number
    BY <1>3 DEF AsMatched
  <2> HIDE DEF read, pico
  <2>2. a.number = p * d /\ d \in Nat
    BY <1>0, <1>2, <2>1, NoRest
  <2>3. d * Satoshi * 10 = a.number
    BY <1>0, <2>2
  <2> QED
    BY <1>3, <2>3 DEF d
<1>4. CASE a.unit \in {"m", "u", "n"}
  <2> DEFINE m == Millis[a.unit]
  <2>1. m \in Nat
    BY <1>4, InvoiceConstants
  <2>2. read = a /\ a.unit # "p"
    BY <1>4 DEF AsMatched
  <2>3. pico = a.number * m * 10
    BY <2>2
  <2> HIDE DEF read, pico, m
  <2>4. pico \in Nat /\ a.number * m \in Nat
    BY <2>1, <2>3
  <2>5. pico = p * d /\ d \in Nat
    BY <1>0, <1>2, <2>4, NoRest
  <2>6. d * Satoshi \in Nat /\ p * d = (d * Satoshi) * 10
    BY <1>0, <2>5
  <2>7. d * Satoshi = a.number * m
    BY <2>3, <2>4, <2>5, <2>6
  <2> QED
    BY <2>2, <2>7 DEF d, m
<1>5. CASE a.unit = "bitcoin"
  <2>1. read = [unit |-> "p", number |-> a.number * 10 + 1]
    BY <1>5 DEF AsMatched
  <2>2. pico = a.number * 10 + 1
    BY <2>1
  <2> HIDE DEF read, pico
  <2>3. pico \in Nat
    BY <2>2
  <2>4. pico = p * d /\ d \in Nat
    BY <1>0, <1>2, <2>3, NoRest
  <2>5. Satoshi * d \in Nat /\ p * d = (Satoshi * d) * 10
    BY <1>0, <2>4
  <2>6. FALSE
    BY <2>2, <2>4, <2>5
  <2> QED
    BY <2>6
<1> QED
  BY <1>3, <1>4, <1>5

-----------------------------------------------------------------------------
(* Words. *)

(* The recursion of WordsToInt is well-founded. *)
LEMMA TotalIs ==
  ASSUME NEW words \in Seq(Nat)
  PROVE  \E f \in [0 .. Len(words) -> Nat] :
           /\ WordsToInt(words) = f[Len(words)]
           /\ f = [k \in 0 .. Len(words) |-> IF k = 0 THEN 0 ELSE f[k - 1] * WordBase + words[k]]
<1> DEFINE n == Len(words)
           D == 0 .. n
           stop == {0}
           next == [k \in D |-> k - 1]
           size == [k \in D |-> k]
           base == [k \in D |-> 0]
           step == [k \in D |-> [v \in Nat |-> v * WordBase + words[k]]]
           Is(f) == f = [k \in D |-> IF k = 0 THEN 0 ELSE f[k - 1] * WordBase + words[k]]
           t == CHOOSE f : Is(f)
<1>0. n \in Nat /\ WordBase \in Nat /\ \A k \in D : k # 0 => words[k] \in Nat /\ k - 1 \in D
  BY InvoiceConstants
<1>1. Shrinks(D, stop, next, size)
  BY <1>0 DEF Shrinks
<1>2. Stays(D, Nat, stop, base, step)
  <2>1. ASSUME NEW k \in D, k # 0, NEW v \in Nat
        PROVE  v * WordBase + words[k] \in Nat
    BY <1>0, <2>1
  <2> QED
    BY <2>1 DEF Stays
<1>3. PICK f : f \in [D -> Nat] /\ Follows(f, D, stop, next, base, step)
  <2> HIDE DEF D, stop, next, size, base, step
  <2> QED
    BY <1>1, <1>2, PathFunction
<1>4. Is(f)
  <2>1. ASSUME NEW k \in D
        PROVE  f[k] = IF k = 0 THEN 0 ELSE f[k - 1] * WordBase + words[k]
    <3>1. k # 0 => f[k - 1] \in Nat
      BY <1>0, <1>3
    <3> QED
      BY <1>3, <3>1 DEF Follows
  <2> QED
    BY <2>1, <1>3
<1>5. Is(t)
  <2> HIDE DEF Is
  <2> QED
    BY <1>4
<1>6. WordsToInt(words) = t[n]
  BY DEF WordsToInt
<1> DEFINE G == {k \in D : t[k] \in Nat}
<1>7. D \subseteq G
  <2>1. ASSUME NEW k \in D, k \in stop \/ next[k] \in G
        PROVE  t[k] \in Nat
    <3> HIDE DEF t
    <3>1. t[k] = IF k = 0 THEN 0 ELSE t[k - 1] * WordBase + words[k]
      BY <1>5
    <3>2. CASE k = 0
      BY <3>1, <3>2
    <3>3. CASE k # 0
      <4>1. t[k - 1] \in Nat
        BY <2>1, <3>3
      <4>2. words[k] \in Nat
        BY <1>0, <3>3
      <4>3. t[k - 1] * WordBase \in Nat
        BY <4>1, InvoiceAssumption
      <4>4. t[k] = t[k - 1] * WordBase + words[k]
        BY <3>1, <3>3
      <4> QED
        BY <4>2, <4>3, <4>4
    <3> QED
      BY <3>2, <3>3
  <2>2. \A k \in D : k \in stop \/ next[k] \in G => k \in G
    BY <2>1
  <2> HIDE DEF D, G, stop, next, size
  <2> QED
    BY <1>1, <2>2, PathInduction
<1> HIDE DEF t
<1>8. t \in [D -> Nat]
  BY <1>5, <1>7
<1> QED
  BY <1>5, <1>6, <1>8

(* Words are read as a number. *)
LEMMA WordsType ==
  ASSUME NEW words \in Seq(Nat)
  PROVE  WordsToInt(words) \in Nat
<1>1. Len(words) \in 0 .. Len(words)
  OBVIOUS
<1> QED
  BY <1>1, TotalIs

(* Two words are a number in the base. *)
LEMMA TwoWords ==
  ASSUME NEW q \in Nat, NEW d \in Nat
  PROVE  WordsToInt(<<q, d>>) = q * WordBase + d
<1> DEFINE w == <<q, d>>
<1>1. w \in Seq(Nat) /\ Len(w) = 2 /\ w[1] = q /\ w[2] = d
  OBVIOUS
<1> HIDE DEF w
<1>2. PICK f \in [0 .. 2 -> Nat] :
        /\ WordsToInt(w) = f[2]
        /\ f = [k \in 0 .. 2 |-> IF k = 0 THEN 0 ELSE f[k - 1] * WordBase + w[k]]
  BY <1>1, TotalIs
<1>3. f[0] = 0 /\ f[1] = f[0] * WordBase + w[1] /\ f[2] = f[1] * WordBase + w[2]
  BY <1>2
<1>4. 0 * WordBase = 0 /\ 0 + q = q
  BY InvoiceConstants
<1>5. f[1] = q
  BY <1>1, <1>3, <1>4
<1> QED
  BY <1>1, <1>2, <1>3, <1>5 DEF w

-----------------------------------------------------------------------------
(* The tagged fields. *)

IsWords(f) ==
  f = [n \in Nat |-> IF n < WordBase THEN <<n>> ELSE Append(f[n \div WordBase], n % WordBase)]

WordsOf == CHOOSE f : IsWords(f)

(* IntToWords by the name of its recursive function. *)
LEMMA WordsDef ==
  ASSUME NEW n
  PROVE  IntToWords(n) = WordsOf[n]
  BY DEF IntToWords, WordsOf, IsWords

(* The recursion of IntToWords is well-founded. *)
LEMMA WordsAre == IsWords(WordsOf)
<1> DEFINE stop == {n \in Nat : n < WordBase}
           next == [n \in Nat |-> n \div WordBase]
           size == [n \in Nat |-> n]
           base == [n \in Nat |-> <<n>>]
           step == [n \in Nat |-> [v \in Seq(Nat) |-> Append(v, n % WordBase)]]
<1>0. \A n \in Nat : /\ n \div WordBase \in Nat /\ n % WordBase \in Nat
                     /\ ~(n < WordBase) => n \div WordBase < n
  <2> TAKE n \in Nat
  <2>1. WordBase \in Nat /\ WordBase > 1
    BY InvoiceConstants
  <2>2. n \div WordBase \in Nat /\ n % WordBase \in 0 .. WordBase - 1 /\ (n > 0 => n \div WordBase < n)
    BY <2>1, DivideNat
  <2> QED
    BY <2>1, <2>2
<1>1. Shrinks(Nat, stop, next, size)
  BY <1>0 DEF Shrinks
<1>2. Stays(Nat, Seq(Nat), stop, base, step)
  BY <1>0 DEF Stays
<1>3. PICK f : f \in [Nat -> Seq(Nat)] /\ Follows(f, Nat, stop, next, base, step)
  <2> HIDE DEF stop, next, size, base, step
  <2> QED
    BY <1>1, <1>2, PathFunction
<1>4. IsWords(f)
  <2>1. ASSUME NEW n \in Nat
        PROVE  f[n] = IF n < WordBase THEN <<n>> ELSE Append(f[n \div WordBase], n % WordBase)
    <3>1. f[n \div WordBase] \in Seq(Nat)
      BY <1>0, <1>3
    <3> QED
      BY <1>3, <3>1 DEF Follows
  <2> QED
    BY <2>1, <1>3 DEF IsWords
<1> QED
  BY <1>4 DEF WordsOf

(* The length of a field takes two words. *)
LEMMA LengthWords ==
  ASSUME NEW n \in Nat, n < WordBase * WordBase
  PROVE  /\ LeftPadWords(IntToWords(n), 2) = <<n \div WordBase, n % WordBase>>
         /\ n \div WordBase \in Nat /\ n % WordBase \in Nat
         /\ n = (n \div WordBase) * WordBase + (n % WordBase)
<1> DEFINE q == n \div WordBase
           d == n % WordBase
<1>1. q \in Nat /\ d \in 0 .. WordBase - 1 /\ n = WordBase * q + d /\ WordBase \in Nat
  BY InvoiceConstants, DivideNat
<1>2. WordsOf[n] = IF n < WordBase THEN <<n>> ELSE Append(WordsOf[q], d)
  BY WordsAre DEF IsWords
<1>3. CASE n < WordBase
  <2>1. q = 0 /\ d = n
    BY <1>3, InvoiceConstants, ModSmall
  <2>2. IntToWords(n) = <<n>> /\ Len(<<n>>) = 1
    BY <1>2, <1>3, WordsDef
  <2>3. LeftPadWords(<<n>>, 2) = <<0>> \o <<n>>
    <3>1. 2 - Len(<<n>>) = 1
      BY <2>2
    <3>2. [i \in 1 .. 1 |-> 0] = <<0>>
      OBVIOUS
    <3> QED
      BY <3>1, <3>2 DEF LeftPadWords
  <2>4. <<0>> \o <<n>> = <<0, n>>
    BY PairOf
  <2> HIDE DEF q, d
  <2>5. <<q, d>> = <<0, n>>
    BY <2>1
  <2> QED
    BY <1>1, <2>2, <2>3, <2>4, <2>5 DEF q, d
<1>4. CASE ~(n < WordBase)
  <2>1. q < WordBase
    <3> HIDE DEF q, d
    <3>1. ASSUME q >= WordBase PROVE FALSE
      <4>1. WordBase * q >= WordBase * WordBase
        BY <1>1, <3>1
      <4>2. WordBase * q \in Nat /\ WordBase * WordBase \in Nat
        BY <1>1
      <4> QED
        BY <1>1, <4>1, <4>2
    <3> QED
      BY <1>1, <3>1
  <2>2. WordsOf[q] = <<q>>
    <3> HIDE DEF q
    <3> QED
      BY <1>1, <2>1, WordsAre DEF IsWords
  <2> HIDE DEF q, d
  <2>3. IntToWords(n) = <<q, d>>
    <3>1. d \in Nat
      BY <1>1
    <3>2. IntToWords(n) = Append(<<q>>, d)
      BY <1>2, <1>4, <2>2, WordsDef
    <3> QED
      BY <1>1, <3>1, <3>2, PairOf
  <2>4. LeftPadWords(<<q, d>>, 2) = <<q, d>>
    <3>1. 2 - Len(<<q, d>>) = 0 /\ <<q, d>> \in Seq(Nat)
      BY <1>1
    <3>2. [i \in 1 .. 0 |-> 0] = <<>>
      OBVIOUS
    <3>3. <<>> \o <<q, d>> = <<q, d>>
      BY <3>1
    <3> QED
      BY <3>1, <3>2, <3>3 DEF LeftPadWords
  <2> QED
    BY <1>1, <2>3, <2>4 DEF q, d
<1>5. n = q * WordBase + d
  <2> HIDE DEF q, d
  <2> QED
    BY <1>1
<1> QED
  BY <1>1, <1>3, <1>4, <1>5

TagRecords == [code : Nat, data : Seq(Nat)]

(* Fields whose length fits in two words. *)
Taggable(tags) ==
  /\ tags \in Seq(TagRecords)
  /\ \A i \in 1 .. Len(tags) : Len(tags[i].data) < WordBase * WordBase

SizeAt(words, c) == WordsToInt(Slice(words, c + 1, c + 2))

TagAt(words, c) ==
  [code |-> words[c], data |-> Slice(words, c + 3, c + 2 + SizeAt(words, c))]

Kept(tag, codes) == IF tag.code \in codes THEN <<tag>> ELSE <<>>

IsTags(f, words, codes) ==
  f = [c \in Positions |->
         IF c > Len(words) THEN <<>>
         ELSE Kept(TagAt(words, c), codes) \o f[c + 3 + SizeAt(words, c)]]

TagsFrom(words, codes) == CHOOSE f : IsTags(f, words, codes)

(* DecodeTags by the name of its recursive function. *)
LEMMA TagsDef ==
  ASSUME NEW words, NEW codes
  PROVE  DecodeTags(words, codes) = TagsFrom(words, codes)[1]
  BY DEF DecodeTags, TagsFrom, IsTags, Positions, TagAt, SizeAt, Kept

(* A slice of words holds words. *)
LEMMA SliceType ==
  ASSUME NEW words \in Seq(Nat), NEW i \in Positions, NEW j \in Nat
  PROVE  Slice(words, i, j) \in Seq(Nat)
<1> DEFINE to == IF j < Len(words) THEN j ELSE Len(words)
<1>1. to \in Nat /\ to <= Len(words) /\ i \in Nat \ {0} /\ Len(words) \in Nat
  BY DEF Positions
<1>2. Slice(words, i, j) = SubSeq(words, i, to)
  BY DEF Slice
<1> HIDE DEF to
<1>3. \A k \in i .. to : words[k] \in Nat
  BY <1>1
<1>4. SubSeq(words, i, to) \in Seq(Nat)
  BY <1>1, <1>3, SubSeqProperties
<1> QED
  BY <1>2, <1>4

(* Reading a field moves the cursor forward. *)
LEMMA TagAtType ==
  ASSUME NEW words \in Seq(Nat), NEW c \in Positions
  PROVE  /\ SizeAt(words, c) \in Nat
         /\ c + 3 + SizeAt(words, c) \in Positions
         /\ c <= Len(words) => TagAt(words, c) \in TagRecords
<1>0. c \in Nat \ {0} /\ c + 1 \in Positions /\ c + 3 \in Positions /\ c + 2 \in Nat
  BY DEF Positions
<1>1. SizeAt(words, c) \in Nat
  <2>1. Slice(words, c + 1, c + 2) \in Seq(Nat)
    BY <1>0, SliceType
  <2> QED
    BY <2>1, WordsType DEF SizeAt
<1>2. c + 3 + SizeAt(words, c) \in Positions /\ c + 2 + SizeAt(words, c) \in Nat
  BY <1>0, <1>1 DEF Positions
<1>3. Slice(words, c + 3, c + 2 + SizeAt(words, c)) \in Seq(Nat)
  BY <1>0, <1>2, SliceType
<1>4. c <= Len(words) => words[c] \in Nat
  BY <1>0
<1> QED
  BY <1>1, <1>2, <1>3, <1>4 DEF TagAt, TagRecords

(* The recursion of DecodeTags is well-founded. *)
LEMMA TagsType ==
  ASSUME NEW words \in Seq(Nat), NEW codes
  PROVE  /\ IsTags(TagsFrom(words, codes), words, codes)
         /\ \A c \in Positions : TagsFrom(words, codes)[c] \in Seq(TagRecords)
<1> DEFINE stop == {c \in Positions : c > Len(words)}
           next == [c \in Positions |-> c + 3 + SizeAt(words, c)]
           size == [c \in Positions |-> IF c > Len(words) THEN 0 ELSE Len(words) + 1 - c]
           base == [c \in Positions |-> <<>>]
           step == [c \in Positions |-> [v \in Seq(TagRecords) |-> Kept(TagAt(words, c), codes) \o v]]
           r == TagsFrom(words, codes)
<1>0. Len(words) \in Nat
  OBVIOUS
<1>K. ASSUME NEW c \in Positions, ~(c > Len(words))
      PROVE  Kept(TagAt(words, c), codes) \in Seq(TagRecords)
  <2>1. TagAt(words, c) \in TagRecords
    BY <1>0, <1>K, TagAtType DEF Positions
  <2> QED
    BY <2>1 DEF Kept
<1>1. Shrinks(Positions, stop, next, size)
  <2>1. size \in [Positions -> Nat]
    BY <1>0 DEF Positions
  <2>2. ASSUME NEW c \in Positions, ~(c > Len(words))
        PROVE  next[c] \in Positions /\ size[next[c]] < size[c]
    <3>1. next[c] \in Positions /\ next[c] > c
      <4>1. SizeAt(words, c) \in Nat /\ c + 3 + SizeAt(words, c) \in Positions /\ c \in Nat
        BY TagAtType DEF Positions
      <4>2. c + 3 + SizeAt(words, c) > c
        BY <4>1
      <4> QED
        BY <4>1, <4>2
    <3> HIDE DEF next
    <3> QED
      BY <1>0, <2>2, <3>1 DEF Positions
  <2> QED
    BY <2>1, <2>2 DEF Shrinks
<1>2. Stays(Positions, Seq(TagRecords), stop, base, step)
  <2>1. ASSUME NEW c \in Positions, ~(c > Len(words)), NEW v \in Seq(TagRecords)
        PROVE  step[c][v] \in Seq(TagRecords)
    BY <1>K, <2>1
  <2> QED
    BY <2>1 DEF Stays
<1>3. PICK f : f \in [Positions -> Seq(TagRecords)] /\ Follows(f, Positions, stop, next, base, step)
  <2> HIDE DEF stop, next, size, base, step
  <2> QED
    BY <1>1, <1>2, PathFunction
<1>4. IsTags(f, words, codes)
  <2>1. ASSUME NEW c \in Positions
        PROVE  f[c] = IF c > Len(words) THEN <<>>
                      ELSE Kept(TagAt(words, c), codes) \o f[c + 3 + SizeAt(words, c)]
    <3>1. f[c + 3 + SizeAt(words, c)] \in Seq(TagRecords)
      BY <1>3, TagAtType
    <3> QED
      BY <1>3, <3>1 DEF Follows
  <2> QED
    BY <2>1, <1>3 DEF IsTags
<1>5. IsTags(r, words, codes)
  BY <1>4 DEF TagsFrom
<1> DEFINE G == {c \in Positions : r[c] \in Seq(TagRecords)}
<1>6. \A c \in Positions : c \in stop \/ next[c] \in G => c \in G
  <2>1. ASSUME NEW c \in Positions, c \in stop \/ next[c] \in G
        PROVE  r[c] \in Seq(TagRecords)
    <3> HIDE DEF r
    <3>1. r[c] = IF c > Len(words) THEN <<>>
                 ELSE Kept(TagAt(words, c), codes) \o r[c + 3 + SizeAt(words, c)]
      BY <1>5 DEF IsTags
    <3>2. CASE c > Len(words)
      BY <3>1, <3>2
    <3>3. CASE ~(c > Len(words))
      <4>1. r[c + 3 + SizeAt(words, c)] \in Seq(TagRecords)
        BY <2>1, <3>3
      <4>2. Kept(TagAt(words, c), codes) \in Seq(TagRecords)
        BY <1>K, <3>3
      <4> QED
        BY <3>1, <3>3, <4>1, <4>2
    <3> QED
      BY <3>2, <3>3
  <2> QED
    BY <2>1
<1>7. Positions \subseteq G
  <2> HIDE DEF G, stop, next, size
  <2> QED
    BY <1>1, <1>6, PathInduction
<1> QED
  BY <1>5, <1>7

(* A field is a code, two words of length and its data. *)
LEMMA TagEncoded ==
  ASSUME NEW tag \in TagRecords, Len(tag.data) < WordBase * WordBase
  PROVE  LET n == Len(tag.data)
             head == <<tag.code>>
             size == <<n \div WordBase, n % WordBase>>
         IN /\ EncodeTag(tag) = head \o size \o tag.data
            /\ head \in Seq(Nat) /\ Len(head) = 1
            /\ size \in Seq(Nat) /\ Len(size) = 2 /\ WordsToInt(size) = n
            /\ tag.data \in Seq(Nat) /\ n \in Nat
            /\ head \o size \in Seq(Nat) /\ Len(head \o size) = 3
            /\ EncodeTag(tag) \in Seq(Nat) /\ Len(EncodeTag(tag)) = 3 + n
<1> DEFINE n == Len(tag.data)
           q == n \div WordBase
           d == n % WordBase
           head == <<tag.code>>
           size == <<q, d>>
<1>1. tag.code \in Nat /\ tag.data \in Seq(Nat)
  BY DEF TagRecords
<1>2. n \in Nat
  BY <1>1
<1>3. LeftPadWords(IntToWords(n), 2) = size /\ q \in Nat /\ d \in Nat /\ n = q * WordBase + d
  <2> HIDE DEF n
  <2> QED
    BY <1>2, LengthWords DEF n
<1>4. EncodeTag(tag) = head \o size \o tag.data
  BY <1>3 DEF EncodeTag
<1> HIDE DEF n, q, d
<1>5. head \in Seq(Nat) /\ Len(head) = 1
  BY <1>1
<1>6. size \in Seq(Nat) /\ Len(size) = 2 /\ WordsToInt(size) = n
  BY <1>3, TwoWords
<1> HIDE DEF head, size
<1>7. head \o size \in Seq(Nat) /\ Len(head \o size) = 3
  <2>1. head \o size \in Seq(Nat) /\ Len(head \o size) = Len(head) + Len(size)
    BY <1>5, <1>6, ConcatIs
  <2> QED
    BY <1>5, <1>6, <2>1
<1>8. head \o size \o tag.data \in Seq(Nat) /\ Len(head \o size \o tag.data) = 3 + n
  <2> DEFINE h == head \o size
             t == tag.data
  <2>1. h \in Seq(Nat) /\ t \in Seq(Nat) /\ Len(h) = 3 /\ Len(t) = n
    BY <1>1, <1>7 DEF n
  <2> HIDE DEF h, t
  <2>2. h \o t \in Seq(Nat) /\ Len(h \o t) = 3 + n
    <3>1. h \o t \in Seq(Nat) /\ Len(h \o t) = Len(h) + Len(t)
      BY <2>1, ConcatIs
    <3> QED
      BY <2>1, <3>1
  <2> QED
    BY <2>2 DEF h, t
<1> QED
  BY <1>1, <1>2, <1>4, <1>5, <1>6, <1>7, <1>8 DEF head, size, n, q, d

(* A field that was written is read. *)
LEMMA ReadTag ==
  ASSUME NEW words \in Seq(Nat), NEW c \in Positions, NEW tag \in TagRecords,
         Len(tag.data) < WordBase * WordBase, LiesAt(EncodeTag(tag), words, c)
  PROVE  /\ TagAt(words, c) = tag
         /\ SizeAt(words, c) = Len(tag.data)
         /\ c <= Len(words)
<1> DEFINE n == Len(tag.data)
           head == <<tag.code>>
           size == <<n \div WordBase, n % WordBase>>
           data == tag.data
<1>0. c \in Nat \ {0} /\ c \in Nat /\ Len(words) \in Nat /\ tag = [code |-> tag.code, data |-> tag.data]
  BY DEF Positions, TagRecords
<1>1. /\ EncodeTag(tag) = head \o size \o data
      /\ head \in Seq(Nat) /\ Len(head) = 1
      /\ size \in Seq(Nat) /\ Len(size) = 2 /\ WordsToInt(size) = n
      /\ data \in Seq(Nat) /\ n \in Nat
      /\ head \o size \in Seq(Nat) /\ Len(head \o size) = 3
      /\ Len(EncodeTag(tag)) = 3 + n
  BY TagEncoded
<1>2. head[1] = tag.code /\ Len(data) = n
  OBVIOUS
<1> HIDE DEF head, size, data, n
<1>3. LiesAt(head \o size, words, c) /\ LiesAt(data, words, c + 3)
  BY <1>0, <1>1, LiesSplit
<1>4. LiesAt(head, words, c) /\ LiesAt(size, words, c + 1)
  BY <1>0, <1>1, <1>3, LiesSplit
<1>5. c + 3 + n <= Len(words) + 1
  BY <1>0, <1>1, <1>2, <1>3 DEF LiesAt
<1>6. words[c] = tag.code
  <2>1. 1 \in 1 .. Len(head) /\ c + 1 - 1 = c
    BY <1>0, <1>1
  <2> QED
    BY <1>2, <1>4, <2>1 DEF LiesAt
<1>7. Slice(words, c + 1, c + 2) = size
  <2>1. c + 1 \in Nat \ {0} /\ (c + 1) + Len(size) - 1 = c + 2
    BY <1>0, <1>1
  <2>2. SubSeq(words, c + 1, (c + 1) + Len(size) - 1) = size
    BY <1>1, <1>4, <2>1, LiesSubSeq
  <2>3. c + 2 <= Len(words)
    BY <1>0, <1>1, <1>5
  <2>4. Slice(words, c + 1, c + 2) = SubSeq(words, c + 1, c + 2)
    <3> DEFINE to == c + 2
    <3>1. to \in Nat /\ to <= Len(words)
      BY <1>0, <2>3
    <3> HIDE DEF to
    <3>2. (IF to < Len(words) THEN to ELSE Len(words)) = to
      BY <1>0, <3>1
    <3>3. Slice(words, c + 1, to) = SubSeq(words, c + 1, to)
      BY <3>2 DEF Slice
    <3> QED
      BY <3>3 DEF to
  <2> QED
    BY <2>1, <2>2, <2>4
<1>8. SizeAt(words, c) = n
  BY <1>1, <1>7 DEF SizeAt
<1>9. Slice(words, c + 3, c + 2 + n) = data
  <2>1. c + 3 \in Nat \ {0} /\ (c + 3) + Len(data) - 1 = c + 2 + n
    BY <1>0, <1>1, <1>2
  <2>2. SubSeq(words, c + 3, (c + 3) + Len(data) - 1) = data
    BY <1>1, <1>3, <2>1, LiesSubSeq
  <2>3. c + 2 + n <= Len(words) /\ c + 2 + n \in Nat
    <3>1. n \in Nat
      BY <1>1
    <3> QED
      BY <1>0, <1>5, <3>1
  <2>4. Slice(words, c + 3, c + 2 + n) = SubSeq(words, c + 3, c + 2 + n)
    <3> DEFINE to == c + 2 + n
    <3>1. to \in Nat /\ to <= Len(words)
      BY <2>3
    <3> HIDE DEF to
    <3>2. (IF to < Len(words) THEN to ELSE Len(words)) = to
      BY <1>0, <3>1
    <3>3. Slice(words, c + 3, to) = SubSeq(words, c + 3, to)
      BY <3>2 DEF Slice
    <3> QED
      BY <3>3 DEF to
  <2> QED
    BY <2>1, <2>2, <2>4
<1>10. TagAt(words, c) = [code |-> tag.code, data |-> data]
  BY <1>6, <1>8, <1>9 DEF TagAt
<1>11. c <= Len(words)
  BY <1>0, <1>1, <1>5
<1> QED
  BY <1>0, <1>8, <1>10, <1>11 DEF data, n

(* The fields of an invoice are read as they were written, those of unknown codes left out. *)
LEMMA TagsRead ==
  ASSUME NEW tags, Taggable(tags), NEW codes
  PROVE  DecodeTags(EncodeTags(tags), codes)
           = FlattenSeq([i \in 1 .. Len(tags) |-> Kept(tags[i], codes)])
<1> DEFINE n == Len(tags)
           parts == [i \in 1 .. n |-> EncodeTag(tags[i])]
           kept == [i \in 1 .. n |-> Kept(tags[i], codes)]
           words == EncodeTags(tags)
           r == TagsFrom(words, codes)
<1>0. n \in Nat /\ tags \in Seq(TagRecords)
  BY DEF Taggable
<1>1. ASSUME NEW i \in 1 .. n
      PROVE  /\ tags[i] \in TagRecords /\ Len(tags[i].data) < WordBase * WordBase
             /\ parts[i] = EncodeTag(tags[i]) /\ parts[i] \in Seq(Nat)
             /\ Len(parts[i]) = 3 + Len(tags[i].data) /\ Len(tags[i].data) \in Nat
             /\ kept[i] \in Seq(TagRecords)
  <2>1. tags[i] \in TagRecords /\ Len(tags[i].data) < WordBase * WordBase
    BY <1>0 DEF Taggable
  <2> DEFINE t == tags[i]
  <2>2. EncodeTag(t) \in Seq(Nat) /\ Len(EncodeTag(t)) = 3 + Len(t.data) /\ Len(t.data) \in Nat
    <3> HIDE DEF t
    <3> QED
      BY <2>1, TagEncoded DEF t
  <2>3. Kept(t, codes) \in Seq(TagRecords)
    BY <2>1 DEF Kept
  <2> QED
    BY <2>1, <2>2, <2>3
<1>2. parts \in Seq(Seq(Nat)) /\ Len(parts) = n
  <2>1. parts \in [1 .. n -> Seq(Nat)]
    BY <1>1
  <2> HIDE DEF parts
  <2> QED
    BY <1>0, <2>1
<1>3. kept \in Seq(Seq(TagRecords)) /\ Len(kept) = n
  <2>1. kept \in [1 .. n -> Seq(TagRecords)]
    BY <1>1
  <2> HIDE DEF kept
  <2> QED
    BY <1>0, <2>1
<1>4. PICK f \in [0 .. n -> Seq(Nat)] : Flattens(f, parts) /\ FlattenSeq(parts) = f[n]
  <2> HIDE DEF parts
  <2> QED
    BY <1>2, FlattenIs
<1>5. PICK g \in [0 .. n -> Seq(TagRecords)] : Flattens(g, kept) /\ FlattenSeq(kept) = g[n]
  <2> HIDE DEF kept
  <2> QED
    BY <1>3, FlattenIs
<1>6. words = f[n] /\ words \in Seq(Nat) /\ Len(words) \in Nat
  <2>1. words = f[n]
    BY <1>4 DEF EncodeTags
  <2>2. f[n] \in Seq(Nat)
    BY <1>0
  <2> HIDE DEF words
  <2> QED
    BY <2>1, <2>2
<1> HIDE DEF words
<1> DEFINE c(k) == Len(f[k]) + 1
<1>7. ASSUME NEW k \in 0 .. n
      PROVE  c(k) \in Positions /\ r[c(k)] \in Seq(TagRecords) /\ Len(f[k]) \in Nat
  <2>1. f[k] \in Seq(Nat)
    OBVIOUS
  <2>2. c(k) \in Positions /\ Len(f[k]) \in Nat
    BY <2>1 DEF Positions
  <2> HIDE DEF c
  <2> QED
    BY <1>6, <2>2, TagsType
<1>8. ASSUME NEW k \in 1 .. n
      PROVE  r[c(k - 1)] = kept[k] \o r[c(k)]
  <2> DEFINE here == c(k - 1)
             tag == tags[k]
  <2>1. k - 1 \in 0 .. n /\ k \in 0 .. n /\ kept[k] = Kept(tag, codes)
    BY <1>0
  <2>2. here \in Positions
    BY <1>7, <2>1
  <2>3. LiesAt(parts[k], words, Len(f[k - 1]) + 1) /\ Len(f[k]) = Len(f[k - 1]) + Len(parts[k])
    <3>1. parts[k] \in Seq(Nat)
      BY <1>1
    <3> HIDE DEF parts, n
    <3>2. LiesAt(parts[k], f[n], Len(f[k - 1]) + 1) /\ Len(f[k]) = Len(f[k - 1]) + Len(parts[k])
      BY <1>2, <1>4, <3>1, FlattenLies
    <3> QED
      BY <1>6, <3>2
  <2>4. TagAt(words, here) = tag /\ SizeAt(words, here) = Len(tag.data) /\ here <= Len(words)
    <3>1. LiesAt(EncodeTag(tag), words, here)
      BY <1>1, <2>3
    <3>2. tag \in TagRecords /\ Len(tag.data) < WordBase * WordBase
      BY <1>1
    <3> HIDE DEF here, tag
    <3> QED
      BY <1>6, <2>2, <3>1, <3>2, ReadTag
  <2>5. here + 3 + SizeAt(words, here) = c(k)
    <3>1. Len(parts[k]) = 3 + Len(tag.data) /\ Len(tag.data) \in Nat
      BY <1>1
    <3>2. here = Len(f[k - 1]) + 1 /\ c(k) = Len(f[k]) + 1 /\ Len(f[k - 1]) \in Nat
      BY <1>7, <2>1
    <3>3. Len(f[k]) = Len(f[k - 1]) + (3 + Len(tag.data))
      BY <2>3, <3>1
    <3> DEFINE m == Len(tag.data)
               p == Len(f[k - 1])
               z == SizeAt(words, here)
    <3>4. here = p + 1 /\ c(k) = (p + (3 + m)) + 1 /\ z = m /\ p \in Nat /\ m \in Nat
      BY <2>4, <3>1, <3>2, <3>3
    <3> HIDE DEF here, c, m, p, z
    <3>5. here + 3 + z = c(k)
      BY <3>4
    <3> QED
      BY <3>5 DEF z
  <2>6. IsTags(r, words, codes)
    BY <1>6, TagsType
  <2> HIDE DEF r, here, c
  <2>7. r[here] = IF here > Len(words) THEN <<>>
                  ELSE Kept(TagAt(words, here), codes) \o r[here + 3 + SizeAt(words, here)]
    BY <2>2, <2>6 DEF IsTags
  <2>8. ~(here > Len(words))
    BY <1>6, <2>2, <2>4 DEF Positions
  <2>9. r[here] = Kept(tag, codes) \o r[c(k)]
    BY <2>4, <2>5, <2>7, <2>8
  <2> QED
    BY <2>1, <2>9 DEF here
<1> DEFINE R == [k \in 0 .. n |-> r[c(k)]]
<1>9. R[0] = g[n] \o R[n]
  <2>1. R \in [0 .. n -> Seq(TagRecords)]
    BY <1>7
  <2>2. \A k \in 1 .. n : R[k - 1] = kept[k] \o R[k]
    <3> TAKE k \in 1 .. n
    <3>1. k - 1 \in 0 .. n /\ k \in 0 .. n
      BY <1>0
    <3> HIDE DEF r, c, kept
    <3> QED
      BY <1>8, <3>1
  <2> HIDE DEF R, kept
  <2>3. Leaves(R, kept)
    <3> HIDE DEF n
    <3> QED
      BY <1>3, <2>2 DEF Leaves
  <2> HIDE DEF n
  <2> QED
    BY <1>3, <1>5, <2>1, <2>3, FlattenReads
<1>10. r[c(n)] = <<>>
  <2> DEFINE end == c(n)
  <2>1. n \in 0 .. n
    BY <1>0
  <2>2. end \in Positions /\ end = Len(words) + 1
    BY <1>6, <1>7, <2>1
  <2>3. IsTags(r, words, codes)
    BY <1>6, TagsType
  <2> HIDE DEF r, end
  <2>4. end > Len(words)
    BY <1>6, <2>2
  <2>5. r[end] = <<>>
    BY <2>2, <2>3, <2>4 DEF IsTags
  <2> QED
    BY <2>5 DEF end
<1>11. c(0) = 1
  BY <1>4 DEF Flattens
<1>12. R[0] = r[1] /\ R[n] = <<>>
  <2>1. 0 \in 0 .. n /\ n \in 0 .. n
    BY <1>0
  <2> HIDE DEF c, r
  <2> QED
    BY <1>10, <1>11, <2>1
<1>13. g[n] \in Seq(TagRecords)
  BY <1>0
<1>14. g[n] \o <<>> = g[n]
  BY <1>13
<1>15. DecodeTags(words, codes) = r[1]
  BY TagsDef
<1> HIDE DEF R, r
<1> QED
  BY <1>5, <1>9, <1>12, <1>14, <1>15 DEF words
================================================================================
