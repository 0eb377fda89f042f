------------------------------ MODULE DataTheorems ------------------------------
(***************************************************************************)
(* Facts about the data the models share: sums over sets, recursion along a *)
(* path, remainders, and sequences that lie in other sequences.             *)
(***************************************************************************)
EXTENDS FiniteSetsExt, FiniteSetTheorems, SequencesExt, SequenceTheorems, TLAPS

(* The sum of f[x] for all x in S. *)
SumOver(f, S) == MapThenSumSet(LAMBDA x : f[x], S)

(* The element the fold takes first. *)
FirstOf(T) == CHOOSE x \in T : TRUE

(* g is the function the fold defines on the subsets of S. *)
Recursion(g, f, S) ==
  g = [T \in SUBSET S |-> IF T = {} THEN 0 ELSE f[FirstOf(T)] + g[T \ {FirstOf(T)}]]

(* The fold, expanded. *)
LEMMA SumDef ==
  ASSUME NEW f, NEW S
  PROVE  SumOver(f, S) = (CHOOSE g : Recursion(g, f, S))[S]
BY DEF SumOver, MapThenSumSet, MapThenFoldSet, Recursion, FirstOf

(* Of any family of subsets of a finite set, one has no member just below it. *)
LEMMA SmallestSet ==
  ASSUME NEW S, IsFiniteSet(S), NEW B, B \subseteq SUBSET S, B # {}
  PROVE  \E T \in B : /\ T \subseteq S /\ IsFiniteSet(T)
                      /\ \A x \in T : T \ {x} \notin B
<1>1. B \subseteq FiniteSubsetsOf(S)
  BY FS_Subset DEF FiniteSubsetsOf
<1>2. PICK T \in B : \A U \in B : <<U, T>> \notin StrictSubsetOrdering(S)
  BY <1>1, FS_StrictSubsetOrderingWellFounded, WFMin
<1>3. \A x \in T : <<T \ {x}, T>> \in StrictSubsetOrdering(S)
  BY DEF StrictSubsetOrdering
<1> QED
  BY <1>2, <1>3, FS_Subset

(* The first element is one of the set. *)
LEMMA FirstOfIn == ASSUME NEW T, T # {} PROVE FirstOf(T) \in T
  BY DEF FirstOf

(* The recursion, one step unfolded. *)
LEMMA RecursionAt ==
  ASSUME NEW f, NEW S, NEW g, Recursion(g, f, S), NEW T \in SUBSET S
  PROVE  g[T] = IF T = {} THEN 0 ELSE f[FirstOf(T)] + g[T \ {FirstOf(T)}]
BY DEF Recursion

(* Two such functions agree wherever both are defined. *)
LEMMA RecursionAgrees ==
  ASSUME NEW f, NEW S, NEW U, NEW g, NEW h,
         Recursion(g, f, S), Recursion(h, f, U),
         NEW T, IsFiniteSet(T), T \subseteq S, T \subseteq U
  PROVE  g[T] = h[T]
<1> DEFINE B == {V \in SUBSET T : g[V] # h[V]}
<1> SUFFICES ASSUME B # {} PROVE FALSE
  OBVIOUS
<1>1. PICK V \in B : V \subseteq T /\ IsFiniteSet(V) /\ \A x \in V : V \ {x} \notin B
  <2> HIDE DEF B
  <2>1. B \subseteq SUBSET T
    BY DEF B
  <2> QED
    BY <2>1, SmallestSet
<1>2. V # {} => g[V \ {FirstOf(V)}] = h[V \ {FirstOf(V)}]
  BY <1>1, FirstOfIn
<1>3. V \in SUBSET S /\ V \in SUBSET U
  BY <1>1
<1>4. g[V] # h[V]
  OBVIOUS
<1> HIDE DEF B
<1>5. g[V] = IF V = {} THEN 0 ELSE f[FirstOf(V)] + g[V \ {FirstOf(V)}]
  BY <1>3 DEF Recursion
<1>6. h[V] = IF V = {} THEN 0 ELSE f[FirstOf(V)] + h[V \ {FirstOf(V)}]
  BY <1>3 DEF Recursion
<1> QED
  BY <1>2, <1>4, <1>5, <1>6

(* There is such a function for every finite set. *)
LEMMA RecursionExists ==
  ASSUME NEW f, NEW S, IsFiniteSet(S)
  PROVE  \E g : Recursion(g, f, S)
<1> DEFINE B == {T \in SUBSET S : \A g : ~Recursion(g, f, T)}
<1> SUFFICES ASSUME B # {} PROVE FALSE
  OBVIOUS
<1>1. PICK T \in B : T \subseteq S /\ IsFiniteSet(T) /\ \A x \in T : T \ {x} \notin B
  <2> HIDE DEF B
  <2>1. B \subseteq SUBSET S
    BY DEF B
  <2> QED
    BY <2>1, SmallestSet
<1> DEFINE Rest(V) == V \ {FirstOf(V)}
           total(V) == (CHOOSE h : Recursion(h, f, V))[V]
           g == [V \in SUBSET T |-> IF V = {} THEN 0 ELSE f[FirstOf(V)] + total(Rest(V))]
<1>2. ASSUME NEW V \in SUBSET T, V # T
      PROVE  Recursion(CHOOSE h : Recursion(h, f, V), f, V)
  <2>1. PICK x \in T : V \subseteq T \ {x}
    BY <1>2
  <2>2. PICK h : Recursion(h, f, T \ {x})
    BY <1>1
  <2>3. Recursion([W \in SUBSET V |-> h[W]], f, V)
    <3>1. \A W \in SUBSET V : W # {} => W \ {FirstOf(W)} \in SUBSET V
      OBVIOUS
    <3>2. ASSUME NEW W \in SUBSET V
          PROVE  h[W] = IF W = {} THEN 0 ELSE f[FirstOf(W)] + h[W \ {FirstOf(W)}]
      <4>1. W \in SUBSET (T \ {x})
        BY <2>1
      <4> HIDE DEF B
      <4> QED
        BY <2>2, <4>1, RecursionAt
    <3> QED
      BY <3>1, <3>2 DEF Recursion
  <2> QED
    BY <2>3
<1>3. ASSUME NEW V \in SUBSET T, V # {}, V # T
      PROVE  total(V) = f[FirstOf(V)] + total(Rest(V))
  <2> DEFINE h == CHOOSE h : Recursion(h, f, V)
             k == CHOOSE k : Recursion(k, f, Rest(V))
  <2>1. Rest(V) \in SUBSET T /\ Rest(V) # T /\ Rest(V) \subseteq V
    BY <1>3, FirstOfIn
  <2>2. Recursion(h, f, V) /\ Recursion(k, f, Rest(V))
    BY <1>2, <1>3, <2>1
  <2>3. IsFiniteSet(Rest(V))
    BY <1>1, <2>1, FS_Subset
  <2>4. h[Rest(V)] = k[Rest(V)]
    <3> HIDE DEF h, k, Rest
    <3> QED
      BY <2>1, <2>2, <2>3, RecursionAgrees
  <2>5. h[V] = f[FirstOf(V)] + h[Rest(V)]
    <3> HIDE DEF h
    <3> QED
      BY <1>3, <2>2, RecursionAt
  <2> QED
    BY <2>4, <2>5
<1>4. total({}) = 0
  <2> DEFINE h == CHOOSE h : Recursion(h, f, {})
  <2>1. Recursion(h, f, {})
    <3>1. CASE T = {}
      <4>1. Recursion([W \in SUBSET T |-> 0], f, T)
        BY <3>1 DEF Recursion
      <4> QED
        BY <3>1, <4>1
    <3>2. CASE T # {}
      BY <1>2, <3>2
    <3> QED
      BY <3>1, <3>2
  <2> HIDE DEF h
  <2>2. h[{}] = 0
    BY <2>1, RecursionAt
  <2> QED
    BY <2>2 DEF h
<1>5. ASSUME NEW V \in SUBSET T
      PROVE  g[V] = IF V = {} THEN 0 ELSE f[FirstOf(V)] + g[Rest(V)]
  <2>1. V # {} => Rest(V) \in SUBSET T /\ Rest(V) # T
    BY FirstOfIn
  <2> HIDE DEF total
  <2>2. V # {} => g[V] = f[FirstOf(V)] + total(Rest(V))
    OBVIOUS
  <2>3. V # {} => g[Rest(V)] = total(Rest(V))
    <3> SUFFICES ASSUME V # {} PROVE g[Rest(V)] = total(Rest(V))
      OBVIOUS
    <3>1. CASE Rest(V) = {}
      BY <1>4, <2>1, <3>1
    <3>2. CASE Rest(V) # {}
      <4>1. total(Rest(V)) = f[FirstOf(Rest(V))] + total(Rest(Rest(V)))
        BY <1>3, <2>1, <3>2
      <4> QED
        BY <2>1, <3>2, <4>1
    <3> QED
      BY <3>1, <3>2
  <2> QED
    BY <2>2, <2>3
<1>6. Recursion(g, f, T)
  <2>1. g = [V \in SUBSET T |-> g[V]]
    OBVIOUS
  <2> HIDE DEF g
  <2>2. g = [V \in SUBSET T |-> IF V = {} THEN 0 ELSE f[FirstOf(V)] + g[Rest(V)]]
    BY <1>5, <2>1
  <2> QED
    BY <2>2 DEF Recursion
<1> QED
  BY <1>1, <1>6

(* The sum of a finite set takes one element after the other. *)
LEMMA SumUnfold ==
  ASSUME NEW f, NEW S, IsFiniteSet(S)
  PROVE  SumOver(f, S) = IF S = {} THEN 0 ELSE f[FirstOf(S)] + SumOver(f, S \ {FirstOf(S)})
<1> DEFINE h == CHOOSE h : Recursion(h, f, S)
           k == CHOOSE k : Recursion(k, f, S \ {FirstOf(S)})
<1>1. Recursion(h, f, S)
  BY RecursionExists
<1>2. IsFiniteSet(S \ {FirstOf(S)})
  BY FS_Subset
<1>3. Recursion(k, f, S \ {FirstOf(S)})
  BY <1>2, RecursionExists
<1>4. SumOver(f, S) = h[S] /\ SumOver(f, S \ {FirstOf(S)}) = k[S \ {FirstOf(S)}]
  BY SumDef
<1> HIDE DEF h, k
<1>5. h[S] = IF S = {} THEN 0 ELSE f[FirstOf(S)] + h[S \ {FirstOf(S)}]
  BY <1>1, RecursionAt
<1>6. h[S \ {FirstOf(S)}] = k[S \ {FirstOf(S)}]
  BY <1>1, <1>2, <1>3, RecursionAgrees
<1> QED
  BY <1>4, <1>5, <1>6

(* A sum of naturals is a natural. *)
LEMMA SumType ==
  ASSUME NEW f, NEW S, IsFiniteSet(S), \A x \in S : f[x] \in Nat
  PROVE  SumOver(f, S) \in Nat
<1> DEFINE B == {T \in SUBSET S : SumOver(f, T) \notin Nat}
<1> SUFFICES ASSUME B # {} PROVE FALSE
  OBVIOUS
<1>1. PICK T \in B : T \subseteq S /\ IsFiniteSet(T) /\ \A x \in T : T \ {x} \notin B
  <2> HIDE DEF B
  <2>1. B \subseteq SUBSET S
    BY DEF B
  <2> QED
    BY <2>1, SmallestSet
<1>2. SumOver(f, T) = IF T = {} THEN 0 ELSE f[FirstOf(T)] + SumOver(f, T \ {FirstOf(T)})
  BY <1>1, SumUnfold
<1>3. T # {} => f[FirstOf(T)] \in Nat /\ SumOver(f, T \ {FirstOf(T)}) \in Nat
  BY <1>1, FirstOfIn
<1> QED
  BY <1>1, <1>2, <1>3

(* Any element may be taken first. *)
LEMMA SumRemove ==
  ASSUME NEW f, NEW S, IsFiniteSet(S), \A x \in S : f[x] \in Nat, NEW x \in S
  PROVE  SumOver(f, S) = f[x] + SumOver(f, S \ {x})
<1> DEFINE B == {T \in SUBSET S : \E y \in T : SumOver(f, T) # f[y] + SumOver(f, T \ {y})}
<1> SUFFICES ASSUME B # {} PROVE FALSE
  OBVIOUS
<1>1. PICK T \in B : T \subseteq S /\ IsFiniteSet(T) /\ \A y \in T : T \ {y} \notin B
  <2> HIDE DEF B
  <2>1. B \subseteq SUBSET S
    BY DEF B
  <2> QED
    BY <2>1, SmallestSet
<1>2. PICK y \in T : SumOver(f, T) # f[y] + SumOver(f, T \ {y})
  BY <1>1
<1> DEFINE z == FirstOf(T)
<1>3. z \in T /\ SumOver(f, T) = f[z] + SumOver(f, T \ {z})
  BY <1>1, SumUnfold, FirstOfIn
<1> HIDE DEF z
<1>4. y # z
  BY <1>2, <1>3
<1> DEFINE R == (T \ {z}) \ {y}
<1>5. SumOver(f, T \ {z}) = f[y] + SumOver(f, R)
  BY <1>1, <1>3, <1>4
<1>6. SumOver(f, T \ {y}) = f[z] + SumOver(f, R)
  <2>1. z \in T \ {y} /\ (T \ {y}) \ {z} = R
    BY <1>3, <1>4
  <2> HIDE DEF R
  <2> QED
    BY <1>1, <2>1
<1>7. IsFiniteSet(R) /\ R \subseteq S
  BY <1>1, FS_Subset
<1>8. SumOver(f, R) \in Nat /\ f[y] \in Nat /\ f[z] \in Nat
  BY <1>1, <1>3, <1>7, SumType
<1> QED
  BY <1>2, <1>3, <1>5, <1>6, <1>8

(* Nothing sums to 0. *)
LEMMA SumEmpty == ASSUME NEW f PROVE SumOver(f, {}) = 0
  BY SumUnfold, FS_EmptySet

(* A new element adds its value. *)
LEMMA SumAdd ==
  ASSUME NEW f, NEW S, IsFiniteSet(S), \A x \in S : f[x] \in Nat,
         NEW x, x \notin S, f[x] \in Nat
  PROVE  SumOver(f, S \cup {x}) = SumOver(f, S) + f[x]
<1>1. IsFiniteSet(S \cup {x}) /\ (S \cup {x}) \ {x} = S
  BY FS_AddElement
<1>2. SumOver(f, S \cup {x}) = f[x] + SumOver(f, S)
  <2> DEFINE T == S \cup {x}
  <2>1. x \in T /\ IsFiniteSet(T) /\ T \ {x} = S /\ \A y \in T : f[y] \in Nat
    BY <1>1
  <2> HIDE DEF T
  <2>2. SumOver(f, T) = f[x] + SumOver(f, T \ {x})
    BY <2>1, SumRemove
  <2> QED
    BY <2>1, <2>2 DEF T
<1>3. SumOver(f, S) \in Nat
  BY SumType
<1> QED
  BY <1>1, <1>2, <1>3

(* A part and the rest sum to the whole. *)
LEMMA SumSplit ==
  ASSUME NEW f, NEW S, IsFiniteSet(S), \A x \in S : f[x] \in Nat,
         NEW P, P \subseteq S
  PROVE  SumOver(f, S) = SumOver(f, P) + SumOver(f, S \ P)
<1> DEFINE B == {T \in SUBSET S : SumOver(f, T) # SumOver(f, T \cap P) + SumOver(f, T \ P)}
<1> SUFFICES ASSUME B # {} PROVE FALSE
  <2>1. S \cap P = P
    OBVIOUS
  <2> QED
    BY <2>1
<1>1. PICK T \in B : T \subseteq S /\ IsFiniteSet(T) /\ \A y \in T : T \ {y} \notin B
  <2> HIDE DEF B
  <2>1. B \subseteq SUBSET S
    BY DEF B
  <2> QED
    BY <2>1, SmallestSet
<1>2. T # {}
  <2>1. T = {} => T \cap P = {} /\ T \ P = {}
    OBVIOUS
  <2> QED
    BY <1>1, <2>1, SumEmpty
<1>3. PICK y \in T : TRUE
  BY <1>2
<1> DEFINE R == T \ {y}
<1>4. SumOver(f, R) = SumOver(f, R \cap P) + SumOver(f, R \ P)
  BY <1>1, <1>3
<1>5. SumOver(f, T) = f[y] + SumOver(f, R)
  BY <1>1, <1>3, SumRemove
<1>6. /\ IsFiniteSet(R \cap P) /\ IsFiniteSet(R \ P)
      /\ IsFiniteSet(T \cap P) /\ IsFiniteSet(T \ P)
  BY <1>1, FS_Subset
<1>7. /\ SumOver(f, R \cap P) \in Nat /\ SumOver(f, R \ P) \in Nat /\ f[y] \in Nat
      /\ SumOver(f, T \cap P) \in Nat /\ SumOver(f, T \ P) \in Nat
  <2>1. R \subseteq S /\ T \subseteq S /\ y \in S
    BY <1>1
  <2> QED
    BY <1>6, <2>1, SumType
<1>8. CASE y \in P
  <2>1. (T \cap P) \ {y} = R \cap P /\ T \ P = R \ P /\ y \in T \cap P
    BY <1>8
  <2>2. SumOver(f, T \cap P) = f[y] + SumOver(f, R \cap P)
    BY <1>1, <1>6, <2>1, SumRemove
  <2>3. SumOver(f, T \ P) = SumOver(f, R \ P)
    BY <2>1
  <2>4. SumOver(f, T) # SumOver(f, T \cap P) + SumOver(f, T \ P)
    BY <1>1
  <2> HIDE DEF R
  <2> QED
    BY <1>4, <1>5, <1>7, <2>2, <2>3, <2>4
<1>9. CASE y \notin P
  <2>1. (T \ P) \ {y} = R \ P /\ T \cap P = R \cap P /\ y \in T \ P
    BY <1>9
  <2>2. SumOver(f, T \ P) = f[y] + SumOver(f, R \ P)
    BY <1>1, <1>6, <2>1, SumRemove
  <2> HIDE DEF R
  <2> QED
    BY <1>1, <1>4, <1>5, <1>7, <2>1, <2>2
<1> QED
  BY <1>8, <1>9

(* Functions that agree on a set have the same sum there. *)
LEMMA SumEqual ==
  ASSUME NEW f, NEW g, NEW S, IsFiniteSet(S), \A x \in S : f[x] = g[x]
  PROVE  SumOver(f, S) = SumOver(g, S)
<1> DEFINE B == {T \in SUBSET S : SumOver(f, T) # SumOver(g, T)}
<1> SUFFICES ASSUME B # {} PROVE FALSE
  OBVIOUS
<1>1. PICK T \in B : T \subseteq S /\ IsFiniteSet(T) /\ \A y \in T : T \ {y} \notin B
  <2> HIDE DEF B
  <2>1. B \subseteq SUBSET S
    BY DEF B
  <2> QED
    BY <2>1, SmallestSet
<1>2. /\ SumOver(f, T) = IF T = {} THEN 0 ELSE f[FirstOf(T)] + SumOver(f, T \ {FirstOf(T)})
      /\ SumOver(g, T) = IF T = {} THEN 0 ELSE g[FirstOf(T)] + SumOver(g, T \ {FirstOf(T)})
  BY <1>1, SumUnfold
<1> QED
  BY <1>1, <1>2, FirstOfIn

(* The sum of a sum of functions. *)
LEMMA SumPlus ==
  ASSUME NEW f, NEW g, NEW h, NEW S, IsFiniteSet(S),
         \A x \in S : f[x] \in Int /\ g[x] \in Int /\ h[x] = f[x] + g[x]
  PROVE  /\ SumOver(f, S) \in Int /\ SumOver(g, S) \in Int
         /\ SumOver(h, S) = SumOver(f, S) + SumOver(g, S)
<1> DEFINE Good(T) == /\ SumOver(f, T) \in Int /\ SumOver(g, T) \in Int
                      /\ SumOver(h, T) = SumOver(f, T) + SumOver(g, T)
           B == {T \in SUBSET S : ~Good(T)}
<1> SUFFICES ASSUME B # {} PROVE FALSE
  OBVIOUS
<1>1. PICK T \in B : T \subseteq S /\ IsFiniteSet(T) /\ \A y \in T : T \ {y} \notin B
  <2> HIDE DEF B
  <2>1. B \subseteq SUBSET S
    BY DEF B
  <2> QED
    BY <2>1, SmallestSet
<1> DEFINE x == FirstOf(T)
           R == T \ {x}
<1>2. /\ SumOver(f, T) = IF T = {} THEN 0 ELSE f[x] + SumOver(f, R)
      /\ SumOver(g, T) = IF T = {} THEN 0 ELSE g[x] + SumOver(g, R)
      /\ SumOver(h, T) = IF T = {} THEN 0 ELSE h[x] + SumOver(h, R)
  BY <1>1, SumUnfold
<1>3. CASE T = {}
  <2>1. Good(T)
    BY <1>2, <1>3
  <2> QED
    BY <1>1, <2>1
<1>4. CASE T # {}
  <2>1. x \in S /\ Good(R)
    BY <1>1, <1>4, FirstOfIn
  <2> HIDE DEF x, R
  <2>2. /\ SumOver(f, R) \in Int /\ SumOver(g, R) \in Int
        /\ SumOver(h, R) = SumOver(f, R) + SumOver(g, R)
    BY <2>1
  <2>3. f[x] \in Int /\ g[x] \in Int /\ h[x] = f[x] + g[x]
    BY <2>1
  <2>4. Good(T)
    BY <1>2, <1>4, <2>2, <2>3
  <2> QED
    BY <1>1, <2>4
<1> QED
  BY <1>3, <1>4

(* Zeros sum to 0. *)
LEMMA SumZero ==
  ASSUME NEW f, NEW S, IsFiniteSet(S), \A x \in S : f[x] = 0
  PROVE  SumOver(f, S) = 0
<1> DEFINE B == {T \in SUBSET S : SumOver(f, T) # 0}
<1> SUFFICES ASSUME B # {} PROVE FALSE
  OBVIOUS
<1>1. PICK T \in B : T \subseteq S /\ IsFiniteSet(T) /\ \A y \in T : T \ {y} \notin B
  <2> HIDE DEF B
  <2>1. B \subseteq SUBSET S
    BY DEF B
  <2> QED
    BY <2>1, SmallestSet
<1>2. SumOver(f, T) = IF T = {} THEN 0 ELSE f[FirstOf(T)] + SumOver(f, T \ {FirstOf(T)})
  BY <1>1, SumUnfold
<1> QED
  BY <1>1, <1>2, FirstOfIn

(* One value, and two. *)
LEMMA SumOne ==
  ASSUME NEW f, NEW x, f[x] \in Nat
  PROVE  SumOver(f, {x}) = f[x]
<1>1. SumOver(f, {x}) = f[x] + SumOver(f, {x} \ {x})
  BY FS_Singleton, SumRemove
<1>2. {x} \ {x} = {}
  OBVIOUS
<1> QED
  BY <1>1, <1>2, SumEmpty

(* The sum over two keys. *)
LEMMA SumTwo ==
  ASSUME NEW f, NEW x, NEW y, x # y, f[x] \in Nat, f[y] \in Nat
  PROVE  SumOver(f, {x, y}) = f[x] + f[y]
<1>1. SumOver(f, {x} \cup {y}) = SumOver(f, {x}) + f[y]
  BY FS_Singleton, SumAdd
<1>2. {x, y} = {x} \cup {y}
  OBVIOUS
<1> QED
  BY <1>1, <1>2, SumOne

(* The sum over three keys. *)
LEMMA SumThree ==
  ASSUME NEW f, NEW x, NEW y, NEW z, x # y, x # z, y # z, f[x] \in Nat, f[y] \in Nat, f[z] \in Nat
  PROVE  SumOver(f, {x, y, z}) = f[x] + f[y] + f[z]
<1>1. IsFiniteSet({x, y})
  <2>1. IsFiniteSet({x} \cup {y})
    BY FS_Singleton, FS_AddElement
  <2>2. {x, y} = {x} \cup {y}
    OBVIOUS
  <2> QED
    BY <2>1, <2>2
<1>2. SumOver(f, {x, y} \cup {z}) = SumOver(f, {x, y}) + f[z]
  BY <1>1, SumAdd
<1>3. {x, y, z} = {x, y} \cup {z}
  OBVIOUS
<1> QED
  BY <1>2, <1>3, SumTwo

(* A sum is no less than a bound of its parts, times their number.        *)
LEMMA SumAtLeast ==
  ASSUME NEW f, NEW S, IsFiniteSet(S), NEW v \in Nat, \A x \in S : f[x] \in Nat /\ f[x] >= v
  PROVE  SumOver(f, S) >= v * Cardinality(S)
<1> DEFINE B == {T \in SUBSET S : ~(SumOver(f, T) >= v * Cardinality(T))}
<1> SUFFICES ASSUME B # {} PROVE FALSE
  OBVIOUS
<1>1. PICK T \in B : T \subseteq S /\ IsFiniteSet(T) /\ \A x \in T : T \ {x} \notin B
  <2>1. B \subseteq SUBSET S
    OBVIOUS
  <2> HIDE DEF B
  <2> QED
    BY <2>1, SmallestSet
<1>2. T # {}
  <2>1. SumOver(f, {}) = 0 /\ Cardinality({}) = 0 /\ v * 0 = 0
    BY SumEmpty, FS_EmptySet
  <2>2. ~(SumOver(f, T) >= v * Cardinality(T))
    BY <1>1
  <2> HIDE DEF B
  <2> QED
    BY <2>1, <2>2
<1>3. PICK x \in T : TRUE
  BY <1>2
<1>4. SumOver(f, T) = f[x] + SumOver(f, T \ {x})
  BY <1>1, SumRemove
<1>5. SumOver(f, T \ {x}) \in Nat /\ IsFiniteSet(T \ {x})
  BY <1>1, SumType, FS_RemoveElement
<1>6. Cardinality(T \ {x}) = Cardinality(T) - 1 /\ Cardinality(T) \in Nat
  BY <1>1, FS_RemoveElement, FS_CardinalityType
<1>7. SumOver(f, T \ {x}) >= v * Cardinality(T \ {x})
  BY <1>1
<1>8. f[x] \in Nat /\ f[x] >= v
  BY <1>1
<1>9. SumOver(f, T) >= v * (Cardinality(T) - 1) + v
  BY <1>4, <1>5, <1>6, <1>7, <1>8
<1>10. v * (Cardinality(T) - 1) + v = v * Cardinality(T)
  BY <1>6
<1> QED
  BY <1>9, <1>10

(* Nor more.                                                                *)
LEMMA SumAtMost ==
  ASSUME NEW f, NEW S, IsFiniteSet(S), NEW v \in Nat, \A x \in S : f[x] \in Nat /\ f[x] <= v
  PROVE  SumOver(f, S) <= v * Cardinality(S)
<1> DEFINE B == {T \in SUBSET S : ~(SumOver(f, T) <= v * Cardinality(T))}
<1> SUFFICES ASSUME B # {} PROVE FALSE
  OBVIOUS
<1>1. PICK T \in B : T \subseteq S /\ IsFiniteSet(T) /\ \A x \in T : T \ {x} \notin B
  <2>1. B \subseteq SUBSET S
    OBVIOUS
  <2> HIDE DEF B
  <2> QED
    BY <2>1, SmallestSet
<1>2. T # {}
  <2>1. SumOver(f, {}) = 0 /\ Cardinality({}) = 0 /\ v * 0 = 0
    BY SumEmpty, FS_EmptySet
  <2>2. ~(SumOver(f, T) <= v * Cardinality(T))
    BY <1>1
  <2> HIDE DEF B
  <2> QED
    BY <2>1, <2>2
<1>3. PICK x \in T : TRUE
  BY <1>2
<1>4. SumOver(f, T) = f[x] + SumOver(f, T \ {x})
  BY <1>1, SumRemove
<1>5. SumOver(f, T \ {x}) \in Nat /\ IsFiniteSet(T \ {x})
  BY <1>1, SumType, FS_RemoveElement
<1>6. Cardinality(T \ {x}) = Cardinality(T) - 1 /\ Cardinality(T) \in Nat
  BY <1>1, FS_RemoveElement, FS_CardinalityType
<1>7. SumOver(f, T \ {x}) <= v * Cardinality(T \ {x})
  BY <1>1
<1>8. f[x] \in Nat /\ f[x] <= v
  BY <1>1
<1>9. SumOver(f, T) <= v * (Cardinality(T) - 1) + v
  BY <1>4, <1>5, <1>6, <1>7, <1>8
<1>10. v * (Cardinality(T) - 1) + v = v * Cardinality(T)
  BY <1>6
<1> QED
  BY <1>9, <1>10

-----------------------------------------------------------------------------
(* Recursion along a path, and induction over sets.                         *)

(* Of any naturals, one is the least. *)
LEMMA LeastNat ==
  ASSUME NEW B, B \subseteq Nat, B # {}
  PROVE  \E n \in B : \A m \in B : n <= m
<1> DEFINE R == OpToRel(<, Nat)
<1>1. \A m, n \in Nat : m < n => <<m, n>> \in R
  BY DEF OpToRel
<1>2. IsWellFoundedOn(R, Nat)
  BY NatLessThanWellFounded
<1> HIDE DEF R
<1>3. PICK n \in B : \A m \in B : <<m, n>> \notin R
  BY <1>2, WFMin
<1>4. ASSUME NEW m \in B
      PROVE  n <= m
  <2>1. m \in Nat /\ n \in Nat
    OBVIOUS
  <2>2. ~(m < n)
    BY <1>1, <1>3, <2>1
  <2> QED
    BY <2>1, <2>2
<1> QED
  BY <1>4

(* f follows next through D until it stops. *)
Follows(f, D, Stop, next, base, step) ==
  f = [x \in D |-> IF x \in Stop THEN base[x] ELSE step[x][f[next[x]]]]

(* A function that goes down with every step. *)
Shrinks(D, Stop, next, size) ==
  /\ size \in [D -> Nat] 
  /\ \A x \in D \ Stop : next[x] \in D /\ size[next[x]] < size[x]

(* Two functions that follow the same path agree where both are defined. *)
LEMMA PathAgrees ==
  ASSUME NEW D, NEW Stop, NEW next, NEW base, NEW step, NEW size,
         Shrinks(D, Stop, next, size),
         NEW f, NEW g,
         NEW A, NEW C, A \subseteq D, C \subseteq D, 
         \A x \in A \ Stop : next[x] \in A,
         \A x \in C \ Stop : next[x] \in C,
         Follows(f, A, Stop, next, base, step),
         Follows(g, C, Stop, next, base, step)
  PROVE  \A x \in A \cap C : f[x] = g[x]
<1> DEFINE B == {size[x] : x \in {y \in A \cap C : f[y] # g[y]}}
<1> SUFFICES ASSUME B # {} PROVE FALSE
  OBVIOUS
<1>1. PICK k \in B : \A m \in B : k <= m
  <2>1. B \subseteq Nat
    BY DEF Shrinks
  <2> HIDE DEF B
  <2> QED
    BY <2>1, LeastNat
<1>2. PICK x \in A \cap C : f[x] # g[x] /\ k = size[x]
  OBVIOUS
<1>3. x \notin Stop
  BY <1>2 DEF Follows
<1>4. next[x] \in A \cap C /\ size[next[x]] < size[x]
  BY <1>3 DEF Shrinks
<1>5. f[next[x]] = g[next[x]]
  <2>1. size[next[x]] \in Nat /\ size[x] \in Nat
    BY <1>4 DEF Shrinks
  <2> SUFFICES ASSUME f[next[x]] # g[next[x]] PROVE FALSE
    OBVIOUS
  <2>2. size[next[x]] \in B
    BY <1>4
  <2> HIDE DEF B
  <2> QED
    BY <1>1, <1>2, <1>4, <2>1, <2>2
<1> HIDE DEF B
<1> QED
  BY <1>2, <1>3, <1>5 DEF Follows

(* A recursion along a path that ends has a solution. *)
LEMMA PathRecursion ==
  ASSUME NEW D, NEW Stop, NEW next, NEW base, NEW step, NEW size,
         Shrinks(D, Stop, next, size)
  PROVE  \E f : Follows(f, D, Stop, next, base, step)
<1> DEFINE Below(n) == {x \in D : size[x] <= n}
           Ok(f, n) == Follows(f, Below(n), Stop, next, base, step)
           B == {n \in Nat : \A f : ~Ok(f, n)}
<1>0. /\ \A n \in Nat : Below(n) \subseteq D
      /\ \A n \in Nat, x \in D : x \in Below(n) /\ x \notin Stop => next[x] \in Below(n) /\ next[x] \in D /\ size[next[x]] < size[x]
      /\ \A x \in D : size[x] \in Nat /\ x \in Below(size[x])
  BY DEF Shrinks
<1>1. B = {}
  <2> SUFFICES ASSUME B # {} PROVE FALSE
    OBVIOUS
  <2>1. PICK n \in B : \A m \in B : n <= m
    <3>1. B \subseteq Nat
      OBVIOUS
    <3> HIDE DEF B
    <3> QED
      BY <3>1, LeastNat
  <2>2. PICK f : n # 0 => Ok(f, n - 1)
    <3>1. CASE n = 0
      BY <3>1
    <3>2. CASE n # 0
      <4>1. n - 1 \in Nat /\ n - 1 \notin B
        BY <2>1, <3>2
      <4> QED
        BY <4>1
    <3> QED
      BY <3>1, <3>2
  <2> DEFINE g == [x \in Below(n) |-> IF x \in Stop THEN base[x] ELSE step[x][f[next[x]]]]
  <2>3. n \in Nat
    OBVIOUS
  <2>4. ASSUME NEW x \in D, size[x] < n
        PROVE  f[x] = g[x]
    <3>1. n # 0 /\ x \in Below(n - 1) /\ x \in Below(n)
      BY <1>0, <2>3, <2>4
    <3> QED
      BY <2>2, <3>1 DEF Follows
  <2>5. ASSUME NEW x \in Below(n), x \notin Stop
        PROVE  g[x] = step[x][g[next[x]]]
    <3>1. next[x] \in D /\ size[next[x]] < size[x] /\ size[x] <= n /\ size[next[x]] \in Nat /\ size[x] \in Nat
      BY <1>0, <2>3, <2>5
    <3>2. f[next[x]] = g[next[x]]
      BY <2>3, <2>4, <3>1
    <3>3. g[x] = step[x][f[next[x]]]
      BY <2>5
    <3> QED
      BY <3>2, <3>3
  <2>6. Ok(g, n)
    BY <2>5 DEF Follows
  <2> QED
    BY <2>6, <2>1
<1> DEFINE Pre(n) == CHOOSE f : Ok(f, n)
           F == [x \in D |-> Pre(size[x])[x]]
<1>2. ASSUME NEW n \in Nat PROVE Ok(Pre(n), n)
  BY <1>1
<1>3. ASSUME NEW n \in Nat, NEW m \in Nat, NEW x \in D, size[x] <= n, size[x] <= m
      PROVE  Pre(n)[x] = Pre(m)[x]
  <2>1. Ok(Pre(n), n) /\ Ok(Pre(m), m)
    BY <1>2
  <2>2. x \in Below(n) \cap Below(m)
    BY <1>3
  <2>3. /\ \A y \in Below(n) \ Stop : next[y] \in Below(n)
        /\ \A y \in Below(m) \ Stop : next[y] \in Below(m)
        /\ Below(n) \subseteq D /\ Below(m) \subseteq D
    BY <1>0
  <2> HIDE DEF Pre, Below
  <2> QED
    BY <2>1, <2>2, <2>3, PathAgrees
<1>4. ASSUME NEW x \in D
      PROVE  F[x] = IF x \in Stop THEN base[x] ELSE step[x][F[next[x]]]
  <2>1. Ok(Pre(size[x]), size[x]) /\ x \in Below(size[x]) /\ size[x] \in Nat
    BY <1>0, <1>2
  <2>2. F[x] = IF x \in Stop THEN base[x] ELSE step[x][Pre(size[x])[next[x]]]
    <3> HIDE DEF Pre, Below
    <3> QED
      BY <2>1 DEF Follows
  <2>3. x \notin Stop => Pre(size[x])[next[x]] = F[next[x]]
    <3> SUFFICES ASSUME x \notin Stop PROVE Pre(size[x])[next[x]] = F[next[x]]
      OBVIOUS
    <3>1. next[x] \in D /\ size[next[x]] < size[x] /\ size[next[x]] \in Nat
      BY <1>0, <2>1
    <3>2. Pre(size[x])[next[x]] = Pre(size[next[x]])[next[x]]
      <4> HIDE DEF Pre, Below
      <4> QED
        BY <1>3, <2>1, <3>1
    <3>3. F[next[x]] = Pre(size[next[x]])[next[x]]
      BY <3>1
    <3> QED
      BY <3>2, <3>3
  <2> HIDE DEF F, Pre, Below
  <2> QED
    BY <2>2, <2>3
<1>6. F = [x \in D |-> F[x]]
  OBVIOUS
<1>5. Follows(F, D, Stop, next, base, step)
  <2>1. DOMAIN F = D
    OBVIOUS
  <2> HIDE DEF F
  <2> QED
    BY <1>4, <1>6, <2>1 DEF Follows
<1> QED
  BY <1>5

(* Induction along the path: what holds where it stops, and for x if for the next, holds everywhere. *)
LEMMA PathInduction ==
  ASSUME NEW D, NEW Stop, NEW next, NEW size, Shrinks(D, Stop, next, size),
         NEW G, \A x \in D : x \in Stop \/ next[x] \in G => x \in G
  PROVE  D \subseteq G
<1> DEFINE B == {size[x] : x \in D \ G}
<1> SUFFICES ASSUME B # {} PROVE FALSE
  OBVIOUS
<1>1. PICK k \in B : \A m \in B : k <= m
  <2>1. B \subseteq Nat
    BY DEF Shrinks
  <2> HIDE DEF B
  <2> QED
    BY <2>1, LeastNat
<1>2. PICK x \in D \ G : k = size[x]
  OBVIOUS
<1>3. x \notin Stop /\ next[x] \notin G
  BY <1>2
<1>4. next[x] \in D \ G /\ size[next[x]] < size[x] /\ size[next[x]] \in Nat /\ size[x] \in Nat
  BY <1>3 DEF Shrinks
<1>5. size[next[x]] \in B
  BY <1>4
<1> HIDE DEF B
<1> QED
  BY <1>1, <1>2, <1>4, <1>5

(* What it stops with and every step are in V. *)
Stays(D, V, Stop, base, step) ==
  /\ \A x \in D : x \in Stop => base[x] \in V
  /\ \A x \in D : x \notin Stop => \A v \in V : step[x][v] \in V

(* So is the function. *)
LEMMA PathFunction ==
  ASSUME NEW D, NEW Stop, NEW next, NEW size, Shrinks(D, Stop, next, size),
         NEW base, NEW step, NEW V, Stays(D, V, Stop, base, step)
  PROVE  \E f : f \in [D -> V] /\ Follows(f, D, Stop, next, base, step)
<1>1. PICK f : Follows(f, D, Stop, next, base, step)
  BY PathRecursion
<1> DEFINE G == {x \in D : f[x] \in V}
<1>2. \A x \in D : f[x] = IF x \in Stop THEN base[x] ELSE step[x][f[next[x]]]
  BY <1>1 DEF Follows
<1>3. \A x \in D : x \in Stop \/ next[x] \in G => x \in G
  BY <1>2 DEF Stays
<1>4. D \subseteq G
  <2> HIDE DEF G
  <2> QED
    BY <1>3, PathInduction
<1>5. f = [x \in D |-> f[x]]
  BY <1>1 DEF Follows
<1> QED
  BY <1>1, <1>4, <1>5

(* Induction over the naturals. *)
LEMMA SetInduction ==
  ASSUME NEW G, 0 \in G, \A n \in Nat : n \in G => n + 1 \in G
  PROVE  Nat \subseteq G
<1> DEFINE B == Nat \ G
<1> SUFFICES ASSUME B # {} PROVE FALSE
  OBVIOUS
<1>1. PICK n \in B : \A m \in B : n <= m
  BY LeastNat
<1>2. n # 0 /\ n - 1 \in Nat /\ n - 1 \notin B
  BY <1>1
<1>3. (n - 1) + 1 \in G
  BY <1>2
<1> QED
  BY <1>2, <1>3

-----------------------------------------------------------------------------
(* Remainders.                                                              *)

(* What quotient and remainder are. *)
LEMMA ModRange ==
  ASSUME NEW p \in Nat, p > 0, NEW x \in Int
  PROVE  x % p \in 0 .. p - 1 /\ x \div p \in Int /\ x = p * (x \div p) + (x % p)
  OBVIOUS

(* Quotient and remainder are the only ones there are. *)
LEMMA ModUnique ==
  ASSUME NEW p \in Nat, p > 0, NEW q \in Int, NEW r \in 0 .. p - 1
  PROVE  (p * q + r) % p = r /\ (p * q + r) \div p = q
<1> DEFINE x == p * q + r
<1>1. x \in Int
  OBVIOUS
<1>2. PICK s \in 0 .. p - 1, d \in Int : s = x % p /\ d = x \div p /\ x = p * d + s
  BY <1>1
<1>3. p * (q - d) = s - r
  BY <1>2
<1>4. ASSUME q # d PROVE FALSE
  <2>1. p * (q - d) >= p \/ p * (q - d) <= -p
    BY <1>4
  <2> QED
    BY <1>3, <2>1
<1>5. s = r
  BY <1>3, <1>4
<1> QED
  BY <1>2, <1>4, <1>5

(* Multiples of p make no difference. *)
LEMMA ModShift ==
  ASSUME NEW p \in Nat, p > 0, NEW x \in Int, NEW z \in Int
  PROVE  (x + p * z) % p = x % p
<1>1. PICK r \in 0 .. p - 1, d \in Int : r = x % p /\ x = p * d + r
  BY ModRange
<1>2. x + p * z = p * (d + z) + r
  BY <1>1
<1>3. (p * (d + z) + r) % p = r
  BY <1>1, ModUnique
<1> QED
  BY <1>1, <1>2, <1>3

(* A number below the divisor is its own remainder. *)
LEMMA ModSmall ==
  ASSUME NEW p \in Nat, p > 0, NEW x \in Nat, x < p
  PROVE  x % p = x /\ x \div p = 0
<1>1. x \in 0 .. p - 1 /\ p * 0 + x = x
  OBVIOUS
<1> QED
  BY <1>1, ModUnique

(* A multiple leaves no remainder. *)
LEMMA Multiple ==
  ASSUME NEW p \in Nat \ {0}, NEW q \in Int
  PROVE  (p * q) % p = 0 /\ (p * q) \div p = q
<1>1. p > 0 /\ 0 \in 0 .. p - 1 /\ p * q + 0 = p * q
  OBVIOUS
<1> QED
  BY <1>1, ModUnique

(* Without a remainder the division can be undone. *)
LEMMA NoRest ==
  ASSUME NEW p \in Nat \ {0}, NEW x \in Nat, x % p = 0
  PROVE  x = p * (x \div p) /\ x \div p \in Nat
<1>1. x % p \in 0 .. p - 1 /\ x \div p \in Nat /\ x = p * (x \div p) + (x % p)
  OBVIOUS
<1> QED
  BY <1>1

(* A proper multiple is larger. *)
LEMMA LessThanMultiple ==
  ASSUME NEW p \in Nat, p > 1, NEW q \in Nat, q > 0
  PROVE  p * q > q
  OBVIOUS

(* Dividing by two or more makes a number smaller. *)
LEMMA DivideNat ==
  ASSUME NEW p \in Nat, p > 1, NEW x \in Nat
  PROVE  /\ x \div p \in Nat /\ x % p \in 0 .. p - 1 /\ x = p * (x \div p) + (x % p)
         /\ x > 0 => x \div p < x
<1>1. x \div p \in Nat /\ x % p \in 0 .. p - 1 /\ x = p * (x \div p) + (x % p)
  OBVIOUS
<1>2. ASSUME x > 0
      PROVE  x \div p < x
  <2>1. CASE x \div p = 0
    BY <1>1, <1>2, <2>1
  <2>2. CASE x \div p # 0
    <3>1. p * (x \div p) > x \div p
      BY <1>1, <2>2, LessThanMultiple
    <3> QED
      BY <1>1, <3>1
  <2> QED
    BY <2>1, <2>2
<1> QED
  BY <1>1, <1>2

-----------------------------------------------------------------------------
(* Sequences.                                                               *)

(* Length and elements of a concatenation. *)
LEMMA ConcatIs ==
  ASSUME NEW S, NEW u \in Seq(S), NEW v \in Seq(S)
  PROVE  /\ u \o v \in Seq(S) /\ Len(u \o v) = Len(u) + Len(v) /\ Len(u) \in Nat /\ Len(v) \in Nat
         /\ \A k \in 1 .. Len(u) : (u \o v)[k] = u[k]
         /\ \A k \in 1 .. Len(v) : (u \o v)[Len(u) + k] = v[k]
  OBVIOUS

(* w lies in s from position i on. *)
LiesAt(w, s, i) ==
  /\ i + Len(w) <= Len(s) + 1
  /\ \A k \in 1 .. Len(w) : s[i + k - 1] = w[k]

(* Where a concatenation lies, its parts lie one behind the other. *)
LEMMA LiesSplit ==
  ASSUME NEW S, NEW u \in Seq(S), NEW v \in Seq(S), NEW s \in Seq(S), NEW i \in Nat \ {0},
         LiesAt(u \o v, s, i)
  PROVE  LiesAt(u, s, i) /\ LiesAt(v, s, i + Len(u))
<1>1. /\ Len(u) \in Nat /\ Len(v) \in Nat /\ Len(s) \in Nat
      /\ Len(u \o v) = Len(u) + Len(v)
      /\ \A k \in 1 .. Len(u) : (u \o v)[k] = u[k]
      /\ \A k \in 1 .. Len(v) : (u \o v)[Len(u) + k] = v[k]
  OBVIOUS
<1>2. /\ i + (Len(u) + Len(v)) <= Len(s) + 1
      /\ \A k \in 1 .. Len(u) + Len(v) : s[i + k - 1] = (u \o v)[k]
  BY <1>1 DEF LiesAt
<1>3. ASSUME NEW k \in 1 .. Len(u) PROVE s[i + k - 1] = u[k]
  BY <1>1, <1>2
<1>4. ASSUME NEW k \in 1 .. Len(v) PROVE s[i + Len(u) + k - 1] = v[k]
  <2>1. Len(u) + k \in 1 .. Len(u) + Len(v) /\ i + (Len(u) + k) - 1 = i + Len(u) + k - 1
    BY <1>1
  <2> QED
    BY <1>1, <1>2, <2>1
<1> QED
  BY <1>1, <1>2, <1>3, <1>4 DEF LiesAt

(* What lies at a position is the subsequence from there. *)
LEMMA LiesSubSeq ==
  ASSUME NEW S, NEW w \in Seq(S), NEW s \in Seq(S), NEW i \in Nat \ {0}, LiesAt(w, s, i)
  PROVE  SubSeq(s, i, i + Len(w) - 1) = w
<1> DEFINE t == SubSeq(s, i, i + Len(w) - 1)
<1>1. Len(w) \in Nat /\ Len(s) \in Nat /\ i + Len(w) - 1 <= Len(s)
  BY DEF LiesAt
<1>2. t \in Seq(S) /\ Len(t) = Len(w) /\ \A k \in 1 .. Len(w) : t[k] = s[i + k - 1]
  BY <1>1
<1>3. \A k \in 1 .. Len(w) : t[k] = w[k]
  BY <1>2 DEF LiesAt
<1>4. t = w
  <2> HIDE DEF t
  <2> QED
    BY <1>2, <1>3, SeqEqual
<1> QED
  BY <1>4

-----------------------------------------------------------------------------
(* The concatenation of sequences. *)

(* f[k] is that of the first k. *)
Flattens(f, seqs) ==
  /\ f[0] = <<>>
  /\ \A k \in 1 .. Len(seqs) : f[k] = f[k - 1] \o seqs[k]

(* FlattenSeq adds one sequence after the other. *)
LEMMA FlattenIs ==
  ASSUME NEW S, NEW seqs \in Seq(Seq(S))
  PROVE  \E f \in [0 .. Len(seqs) -> Seq(S)] :
           Flattens(f, seqs) /\ FlattenSeq(seqs) = f[Len(seqs)]
<1> DEFINE n == Len(seqs)
<1>0. n \in Nat /\ \A k \in 1 .. n : seqs[k] \in Seq(S)
  OBVIOUS
<1>1. CASE n = 0
  <2> DEFINE f == [k \in 0 .. n |-> <<>>]
  <2>1. seqs = <<>> /\ FlattenSeq(seqs) = <<>>
    BY <1>1 DEF FlattenSeq
  <2>2. f \in [0 .. n -> Seq(S)] /\ Flattens(f, seqs) /\ FlattenSeq(seqs) = f[n]
    BY <1>1, <2>1 DEF Flattens
  <2> QED
    BY <2>2
<1>2. CASE n # 0
  <2> DEFINE Is(f) == f = [i \in 1 .. n |-> IF i = 1 THEN seqs[i] ELSE f[i - 1] \o seqs[i]]
             stop == {1}
             next == [i \in 1 .. n |-> i - 1]
             size == [i \in 1 .. n |-> i]
             step == [i \in 1 .. n |-> [v \in Seq(S) |-> v \o seqs[i]]]
             g == CHOOSE f : Is(f)
             h == [k \in 0 .. n |-> IF k = 0 THEN <<>> ELSE g[k]]
  <2>1. Shrinks(1 .. n, stop, next, size)
    BY <1>0 DEF Shrinks
  <2>2. Stays(1 .. n, Seq(S), stop, seqs, step)
    BY <1>0 DEF Stays
  <2>3. PICK f : f \in [1 .. n -> Seq(S)] /\ Follows(f, 1 .. n, stop, next, seqs, step)
    <3> HIDE DEF n, stop, next, size, step
    <3> QED
      BY <2>1, <2>2, PathFunction
  <2>4. Is(f)
    <3>1. ASSUME NEW i \in 1 .. n
          PROVE  f[i] = IF i = 1 THEN seqs[i] ELSE f[i - 1] \o seqs[i]
      <4>1. f[i] = IF i \in stop THEN seqs[i] ELSE step[i][f[next[i]]]
        <5> HIDE DEF n, stop, next, step
        <5> QED
          BY <2>3 DEF Follows
      <4>2. i # 1 => i - 1 \in 1 .. n
        BY <1>0
      <4>3. i # 1 => f[i - 1] \in Seq(S)
        BY <2>3, <4>2
      <4> QED
        BY <4>1, <4>2, <4>3
    <3> QED
      BY <2>3, <3>1
  <2>5. Is(g)
    <3> HIDE DEF Is
    <3> QED
      BY <2>4
  <2>6. FlattenSeq(seqs) = g[n]
    BY <1>2 DEF FlattenSeq
  <2> DEFINE G == {i \in 1 .. n : g[i] \in Seq(S)}
  <2>7. 1 .. n \subseteq G
    <3>1. ASSUME NEW i \in 1 .. n, i \in stop \/ next[i] \in G
          PROVE  g[i] \in Seq(S)
      <4>1. g[i] = IF i = 1 THEN seqs[i] ELSE g[i - 1] \o seqs[i]
        <5> HIDE DEF g
        <5> QED
          BY <2>5
      <4>2. CASE i = 1
        BY <1>0, <4>1, <4>2
      <4>3. CASE i # 1
        <5>1. g[i - 1] \in Seq(S)
          BY <3>1, <4>3
        <5> HIDE DEF g
        <5> QED
          BY <1>0, <4>1, <4>3, <5>1
      <4> QED
        BY <4>2, <4>3
    <3>2. \A i \in 1 .. n : i \in stop \/ next[i] \in G => i \in G
      BY <3>1
    <3> DEFINE D == 1 .. n
    <3>3. Shrinks(D, stop, next, size) /\ \A i \in D : i \in stop \/ next[i] \in G => i \in G
      BY <2>1, <3>2
    <3> HIDE DEF D, G, stop, next, size
    <3>4. D \subseteq G
      BY <3>3, PathInduction
    <3> QED
      BY <3>4 DEF D
  <2> HIDE DEF g
  <2>8. h \in [0 .. n -> Seq(S)]
    BY <1>0, <2>7
  <2>9. \A k \in 1 .. n : h[k] = h[k - 1] \o seqs[k]
    <3> SUFFICES ASSUME NEW k \in 1 .. n PROVE h[k] = h[k - 1] \o seqs[k]
      OBVIOUS
    <3>1. g[k] = IF k = 1 THEN seqs[k] ELSE g[k - 1] \o seqs[k]
      BY <2>5
    <3>2. <<>> \o seqs[k] = seqs[k]
      BY <1>0
    <3>3. h[k] = g[k] /\ h[k - 1] = IF k = 1 THEN <<>> ELSE g[k - 1]
      BY <1>0
    <3> HIDE DEF h
    <3> QED
      BY <3>1, <3>2, <3>3
  <2>10. h[0] = <<>> /\ h[n] = g[n]
    BY <1>0, <1>2
  <2>11. Flattens(h, seqs)
    BY <2>9, <2>10 DEF Flattens
  <2> HIDE DEF h
  <2> QED
    BY <2>6, <2>8, <2>10, <2>11
<1> QED
  BY <1>1, <1>2

(* Every part lies behind those before it. *)
LEMMA FlattenLies ==
  ASSUME NEW S, NEW seqs \in Seq(Seq(S)), NEW f \in [0 .. Len(seqs) -> Seq(S)], Flattens(f, seqs),
         NEW k \in 1 .. Len(seqs)
  PROVE  /\ LiesAt(seqs[k], f[Len(seqs)], Len(f[k - 1]) + 1)
         /\ Len(f[k]) = Len(f[k - 1]) + Len(seqs[k])
         /\ f[k] = f[k - 1] \o seqs[k]
<1> DEFINE n == Len(seqs)
           G == {j \in Nat : k + j <= n => LiesAt(f[k], f[k + j], 1)}
<1>0. /\ n \in Nat /\ k \in Nat /\ k - 1 \in 0 .. n /\ k \in 0 .. n /\ n \in 0 .. n
      /\ seqs[k] \in Seq(S)
  OBVIOUS
<1>1. /\ f[k] \in Seq(S) /\ f[k - 1] \in Seq(S) /\ f[n] \in Seq(S) /\ f[k] = f[k - 1] \o seqs[k]
  BY <1>0 DEF Flattens
<1>L. Len(f[k]) \in Nat /\ Len(f[k - 1]) \in Nat /\ Len(seqs[k]) \in Nat
  <2> HIDE DEF n
  <2> QED
    BY <1>0, <1>1, LenProperties
<1>2. 0 \in G
  <2>1. k + 0 = k
    BY <1>0
  <2>2. LiesAt(f[k], f[k], 1)
    <3>1. \A j \in 1 .. Len(f[k]) : f[k][j] = f[k][(1 + j) - 1]
      BY <1>L
    <3> QED
      BY <1>L, <3>1 DEF LiesAt
  <2> QED
    BY <2>1, <2>2
<1>3. ASSUME NEW j \in Nat, j \in G
      PROVE  j + 1 \in G
  <2> SUFFICES ASSUME k + (j + 1) <= n PROVE LiesAt(f[k], f[k + (j + 1)], 1)
    OBVIOUS
  <2> DEFINE a == f[k + j]
             b == seqs[k + (j + 1)]
  <2>1. k + j \in 0 .. n /\ k + (j + 1) \in 1 .. n /\ (k + (j + 1)) - 1 = k + j
    BY <1>0
  <2>2. f[k + (j + 1)] = a \o b
    BY <2>1 DEF Flattens
  <2>3. a \in Seq(S)
    BY <2>1
  <2>3b. b \in Seq(S)
    BY <2>1
  <2>4. LiesAt(f[k], a, 1)
    BY <1>0, <1>3, <2>1
  <2> HIDE DEF a, b
  <2>5. Len(a \o b) = Len(a) + Len(b) /\ Len(a) \in Nat /\ Len(b) \in Nat /\ \A i \in 1 .. Len(a) : (a \o b)[i] = a[i]
    BY <2>3, <2>3b
  <2>6. LiesAt(f[k], a \o b, 1)
    BY <1>L, <2>4, <2>5 DEF LiesAt
  <2> QED
    BY <2>2, <2>6
<1>4. Nat \subseteq G
  <2> HIDE DEF G
  <2> QED
    BY <1>2, <1>3, SetInduction
<1>5. LiesAt(f[k], f[n], 1)
  <2>1. n - k \in Nat /\ k + (n - k) = n /\ k + (n - k) <= n
    BY <1>0
  <2>2. n - k \in G
    BY <1>4, <2>1
  <2>3. LiesAt(f[k], f[k + (n - k)], 1)
    BY <2>1, <2>2
  <2> QED
    BY <2>1, <2>3
<1>6. LiesAt(seqs[k], f[n], 1 + Len(f[k - 1]))
  <2>2. LiesAt(f[k - 1] \o seqs[k], f[n], 1)
    BY <1>1, <1>5
  <2> HIDE DEF n
  <2> QED
    BY <1>0, <1>1, <2>2, LiesSplit
<1>7. 1 + Len(f[k - 1]) = Len(f[k - 1]) + 1 /\ Len(f[k]) = Len(f[k - 1]) + Len(seqs[k])
  <2> HIDE DEF n
  <2> QED
    BY <1>0, <1>1, <1>L
<1> QED
  BY <1>1, <1>6, <1>7

(* What is left to read after the first k parts. *)
Leaves(R, seqs) == \A k \in 1 .. Len(seqs) : R[k - 1] = seqs[k] \o R[k]

(* What is read part by part is the concatenation of the parts. *)
LEMMA FlattenReads ==
  ASSUME NEW S, NEW seqs \in Seq(Seq(S)), NEW f \in [0 .. Len(seqs) -> Seq(S)], Flattens(f, seqs),
         NEW R \in [0 .. Len(seqs) -> Seq(S)], Leaves(R, seqs)
  PROVE  R[0] = f[Len(seqs)] \o R[Len(seqs)]
<1> DEFINE n == Len(seqs)
           G == {k \in Nat : k <= n => R[0] = f[k] \o R[k]}
<1>0. n \in Nat /\ 0 \in 0 .. n
  OBVIOUS
<1>A. \A a, b, c \in Seq(S) : (a \o b) \o c = a \o (b \o c)
  BY ConcatAssociative
<1>1. 0 \in G
  <2>1. R[0] \in Seq(S)
    BY <1>0
  <2>2. R[0] = <<>> \o R[0]
    BY <2>1
  <2> QED
    BY <2>2 DEF Flattens
<1>2. ASSUME NEW k \in Nat, k \in G
      PROVE  k + 1 \in G
  <2> SUFFICES ASSUME k + 1 <= n PROVE R[0] = f[k + 1] \o R[k + 1]
    OBVIOUS
  <2> DEFINE a == f[k]
             b == seqs[k + 1]
             c == R[k + 1]
  <2>1. k \in 0 .. n /\ k + 1 \in 1 .. n /\ k + 1 \in 0 .. n /\ (k + 1) - 1 = k
    BY <1>0
  <2>2. R[0] = a \o R[k]
    BY <1>2, <2>1
  <2>3. R[k] = b \o c
    BY <2>1 DEF Leaves
  <2>4. f[k + 1] = a \o b
    BY <2>1 DEF Flattens
  <2>5. a \in Seq(S)
    BY <2>1
  <2>6. b \in Seq(S)
    BY <2>1
  <2>7. c \in Seq(S)
    BY <2>1
  <2> HIDE DEF a, b, c
  <2>8. (a \o b) \o c = a \o (b \o c)
    BY <1>A, <2>5, <2>6, <2>7
  <2> QED
    BY <2>2, <2>3, <2>4, <2>8 DEF c
<1>3. Nat \subseteq G
  <2> HIDE DEF G
  <2> QED
    BY <1>1, <1>2, SetInduction
<1>4. n \in G /\ n <= n
  <2> HIDE DEF G, n
  <2> QED
    BY <1>0, <1>3
<1> QED
  BY <1>4

(* Sequences of one element each flatten to their elements. *)
LEMMA SingletonsFlatten ==
  ASSUME NEW S, NEW s \in Seq(S)
  PROVE  /\ [k \in 1 .. Len(s) |-> <<s[k]>>] \in Seq(Seq(S))
         /\ Len([k \in 1 .. Len(s) |-> <<s[k]>>]) = Len(s)
         /\ [k \in 0 .. Len(s) |-> SubSeq(s, 1, k)] \in [0 .. Len(s) -> Seq(S)]
         /\ Flattens([k \in 0 .. Len(s) |-> SubSeq(s, 1, k)], [k \in 1 .. Len(s) |-> <<s[k]>>])
<1> DEFINE n == Len(s)
           seqs == [k \in 1 .. n |-> <<s[k]>>]
           f == [k \in 0 .. n |-> SubSeq(s, 1, k)]
<1>0. n \in Nat /\ \A k \in 1 .. n : s[k] \in S
  OBVIOUS
<1>1. \A k \in 1 .. n : <<s[k]>> \in Seq(S)
  BY <1>0
<1>2. seqs \in [1 .. n -> Seq(S)]
  BY <1>1
<1>3. seqs \in Seq(Seq(S)) /\ Len(seqs) = n
  <2> HIDE DEF seqs
  <2> QED
    BY <1>0, <1>2
<1>4. ASSUME NEW k \in 0 .. n
      PROVE  f[k] \in Seq(S) /\ Len(f[k]) = k /\ \A i \in 1 .. k : f[k][i] = s[i]
  BY <1>0
<1>5. f \in [0 .. n -> Seq(S)]
  BY <1>4
<1>6. ASSUME NEW k \in 1 .. n
      PROVE  f[k] = f[k - 1] \o seqs[k]
  <2>1. 1 \in 1 .. n + 1 /\ k - 1 \in 1 - 1 .. n /\ k \in k - 1 .. n /\ (k - 1) + 1 = k /\ k - 1 \in 0 .. n /\ k \in 0 .. n
    BY <1>0
  <2>2. SubSeq(s, 1, k - 1) \o SubSeq(s, (k - 1) + 1, k) = SubSeq(s, 1, k)
    BY <2>1, ConcatAdjacentSubSeq
  <2>3. SubSeq(s, k, k) = <<s[k]>>
    <3> DEFINE a == SubSeq(s, k, k)
               b == <<s[k]>>
    <3>1. a \in Seq(S) /\ Len(a) = 1 /\ a[1] = s[k]
      BY <1>0
    <3>2. b \in Seq(S) /\ Len(b) = 1 /\ b[1] = s[k]
      BY <1>1
    <3> HIDE DEF a, b
    <3>3. \A i \in 1 .. Len(a) : a[i] = b[i]
      BY <3>1, <3>2
    <3>4. a = b
      BY <3>1, <3>2, <3>3, SeqEqual
    <3> QED
      BY <3>4 DEF a, b
  <2> QED
    BY <2>1, <2>2, <2>3
<1>7. f[0] = <<>>
  BY <1>0
<1>8. Flattens(f, seqs)
  BY <1>3, <1>6, <1>7 DEF Flattens
<1> QED
  BY <1>3, <1>5, <1>8

(* What lies in a sequence lies wherever that one lies. *)
LEMMA LiesIn ==
  ASSUME NEW S, NEW u \in Seq(S), NEW v \in Seq(S), NEW s \in Seq(S), NEW j \in Nat \ {0}, NEW i \in Nat \ {0},
         LiesAt(u, v, j), LiesAt(v, s, i)
  PROVE  LiesAt(u, s, i + j - 1)
<1>1. Len(u) \in Nat /\ Len(v) \in Nat /\ Len(s) \in Nat
  OBVIOUS
<1>2. ASSUME NEW k \in 1 .. Len(u) PROVE s[(i + j - 1) + k - 1] = u[k]
  <2>1. j + k - 1 \in 1 .. Len(v) /\ i + (j + k - 1) - 1 = (i + j - 1) + k - 1
    BY <1>1 DEF LiesAt
  <2>2. v[j + k - 1] = u[k] /\ s[i + (j + k - 1) - 1] = v[j + k - 1]
    BY <2>1 DEF LiesAt
  <2> QED
    BY <2>1, <2>2
<1>3. (i + j - 1) + Len(u) <= Len(s) + 1
  BY <1>1 DEF LiesAt
<1> QED
  BY <1>2, <1>3 DEF LiesAt

(* A sequence lies in itself from the first position on. *)
LEMMA LiesItself ==
  ASSUME NEW S, NEW s \in Seq(S)
  PROVE  LiesAt(s, s, 1)
<1>1. Len(s) \in Nat
  OBVIOUS
<1>2. \A k \in 1 .. Len(s) : s[1 + k - 1] = s[k]
  BY <1>1
<1> QED
  BY <1>1, <1>2 DEF LiesAt

(* Two ways to build a pair. *)
LEMMA PairOf ==
  ASSUME NEW x \in Nat, NEW y \in Nat
  PROVE  <<x>> \o <<y>> = <<x, y>> /\ Append(<<x>>, y) = <<x, y>>
<1> DEFINE a == <<x>> \o <<y>>
           b == Append(<<x>>, y)
           c == <<x, y>>
<1>1. a \in Seq(Nat) /\ Len(a) = 2 /\ a[1] = x /\ a[2] = y
  <2> DEFINE u == <<x>>
             v == <<y>>
  <2>1. u \in Seq(Nat) /\ Len(u) = 1 /\ u[1] = x
    OBVIOUS
  <2>2. v \in Seq(Nat) /\ Len(v) = 1 /\ v[1] = y
    OBVIOUS
  <2> HIDE DEF u, v
  <2> DEFINE w == u \o v
  <2>a. /\ w \in Seq(Nat) /\ Len(w) = Len(u) + Len(v)
        /\ \A k \in 1 .. Len(u) : w[k] = u[k]
        /\ \A k \in 1 .. Len(v) : w[Len(u) + k] = v[k]
    <3>1. u \in Seq(Nat) /\ v \in Seq(Nat)
      BY <2>1, <2>2
    <3> QED
      BY <3>1, ConcatIs
  <2> HIDE DEF w
  <2>b. Len(w) = 2 /\ w[1] = x /\ w[2] = y
    BY <2>1, <2>2, <2>a
  <2>3. u \o v \in Seq(Nat) /\ Len(u \o v) = 2 /\ (u \o v)[1] = x /\ (u \o v)[2] = y
    BY <2>a, <2>b DEF w
  <2> QED
    BY <2>3 DEF u, v
<1>2. b \in Seq(Nat) /\ Len(b) = 2 /\ b[1] = x /\ b[2] = y
  OBVIOUS
<1>3. c \in Seq(Nat) /\ Len(c) = 2 /\ c[1] = x /\ c[2] = y
  OBVIOUS
<1> HIDE DEF a, b, c
<1>4. (\A i \in 1 .. Len(a) : a[i] = c[i]) /\ (\A i \in 1 .. Len(b) : b[i] = c[i])
  BY <1>1, <1>2, <1>3
<1>5. a = c /\ b = c
  BY <1>1, <1>2, <1>3, <1>4, SeqEqual
<1> QED
  BY <1>5 DEF a, b, c
================================================================================
