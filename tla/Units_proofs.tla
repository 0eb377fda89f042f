------------------------------ MODULE Units_proofs ------------------------------
(***************************************************************************)
(* Tokens of a unit are backed by what its own backends hold, for any       *)
(* keysets, amounts and fees.                                               *)
(***************************************************************************)
EXTENDS Units, DataTheorems, TLAPS

USE DEF lossVars

KeysetsOf(a) == {k \in UnitKeysets : UnitOf[k] \in UnitsOf(a)}

(* What f counts in the keysets of an asset.                                *)
Tokens(f, a) == SumOver(f, KeysetsOf(a))

(* What the paid quotes of an asset amount to, and what its backends hold   *)
(* and have lost.                                                           *)
Quotes(a) ==
  IF a = "runes" THEN credited["unit"] ELSE credited["btc"] + credited["sat"] + credited["bolt11"]
Reserves(a) ==
  IF a = "runes" THEN funds["runes"] + unnoticed["runes"]
  ELSE funds["btc"] + funds["lightning"] + subsidy["btc"] + subsidy["lightning"]
         + unnoticed["btc"] + unnoticed["lightning"] + overpaid + reissued

Uses(f, unit) == \A k \in UnitKeysets : f[k] > 0 => UnitOf[k] = unit
NonNegative(n) == IF n > 0 THEN n ELSE 0

(* What a call has taken and not given back yet: its inputs until they are  *)
(* exchanged or paid for, the change after that.                            *)
Owed(a) ==
  IF order.op \in {"swapped", "pay"} THEN Tokens(order.inputs, a)
  ELSE IF order.op = "change" /\ order.unit \in UnitsOf(a) THEN NonNegative(order.amount)
  ELSE 0

Orders ==
  [op : {"none", "mint", "remint", "swap", "swapped", "melt", "pay", "change"}, unit : UnitNames,
   method : {"onchain", "bolt11", "unit"}, inputs : [UnitKeysets -> Nat], outputs : [UnitKeysets -> Nat],
   amount : Int, invoice : Nat, reserve : Nat]

UnitsType ==
  /\ outstanding \in [UnitKeysets -> Nat]
  /\ credited \in [Accounts -> Nat]
  /\ funds \in [Backends -> Nat]
  /\ subsidy \in [Backends -> Nat] /\ unnoticed \in [Backends -> Nat]
  /\ overpaid \in Nat /\ reissued \in Nat
  /\ order \in Orders

(* What the checks at the start of a call have found of the call's unit and *)
(* amounts.                                                                 *)
OrderInv ==
  /\ order.op = "mint" =>
       /\ Uses(order.outputs, order.unit) /\ <<order.method, order.unit>> \in Routes
       /\ SumCounts(order.outputs) <= credited[Account(order.method, order.unit)]
  /\ order.op = "remint" => Uses(order.outputs, "sat")
  /\ order.op \in {"swap", "swapped"} =>
       /\ \E u \in UnitNames : Uses(order.inputs, u) /\ Uses(order.outputs, u)
       /\ SumCounts(order.outputs) <= SumCounts(order.inputs)
  /\ order.op \in {"melt", "pay"} =>
       /\ Uses(order.inputs, order.unit) /\ <<order.method, order.unit>> \in Routes
       /\ order.amount \in Nat /\ SumCounts(order.inputs) >= order.amount + order.reserve
       /\ order.method # "bolt11" =>
            order.invoice = order.amount /\ (order.unit = "unit" => order.reserve = 0)
  /\ order.op \in {"melt", "pay", "change"} => Uses(order.outputs, order.unit)

(* UnitIsBacked, with what the call in progress owes.                       *)
Backed == \A a \in Assets : Tokens(outstanding, a) + Quotes(a) + Owed(a) <= Reserves(a)

UnitsInv == UnitsType /\ OrderInv /\ Backed

-----------------------------------------------------------------------------

LEMMA SumCountsDef ==
  ASSUME NEW f \in [UnitKeysets -> Nat]
  PROVE  SumCounts(f) = SumOver(f, UnitKeysets) /\ SumCounts(f) \in Nat
<1>1. SumCounts(f) = SumOver(f, UnitKeysets)
  BY DEF SumCounts, SumOver, MapThenSumSet, MapThenFoldSet
<1>2. IsFiniteSet(UnitKeysets)
  BY UnitsAssumption DEF UnitKeysets
<1> QED
  BY <1>1, <1>2, SumType

(* Counts of one unit are all in the keysets of its asset.                  *)
LEMMA TokensOfUnit ==
  ASSUME NEW f \in [UnitKeysets -> Nat], NEW u, Uses(f, u), NEW a
  PROVE  Tokens(f, a) = IF u \in UnitsOf(a) THEN SumCounts(f) ELSE 0
<1>1. IsFiniteSet(UnitKeysets) /\ KeysetsOf(a) \subseteq UnitKeysets
  BY UnitsAssumption DEF UnitKeysets, KeysetsOf
<1>2. IsFiniteSet(KeysetsOf(a)) /\ IsFiniteSet(UnitKeysets \ KeysetsOf(a))
  BY <1>1, FS_Subset
<1>3. SumOver(f, UnitKeysets) = SumOver(f, KeysetsOf(a)) + SumOver(f, UnitKeysets \ KeysetsOf(a))
  BY <1>1, SumSplit
<1>4. CASE u \in UnitsOf(a)
  <2>1. \A k \in UnitKeysets \ KeysetsOf(a) : f[k] = 0
    BY <1>4 DEF Uses, KeysetsOf
  <2>2. SumOver(f, UnitKeysets \ KeysetsOf(a)) = 0
    BY <1>2, <2>1, SumZero
  <2>3. SumOver(f, KeysetsOf(a)) \in Nat
    BY <1>1, <1>2, SumType
  <2> QED
    BY <1>3, <1>4, <2>2, <2>3, SumCountsDef DEF Tokens
<1>5. CASE u \notin UnitsOf(a)
  <2>1. \A k \in KeysetsOf(a) : f[k] = 0
    BY <1>5 DEF Uses, KeysetsOf
  <2> QED
    BY <1>2, <1>5, <2>1, SumZero DEF Tokens
<1> QED
  BY <1>4, <1>5

LEMMA TokensNat ==
  ASSUME NEW f \in [UnitKeysets -> Nat], NEW a
  PROVE  Tokens(f, a) \in Nat
<1>1. IsFiniteSet(UnitKeysets) /\ KeysetsOf(a) \subseteq UnitKeysets
  BY UnitsAssumption DEF UnitKeysets, KeysetsOf
<1>2. IsFiniteSet(KeysetsOf(a))
  BY <1>1, FS_Subset
<1> QED
  BY <1>1, <1>2, SumType DEF Tokens

LEMMA TokensPlus ==
  ASSUME NEW f \in [UnitKeysets -> Nat], NEW g \in [UnitKeysets -> Nat], NEW h,
         \A k \in UnitKeysets : h[k] = f[k] + g[k], NEW a
  PROVE  /\ Tokens(f, a) \in Nat /\ Tokens(g, a) \in Nat
         /\ Tokens(h, a) = Tokens(f, a) + Tokens(g, a)
<1>1. IsFiniteSet(UnitKeysets) /\ KeysetsOf(a) \subseteq UnitKeysets
  BY UnitsAssumption DEF UnitKeysets, KeysetsOf
<1>2. IsFiniteSet(KeysetsOf(a))
  BY <1>1, FS_Subset
<1>3. SumOver(f, KeysetsOf(a)) \in Nat /\ SumOver(g, KeysetsOf(a)) \in Nat
  BY <1>1, <1>2, SumType
<1>4. \A k \in KeysetsOf(a) : f[k] \in Int /\ g[k] \in Int /\ h[k] = f[k] + g[k]
  BY <1>1
<1>5. SumOver(h, KeysetsOf(a)) = SumOver(f, KeysetsOf(a)) + SumOver(g, KeysetsOf(a))
  BY <1>2, <1>4, SumPlus
<1> QED
  BY <1>3, <1>5 DEF Tokens

LEMMA MaxZero == ASSUME NEW n \in Int PROVE Max({0, n}) = NonNegative(n)
<1>1. \E m \in {0, n} : \A y \in {0, n} : m >= y
  OBVIOUS
<1>2. Max({0, n}) \in {0, n} /\ Max({0, n}) >= 0 /\ Max({0, n}) >= n
  BY <1>1 DEF Max
<1> QED
  BY <1>2 DEF NonNegative

(* Each method and unit is filed once, with the backend that holds the      *)
(* unit's asset.                                                            *)
LEMMA Filed ==
  ASSUME NEW i \in DOMAIN Registrations, NEW m, NEW u
  PROVE  MethodKey(m, u) \in KeysFiled(Registrations[i]) <=>
           m \in Registrations[i].methods /\ u \in Registrations[i].units
<1> DEFINE r == Registrations[i]
<1>1. ASSUME m \in r.methods, u \in r.units
      PROVE  MethodKey(m, u) \in KeysFiled(r)
  <2>1. <<m, u>> \in r.methods \X r.units
    BY <1>1
  <2>2. MethodKey(m, u) = MethodKey(<<m, u>>[1], <<m, u>>[2])
    BY DEF MethodKey
  <2> QED
    BY <2>1, <2>2 DEF KeysFiled
<1>2. ASSUME MethodKey(m, u) \in KeysFiled(r)
      PROVE  m \in r.methods /\ u \in r.units
  <2>1. PICK key \in r.methods \X r.units : MethodKey(m, u) = MethodKey(key[1], key[2])
    BY <1>2 DEF KeysFiled
  <2>2. key[1] \in r.methods /\ key[2] \in r.units
    BY <2>1
  <2>3. m = key[1] /\ u = key[2]
    BY <2>1 DEF MethodKey
  <2> QED
    BY <2>2, <2>3
<1> QED
  BY <1>1, <1>2

LEMMA RouteBackend ==
  ASSUME NEW m, NEW u, <<m, u>> \in Routes
  PROVE  /\ m \in {"onchain", "bolt11", "unit"} /\ u \in UnitNames
         /\ GetByMethod(m, u) \in Backends
         /\ \A a \in Assets : GetByMethod(m, u) \in BackendsOf(a) <=> u \in UnitsOf(a)
         /\ GetByMethod(m, u) = "runes" => m # "bolt11" /\ u = "unit"
         /\ Account(m, u) \in Accounts
         /\ \A a \in Assets : Account(m, u) \in AccountsOf(a) <=> u \in UnitsOf(a)
<1> DEFINE Found == {i \in DOMAIN Registrations : MethodKey(m, u) \in KeysFiled(Registrations[i])}
<1>1. DOMAIN Registrations = 1 .. 3
  BY DEF Registrations
<1>2. Found = {i \in 1 .. 3 : m \in Registrations[i].methods /\ u \in Registrations[i].units}
  BY <1>1, Filed
<1>3. m \in {"onchain", "bolt11", "unit"} /\ u \in UnitNames /\ Found # {}
  BY DEF Routes, HasMethod, UnitNames
<1>4. \E i \in 1 .. 3 : Found = {i}
  BY <1>2, <1>3 DEF Registrations
<1>5. PICK i \in 1 .. 3 : Found = {i}
  BY <1>4
<1>6. Max(Found) = i
  BY <1>5 DEF Max
<1>7. GetByMethod(m, u) = Registrations[i].backend
  BY <1>6 DEF GetByMethod
<1>8. m \in Registrations[i].methods /\ u \in Registrations[i].units
  BY <1>2, <1>5
<1>9. m = "bolt11" => u = "sat"
  BY <1>8 DEF Registrations
<1>10. /\ Account(m, u) \in Accounts
       /\ \A a \in Assets : Account(m, u) \in AccountsOf(a) <=> u \in UnitsOf(a)
  BY <1>3, <1>9 DEF Account, Accounts, AccountsOf, UnitsOf, UnitNames, Assets
<1> QED
  BY <1>3, <1>7, <1>8, <1>10 DEF Registrations, Backends, BackendsOf, UnitsOf, Assets

-----------------------------------------------------------------------------

LEMMA CountsAreNat == Counts \subseteq [UnitKeysets -> Nat] /\ NoCounts \in [UnitKeysets -> Nat]
BY UnitsAssumption DEF Counts, NoCounts

LEMMA NoOrderIsOrder == NoOrder \in Orders /\ NoOrder.op = "none"
BY CountsAreNat DEF NoOrder, Orders, UnitNames

(* At the end of a call nothing is owed.                                    *)
LEMMA EndOrder ==
  ASSUME order' = NoOrder
  PROVE  order' \in Orders /\ OrderInv' /\ \A a : Owed(a)' = 0
<1>1. order' \in Orders /\ order'.op = "none"
  BY NoOrderIsOrder
<1> QED
  BY <1>1 DEF OrderInv, Owed

LEMMA OwedIsNat ==
  ASSUME UnitsType, NEW a \in Assets
  PROVE  Owed(a) \in Nat
<1>1. order.inputs \in [UnitKeysets -> Nat] /\ order.amount \in Int
  BY DEF UnitsType, Orders
<1>2. Tokens(order.inputs, a) \in Nat
  BY <1>1, TokensNat
<1> QED
  BY <1>1, <1>2 DEF Owed, NonNegative

LEMMA BackedNumbers ==
  ASSUME UnitsType, NEW a \in Assets
  PROVE  Tokens(outstanding, a) \in Nat /\ Quotes(a) \in Nat /\ Reserves(a) \in Nat /\ Owed(a) \in Nat
<1>1. Tokens(outstanding, a) \in Nat
  BY TokensNat DEF UnitsType
<1> QED
  BY <1>1, OwedIsNat DEF UnitsType, Quotes, Reserves, Accounts, UnitNames, Backends

(* The next state's Backed, with the tokens in its first argument.          *)
LEMMA BackedNext ==
  ASSUME \A a \in Assets : Tokens(outstanding', a) + Quotes(a)' + Owed(a)' <= Reserves(a)'
  PROVE  Backed'
BY DEF Backed

(* A step at which neither the money nor the tokens change.                 *)
LEMMA MovesNothing ==
  ASSUME UnitsInv, UNCHANGED <<outstanding, credited, funds, lossVars>>,
         order' \in Orders, OrderInv', \A a \in Assets : Owed(a)' = 0 \/ Owed(a)' = Owed(a)
  PROVE  UnitsInv'
<1>1. UnitsType'
  BY DEF UnitsInv, UnitsType
<1>2. ASSUME NEW a \in Assets
      PROVE  Tokens(outstanding', a) + Quotes(a)' + Owed(a)' <= Reserves(a)'
  <2>1. Tokens(outstanding, a) + Quotes(a) + Owed(a) <= Reserves(a)
    BY DEF UnitsInv, Backed
  <2>2. Tokens(outstanding', a) = Tokens(outstanding, a) /\ Quotes(a)' = Quotes(a) /\ Reserves(a)' = Reserves(a)
    BY DEF Quotes, Reserves
  <2>3. UnitsType
    BY DEF UnitsInv
  <2> QED
    BY <2>1, <2>2, <2>3, BackedNumbers
<1> QED
  BY <1>1, <1>2, BackedNext DEF UnitsInv

LEMMA DepositKeeps ==
  ASSUME UnitsInv, NEW r \in Routes, Deposit(r[1], r[2])
  PROVE  UnitsInv'
<1> DEFINE b == GetByMethod(r[1], r[2])
           u == Account(r[1], r[2])
<1>1. <<r[1], r[2]>> \in Routes
  BY DEF Routes
<1>2. b \in Backends /\ u \in Accounts /\ \A a \in Assets : b \in BackendsOf(a) <=> u \in AccountsOf(a)
  BY <1>1, RouteBackend
<1> HIDE DEF b, u
<1>3. /\ funds' = [funds EXCEPT ![b] = @ + 1] /\ credited' = [credited EXCEPT ![u] = @ + 1]
      /\ UNCHANGED <<outstanding, lossVars, order>>
  BY DEF Deposit, b, u
<1>4. UnitsType /\ OrderInv /\ Backed
  BY DEF UnitsInv
<1>5. UnitsType'
  BY <1>2, <1>3, <1>4 DEF UnitsType
<1>6. OrderInv'
  <2> DEFINE v == Account(order.method, order.unit)
  <2>1. order.op = "mint" => SumCounts(order.outputs) <= credited'[v]
    <3> SUFFICES ASSUME order.op = "mint"
                 PROVE  SumCounts(order.outputs) <= credited'[v]
      OBVIOUS
    <3>1. v \in Accounts /\ order.outputs \in [UnitKeysets -> Nat]
      BY <1>4, RouteBackend DEF UnitsType, Orders, OrderInv
    <3>2. SumCounts(order.outputs) \in Nat /\ SumCounts(order.outputs) <= credited[v]
      BY <1>4, <3>1, SumCountsDef DEF OrderInv
    <3> HIDE DEF v
    <3>3. credited[v] \in Nat /\ credited'[v] \in Nat /\ credited'[v] >= credited[v]
      BY <1>2, <1>3, <1>4, <3>1 DEF UnitsType
    <3> QED
      BY <3>2, <3>3
  <2> QED
    BY <1>3, <1>4, <2>1 DEF OrderInv
<1>7. ASSUME NEW a \in Assets
      PROVE  Tokens(outstanding', a) + Quotes(a)' + Owed(a)' <= Reserves(a)'
  <2>1. Tokens(outstanding', a) = Tokens(outstanding, a) /\ Owed(a)' = Owed(a)
    BY <1>3 DEF Owed
  <2>2. Quotes(a)' = Quotes(a) + (IF u \in AccountsOf(a) THEN 1 ELSE 0)
    BY <1>2, <1>3, <1>4 DEF Quotes, UnitsType, AccountsOf, Accounts, UnitNames, Assets
  <2>3. Reserves(a)' = Reserves(a) + (IF b \in BackendsOf(a) THEN 1 ELSE 0)
    BY <1>2, <1>3, <1>4 DEF Reserves, UnitsType, BackendsOf, Backends, Assets
  <2>4. Tokens(outstanding, a) + Quotes(a) + Owed(a) <= Reserves(a)
    BY <1>4 DEF Backed
  <2>5. Tokens(outstanding, a) \in Nat /\ Quotes(a) \in Nat /\ Reserves(a) \in Nat /\ Owed(a) \in Nat
    BY <1>4, BackedNumbers
  <2>6. u \in AccountsOf(a) <=> b \in BackendsOf(a)
    BY <1>2
  <2> QED
    BY <2>1, <2>2, <2>3, <2>4, <2>5, <2>6
<1> QED
  BY <1>5, <1>6, <1>7, BackedNext DEF UnitsInv

(* A deposit that goes is counted among what was lost.                      *)
LEMMA ReorgKeeps ==
  ASSUME UnitsInv, NEW b \in Backends, Reorg(b)
  PROVE  UnitsInv'
<1>1. UnitsType /\ OrderInv /\ Backed
  BY DEF UnitsInv
<1>2. /\ funds[b] > 0 /\ funds' = [funds EXCEPT ![b] = @ - 1]
      /\ unnoticed' = [unnoticed EXCEPT ![b] = @ + 1]
      /\ UNCHANGED <<outstanding, credited, subsidy, overpaid, reissued, order>>
  BY DEF Reorg
<1>3. UnitsType' /\ OrderInv'
  BY <1>1, <1>2 DEF UnitsType, OrderInv
<1>4. ASSUME NEW a \in Assets
      PROVE  Tokens(outstanding', a) + Quotes(a)' + Owed(a)' <= Reserves(a)'
  <2>1. Tokens(outstanding', a) = Tokens(outstanding, a) /\ Owed(a)' = Owed(a) /\ Quotes(a)' = Quotes(a)
    BY <1>2 DEF Owed, Quotes
  <2>2. Reserves(a)' = Reserves(a)
    BY <1>1, <1>2 DEF Reserves, UnitsType, Backends, Assets
  <2>3. Tokens(outstanding, a) + Quotes(a) + Owed(a) <= Reserves(a)
    BY <1>1 DEF Backed
  <2> QED
    BY <2>1, <2>2, <2>3
<1> QED
  BY <1>3, <1>4, BackedNext DEF UnitsInv

LEMMA IssueTokens ==
  ASSUME UnitsType, NEW outputs \in [UnitKeysets -> Nat], Issue(outputs)
  PROVE  /\ outstanding' \in [UnitKeysets -> Nat]
         /\ \A a : Tokens(outstanding', a) = Tokens(outstanding, a) + Tokens(outputs, a)
<1>1. outstanding \in [UnitKeysets -> Nat] /\ outstanding' = [k \in UnitKeysets |-> outstanding[k] + outputs[k]]
  BY DEF UnitsType, Issue
<1>2. \A k \in UnitKeysets : outstanding'[k] = outstanding[k] + outputs[k]
  BY <1>1
<1>3. outstanding' \in [UnitKeysets -> Nat]
  BY <1>1
<1> QED
  BY <1>1, <1>2, <1>3, TokensPlus

LEMMA SpendTokens ==
  ASSUME UnitsType, NEW inputs \in [UnitKeysets -> Nat], Spend(inputs)
  PROVE  /\ outstanding' \in [UnitKeysets -> Nat]
         /\ \A a : /\ Tokens(outstanding', a) \in Nat
                   /\ Tokens(outstanding, a) = Tokens(outstanding', a) + Tokens(inputs, a)
<1>1. /\ outstanding \in [UnitKeysets -> Nat]
      /\ \A k \in UnitKeysets : inputs[k] <= outstanding[k]
      /\ outstanding' = [k \in UnitKeysets |-> outstanding[k] - inputs[k]]
  BY DEF UnitsType, Spend
<1>2. \A k \in UnitKeysets : outstanding[k] = outstanding'[k] + inputs[k]
  BY <1>1
<1>3. outstanding' \in [UnitKeysets -> Nat]
  BY <1>1
<1> QED
  BY <1>2, <1>3, TokensPlus

LEMMA BeginMintKeeps ==
  ASSUME UnitsInv, NEW r \in Routes, NEW outputs \in Counts, BeginMint(r[1], r[2], outputs)
  PROVE  UnitsInv'
<1> DEFINE method == r[1]
           unit == r[2]
           v == Account(method, unit)
<1>1. order' = [NoOrder EXCEPT !.op = "mint", !.method = method, !.unit = unit, !.outputs = outputs]
  BY DEF BeginMint
<1>2. <<method, unit>> \in Routes
  BY DEF Routes
<1>3. method \in {"onchain", "bolt11", "unit"} /\ unit \in UnitNames
  BY <1>2, RouteBackend
<1>4. Uses(outputs, unit)
  BY DEF BeginMint, UseUnit, Named, Uses, Counts
<1>5. SumCounts(outputs) <= credited[v]
  <2>1. SumCounts(outputs) \in 1 .. credited[v]
    BY DEF BeginMint
  <2> QED
    BY <2>1
<1> HIDE DEF method, unit
<1>6. /\ order'.op = "mint" /\ order'.method = method /\ order'.unit = unit /\ order'.outputs = outputs
      /\ order' \in Orders
  <2>1. order' = [op |-> "mint", unit |-> unit, method |-> method, inputs |-> NoCounts,
                  outputs |-> outputs, amount |-> 0, invoice |-> 0, reserve |-> 0]
    BY <1>1 DEF NoOrder
  <2>2. order' \in Orders
    BY <1>3, <2>1, CountsAreNat DEF Orders
  <2> QED
    BY <2>1, <2>2
<1>7. UNCHANGED <<outstanding, credited, funds, lossVars>>
  BY DEF BeginMint
<1>8. OrderInv'
  BY <1>2, <1>4, <1>5, <1>6, <1>7 DEF OrderInv, Account
<1>9. \A a \in Assets : Owed(a)' = 0
  BY <1>6 DEF Owed
<1> QED
  BY <1>6, <1>7, <1>8, <1>9, MovesNothing

LEMMA SignMintKeeps ==
  ASSUME UnitsInv, SignMint
  PROVE  UnitsInv'
<1> DEFINE outputs == order.outputs
           u == order.unit
           v == Account(order.method, u)
<1>1. UnitsType /\ OrderInv /\ Backed
  BY DEF UnitsInv
<1>2. /\ outputs \in [UnitKeysets -> Nat] /\ Uses(outputs, u) /\ SumCounts(outputs) <= credited[v]
      /\ <<order.method, u>> \in Routes
  BY <1>1 DEF UnitsType, Orders, OrderInv, SignMint
<1>3. v \in Accounts /\ \A a \in Assets : v \in AccountsOf(a) <=> u \in UnitsOf(a)
  BY <1>2, RouteBackend
<1>4. /\ Issue(outputs) /\ credited' = [credited EXCEPT ![v] = @ - SumCounts(outputs)]
      /\ order' = NoOrder /\ UNCHANGED <<funds, lossVars>>
  BY DEF SignMint
<1> HIDE DEF outputs, u, v
<1>5. SumCounts(outputs) \in Nat
  BY <1>2, SumCountsDef
<1>6. UnitsType'
  <2>1. credited' \in [Accounts -> Nat]
    BY <1>1, <1>2, <1>3, <1>4, <1>5 DEF UnitsType
  <2> QED
    BY <1>1, <1>2, <1>4, <2>1, IssueTokens, EndOrder DEF UnitsType
<1>7. ASSUME NEW a \in Assets
      PROVE  Tokens(outstanding', a) + Quotes(a)' + Owed(a)' <= Reserves(a)'
  <2>1. Tokens(outstanding', a) = Tokens(outstanding, a) + Tokens(outputs, a)
    BY <1>1, <1>2, <1>4, IssueTokens
  <2>2. Tokens(outputs, a) = IF u \in UnitsOf(a) THEN SumCounts(outputs) ELSE 0
    BY <1>2, TokensOfUnit
  <2>3. Quotes(a)' = Quotes(a) - (IF v \in AccountsOf(a) THEN SumCounts(outputs) ELSE 0)
    BY <1>1, <1>3, <1>4, <1>5 DEF Quotes, UnitsType, AccountsOf, Accounts, UnitNames, Assets
  <2>4. Owed(a)' = 0 /\ Reserves(a)' = Reserves(a)
    BY <1>4, EndOrder DEF Reserves
  <2>5. Tokens(outstanding, a) + Quotes(a) + Owed(a) <= Reserves(a)
    BY <1>1 DEF Backed
  <2>6. Tokens(outstanding, a) \in Nat /\ Quotes(a) \in Nat /\ Reserves(a) \in Nat /\ Owed(a) \in Nat
    BY <1>1, BackedNumbers
  <2> QED
    BY <1>3, <1>5, <2>1, <2>2, <2>3, <2>4, <2>5, <2>6
<1> QED
  BY <1>4, <1>6, <1>7, EndOrder, BackedNext DEF UnitsInv

LEMMA BeginMintAgainKeeps ==
  ASSUME UnitsInv, NEW outputs \in Counts, BeginMintAgain(outputs)
  PROVE  UnitsInv'
<1>1. /\ order' = [NoOrder EXCEPT !.op = "remint", !.method = "bolt11", !.unit = "sat", !.outputs = outputs]
      /\ UNCHANGED <<outstanding, credited, funds, lossVars>>
  BY DEF BeginMintAgain
<1>2. Uses(outputs, "sat")
  BY DEF BeginMintAgain, UseUnit, Named, Uses, Counts
<1>3. order'.op = "remint" /\ order'.outputs = outputs /\ order' \in Orders
  BY <1>1, NoOrderIsOrder, CountsAreNat DEF NoOrder, Orders, UnitNames
<1>4. OrderInv' /\ \A a \in Assets : Owed(a)' = 0
  BY <1>2, <1>3 DEF OrderInv, Owed
<1> QED
  BY <1>1, <1>3, <1>4, MovesNothing

(* A second issue is in sat, and counted among what Lightning has lost.     *)
LEMMA SignMintAgainKeeps ==
  ASSUME UnitsInv, SignMintAgain
  PROVE  UnitsInv'
<1> DEFINE outputs == order.outputs
<1>1. UnitsType /\ OrderInv /\ Backed
  BY DEF UnitsInv
<1>2. outputs \in [UnitKeysets -> Nat] /\ Uses(outputs, "sat")
  BY <1>1 DEF UnitsType, Orders, OrderInv, SignMintAgain
<1>3. /\ Issue(outputs) /\ reissued' = reissued + SumCounts(outputs) /\ order' = NoOrder
      /\ UNCHANGED <<credited, funds, subsidy, unnoticed, overpaid>>
  BY DEF SignMintAgain
<1> HIDE DEF outputs
<1>4. SumCounts(outputs) \in Nat
  BY <1>2, SumCountsDef
<1>5. UnitsType'
  BY <1>1, <1>2, <1>3, <1>4, IssueTokens, EndOrder DEF UnitsType
<1>6. ASSUME NEW a \in Assets
      PROVE  Tokens(outstanding', a) + Quotes(a)' + Owed(a)' <= Reserves(a)'
  <2>1. Tokens(outstanding', a) = Tokens(outstanding, a) + Tokens(outputs, a)
    BY <1>1, <1>2, <1>3, IssueTokens
  <2>2. Tokens(outputs, a) = IF "sat" \in UnitsOf(a) THEN SumCounts(outputs) ELSE 0
    BY <1>2, TokensOfUnit
  <2>3. Reserves(a)' = Reserves(a) + (IF "sat" \in UnitsOf(a) THEN SumCounts(outputs) ELSE 0)
    BY <1>1, <1>3, <1>4 DEF Reserves, UnitsType, UnitsOf, Backends, Assets
  <2>4. Owed(a)' = 0 /\ Quotes(a)' = Quotes(a)
    BY <1>3, EndOrder DEF Quotes
  <2>5. Tokens(outstanding, a) + Quotes(a) + Owed(a) <= Reserves(a)
    BY <1>1 DEF Backed
  <2>6. Tokens(outstanding, a) \in Nat /\ Quotes(a) \in Nat /\ Reserves(a) \in Nat /\ Owed(a) \in Nat
    BY <1>1, BackedNumbers
  <2> QED
    BY <1>4, <2>1, <2>2, <2>3, <2>4, <2>5, <2>6
<1> QED
  BY <1>3, <1>5, <1>6, EndOrder, BackedNext DEF UnitsInv

LEMMA BeginSwapKeeps ==
  ASSUME UnitsInv, NEW inputs \in Counts, NEW outputs \in Counts, BeginSwap(inputs, outputs)
  PROVE  UnitsInv'
<1>1. order' = [NoOrder EXCEPT !.op = "swap", !.inputs = inputs, !.outputs = outputs]
      /\ UNCHANGED <<outstanding, credited, funds, lossVars>>
  BY DEF BeginSwap
<1>2. order'.op = "swap" /\ order'.inputs = inputs /\ order'.outputs = outputs /\ order' \in Orders
  BY <1>1, NoOrderIsOrder, CountsAreNat DEF NoOrder, Orders
<1>3. \E u \in UnitNames : Uses(inputs, u) /\ Uses(outputs, u)
  <2> DEFINE k == CHOOSE k \in Named(inputs) : TRUE
  <2>1. k \in Named(inputs)
    BY DEF BeginSwap
  <2>2. DOMAIN inputs = UnitKeysets /\ DOMAIN outputs = UnitKeysets
    BY DEF Counts
  <2>3. UnitOf[k] \in UnitNames
    BY <2>1, <2>2, UnitsAssumption DEF Named, UnitKeysets
  <2>4. UseUnit(Named(inputs), UnitOf[k]) /\ UseUnit(Named(outputs), UnitOf[k])
    BY DEF BeginSwap
  <2>5. Uses(inputs, UnitOf[k]) /\ Uses(outputs, UnitOf[k])
    BY <2>2, <2>4 DEF UseUnit, Uses, Named
  <2> QED
    BY <2>3, <2>5
<1>4. SumCounts(outputs) <= SumCounts(inputs)
  <2>1. SumCounts(inputs) - SumCounts(outputs) \in 0 .. MaxFee
    BY DEF BeginSwap
  <2>2. SumCounts(inputs) \in Nat /\ SumCounts(outputs) \in Nat
    BY SumCountsDef, CountsAreNat
  <2> QED
    BY <2>1, <2>2
<1>5. OrderInv'
  BY <1>2, <1>3, <1>4 DEF OrderInv
<1>6. \A a \in Assets : Owed(a)' = 0
  BY <1>2 DEF Owed
<1> QED
  BY <1>1, <1>2, <1>5, <1>6, MovesNothing

(* What is spent is owed from then on (spendProofs of a swap and a melt).   *)
LEMMA SpendKeeps ==
  ASSUME UnitsInv, NEW op \in {"swapped", "pay"}, order.op \notin {"swapped", "pay", "change"},
         Spend(order.inputs), order' = [order EXCEPT !.op = op], OrderInv',
         UNCHANGED <<credited, funds, lossVars>>
  PROVE  UnitsInv'
<1>1. UnitsType /\ Backed
  BY DEF UnitsInv
<1>2. order.inputs \in [UnitKeysets -> Nat] /\ order'.op = op /\ order'.inputs = order.inputs
      /\ order' \in Orders
  BY <1>1 DEF UnitsType, Orders
<1>3. UnitsType'
  BY <1>1, <1>2, SpendTokens DEF UnitsType
<1>4. ASSUME NEW a \in Assets
      PROVE  Tokens(outstanding', a) + Quotes(a)' + Owed(a)' <= Reserves(a)'
  <2>1. Owed(a) = 0 /\ Owed(a)' = Tokens(order.inputs, a)
    BY <1>2 DEF Owed
  <2>2. Tokens(outstanding', a) \in Nat /\ Tokens(order.inputs, a) \in Nat
        /\ Tokens(outstanding, a) = Tokens(outstanding', a) + Tokens(order.inputs, a)
    BY <1>1, <1>2, SpendTokens, TokensNat
  <2>3. Quotes(a)' = Quotes(a) /\ Reserves(a)' = Reserves(a)
    BY DEF Quotes, Reserves
  <2>4. Tokens(outstanding, a) + Quotes(a) + Owed(a) <= Reserves(a)
    BY <1>1 DEF Backed
  <2>5. Quotes(a) \in Nat /\ Reserves(a) \in Nat
    BY <1>1, BackedNumbers
  <2> QED
    BY <2>1, <2>2, <2>3, <2>4, <2>5
<1> QED
  BY <1>3, <1>4, BackedNext DEF UnitsInv

(* What is issued at the end of a call is no more than is owed.             *)
LEMMA IssueKeeps ==
  ASSUME UnitsInv, NEW outputs \in [UnitKeysets -> Nat], Issue(outputs), order' = NoOrder,
         \A a \in Assets : Tokens(outputs, a) <= Owed(a),
         UNCHANGED <<credited, funds, lossVars>>
  PROVE  UnitsInv'
<1>1. UnitsType /\ Backed
  BY DEF UnitsInv
<1>2. UnitsType'
  BY <1>1, IssueTokens, EndOrder DEF UnitsType
<1>3. ASSUME NEW a \in Assets
      PROVE  Tokens(outstanding', a) + Quotes(a)' + Owed(a)' <= Reserves(a)'
  <2>1. Owed(a)' = 0
    BY EndOrder
  <2>2. Tokens(outputs, a) \in Nat /\ Tokens(outputs, a) <= Owed(a)
        /\ Tokens(outstanding', a) = Tokens(outstanding, a) + Tokens(outputs, a)
    BY <1>1, IssueTokens, TokensNat
  <2>3. Quotes(a)' = Quotes(a) /\ Reserves(a)' = Reserves(a)
    BY DEF Quotes, Reserves
  <2>4. Tokens(outstanding, a) + Quotes(a) + Owed(a) <= Reserves(a)
    BY <1>1 DEF Backed
  <2>5. Tokens(outstanding, a) \in Nat /\ Quotes(a) \in Nat /\ Reserves(a) \in Nat /\ Owed(a) \in Nat
    BY <1>1, BackedNumbers
  <2> QED
    BY <2>1, <2>2, <2>3, <2>4, <2>5
<1> QED
  BY <1>2, <1>3, EndOrder, BackedNext DEF UnitsInv

LEMMA SpendSwapKeeps ==
  ASSUME UnitsInv, SpendSwap
  PROVE  UnitsInv'
<1>1. /\ order.op = "swap" /\ Spend(order.inputs) /\ order' = [order EXCEPT !.op = "swapped"]
      /\ UNCHANGED <<credited, funds, lossVars>>
  BY DEF SpendSwap
<1>2. order'.op = "swapped" /\ order'.inputs = order.inputs /\ order'.outputs = order.outputs
  BY <1>1 DEF UnitsInv, UnitsType, Orders
<1>3. OrderInv'
  BY <1>1, <1>2 DEF UnitsInv, OrderInv
<1> QED
  BY <1>1, <1>3, SpendKeeps

LEMMA SignSwapKeeps ==
  ASSUME UnitsInv, SignSwap
  PROVE  UnitsInv'
<1>1. /\ order.op = "swapped" /\ Issue(order.outputs) /\ order' = NoOrder
      /\ UNCHANGED <<credited, funds, lossVars>>
  BY DEF SignSwap
<1>2. order.inputs \in [UnitKeysets -> Nat] /\ order.outputs \in [UnitKeysets -> Nat]
  BY DEF UnitsInv, UnitsType, Orders
<1>3. PICK u \in UnitNames : Uses(order.inputs, u) /\ Uses(order.outputs, u)
  BY <1>1 DEF UnitsInv, OrderInv
<1>4. SumCounts(order.outputs) <= SumCounts(order.inputs)
  BY <1>1 DEF UnitsInv, OrderInv
<1>5. ASSUME NEW a \in Assets
      PROVE  Tokens(order.outputs, a) <= Owed(a)
  <2>1. Owed(a) = Tokens(order.inputs, a)
    BY <1>1 DEF Owed
  <2> QED
    BY <1>2, <1>3, <1>4, <2>1, TokensOfUnit
<1> QED
  BY <1>1, <1>2, <1>5, IssueKeeps

LEMMA BeginMeltKeeps ==
  ASSUME UnitsInv, NEW r \in Routes, NEW inputs \in Counts, NEW outputs \in SUBSET UnitKeysets,
         NEW amount \in 1 .. MaxTokens, NEW invoice \in 1 .. MaxTokens, NEW fee \in 0 .. MaxFee,
         BeginMelt(r[1], r[2], inputs, outputs, amount, invoice, fee)
  PROVE  UnitsInv'
<1> DEFINE method == r[1]
           unit == r[2]
           reserve == Charged(method, unit, fee)
           blanks == [k \in UnitKeysets |-> IF k \in outputs THEN 1 ELSE 0]
<1>1. <<method, unit>> \in Routes
  BY DEF Routes
<1>2. method \in {"onchain", "bolt11", "unit"} /\ unit \in UnitNames
  BY <1>1, RouteBackend
<1>3. amount \in Nat /\ invoice \in Nat /\ reserve \in Nat
  BY UnitsAssumption DEF Charged
<1>4. order' = [NoOrder EXCEPT !.op = "melt", !.unit = unit, !.method = method, !.inputs = inputs,
                  !.outputs = blanks, !.amount = amount, !.invoice = invoice, !.reserve = reserve]
  BY DEF BeginMelt
<1>5. /\ SumCounts(inputs) >= amount + reserve /\ UNCHANGED <<outstanding, credited, funds, lossVars>>
      /\ method # "bolt11" => invoice = amount /\ (unit = "unit" => reserve = 0)
  BY DEF BeginMelt, Charged
<1>6. Uses(inputs, unit) /\ Uses(blanks, unit)
  <2>1. UseUnit(Named(inputs), unit) /\ UseUnit(outputs, unit)
    BY DEF BeginMelt
  <2> QED
    BY <2>1 DEF UseUnit, Named, Uses, Counts
<1>7. blanks \in [UnitKeysets -> Nat]
  OBVIOUS
<1> HIDE DEF method, unit, reserve, blanks
<1>8. /\ order'.op = "melt" /\ order'.unit = unit /\ order'.method = method /\ order'.inputs = inputs
      /\ order'.outputs = blanks /\ order'.amount = amount /\ order'.invoice = invoice
      /\ order'.reserve = reserve /\ order' \in Orders
  <2>1. order' = [op |-> "melt", unit |-> unit, method |-> method, inputs |-> inputs,
                  outputs |-> blanks, amount |-> amount, invoice |-> invoice, reserve |-> reserve]
    BY <1>4 DEF NoOrder
  <2>2. inputs \in [UnitKeysets -> Nat]
    BY CountsAreNat
  <2>3. order' \in Orders
    BY <1>2, <1>3, <1>7, <2>1, <2>2 DEF Orders
  <2> QED
    BY <2>1, <2>3
<1>9. OrderInv'
  BY <1>1, <1>3, <1>5, <1>6, <1>8 DEF OrderInv
<1>10. \A a \in Assets : Owed(a)' = 0
  BY <1>8 DEF Owed
<1> QED
  BY <1>5, <1>8, <1>9, <1>10, MovesNothing

LEMMA SpendMeltKeeps ==
  ASSUME UnitsInv, SpendMelt
  PROVE  UnitsInv'
<1>1. /\ order.op = "melt" /\ Spend(order.inputs) /\ order' = [order EXCEPT !.op = "pay"]
      /\ UNCHANGED <<credited, funds, lossVars>>
  BY DEF SpendMelt
<1>2. order' \in Orders /\ order'.op = "pay"
  BY <1>1 DEF UnitsInv, UnitsType, Orders
<1>3. /\ order'.unit = order.unit /\ order'.method = order.method /\ order'.inputs = order.inputs
      /\ order'.outputs = order.outputs /\ order'.amount = order.amount /\ order'.invoice = order.invoice
      /\ order'.reserve = order.reserve
  BY <1>1 DEF UnitsInv, UnitsType, Orders
<1>4. OrderInv'
  BY <1>1, <1>2, <1>3 DEF UnitsInv, OrderInv
<1> QED
  BY <1>1, <1>4, SpendKeeps

(* What a payment takes from a backend.                                     *)
LEMMA OutflowIs ==
  ASSUME UnitsType, NEW b \in Backends, NEW fee \in Nat
  PROVE  /\ FeePayer(b) \in Backends
         /\ \A c \in Backends :
              /\ Outflow(b, fee)[c] \in Nat
              /\ Outflow(b, fee)[c] = (IF c = b THEN order.invoice ELSE 0) + (IF c = FeePayer(b) THEN fee ELSE 0)
<1>1. order.invoice \in Nat
  BY DEF UnitsType, Orders
<1> QED
  BY <1>1 DEF Outflow, FeePayer, Backends

LEMMA PayKeeps ==
  ASSUME UnitsInv, Pay
  PROVE  UnitsInv'
<1> DEFINE b == GetByMethod(order.method, order.unit)
           p == FeePayer(b)
           u == order.unit
           inputs == SumCounts(order.inputs)
<1>1. UnitsType /\ OrderInv /\ Backed /\ order.op = "pay"
  BY DEF UnitsInv, Pay, Withdraw
<1>2. /\ order.inputs \in [UnitKeysets -> Nat] /\ inputs \in Nat
      /\ order.amount \in Nat /\ order.invoice \in Nat /\ order.reserve \in Nat
      /\ inputs >= order.amount + order.reserve
      /\ order.method # "bolt11" =>
           order.invoice = order.amount /\ (u = "unit" => order.reserve = 0)
      /\ Uses(order.inputs, u) /\ Uses(order.outputs, u)
  BY <1>1, SumCountsDef DEF UnitsType, Orders, OrderInv
<1>3. /\ b \in Backends /\ u \in UnitNames /\ \A a \in Assets : b \in BackendsOf(a) <=> u \in UnitsOf(a)
      /\ b = "runes" => order.method # "bolt11" /\ u = "unit"
      /\ p \in Backends /\ p = IF b = "runes" THEN "btc" ELSE b
  BY <1>1, RouteBackend DEF OrderInv, FeePayer, Backends
<1> DEFINE Left(fee) == inputs - order.amount - (IF order.method = "bolt11" THEN fee ELSE order.reserve)
<1>4. PICK fee \in 0 .. MaxFee :
        /\ \A c \in Backends : Outflow(b, fee)[c] <= funds[c]
        /\ funds' = [c \in Backends |-> funds[c] - Outflow(b, fee)[c]]
        /\ subsidy' = [subsidy EXCEPT ![p] = @ + Max({0, fee - order.reserve})]
        /\ order' = [order EXCEPT !.op = "change", !.amount = Left(fee)]
  BY DEF Pay, Withdraw
<1>5. /\ fee \in Nat /\ Left(fee) \in Int /\ UNCHANGED <<outstanding, credited, unnoticed, reissued>>
      /\ overpaid' = overpaid + Max({0, order.invoice - order.amount})
  BY <1>2, UnitsAssumption DEF Pay
<1> DEFINE borne == NonNegative(fee - order.reserve)
           above == NonNegative(order.invoice - order.amount)
<1>6. Max({0, fee - order.reserve}) = borne /\ Max({0, order.invoice - order.amount}) = above
  BY <1>2, <1>5, MaxZero
<1>7. borne \in Nat /\ above \in Nat /\ (b = "runes" => borne = fee /\ above = 0)
  BY <1>2, <1>3, <1>4, <1>5 DEF NonNegative
<1>8. /\ order'.op = "change" /\ order'.unit = u /\ order'.outputs = order.outputs
      /\ order'.amount = Left(fee) /\ order' \in Orders
  BY <1>1, <1>4, <1>5 DEF UnitsType, Orders
<1>9. NonNegative(Left(fee)) \in Nat /\ NonNegative(Left(fee)) <= inputs + borne + above - (order.invoice + fee)
  BY <1>2, <1>5 DEF NonNegative
<1> DEFINE outflow == Outflow(b, fee)
<1> HIDE DEF b, p, u, inputs, borne, above, Left
<1>10. /\ \A c \in Backends : outflow[c] \in Nat
       /\ \A c \in Backends :
             outflow[c] = (IF c = b THEN order.invoice ELSE 0) + (IF c = p THEN fee ELSE 0)
  BY <1>1, <1>3, <1>5, OutflowIs DEF p
<1>11. /\ \A c \in Backends : outflow[c] <= funds[c]
       /\ funds' = [c \in Backends |-> funds[c] - outflow[c]]
  BY <1>4
<1> HIDE DEF outflow
<1>12. /\ subsidy' = [subsidy EXCEPT ![p] = @ + borne]
       /\ overpaid' = overpaid + above
  BY <1>4, <1>5, <1>6
<1>13. UnitsType'
  <2>1. funds' \in [Backends -> Nat]
    BY <1>1, <1>10, <1>11 DEF UnitsType
  <2>2. subsidy' \in [Backends -> Nat] /\ overpaid' \in Nat
    BY <1>1, <1>3, <1>7, <1>12 DEF UnitsType
  <2> QED
    BY <1>1, <1>5, <1>8, <2>1, <2>2 DEF UnitsType
<1>14. OrderInv'
  BY <1>2, <1>8 DEF OrderInv
<1>15. ASSUME NEW a \in Assets
       PROVE  Tokens(outstanding', a) + Quotes(a)' + Owed(a)' <= Reserves(a)'
  <2>1. Tokens(outstanding', a) = Tokens(outstanding, a) /\ Quotes(a)' = Quotes(a)
    BY <1>5 DEF Quotes
  <2>2. Owed(a) = IF u \in UnitsOf(a) THEN inputs ELSE 0
    <3>1. Owed(a) = Tokens(order.inputs, a)
      BY <1>1 DEF Owed
    <3> QED
      BY <1>2, <3>1, TokensOfUnit DEF inputs
  <2>3. Owed(a)' = IF u \in UnitsOf(a) THEN NonNegative(Left(fee)) ELSE 0
    BY <1>8 DEF Owed
  <2>4. Reserves(a)' = Reserves(a) + (IF b \in BackendsOf(a) THEN borne + above - (order.invoice + fee) ELSE 0)
    <3>1. CASE b = "runes"
      <4>1. /\ funds'["runes"] = funds["runes"] - order.invoice
            /\ funds'["btc"] = funds["btc"] - fee /\ subsidy'["btc"] = subsidy["btc"] + fee
            /\ funds'["lightning"] = funds["lightning"] /\ subsidy'["lightning"] = subsidy["lightning"]
            /\ overpaid' = overpaid
        BY <1>1, <1>2, <1>3, <1>5, <1>7, <1>12, <1>10, <1>11, <3>1 DEF UnitsType, Backends
      <4> QED
        BY <1>1, <1>2, <1>5, <3>1, <4>1, <1>7 DEF Reserves, UnitsType, BackendsOf, Backends, Assets
    <3>2. CASE b # "runes"
      <4>1. /\ funds'[b] = funds[b] - (order.invoice + fee) /\ subsidy'[b] = subsidy[b] + borne
            /\ \A c \in Backends \ {b} : funds'[c] = funds[c] /\ subsidy'[c] = subsidy[c]
        <5>1. p = b
          BY <1>3, <3>2
        <5>2. /\ outflow[b] = order.invoice + fee
              /\ \A c \in Backends \ {b} : outflow[c] = 0
          BY <1>2, <1>3, <1>5, <1>10, <5>1
        <5>3. \A c \in Backends : funds'[c] = funds[c] - outflow[c]
          BY <1>11
        <5>4. /\ subsidy'[b] = subsidy[b] + borne
              /\ \A c \in Backends \ {b} : subsidy'[c] = subsidy[c]
          BY <1>1, <1>3, <1>12, <5>1 DEF UnitsType
        <5>5. \A c \in Backends : funds[c] \in Nat
          BY <1>1 DEF UnitsType
        <5> QED
          BY <1>2, <1>3, <1>5, <5>2, <5>3, <5>4, <5>5
      <4>2. /\ overpaid' = overpaid + above /\ UNCHANGED <<unnoticed, reissued>>
            /\ a \in {"runes", "bitcoin"} /\ b \in {"btc", "lightning"}
        BY <1>3, <1>5, <1>12, <3>2 DEF Assets, Backends
      <4> QED
        BY <1>1, <1>2, <1>5, <1>7, <4>1, <4>2 DEF Reserves, UnitsType, BackendsOf, Backends
    <3> QED
      BY <3>1, <3>2
  <2>5. Tokens(outstanding, a) + Quotes(a) + Owed(a) <= Reserves(a)
    BY <1>1 DEF Backed
  <2>6. Tokens(outstanding, a) \in Nat /\ Quotes(a) \in Nat /\ Reserves(a) \in Nat
    BY <1>1, BackedNumbers
  <2> QED
    BY <1>2, <1>3, <1>5, <1>7, <1>9, <2>1, <2>2, <2>3, <2>4, <2>5, <2>6
<1> QED
  BY <1>13, <1>14, <1>15, BackedNext DEF UnitsInv

LEMMA PayFailsKeeps ==
  ASSUME UnitsInv, PayFails
  PROVE  UnitsInv'
<1>1. /\ order.op = "pay" /\ Issue(order.inputs) /\ order' = NoOrder
      /\ UNCHANGED <<credited, funds, lossVars>>
  BY DEF PayFails
<1>2. order.inputs \in [UnitKeysets -> Nat]
  BY DEF UnitsInv, UnitsType, Orders
<1>3. \A a \in Assets : Owed(a) = Tokens(order.inputs, a) /\ Tokens(order.inputs, a) \in Nat
  BY <1>1, <1>2, TokensNat DEF Owed
<1>4. \A a \in Assets : Tokens(order.inputs, a) <= Owed(a)
  BY <1>3
<1> QED
  BY <1>1, <1>2, <1>4, IssueKeeps

(* What left before the call threw is counted among what was lost.          *)
LEMMA PayUnansweredKeeps ==
  ASSUME UnitsInv, PayUnanswered
  PROVE  UnitsInv'
<1> DEFINE b == GetByMethod(order.method, order.unit)
<1>1. UnitsType /\ OrderInv /\ Backed /\ order.op = "pay"
  BY DEF UnitsInv, PayUnanswered, Withdraw
<1>2. order.inputs \in [UnitKeysets -> Nat] /\ order.invoice \in Nat /\ b \in Backends
  BY <1>1, RouteBackend DEF UnitsType, Orders, OrderInv
<1>3. PICK fee \in 0 .. MaxFee :
        /\ \A c \in Backends : Outflow(b, fee)[c] <= funds[c]
        /\ funds' = [c \in Backends |-> funds[c] - Outflow(b, fee)[c]]
        /\ unnoticed' = [c \in Backends |-> unnoticed[c] + Outflow(b, fee)[c]]
  BY DEF PayUnanswered, Withdraw
<1>4. /\ Issue(order.inputs) /\ order' = NoOrder
      /\ UNCHANGED <<credited, subsidy, overpaid, reissued>>
  BY DEF PayUnanswered
<1>5. fee \in Nat
  BY <1>3, UnitsAssumption
<1> DEFINE outflow == Outflow(b, fee)
<1> HIDE DEF b
<1>6. /\ \A c \in Backends : outflow[c] \in Nat
      /\ \A c \in Backends : outflow[c] <= funds[c]
      /\ funds' = [c \in Backends |-> funds[c] - outflow[c]]
      /\ unnoticed' = [c \in Backends |-> unnoticed[c] + outflow[c]]
  BY <1>1, <1>2, <1>3, <1>5, OutflowIs
<1> HIDE DEF outflow
<1>7. UnitsType'
  <2>1. funds' \in [Backends -> Nat] /\ unnoticed' \in [Backends -> Nat]
    BY <1>1, <1>6 DEF UnitsType
  <2> QED
    BY <1>1, <1>2, <1>4, <2>1, IssueTokens, EndOrder DEF UnitsType
<1>8. ASSUME NEW a \in Assets
      PROVE  Tokens(outstanding', a) + Quotes(a)' + Owed(a)' <= Reserves(a)'
  <2>1. Owed(a)' = 0 /\ Owed(a) = Tokens(order.inputs, a)
    BY <1>1, <1>4, EndOrder DEF Owed
  <2>2. Tokens(outstanding', a) = Tokens(outstanding, a) + Tokens(order.inputs, a)
    BY <1>1, <1>2, <1>4, IssueTokens
  <2>3. Quotes(a)' = Quotes(a)
    BY <1>4 DEF Quotes
  <2>4. Reserves(a)' = Reserves(a)
    BY <1>1, <1>4, <1>6 DEF Reserves, UnitsType, Backends, Assets
  <2>5. Tokens(outstanding, a) + Quotes(a) + Owed(a) <= Reserves(a)
    BY <1>1 DEF Backed
  <2>6. Tokens(outstanding, a) \in Nat /\ Quotes(a) \in Nat /\ Reserves(a) \in Nat /\ Owed(a) \in Nat
    BY <1>1, BackedNumbers
  <2> QED
    BY <2>1, <2>2, <2>3, <2>4, <2>5, <2>6
<1> QED
  BY <1>4, <1>7, <1>8, EndOrder, BackedNext DEF UnitsInv

LEMMA SignChangeKeeps ==
  ASSUME UnitsInv, SignChange
  PROVE  UnitsInv'
<1>1. order.op = "change" /\ order' = NoOrder /\ UNCHANGED <<credited, funds, lossVars>>
  BY DEF SignChange
<1>2. PICK outputs \in Counts : /\ Named(outputs) \subseteq Named(order.outputs)
                               /\ SumCounts(outputs) <= Max({0, order.amount})
                               /\ Issue(outputs)
  BY DEF SignChange
<1>3. /\ outputs \in [UnitKeysets -> Nat] /\ order.outputs \in [UnitKeysets -> Nat]
      /\ order.amount \in Int /\ Uses(order.outputs, order.unit)
  BY <1>1, CountsAreNat DEF UnitsInv, UnitsType, OrderInv, Orders
<1>4. Uses(outputs, order.unit)
  BY <1>2, <1>3 DEF Uses, Named
<1>5. SumCounts(outputs) <= NonNegative(order.amount)
  BY <1>2, <1>3, MaxZero
<1>6. ASSUME NEW a \in Assets
      PROVE  Tokens(outputs, a) <= Owed(a)
  <2>1. Owed(a) = IF order.unit \in UnitsOf(a) THEN NonNegative(order.amount) ELSE 0
    BY <1>1 DEF Owed
  <2>2. Tokens(outputs, a) = IF order.unit \in UnitsOf(a) THEN SumCounts(outputs) ELSE 0
    BY <1>3, <1>4, TokensOfUnit
  <2> QED
    BY <1>5, <2>1, <2>2
<1> QED
  BY <1>1, <1>2, <1>3, <1>6, IssueKeeps

LEMMA GiveUpOrderKeeps ==
  ASSUME UnitsInv, GiveUpOrder
  PROVE  UnitsInv'
BY EndOrder, MovesNothing DEF GiveUpOrder

LEMMA UnitsStep == UnitsInv /\ [UnitsNext]_unitVars => UnitsInv'
<1> SUFFICES ASSUME UnitsInv, [UnitsNext]_unitVars
             PROVE  UnitsInv'
  OBVIOUS
<1>1. CASE \E r \in Routes : Deposit(r[1], r[2])
  BY <1>1, DepositKeeps
<1>2. ASSUME NEW k \in UnitKeysets, Deactivate(k)
      PROVE  UnitsInv'
  <2>1. UNCHANGED <<outstanding, credited, funds, lossVars, order>>
    BY <1>2 DEF Deactivate
  <2> QED
    BY <2>1, MovesNothing DEF UnitsInv, UnitsType, OrderInv, Owed
<1>3. CASE \E b \in Backends : Reorg(b)
  BY <1>3, ReorgKeeps
<1>4. CASE BeginOrder
  <2>1. CASE \E r \in Routes, outputs \in Counts : BeginMint(r[1], r[2], outputs)
    BY <2>1, BeginMintKeeps
  <2>2. CASE \E outputs \in Counts : BeginMintAgain(outputs)
    BY <2>2, BeginMintAgainKeeps
  <2>3. CASE \E inputs \in Held, outputs \in Counts : BeginSwap(inputs, outputs)
    BY <2>3, BeginSwapKeeps DEF Held
  <2>4. CASE \E r \in Routes, inputs \in Held, outputs \in SUBSET UnitKeysets,
                amount, invoice \in 1 .. MaxTokens, fee \in 0 .. MaxFee :
               BeginMelt(r[1], r[2], inputs, outputs, amount, invoice, fee)
    BY <2>4, BeginMeltKeeps DEF Held
  <2> QED
    BY <1>4, <2>1, <2>2, <2>3, <2>4 DEF BeginOrder
<1>5. CASE UNCHANGED unitVars
  <2>1. UNCHANGED <<outstanding, credited, funds, lossVars, order>>
    BY <1>5 DEF unitVars
  <2> QED
    BY <2>1, MovesNothing DEF UnitsInv, UnitsType, OrderInv, Owed
<1> QED
  BY <1>1, <1>2, <1>3, <1>4, <1>5, SignMintKeeps, SignMintAgainKeeps, SpendSwapKeeps, SignSwapKeeps,
     SpendMeltKeeps, PayKeeps, PayFailsKeeps, PayUnansweredKeeps, SignChangeKeeps, GiveUpOrderKeeps DEF UnitsNext

-----------------------------------------------------------------------------

(* The tokens and paid quotes of a unit never exceed what its own backends  *)
(* hold and have lost: a mint, a swap or a melt across units, keysets and   *)
(* methods turns neither asset into the other (ensureOutputsUseUnit,        *)
(* ensureProofsUseUnit, BackendRegistry), for any keysets, amounts and      *)
(* fees.  Runes are lost only in payments whose call threw and deposits     *)
(* that were reorganised away; fees, overridden amounts and second issues   *)
(* take nothing away from what backs UNIT.                                  *)
THEOREM BackedCorrect == UnitsSpec => []UnitIsBacked
<1>1. UnitsInit => UnitsInv
  <2> SUFFICES ASSUME UnitsInit
               PROVE  UnitsInv
    OBVIOUS
  <2>1. UnitsType /\ order.op = "none"
    BY CountsAreNat, NoOrderIsOrder DEF UnitsInit, UnitsType
  <2>2. OrderInv
    BY <2>1 DEF OrderInv
  <2>3. ASSUME NEW a \in Assets
        PROVE  Tokens(outstanding, a) + Quotes(a) + Owed(a) <= Reserves(a)
    <3>1. IsFiniteSet(KeysetsOf(a)) /\ \A k \in KeysetsOf(a) : outstanding[k] = 0
      BY UnitsAssumption, FS_Subset DEF UnitsInit, NoCounts, KeysetsOf, UnitKeysets
    <3>2. Tokens(outstanding, a) = 0
      BY <3>1, SumZero DEF Tokens
    <3> QED
      BY <2>1, <3>2 DEF UnitsInit, Quotes, Owed, Reserves, Accounts, UnitNames, Backends
  <2> QED
    BY <2>1, <2>2, <2>3 DEF UnitsInv, Backed
<1>2. ASSUME UnitsInv
      PROVE  UnitIsBacked
  <2> DEFINE reserves == [b \in Backends |-> funds[b] + Lost(b)]
  <2>1. ASSUME NEW a \in Assets
        PROVE  SumOver(outstanding, KeysetsOf(a)) + SumOver(credited, AccountsOf(a))
                 <= SumOver(reserves, BackendsOf(a))
    <3>1. UnitsType /\ Backed
      BY <1>2 DEF UnitsInv
    <3>2. SumOver(credited, AccountsOf(a)) = Quotes(a)
      BY <3>1, SumOne, SumThree DEF AccountsOf, Quotes, UnitsType, Accounts, UnitNames, Assets
    <3>3. /\ reserves["runes"] = funds["runes"] + unnoticed["runes"]
          /\ reserves["btc"] = funds["btc"] + unnoticed["btc"] + subsidy["btc"]
          /\ reserves["lightning"] = funds["lightning"] + unnoticed["lightning"] + subsidy["lightning"]
                                       + overpaid + reissued
      BY <3>1 DEF Lost, UnitsType, Backends
    <3>4. \A b \in Backends : reserves[b] \in Nat
      BY <3>1, <3>3 DEF UnitsType, Backends
    <3> HIDE DEF reserves
    <3>5. SumOver(reserves, BackendsOf(a))
            = IF a = "runes" THEN reserves["runes"] ELSE reserves["btc"] + reserves["lightning"]
      BY <3>4, SumOne, SumTwo DEF BackendsOf, Backends, Assets
    <3>6. SumOver(reserves, BackendsOf(a)) = Reserves(a)
      BY <3>1, <3>3, <3>5 DEF Reserves, UnitsType, Backends, Assets
    <3>7. Tokens(outstanding, a) + Quotes(a) + Owed(a) <= Reserves(a)
      BY <3>1 DEF Backed
    <3>8. Tokens(outstanding, a) \in Nat /\ Quotes(a) \in Nat /\ Reserves(a) \in Nat /\ Owed(a) \in Nat
      BY <3>1, BackedNumbers
    <3> QED
      BY <3>2, <3>6, <3>7, <3>8 DEF Tokens
  <2> QED
    BY <2>1 DEF UnitIsBacked, SumOver, KeysetsOf
<1> QED
  BY <1>1, <1>2, UnitsStep, PTL DEF UnitsSpec
=============================================================================
