--------------------------------- MODULE Units ---------------------------------
(***************************************************************************)
(* Units and what stands behind them: every keyset has a unit, every method *)
(* and unit a backend that holds the money.  Tokens are counted by keyset;  *)
(* how they are spent once is the matter of other modules.                  *)
(***************************************************************************)
EXTENDS Integers, Sequences, FiniteSetsExt, Functions

CONSTANTS
  UnitOf,    \* [keysets -> units]
  MaxFunds,  \* bound: what each backend holds and has lost
  MaxLost,   \* bound: what all of them have lost
  MaxTokens, \* bound: the amount of a call in one keyset
  MaxFee     \* bound: fees, advertised and paid

Backends == {"runes", "btc", "lightning"}
UnitNames == {"unit", "btc", "sat"}

(* Paid mint quotes are counted by unit, those of Lightning apart.          *)
Accounts == UnitNames \cup {"bolt11"}
Account(method, unit) == IF method = "bolt11" THEN "bolt11" ELSE unit

ASSUME UnitsAssumption ==
  /\ UnitOf \in [DOMAIN UnitOf -> UnitNames] /\ IsFiniteSet(DOMAIN UnitOf)
  /\ MaxFunds \in [Backends -> Nat]
  /\ MaxLost \in Nat /\ MaxTokens \in Nat /\ MaxFee \in Nat

UnitKeysets == DOMAIN UnitOf
Counts == [UnitKeysets -> 0 .. MaxTokens]
SumCounts(f) == MapThenSumSet(LAMBDA k : f[k], DOMAIN f)
Named(f) == {k \in DOMAIN f : f[k] > 0}

-----------------------------------------------------------------------------
(* BackendRegistry, as initializeContainer fills it.                        *)

Registrations ==
  <<[backend |-> "runes",     methods |-> {"onchain", "unit", "runes"}, units |-> {"unit"}],
    [backend |-> "btc",       methods |-> {"onchain"},                  units |-> {"btc", "sat"}],
    [backend |-> "lightning", methods |-> {"bolt11"},                   units |-> {"sat"}]>>

(* Mutant: the backends are filed under the method alone. *)
MethodKeyOfMethod(method, unit) == <<method>>

MethodKey(method, unit) == <<method, unit>>

KeysFiled(r) == {MethodKey(key[1], key[2]) : key \in r.methods \X r.units}

(* What is registered last replaces what has the same key.                  *)
HasMethod(method, unit) == \E i \in DOMAIN Registrations : MethodKey(method, unit) \in KeysFiled(Registrations[i])
GetByMethod(method, unit) ==
  Registrations[Max({i \in DOMAIN Registrations : MethodKey(method, unit) \in KeysFiled(Registrations[i])})].backend

Routes == {r \in {"onchain", "bolt11", "unit"} \X {"unit", "btc", "sat"} : HasMethod(r[1], r[2])}

-----------------------------------------------------------------------------

VARIABLES
  enabled,      \* keysets that are active
  outstanding,  \* tokens of a keyset that wallets can spend
  credited,     \* amounts of paid mint quotes, not issued yet
  issued,       \* amounts of the bolt11 quotes that were issued
  funds,        \* what a backend holds
  subsidy,      \* history: fees a backend paid above what it charged
  unnoticed,    \* history: what left it without the mint learning of it
  overpaid,     \* history: what invoices named above the amounts charged
  reissued,     \* history: what bolt11 quotes issued more than once
  order         \* the call in progress

lossVars == <<subsidy, unnoticed, overpaid, reissued>>
unitVars == <<enabled, outstanding, credited, issued, funds, lossVars, order>>

NoCounts == [k \in UnitKeysets |-> 0]
NoOrder == [op |-> "none", unit |-> "unit", method |-> "onchain", inputs |-> NoCounts,
            outputs |-> NoCounts, amount |-> 0, invoice |-> 0, reserve |-> 0]

UnitsInit ==
  /\ enabled = UnitKeysets
  /\ outstanding = NoCounts
  /\ credited = [u \in Accounts |-> 0]
  /\ issued = {}
  /\ funds = [b \in Backends |-> 0]
  /\ subsidy = [b \in Backends |-> 0]
  /\ unnoticed = [b \in Backends |-> 0]
  /\ overpaid = 0 /\ reissued = 0
  /\ order = NoOrder

(* What a backend no longer has though tokens or paid quotes stand for it:  *)
(* a payment that left while its call threw, and a deposit whose block was  *)
(* reorganised away; in bitcoins also the fees above what was charged, all  *)
(* fees of transactions with runes among them; in Lightning also invoices   *)
(* above the amount of their quote, and quotes that were issued again.      *)
Lost(b) ==
  unnoticed[b] + (IF b = "runes" THEN 0 ELSE subsidy[b])
                + (IF b = "lightning" THEN overpaid + reissued ELSE 0)

WithinBounds ==
  /\ \A b \in Backends : funds[b] + Lost(b) <= MaxFunds[b]
  /\ MapThenSumSet(Lost, Backends) <= MaxLost

Deposit(method, unit) ==
  LET b == GetByMethod(method, unit)
  IN /\ funds' = [funds EXCEPT ![b] = @ + 1]
     /\ credited' = [credited EXCEPT ![Account(method, unit)] = @ + 1]
     /\ UNCHANGED <<enabled, outstanding, issued, lossVars, order>>
     /\ WithinBounds'

(* The block of a deposit goes after the quote was credited.                *)
Reorg(b) ==
  /\ b # "lightning" /\ funds[b] > 0
  /\ funds' = [funds EXCEPT ![b] = @ - 1]
  /\ unnoticed' = [unnoticed EXCEPT ![b] = @ + 1]
  /\ UNCHANGED <<enabled, outstanding, credited, issued, subsidy, overpaid, reissued, order>>
  /\ WithinBounds'

Deactivate(k) ==
  /\ k \in enabled /\ enabled' = enabled \ {k}
  /\ UNCHANGED <<outstanding, credited, issued, funds, lossVars, order>>

(* Mutant: an active keyset will do. *)
UseUnitActive(keysets, unit) == keysets \subseteq enabled

(* ensureProofsUseUnit and ensureOutputsUseUnit.                            *)
UseUnit(keysets, unit) == keysets \subseteq enabled /\ \A k \in keysets : UnitOf[k] = unit

Issue(outputs) == outstanding' = [k \in UnitKeysets |-> outstanding[k] + outputs[k]]
Spend(inputs) ==
  /\ \A k \in UnitKeysets : inputs[k] <= outstanding[k]
  /\ outstanding' = [k \in UnitKeysets |-> outstanding[k] - inputs[k]]

-----------------------------------------------------------------------------
(* Minting: the quote is locked from the check to the signatures.           *)

BeginMint(method, unit, outputs) ==
  /\ SumCounts(outputs) \in 1 .. credited[Account(method, unit)]
  /\ UseUnit(Named(outputs), unit)
  /\ order' = [NoOrder EXCEPT !.op = "mint", !.method = method, !.unit = unit, !.outputs = outputs]
  /\ UNCHANGED <<enabled, outstanding, credited, issued, funds, lossVars>>

SignMint ==
  /\ order.op = "mint"
  /\ Named(order.outputs) \subseteq enabled
  /\ Issue(order.outputs)
  /\ credited' = [credited EXCEPT ![Account(order.method, order.unit)] = @ - SumCounts(order.outputs)]
  /\ issued' = IF order.method = "bolt11" THEN issued \cup {SumCounts(order.outputs)} ELSE issued
  /\ order' = NoOrder
  /\ UNCHANGED <<enabled, funds, lossVars>>

(* A bolt11 quote that was issued: the poll of its settled invoice writes   *)
(* PAID over ISSUED, and nothing else is looked at under the lock.          *)
BeginMintAgain(outputs) ==
  /\ SumCounts(outputs) \in issued
  /\ UseUnit(Named(outputs), "sat")
  /\ order' = [NoOrder EXCEPT !.op = "remint", !.method = "bolt11", !.unit = "sat", !.outputs = outputs]
  /\ UNCHANGED <<enabled, outstanding, credited, issued, funds, lossVars>>

SignMintAgain ==
  /\ order.op = "remint"
  /\ Named(order.outputs) \subseteq enabled
  /\ Issue(order.outputs)
  /\ reissued' = reissued + SumCounts(order.outputs)
  /\ order' = NoOrder
  /\ UNCHANGED <<enabled, credited, issued, funds, subsidy, unnoticed, overpaid>>
  /\ WithinBounds'

-----------------------------------------------------------------------------
(* Swapping.                                                                *)

BeginSwap(inputs, outputs) ==
  /\ Named(inputs) # {}
  /\ LET unit == UnitOf[CHOOSE k \in Named(inputs) : TRUE]
     IN UseUnit(Named(inputs), unit) /\ UseUnit(Named(outputs), unit)
  /\ SumCounts(inputs) - SumCounts(outputs) \in 0 .. MaxFee
  /\ order' = [NoOrder EXCEPT !.op = "swap", !.inputs = inputs, !.outputs = outputs]
  /\ UNCHANGED <<enabled, outstanding, credited, issued, funds, lossVars>>

SpendSwap ==
  /\ order.op = "swap"
  /\ Named(order.inputs) \subseteq enabled
  /\ Spend(order.inputs)
  /\ order' = [order EXCEPT !.op = "swapped"]
  /\ UNCHANGED <<enabled, credited, issued, funds, lossVars>>

SignSwap ==
  /\ order.op = "swapped"
  /\ Named(order.outputs) \subseteq enabled
  /\ Issue(order.outputs)
  /\ order' = NoOrder
  /\ UNCHANGED <<enabled, credited, issued, funds, lossVars>>

-----------------------------------------------------------------------------
(* Melting.                                                                 *)

(* quoteFeeChargedToWallet, and the reserve of a Lightning payment: runes   *)
(* are withdrawn for nothing.                                               *)
Charged(method, unit, fee) == IF method # "bolt11" /\ unit = "unit" THEN 0 ELSE fee

(* What a wallet pays for, and what leaves: the amount in a request for a   *)
(* bolt11 quote takes the place of the invoice's, and the invoice is what   *)
(* gets paid.  The outputs are blank: their amounts are not known before    *)
(* the payment.                                                             *)
BeginMelt(method, unit, inputs, outputs, amount, invoice, fee) ==
  /\ method # "bolt11" => invoice = amount
  /\ UseUnit(Named(inputs), unit) /\ UseUnit(outputs, unit)
  /\ SumCounts(inputs) >= amount + Charged(method, unit, fee)
  /\ order' = [NoOrder EXCEPT !.op = "melt", !.unit = unit, !.method = method, !.inputs = inputs,
                 !.outputs = [k \in UnitKeysets |-> IF k \in outputs THEN 1 ELSE 0],
                 !.amount = amount, !.invoice = invoice, !.reserve = Charged(method, unit, fee)]
  /\ UNCHANGED <<enabled, outstanding, credited, issued, funds, lossVars>>

SpendMelt ==
  /\ order.op = "melt"
  /\ Named(order.inputs) \subseteq enabled
  /\ Spend(order.inputs)
  /\ order' = [order EXCEPT !.op = "pay"]
  /\ UNCHANGED <<enabled, credited, issued, funds, lossVars>>

(* The payment leaves: the invoice or the amount, and a fee.  That of a     *)
(* transaction with runes is paid in bitcoins, from the address of the mint *)
(* that also holds what its btc backend holds; nothing of it from there     *)
(* when the operator's own coins are picked.                                *)
FeePayer(b) == IF b = "runes" THEN "btc" ELSE b
Outflow(b, fee) ==
  [c \in Backends |-> (IF c = b THEN order.invoice ELSE 0) + (IF c = FeePayer(b) THEN fee ELSE 0)]

Withdraw(b, fee) ==
  /\ order.op = "pay"
  /\ \A c \in Backends : Outflow(b, fee)[c] <= funds[c]
  /\ funds' = [c \in Backends |-> funds[c] - Outflow(b, fee)[c]]

(* The change is what the payment left of the reserve in Lightning, what    *)
(* the wallet sent above it on the chain.                                   *)
Pay ==
  LET b == GetByMethod(order.method, order.unit)
  IN /\ \E fee \in 0 .. MaxFee :
          /\ Withdraw(b, fee)
          /\ subsidy' = [subsidy EXCEPT ![FeePayer(b)] = @ + Max({0, fee - order.reserve})]
          /\ order' = [order EXCEPT !.op = "change",
               !.amount = SumCounts(order.inputs) - order.amount
                            - (IF order.method = "bolt11" THEN fee ELSE order.reserve)]
     /\ overpaid' = overpaid + Max({0, order.invoice - order.amount})
     /\ UNCHANGED <<enabled, outstanding, credited, issued, unnoticed, reissued>>
     /\ WithinBounds'

(* withdraw threw before anything left: the proofs are given back.          *)
PayFails ==
  /\ order.op = "pay"
  /\ Issue(order.inputs)
  /\ order' = NoOrder
  /\ UNCHANGED <<enabled, credited, issued, funds, lossVars>>

(* withdraw threw although the payment left, an answer lost or a step after *)
(* it that failed: the proofs are given back all the same.                  *)
PayUnanswered ==
  LET b == GetByMethod(order.method, order.unit)
  IN /\ \E fee \in 0 .. MaxFee :
          /\ Withdraw(b, fee)
          /\ unnoticed' = [c \in Backends |-> unnoticed[c] + Outflow(b, fee)[c]]
     /\ Issue(order.inputs)
     /\ order' = NoOrder
     /\ UNCHANGED <<enabled, credited, issued, subsidy, overpaid, reissued>>
     /\ WithinBounds'

SignChange ==
  /\ order.op = "change"
  /\ Named(order.outputs) \subseteq enabled
  /\ \E outputs \in Counts :
       /\ Named(outputs) \subseteq Named(order.outputs)
       /\ SumCounts(outputs) <= Max({0, order.amount})
       /\ Issue(outputs)
  /\ order' = NoOrder
  /\ UNCHANGED <<enabled, credited, issued, funds, lossVars>>

(* A call ends where a check or a signature fails, or the process dies;     *)
(* what it did stays done.                                                  *)
GiveUpOrder ==
  /\ order.op # "none"
  /\ order' = NoOrder
  /\ UNCHANGED <<enabled, outstanding, credited, issued, funds, lossVars>>

(* Tokens a wallet can have. *)
Held == {c \in Counts : \A k \in UnitKeysets : c[k] <= outstanding[k]}

BeginOrder ==
  \/ \E r \in Routes, outputs \in Counts : BeginMint(r[1], r[2], outputs)
  \/ \E outputs \in Counts : BeginMintAgain(outputs)
  \/ \E inputs \in Held, outputs \in Counts : BeginSwap(inputs, outputs)
  \/ \E r \in Routes, inputs \in Held, outputs \in SUBSET UnitKeysets,
        amount, invoice \in 1 .. MaxTokens, fee \in 0 .. MaxFee :
       BeginMelt(r[1], r[2], inputs, outputs, amount, invoice, fee)

UnitsNext ==
  \/ \E r \in Routes : Deposit(r[1], r[2])
  \/ \E b \in Backends : Reorg(b)
  \/ \E k \in UnitKeysets : Deactivate(k)
  \/ order = NoOrder /\ BeginOrder
  \/ SignMint \/ SignMintAgain \/ SpendSwap \/ SignSwap
  \/ SpendMelt \/ Pay \/ PayFails \/ PayUnanswered \/ SignChange \/ GiveUpOrder

UnitsSpec == UnitsInit /\ [][UnitsNext]_unitVars

-----------------------------------------------------------------------------

Assets == {"runes", "bitcoin"}
UnitsOf(asset) == IF asset = "runes" THEN {"unit"} ELSE {"btc", "sat"}
AccountsOf(asset) == IF asset = "runes" THEN {"unit"} ELSE {"btc", "sat", "bolt11"}
BackendsOf(asset) == IF asset = "runes" THEN {"runes"} ELSE {"btc", "lightning"}

(* Tokens and paid quotes of UNIT are backed by runes, those of sat and btc *)
(* by bitcoins, but for what Lost names: no mix of units among inputs,      *)
(* outputs, change and backends turns one into the other, also when a       *)
(* keyset is deactivated in the middle of a call.  Runes are lost only in   *)
(* payments whose call threw and deposits that were reorganised away; fees, *)
(* overridden amounts and second issues never reach them.                   *)
UnitIsBacked ==
  \A a \in Assets :
    LET tokens == MapThenSumSet(LAMBDA k : outstanding[k], {k \in UnitKeysets : UnitOf[k] \in UnitsOf(a)})
        quotes == MapThenSumSet(LAMBDA u : credited[u], AccountsOf(a))
        reserves == [b \in Backends |-> funds[b] + Lost(b)]
    IN tokens + quotes <= MapThenSumSet(LAMBDA b : reserves[b], BackendsOf(a))
=============================================================================
