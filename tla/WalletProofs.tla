----------------------------- MODULE WalletProofs -----------------------------
(***************************************************************************)
(* Proofs about Wallet: its types, that it is never overdrawn, and that it *)
(* implements PrepaidWallet, for every set of contributions, sessions,     *)
(* worlds and callers.                                                     *)
(*                                                                         *)
(* The first part is arithmetic: how a Total changes when its function     *)
(* changes at one place, hence how Balance changes with an entry and Held  *)
(* with a reservation.  The second part goes through the actions.          *)
(***************************************************************************)
EXTENDS Wallet, FiniteSetTheorems, TLAPS

Positive(n) == IF n > 0 THEN n ELSE 0

\* The units that a function contributes to its Total outside x.
UnitsOff(f, x) == {u \in (DOMAIN f \ {x}) \X Amounts : u[2] <= f[u[1]]}

\* A single summand contributes as many units as it is large.
LEMMA UnitsAt ==
  ASSUME NEW x, NEW n \in Nat
  PROVE  IsFiniteSet({x} \X (1 .. n)) /\ Cardinality({x} \X (1 .. n)) = n
<1>1. IsFiniteSet({x}) /\ Cardinality({x}) = 1
  BY FS_Singleton
<1>2. IsFiniteSet(1 .. n) /\ Cardinality(1 .. n) = n
  BY FS_Interval
<1>3. /\ IsFiniteSet({x} \X (1 .. n))
      /\ Cardinality({x} \X (1 .. n)) = Cardinality({x}) * Cardinality(1 .. n)
  BY <1>1, <1>2, FS_Product
<1>4. 1 * n = n
  OBVIOUS
<1> QED
  BY <1>1, <1>2, <1>3, <1>4

\* Only finitely many units are counted.
LEMMA UnitsAreFinite ==
  ASSUME NEW D, IsFiniteSet(D)
  PROVE  IsFiniteSet(D \X Amounts)
<1>1. IsFiniteSet(Amounts)
  BY FS_Interval, AmountsAssumption DEF Amounts
<1> QED
  BY <1>1, FS_Product

\* One summand can be taken out of a Total.
LEMMA TotalSplits ==
  ASSUME NEW f, IsFiniteSet(DOMAIN f), NEW x \in DOMAIN f,
         f[x] \in Int, f[x] <= MaxAmount
  PROVE  /\ Total(f) = Cardinality(UnitsOff(f, x)) + Positive(f[x])
         /\ Total(f) \in Nat /\ Cardinality(UnitsOff(f, x)) \in Nat
<1> DEFINE all == {u \in (DOMAIN f) \X Amounts : u[2] <= f[u[1]]}
           off == UnitsOff(f, x)
           at == {x} \X (1 .. Positive(f[x]))
<1>1. Positive(f[x]) \in Nat
  BY DEF Positive
<1>2. IsFiniteSet(all)
  BY UnitsAreFinite, FS_Subset
<1>3. off \subseteq all
  BY DEF UnitsOff
<1>4. IsFiniteSet(off) /\ Cardinality(off) \in Nat /\ Cardinality(all) \in Nat
  BY <1>2, <1>3, FS_Subset, FS_CardinalityType
<1>5. IsFiniteSet(at) /\ Cardinality(at) = Positive(f[x])
  BY <1>1, UnitsAt
<1>6. all = off \cup at
  BY AmountsAssumption DEF UnitsOff, Amounts, Positive
<1>7. off \cap at = {}
  BY DEF UnitsOff
<1>8. Cardinality(off \cap at) = 0
  BY <1>7, FS_EmptySet
<1>9. Cardinality(all) = Cardinality(off) + Cardinality(at) - Cardinality(off \cap at)
  BY <1>4, <1>5, <1>6, FS_Union
<1> QED
  BY <1>1, <1>4, <1>5, <1>8, <1>9 DEF Total

\* A change of one summand changes the Total by the change of its positive part.
LEMMA TotalUpdates ==
  ASSUME NEW f, NEW g, IsFiniteSet(DOMAIN f), DOMAIN g = DOMAIN f, NEW x \in DOMAIN f,
         f[x] \in Int, f[x] <= MaxAmount, g[x] \in Int, g[x] <= MaxAmount,
         \A y \in DOMAIN f \ {x} : g[y] = f[y]
  PROVE  /\ Total(g) = Total(f) - Positive(f[x]) + Positive(g[x])
         /\ Positive(f[x]) <= Total(f)
<1>1. UnitsOff(g, x) = UnitsOff(f, x)
  BY DEF UnitsOff
<1>2. /\ Total(f) = Cardinality(UnitsOff(f, x)) + Positive(f[x])
      /\ Total(f) \in Nat /\ Cardinality(UnitsOff(f, x)) \in Nat
  BY TotalSplits
<1>3. /\ Total(g) = Cardinality(UnitsOff(g, x)) + Positive(g[x])
      /\ Total(g) \in Nat /\ Cardinality(UnitsOff(g, x)) \in Nat
  BY TotalSplits
<1> QED
  BY <1>1, <1>2, <1>3 DEF Positive

\* A new summand adds its positive part.
LEMMA TotalExtends ==
  ASSUME NEW f, NEW g, IsFiniteSet(DOMAIN f), NEW x, x \notin DOMAIN f,
         DOMAIN g = DOMAIN f \cup {x}, g[x] \in Int, g[x] <= MaxAmount,
         \A y \in DOMAIN f : g[y] = f[y]
  PROVE  Total(g) = Total(f) + Positive(g[x])
<1>1. IsFiniteSet(DOMAIN g)
  BY FS_AddElement
<1>2. UnitsOff(g, x) = {u \in (DOMAIN f) \X Amounts : u[2] <= f[u[1]]}
  BY DEF UnitsOff
<1>3. /\ Total(g) = Cardinality(UnitsOff(g, x)) + Positive(g[x])
  BY <1>1, TotalSplits
<1> QED
  BY <1>2, <1>3 DEF Total

\* A Total of a function without positive values is zero.
LEMMA TotalOfNothing ==
  ASSUME NEW f, \A x \in DOMAIN f : f[x] \in Int /\ f[x] <= 0
  PROVE  Total(f) = 0
<1>1. {u \in (DOMAIN f) \X Amounts : u[2] <= f[u[1]]} = {}
  BY AmountsAssumption DEF Amounts
<1> QED
  BY <1>1, FS_EmptySet DEF Total

\* A Total over a finite set is a number.
LEMMA TotalIsNatural ==
  ASSUME NEW f, IsFiniteSet(DOMAIN f)
  PROVE  Total(f) \in Nat
<1>1. IsFiniteSet({u \in (DOMAIN f) \X Amounts : u[2] <= f[u[1]]})
  BY UnitsAreFinite, FS_Subset
<1> QED
  BY <1>1, FS_CardinalityType DEF Total

-------------------------------------------------------------------------------
(* What an entry does to the balance and a reservation to what is held.       *)

IsLedger(L) == IsFiniteSet(L) /\ \A e \in L : e.amount \in -MaxAmount .. MaxAmount
SumOf(L) == Total([e \in L |-> e.amount]) - Total([e \in L |-> -e.amount])
HeldIn(r) == Total([s \in Sessions |-> HoldOf(r[s])])

\* A new entry changes the balance by its amount; one that exists changes nothing.
LEMMA EntryMovesBalance ==
  ASSUME NEW L, IsLedger(L), NEW e, e.amount \in -MaxAmount .. MaxAmount
  PROVE  /\ IsLedger(L \cup {e})
         /\ SumOf(L \cup {e}) = IF e \in L THEN SumOf(L) ELSE SumOf(L) + e.amount
         /\ SumOf(L) \in Int
<1> DEFINE pos(M) == [d \in M |-> d.amount]
           neg(M) == [d \in M |-> -d.amount]
<1>1. IsLedger(L \cup {e})
  BY FS_AddElement DEF IsLedger
<1>2. SumOf(L) \in Int
  <2>1. Total(pos(L)) \in Nat
    BY TotalIsNatural DEF IsLedger
  <2>2. Total(neg(L)) \in Nat
    BY TotalIsNatural DEF IsLedger
  <2> QED
    BY <2>1, <2>2 DEF SumOf
<1>3. CASE e \in L
  <2>1. L \cup {e} = L
    BY <1>3
  <2> QED
    BY <1>1, <1>2, <1>3, <2>1
<1>4. CASE e \notin L
  <2> DEFINE more == L \cup {e}
  <2>1. Total(pos(more)) = Total(pos(L)) + Positive(e.amount)
    <3>1. pos(more)[e] = e.amount /\ DOMAIN pos(more) = DOMAIN pos(L) \cup {e}
      OBVIOUS
    <3>2. \A y \in DOMAIN pos(L) : pos(more)[y] = pos(L)[y]
      OBVIOUS
    <3>3. e.amount \in Int /\ e.amount <= MaxAmount /\ IsFiniteSet(DOMAIN pos(L))
      BY AmountsAssumption DEF IsLedger
    <3>4. e \notin DOMAIN pos(L)
      BY <1>4
    <3> HIDE DEF pos, more
    <3> QED
      BY <3>1, <3>2, <3>3, <3>4, TotalExtends
  <2>2. Total(neg(more)) = Total(neg(L)) + Positive(-e.amount)
    <3>1. neg(more)[e] = -e.amount /\ DOMAIN neg(more) = DOMAIN neg(L) \cup {e}
      OBVIOUS
    <3>2. \A y \in DOMAIN neg(L) : neg(more)[y] = neg(L)[y]
      OBVIOUS
    <3>3. -e.amount \in Int /\ -e.amount <= MaxAmount /\ IsFiniteSet(DOMAIN neg(L))
      BY AmountsAssumption DEF IsLedger
    <3>4. e \notin DOMAIN neg(L)
      BY <1>4
    <3> HIDE DEF neg, more
    <3> QED
      BY <3>1, <3>2, <3>3, <3>4, TotalExtends
  <2>3. Total(pos(L)) \in Nat
    BY TotalIsNatural DEF IsLedger
  <2>4. Total(neg(L)) \in Nat
    BY TotalIsNatural DEF IsLedger
  <2>5. e.amount \in Int
    BY AmountsAssumption
  <2>6. /\ SumOf(L) = Total(pos(L)) - Total(neg(L))
        /\ SumOf(more) = Total(pos(more)) - Total(neg(more))
    BY DEF SumOf
  <2> HIDE DEF pos, neg, more
  <2>7. SumOf(more) = SumOf(L) + e.amount
    BY <2>1, <2>2, <2>3, <2>4, <2>5, <2>6 DEF Positive
  <2> QED
    BY <1>1, <1>2, <1>4, <2>7 DEF more
<1> QED
  BY <1>3, <1>4

\* A changed reservation changes what is held by the change of what it holds.
LEMMA ReservationMovesHeld ==
  ASSUME NEW r \in [Sessions -> Reservation], NEW s \in Sessions, NEW new \in Reservation
  PROVE  /\ HeldIn([r EXCEPT ![s] = new]) = HeldIn(r) - HoldOf(r[s]) + HoldOf(new)
         /\ HoldOf(r[s]) \in 0 .. MaxAmount /\ HoldOf(new) \in 0 .. MaxAmount
         /\ HoldOf(r[s]) <= HeldIn(r) /\ HeldIn(r) \in Nat
<1> DEFINE f == [t \in Sessions |-> HoldOf(r[t])]
           g == [t \in Sessions |-> HoldOf([r EXCEPT ![s] = new][t])]
<1>1. \A q \in Reservation : HoldOf(q) \in 0 .. MaxAmount
  BY AmountsAssumption DEF HoldOf, Reservation
<1>2. /\ DOMAIN f = Sessions /\ DOMAIN g = Sessions
      /\ f[s] = HoldOf(r[s]) /\ g[s] = HoldOf(new)
      /\ \A y \in Sessions \ {s} : g[y] = f[y]
  OBVIOUS
<1>3. f[s] \in 0 .. MaxAmount /\ g[s] \in 0 .. MaxAmount
  BY <1>1, <1>2
<1>4. Total(f) = HeldIn(r) /\ Total(g) = HeldIn([r EXCEPT ![s] = new])
  BY DEF HeldIn
<1> HIDE DEF f, g
<1>5. Total(f) \in Nat
  BY <1>2, FinitelyMany, TotalIsNatural
<1>6. /\ Total(g) = Total(f) - Positive(f[s]) + Positive(g[s])
      /\ Positive(f[s]) <= Total(f)
  BY <1>2, <1>3, FinitelyMany, AmountsAssumption, TotalUpdates
<1>7. Positive(f[s]) = f[s] /\ Positive(g[s]) = g[s]
  BY <1>3, AmountsAssumption DEF Positive
<1> QED
  BY <1>2, <1>3, <1>4, <1>5, <1>6, <1>7
-------------------------------------------------------------------------------
(* Types.                                                                     *)

\* A call in flight is about a contribution.
CallsHaveContribution ==
  \A p \in Callers : caller[p].step # "idle" => caller[p].of \in Contributions

TInv == TypeOK /\ CallsHaveContribution

LEMMA InitTypes == Init => TInv
<1> SUFFICES ASSUME Init PROVE TInv
  OBVIOUS
<1>1. TypeOK
  BY FS_EmptySet, AmountsAssumption
  DEF Init, TypeOK, Statuses, Checkout, Reservation, Usage, Call, IdleCall, Months
<1>2. CallsHaveContribution
  BY DEF Init, CallsHaveContribution, IdleCall
<1> QED
  BY <1>1, <1>2 DEF TInv

\* An entry of a known type and amount may be appended.
LEMMA AppendKeepsLedger ==
  ASSUME TypeOK, NEW e, e.type \in EntryTypes, e.amount \in -MaxAmount .. MaxAmount, Append(e)
  PROVE  (\A d \in ledger : d.type \in EntryTypes /\ d.amount \in -MaxAmount .. MaxAmount)'
         /\ IsFiniteSet(ledger)'
BY FS_AddElement DEF TypeOK, Append

\* A payment event leaves a known status and ledger.
LEMMA EventKeepsTypes ==
  ASSUME TypeOK, NEW c \in Contributions, NEW source \in {"webhook", "reconcile"},
         NEW kind \in {"completed", "refunded", "disputed"},
         ProcessPaymentEvent(source, kind, c), UNCHANGED <<checkout, month>>,
         caller' \in [Callers -> Call]
  PROVE  TypeOK'
<1>1. Price[c] \in -MaxAmount .. MaxAmount /\ -Price[c] \in -MaxAmount .. MaxAmount
  BY AmountsAssumption DEF Amounts
<1>2. events' \subseteq EventIds
  BY DEF ProcessPaymentEvent, TypeOK, EventIds
<1>3. \/ UNCHANGED ledger
      \/ Append(Entry("contribution", c, source, Price[c]))
      \/ Append(Entry("refund", c, source, -Price[c]))
      \/ Append(Entry("dispute", c, source, -Price[c]))
  BY DEF ProcessPaymentEvent, CompleteContribution, ReverseContribution, TypeOK, Statuses
<1>4. /\ \A d \in ledger' : d.type \in EntryTypes /\ d.amount \in -MaxAmount .. MaxAmount
      /\ IsFiniteSet(ledger')
  BY <1>1, <1>3, AppendKeepsLedger DEF Entry, EntryTypes, TypeOK
<1>5. contribution' \in [Contributions -> Statuses]
  BY DEF ProcessPaymentEvent, CompleteContribution, ReverseContribution, TypeOK, Statuses
<1> QED
  BY <1>2, <1>4, <1>5 DEF ProcessPaymentEvent, TypeOK

\* Steps of the calls keep their records.
LEMMA CallsKeepTypes ==
  ASSUME TInv, NEW p \in Callers
  PROVE  /\ \A step \in {"attach", "record"} :
              Continue(p, step) => (caller' \in [Callers -> Call] /\ CallsHaveContribution')
                                   \/ caller[p].step = "idle"
         /\ End(p) => caller' \in [Callers -> Call] /\ CallsHaveContribution'
BY DEF TInv, TypeOK, CallsHaveContribution, Continue, End, IdleCall, Call

LEMMA PaymentsKeepTypes == TInv /\ Payments => TInv'
<1> SUFFICES ASSUME TInv, Payments PROVE TInv'
  OBVIOUS
<1> USE DEF TInv
<1>1. ASSUME NEW c \in Contributions, Pay(c) PROVE TInv'
  BY <1>1 DEF Pay, snapshot, TypeOK, Checkout, CallsHaveContribution
<1>2. ASSUME NEW c \in Contributions, ReturnPayment(c) PROVE TInv'
  BY <1>2 DEF ReturnPayment, snapshot, TypeOK, Checkout, CallsHaveContribution
<1>3. ASSUME NEW kind \in {"completed", "refunded", "disputed"}, NEW c \in Contributions,
             ReceiveWebhook(kind, c)
      PROVE  TInv'
  <2>1. TypeOK'
    BY <1>3, EventKeepsTypes DEF ReceiveWebhook, TypeOK
  <2> QED
    BY <1>3, <2>1 DEF ReceiveWebhook, CallsHaveContribution
<1>4. ASSUME NEW p \in Callers, NEW c \in Contributions, CreateContribution(p, c) PROVE TInv'
  BY <1>4 DEF CreateContribution, SetStatus, IdleCall, TypeOK, Statuses, Call,
              CallsHaveContribution
<1>5. ASSUME NEW p \in Callers, NEW c \in Contributions, RequestRefund(p, c) PROVE TInv'
  BY <1>5 DEF RequestRefund, snapshot, IdleCall, TypeOK, Call, CallsHaveContribution
<1>6. ASSUME NEW p \in Callers, NEW c \in Contributions, ReadCheckout(p, c) PROVE TInv'
  <2>1. Reported(c) \in {"open", "paid", "refunded", "other"}
    BY DEF Reported, TypeOK, Checkout
  <2> QED
    BY <1>6, <2>1 DEF ReadCheckout, snapshot, TypeOK, Call, CallsHaveContribution
<1>7. ASSUME NEW p \in Callers, CreateCheckout(p) PROVE TInv'
  BY <1>7, CallsKeepTypes DEF CreateCheckout, snapshot, TypeOK, Checkout
<1>8. ASSUME NEW p \in Callers, AttachCheckout(p) PROVE TInv'
  BY <1>8, CallsKeepTypes DEF AttachCheckout, SetStatus, TypeOK, Statuses
<1>9. ASSUME NEW p \in Callers, RefundCheckout(p) PROVE TInv'
  BY <1>9, CallsKeepTypes DEF RefundCheckout, snapshot, TypeOK, Checkout
<1>10. ASSUME NEW p \in Callers, RecordRefund(p) PROVE TInv'
  BY <1>10, CallsKeepTypes DEF RecordRefund, SetStatus, snapshot, TypeOK, Statuses
<1>11. ASSUME NEW p \in Callers, Reconcile(p) PROVE TInv'
  <2> DEFINE c == caller[p].of
  <2>1. c \in Contributions
    BY <1>11 DEF Reconcile, CallsHaveContribution
  <2>2. CASE SetStatus(c, "pending") /\ UNCHANGED caller
    BY <1>11, <2>2 DEF Reconcile, SetStatus, TypeOK, Statuses, CallsHaveContribution
  <2>3. ASSUME NEW kind \in {"completed", "refunded"},
               ProcessPaymentEvent("reconcile", kind, c), End(p)
        PROVE  TInv'
    <3>1. caller' \in [Callers -> Call] /\ CallsHaveContribution'
      BY <2>3, CallsKeepTypes
    <3> QED
      BY <1>11, <2>1, <2>3, <3>1, EventKeepsTypes DEF Reconcile
  <2> QED
    BY <1>11, <2>2, <2>3 DEF Reconcile
<1>12. ASSUME NEW p \in Callers, CallEnds(p) PROVE TInv'
  BY <1>12, CallsKeepTypes DEF CallEnds, snapshot, TypeOK
<1> QED
  BY <1>1, <1>2, <1>3, <1>4, <1>5, <1>6, <1>7, <1>8, <1>9, <1>10, <1>11, <1>12 DEF Payments
\* Setting a reservation keeps the reservations well typed.
LEMMA SetReservationKeepsTypes ==
  ASSUME TypeOK, NEW s \in Sessions, NEW r \in Reservation, SetReservation(s, r)
  PROVE  reservation' \in [Sessions -> Reservation]
BY DEF TypeOK, SetReservation

\* A credit keeps all types.
LEMMA CreditKeepsTypes ==
  ASSUME TInv, NEW type \in EntryTypes, NEW ref, NEW source, NEW n \in 0 .. MaxAmount,
         CreditWallet(type, ref, source, n)
  PROVE  TInv'
<1>1. Entry(type, ref, source, n).type \in EntryTypes
      /\ Entry(type, ref, source, n).amount \in -MaxAmount .. MaxAmount
  BY AmountsAssumption DEF Entry
<1> QED
  BY <1>1, AppendKeepsLedger DEF CreditWallet, TInv, TypeOK, CallsHaveContribution

LEMMA SessionsKeepTypes == TInv /\ SessionBilling => TInv'
<1> SUFFICES ASSUME TInv, SessionBilling PROVE TInv'
  OBVIOUS
<1>1. Amounts \subseteq 0 .. MaxAmount /\ MaxAmount \in Nat
  BY AmountsAssumption DEF Amounts
<1>2. \A s \in Sessions : reservation[s] \in Reservation /\ usage[s] \in Usage
  BY DEF TInv, TypeOK
<1>3. ASSUME NEW s \in Sessions, NEW n \in Amounts, Reserve(s, n) PROVE TInv'
  <2>1. [status |-> "active", amount |-> n] \in Reservation
    BY <1>1 DEF Reservation
  <2> QED
    BY <1>3, <2>1, SetReservationKeepsTypes
    DEF Reserve, TInv, TypeOK, CallsHaveContribution
<1>4. ASSUME NEW s \in Sessions, NEW n \in Amounts, ProtectActiveSession(s, n) PROVE TInv'
  <2>1. [status |-> "active", amount |-> n] \in Reservation
    BY <1>1 DEF Reservation
  <2> QED
    BY <1>4, <2>1, SetReservationKeepsTypes
    DEF ProtectActiveSession, TInv, TypeOK, CallsHaveContribution
<1>5. ASSUME NEW s \in Sessions, ReleaseReservation(s) PROVE TInv'
  <2>1. [reservation[s] EXCEPT !.status = "released"] \in Reservation
    BY <1>2 DEF Reservation
  <2> QED
    BY <1>5, <2>1, SetReservationKeepsTypes
    DEF ReleaseReservation, TInv, TypeOK, CallsHaveContribution
<1>6. ASSUME NEW s \in Sessions, ApplyWakeGuarantee(s) PROVE TInv'
  BY <1>2, <1>6, CreditKeepsTypes DEF ApplyWakeGuarantee, TInv, Usage, EntryTypes
<1>7. ASSUME NEW s \in Sessions, NEW by \in {"wake", "sleep"}, NEW n \in 0 .. MaxAmount,
             CaptureRuntimeUsage(s, by, n)
      PROVE  TInv'
  <2>1. [reservation[s] EXCEPT !.status = "captured"] \in Reservation
    BY <1>2 DEF Reservation
  <2>2. usage' \in [Sessions -> Usage]
    BY <1>7 DEF CaptureRuntimeUsage, TInv, TypeOK, Usage
  <2>3. Entry("runtime_charge", s, by, -n).type \in EntryTypes
        /\ Entry("runtime_charge", s, by, -n).amount \in -MaxAmount .. MaxAmount
    BY <1>1 DEF Entry, EntryTypes
  <2> QED
    BY <1>7, <2>1, <2>2, <2>3, SetReservationKeepsTypes, AppendKeepsLedger
    DEF CaptureRuntimeUsage, TInv, TypeOK, CallsHaveContribution
<1>8. ASSUME NEW s \in Sessions, NEW outage \in Outages, NEW n \in Amounts,
             ApplyAvailabilityCredit(s, outage, n)
      PROVE  TInv'
  BY <1>1, <1>8, CreditKeepsTypes DEF ApplyAvailabilityCredit, EntryTypes
<1>9. ASSUME NEW ticket \in Tickets, NEW n \in Amounts, ApplySupportCredit(ticket, n)
      PROVE  TInv'
  BY <1>1, <1>9, CreditKeepsTypes DEF ApplySupportCredit, EntryTypes
<1>10. ASSUME NEW n \in Amounts, ChargeMonthlyStorage(n) PROVE TInv'
  <2>1. Entry("storage_charge", month, "storage", -n).type \in EntryTypes
        /\ Entry("storage_charge", month, "storage", -n).amount \in -MaxAmount .. MaxAmount
    BY <1>1 DEF Entry, EntryTypes
  <2> QED
    BY <1>10, <2>1, AppendKeepsLedger
    DEF ChargeMonthlyStorage, TInv, TypeOK, CallsHaveContribution
<1>11. ASSUME NEW w \in Worlds, NEW n \in Amounts, SetWorldBudget(w, n) PROVE TInv'
  BY <1>11 DEF SetWorldBudget, TInv, TypeOK, CallsHaveContribution
<1>12. CASE MonthPasses
  BY <1>12, AmountsAssumption
  DEF MonthPasses, snapshot, TInv, TypeOK, Months, CallsHaveContribution
<1> QED
  BY <1>3, <1>4, <1>5, <1>6, <1>7, <1>8, <1>9, <1>10, <1>11, <1>12 DEF SessionBilling

LEMMA TypesAreInductive == Spec => []TInv
<1>1. TInv /\ [Next]_vars => TInv'
  <2> SUFFICES ASSUME TInv, [Next]_vars PROVE TInv'
    OBVIOUS
  <2>1. CASE UNCHANGED vars
    BY <2>1 DEF vars, snapshot, TInv, TypeOK, CallsHaveContribution
  <2> QED
    BY <2>1, PaymentsKeepTypes, SessionsKeepTypes DEF Next
<1> QED
  BY <1>1, InitTypes, PTL DEF Spec

\* The Wallet's variables keep the values the code can store, for every set of
\* contributions, sessions, worlds and callers.
THEOREM TypesAreCorrect == Spec => []TypeOK
<1>1. TInv => TypeOK
  BY DEF TInv
<1> QED
  BY <1>1, TypesAreInductive, PTL

-------------------------------------------------------------------------------
(* Refinement: what every step does to the balance, to what is held and to    *)
(* whether funding is frozen.                                                 *)

LEMMA AmountsAreNatural == MaxAmount \in Nat /\ Amounts \subseteq 0 .. MaxAmount
BY AmountsAssumption DEF Amounts

\* Balance and Held are numbers.
LEMMA SumsAreNumbers ==
  ASSUME TypeOK
  PROVE  /\ Balance \in Int /\ Held \in Nat
         /\ Balance = SumOf(ledger) /\ Held = HeldIn(reservation)
<1>1. Balance = SumOf(ledger) /\ Held = HeldIn(reservation)
  BY DEF Balance, Held, SumOf, HeldIn
<1>2. SumOf(ledger) \in Int
  <2>1. IsLedger(ledger)
    BY DEF TypeOK, IsLedger
  <2>2. Total([e \in ledger |-> e.amount]) \in Nat
    BY <2>1, TotalIsNatural DEF IsLedger
  <2>3. Total([e \in ledger |-> -e.amount]) \in Nat
    BY <2>1, TotalIsNatural DEF IsLedger
  <2> QED
    BY <2>2, <2>3 DEF SumOf
<1>3. HeldIn(reservation) \in Nat
  BY FinitelyMany, TotalIsNatural DEF HeldIn
<1> QED
  BY <1>1, <1>2, <1>3

\* A step that leaves ledger and reservations alone at most begins or settles a review.
LEMMA UntouchedMoney ==
  ASSUME UNCHANGED <<ledger, reservation>>
  PROVE  Prepaid!Review /\ Prepaid!Next
<1>1. Balance' = Balance /\ Held' = Held
  BY DEF Balance, Held
<1>2. Frozen' \in BOOLEAN
  BY DEF Frozen
<1> QED
  BY <1>1, <1>2 DEF Prepaid!Review, Prepaid!Next

\* Appending an entry moves the balance by its amount, or not at all if it exists.
LEMMA AppendMovesBalance ==
  ASSUME TypeOK, NEW e, e.amount \in -MaxAmount .. MaxAmount, Append(e)
  PROVE  Balance' = Balance \/ Balance' = Balance + e.amount
<1>1. IsLedger(ledger)
  BY DEF TypeOK, IsLedger
<1>2. Balance' = SumOf(ledger \cup {e}) /\ Balance = SumOf(ledger)
  BY DEF Balance, SumOf, Append
<1> QED
  BY <1>1, <1>2, EntryMovesBalance

\* Setting a reservation moves what is held.
LEMMA SetReservationMovesHeld ==
  ASSUME TypeOK, NEW s \in Sessions, NEW r \in Reservation, SetReservation(s, r)
  PROVE  /\ Held' = Held - HoldOf(reservation[s]) + HoldOf(r)
         /\ HoldOf(reservation[s]) \in 0 .. MaxAmount /\ HoldOf(r) \in 0 .. MaxAmount
         /\ HoldOf(reservation[s]) <= Held /\ Held \in Nat
<1>1. Held' = HeldIn([reservation EXCEPT ![s] = r]) /\ Held = HeldIn(reservation)
  BY DEF Held, HeldIn, SetReservation
<1> QED
  BY <1>1, ReservationMovesHeld DEF TypeOK

\* A credit is a deposit.
LEMMA CreditIsDeposit ==
  ASSUME TypeOK, NEW type, NEW ref, NEW source, NEW n \in 0 .. MaxAmount,
         Append(Entry(type, ref, source, n)), UNCHANGED reservation
  PROVE  Prepaid!Next
<1> DEFINE e == Entry(type, ref, source, n)
<1>1. e.amount = n /\ e.amount \in -MaxAmount .. MaxAmount
  BY AmountsAreNatural DEF Entry
<1>2. Held' = Held /\ Frozen' \in BOOLEAN
  BY DEF Held, Frozen
<1>3. Balance' = Balance \/ Balance' = Balance + n
  BY <1>1, AppendMovesBalance
<1> QED
  BY <1>2, <1>3 DEF Prepaid!Next, Prepaid!Review, Prepaid!Deposit

\* A debit that is available is a withdrawal, if it begins or settles no review.
LEMMA DebitIsWithdrawal ==
  ASSUME TypeOK, NEW type, NEW ref, NEW source, NEW n \in 0 .. MaxAmount, n <= Available,
         Append(Entry(type, ref, source, -n)), UNCHANGED reservation, Frozen' = Frozen
  PROVE  Prepaid!Next
<1> DEFINE e == Entry(type, ref, source, -n)
<1>1. e.amount = -n /\ e.amount \in -MaxAmount .. MaxAmount
  BY AmountsAreNatural DEF Entry
<1>2. Held' = Held /\ Frozen' \in BOOLEAN
  BY DEF Held, Frozen
<1>3. Balance' = Balance \/ Balance' = Balance - n
  BY <1>1, AppendMovesBalance, SumsAreNumbers, AmountsAreNatural
<1>4. n <= Prepaid!Available
  BY DEF Available, Prepaid!Available
<1> QED
  BY <1>2, <1>3, <1>4 DEF Prepaid!Next, Prepaid!Review, Prepaid!Withdraw

\* An event that moves money credits the contribution, or compensates it out of what is
\* available, which a Wallet under review does not have.
LEMMA EventFollowsPrepaid ==
  ASSUME TypeOK, NEW c \in Contributions, NEW source,
         NEW kind \in {"completed", "refunded", "disputed"},
         ProcessPaymentEvent(source, kind, c)
  PROVE  Prepaid!Next
<1> USE DEF ProcessPaymentEvent
<1>1. Price[c] \in 0 .. MaxAmount /\ Price[c] > 0
  BY AmountsAssumption DEF Amounts
<1>2. CASE UNCHANGED ledger
  BY <1>2, UntouchedMoney
<1>3. CASE Append(Entry("contribution", c, source, Price[c]))
  BY <1>1, <1>3, CreditIsDeposit
<1>4. ASSUME NEW type, Price[c] <= Available, contribution' = [contribution EXCEPT ![c] = kind],
             contribution[c] \in {"completed", "refund_requested"},
             kind \in {"refunded", "disputed"},
             Append(Entry(type, c, source, -Price[c]))
      PROVE  Prepaid!Next
  <2>1. ~Frozen
    BY <1>1, <1>4, AmountsAreNatural DEF Available
  <2>2. ~Frozen'
    BY <1>4, <2>1 DEF Frozen, TypeOK
  <2>3. Frozen' = Frozen /\ UNCHANGED reservation
    BY <2>1, <2>2 DEF Frozen
  <2> QED
    BY <1>1, <1>4, <2>3, DebitIsWithdrawal
<1>5. CASE kind = "completed"
  BY <1>2, <1>3, <1>5 DEF CompleteContribution
<1>6. CASE kind # "completed"
  <2>1. Available \in Int /\ Price[c] \in Int
    BY <1>1, SumsAreNumbers, AmountsAreNatural DEF Available
  <2>2. \/ UNCHANGED ledger
        \/ /\ contribution[c] \in {"completed", "refund_requested"}
           /\ ~(Available < Price[c])
           /\ contribution' = [contribution EXCEPT ![c] = kind]
           /\ Append(Entry(IF kind = "refunded" THEN "refund" ELSE "dispute",
                           c, source, -Price[c]))
    <3>1. contribution[c] \in Statuses \ {"absent", "creating_checkout"}
      BY DEF TypeOK
    <3> QED
      BY <1>6, <3>1 DEF ReverseContribution, Statuses
  <2> QED
    BY <1>2, <1>4, <1>6, <2>1, <2>2
<1> QED
  BY <1>5, <1>6

LEMMA PaymentsFollowPrepaid == TInv /\ Payments => Prepaid!Next
<1> SUFFICES ASSUME TInv, Payments PROVE Prepaid!Next
  OBVIOUS
<1>1. ASSUME NEW kind \in {"completed", "refunded", "disputed"}, NEW c \in Contributions,
             ReceiveWebhook(kind, c)
      PROVE  Prepaid!Next
  BY <1>1, EventFollowsPrepaid DEF ReceiveWebhook, TInv
<1>2. ASSUME NEW p \in Callers, Reconcile(p) PROVE Prepaid!Next
  <2> DEFINE c == caller[p].of
  <2>1. c \in Contributions
    BY <1>2 DEF Reconcile, TInv, CallsHaveContribution
  <2>2. CASE SetStatus(c, "pending")
    BY <2>2, UntouchedMoney DEF SetStatus
  <2>3. ASSUME NEW kind \in {"completed", "refunded"},
               ProcessPaymentEvent("reconcile", kind, c)
        PROVE  Prepaid!Next
    BY <2>1, <2>3, EventFollowsPrepaid DEF TInv
  <2> QED
    BY <1>2, <2>2, <2>3 DEF Reconcile
<1>3. ASSUME NEW c \in Contributions, Pay(c) \/ ReturnPayment(c) PROVE Prepaid!Next
  BY <1>3, UntouchedMoney DEF Pay, ReturnPayment, snapshot
<1>4. ASSUME NEW p \in Callers, NEW c \in Contributions,
             CreateContribution(p, c) \/ RequestRefund(p, c) \/ ReadCheckout(p, c)
      PROVE  Prepaid!Next
  BY <1>4, UntouchedMoney DEF CreateContribution, SetStatus, RequestRefund, ReadCheckout, snapshot
<1>5. ASSUME NEW p \in Callers, \/ CreateCheckout(p) \/ AttachCheckout(p)
                                \/ RefundCheckout(p) \/ RecordRefund(p) \/ CallEnds(p)
      PROVE  Prepaid!Next
  BY <1>5, UntouchedMoney
  DEF CreateCheckout, AttachCheckout, SetStatus, RefundCheckout, RecordRefund, CallEnds, snapshot
<1> QED
  BY <1>1, <1>2, <1>3, <1>4, <1>5 DEF Payments
LEMMA SessionsFollowPrepaid == TInv /\ SessionBilling => Prepaid!Next
<1> SUFFICES ASSUME TInv, SessionBilling PROVE Prepaid!Next
  OBVIOUS
<1>1. TypeOK /\ Balance \in Int /\ Held \in Nat
  BY SumsAreNumbers DEF TInv
<1>2. \A s \in Sessions : reservation[s] \in Reservation /\ usage[s] \in Usage
  BY <1>1 DEF TypeOK
<1>3. Prepaid!Available = Available
  BY DEF Prepaid!Available, Available
<1>4. ASSUME NEW s \in Sessions, NEW n \in Amounts, Reserve(s, n) PROVE Prepaid!Next
  <2> DEFINE r == [status |-> "active", amount |-> n]
  <2>1. r \in Reservation /\ HoldOf(r) = n /\ n \in 0 .. MaxAmount
    BY AmountsAreNatural DEF Reservation, HoldOf
  <2>2. HoldOf(reservation[s]) = 0
    BY <1>4 DEF Reserve, HoldOf
  <2>3. Held' = Held + n
    BY <1>1, <1>4, <2>1, <2>2, SetReservationMovesHeld, AmountsAreNatural DEF Reserve
  <2>4. Balance' = Balance /\ Frozen' = Frozen
    BY <1>4 DEF Reserve, Balance, Frozen
  <2>5. n <= Prepaid!Available
    BY <1>3, <1>4 DEF Reserve
  <2> QED
    BY <2>1, <2>3, <2>4, <2>5 DEF Prepaid!Next, Prepaid!Hold
<1>5. ASSUME NEW s \in Sessions, NEW n \in Amounts, ProtectActiveSession(s, n)
      PROVE  Prepaid!Next
  <2> DEFINE r == [status |-> "active", amount |-> n]
             h == reservation[s].amount
  <2>1. r \in Reservation /\ HoldOf(r) = n /\ n \in 0 .. MaxAmount
    BY AmountsAreNatural DEF Reservation, HoldOf
  <2>2. HoldOf(reservation[s]) = h /\ h \in 0 .. MaxAmount
    BY <1>2, <1>5 DEF ProtectActiveSession, HoldOf, Reservation
  <2>3. Held' = Held - h + n /\ h <= Held
    BY <1>1, <1>5, <2>1, <2>2, SetReservationMovesHeld DEF ProtectActiveSession
  <2>4. Balance' = Balance /\ Frozen' = Frozen
    BY <1>5 DEF ProtectActiveSession, Balance, Frozen
  <2>5. CASE n > h
    <3>1. n - h <= Prepaid!Available /\ n - h \in 0 .. MaxAmount /\ Held' = Held + (n - h)
      BY <1>1, <1>3, <1>5, <2>1, <2>2, <2>3, <2>5, AmountsAreNatural DEF ProtectActiveSession
    <3> QED
      BY <2>4, <3>1 DEF Prepaid!Next, Prepaid!Hold
  <2>6. CASE n <= h
    <3>1. h - n <= Held /\ h - n \in 0 .. MaxAmount /\ Held' = Held - (h - n)
      BY <1>1, <2>1, <2>2, <2>3, <2>6, AmountsAreNatural
    <3> QED
      BY <2>4, <3>1 DEF Prepaid!Next, Prepaid!Return
  <2> QED
    BY <2>1, <2>2, <2>5, <2>6, AmountsAreNatural
<1>6. ASSUME NEW s \in Sessions, ReleaseReservation(s) PROVE Prepaid!Next
  <2> DEFINE r == [reservation[s] EXCEPT !.status = "released"]
             h == HoldOf(reservation[s])
  <2>1. r \in Reservation /\ HoldOf(r) = 0
    BY <1>2 DEF Reservation, HoldOf
  <2>2. Held' = Held - h /\ h <= Held /\ h \in 0 .. MaxAmount
    BY <1>1, <1>6, <2>1, SetReservationMovesHeld, AmountsAreNatural DEF ReleaseReservation
  <2>3. Balance' = Balance /\ Frozen' = Frozen
    BY <1>6 DEF ReleaseReservation, Balance, Frozen
  <2> QED
    BY <2>2, <2>3 DEF Prepaid!Next, Prepaid!Return
<1>7. ASSUME NEW s \in Sessions, NEW by \in {"wake", "sleep"}, NEW n \in 0 .. MaxAmount,
             CaptureRuntimeUsage(s, by, n)
      PROVE  Prepaid!Next
  <2> DEFINE r == [reservation[s] EXCEPT !.status = "captured"]
             h == HoldOf(reservation[s])
             e == Entry("runtime_charge", s, by, -n)
  <2>1. r \in Reservation /\ HoldOf(r) = 0
    BY <1>2 DEF Reservation, HoldOf
  <2>2. Held' = Held - h /\ h <= Held /\ h \in 0 .. MaxAmount
    BY <1>1, <1>7, <2>1, SetReservationMovesHeld, AmountsAreNatural DEF CaptureRuntimeUsage
  <2>3. n <= h
    BY <1>7 DEF CaptureRuntimeUsage, HoldOf
  <2>4. e.amount = -n /\ e.amount \in -MaxAmount .. MaxAmount
    BY AmountsAreNatural DEF Entry
  <2>5. Balance' = Balance - 0 \/ Balance' = Balance - n
    BY <1>1, <1>7, <2>4, AppendMovesBalance, AmountsAreNatural DEF CaptureRuntimeUsage
  <2>6. Frozen' = Frozen
    BY <1>7 DEF CaptureRuntimeUsage, Frozen
  <2>7. \E m \in 0 .. MaxAmount : m <= h /\ Balance' = Balance - m
    BY <2>2, <2>3, <2>5, AmountsAreNatural
  <2> HIDE DEF h
  <2> QED
    BY <2>2, <2>6, <2>7 DEF Prepaid!Next, Prepaid!Settle
<1>8. ASSUME NEW s \in Sessions, ApplyWakeGuarantee(s) PROVE Prepaid!Next
  BY <1>1, <1>2, <1>8, CreditIsDeposit DEF ApplyWakeGuarantee, CreditWallet, Usage
<1>9. ASSUME NEW s \in Sessions, NEW outage \in Outages, NEW n \in Amounts,
             ApplyAvailabilityCredit(s, outage, n)
      PROVE  Prepaid!Next
  BY <1>1, <1>9, CreditIsDeposit, AmountsAreNatural DEF ApplyAvailabilityCredit, CreditWallet
<1>10. ASSUME NEW ticket \in Tickets, NEW n \in Amounts, ApplySupportCredit(ticket, n)
       PROVE  Prepaid!Next
  BY <1>1, <1>10, CreditIsDeposit, AmountsAreNatural DEF ApplySupportCredit, CreditWallet
<1>11. ASSUME NEW n \in Amounts, ChargeMonthlyStorage(n) PROVE Prepaid!Next
  <2>1. Frozen' = Frozen
    BY <1>11 DEF ChargeMonthlyStorage, Frozen
  <2> QED
    BY <1>1, <1>11, <2>1, DebitIsWithdrawal, AmountsAreNatural DEF ChargeMonthlyStorage
<1>12. ASSUME NEW w \in Worlds, NEW n \in Amounts, SetWorldBudget(w, n) PROVE Prepaid!Next
  BY <1>12, UntouchedMoney DEF SetWorldBudget
<1>13. CASE MonthPasses
  BY <1>13, UntouchedMoney DEF MonthPasses, snapshot
<1> QED
  BY <1>4, <1>5, <1>6, <1>7, <1>8, <1>9, <1>10, <1>11, <1>12, <1>13 DEF SessionBilling

\* At first there is nothing in the Wallet.
LEMMA PrepaidStarts ==
  ASSUME Init
  PROVE  Prepaid!Init /\ NeverOverdrawn
<1>1. ledger = {} /\ \A s \in Sessions : HoldOf(reservation[s]) = 0
  BY DEF Init, HoldOf
<1>2. Total([e \in ledger |-> e.amount]) = 0 /\ Total([e \in ledger |-> -e.amount]) = 0
  <2>1. DOMAIN [e \in ledger |-> e.amount] = {} /\ DOMAIN [e \in ledger |-> -e.amount] = {}
    BY <1>1
  <2> QED
    BY <2>1, TotalOfNothing
<1>3. Balance = 0
  BY <1>2 DEF Balance
<1>4. Held = 0
  BY <1>1, TotalOfNothing DEF Held
<1>5. Frozen = FALSE
  BY DEF Init, Frozen
<1> QED
  BY <1>3, <1>4, <1>5 DEF Prepaid!Init, NeverOverdrawn

\* Every step of billing is a step of the prepaid Wallet, or shows nothing.
LEMMA StepsFollowPrepaid == TInv /\ [Next]_vars => [Prepaid!Next]_(Prepaid!vars)
<1> SUFFICES ASSUME TInv, [Next]_vars PROVE [Prepaid!Next]_(Prepaid!vars)
  OBVIOUS
<1>1. CASE UNCHANGED vars
  BY <1>1, UntouchedMoney DEF vars, snapshot
<1> QED
  BY <1>1, PaymentsFollowPrepaid, SessionsFollowPrepaid DEF Next

\* Billing implements the prepaid Wallet, for every set of contributions, sessions, worlds
\* and callers: whatever events and calls interleave, a debit was available or held before.
THEOREM WalletFollowsPrepaidWallet == Spec => FollowsPrepaidWallet
BY TypesAreInductive, StepsFollowPrepaid, PrepaidStarts, PTL
DEF Spec, FollowsPrepaidWallet, Prepaid!Spec

\* The Wallet never owes and never holds more than it has.  A step of the prepaid Wallet
\* keeps that, so the refinement carries it over to every step of billing.
THEOREM WalletIsNeverOverdrawn == Spec => []NeverOverdrawn
<1>1. ASSUME TInv, TInv', NeverOverdrawn, [Prepaid!Next]_(Prepaid!vars)
      PROVE  NeverOverdrawn'
  <2>1. Balance \in Int /\ Held \in Nat
    BY <1>1, SumsAreNumbers DEF TInv
  <2>2. CASE UNCHANGED Prepaid!vars
    BY <1>1, <2>2 DEF NeverOverdrawn, Prepaid!vars
  <2>3. CASE Prepaid!Review
    BY <1>1, <2>3 DEF NeverOverdrawn, Prepaid!Review
  <2>4. ASSUME NEW n \in 0 .. MaxAmount,
               Prepaid!Deposit(n) \/ Prepaid!Withdraw(n) \/ Prepaid!Hold(n) \/ Prepaid!Return(n)
        PROVE  NeverOverdrawn'
    BY <1>1, <2>1, <2>4, AmountsAreNatural
    DEF NeverOverdrawn, Prepaid!Available, Prepaid!Deposit, Prepaid!Withdraw, Prepaid!Hold,
        Prepaid!Return
  <2>5. ASSUME NEW h \in 0 .. MaxAmount, NEW n \in 0 .. MaxAmount, Prepaid!Settle(h, n)
        PROVE  NeverOverdrawn'
    BY <1>1, <2>1, <2>5, AmountsAreNatural DEF NeverOverdrawn, Prepaid!Settle
  <2> QED
    BY <1>1, <2>2, <2>3, <2>4, <2>5 DEF Prepaid!Next
<1> QED
  BY <1>1, TypesAreInductive, StepsFollowPrepaid, PrepaidStarts, PTL DEF Spec
===============================================================================
