-------------------------------- MODULE Wallet --------------------------------
(***************************************************************************)
(* The prepaid Wallet of an Account: contributions paid at an external     *)
(* provider and confirmed by events that arrive late, twice, out of order  *)
(* or not at all, the Usage Reservations of running sessions, their        *)
(* extension, capture and release, the compensating credits, the monthly   *)
(* storage charge and the World Budgets.                                   *)
(*                                                                         *)
(* Billing reads the whole snapshot, computes, and saves it if its version *)
(* is unchanged, else starts over: one action.  Only the calls that talk   *)
(* to the provider between reading and saving have several steps, taken by *)
(* a caller that may stop after any of them.                               *)
(*                                                                         *)
(* Amounts are natural numbers of a smallest unit.  The code derives every *)
(* balance by adding up entries; a sum is the number of units, counted.    *)
(***************************************************************************)
EXTENDS Integers, FiniteSets

CONSTANTS
  Contributions,  \* purchases of credit, by their idempotency key
  Price,          \* what each of them pays and credits
  Sessions,       \* wake attempts, each with its quote and its reservation
  Worlds, WorldOf,  \* the World of each session
  Outages,        \* confirmed intervals of unavailability
  Tickets,        \* idempotency keys of support credits
  Callers,        \* calls to the payment provider that may be in flight
  MaxAmount,      \* bound on every single amount
  MaxMonth,       \* bound on the months that pass
  None            \* the absent value

Amounts == 1 .. MaxAmount
Months == 1 .. MaxMonth

ASSUME AmountsAssumption ==
  /\ MaxAmount \in Nat /\ MaxMonth \in Nat \ {0}
  /\ Price \in [Contributions -> Amounts]
  /\ WorldOf \in [Sessions -> Worlds]
  /\ None \notin Amounts
ASSUME FinitelyMany == IsFiniteSet(Sessions)

VARIABLES
  contribution,  \* the status of each contribution
  checkout,      \* the provider's view of each checkout
  events,        \* the payment events processed so far
  ledger,        \* the entries of the Wallet Ledger
  reservation,   \* the Usage Reservation of each session
  usage,         \* its Runtime Usage, and the kind of operation that captured it
  budget,        \* the monthly limit of each World
  month,         \* the current month
  caller         \* the calls in flight

snapshot == <<contribution, events, ledger, reservation, usage, budget>>
vars == <<snapshot, checkout, month, caller>>

Statuses == {"absent", "creating_checkout", "pending", "completed", "refund_requested",
             "refunded", "disputed", "needs_review"}
EventIds == {"webhook", "reconcile"} \X {"completed", "refunded", "disputed"} \X Contributions
EntryTypes == {"contribution", "refund", "dispute", "runtime_charge", "wake_guarantee",
               "availability_credit", "support_credit", "storage_charge"}
Checkout == [paid: {"none", "open", "exact", "other"}, refunded: BOOLEAN, disputed: BOOLEAN]
Reservation == [status: {"none", "active", "captured", "released"}, amount: 0 .. MaxAmount]
Usage == [by: {"none", "wake", "sleep"}, amount: 0 .. MaxAmount, month: Months]
Call == [step: {"idle", "create", "attach", "refund", "record", "reconcile"},
         of: Contributions \cup {None}, seen: {"open", "paid", "refunded", "other"}]

IdleCall == [step |-> "idle", of |-> None, seen |-> "open"]

\* An entry is identified by its type, what it refers to and where it comes from: the parts
\* of its idempotency key.
Entry(type, ref, source, amount) ==
  [type |-> type, ref |-> ref, source |-> source, amount |-> amount]
Append(e) == ledger' = ledger \cup {e}

\* The sum of a function into the integers, its negative values left out, no value above
\* MaxAmount: the number of its units.
Total(f) == Cardinality({u \in (DOMAIN f) \X Amounts : u[2] <= f[u[1]]})

Balance == Total([e \in ledger |-> e.amount]) - Total([e \in ledger |-> -e.amount])

HoldOf(r) == IF r.status = "active" THEN r.amount ELSE 0
Held == Total([s \in Sessions |-> HoldOf(reservation[s])])

Frozen == \E c \in Contributions : contribution[c] = "needs_review"

\* Mutant: forgets that funding is under review.
AvailableUnderReview == Balance - Held

Available == IF Frozen THEN 0 ELSE Balance - Held

\* What a World has committed of its budget this month: what its sessions hold, and what they
\* used, less the credits for it.
CreditsOf(s) ==
  Total([e \in {e \in ledger : e.type \in {"wake_guarantee", "availability_credit"} /\ e.ref = s}
           |-> e.amount])
Committed(w) ==
  LET its == {s \in Sessions : WorldOf[s] = w} IN
    Total([s \in its |-> HoldOf(reservation[s])])
      + Total([s \in {s \in its : usage[s].by # "none" /\ usage[s].month = month} |->
                 usage[s].amount - CreditsOf(s)])
WithinBudget(w, n) == n > 0 /\ budget[w] # None => Committed(w) + n <= budget[w]

Init ==
  /\ contribution = [c \in Contributions |-> "absent"]
  /\ checkout = [c \in Contributions |-> [paid |-> "none", refunded |-> FALSE, disputed |-> FALSE]]
  /\ events = {} /\ ledger = {}
  /\ reservation = [s \in Sessions |-> [status |-> "none", amount |-> 0]]
  /\ usage = [s \in Sessions |-> [by |-> "none", amount |-> 0, month |-> 1]]
  /\ budget = [w \in Worlds |-> None]
  /\ month = 1
  /\ caller = [p \in Callers |-> IdleCall]

-------------------------------------------------------------------------------
(* The provider: what happens to a checkout, and which events tell of it. *)

Pay(c) ==
  /\ checkout[c].paid = "open"
  /\ \E paid \in {"exact", "other"} : checkout' = [checkout EXCEPT ![c].paid = paid]
  /\ UNCHANGED <<snapshot, month, caller>>

\* The provider refunds a payment on its own account, or opens a dispute of it.
ReturnPayment(c) ==
  /\ checkout[c].paid \in {"exact", "other"}
  /\ \/ checkout' = [checkout EXCEPT ![c].refunded = TRUE]
     \/ checkout' = [checkout EXCEPT ![c].disputed = TRUE]
  /\ UNCHANGED <<snapshot, month, caller>>

Happened(kind, c) ==
  CASE kind = "completed" -> checkout[c].paid \in {"exact", "other"}
    [] kind = "refunded"  -> checkout[c].refunded
    [] kind = "disputed"  -> checkout[c].disputed

Reported(c) ==
  CASE checkout[c].refunded -> "refunded"
    [] ~checkout[c].refunded /\ checkout[c].disputed -> "other"
    [] ~checkout[c].refunded /\ ~checkout[c].disputed ->
         IF checkout[c].paid = "open" THEN "open" ELSE "paid"

-------------------------------------------------------------------------------
(* Payment events, from the webhook or from a reconciliation. *)

\* Mutant: credits a payment whose refund or dispute arrived first.
CompleteReversed(c, source) ==
  IF contribution[c] \in {"completed", "refund_requested"}
  THEN UNCHANGED <<contribution, ledger>>
  ELSE /\ contribution' = [contribution EXCEPT ![c] = "completed"]
       /\ Append(Entry("contribution", c, source, Price[c]))

\* A completed payment is credited unless it was before, or reversed; one that does not pay
\* the exact amount is kept for review.
CompleteContribution(c, source) ==
  IF contribution[c] \in {"completed", "refund_requested", "refunded", "disputed"}
  THEN UNCHANGED <<contribution, ledger>>
  ELSE IF checkout[c].paid = "exact"
       THEN /\ contribution' = [contribution EXCEPT ![c] = "completed"]
            /\ Append(Entry("contribution", c, source, Price[c]))
       ELSE /\ contribution' = [contribution EXCEPT ![c] = "needs_review"]
            /\ UNCHANGED ledger

\* Mutant: reverses a payment in any status, credited or not.
ReverseUncredited(c, kind, source) ==
  IF Available < Price[c]
  THEN contribution' = [contribution EXCEPT ![c] = "needs_review"] /\ UNCHANGED ledger
  ELSE /\ contribution' = [contribution EXCEPT ![c] = kind]
       /\ Append(Entry(IF kind = "refunded" THEN "refund" ELSE "dispute", c, source, -Price[c]))

\* A refund or a dispute compensates a credited payment if its credit is still available, and
\* otherwise puts it under review.
ReverseContribution(c, kind, source) ==
  CASE contribution[c] \in {"refunded", "disputed"} -> UNCHANGED <<contribution, ledger>>
    [] contribution[c] \in {"creating_checkout", "pending", "needs_review"} ->
         contribution' = [contribution EXCEPT ![c] = kind] /\ UNCHANGED ledger
    [] contribution[c] \in {"completed", "refund_requested"} ->
         IF Available < Price[c]
         THEN contribution' = [contribution EXCEPT ![c] = "needs_review"] /\ UNCHANGED ledger
         ELSE /\ contribution' = [contribution EXCEPT ![c] = kind]
              /\ Append(Entry(IF kind = "refunded" THEN "refund" ELSE "dispute",
                              c, source, -Price[c]))

\* An event takes effect once; one that tells of a checkout not attached yet is rejected.
ProcessPaymentEvent(source, kind, c) ==
  /\ contribution[c] \notin {"absent", "creating_checkout"}
  /\ <<source, kind, c>> \notin events
  /\ events' = events \cup {<<source, kind, c>>}
  /\ IF kind = "completed" THEN CompleteContribution(c, source)
                           ELSE ReverseContribution(c, kind, source)
  /\ UNCHANGED <<reservation, usage, budget>>

ReceiveWebhook(kind, c) ==
  /\ Happened(kind, c)
  /\ ProcessPaymentEvent("webhook", kind, c)
  /\ UNCHANGED <<checkout, month, caller>>

-------------------------------------------------------------------------------
(* Calls that talk to the provider. *)

Continue(p, step) == caller' = [caller EXCEPT ![p].step = step]
End(p) == caller' = [caller EXCEPT ![p] = IdleCall]
SetStatus(c, status) ==
  /\ contribution' = [contribution EXCEPT ![c] = status]
  /\ UNCHANGED <<events, ledger, reservation, usage, budget>>

\* A purchase begins once; a repeated one is returned as it is.
CreateContribution(p, c) ==
  /\ caller[p].step = "idle"
  /\ contribution[c] = "absent"
  /\ SetStatus(c, "creating_checkout")
  /\ caller' = [caller EXCEPT ![p] = [IdleCall EXCEPT !.step = "create", !.of = c]]
  /\ UNCHANGED <<checkout, month>>

CreateCheckout(p) ==
  /\ caller[p].step = "create"
  /\ checkout' = [checkout EXCEPT ![caller[p].of].paid = "open"]
  /\ Continue(p, "attach")
  /\ UNCHANGED <<snapshot, month>>

\* The answer is recorded whatever became of the contribution, unless it is pending already.
AttachCheckout(p) ==
  /\ caller[p].step = "attach"
  /\ SetStatus(caller[p].of, "pending")
  /\ End(p)
  /\ UNCHANGED <<checkout, month>>

\* A refund asked for here needs the whole credit to be available.
RequestRefund(p, c) ==
  /\ caller[p].step = "idle"
  /\ contribution[c] = "completed"
  /\ Price[c] <= Available
  /\ caller' = [caller EXCEPT ![p] = [IdleCall EXCEPT !.step = "refund", !.of = c]]
  /\ UNCHANGED <<snapshot, checkout, month>>

RefundCheckout(p) ==
  /\ caller[p].step = "refund"
  /\ checkout' = [checkout EXCEPT ![caller[p].of].refunded = TRUE]
  /\ Continue(p, "record")
  /\ UNCHANGED <<snapshot, month>>

RecordRefund(p) ==
  /\ caller[p].step = "record"
  /\ IF contribution[caller[p].of] = "completed"
     THEN SetStatus(caller[p].of, "refund_requested") ELSE UNCHANGED snapshot
  /\ End(p)
  /\ UNCHANGED <<checkout, month>>

\* A reconciliation asks the provider for the checkout.
ReadCheckout(p, c) ==
  /\ caller[p].step = "idle"
  /\ contribution[c] # "absent" /\ checkout[c].paid # "none"
  /\ caller' = [caller EXCEPT ![p] = [step |-> "reconcile", of |-> c, seen |-> Reported(c)]]
  /\ UNCHANGED <<snapshot, checkout, month>>

\* It attaches a checkout whose creation was never answered, then processes the event that
\* the answer stands for.
Reconcile(p) ==
  /\ caller[p].step = "reconcile"
  /\ LET c == caller[p].of IN
       \/ /\ contribution[c] = "creating_checkout"
          /\ SetStatus(c, "pending") /\ UNCHANGED caller
       \/ /\ caller[p].seen = "paid"
          /\ ProcessPaymentEvent("reconcile", "completed", c) /\ End(p)
       \/ /\ caller[p].seen = "refunded"
          /\ ProcessPaymentEvent("reconcile", "refunded", c) /\ End(p)
  /\ UNCHANGED <<checkout, month>>

\* The call raises, has nothing more to do, or its process stops.
CallEnds(p) ==
  /\ caller[p].step # "idle"
  /\ End(p)
  /\ UNCHANGED <<snapshot, checkout, month>>

-------------------------------------------------------------------------------
(* Sessions: reservation, extension, capture, release and credits. *)

SetReservation(s, r) == reservation' = [reservation EXCEPT ![s] = r]

Reserve(s, n) ==
  /\ reservation[s].status = "none"
  /\ n <= Available /\ WithinBudget(WorldOf[s], n)
  /\ SetReservation(s, [status |-> "active", amount |-> n])
  /\ UNCHANGED <<contribution, events, ledger, usage, budget, checkout, month, caller>>

\* Mutant: adds what the session needs to what it already holds.
ProtectAccumulating(s, n) ==
  /\ reservation[s].status = "active"
  /\ n <= Available /\ WithinBudget(WorldOf[s], n)
  /\ SetReservation(s, [status |-> "active", amount |-> reservation[s].amount + n])
  /\ UNCHANGED <<contribution, events, ledger, usage, budget, checkout, month, caller>>

\* Mutant: holds what the session needs even when the Wallet cannot fund it.
ProtectUnfunded(s, n) ==
  /\ reservation[s].status = "active"
  /\ SetReservation(s, [status |-> "active", amount |-> n])
  /\ UNCHANGED <<contribution, events, ledger, usage, budget, checkout, month, caller>>

\* Mutant: extends a session beyond the budget of its World.
ProtectBeyondBudget(s, n) ==
  LET more == IF n > reservation[s].amount THEN n - reservation[s].amount ELSE 0 IN
    /\ reservation[s].status = "active"
    /\ more <= Available
    /\ SetReservation(s, [status |-> "active", amount |-> n])
    /\ UNCHANGED <<contribution, events, ledger, usage, budget, checkout, month, caller>>

\* The Balance Guard sets the reservation to what the session needs until its next check and
\* a safe sleep, which may be less than was reserved, if Wallet and budget can fund it.
ProtectActiveSession(s, n) ==
  LET more == IF n > reservation[s].amount THEN n - reservation[s].amount ELSE 0 IN
    /\ reservation[s].status = "active"
    /\ more <= Available /\ WithinBudget(WorldOf[s], more)
    /\ SetReservation(s, [status |-> "active", amount |-> n])
    /\ UNCHANGED <<contribution, events, ledger, usage, budget, checkout, month, caller>>

ReleaseReservation(s) ==
  /\ reservation[s].status = "active"
  /\ SetReservation(s, [reservation[s] EXCEPT !.status = "released"])
  /\ UNCHANGED <<contribution, events, ledger, usage, budget, checkout, month, caller>>

\* One operation captures the session's usage, and only if its reservation covers it.
CaptureRuntimeUsage(s, by, n) ==
  /\ reservation[s].status = "active"
  /\ n <= reservation[s].amount
  /\ SetReservation(s, [reservation[s] EXCEPT !.status = "captured"])
  /\ usage' = [usage EXCEPT ![s] = [by |-> by, amount |-> n, month |-> month]]
  /\ Append(Entry("runtime_charge", s, by, -n))
  /\ UNCHANGED <<contribution, events, budget, checkout, month, caller>>

CreditWallet(type, ref, source, n) ==
  /\ ~\E e \in ledger : e.type = type /\ e.ref = ref /\ e.source = source
  /\ Append(Entry(type, ref, source, n))
  /\ UNCHANGED <<contribution, events, reservation, usage, budget, checkout, month, caller>>

ApplyWakeGuarantee(s) ==
  /\ usage[s].by = "wake"
  /\ CreditWallet("wake_guarantee", s, "wake", usage[s].amount)

\* At most the usage itself is credited for one outage.
ApplyAvailabilityCredit(s, outage, n) ==
  /\ usage[s].by # "none"
  /\ n <= usage[s].amount
  /\ CreditWallet("availability_credit", s, outage, n)

ApplySupportCredit(ticket, n) == CreditWallet("support_credit", ticket, "support", n)

ChargeMonthlyStorage(n) ==
  /\ ~\E e \in ledger : e.type = "storage_charge" /\ e.ref = month
  /\ n <= Available
  /\ Append(Entry("storage_charge", month, "storage", -n))
  /\ UNCHANGED <<contribution, events, reservation, usage, budget, checkout, month, caller>>

SetWorldBudget(w, n) ==
  /\ budget' = [budget EXCEPT ![w] = n]
  /\ UNCHANGED <<contribution, events, ledger, reservation, usage, checkout, month, caller>>

MonthPasses ==
  /\ month < MaxMonth
  /\ month' = month + 1
  /\ UNCHANGED <<snapshot, checkout, caller>>

-------------------------------------------------------------------------------
Payments ==
  \/ \E c \in Contributions : Pay(c) \/ ReturnPayment(c)
  \/ \E kind \in {"completed", "refunded", "disputed"}, c \in Contributions :
       ReceiveWebhook(kind, c)
  \/ \E p \in Callers, c \in Contributions :
       CreateContribution(p, c) \/ RequestRefund(p, c) \/ ReadCheckout(p, c)
  \/ \E p \in Callers :
       \/ CreateCheckout(p) \/ AttachCheckout(p) \/ RefundCheckout(p) \/ RecordRefund(p)
       \/ Reconcile(p) \/ CallEnds(p)

SessionBilling ==
  \/ \E s \in Sessions, n \in Amounts : Reserve(s, n) \/ ProtectActiveSession(s, n)
  \/ \E s \in Sessions : ReleaseReservation(s) \/ ApplyWakeGuarantee(s)
  \/ \E s \in Sessions, by \in {"wake", "sleep"}, n \in 0 .. MaxAmount :
       CaptureRuntimeUsage(s, by, n)
  \/ \E s \in Sessions, outage \in Outages, n \in Amounts : ApplyAvailabilityCredit(s, outage, n)
  \/ \E ticket \in Tickets, n \in Amounts : ApplySupportCredit(ticket, n)
  \/ \E n \in Amounts : ChargeMonthlyStorage(n)
  \/ \E w \in Worlds, n \in Amounts : SetWorldBudget(w, n)
  \/ MonthPasses

Next == Payments \/ SessionBilling

Spec == Init /\ [][Next]_vars

-------------------------------------------------------------------------------
(* Properties *)

\* The variables hold the values the code can store.
TypeOK ==
  /\ contribution \in [Contributions -> Statuses]
  /\ checkout \in [Contributions -> Checkout]
  /\ events \subseteq EventIds
  /\ \A e \in ledger : e.type \in EntryTypes /\ e.amount \in -MaxAmount .. MaxAmount
  /\ IsFiniteSet(ledger)
  /\ reservation \in [Sessions -> Reservation]
  /\ usage \in [Sessions -> Usage]
  /\ budget \in [Worlds -> Amounts \cup {None}]
  /\ month \in Months
  /\ caller \in [Callers -> Call]

\* The Wallet is never negative, nor does it hold more than it has: however contributions are
\* reversed, sessions extended and storage charged at the same time (ADR 0003, ROADMAP gate).
NeverOverdrawn == 0 <= Held /\ Held <= Balance

\* Billing implements the prepaid Wallet: every debit is funded by available credit or by a
\* reservation that covers it, and while a contribution is under review nothing new is funded.
Prepaid == INSTANCE PrepaidWallet WITH
  Moves <- 0 .. MaxAmount, balance <- Balance, held <- Held, frozen <- Frozen
FollowsPrepaidWallet == Prepaid!Spec

Credited(c) == {e \in ledger : e.type = "contribution" /\ e.ref = c}
Reversed(c) == {e \in ledger : e.type \in {"refund", "dispute"} /\ e.ref = c}

\* A payment is reversed at most as often as it was credited, so a refund and a dispute of the
\* same payment, in any order and repeated, never take more than it brought.
ReversalsAreCovered ==
  \A c \in Contributions : Cardinality(Reversed(c)) <= Cardinality(Credited(c))

\* A contribution whose reversal arrived before its payment is never credited afterwards, and a
\* reversed one never comes back, unless the call that creates its checkout has yet to attach it.
ReversalIsFinal ==
  [][\A c \in Contributions :
       /\ contribution[c] \in {"refunded", "disputed"}
       /\ ~\E p \in Callers : caller[p].step = "attach" /\ caller[p].of = c
       => contribution'[c] = contribution[c] /\ Credited(c)' = Credited(c)]_vars

\* No session takes its World further beyond the budget of the month: reservations of several
\* sessions, their extensions, captures and credits add up to at most the limit (ADR 0003).
BudgetBoundsCommitments ==
  [][\A w \in Worlds : budget'[w] # None /\ Committed(w)' > Committed(w) =>
       Committed(w)' <= budget'[w]]_vars

-------------------------------------------------------------------------------
(* What the documents say of payments and the code does not keep: TLC finds the
   behaviour that breaks it. *)

\* A paid contribution is credited once (payment-reconciliation runbook, ROADMAP gate).
CreditedOnce == \A c \in Contributions : Cardinality(Credited(c)) <= 1
===============================================================================
