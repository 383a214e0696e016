-------------------------- MODULE WalletLimitsProofs --------------------------
(***************************************************************************)
(* Proofs about the limits that Wallet keeps, for every set of             *)
(* contributions, sessions, worlds and callers: what reversals take back,  *)
(* that a reversed contribution stays reversed, and what sessions commit   *)
(* of the budget of their World.                                           *)
(*                                                                         *)
(* The entries of a contribution are counted; that a payment event takes   *)
(* effect once makes the entry of a credit a new one.  What a World has    *)
(* committed is a sum over its sessions; each action changes at most one   *)
(* summand of each of its two parts.                                       *)
(***************************************************************************)
EXTENDS WalletProofs

(* Reversals.                                                                 *)

\* Every credited payment was told of by an event, processed with the credit.
CreditsHaveEvents ==
  \A e \in ledger : e.type = "contribution" => <<e.source, "completed", e.ref>> \in events

\* A contribution that may still be reversed was credited more often than reversed.
ReversibleIsCredited ==
  \A c \in Contributions : contribution[c] \in {"completed", "refund_requested"} =>
    Cardinality(Reversed(c)) < Cardinality(Credited(c))

ReversalInv == TInv /\ CreditsHaveEvents /\ ReversibleIsCredited /\ ReversalsAreCovered

FundingTypes == {"contribution", "refund", "dispute"}

\* The entries of a contribution are finitely many.
LEMMA FundingIsFinite ==
  ASSUME TypeOK, NEW c
  PROVE  /\ IsFiniteSet(Credited(c)) /\ Cardinality(Credited(c)) \in Nat
         /\ IsFiniteSet(Reversed(c)) /\ Cardinality(Reversed(c)) \in Nat
<1>1. IsFiniteSet(ledger)
  BY DEF TypeOK
<1>2. Credited(c) \subseteq ledger /\ Reversed(c) \subseteq ledger
  BY DEF Credited, Reversed
<1> QED
  BY <1>1, <1>2, FS_Subset, FS_CardinalityType

\* An entry of another type, or none, leaves the entries of the contributions alone.
LEMMA OtherEntriesLeaveFunding ==
  ASSUME \/ UNCHANGED ledger
         \/ \E e : e.type \notin FundingTypes /\ Append(e),
         NEW c
  PROVE  Credited(c)' = Credited(c) /\ Reversed(c)' = Reversed(c)
BY DEF Credited, Reversed, Append, FundingTypes

\* Sessions, support, storage and budgets touch no contribution and no entry of one.
LEMMA SessionsLeaveFunding ==
  ASSUME SessionBilling
  PROVE  /\ UNCHANGED <<contribution, events>>
         /\ \/ UNCHANGED ledger
            \/ \E e : e.type \notin FundingTypes /\ Append(e)
<1> USE DEF FundingTypes, Entry
<1>1. ASSUME NEW s \in Sessions, NEW n \in Amounts, Reserve(s, n) \/ ProtectActiveSession(s, n)
      PROVE  UNCHANGED <<contribution, events, ledger>>
  BY <1>1 DEF Reserve, ProtectActiveSession
<1>2. ASSUME NEW s \in Sessions, ReleaseReservation(s)
      PROVE  UNCHANGED <<contribution, events, ledger>>
  BY <1>2 DEF ReleaseReservation
<1>3. ASSUME NEW s \in Sessions, NEW by \in {"wake", "sleep"}, NEW n \in 0 .. MaxAmount,
             CaptureRuntimeUsage(s, by, n)
      PROVE  /\ UNCHANGED <<contribution, events>>
             /\ Append(Entry("runtime_charge", s, by, -n))
  BY <1>3 DEF CaptureRuntimeUsage
<1>4. ASSUME NEW type, NEW ref, NEW source, NEW n, CreditWallet(type, ref, source, n)
      PROVE  UNCHANGED <<contribution, events>> /\ Append(Entry(type, ref, source, n))
  BY <1>4 DEF CreditWallet
<1>5. ASSUME NEW n \in Amounts, ChargeMonthlyStorage(n)
      PROVE  /\ UNCHANGED <<contribution, events>>
             /\ Append(Entry("storage_charge", month, "storage", -n))
  BY <1>5 DEF ChargeMonthlyStorage
<1>6. ASSUME NEW w \in Worlds, NEW n \in Amounts, SetWorldBudget(w, n)
      PROVE  UNCHANGED <<contribution, events, ledger>>
  BY <1>6 DEF SetWorldBudget
<1>7. MonthPasses => UNCHANGED <<contribution, events, ledger>>
  BY DEF MonthPasses, snapshot
<1> HIDE DEF Entry
<1>8. \A type, ref, source, n : Entry(type, ref, source, n).type = type
  BY DEF Entry
<1>9. CASE \E s \in Sessions : ApplyWakeGuarantee(s)
  BY <1>4, <1>8, <1>9 DEF ApplyWakeGuarantee
<1>10. CASE \E s \in Sessions, outage \in Outages, n \in Amounts :
              ApplyAvailabilityCredit(s, outage, n)
  BY <1>4, <1>8, <1>10 DEF ApplyAvailabilityCredit
<1>11. CASE \E ticket \in Tickets, n \in Amounts : ApplySupportCredit(ticket, n)
  BY <1>4, <1>8, <1>11 DEF ApplySupportCredit
<1>12. CASE \E s \in Sessions, by \in {"wake", "sleep"}, n \in 0 .. MaxAmount :
              CaptureRuntimeUsage(s, by, n)
  BY <1>3, <1>8, <1>12
<1>13. CASE \E n \in Amounts : ChargeMonthlyStorage(n)
  BY <1>5, <1>8, <1>13
<1> QED
  BY <1>1, <1>2, <1>6, <1>7, <1>9, <1>10, <1>11, <1>12, <1>13 DEF SessionBilling

\* What a payment event does to its contribution and to the ledger: nothing, a credit, a
\* status, or a compensation of a credit.
Credits(source, c) ==
  /\ contribution[c] \notin {"completed", "refund_requested", "refunded", "disputed"}
  /\ contribution' = [contribution EXCEPT ![c] = "completed"]
  /\ Append(Entry("contribution", c, source, Price[c]))
MarksStatus(kind, c) ==
  /\ contribution[c] \notin {"refunded", "disputed"}
  /\ \/ contribution' = [contribution EXCEPT ![c] = "needs_review"]
     \/ kind \in {"refunded", "disputed"} /\ contribution' = [contribution EXCEPT ![c] = kind]
  /\ UNCHANGED ledger
Compensates(source, kind, c) ==
  /\ contribution[c] \in {"completed", "refund_requested"}
  /\ kind \in {"refunded", "disputed"}
  /\ contribution' = [contribution EXCEPT ![c] = kind]
  /\ \E type \in {"refund", "dispute"} : Append(Entry(type, c, source, -Price[c]))

LEMMA EventSteps ==
  ASSUME TypeOK, NEW c \in Contributions, NEW source,
         NEW kind \in {"completed", "refunded", "disputed"},
         ProcessPaymentEvent(source, kind, c)
  PROVE  /\ <<source, kind, c>> \notin events /\ events' = events \cup {<<source, kind, c>>}
         /\ \/ UNCHANGED <<contribution, ledger>>
            \/ kind = "completed" /\ Credits(source, c)
            \/ MarksStatus(kind, c)
            \/ Compensates(source, kind, c)
<1>1. contribution[c] \in Statuses \ {"absent", "creating_checkout"}
  BY DEF ProcessPaymentEvent, TypeOK
<1>2. CASE kind = "completed"
  <2>1. CompleteContribution(c, source)
    BY <1>2 DEF ProcessPaymentEvent
  <2>2. UNCHANGED <<contribution, ledger>> \/ Credits(source, c) \/ MarksStatus(kind, c)
    BY <2>1 DEF CompleteContribution, Credits, MarksStatus
  <2> QED
    BY <1>2, <2>2 DEF ProcessPaymentEvent
<1>3. CASE kind # "completed"
  BY <1>1, <1>3
  DEF ProcessPaymentEvent, ReverseContribution, MarksStatus, Compensates, Statuses
<1> QED
  BY <1>2, <1>3 DEF ProcessPaymentEvent

\* A contribution changes to the status given, and the entries of it by those given; every
\* other contribution and its entries stay.
LEMMA FundingMoves ==
  ASSUME TypeOK, NEW c \in Contributions, NEW kind, NEW source,
         kind \in {"completed", "refunded", "disputed"},
         ProcessPaymentEvent(source, kind, c), NEW d \in Contributions, d # c
  PROVE  contribution'[d] = contribution[d] /\ Credited(d)' = Credited(d)
                                            /\ Reversed(d)' = Reversed(d)
<1>1. contribution'[d] = contribution[d]
  <2>1. \/ UNCHANGED contribution
        \/ \E status \in {"completed", "needs_review", kind} :
             contribution' = [contribution EXCEPT ![c] = status]
    <3>1. \/ UNCHANGED <<contribution, ledger>>
          \/ kind = "completed" /\ Credits(source, c)
          \/ MarksStatus(kind, c)
          \/ Compensates(source, kind, c)
      BY EventSteps
    <3> QED
      BY <3>1 DEF Credits, MarksStatus, Compensates
  <2> QED
    BY <2>1 DEF TypeOK
<1>2. ASSUME NEW type, NEW n, Append(Entry(type, c, source, n))
      PROVE  Credited(d)' = Credited(d) /\ Reversed(d)' = Reversed(d)
  BY <1>2 DEF Append, Entry, Credited, Reversed
<1>3. CASE UNCHANGED ledger
  BY <1>1, <1>3, OtherEntriesLeaveFunding
<1>4. CASE Credits(source, c)
  BY <1>1, <1>2, <1>4 DEF Credits
<1>5. CASE Compensates(source, kind, c)
  BY <1>1, <1>2, <1>5 DEF Compensates
<1> QED
  BY <1>3, <1>4, <1>5, EventSteps DEF MarksStatus

\* A credit that no event told of before is one more; a compensation is at most one more.
LEMMA CreditCounts ==
  ASSUME ReversalInv, NEW c \in Contributions, NEW source,
         <<source, "completed", c>> \notin events, Credits(source, c)
  PROVE  /\ Cardinality(Credited(c)') = Cardinality(Credited(c)) + 1
         /\ Reversed(c)' = Reversed(c)
<1> DEFINE e == Entry("contribution", c, source, Price[c])
<1>1. e.type = "contribution" /\ e.ref = c /\ e.source = source
  BY DEF Entry
<1>2. e \notin ledger
  BY <1>1 DEF ReversalInv, CreditsHaveEvents
<1>3. ledger' = ledger \cup {e}
  BY DEF Credits, Append
<1> HIDE DEF e
<1>4. Credited(c)' = Credited(c) \cup {e} /\ e \notin Credited(c) /\ Reversed(c)' = Reversed(c)
  BY <1>1, <1>2, <1>3 DEF Credited, Reversed
<1>5. IsFiniteSet(Credited(c))
  BY FundingIsFinite DEF ReversalInv, TInv
<1> QED
  BY <1>4, <1>5, FS_AddElement

LEMMA CompensationCounts ==
  ASSUME TypeOK, NEW c \in Contributions, NEW source, NEW kind, Compensates(source, kind, c)
  PROVE  /\ Cardinality(Reversed(c)') <= Cardinality(Reversed(c)) + 1
         /\ Credited(c)' = Credited(c)
<1>1. PICK type \in {"refund", "dispute"} : Append(Entry(type, c, source, -Price[c]))
  BY DEF Compensates
<1> DEFINE e == Entry(type, c, source, -Price[c])
<1>2. e.type = type /\ e.ref = c
  BY DEF Entry
<1>3. ledger' = ledger \cup {e}
  BY <1>1 DEF Append
<1> HIDE DEF e
<1>4. Reversed(c)' = Reversed(c) \cup {e} /\ Credited(c)' = Credited(c)
  BY <1>2, <1>3 DEF Credited, Reversed
<1>5. IsFiniteSet(Reversed(c)) /\ Cardinality(Reversed(c)) \in Nat
  BY FundingIsFinite
<1>6. Cardinality(Reversed(c) \cup {e}) \in {Cardinality(Reversed(c)), Cardinality(Reversed(c)) + 1}
  BY <1>5, FS_AddElement
<1> QED
  BY <1>4, <1>5, <1>6

\* Marking the status of a contribution changes no count; a marked one is not reversible.
LEMMA ReversalsStayCovered ==
  ASSUME ReversalInv, NEW c \in Contributions, NEW source,
         NEW kind \in {"completed", "refunded", "disputed"},
         ProcessPaymentEvent(source, kind, c)
  PROVE  (CreditsHaveEvents /\ ReversibleIsCredited /\ ReversalsAreCovered)'
<1>1. TypeOK
  BY DEF ReversalInv, TInv
<1>2. /\ <<source, kind, c>> \notin events /\ events' = events \cup {<<source, kind, c>>}
      /\ \/ UNCHANGED <<contribution, ledger>>
         \/ kind = "completed" /\ Credits(source, c)
         \/ MarksStatus(kind, c)
         \/ Compensates(source, kind, c)
  BY <1>1, EventSteps
<1>3. CreditsHaveEvents'
  <2>1. CASE UNCHANGED ledger
    BY <1>2, <2>1 DEF ReversalInv, CreditsHaveEvents
  <2>2. CASE kind = "completed" /\ Credits(source, c)
    BY <1>2, <2>2 DEF ReversalInv, CreditsHaveEvents, Credits, Append, Entry
  <2>3. CASE Compensates(source, kind, c)
    BY <1>2, <2>3 DEF ReversalInv, CreditsHaveEvents, Compensates, Append, Entry
  <2> QED
    BY <1>2, <2>1, <2>2, <2>3 DEF MarksStatus
<1>4. /\ Cardinality(Reversed(c)) \in Nat /\ Cardinality(Credited(c)) \in Nat
      /\ Cardinality(Reversed(c)) <= Cardinality(Credited(c))
  BY <1>1, FundingIsFinite DEF ReversalInv, ReversalsAreCovered
<1>5. /\ Cardinality(Reversed(c)') <= Cardinality(Credited(c)')
      /\ contribution'[c] \in {"completed", "refund_requested"} =>
           Cardinality(Reversed(c)') < Cardinality(Credited(c)')
  <2>1. CASE UNCHANGED <<contribution, ledger>>
    BY <2>1, OtherEntriesLeaveFunding
    DEF ReversalInv, ReversibleIsCredited, ReversalsAreCovered
  <2>2. CASE kind = "completed" /\ Credits(source, c)
    BY <1>2, <1>4, <2>2, CreditCounts
  <2>3. CASE MarksStatus(kind, c)
    <3>1. contribution'[c] \notin {"completed", "refund_requested"}
      BY <1>1, <2>3 DEF MarksStatus, TypeOK
    <3> QED
      BY <1>4, <2>3, <3>1, OtherEntriesLeaveFunding DEF MarksStatus
  <2>4. CASE Compensates(source, kind, c)
    <3>1. Cardinality(Reversed(c)) < Cardinality(Credited(c))
      BY <2>4 DEF Compensates, ReversalInv, ReversibleIsCredited
    <3>2. /\ Cardinality(Reversed(c)') <= Cardinality(Reversed(c)) + 1
          /\ Credited(c)' = Credited(c)
      BY <1>1, <2>4, CompensationCounts
    <3>3. contribution'[c] \notin {"completed", "refund_requested"}
      BY <1>1, <2>4 DEF Compensates, TypeOK
    <3>4. Cardinality(Reversed(c)') \in Nat
      <4>1. IsFiniteSet(ledger')
        BY <1>1, <2>4, FS_AddElement DEF Compensates, Append, TypeOK
      <4> QED
        BY <4>1, FS_Subset, FS_CardinalityType DEF Reversed
    <3> QED
      BY <1>4, <3>1, <3>2, <3>3, <3>4
  <2> QED
    BY <1>2, <2>1, <2>2, <2>3, <2>4
<1>6. ASSUME NEW d \in Contributions, d # c
      PROVE  /\ contribution'[d] = contribution[d]
             /\ Cardinality(Reversed(d)') = Cardinality(Reversed(d))
             /\ Cardinality(Credited(d)') = Cardinality(Credited(d))
  BY <1>1, <1>6, FundingMoves
<1> QED
  BY <1>3, <1>5, <1>6 DEF ReversalInv, ReversibleIsCredited, ReversalsAreCovered

\* A status set without an entry: a new contribution, a checkout attached late, whatever the
\* contribution became meanwhile, or a refund asked for.
LEMMA StatusKeepsCover ==
  ASSUME ReversalInv, NEW c \in Contributions, NEW status, SetStatus(c, status),
         status \in {"creating_checkout", "pending"}
           \/ (status = "refund_requested" /\ contribution[c] = "completed")
  PROVE  (CreditsHaveEvents /\ ReversibleIsCredited /\ ReversalsAreCovered)'
<1>1. \A d \in Contributions : Credited(d)' = Credited(d) /\ Reversed(d)' = Reversed(d)
  BY OtherEntriesLeaveFunding DEF SetStatus
<1>2. \A d \in Contributions : contribution'[d] \in {"completed", "refund_requested"} =>
        contribution[d] \in {"completed", "refund_requested"}
  BY DEF SetStatus, ReversalInv, TInv, TypeOK
<1>3. CreditsHaveEvents'
  BY DEF SetStatus, ReversalInv, CreditsHaveEvents
<1> QED
  BY <1>1, <1>2, <1>3 DEF ReversalInv, ReversibleIsCredited, ReversalsAreCovered

\* A step that leaves contributions, their entries and the events alone keeps the cover.
LEMMA UnrelatedKeepsCover ==
  ASSUME ReversalInv, UNCHANGED <<contribution, events>>,
         \/ UNCHANGED ledger
         \/ \E e : e.type \notin FundingTypes /\ Append(e)
  PROVE  (CreditsHaveEvents /\ ReversibleIsCredited /\ ReversalsAreCovered)'
<1>1. \A d \in Contributions : Credited(d)' = Credited(d) /\ Reversed(d)' = Reversed(d)
  BY OtherEntriesLeaveFunding
<1>2. CreditsHaveEvents'
  BY DEF ReversalInv, CreditsHaveEvents, Append, FundingTypes
<1> QED
  BY <1>1, <1>2 DEF ReversalInv, ReversibleIsCredited, ReversalsAreCovered

LEMMA ReversalsAreInductive == Spec => []ReversalInv
<1>1. Init => ReversalInv
  <2> SUFFICES ASSUME Init PROVE ReversalInv
    OBVIOUS
  <2>1. ledger = {} /\ \A c \in Contributions : contribution[c] = "absent"
    BY DEF Init
  <2>2. \A c \in Contributions : Credited(c) = {} /\ Reversed(c) = {}
    BY <2>1 DEF Credited, Reversed
  <2> QED
    BY <2>1, <2>2, InitTypes, FS_EmptySet
    DEF ReversalInv, CreditsHaveEvents, ReversibleIsCredited, ReversalsAreCovered
<1>2. ReversalInv /\ [Next]_vars =>
        (CreditsHaveEvents /\ ReversibleIsCredited /\ ReversalsAreCovered)'
  <2> SUFFICES ASSUME ReversalInv, [Next]_vars
               PROVE  (CreditsHaveEvents /\ ReversibleIsCredited /\ ReversalsAreCovered)'
    OBVIOUS
  <2> DEFINE Goal == (CreditsHaveEvents /\ ReversibleIsCredited /\ ReversalsAreCovered)'
  <2> HIDE DEF Goal
  <2>0. ASSUME NEW p \in Callers, caller[p].step # "idle" PROVE caller[p].of \in Contributions
    BY <2>0 DEF ReversalInv, TInv, CallsHaveContribution
  <2>1. CASE UNCHANGED snapshot
    BY <2>1, UnrelatedKeepsCover DEF snapshot, Goal
  <2>2. ASSUME NEW kind \in {"completed", "refunded", "disputed"}, NEW c \in Contributions,
               ReceiveWebhook(kind, c)
        PROVE  Goal
    BY <2>2, ReversalsStayCovered DEF ReceiveWebhook, Goal
  <2>3. ASSUME NEW p \in Callers, NEW c \in Contributions, CreateContribution(p, c)
        PROVE  Goal
    BY <2>3, StatusKeepsCover DEF CreateContribution, Goal
  <2>4. ASSUME NEW p \in Callers, AttachCheckout(p) PROVE Goal
    BY <2>0, <2>4, StatusKeepsCover DEF AttachCheckout, Goal
  <2>5. ASSUME NEW p \in Callers, RecordRefund(p) PROVE Goal
    BY <2>0, <2>1, <2>5, StatusKeepsCover DEF RecordRefund, Goal
  <2>6. ASSUME NEW p \in Callers, Reconcile(p) PROVE Goal
    <3> DEFINE c == caller[p].of
    <3>1. c \in Contributions
      BY <2>0, <2>6 DEF Reconcile
    <3>2. \/ SetStatus(c, "pending")
          \/ ProcessPaymentEvent("reconcile", "completed", c)
          \/ ProcessPaymentEvent("reconcile", "refunded", c)
      BY <2>6 DEF Reconcile
    <3> HIDE DEF c
    <3> QED
      BY <3>1, <3>2, StatusKeepsCover, ReversalsStayCovered DEF Goal
  <2>7. ASSUME NEW c \in Contributions, Pay(c) \/ ReturnPayment(c) PROVE UNCHANGED snapshot
    BY <2>7 DEF Pay, ReturnPayment
  <2>8. ASSUME NEW p \in Callers, NEW c \in Contributions, RequestRefund(p, c) \/ ReadCheckout(p, c)
        PROVE  UNCHANGED snapshot
    BY <2>8 DEF RequestRefund, ReadCheckout
  <2>9. ASSUME NEW p \in Callers, CreateCheckout(p) \/ RefundCheckout(p) \/ CallEnds(p)
        PROVE  UNCHANGED snapshot
    BY <2>9 DEF CreateCheckout, RefundCheckout, CallEnds
  <2>10. CASE Payments
    BY <2>1, <2>2, <2>3, <2>4, <2>5, <2>6, <2>7, <2>8, <2>9, <2>10 DEF Payments, Goal
  <2>11. CASE SessionBilling
    BY <2>11, SessionsLeaveFunding, UnrelatedKeepsCover DEF Goal
  <2>12. CASE UNCHANGED vars
    BY <2>1, <2>12 DEF vars
  <2> QED
    BY <2>10, <2>11, <2>12 DEF Next, Goal
<1>3. ReversalInv /\ [Next]_vars /\ TInv' => ReversalInv'
  BY <1>2 DEF ReversalInv
<1> QED
  BY <1>1, <1>3, TypesAreInductive, PTL DEF Spec

\* However refunds and disputes of a payment arrive, repeated, at once or before the payment
\* itself, they take back at most what it was credited.
THEOREM ReversalsTakeOnlyCredits == Spec => []ReversalsAreCovered
<1>1. ReversalInv => ReversalsAreCovered
  BY DEF ReversalInv
<1> QED
  BY <1>1, ReversalsAreInductive, PTL

-------------------------------------------------------------------------------
(* A reversed contribution stays reversed.                                    *)

\* No step but the late attachment of its checkout touches a reversed contribution.
LEMMA ReversedIsLeftAlone ==
  ASSUME TInv, [Next]_vars, NEW c \in Contributions, contribution[c] \in {"refunded", "disputed"},
         ~\E p \in Callers : caller[p].step = "attach" /\ caller[p].of = c
  PROVE  contribution'[c] = contribution[c] /\ Credited(c)' = Credited(c)
<1> DEFINE Goal == contribution'[c] = contribution[c] /\ Credited(c)' = Credited(c)
<1>0. TypeOK
  BY DEF TInv
<1>1. CASE UNCHANGED snapshot
  BY <1>1, OtherEntriesLeaveFunding DEF snapshot
<1>2. ASSUME NEW d \in Contributions, NEW status, SetStatus(d, status), d # c
      PROVE  Goal
  BY <1>0, <1>2, OtherEntriesLeaveFunding DEF SetStatus, TypeOK
<1>3. ASSUME NEW d \in Contributions, NEW source,
             NEW kind \in {"completed", "refunded", "disputed"},
             ProcessPaymentEvent(source, kind, d)
      PROVE  Goal
  <2>1. CASE d # c
    BY <1>0, <1>3, <2>1, FundingMoves
  <2>2. CASE d = c
    <3>1. UNCHANGED <<contribution, ledger>>
      BY <1>0, <1>3, <2>2, EventSteps DEF Credits, MarksStatus, Compensates
    <3> QED
      BY <3>1, OtherEntriesLeaveFunding
  <2> QED
    BY <2>1, <2>2
<1> HIDE DEF Goal
<1>4. ASSUME NEW kind \in {"completed", "refunded", "disputed"}, NEW d \in Contributions,
             ReceiveWebhook(kind, d)
      PROVE  Goal
  BY <1>3, <1>4 DEF ReceiveWebhook
<1>5. ASSUME NEW p \in Callers, NEW d \in Contributions, CreateContribution(p, d) PROVE Goal
  BY <1>2, <1>5 DEF CreateContribution
<1>6. ASSUME NEW p \in Callers, AttachCheckout(p) PROVE Goal
  BY <1>2, <1>6 DEF AttachCheckout, TInv, CallsHaveContribution
<1>7. ASSUME NEW p \in Callers, RecordRefund(p) PROVE Goal
  BY <1>1, <1>2, <1>7 DEF RecordRefund, TInv, CallsHaveContribution, Goal
<1>8. ASSUME NEW p \in Callers, Reconcile(p) PROVE Goal
  <2> DEFINE d == caller[p].of
  <2>1. d \in Contributions
    BY <1>8 DEF Reconcile, TInv, CallsHaveContribution
  <2>2. \/ SetStatus(d, "pending") /\ contribution[d] = "creating_checkout"
        \/ ProcessPaymentEvent("reconcile", "completed", d)
        \/ ProcessPaymentEvent("reconcile", "refunded", d)
    BY <1>8 DEF Reconcile
  <2> HIDE DEF d
  <2> QED
    BY <1>2, <1>3, <2>1, <2>2
<1>9. CASE Payments
  <2>1. ASSUME NEW d \in Contributions, Pay(d) \/ ReturnPayment(d) PROVE Goal
    BY <1>1, <2>1 DEF Pay, ReturnPayment, Goal
  <2>2. ASSUME NEW p \in Callers, NEW d \in Contributions, RequestRefund(p, d) \/ ReadCheckout(p, d)
        PROVE  Goal
    BY <1>1, <2>2 DEF RequestRefund, ReadCheckout, Goal
  <2>3. ASSUME NEW p \in Callers, CreateCheckout(p) \/ RefundCheckout(p) \/ CallEnds(p)
        PROVE  Goal
    BY <1>1, <2>3 DEF CreateCheckout, RefundCheckout, CallEnds, Goal
  <2> QED
    BY <1>4, <1>5, <1>6, <1>7, <1>8, <1>9, <2>1, <2>2, <2>3 DEF Payments, Goal
<1>10. CASE SessionBilling
  BY <1>10, SessionsLeaveFunding, OtherEntriesLeaveFunding DEF Goal
<1>11. CASE UNCHANGED vars
  BY <1>1, <1>11 DEF vars, Goal
<1> QED
  BY <1>9, <1>10, <1>11 DEF Next, Goal

\* A refund or dispute that overtook its payment is never followed by the credit, and a
\* reversed contribution never changes again, but for a checkout attached late.
THEOREM ReversedStaysReversed == Spec => ReversalIsFinal
<1> DEFINE Kept ==
      \A c \in Contributions :
        /\ contribution[c] \in {"refunded", "disputed"}
        /\ ~\E p \in Callers : caller[p].step = "attach" /\ caller[p].of = c
        => contribution'[c] = contribution[c] /\ Credited(c)' = Credited(c)
<1>1. TInv /\ [Next]_vars => Kept
  BY ReversedIsLeftAlone
<1> QED
  BY <1>1, TypesAreInductive, PTL DEF Spec, ReversalIsFinal

-------------------------------------------------------------------------------
(* Budgets: more arithmetic of a Total, then what the actions commit.         *)

\* A function that is nowhere larger, on no larger a domain, has no larger a Total.
LEMMA TotalIsMonotone ==
  ASSUME NEW f, NEW g, IsFiniteSet(DOMAIN g), DOMAIN f \subseteq DOMAIN g,
         \A x \in DOMAIN f : f[x] \in Int /\ g[x] \in Int /\ f[x] <= g[x]
  PROVE  Total(f) <= Total(g)
<1> DEFINE unitsOfF == {u \in (DOMAIN f) \X Amounts : u[2] <= f[u[1]]}
           unitsOfG == {u \in (DOMAIN g) \X Amounts : u[2] <= g[u[1]]}
<1>1. unitsOfF \subseteq unitsOfG
  BY AmountsAssumption DEF Amounts
<1>2. IsFiniteSet(unitsOfG)
  BY UnitsAreFinite, FS_Subset
<1> QED
  BY <1>1, <1>2, FS_Subset DEF Total

\* A function that differs from another in one summand at most has a Total larger by no more
\* than that summand.
LEMMA TotalGrowsAt ==
  ASSUME NEW f, NEW g, IsFiniteSet(DOMAIN f), IsFiniteSet(DOMAIN g), NEW x \in DOMAIN g,
         g[x] \in Int, g[x] <= MaxAmount,
         DOMAIN g \ {x} \subseteq DOMAIN f, \A y \in DOMAIN g \ {x} : g[y] = f[y]
  PROVE  Total(g) <= Total(f) + Positive(g[x])
<1> DEFINE unitsOfF == {u \in (DOMAIN f) \X Amounts : u[2] <= f[u[1]]}
<1>1. UnitsOff(g, x) \subseteq unitsOfF
  BY DEF UnitsOff
<1>2. IsFiniteSet(unitsOfF) /\ Cardinality(unitsOfF) \in Nat
  BY UnitsAreFinite, FS_Subset, FS_CardinalityType
<1>3. Cardinality(UnitsOff(g, x)) <= Total(f)
  BY <1>1, <1>2, FS_Subset DEF Total
<1>4. /\ Total(g) = Cardinality(UnitsOff(g, x)) + Positive(g[x])
      /\ Cardinality(UnitsOff(g, x)) \in Nat
  BY TotalSplits
<1>5. Total(f) \in Nat /\ Positive(g[x]) \in Nat
  BY TotalIsNatural DEF Positive
<1> QED
  BY <1>3, <1>4, <1>5

\* The two parts of what a World has committed: what its sessions hold, and what those that
\* used something this month used beyond the credits for it.
SessionsOf(w) == {s \in Sessions : WorldOf[s] = w}
HeldBy(w) == Total([s \in SessionsOf(w) |-> HoldOf(reservation[s])])
UsedThisMonth(w) == {s \in SessionsOf(w) : usage[s].by # "none" /\ usage[s].month = month}
UsedBy(w) == Total([s \in UsedThisMonth(w) |-> usage[s].amount - CreditsOf(s)])
CreditEntries(s) ==
  {e \in ledger : e.type \in {"wake_guarantee", "availability_credit"} /\ e.ref = s}

\* No usage is of a month to come.
UsageIsPast == \A s \in Sessions : usage[s].month <= month

LEMMA CommittedParts ==
  ASSUME TypeOK, NEW w
  PROVE  /\ Committed(w) = HeldBy(w) + UsedBy(w)
         /\ HeldBy(w) \in Nat /\ UsedBy(w) \in Nat
         /\ IsFiniteSet(SessionsOf(w)) /\ IsFiniteSet(UsedThisMonth(w))
<1>1. IsFiniteSet(SessionsOf(w)) /\ IsFiniteSet(UsedThisMonth(w))
  BY FinitelyMany, FS_Subset DEF SessionsOf, UsedThisMonth
<1>2. HeldBy(w) \in Nat /\ UsedBy(w) \in Nat
  BY <1>1, TotalIsNatural DEF HeldBy, UsedBy
<1>3. Committed(w) = HeldBy(w) + UsedBy(w)
  BY DEF Committed, HeldBy, UsedBy, SessionsOf, UsedThisMonth
<1> QED
  BY <1>1, <1>2, <1>3

\* The same of the state after a step.
LEMMA CommittedPartsNext ==
  TypeOK' => (\A w : /\ Committed(w) = HeldBy(w) + UsedBy(w)
                     /\ HeldBy(w) \in Nat /\ UsedBy(w) \in Nat)'
<1>1. TypeOK => \A w : /\ Committed(w) = HeldBy(w) + UsedBy(w)
                       /\ HeldBy(w) \in Nat /\ UsedBy(w) \in Nat
  BY CommittedParts
<1> QED
  BY <1>1, PTL

\* The credits for a session are a number, and entries only add to them.
LEMMA CreditsAreNatural ==
  ASSUME IsFiniteSet(ledger), NEW s
  PROVE  CreditsOf(s) \in Nat
<1>1. IsFiniteSet(CreditEntries(s))
  BY FS_Subset DEF CreditEntries
<1> QED
  BY <1>1, TotalIsNatural DEF CreditsOf, CreditEntries

LEMMA CreditsAreNaturalNext == IsFiniteSet(ledger)' => (\A s : CreditsOf(s) \in Nat)'
<1>1. IsFiniteSet(ledger) => \A s : CreditsOf(s) \in Nat
  BY CreditsAreNatural
<1> QED
  BY <1>1, PTL

LEMMA CreditsGrow ==
  ASSUME TypeOK, TypeOK', ledger \subseteq ledger', NEW s
  PROVE  CreditsOf(s) <= CreditsOf(s)'
<1> DEFINE f == [e \in CreditEntries(s) |-> e.amount]
           g == [e \in CreditEntries(s)' |-> e.amount]
<1>1. DOMAIN f \subseteq DOMAIN g /\ IsFiniteSet(DOMAIN g)
  BY FS_Subset DEF CreditEntries, TypeOK
<1>2. \A e \in DOMAIN f : f[e] \in Int /\ g[e] \in Int /\ f[e] <= g[e]
  BY <1>1, AmountsAssumption DEF CreditEntries, TypeOK
<1>3. CreditsOf(s) = Total(f) /\ CreditsOf(s)' = Total(g)
  BY DEF CreditsOf, CreditEntries
<1> HIDE DEF f, g
<1> QED
  BY <1>1, <1>2, <1>3, TotalIsMonotone

\* What a session used less its credits is a number no larger than an amount.
LEMMA UsageIsBounded ==
  ASSUME TypeOK, NEW s \in Sessions
  PROVE  /\ usage[s].amount - CreditsOf(s) \in Int /\ usage[s].amount - CreditsOf(s) <= MaxAmount
         /\ Positive(usage[s].amount - CreditsOf(s)) <= usage[s].amount
         /\ usage[s].amount \in 0 .. MaxAmount /\ usage[s].month \in Nat /\ month \in Nat
<1>1. CreditsOf(s) \in Nat
  BY CreditsAreNatural DEF TypeOK
<1>2. usage[s] \in Usage /\ month \in Months
  BY DEF TypeOK
<1>3. usage[s].amount \in 0 .. MaxAmount /\ usage[s].month \in Nat /\ month \in Nat
  BY <1>2, AmountsAssumption DEF Usage, Months
<1> QED
  BY <1>1, <1>3, AmountsAssumption DEF Positive

\* A change of one reservation changes what its World holds, and no other World.
LEMMA ReservationMovesWorld ==
  ASSUME TypeOK, NEW s \in Sessions, NEW r \in Reservation, SetReservation(s, r), NEW w
  PROVE  /\ WorldOf[s] = w => HeldBy(w)' = HeldBy(w) - HoldOf(reservation[s]) + HoldOf(r)
         /\ WorldOf[s] # w => HeldBy(w)' = HeldBy(w)
         /\ HoldOf(reservation[s]) \in 0 .. MaxAmount /\ HoldOf(r) \in 0 .. MaxAmount
<1> DEFINE f == [t \in SessionsOf(w) |-> HoldOf(reservation[t])]
           g == [t \in SessionsOf(w) |-> HoldOf(reservation'[t])]
<1>1. reservation' = [reservation EXCEPT ![s] = r] /\ reservation \in [Sessions -> Reservation]
  BY DEF SetReservation, TypeOK
<1>2. \A q \in Reservation : HoldOf(q) \in 0 .. MaxAmount
  BY AmountsAssumption DEF HoldOf, Reservation
<1>3. HeldBy(w) = Total(f) /\ HeldBy(w)' = Total(g)
  BY DEF HeldBy, SessionsOf
<1>4. CASE WorldOf[s] # w
  <2>1. f = g
    BY <1>1, <1>4 DEF SessionsOf
  <2> QED
    BY <1>1, <1>2, <1>3, <1>4, <2>1
<1>5. CASE WorldOf[s] = w
  <2>1. /\ s \in DOMAIN f /\ DOMAIN g = DOMAIN f /\ IsFiniteSet(DOMAIN f)
        /\ f[s] = HoldOf(reservation[s]) /\ g[s] = HoldOf(r)
        /\ \A y \in DOMAIN f \ {s} : g[y] = f[y]
    BY <1>1, <1>5, FinitelyMany, FS_Subset DEF SessionsOf
  <2>2. f[s] \in 0 .. MaxAmount /\ g[s] \in 0 .. MaxAmount
    BY <1>1, <1>2, <2>1
  <2> HIDE DEF f, g
  <2>3. Total(g) = Total(f) - Positive(f[s]) + Positive(g[s])
    BY <2>1, <2>2, AmountsAssumption, TotalUpdates
  <2>4. Positive(f[s]) = f[s] /\ Positive(g[s]) = g[s]
    BY <2>2, AmountsAssumption DEF Positive
  <2> QED
    BY <1>3, <1>5, <2>1, <2>2, <2>3, <2>4
<1> QED
  BY <1>4, <1>5

\* Entries leave what was used alone, or lower it by a credit.
LEMMA EntriesLowerUsage ==
  ASSUME TypeOK, TypeOK', UNCHANGED <<usage, month>>, ledger \subseteq ledger', NEW w
  PROVE  UsedBy(w)' <= UsedBy(w)
<1> DEFINE f == [s \in UsedThisMonth(w)' |-> usage'[s].amount - CreditsOf(s)']
           g == [s \in UsedThisMonth(w) |-> usage[s].amount - CreditsOf(s)]
<1>1. DOMAIN f = UsedThisMonth(w) /\ DOMAIN g = UsedThisMonth(w)
  BY DEF UsedThisMonth, SessionsOf
<1>2. IsFiniteSet(DOMAIN g)
  BY <1>1, CommittedParts
<1>3. ASSUME NEW s \in DOMAIN f PROVE f[s] \in Int /\ g[s] \in Int /\ f[s] <= g[s]
  <2>1. s \in Sessions
    BY <1>1, <1>3 DEF UsedThisMonth, SessionsOf
  <2>2. /\ CreditsOf(s) \in Nat /\ CreditsOf(s)' \in Nat /\ CreditsOf(s) <= CreditsOf(s)'
    <3>1. (\A t : CreditsOf(t) \in Nat)'
      BY CreditsAreNaturalNext DEF TypeOK
    <3>2. CreditsOf(s) \in Nat
      BY CreditsAreNatural DEF TypeOK
    <3> QED
      BY <3>1, <3>2, CreditsGrow
  <2>3. usage'[s].amount = usage[s].amount /\ usage[s].amount \in Int
    BY <2>1, UsageIsBounded
  <2> QED
    BY <1>1, <1>3, <2>2, <2>3
<1>4. UsedBy(w)' = Total(f) /\ UsedBy(w) = Total(g)
  BY DEF UsedBy
<1> HIDE DEF f, g
<1> QED
  BY <1>1, <1>2, <1>3, <1>4, TotalIsMonotone

\* A step commits within the budget of a World, or no more of it than before.
StaysWithinBudget(w) ==
  budget'[w] # None /\ Committed(w)' > Committed(w) => Committed(w)' <= budget'[w]

LEMMA LessStaysWithinBudget ==
  ASSUME TypeOK, TypeOK', NEW w, HeldBy(w)' <= HeldBy(w), UsedBy(w)' <= UsedBy(w)
  PROVE  StaysWithinBudget(w)
<1>1. Committed(w) = HeldBy(w) + UsedBy(w) /\ HeldBy(w) \in Nat /\ UsedBy(w) \in Nat
  BY CommittedParts
<1>2. Committed(w)' = HeldBy(w)' + UsedBy(w)' /\ HeldBy(w)' \in Nat /\ UsedBy(w)' \in Nat
  BY CommittedPartsNext
<1> QED
  BY <1>1, <1>2 DEF StaysWithinBudget

\* A step that changes no reservation, no usage and no month.
LEMMA EntriesStayWithinBudget ==
  ASSUME TypeOK, TypeOK', UNCHANGED <<reservation, usage, month>>, ledger \subseteq ledger', NEW w
  PROVE  StaysWithinBudget(w)
<1>1. HeldBy(w)' = HeldBy(w)
  BY DEF HeldBy, SessionsOf
<1>2. HeldBy(w) \in Nat
  BY CommittedParts
<1> QED
  BY <1>1, <1>2, EntriesLowerUsage, LessStaysWithinBudget

\* A step that sets one reservation to no more than the budget allows.
LEMMA ReservationStaysWithinBudget ==
  ASSUME TypeOK, TypeOK', NEW s \in Sessions, NEW r \in Reservation, SetReservation(s, r),
         UNCHANGED <<ledger, usage, budget, month>>,
         \/ HoldOf(r) <= HoldOf(reservation[s])
         \/ WithinBudget(WorldOf[s], HoldOf(r) - HoldOf(reservation[s])),
         NEW w \in Worlds
  PROVE  StaysWithinBudget(w)
<1> DEFINE h == HoldOf(reservation[s])
           n == HoldOf(r)
<1>1. /\ WorldOf[s] = w => HeldBy(w)' = HeldBy(w) - h + n
      /\ WorldOf[s] # w => HeldBy(w)' = HeldBy(w)
      /\ h \in 0 .. MaxAmount /\ n \in 0 .. MaxAmount
  BY ReservationMovesWorld
<1>2. Committed(w) = HeldBy(w) + UsedBy(w) /\ HeldBy(w) \in Nat /\ UsedBy(w) \in Nat
  BY CommittedParts
<1>3. Committed(w)' = HeldBy(w)' + UsedBy(w)
  <2>1. (Committed(w) = HeldBy(w) + UsedBy(w))'
    BY CommittedPartsNext
  <2>2. \A t : CreditsOf(t)' = CreditsOf(t)
    BY DEF CreditsOf
  <2>3. UsedBy(w)' = UsedBy(w)
    BY <2>2 DEF UsedBy, UsedThisMonth, SessionsOf
  <2> QED
    BY <2>1, <2>3
<1>4. h \in Int /\ n \in Int
  BY <1>1, AmountsAssumption
<1>5. budget[w] \in Amounts \cup {None}
  BY DEF TypeOK
<1>6. CASE WorldOf[s] # w
  BY <1>1, <1>2, <1>3, <1>6 DEF StaysWithinBudget
<1>7. CASE WorldOf[s] = w /\ n <= h
  <2> HIDE DEF h, n
  <2> QED
    BY <1>1, <1>2, <1>3, <1>4, <1>7 DEF StaysWithinBudget
<1>8. CASE WorldOf[s] = w /\ ~(n <= h)
  <2>1. n - h > 0 /\ WithinBudget(w, n - h)
    BY <1>4, <1>8
  <2>2. budget[w] # None => Committed(w) + (n - h) <= budget[w]
    BY <2>1 DEF WithinBudget
  <2>3. Committed(w)' = Committed(w) + (n - h)
    BY <1>1, <1>2, <1>3, <1>4, <1>8
  <2> QED
    BY <2>2, <2>3 DEF StaysWithinBudget
<1> QED
  BY <1>6, <1>7, <1>8

\* A capture turns at least as much of the hold into usage as it charges.
LEMMA CaptureStaysWithinBudget ==
  ASSUME TypeOK, TypeOK', NEW s \in Sessions, NEW by \in {"wake", "sleep"},
         NEW n \in 0 .. MaxAmount, CaptureRuntimeUsage(s, by, n), NEW w \in Worlds
  PROVE  StaysWithinBudget(w)
<1> DEFINE h == HoldOf(reservation[s])
           r == [reservation[s] EXCEPT !.status = "captured"]
           f == [t \in UsedThisMonth(w) |-> usage[t].amount - CreditsOf(t)]
           g == [t \in UsedThisMonth(w)' |-> usage'[t].amount - CreditsOf(t)']
<1>1. r \in Reservation /\ HoldOf(r) = 0 /\ SetReservation(s, r) /\ n <= h /\ h \in Int
  BY AmountsAssumption DEF CaptureRuntimeUsage, TypeOK, Reservation, HoldOf
<1>2. /\ WorldOf[s] = w => HeldBy(w)' = HeldBy(w) - h
      /\ WorldOf[s] # w => HeldBy(w)' = HeldBy(w)
  <2>1. HeldBy(w) \in Nat
    BY CommittedParts
  <2> HIDE DEF r
  <2>2. WorldOf[s] = w => HeldBy(w)' = HeldBy(w) - h + 0
    BY <1>1, ReservationMovesWorld
  <2>3. WorldOf[s] # w => HeldBy(w)' = HeldBy(w)
    BY <1>1, ReservationMovesWorld
  <2> HIDE DEF h
  <2> QED
    BY <1>1, <2>1, <2>2, <2>3
<1>3. \A t : CreditsOf(t)' = CreditsOf(t)
  <2>1. ASSUME NEW t PROVE CreditEntries(t)' = CreditEntries(t)
    BY DEF CaptureRuntimeUsage, Append, Entry, CreditEntries
  <2>2. \A t : /\ CreditsOf(t) = Total([e \in CreditEntries(t) |-> e.amount])
               /\ CreditsOf(t)' = Total([e \in CreditEntries(t)' |-> e.amount])
    BY DEF CreditsOf, CreditEntries
  <2> QED
    BY <2>1, <2>2
<1>4. /\ usage' = [usage EXCEPT ![s] = [by |-> by, amount |-> n, month |-> month]]
      /\ usage \in [Sessions -> Usage] /\ UNCHANGED <<month, budget>>
  BY DEF CaptureRuntimeUsage, TypeOK
<1>5. UsedBy(w) = Total(f) /\ UsedBy(w)' = Total(g)
  BY DEF UsedBy
<1>6. IsFiniteSet(DOMAIN f) /\ IsFiniteSet(DOMAIN g)
  <2>1. IsFiniteSet(UsedThisMonth(w))
    BY CommittedParts
  <2>2. IsFiniteSet(UsedThisMonth(w)')
    BY FinitelyMany, FS_Subset DEF UsedThisMonth, SessionsOf
  <2> QED
    BY <2>1, <2>2
<1>7. Committed(w) = HeldBy(w) + UsedBy(w) /\ HeldBy(w) \in Nat /\ UsedBy(w) \in Nat
  BY CommittedParts
<1>8. CASE WorldOf[s] # w
  <2>1. f = g
    BY <1>3, <1>4, <1>8 DEF UsedThisMonth, SessionsOf
  <2> QED
    BY <1>2, <1>5, <1>7, <1>8, <2>1, LessStaysWithinBudget
<1>9. CASE WorldOf[s] = w
  <2>1. s \in DOMAIN g /\ g[s] = n - CreditsOf(s)
    BY <1>3, <1>4, <1>9 DEF UsedThisMonth, SessionsOf
  <2>2. /\ DOMAIN g \ {s} \subseteq DOMAIN f
        /\ \A t \in DOMAIN g \ {s} : g[t] = f[t]
    BY <1>3, <1>4 DEF UsedThisMonth, SessionsOf
  <2>3. CreditsOf(s) \in Nat
    BY CreditsAreNatural DEF TypeOK
  <2>4. g[s] \in Int /\ g[s] <= MaxAmount /\ Positive(g[s]) <= n /\ Positive(g[s]) \in Nat
    BY <2>1, <2>3, AmountsAssumption DEF Positive
  <2> HIDE DEF f, g
  <2>5. Total(g) <= Total(f) + Positive(g[s])
    BY <1>6, <2>1, <2>2, <2>4, TotalGrowsAt
  <2>6. Total(g) \in Nat /\ Total(f) \in Nat
    BY <1>6, TotalIsNatural
  <2>7. (Committed(w) = HeldBy(w) + UsedBy(w))'
    BY CommittedPartsNext
  <2> HIDE DEF h
  <2>8. Committed(w)' <= Committed(w)
    BY <1>1, <1>2, <1>5, <1>7, <1>9, <2>4, <2>5, <2>6, <2>7, AmountsAssumption
  <2>9. Committed(w)' \in Int /\ Committed(w) \in Int
    BY <1>1, <1>2, <1>5, <1>7, <1>9, <2>6, <2>7
  <2> QED
    BY <2>8, <2>9 DEF StaysWithinBudget
<1> QED
  BY <1>8, <1>9

\* A new month begins with nothing used.
LEMMA MonthStaysWithinBudget ==
  ASSUME TypeOK, TypeOK', UsageIsPast, MonthPasses, NEW w
  PROVE  StaysWithinBudget(w)
<1>1. HeldBy(w)' = HeldBy(w)
  BY DEF MonthPasses, snapshot, HeldBy, SessionsOf
<1>2. UsedThisMonth(w)' = {}
  <2>1. ASSUME NEW s \in Sessions PROVE usage'[s].month # month'
    BY UsageIsBounded DEF MonthPasses, snapshot, UsageIsPast
  <2> QED
    BY <2>1 DEF UsedThisMonth, SessionsOf
<1>3. UsedBy(w)' = 0
  <2> DEFINE g == [s \in UsedThisMonth(w)' |-> usage'[s].amount - CreditsOf(s)']
  <2>1. DOMAIN g = {} /\ UsedBy(w)' = Total(g)
    BY <1>2 DEF UsedBy
  <2> HIDE DEF g
  <2> QED
    BY <2>1, TotalOfNothing
<1>4. HeldBy(w) \in Nat /\ UsedBy(w) \in Nat
  BY CommittedParts
<1> QED
  BY <1>1, <1>3, <1>4, LessStaysWithinBudget

\* Payments touch neither reservations nor usage, and only add entries.
LEMMA PaymentsLeaveSessions ==
  ASSUME TInv, Payments
  PROVE  UNCHANGED <<reservation, usage, month, budget>> /\ ledger \subseteq ledger'
<1> DEFINE Goal == UNCHANGED <<reservation, usage, month, budget>> /\ ledger \subseteq ledger'
<1>1. ASSUME UNCHANGED <<snapshot, month>> PROVE Goal
  BY <1>1 DEF snapshot
<1>2. ASSUME NEW c, NEW status, SetStatus(c, status), UNCHANGED month PROVE Goal
  BY <1>2 DEF SetStatus
<1>3. ASSUME NEW c \in Contributions, NEW source,
             NEW kind \in {"completed", "refunded", "disputed"},
             ProcessPaymentEvent(source, kind, c), UNCHANGED month
      PROVE  Goal
  <2>1. UNCHANGED <<reservation, usage, budget>>
    BY <1>3 DEF ProcessPaymentEvent
  <2>2. ledger \subseteq ledger'
    BY <1>3, EventSteps DEF TInv, Credits, MarksStatus, Compensates, Append
  <2> QED
    BY <1>3, <2>1, <2>2
<1> HIDE DEF Goal
<1>4. ASSUME NEW kind \in {"completed", "refunded", "disputed"}, NEW c \in Contributions,
             ReceiveWebhook(kind, c)
      PROVE  Goal
  BY <1>3, <1>4 DEF ReceiveWebhook
<1>5. ASSUME NEW p \in Callers, NEW c \in Contributions,
             CreateContribution(p, c) \/ RequestRefund(p, c) \/ ReadCheckout(p, c)
      PROVE  Goal
  BY <1>1, <1>2, <1>5 DEF CreateContribution, RequestRefund, ReadCheckout
<1>6. ASSUME NEW p \in Callers, \/ CreateCheckout(p) \/ AttachCheckout(p)
                                \/ RefundCheckout(p) \/ RecordRefund(p) \/ CallEnds(p)
      PROVE  Goal
  BY <1>1, <1>2, <1>6
  DEF CreateCheckout, AttachCheckout, RefundCheckout, RecordRefund, CallEnds
<1>7. ASSUME NEW p \in Callers, Reconcile(p) PROVE Goal
  <2> DEFINE c == caller[p].of
  <2>1. c \in Contributions
    BY <1>7 DEF Reconcile, TInv, CallsHaveContribution
  <2>2. /\ UNCHANGED month
        /\ \/ SetStatus(c, "pending")
           \/ ProcessPaymentEvent("reconcile", "completed", c)
           \/ ProcessPaymentEvent("reconcile", "refunded", c)
    BY <1>7 DEF Reconcile
  <2> HIDE DEF c
  <2> QED
    BY <1>2, <1>3, <2>1, <2>2
<1>8. ASSUME NEW c \in Contributions, Pay(c) \/ ReturnPayment(c) PROVE Goal
  BY <1>1, <1>8 DEF Pay, ReturnPayment
<1> QED
  BY <1>4, <1>5, <1>6, <1>7, <1>8 DEF Payments, Goal

LEMMA StepsStayWithinBudget ==
  ASSUME TInv, TInv', UsageIsPast, [Next]_vars, NEW w \in Worlds
  PROVE  StaysWithinBudget(w)
<1>0. TypeOK /\ TypeOK'
  BY DEF TInv
<1>1. CASE UNCHANGED vars
  BY <1>0, <1>1, EntriesStayWithinBudget DEF vars, snapshot
<1>2. CASE Payments
  BY <1>0, <1>2, PaymentsLeaveSessions, EntriesStayWithinBudget
<1>3. ASSUME NEW s \in Sessions, NEW n \in Amounts, Reserve(s, n) PROVE StaysWithinBudget(w)
  <2> DEFINE r == [status |-> "active", amount |-> n]
  <2>1. r \in Reservation /\ HoldOf(r) = n /\ n - 0 = n
    BY AmountsAreNatural DEF Reservation, HoldOf
  <2>2. HoldOf(reservation[s]) = 0
    BY <1>3 DEF Reserve, HoldOf
  <2>3. /\ SetReservation(s, r) /\ WithinBudget(WorldOf[s], n)
        /\ UNCHANGED <<ledger, usage, budget, month>>
    BY <1>3 DEF Reserve
  <2> HIDE DEF r
  <2> QED
    BY <1>0, <2>1, <2>2, <2>3, ReservationStaysWithinBudget
<1>4. ASSUME NEW s \in Sessions, NEW n \in Amounts, ProtectActiveSession(s, n)
      PROVE  StaysWithinBudget(w)
  <2> DEFINE r == [status |-> "active", amount |-> n]
             h == reservation[s].amount
  <2>1. r \in Reservation /\ HoldOf(r) = n /\ HoldOf(reservation[s]) = h /\ n \in Int /\ h \in Int
    BY <1>0, <1>4, AmountsAreNatural
    DEF ProtectActiveSession, Reservation, HoldOf, TypeOK
  <2>2. SetReservation(s, r) /\ UNCHANGED <<ledger, usage, budget, month>>
    BY <1>4 DEF ProtectActiveSession
  <2>3. n <= h \/ WithinBudget(WorldOf[s], n - h)
    BY <1>4, <2>1 DEF ProtectActiveSession
  <2> HIDE DEF r, h
  <2> QED
    BY <1>0, <2>1, <2>2, <2>3, ReservationStaysWithinBudget
<1>5. ASSUME NEW s \in Sessions, ReleaseReservation(s) PROVE StaysWithinBudget(w)
  <2> DEFINE r == [reservation[s] EXCEPT !.status = "released"]
  <2>1. r \in Reservation /\ HoldOf(r) = 0 /\ 0 <= HoldOf(reservation[s])
    BY <1>0, AmountsAreNatural DEF Reservation, HoldOf, TypeOK
  <2>2. SetReservation(s, r) /\ UNCHANGED <<ledger, usage, budget, month>>
    BY <1>5 DEF ReleaseReservation
  <2> HIDE DEF r
  <2> QED
    BY <1>0, <2>1, <2>2, ReservationStaysWithinBudget
<1>6. ASSUME NEW s \in Sessions, NEW by \in {"wake", "sleep"}, NEW n \in 0 .. MaxAmount,
             CaptureRuntimeUsage(s, by, n)
      PROVE  StaysWithinBudget(w)
  BY <1>0, <1>6, CaptureStaysWithinBudget
<1>7. ASSUME NEW type, NEW ref, NEW source, NEW n, CreditWallet(type, ref, source, n)
      PROVE  StaysWithinBudget(w)
  BY <1>0, <1>7, EntriesStayWithinBudget DEF CreditWallet, Append
<1>8. CASE \/ \E s \in Sessions : ApplyWakeGuarantee(s)
           \/ \E s \in Sessions, outage \in Outages, n \in Amounts :
                ApplyAvailabilityCredit(s, outage, n)
           \/ \E ticket \in Tickets, n \in Amounts : ApplySupportCredit(ticket, n)
  BY <1>7, <1>8 DEF ApplyWakeGuarantee, ApplyAvailabilityCredit, ApplySupportCredit
<1>9. ASSUME NEW n \in Amounts, ChargeMonthlyStorage(n) PROVE StaysWithinBudget(w)
  BY <1>0, <1>9, EntriesStayWithinBudget DEF ChargeMonthlyStorage, Append
<1>10. ASSUME NEW v \in Worlds, NEW n \in Amounts, SetWorldBudget(v, n)
       PROVE  StaysWithinBudget(w)
  BY <1>0, <1>10, EntriesStayWithinBudget DEF SetWorldBudget
<1>11. CASE MonthPasses
  BY <1>0, <1>11, MonthStaysWithinBudget
<1>12. CASE SessionBilling
  BY <1>3, <1>4, <1>5, <1>6, <1>8, <1>9, <1>10, <1>11, <1>12 DEF SessionBilling
<1> QED
  BY <1>1, <1>2, <1>12 DEF Next

\* Usage is recorded in the month it is captured, and months only pass.
LEMMA UsageStaysPast == TInv /\ UsageIsPast /\ [Next]_vars => UsageIsPast'
<1> SUFFICES ASSUME TInv, UsageIsPast, [Next]_vars PROVE UsageIsPast'
  OBVIOUS
<1>0. TypeOK
  BY DEF TInv
<1>1. CASE UNCHANGED <<usage, month>>
  BY <1>1 DEF UsageIsPast
<1>2. ASSUME NEW s \in Sessions, NEW by \in {"wake", "sleep"}, NEW n \in 0 .. MaxAmount,
             CaptureRuntimeUsage(s, by, n)
      PROVE  UsageIsPast'
  <2>1. /\ usage' = [usage EXCEPT ![s] = [by |-> by, amount |-> n, month |-> month]]
        /\ month' = month /\ month \in Nat /\ usage \in [Sessions -> Usage]
    BY <1>0, <1>2, AmountsAssumption DEF CaptureRuntimeUsage, TypeOK, Months
  <2> QED
    BY <2>1 DEF UsageIsPast
<1>3. CASE MonthPasses
  <2>1. month' = month + 1 /\ usage' = usage
    BY <1>3 DEF MonthPasses, snapshot
  <2>2. \A s \in Sessions : usage[s].month \in Nat /\ month \in Nat
    BY <1>0, UsageIsBounded
  <2> QED
    BY <2>1, <2>2 DEF UsageIsPast
<1>4. CASE Payments
  BY <1>1, <1>4, PaymentsLeaveSessions
<1>5. CASE SessionBilling
  BY <1>1, <1>2, <1>3, <1>5
  DEF SessionBilling, Reserve, ProtectActiveSession, ReleaseReservation, ApplyWakeGuarantee,
      ApplyAvailabilityCredit, ApplySupportCredit, CreditWallet, ChargeMonthlyStorage,
      SetWorldBudget
<1>6. CASE UNCHANGED vars
  BY <1>1, <1>6 DEF vars, snapshot
<1> QED
  BY <1>4, <1>5, <1>6 DEF Next

\* Reservations, their extensions, captures and credits of all sessions of a World, in any
\* order, never take it further beyond the month's budget.
THEOREM CommitmentsStayInBudget == Spec => BudgetBoundsCommitments
<1>1. Init => UsageIsPast
  BY AmountsAssumption DEF Init, UsageIsPast
<1>2. Spec => []UsageIsPast
  BY <1>1, UsageStaysPast, TypesAreInductive, PTL DEF Spec
<1> DEFINE Kept ==
      \A w \in Worlds : budget'[w] # None /\ Committed(w)' > Committed(w) =>
        Committed(w)' <= budget'[w]
<1>3. TInv /\ TInv' /\ UsageIsPast /\ [Next]_vars => Kept
  BY StepsStayWithinBudget DEF StaysWithinBudget
<1> QED
  BY <1>2, <1>3, TypesAreInductive, PTL DEF Spec, BudgetBoundsCommitments
===============================================================================
