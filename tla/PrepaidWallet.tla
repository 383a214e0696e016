----------------------------- MODULE PrepaidWallet -----------------------------
(***************************************************************************)
(* What a prepaid Wallet promises, without ledger, payments, sessions or   *)
(* budgets: money leaves it only out of what is available or out of what   *)
(* was held before, and while funding is under review nothing is           *)
(* available.                                                              *)
(***************************************************************************)
EXTENDS Integers

CONSTANT Moves  \* the amounts, zero included, that one step can move

VARIABLES
  balance,  \* what the ledger adds up to
  held,     \* the part of it that is held for sessions
  frozen    \* funding is under review

vars == <<balance, held, frozen>>

Init == balance = 0 /\ held = 0 /\ frozen = FALSE

Available == IF frozen THEN 0 ELSE balance - held

\* A payment or a compensation arrives; settling a review may come with it.
Deposit(n) == balance' = balance + n /\ frozen' \in BOOLEAN /\ UNCHANGED held
Review == frozen' \in BOOLEAN /\ UNCHANGED <<balance, held>>

Withdraw(n) == n <= Available /\ balance' = balance - n /\ UNCHANGED <<held, frozen>>
Hold(n) == n <= Available /\ held' = held + n /\ UNCHANGED <<balance, frozen>>
Return(n) == n <= held /\ held' = held - n /\ UNCHANGED <<balance, frozen>>

\* A held amount is settled by a charge that it covers.
Settle(h, n) ==
  /\ n <= h /\ h <= held
  /\ held' = held - h /\ balance' = balance - n
  /\ UNCHANGED frozen

Next ==
  \/ Review
  \/ \E n \in Moves : Deposit(n) \/ Withdraw(n) \/ Hold(n) \/ Return(n)
  \/ \E h, n \in Moves : Settle(h, n)

Spec == Init /\ [][Next]_vars
===============================================================================
