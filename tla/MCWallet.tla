------------------------------- MODULE MCWallet -------------------------------
(***************************************************************************)
(* Model-checking instances of Wallet: one about payments, one about       *)
(* sessions and budgets.                                                   *)
(***************************************************************************)
EXTENDS Wallet, TLC

\* Every contribution pays the largest amount.
PriceMax == [c \in Contributions |-> MaxAmount]
PriceOne == [c \in Contributions |-> 1]
\* The sessions share one World.
OneWorld == [s \in Sessions |-> CHOOSE w \in Worlds : TRUE]

\* Bound of the runs about payments: no World has a budget.
NoBudgets == \A w \in Worlds : budget[w] = None

ContributionSymmetry == Permutations(Contributions)
SessionSymmetry == Permutations(Sessions)
===============================================================================
