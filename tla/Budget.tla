------------------------------- MODULE Budget -------------------------------
(***************************************************************************)
(* The daily cap on delivery (detection/budget.py).  Left out: forgetting  *)
(* past days once 4,096 (server, day) counts are held, eleven years of one *)
(* server.                                                                 *)
(***************************************************************************)
EXTENDS Alerts

CONSTANT DailyBudget

ASSUME BudgetIsNatural == DailyBudget \in Nat

VARIABLE spent   \* day |-> alerts delivered on it

Days == {Day(ts) : ts \in Time}

BudgetTypeOK == spent \in [Days -> Nat]

BudgetInit == spent = [d \in Days |-> 0]

\* BudgetDecision.DELIVER
Spend(al) ==
    /\ spent[Day(al.ts)] < DailyBudget
    /\ spent' = [spent EXCEPT ![Day(al.ts)] = @ + 1]

\* BudgetDecision.DIGEST
OverBudget(al) ==
    /\ spent[Day(al.ts)] >= DailyBudget
    /\ UNCHANGED spent
=============================================================================
