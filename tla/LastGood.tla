------------------------------- MODULE LastGood -------------------------------
(***************************************************************************)
(* What a publication controller promises for each supersession group: the *)
(* group shows what it showed last until the latest intent has produced    *)
(* something, and nothing that was superseded or released is ever shown.   *)
(***************************************************************************)
EXTENDS Naturals

CONSTANT Groups

VARIABLES
    wanted,  \* the latest intent of each group that has not been released, or 0
    shown    \* the intent whose result each group shows, or 0

vars == <<wanted, shown>>

Init ==
    /\ wanted = [g \in Groups |-> 0]
    /\ shown = [g \in Groups |-> 0]

\* Intents are numbered in the order in which they are formed.
Want(g) ==
    /\ wanted'[g] \in Nat
    /\ \A h \in Groups : wanted'[g] > wanted[h] /\ wanted'[g] > shown[h]
    /\ wanted' = [wanted EXCEPT ![g] = wanted'[g]]
    /\ UNCHANGED shown

Show(g) ==
    /\ wanted[g] > shown[g]
    /\ shown' = [shown EXCEPT ![g] = wanted[g]]
    /\ UNCHANGED wanted

Release(g) ==
    /\ wanted' = [wanted EXCEPT ![g] = 0]
    /\ shown' = [shown EXCEPT ![g] = 0]

Close ==
    /\ wanted' = [g \in Groups |-> 0]
    /\ shown' = [g \in Groups |-> 0]

Next == Close \/ \E g \in Groups : Want(g) \/ Show(g) \/ Release(g)

Spec == Init /\ [][Next]_vars
=============================================================================
