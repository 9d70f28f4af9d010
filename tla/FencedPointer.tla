---------------------------- MODULE FencedPointer ----------------------------
(***************************************************************************)
(* What a reservation promises about the current-generation pointer of an  *)
(* identity: fences are given out in increasing order, and a pointer is    *)
(* set only under the fence given out last for it.                         *)
(***************************************************************************)
EXTENDS Naturals

CONSTANTS Identities, Instances, None

VARIABLES
    granted,    \* the fence last given out for each identity
    committed,  \* the fence under which its pointer was last set
    current     \* the pointer

vars == <<granted, committed, current>>

Init ==
    /\ granted = [i \in Identities |-> 0]
    /\ committed = [i \in Identities |-> 0]
    /\ current = [i \in Identities |-> None]

\* A fence is larger than every fence given out before, for any identity.
Grant(i) ==
    /\ granted'[i] \in Nat
    /\ \A j \in Identities : granted'[i] > granted[j]
    /\ granted' = [granted EXCEPT ![i] = granted'[i]]
    /\ UNCHANGED <<committed, current>>

Commit(i) ==
    /\ granted[i] # 0
    /\ \E instance \in Instances : current' = [current EXCEPT ![i] = instance]
    /\ committed' = [committed EXCEPT ![i] = granted[i]]
    /\ UNCHANGED granted

\* Retention or recovery empties pointers.
Clear ==
    /\ \E evicted \in SUBSET Identities :
           current' = [i \in Identities |-> IF i \in evicted THEN None ELSE current[i]]
    /\ UNCHANGED <<granted, committed>>

Next == Clear \/ \E i \in Identities : Grant(i) \/ Commit(i)

Spec == Init /\ [][Next]_vars
=============================================================================
