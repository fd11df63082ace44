------------------------------ MODULE Delivery ------------------------------
(***************************************************************************)
(* What the reminder tables promise: a scheduled reminder is attempted at  *)
(* most once, during that attempt a device is pushed at most once, and a   *)
(* cancelled reminder is never attempted.  An attempt whose server died    *)
(* stays an attempt: it is never scheduled again.                          *)
(* Reminder.tla implements this specification.                             *)
(***************************************************************************)
EXTENDS Naturals

CONSTANTS Items,     \* confirmed tasks, each with its one reminder
          Endpoints  \* devices

VARIABLES phase,     \* phase[i]: how far the reminder of i is
          pushes     \* pushes[i][e]: pushes to e since i was last scheduled

Phases == {"none", "scheduled", "attempted", "settled", "cancelled"}

NoPushes == [e \in Endpoints |-> 0]

Init ==
    /\ phase = [i \in Items |-> "none"]
    /\ pushes = [i \in Items |-> NoPushes]

Schedule(i) ==
    /\ phase[i] \in {"none", "scheduled", "settled"}
    /\ phase' = [phase EXCEPT ![i] = "scheduled"]
    /\ pushes' = [pushes EXCEPT ![i] = NoPushes]

Attempt(i) ==
    /\ phase[i] = "scheduled"
    /\ phase' = [phase EXCEPT ![i] = "attempted"]
    /\ UNCHANGED pushes

Push(i, e) ==
    /\ phase[i] = "attempted"
    /\ pushes[i][e] = 0
    /\ pushes' = [pushes EXCEPT ![i][e] = 1]
    /\ UNCHANGED phase

Settle(i) ==
    /\ phase[i] = "attempted"
    /\ phase' = [phase EXCEPT ![i] = "settled"]
    /\ UNCHANGED pushes

Cancel(i) ==
    /\ phase[i] = "scheduled"
    /\ phase' = [phase EXCEPT ![i] = "cancelled"]
    /\ UNCHANGED pushes

Next ==
    \E i \in Items :
        \/ Schedule(i)
        \/ Attempt(i)
        \/ \E e \in Endpoints : Push(i, e)
        \/ Settle(i)
        \/ Cancel(i)

Spec == Init /\ [][Next]_<<phase, pushes>>
=============================================================================
