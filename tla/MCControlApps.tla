--------------------------- MODULE MCControlApps ---------------------------
(* Values for the constants of ControlApps.                                *)
EXTENDS ControlApps

CONSTANTS unset

Lifecycle(on, skip, pause, stop) ==
    [alwaysOn |-> on, skipPause |-> skip, idleForPause |-> pause, idleForStop |-> stop]

(* One app of each kind, and two that the validator refuses.               *)
SomeLifecycles ==
    [a \in Apps |->
        {Lifecycle(TRUE, FALSE, unset, unset), Lifecycle(FALSE, TRUE, unset, unset),
         Lifecycle(FALSE, FALSE, unset, unset), Lifecycle(FALSE, FALSE, 1, unset),
         Lifecycle(TRUE, TRUE, unset, unset), Lifecycle(FALSE, FALSE, 2, 1)}]

(* Apps without idle times of their own: one that is used and may be       *)
(* demoted, and one of any of the three kinds.                             *)
PlainLifecycles ==
    [a \in Apps |->
        {Lifecycle(FALSE, FALSE, unset, unset), Lifecycle(FALSE, TRUE, unset, unset)} \cup
        (IF a \in Used THEN {} ELSE {Lifecycle(TRUE, FALSE, unset, unset)})]

AnyStatus == Revivable \cup Stuck

Small == [a \in Apps |-> 1]
=============================================================================
