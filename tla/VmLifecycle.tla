----------------------------- MODULE VmLifecycle -----------------------------
(***************************************************************************)
(* What a Vm promises, as its users read it in the comments of VmState     *)
(* (src/src/vm/mod.rs): a VM is prepared, boots once, may be paused and    *)
(* resumed, ends for good, and is cleaned up only after it has ended.      *)
(***************************************************************************)

VARIABLES
    vm,   \* "Absent" until prepare has succeeded, "Lost" if it never will
    env   \* the environment on the host: "absent", "partial" or "ready"

lifecycleVars == <<vm, env>>

Ended == {"Exited", "Crashed"}

Init == vm = "Absent" /\ env = "absent"

\* The environment is built while there is no Vm yet.
Build == vm = "Absent" /\ env' = "partial" /\ UNCHANGED vm
Complete == vm = "Absent" /\ env' = "ready" /\ UNCHANGED vm

Create == vm = "Absent" /\ env = "ready" /\ vm' = "NotStarted" /\ UNCHANGED env
Lose == vm = "Absent" /\ vm' = "Lost" /\ UNCHANGED env

Boot == vm = "NotStarted" /\ vm' = "Running" /\ UNCHANGED env
Pause == vm = "Running" /\ vm' = "Paused" /\ UNCHANGED env
Resume == vm = "Paused" /\ vm' = "Running" /\ UNCHANGED env

\* A VMM may be dead by the time its launch is noticed.
End ==
    /\ vm \in {"NotStarted", "Running", "Paused"}
    /\ vm' \in Ended
    /\ UNCHANGED env

\* A cleanup may stop half-way.
CleanUp == vm \in Ended /\ env' \in {"partial", "absent"} /\ UNCHANGED vm

Next == Build \/ Complete \/ Create \/ Lose \/ Boot \/ Pause \/ Resume \/ End \/ CleanUp

Spec == Init /\ [][Next]_lifecycleVars

=============================================================================
