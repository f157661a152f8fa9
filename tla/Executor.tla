------------------------------- MODULE Executor -------------------------------
(***************************************************************************)
(* The contract of the trait VmmExecutor (src/src/executor/mod.rs), as its *)
(* two sides rely on it: prepare and cleanup happen at once or not at all. *)
(* A caller awaits one call at a time and cleans up what was prepared; an  *)
(* executor that returned Ok has all of the environment, or nothing of it, *)
(* in place, and leaves it alone until the next call.                      *)
(***************************************************************************)

VARIABLES
    call,      \* the call in flight, "prepare" or "cleanup", or "none"
    env,       \* "ready", "absent", or "partial", of which nothing is promised
    prepared,  \* the last prepare has succeeded
    spoiled    \* a caller has broken the rules, and nothing is promised any more

contractVars == <<call, env, prepared, spoiled>>

Init == call = "none" /\ env = "absent" /\ prepared = FALSE /\ spoiled = FALSE

\* A call may touch the environment at once, or later.
Touched == env' \in {env, "partial"}

Prepare == call = "none" /\ call' = "prepare" /\ prepared' = FALSE /\ Touched

Cleanup == call = "none" /\ prepared /\ call' = "cleanup" /\ Touched /\ UNCHANGED prepared

Work == call # "none" /\ env' = "partial" /\ UNCHANGED <<call, prepared>>

PrepareOk == call = "prepare" /\ call' = "none" /\ env' = "ready" /\ prepared' = TRUE

CleanupOk == call = "cleanup" /\ call' = "none" /\ env' = "absent" /\ UNCHANGED prepared

\* The call returns an error, or its future is dropped.
Fail == call # "none" /\ call' = "none" /\ Touched /\ UNCHANGED prepared

Honour == Prepare \/ Cleanup \/ Work \/ PrepareOk \/ CleanupOk \/ Fail

Next == (Honour /\ UNCHANGED spoiled) \/ spoiled'

Spec == Init /\ [][Next]_contractVars

=============================================================================
