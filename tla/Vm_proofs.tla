------------------------------- MODULE Vm_proofs -------------------------------
(***************************************************************************)
(* Proofs about Vm, for any number of launches and any bounds on the list  *)
(* given to shutdown.                                                      *)
(*                                                                         *)
(* A Vm only touches its process through the methods of VmmProcess, so it  *)
(* implements VmmProcess under the identity mapping and inherits what      *)
(* VmmProcess_proofs proves.  What shutdown promises needs an invariant of *)
(* its own, which leans on the inherited one.                              *)
(***************************************************************************)
EXTENDS Vm, VmmProcess_proofs

-----------------------------------------------------------------------------
\* A step of a Vm is a step of its process, or leaves the process alone.
LEMMA VmNextIsNext == [VmNext]_vmVars => [Next]_vars
<1> SUFFICES ASSUME [VmNext]_vmVars
             PROVE  [Next]_vars
  OBVIOUS
<1> USE DEF Next, CallStart, CallStep
<1>1. CASE VmPrepare \/ VmPrepared \/ VmPrepareFiles
  BY <1>1 DEF VmPrepare, VmPrepared, VmPrepareFiles
<1>2. ASSUME NEW op \in VmMethods, VmRefuse(op)
      PROVE  Next
  BY <1>2 DEF VmRefuse
<1>3. CASE Start \/ StartAgain \/ StartFiles \/ StartInvoke
  BY <1>3 DEF Start, StartAgain, StartFiles, StartInvoke
<1>4. CASE StartSocket \/ StartTimeout
  BY <1>4 DEF StartSocket, StartTimeout
<1>5. CASE StartNext
  BY <1>5 DEF StartNext, Send, Methods
<1>6. CASE InitAnswered \/ InitFails
  BY <1>6 DEF InitAnswered, InitFails, Answered, RequestFails, Broken
<1>7. ASSUME NEW t \in ApiTask, ApiCall(t)
      PROVE  Next
  BY <1>7 DEF ApiCall, Send
<1>8. CASE SocketOwned \/ Serve
  BY <1>8 DEF SocketOwned, Serve
<1>9. CASE PauseAnswered \/ CustomAnswered \/ CustomBroken \/ OtherAnswered \/ ApiCallFails
  BY <1>9 DEF PauseAnswered, CustomAnswered, CustomBroken, OtherAnswered, ApiCallFails,
              Answered, RequestFails, Broken
<1>10. CASE Shutdown
  BY <1>10 DEF Shutdown
<1>11. CASE TryCtrlAltDel \/ TryPause \/ TryKill
  BY <1>11 DEF TryCtrlAltDel, TryPause, TryKill, Send, Methods
<1>12. CASE CtrlAltDelAnswered \/ ShutdownPauseAnswered \/ ShutdownRequestFails
  BY <1>12 DEF CtrlAltDelAnswered, ShutdownPauseAnswered, ShutdownRequestFails,
               Answered, RequestFails, Broken
<1>13. CASE ShutdownWait \/ ShutdownWaitFails \/ ShutdownTimeout \/ ShutdownEnd
  BY <1>13 DEF ShutdownWait, ShutdownWaitFails, ShutdownTimeout, ShutdownEnd, Methods
<1>14. CASE VmTakePipes \/ VmCleanup \/ VmCleanedUp
  BY <1>14 DEF VmTakePipes, VmCleanup, VmCleanedUp
<1>15. CASE VmCancel
  BY <1>15 DEF VmCancel
<1>16. CASE GuestStep \/ VmHostStep
  BY <1>16 DEF GuestStep, VmHostStep
<1>17. CASE Dropped \/ UNCHANGED vmVars
  BY <1>17 DEF Dropped, vmVars
<1> QED
  BY <1>1, <1>2, <1>3, <1>4, <1>5, <1>6, <1>7, <1>8, <1>9, <1>10, <1>11, <1>12, <1>13,
     <1>14, <1>15, <1>16, <1>17 DEF VmNext

\* Every behaviour of a Vm is one of its VmmProcess.
THEOREM VmImplementsProcess == VmSpec => SafetySpec
<1>1. VmInit => Init
  BY DEF VmInit
<1> QED
  BY <1>1, VmNextIsNext, PTL DEF VmSpec, SafetySpec

\* Whatever the methods of a Vm do, fail at or leave half-done when they are
\* dropped, a VMM only lives in a complete environment.
THEOREM VmLivesInReadyEnv == VmSpec => []VmmInReadyEnv
  BY VmImplementsProcess, InductiveInvariant, IInvImplies, PTL

\* ... and there is at most one of it.
THEOREM VmHasOneVmm == VmSpec => []OneVmm
  BY VmImplementsProcess, InductiveInvariant, IInvImplies, PTL

\* take_pipes, send_sigkill and wait_for_exit find the Child they expect, whichever of the
\* methods of a Vm has called them.
THEOREM VmFindsItsChild == VmSpec => []ChildExpectHolds
  BY VmImplementsProcess, InductiveInvariant, IInvImplies, PTL

\* A Vm that has ended does not come back to life, whatever its cleanup, shutdown or late
\* requests do.
THEOREM VmEndIsFinal == VmSpec => ExitIsFinal
  BY VmImplementsProcess, ExitIsKept, PTL

\* A shutdown that was dropped while it waited has closed stdin; take_pipes of the Vm loses
\* no output by it.
THEOREM VmDeliversOutputPipes == VmSpec => OutputPipesDelivered
  BY VmImplementsProcess, PipesAreKept, PTL

\* A Vm calls its executor as the contract allows: prepare and start, cleanup after an end,
\* and no two at once, whichever of its own steps failed in between.
THEOREM VmKeepsContract == VmSpec => Contract!Spec
  BY VmImplementsProcess, ContractIsKept, PTL

-----------------------------------------------------------------------------
ShutdownTask == {"shutdown", "shutdown_ctrl", "shutdown_pause", "shutdown_kill",
                 "shutdown_wait"}
ShutdownOk == [op |-> "shutdown", res |-> "Ok"]

(***************************************************************************)
(* What ShutdownOkMeansDead rests on: shutdown is only at work on a        *)
(* process that was launched.  Between two methods, either the last one    *)
(* has failed, or none was tried yet and the process was only asked for    *)
(* its state, which is what an empty list leaves it at.                    *)
(***************************************************************************)
ShutdownInv ==
    /\ task \in ShutdownTask => child # NoPid /\ vmReply # ShutdownOk
    /\ task = "shutdown" => (lastResult = "Err" \/ (call = "none" /\ NothingTried))
    /\ vmReply = ShutdownOk => /\ task = "none" /\ call = "none" /\ child # NoPid
                               /\ os[child] \in Dead \/ WaitFailed \/ NothingTried

\* A launched process keeps its Child, and a dead one stays dead.
LEMMA ChildIsKept ==
  ASSUME IInv, [Next]_vars, child # NoPid
  PROVE  child' = child /\ (os[child] \in Dead => os'[child] \in Dead)
<1> USE NoPidAssumption DEF IInv, TypeOK, OsStatus, Dead
<1>1. state \notin {"AwaitingPrepare", "AwaitingStart"} /\ child \in Pid
  BY DEF ChildTracksState
<1>2. call \notin {"prepare", "invoke", "spawned"}
  BY <1>1 DEF CallMatchesState
<1>3. CASE SendSigkill
  BY <1>3 DEF SendSigkill, Enter, Allowed, Observed, ChildExpected
<1>4. CASE CallStart /\ ~SendSigkill
  BY <1>4 DEF CallStart, QueryState, Prepare, Invoke, SendApiRequest, TakePipes, WaitForExit,
              Cleanup, Refuse, Enter, ChildExpected, hostVars
<1>5. CASE CallStep
  BY <1>2, <1>5 DEF CallStep, PrepareProgress, PrepareOk, PrepareErr, Spawn, InvokeOk,
      InvokeErr, ChownOk, ChownErr, RequestDone, WaitDone, WaitFails, CleanupProgress, CleanupOk,
      CleanupErr, Cancel, selfVars, hostVars
<1>6. CASE HostStep
  BY <1>1, <1>6 DEF HostStep, VmmExit, ShellExit, Killed, selfVars
<1>7. CASE UNCHANGED vars
  BY <1>7 DEF vars, selfVars, hostVars
<1> QED
  BY <1>3, <1>4, <1>5, <1>6, <1>7 DEF Next

\* Every step preserves ShutdownInv.
LEMMA NextShutdownInv ==
  ASSUME IInv, ShutdownInv, [VmNext]_vmVars
  PROVE  ShutdownInv'
<1>1. child # NoPid => child' = child /\ (os[child] \in Dead => os'[child] \in Dead)
  BY VmNextIsNext, ChildIsKept
\* What a step may do to the method in flight: end or pass by shutdown, leave it
\* alone, or go on with it.
<1>2. ASSUME task' \notin ShutdownTask, vmReply' # ShutdownOk
      PROVE  ShutdownInv'
  BY <1>1, <1>2 DEF ShutdownInv, ShutdownTask
<1>3. ASSUME UNCHANGED taskVars,
             \/ call # "none"
             \/ UNCHANGED <<call, reply>>
             \/ task \notin {"none", "shutdown"}
      PROVE  ShutdownInv'
  <2>1. CASE task \notin {"none", "shutdown"}
    BY <1>1, <1>3, <2>1 DEF ShutdownInv, ShutdownTask, taskVars
  <2>2. CASE call # "none" \/ UNCHANGED <<call, reply>>
    BY <1>1, <1>3, <2>2 DEF ShutdownInv, ShutdownTask, taskVars, WaitFailed, NothingTried
  <2> QED
    BY <1>3, <2>1, <2>2
<1>4. ASSUME task \in ShutdownTask, task' \in ShutdownTask, vmReply' # ShutdownOk,
             task' = "shutdown" => lastResult' = "Err"
      PROVE  ShutdownInv'
  BY <1>1, <1>4 DEF ShutdownInv
<1>5. ASSUME task \in ShutdownTask, MethodFails
      PROVE  ShutdownInv'
  BY <1>4, <1>5 DEF MethodFails, ShutdownTask, ShutdownInv
<1>6. ASSUME task \in ShutdownTask,
             NEW t \in {"shutdown_ctrl", "shutdown_pause", "shutdown_kill", "shutdown_wait"},
             GoTo(t)
      PROVE  ShutdownInv'
  BY <1>4, <1>6 DEF GoTo, NoReply, ShutdownTask, ShutdownOk
<1>7. ASSUME task \in ShutdownTask, UNCHANGED <<child, os>>, call' = "none",
             Return("shutdown", "Ok"),
             os[child] \in Dead \/ WaitFailed' \/ NothingTried'
      PROVE  ShutdownInv'
  BY <1>7 DEF ShutdownInv, Return, Leave, ShutdownTask
<1> USE DEF ShutdownTask, ShutdownOk, Return, Leave, GoTo, VmReply, NoReply
<1>8. CASE VmPrepare \/ VmPrepared \/ VmPrepareFiles
  BY <1>2, <1>3, <1>8 DEF VmPrepare, VmPrepared, VmPrepareFiles
<1>9. ASSUME NEW op \in VmMethods, VmRefuse(op)
      PROVE  ShutdownInv'
  BY <1>2, <1>9 DEF VmRefuse
<1>10. CASE Start \/ StartAgain \/ StartFiles \/ StartInvoke \/ StartSocket \/ StartTimeout
  BY <1>2, <1>3, <1>10 DEF Start, StartAgain, StartFiles, StartInvoke, StartSocket,
                           StartTimeout, ShutdownInv
<1>11. CASE StartNext
  BY <1>2, <1>11 DEF StartNext, Send, ShutdownInv
<1>12. CASE InitAnswered \/ InitFails
  BY <1>2, <1>12 DEF InitAnswered, InitFails, ShutdownInv
<1>13. ASSUME NEW t \in ApiTask, ApiCall(t)
      PROVE  ShutdownInv'
  BY <1>2, <1>13 DEF ApiCall, Send, ApiTask
<1>14. CASE SocketOwned \/ Serve \/ GuestStep \/ VmHostStep \/ Dropped \/ UNCHANGED vmVars
  <2>1. UNCHANGED taskVars /\ (call # "none" \/ UNCHANGED <<call, reply>>)
    BY <1>14 DEF SocketOwned, ChownOk, Serve, GuestStep, VmHostStep, HostStep, VmmExit,
                 ShellExit, Killed, Dropped, vmVars, vars, selfVars, callVars
  <2> QED
    BY <1>3, <2>1
<1>15. CASE PauseAnswered \/ CustomAnswered \/ CustomBroken \/ OtherAnswered \/ ApiCallFails
  BY <1>2, <1>15 DEF PauseAnswered, CustomAnswered, CustomBroken, OtherAnswered, ApiCallFails
<1>16. CASE Shutdown
  <2>1. state' = "Started" /\ child' = child
    BY <1>16 DEF Shutdown, VmEnter, VmState, VmAllowed, QueryState, Terminal
  <2>2. child' # NoPid
    BY <2>1, <1>16, VmNextIsNext, NextIInv DEF IInv, ChildTracksState
  <2>3. call' = "none" /\ NothingTried'
    BY <1>16 DEF Shutdown, QueryState, Reply, NothingTried
  <2> QED
    BY <2>2, <2>3, <1>16 DEF Shutdown, ShutdownInv
<1>17. CASE TryCtrlAltDel
  BY <1>5, <1>6, <1>17 DEF TryCtrlAltDel, Trying, Send
<1>18. CASE TryPause
  BY <1>5, <1>6, <1>18 DEF TryPause, Trying, Send
<1>19. CASE TryKill
  BY <1>5, <1>6, <1>19 DEF TryKill, Trying
<1>20. CASE CtrlAltDelAnswered
  BY <1>6, <1>20 DEF CtrlAltDelAnswered
<1>21. CASE ShutdownPauseAnswered
  BY <1>6, <1>21 DEF ShutdownPauseAnswered
<1>22. CASE ShutdownRequestFails
  BY <1>5, <1>22 DEF ShutdownRequestFails
<1>23. CASE ShutdownWait
  <2>1. CASE WaitForExit /\ UNCHANGED taskVars
    BY <1>3, <1>23, <2>1 DEF ShutdownWait
  <2>2. CASE Refuse("wait_for_exit") /\ Return("shutdown", "Ok")
    <3>1. child # NoPid /\ Observed # "Started"
      BY <1>23, <2>2 DEF ShutdownWait, ShutdownInv, Refuse, Allowed
    <3>2. os[child] \in Dead
      BY <3>1 DEF IInv, TypeOK, ProcessState, Terminal, ChildTracksState,
                  TerminalMatchesStatus, Observed, Dead
    <3> QED
      BY <1>7, <1>23, <2>2, <3>2 DEF ShutdownWait, Refuse, hostVars
  <2>3. CASE WaitDone /\ Return("shutdown", "Ok")
    BY <1>7, <1>23, <2>3 DEF ShutdownWait, WaitDone, selfVars, hostVars
  <2> QED
    BY <1>23, <2>1, <2>2, <2>3 DEF ShutdownWait
<1>28. CASE ShutdownWaitFails
  BY <1>7, <1>28 DEF ShutdownWaitFails, WaitFails, Reply, WaitFailed, selfVars, hostVars
<1>24. CASE ShutdownTimeout
  BY <1>5, <1>24 DEF ShutdownTimeout
<1>25. CASE ShutdownEnd
  <2>1. CASE lastResult = "Err"
    BY <1>2, <1>25, <2>1 DEF ShutdownEnd
  <2>2. CASE call = "none" /\ NothingTried
    BY <1>25, <2>2 DEF ShutdownEnd, ShutdownInv, NothingTried, vars, selfVars, hostVars,
                       callVars
  <2> QED
    BY <1>25, <2>1, <2>2 DEF ShutdownEnd, ShutdownInv
<1>26. CASE VmTakePipes \/ VmCleanup \/ VmCleanedUp
  BY <1>2, <1>3, <1>26 DEF VmTakePipes, VmCleanup, VmCleanedUp
<1>27. CASE VmCancel
  BY <1>2, <1>27 DEF VmCancel
<1> QED
  BY <1>8, <1>9, <1>10, <1>11, <1>12, <1>13, <1>14, <1>15, <1>16, <1>17, <1>18, <1>19, <1>20,
     <1>21, <1>22, <1>23, <1>24, <1>25, <1>26, <1>27, <1>28 DEF VmNext

\* ShutdownInv holds in every reachable state.
LEMMA ShutdownInvariant == VmSpec => []ShutdownInv
<1>1. VmInit => ShutdownInv
  BY DEF VmInit, ShutdownInv, ShutdownTask, ShutdownOk
<1>2. IInv /\ ShutdownInv /\ [VmNext]_vmVars => ShutdownInv'
  BY NextShutdownInv
<1> QED
  BY <1>1, <1>2, VmImplementsProcess, InductiveInvariant, PTL DEF VmSpec

\* shutdown, whatever its list, returns Ok only on a dead process, or after a wait that has
\* failed (vm/mod.rs:388-391 drops the result of wait_for_exit), or without having tried
\* anything, of an empty list (no method has failed).
THEOREM ShutdownMeansDead == VmSpec => []ShutdownOkMeansDead
<1>1. ShutdownInv => ShutdownOkMeansDead
  BY DEF ShutdownInv, ShutdownOk, ShutdownOkMeansDead
<1> QED
  BY <1>1, ShutdownInvariant, PTL

\* Where the Child is the VMM, that is the end of every VMM of this Vm: none of an invoke
\* that failed or was dropped is left behind either.  The same two exceptions are named.
THEOREM ShutdownLeavesNoVmm ==
  VmSpec => [](Direct /\ vmReply = ShutdownOk => vmm = {} \/ WaitFailed \/ NothingTried)
<1>1. IInv /\ ShutdownInv
        => (Direct /\ vmReply = ShutdownOk => vmm = {} \/ WaitFailed \/ NothingTried)
  <2> SUFFICES ASSUME IInv, ShutdownInv, Direct, vmReply = ShutdownOk,
                      ~WaitFailed, ~NothingTried, NEW p \in vmm
               PROVE  FALSE
    OBVIOUS
  <2>1. child # NoPid /\ os[child] \in Dead /\ p \in Pid
    BY DEF ShutdownInv, IInv, TypeOK
  <2>2. spawned = NoPid
    BY <2>1 DEF IInv, ChildTracksState, CallMatchesState
  <2>3. p = child /\ os[p] \notin Dead
    BY <2>1, <2>2, NoPidAssumption DEF IInv, VmmIsHeld, Dead
  <2> QED
    BY <2>1, <2>3
<1> QED
  BY <1>1, ShutdownInvariant, VmImplementsProcess, InductiveInvariant, PTL

=============================================================================
