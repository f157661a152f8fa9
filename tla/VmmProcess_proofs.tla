-------------------------- MODULE VmmProcess_proofs --------------------------
(***************************************************************************)
(* Proofs about VmmProcess for any number of launches.                     *)
(*                                                                         *)
(* None of the safety properties is inductive: each rests on what a call   *)
(* in flight and the tracked state say about the Child, the process and    *)
(* the environment.  IInv collects that; every theorem follows from it.    *)
(***************************************************************************)
EXTENDS VmmProcess, TLAPS

\* The Child is there exactly from the moment invoke has succeeded.
ChildTracksState == child = NoPid <=> state \in {"AwaitingPrepare", "AwaitingStart"}

\* A suspended method still runs in the state that admitted it.
CallMatchesState ==
    /\ call = "prepare" => state = "AwaitingPrepare"
    /\ call \in {"invoke", "spawned"} => state = "AwaitingStart"
    /\ call \in {"chown", "request", "wait"} => state = "Started"
    /\ call = "cleanup" => state \in Terminal
    /\ call = "spawned" <=> spawned # NoPid

\* What the process table says of the processes the program knows.
ProcessesBorn ==
    /\ child # NoPid => os[child] # "unborn"
    /\ spawned # NoPid => os[spawned] # "unborn"

\* A terminal state is the exit status of the Child.
TerminalMatchesStatus ==
    /\ state = "Exited" => child # NoPid /\ os[child] = "exitedOk"
    /\ state = "Crashed" => child # NoPid /\ os[child] = "exitedErr"

\* The environment is complete from prepare until cleanup starts.
ReadyEnv == state \in {"AwaitingStart", "Started"} => env = "ready"

\* When the Child is the VMM itself, the only VMM is the process the program holds, and alive.
VmmIsHeld ==
    Direct => \A p \in vmm : /\ p = child \/ p = spawned
                             /\ os[p] \in {"running", "signalled"}

IInv ==
    /\ TypeOK
    /\ ChildTracksState
    /\ CallMatchesState
    /\ ProcessesBorn
    /\ TerminalMatchesStatus
    /\ ReadyEnv
    /\ VmmIsHeld
    /\ ChildExpectHolds

-----------------------------------------------------------------------------
\* IInv holds of a new VmmProcess.
LEMMA InitIInv == Init => IInv
<1> SUFFICES ASSUME Init
             PROVE  IInv
  OBVIOUS
<1>1. TypeOK
  <2>1. reply \in [op : Methods \union {"new", "state"}, res : {"Ok", "Err", "Panic"}]
    BY DEF Init, Methods
  <2>2. os \in [Pid -> OsStatus]
    BY DEF Init, OsStatus
  <2> QED
    BY <2>1, <2>2, DetachmentsAssumption DEF Init, TypeOK, ProcessState, AwaitPoint
<1>2. ChildTracksState /\ CallMatchesState /\ ProcessesBorn
  BY NoPidAssumption DEF Init, ChildTracksState, CallMatchesState, ProcessesBorn
<1>3. TerminalMatchesStatus /\ ReadyEnv /\ VmmIsHeld
  BY DEF Init, TerminalMatchesStatus, ReadyEnv, VmmIsHeld
<1>4. ChildExpectHolds
  <2>1. reply.res = "Ok"
    BY DEF Init
  <2> QED
    BY <2>1 DEF ChildExpectHolds
<1> QED
  BY <1>1, <1>2, <1>3, <1>4 DEF IInv

\* Every step of the program and of the host preserves IInv.
LEMMA NextIInv == IInv /\ [Next]_vars => IInv'
<1> SUFFICES ASSUME IInv, [Next]_vars
             PROVE  IInv'
  OBVIOUS
<1> USE NoPidAssumption, DetachmentsAssumption
    DEF IInv, TypeOK, ProcessState, Terminal, Pipe, OsStatus, Dead, AwaitPoint, Methods,
        ChildTracksState, CallMatchesState, ProcessesBorn, TerminalMatchesStatus, ReadyEnv,
        VmmIsHeld, ChildExpectHolds, Direct, vars, fixedVars, selfVars, callVars, hostVars
<1>1. CASE QueryState
  BY <1>1 DEF QueryState, Observed, Reply
<1>2. CASE Prepare
  <2>1. CASE outerPaths
    <3>1. call' = "prepare" /\ reply' = [op |-> "none", res |-> "none"]
      BY <1>2, <2>1 DEF Prepare, Suspend, NoReply
    <3> QED
      BY <1>2, <2>1, <3>1 DEF Prepare, Enter, Allowed, Observed
  <2>2. CASE ~outerPaths
    <3>1. reply'.op = "prepare" /\ reply' \in [op : Methods, res : {"Panic"}]
      BY <1>2, <2>2 DEF Prepare, Reply
    <3> QED
      BY <1>2, <2>2, <3>1 DEF Prepare, Enter, Allowed, Observed
  <2> QED
    BY <2>1, <2>2
<1>3. CASE Invoke
  BY <1>3 DEF Invoke, Enter, Allowed, Observed, Suspend, NoReply
<1>4. CASE SendApiRequest
  BY <1>4 DEF SendApiRequest, Enter, Allowed, Observed, Reply, Suspend, NoReply
<1>5. CASE TakePipes
  <2>1. state = "Started" /\ state' = "Started" /\ call = "none" /\ child # NoPid
    BY <1>5 DEF TakePipes, Enter, Allowed, Observed
  <2>2. pipes' \in SUBSET Pipe
    BY <1>5, <2>1 DEF TakePipes, ChildExpected
  <2>3. reply' \in [op : Methods, res : {"Ok", "Err"}]
    BY <1>5, <2>1 DEF TakePipes, ChildExpected, Reply
  <2>4. UNCHANGED <<outerPaths, child, hyperClient, fixedVars, call, spawned,
                    os, vmm, env>>
    BY <1>5, <2>1 DEF TakePipes, ChildExpected
  <2> QED
    BY <2>1, <2>2, <2>3, <2>4
<1>6. CASE SendSigkill
  <2>1. state = "Started" /\ state' = "Started" /\ call = "none" /\ child # NoPid
    BY <1>6 DEF SendSigkill, Enter, Allowed, Observed
  <2>2. reply' \in [op : Methods, res : {"Ok", "Err"}]
    BY <1>6, <2>1 DEF SendSigkill, ChildExpected, Reply
  <2>3. UNCHANGED <<outerPaths, child, pipes, hyperClient, fixedVars, call,
                    spawned, env>>
    BY <1>6, <2>1 DEF SendSigkill, ChildExpected
  <2>4. CASE os' = [os EXCEPT ![child] = "signalled"] /\ vmm' = vmm
    BY <2>1, <2>2, <2>3, <2>4
  <2>5. CASE \E s \in Dead : os' = [os EXCEPT ![child] = s]
                         /\ (vmm' = vmm \ {child} \/ (detaches /\ vmm' = vmm))
    BY <2>1, <2>2, <2>3, <2>5
  <2>6. CASE UNCHANGED <<os, vmm>>
    BY <2>1, <2>2, <2>3, <2>6
  <2> QED
    BY <1>6, <2>1, <2>4, <2>5, <2>6 DEF SendSigkill, ChildExpected
<1>7. CASE WaitForExit
  <2>1. state = "Started" /\ state' = "Started" /\ call = "none" /\ child # NoPid
    BY <1>7 DEF WaitForExit, Enter, Allowed, Observed
  <2>2. pipes' \in SUBSET Pipe
    BY <1>7, <2>1 DEF WaitForExit, ChildExpected
  <2>3. call' = "wait" /\ reply' = [op |-> "none", res |-> "none"]
    BY <1>7, <2>1 DEF WaitForExit, ChildExpected, Suspend, NoReply
  <2>4. UNCHANGED <<outerPaths, child, hyperClient, fixedVars, spawned,
                    os, vmm, env>>
    BY <1>7, <2>1 DEF WaitForExit, ChildExpected
  <2> QED
    BY <2>1, <2>2, <2>3, <2>4
<1>8. CASE Cleanup
  BY <1>8 DEF Cleanup, Enter, Allowed, Observed, Suspend, NoReply
<1>9. ASSUME NEW op \in Methods, Refuse(op)
      PROVE  IInv'
  BY <1>9 DEF Refuse, Observed, Reply
<1>10. CASE PrepareProgress
  BY <1>10 DEF PrepareProgress
<1>11. CASE PrepareOk
  BY <1>11 DEF PrepareOk, Reply
<1>12. CASE PrepareErr
  BY <1>12 DEF PrepareErr, Reply
<1>13. ASSUME NEW p \in Pid, Spawn(p)
      PROVE  IInv'
  BY <1>13 DEF Spawn
<1>14. CASE InvokeOk
  BY <1>14 DEF InvokeOk, Reply, PipedBy
<1>15. CASE InvokeErr
  BY <1>15 DEF InvokeErr, Reply
<1>16. CASE ChownOk
  BY <1>16 DEF ChownOk
<1>17. CASE ChownErr
  BY <1>17 DEF ChownErr, Reply
<1>18. CASE RequestDone
  BY <1>18 DEF RequestDone, Reply
<1>19. CASE WaitDone
  BY <1>19 DEF WaitDone, Reply
<1>20. CASE CleanupProgress
  BY <1>20 DEF CleanupProgress
<1>28. CASE WaitFails
  BY <1>28 DEF WaitFails, Reply
<1>21. CASE CleanupOk
  BY <1>21 DEF CleanupOk, Reply
<1>22. CASE CleanupErr
  BY <1>22 DEF CleanupErr, Reply
<1>23. CASE Cancel
  BY <1>23 DEF Cancel
<1>24. ASSUME NEW p \in Pid, VmmExit(p)
      PROVE  IInv'
  BY <1>24 DEF VmmExit
<1>25. ASSUME NEW p \in Pid, ShellExit(p)
      PROVE  IInv'
  BY <1>25 DEF ShellExit
<1>26. ASSUME NEW p \in Pid, Killed(p)
      PROVE  IInv'
  BY <1>26 DEF Killed
<1>27. CASE UNCHANGED vars
  BY <1>27
<1> QED
  BY <1>1, <1>2, <1>3, <1>4, <1>5, <1>6, <1>7, <1>8, <1>9, <1>10, <1>11, <1>12, <1>13,
     <1>14, <1>15, <1>16, <1>17, <1>18, <1>19, <1>20, <1>21, <1>22, <1>23, <1>24,
     <1>25, <1>26, <1>27, <1>28
  DEF Next, CallStart, CallStep, HostStep

\* What the safety properties need of IInv.
LEMMA IInvImplies == IInv => TypeOK /\ ChildExpectHolds /\ OneVmm /\ VmmInReadyEnv
<1> SUFFICES ASSUME IInv
             PROVE  TypeOK /\ ChildExpectHolds /\ OneVmm /\ VmmInReadyEnv
  OBVIOUS
<1>1. TypeOK /\ ChildExpectHolds
  BY DEF IInv
<1>2. child = NoPid \/ spawned = NoPid
  BY DEF IInv, ChildTracksState, CallMatchesState
<1>3. OneVmm
  BY <1>2, NoPidAssumption DEF IInv, TypeOK, VmmIsHeld, OneVmm
<1>4. ASSUME Direct, NEW p \in vmm
      PROVE  state \in {"AwaitingStart", "Started"}
  <2>1. (p = child \/ p = spawned) /\ p # NoPid /\ os[p] \in {"running", "signalled"}
    BY <1>4, NoPidAssumption DEF IInv, TypeOK, VmmIsHeld
  <2>2. CASE p = spawned
    BY <2>1, <2>2 DEF IInv, CallMatchesState
  <2>3. CASE p = child
    BY <2>1, <2>3 DEF IInv, TypeOK, ProcessState, Terminal, ChildTracksState,
                      TerminalMatchesStatus
  <2> QED
    BY <2>1, <2>2, <2>3
<1>5. VmmInReadyEnv
  BY <1>4 DEF IInv, ReadyEnv, VmmInReadyEnv
<1> QED
  BY <1>1, <1>3, <1>5

-----------------------------------------------------------------------------
\* The strengthened invariant holds in every reachable state.
THEOREM InductiveInvariant == SafetySpec => []IInv
  BY InitIInv, NextIInv, PTL DEF SafetySpec

\* Every variable keeps its type, for any set of launches.
THEOREM TypeCorrect == Spec => []TypeOK
  BY InductiveInvariant, IInvImplies, PTL DEF Spec

\* The expects of take_pipes, send_sigkill and wait_for_exit never fire
\* (process.rs:212, 265, 276).
THEOREM ChildExpectNeverFires == Spec => []ChildExpectHolds
  BY InductiveInvariant, IInvImplies, PTL DEF Spec

\* A VmmProcess over a spawner that does not escalate never has two live VMMs,
\* however often invoke fails, is cancelled and is retried.
THEOREM AtMostOneVmm == Spec => []OneVmm
  BY InductiveInvariant, IInvImplies, PTL DEF Spec

\* ... and its VMM only lives in the environment that prepare completed and
\* cleanup has not touched.
THEOREM VmmLivesInReadyEnv == Spec => []VmmInReadyEnv
  BY InductiveInvariant, IInvImplies, PTL DEF Spec

\* A dead Child means a dead VMM, as ShellSpawner's documentation says
\* (shell_spawner.rs:18-19), for the launches whose Child is the VMM.  An escalating
\* spawner and a detaching jailer are all the exceptions there are.
THEOREM DirectChildIsItsVmm == Spec => [](Direct => DeadChildMeansDeadVmm)
<1>1. IInv => (Direct => DeadChildMeansDeadVmm)
  BY DEF IInv, VmmIsHeld, DeadChildMeansDeadVmm, Dead
<1> QED
  BY <1>1, InductiveInvariant, PTL DEF Spec

\* Without the fairness, too: no exit is forgotten.
LEMMA ExitIsKept == SafetySpec => ExitIsFinal
<1>1. ASSUME IInv, [Next]_vars, state \in Terminal
      PROVE  state' = state /\ child' = child
  <2>1. Observed = state
    BY <1>1 DEF IInv, TerminalMatchesStatus, Terminal, Dead, Observed
  <2>2. call \in {"none", "cleanup"}
    BY <1>1 DEF IInv, TypeOK, AwaitPoint, CallMatchesState, Terminal
  <2>3. CASE CallStart
    BY <2>1, <2>3 DEF CallStart, QueryState, Prepare, Invoke, SendApiRequest, TakePipes,
        SendSigkill, WaitForExit, Cleanup, Refuse, Enter, ChildExpected
  <2>4. CASE CallStep
    BY <2>2, <2>4 DEF CallStep, PrepareProgress, PrepareOk, PrepareErr, Spawn, InvokeOk,
        InvokeErr, ChownOk, ChownErr, RequestDone, WaitDone, WaitFails, CleanupProgress, CleanupOk,
        CleanupErr, Cancel, selfVars
  <2>5. CASE HostStep \/ UNCHANGED vars
    BY <2>5 DEF HostStep, VmmExit, ShellExit, Killed, vars, selfVars
  <2> QED
    BY <1>1, <2>3, <2>4, <2>5 DEF Next
<1>2. IInv /\ [Next]_vars => [(state \in Terminal) => (state' = state /\ child' = child)]_vars
  BY <1>1
<1> QED
  BY <1>2, InductiveInvariant, PTL DEF SafetySpec, ExitIsFinal

\* Exited and Crashed are final: no later call or event changes them or the Child.
THEOREM ExitNeverChanges == Spec => ExitIsFinal
  BY ExitIsKept, PTL DEF Spec

-----------------------------------------------------------------------------
\* A launch pipes stdout and stderr together or not at all, and they leave together.
PipesPaired ==
    /\ child = NoPid => pipes = {}
    /\ "stdout" \in pipes <=> "stderr" \in pipes

\* take_pipes removes stdin first and stderr last, and nothing after a missing stream.
LEMMA TakenInOrder ==
  ASSUME NEW ps \in SUBSET Pipe
  PROVE  /\ TakenFrom(ps) \subseteq ps
         /\ "stdout" \in TakenFrom(ps) <=> {"stdin", "stdout"} \subseteq ps
         /\ "stderr" \in TakenFrom(ps) <=> ps = Pipe
<1>1. 1..1 = {1} /\ 1..2 = {1, 2} /\ 1..3 = {1, 2, 3}
  OBVIOUS
<1>2. PipeOrder[1] = "stdin" /\ PipeOrder[2] = "stdout" /\ PipeOrder[3] = "stderr"
  BY DEF PipeOrder
<1>3. \A x \in Pipe : x \in TakenFrom(ps) <=>
        \E i \in 1..3 : PipeOrder[i] = x /\ \A j \in 1..i : PipeOrder[j] \in ps
  BY DEF TakenFrom
<1>4. TakenFrom(ps) \subseteq ps
  BY DEF TakenFrom
<1>5. "stdout" \in TakenFrom(ps) <=> {"stdin", "stdout"} \subseteq ps
  BY <1>1, <1>2, <1>3 DEF Pipe
<1>6. "stderr" \in TakenFrom(ps) <=> ps = Pipe
  <2>1. "stderr" \in TakenFrom(ps) <=> \A x \in Pipe : x \in ps
    BY <1>1, <1>2, <1>3 DEF Pipe
  <2> QED
    BY <2>1
<1> QED
  BY <1>4, <1>5, <1>6

\* Only take_pipes removes an output stream, and then it has all three.
LEMMA PipesStep ==
  ASSUME IInv, PipesPaired, [Next]_vars
  PROVE  /\ PipesPaired'
         /\ \A x \in {"stdout", "stderr"} :
               x \in pipes /\ x \notin pipes' => reply' = [op |-> "take_pipes", res |-> "Ok"]
<1> USE DEF PipesPaired
<1>1. CASE TakePipes
  <2>1. child # NoPid
    BY <1>1 DEF TakePipes, Enter, Allowed, Observed, IInv, ChildTracksState
  <2>2. /\ pipes' = pipes \ TakenFrom(pipes) /\ child' = child
        /\ reply' = [op |-> "take_pipes", res |-> IF pipes = Pipe THEN "Ok" ELSE "Err"]
    BY <1>1, <2>1 DEF TakePipes, ChildExpected, Reply
  <2> QED
    <3>1. pipes \in SUBSET Pipe
      BY DEF IInv, TypeOK
    <3>2. /\ "stdout" \in pipes' <=> "stdout" \in pipes /\ "stdin" \notin pipes
          /\ "stderr" \in pipes' <=> "stderr" \in pipes /\ pipes # Pipe
      BY <2>2, <3>1, TakenInOrder
    <3>3. "stderr" \in pipes => (pipes = Pipe <=> "stdin" \in pipes)
      BY <3>1 DEF Pipe
    <3> QED
      BY <2>1, <2>2, <3>2, <3>3
<1>2. CASE WaitForExit
  BY <1>2 DEF WaitForExit, ChildExpected
<1>3. CASE CallStart /\ ~TakePipes /\ ~WaitForExit
  BY <1>3 DEF CallStart, QueryState, Prepare, Invoke, SendApiRequest, SendSigkill, Cleanup,
              Refuse, ChildExpected
<1>4. CASE InvokeOk
  <2>1. child = NoPid /\ spawned # NoPid
    BY <1>4 DEF InvokeOk, IInv, CallMatchesState, ChildTracksState
  <2> QED
    BY <1>4, <2>1 DEF InvokeOk, PipedBy, Pipe
<1>5. CASE CallStep /\ ~InvokeOk
  BY <1>5 DEF CallStep, PrepareProgress, PrepareOk, PrepareErr, Spawn, InvokeErr, ChownOk,
      ChownErr, RequestDone, WaitDone, WaitFails, CleanupProgress, CleanupOk, CleanupErr, Cancel,
      selfVars
<1>6. CASE HostStep \/ UNCHANGED vars
  BY <1>6 DEF HostStep, VmmExit, ShellExit, Killed, vars, selfVars
<1> QED
  BY <1>1, <1>2, <1>3, <1>4, <1>5, <1>6 DEF Next

\* Without the fairness, too: no output stream is lost.
LEMMA PipesAreKept == SafetySpec => OutputPipesDelivered
<1>1. Init => PipesPaired
  BY DEF Init, PipesPaired
<1>2. IInv /\ PipesPaired /\ [Next]_vars =>
        /\ PipesPaired'
        /\ [\A x \in {"stdout", "stderr"} :
               x \in pipes /\ x \notin pipes'
                 => reply' = [op |-> "take_pipes", res |-> "Ok"]]_vars
  BY PipesStep
<1> QED
  BY <1>1, <1>2, InductiveInvariant, PTL DEF SafetySpec, OutputPipesDelivered

\* stdout and stderr leave the Child only to a caller of take_pipes that gets all three
\* streams, even after a cancelled wait_for_exit has closed stdin.
THEOREM OutputPipesAreDelivered == Spec => OutputPipesDelivered
  BY PipesAreKept, PTL DEF Spec

-----------------------------------------------------------------------------
(***************************************************************************)
(* The executor, as VmmProcess calls it.                                   *)
(***************************************************************************)

\* What VmmProcess lets an executor do, and asks of it, in the terms of the contract.
Contract == INSTANCE Executor WITH
    call <- IF call \in {"prepare", "cleanup"} THEN call ELSE "none",
    env <- env,
    prepared <- state # "AwaitingPrepare",
    spoiled <- FALSE

\* A step of VmmProcess calls the executor as the contract allows, or not at all.
LEMMA CallerStep ==
  ASSUME IInv, [Next]_vars
  PROVE  Contract!Next \/ UNCHANGED Contract!contractVars
<1> USE DEF Contract!Next, Contract!Honour, Contract!contractVars
<1>1. state = "AwaitingPrepare" <=> Observed = "AwaitingPrepare"
  BY DEF IInv, ChildTracksState, Observed
<1>2. CASE Prepare
  <2>1. call = "none" /\ Observed = "AwaitingPrepare" /\ state' = Observed /\ env' = env
          /\ call' \in {"none", "prepare"}
    BY <1>2 DEF Prepare, Enter, Allowed, Suspend, hostVars
  <2>2. CASE call' = "prepare"
    BY <1>1, <2>1, <2>2 DEF Contract!Prepare, Contract!Touched
  <2> QED
    BY <1>1, <2>1, <2>2
<1>3. CASE Cleanup
  <2>1. call = "none" /\ Observed \in Terminal /\ state' = Observed /\ env' = env
          /\ call' = "cleanup"
    BY <1>3 DEF Cleanup, Enter, Allowed, Suspend, hostVars
  <2> QED
    BY <1>1, <2>1 DEF Contract!Cleanup, Contract!Touched, Terminal
<1>4. CASE QueryState \/ Invoke \/ SendApiRequest \/ TakePipes \/ SendSigkill \/ WaitForExit
             \/ \E op \in Methods : Refuse(op)
  <2>1. call = "none" /\ call' \notin {"prepare", "cleanup"} /\ state' = Observed /\ env' = env
    BY <1>4 DEF QueryState, Invoke, SendApiRequest, TakePipes, SendSigkill, WaitForExit, Refuse,
                Enter, Suspend, ChildExpected, hostVars
  <2> QED
    BY <1>1, <2>1
<1>5. CASE PrepareProgress \/ PrepareOk \/ PrepareErr
  <2>1. call = "prepare" /\ state = "AwaitingPrepare"
    BY <1>5 DEF PrepareProgress, PrepareOk, PrepareErr, IInv, CallMatchesState
  <2> QED
    BY <1>5, <2>1 DEF PrepareProgress, PrepareOk, PrepareErr, Contract!Work, Contract!PrepareOk,
         Contract!Fail, Contract!Touched, selfVars, callVars, hostVars
<1>6. CASE CleanupProgress \/ CleanupOk \/ CleanupErr \/ Cancel
  BY <1>6 DEF CleanupProgress, CleanupOk, CleanupErr, Cancel, Contract!Work, Contract!CleanupOk,
       Contract!Fail, Contract!Touched, selfVars, callVars, hostVars
<1>7. CASE InvokeOk
  <2>1. state # "AwaitingPrepare"
    BY <1>7 DEF InvokeOk, IInv, CallMatchesState
  <2> QED
    BY <1>7, <2>1 DEF InvokeOk, hostVars
<1>8. CASE \/ \E p \in Pid : Spawn(p)
           \/ InvokeErr \/ ChownOk \/ ChownErr \/ RequestDone \/ WaitDone \/ WaitFails
           \/ HostStep \/ UNCHANGED vars
  BY <1>8 DEF Spawn, InvokeErr, ChownOk, ChownErr, RequestDone, WaitDone, WaitFails, HostStep,
      VmmExit, ShellExit, Killed, selfVars, callVars, hostVars, vars
<1> QED
  BY <1>2, <1>3, <1>4, <1>5, <1>6, <1>7, <1>8 DEF Next, CallStart, CallStep

\* Without the fairness, too: VmmProcess and any executor keep the contract.
LEMMA ContractIsKept == SafetySpec => Contract!Spec
<1>1. Init => Contract!Init
  BY DEF Init, Contract!Init
<1>2. IInv /\ [Next]_vars => [Contract!Next]_(Contract!contractVars)
  BY CallerStep
<1> QED
  BY <1>1, <1>2, InductiveInvariant, PTL DEF SafetySpec, Contract!Spec

\* VmmProcess keeps its side of the contract with any executor: it awaits one call at a
\* time, cleans up only what a successful prepare has made, whatever was dropped or failed
\* in between, and relies on no more than what the contract says of the environment.
THEOREM ProcessKeepsContract == Spec => Contract!Spec
  BY ContractIsKept, PTL DEF Spec

=============================================================================
