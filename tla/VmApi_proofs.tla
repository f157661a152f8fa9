------------------------------ MODULE VmApi_proofs ------------------------------
(***************************************************************************)
(* Proofs about Vm: its requests to Firecracker, what it believes of the   *)
(* guest, and its lifecycle, for any number of launches and any lists of   *)
(* shutdown methods.                                                       *)
(*                                                                         *)
(* What a successful answer means depends on which request it answers.  A  *)
(* request that was dropped may still wait in the server, so the invariant *)
(* says whose request the server has, and that the answer on its way is to *)
(* the request of the method in flight.                                    *)
(***************************************************************************)
EXTENDS Vm_proofs

RequestTask == ApiTask \union {"start_init", "shutdown_ctrl", "shutdown_pause"}
IdleTask == {"new", "none", "dropped", "prepare_files", "start_files", "start_socket",
             "start_next", "shutdown", "shutdown_kill", "cleanup_files"}
VmTask == RequestTask \union IdleTask
            \union {"prepare", "start_invoke", "shutdown_wait", "cleanup"}

Request == {"config", "boot", "load", "pause", "resume", "snapshot", "info", "ctrlaltdel"}

\* The request that brings the guest to life.
LastRequest == IF mode = "api" THEN "boot" ELSE "load"

VmTypes ==
    /\ VmTypeOK
    /\ mode \in Mode
    /\ task \in VmTask
    /\ inbox \in Request \union {"none"}

\* Where the method of the Vm is, there is the method of the process.
CallOfTask ==
    /\ task \in IdleTask => call = "none"
    /\ task = "prepare" => call = "prepare"
    /\ task = "start_invoke" => call \in {"invoke", "spawned"}
    /\ task \in RequestTask => call \in {"chown", "request"}
    /\ task = "shutdown_wait" => call \in {"none", "wait"}
    /\ task = "cleanup" => call = "cleanup"

\* The process is prepared once, before there is a Vm, and has a socket from then on.
PreparedFirst ==
    /\ task = "new" => outerPaths /\ state = "AwaitingPrepare"
    /\ task \notin {"new", "prepare", "dropped"} => state # "AwaitingPrepare"
    /\ task = "prepare_files" => state = "AwaitingStart"
    /\ task \notin {"new", "dropped"} => socketPath

\* What is left to do while a method goes through its list.
TodoOfTask ==
    /\ task \in {"start_next", "start_init"} =>
          mode # "json" /\ todo \in {<<"config", LastRequest>>, <<LastRequest>>}
    /\ task \in {"shutdown_ctrl", "shutdown_pause", "shutdown_kill", "shutdown_wait"} =>
          todo # << >>

\* The answer on its way is to the request of the method in flight, and so is the request
\* in the server until it is answered.
OneRequest ==
    /\ call = "request" => \/ inbox = RequestOf(task) /\ answer = "none"
                           \/ inbox = "none" /\ answer # "none"
    /\ call # "request" => answer = "none"
    /\ inbox \in {"boot", "load"} => inbox = LastRequest /\ mode # "json"

\* Success means that the guest is in the state that was requested.
AnswerIsTrue ==
    answer = "ok" =>
        /\ RequestOf(task) \in {"boot", "resume"} => guest = "running"
        /\ RequestOf(task) = "load" => guest \in {"running", "paused"}
        /\ RequestOf(task) = "pause" => guest = "paused"

\* Only the method in flight may pause or resume the guest, unless one was dropped.
PauseIsOurs ==
    inbox \in {"pause", "resume"} => adrift \/ (call = "request" /\ inbox = RequestOf(task))

Tracked ==
    ~adrift /\ mode # "restorePaused" =>
        \/ isPaused <=> guest = "paused"
        \/ answer = "ok" /\ RequestOf(task) \in {"pause", "resume"}

PausedSinceStart == isPaused => state \notin {"AwaitingPrepare", "AwaitingStart"}

KillAfterPause == task = "shutdown_kill" => guest = "paused" /\ inbox = "none"

BootedByStart ==
    vmReply = [op |-> "start", res |-> "Ok"] /\ mode # "json" => guest \in {"running", "paused"}

VmIInv ==
    /\ IInv
    /\ VmTypes
    /\ CallOfTask
    /\ PreparedFirst
    /\ TodoOfTask
    /\ OneRequest
    /\ AnswerIsTrue
    /\ PauseIsOurs
    /\ Tracked
    /\ PausedSinceStart
    /\ KillAfterPause
    /\ BootedByStart

-----------------------------------------------------------------------------
\* What Observed may say: the tracked state, or that a Started process has ended.
LEMMA ObservedFrom ==
  ASSUME IInv
  PROVE  Observed = state \/ (state = "Started" /\ Observed \in Terminal)
  BY DEF IInv, TypeOK, ProcessState, Terminal, ChildTracksState, TerminalMatchesStatus,
         Observed, Dead

-----------------------------------------------------------------------------
TodoItem == ShutdownMethod \union {"config", "boot", "load"}

\* What the methods of a Vm put into `todo`, or leave of it, is a list of TodoItem.
LEMMA TodoLists ==
  ASSUME VmTypes
  PROVE  /\ << >> \in Seq(TodoItem)
         /\ todo # << >> => Tail(todo) \in Seq(TodoItem)
         /\ InitRequests(mode) \in Seq(TodoItem)
         /\ ShutdownLists \subseteq Seq(TodoItem)
<1>1. InitRequests(mode) \in Seq(TodoItem)
  <2>1. <<"config", "boot">> \in Seq(TodoItem) /\ <<"config", "load">> \in Seq(TodoItem)
    BY DEF TodoItem
  <2> QED
    BY <2>1 DEF InitRequests
<1>2. todo # << >> => Tail(todo) \in Seq(TodoItem)
  BY DEF VmTypes, VmTypeOK, TodoItem
<1>3. ASSUME NEW list \in ShutdownLists
      PROVE  list \in Seq(TodoItem)
  <2>1. PICK n \in MinMethods..MaxMethods : list \in [1..n -> ShutdownMethod]
    BY DEF ShutdownLists
  <2>2. n \in Nat /\ list \in [1..n -> TodoItem]
    BY <2>1, MethodsAssumption DEF TodoItem
  <2> QED
    BY <2>2
<1> QED
  BY <1>1, <1>2, <1>3

\* What a step may do to the list that a method works through.
LEMMA TodoStep ==
  ASSUME VmTypes, TodoOfTask, [VmNext]_vmVars
  PROVE  \/ todo' \in {todo, << >>, InitRequests(mode)}
         \/ todo # << >> /\ todo' = Tail(todo)
         \/ todo' \in ShutdownLists
<1> USE DEF taskVars, Return, Leave, GoTo, MethodFails, Send
<1>1. ASSUME NEW op \in VmMethods, VmRefuse(op)
      PROVE  todo' = << >>
  BY <1>1 DEF VmRefuse
<1>2. ASSUME NEW t \in ApiTask, ApiCall(t)
      PROVE  todo' = todo
  BY <1>2 DEF ApiCall
<1>3. CASE VmPrepare \/ VmPrepared \/ VmPrepareFiles \/ Start \/ StartAgain \/ StartFiles
             \/ StartInvoke \/ StartTimeout \/ StartNext
  BY <1>3 DEF VmPrepare, VmPrepared, VmPrepareFiles, Start, StartAgain, StartFiles,
              StartInvoke, StartTimeout, StartNext
<1>4. CASE StartSocket
  BY <1>4 DEF StartSocket
<1>5. CASE InitAnswered
  <2>1. CASE Len(todo) > 1 /\ todo' = Tail(todo)
    BY <2>1 DEF VmTypes, VmTypeOK
  <2> QED
    BY <1>5, <2>1 DEF InitAnswered
<1>6. CASE InitFails \/ PauseAnswered \/ CustomAnswered \/ CustomBroken \/ OtherAnswered
             \/ ApiCallFails \/ VmTakePipes \/ VmCleanup \/ VmCleanedUp \/ VmCancel
  BY <1>6 DEF InitFails, PauseAnswered, CustomAnswered, CustomBroken, OtherAnswered,
              ApiCallFails, VmTakePipes, VmCleanup, VmCleanedUp, VmCancel
<1>7. CASE Shutdown
  BY <1>7 DEF Shutdown
<1>8. CASE TryCtrlAltDel \/ TryPause \/ TryKill \/ CtrlAltDelAnswered \/ ShutdownPauseAnswered
             \/ ShutdownRequestFails \/ ShutdownWait \/ ShutdownWaitFails \/ ShutdownTimeout
             \/ ShutdownEnd
  BY <1>8 DEF TryCtrlAltDel, TryPause, TryKill, Trying, CtrlAltDelAnswered,
              ShutdownPauseAnswered, ShutdownRequestFails, ShutdownWait, ShutdownWaitFails,
              ShutdownTimeout,
              ShutdownEnd, TodoOfTask
<1>9. CASE SocketOwned \/ Serve \/ GuestStep \/ VmHostStep \/ Dropped \/ UNCHANGED vmVars
  BY <1>9 DEF SocketOwned, Serve, GuestStep, VmHostStep, Dropped, vmVars
<1> QED
  BY <1>1, <1>2, <1>3, <1>4, <1>5, <1>6, <1>7, <1>8, <1>9 DEF VmNext

\* What a step may do to the other variables of a Vm.
LEMMA FieldStep ==
  ASSUME [VmNext]_vmVars
  PROVE  /\ mode' = mode
         /\ configuration' \in {configuration, "none"}
         /\ isPaused \in BOOLEAN => isPaused' \in BOOLEAN
         /\ lastResult' \in {lastResult, "Ok", "Err"}
         /\ guest' = guest \/ guest' \in GuestState
         /\ inbox' \in {inbox, "none"} \/ call' = "request"
         /\ answer' \in {answer, "none", "ok", "fault"}
         /\ adrift \in BOOLEAN => adrift' \in BOOLEAN
<1> USE DEF fieldVars, apiVars, ghostVars, taskVars, Return, Leave, GoTo, MethodFails, Send,
            RequestFails, Answered, Broken
<1>1. ASSUME NEW op \in VmMethods, VmRefuse(op)
      PROVE  UNCHANGED <<fieldVars, apiVars, ghostVars>> /\ lastResult' = "Ok"
  BY <1>1 DEF VmRefuse
<1>2. ASSUME NEW t \in ApiTask, ApiCall(t)
      PROVE  /\ UNCHANGED <<fieldVars, lastResult, guest, answer, ghostVars>>
             /\ inbox' = inbox \/ call' = "request"
  BY <1>2 DEF ApiCall
<1>3. CASE VmPrepare \/ VmPrepared \/ VmPrepareFiles \/ Start \/ StartAgain \/ StartFiles
             \/ StartInvoke \/ StartSocket \/ StartTimeout \/ StartNext
  BY <1>3 DEF VmPrepare, VmPrepared, VmPrepareFiles, Start, StartAgain, StartFiles,
              StartInvoke, StartSocket, StartTimeout, StartNext
<1>4. CASE InitAnswered \/ InitFails \/ OtherAnswered \/ ApiCallFails
  BY <1>4 DEF InitAnswered, InitFails, OtherAnswered, ApiCallFails
<1>5. CASE PauseAnswered \/ CustomAnswered \/ CustomBroken
  BY <1>5 DEF PauseAnswered, CustomAnswered, CustomBroken
<1>6. CASE VmTakePipes \/ VmCleanup \/ VmCleanedUp \/ VmCancel
  BY <1>6 DEF VmTakePipes, VmCleanup, VmCleanedUp, VmCancel
<1>7. CASE Shutdown \/ TryCtrlAltDel \/ TryPause \/ TryKill \/ CtrlAltDelAnswered
             \/ ShutdownPauseAnswered
  BY <1>7 DEF Shutdown, TryCtrlAltDel, TryPause, TryKill, CtrlAltDelAnswered,
              ShutdownPauseAnswered
<1>8. CASE \/ ShutdownRequestFails \/ ShutdownWait \/ ShutdownWaitFails \/ ShutdownTimeout
           \/ ShutdownEnd
  BY <1>8 DEF ShutdownRequestFails, ShutdownWait, ShutdownWaitFails, ShutdownTimeout, ShutdownEnd
<1>9. CASE SocketOwned \/ Serve \/ GuestStep \/ VmHostStep \/ Dropped \/ UNCHANGED vmVars
  BY <1>9 DEF SocketOwned, ChownOk, Serve, GuestStep, GuestState, VmHostStep, Dropped, vmVars
<1> QED
  BY <1>1, <1>2, <1>3, <1>4, <1>5, <1>6, <1>7, <1>8, <1>9 DEF VmNext

-----------------------------------------------------------------------------
\* A process never returns to an earlier state, and keeps what new_arced settled.
LEMMA StateAdvances ==
  ASSUME IInv, [Next]_vars
  PROVE  /\ socketPath' = socketPath
         /\ state # "AwaitingPrepare" => state' # "AwaitingPrepare"
         /\ state \notin {"AwaitingPrepare", "AwaitingStart"} =>
               state' \notin {"AwaitingPrepare", "AwaitingStart"}
<1> USE ObservedFrom DEF Terminal, fixedVars
<1>1. CASE CallStart
  BY <1>1 DEF CallStart, QueryState, Prepare, Invoke, SendApiRequest, TakePipes, SendSigkill,
              WaitForExit, Cleanup, Refuse, Enter, ChildExpected
<1>2. CASE CallStep
  BY <1>2 DEF CallStep, PrepareProgress, PrepareOk, PrepareErr, Spawn, InvokeOk, InvokeErr,
      ChownOk, ChownErr, RequestDone, WaitDone, WaitFails, CleanupProgress, CleanupOk, CleanupErr,
      Cancel, selfVars, IInv, CallMatchesState
<1>3. CASE HostStep \/ UNCHANGED vars
  BY <1>3 DEF HostStep, VmmExit, ShellExit, Killed, vars, selfVars
<1> QED
  BY <1>1, <1>2, <1>3 DEF Next

\* A step of a Vm and the step of its process that it makes agree on where they are.
LEMMA ControlStep ==
  ASSUME VmIInv, [VmNext]_vmVars
  PROVE  task' \in VmTask /\ CallOfTask' /\ PreparedFirst' /\ TodoOfTask' /\ PausedSinceStart'
<1> USE DEF VmIInv, VmTypes, VmTypeOK, VmTask, IdleTask, RequestTask, ApiTask, Mode, LastRequest,
        CallOfTask, PreparedFirst, TodoOfTask, PausedSinceStart, Terminal, Return, Leave, GoTo,
        fieldVars, ghostVars, fixedVars, selfVars
<1>0. /\ socketPath' = socketPath
      /\ state # "AwaitingPrepare" => state' # "AwaitingPrepare"
      /\ state \notin {"AwaitingPrepare", "AwaitingStart"} =>
            state' \notin {"AwaitingPrepare", "AwaitingStart"}
  BY VmNextIsNext, StateAdvances
<1>1. CASE VmPrepare
  BY <1>1 DEF VmPrepare, Prepare, Enter, Suspend, Observed, Allowed, hostVars, vars, callVars,
              IInv, CallMatchesState
<1>2. CASE VmPrepared
  BY <1>2 DEF VmPrepared, PrepareProgress, PrepareOk, PrepareErr, callVars, taskVars, IInv,
              CallMatchesState
<1>3. CASE VmPrepareFiles
  BY <1>3 DEF VmPrepareFiles, vars, callVars
<1>4. ASSUME NEW op \in VmMethods, VmRefuse(op)
      PROVE  task' \in VmTask /\ CallOfTask' /\ PreparedFirst' /\ TodoOfTask' /\ PausedSinceStart'
  BY <1>0, <1>4 DEF VmRefuse, QueryState
<1>5. CASE Start
  BY <1>0, <1>5 DEF Start, VmEnter, VmState, VmAllowed, QueryState, Invoke, Enter, Suspend, Allowed
<1>6. CASE StartAgain
  BY <1>0, <1>6 DEF StartAgain, QueryState, VmEnter, VmState, VmAllowed
<1>7. CASE StartFiles
  BY <1>0, <1>7 DEF StartFiles, Invoke, Enter, Suspend, Allowed, vars, callVars
<1>8. CASE StartInvoke
  BY <1>8 DEF StartInvoke, Spawn, InvokeOk, InvokeErr, taskVars
<1>9. CASE StartSocket
  BY <1>9 DEF StartSocket, vars, callVars, InitRequests
<1>10. CASE StartTimeout
  BY <1>10 DEF StartTimeout, vars, callVars
<1>11. CASE StartNext
  BY <1>0, <1>11 DEF StartNext, Send, SendApiRequest, Enter, Suspend, Allowed, Refuse
<1>12. ASSUME NEW t \in ApiTask, ApiCall(t)
      PROVE  task' \in VmTask /\ CallOfTask' /\ PreparedFirst' /\ TodoOfTask' /\ PausedSinceStart'
  BY <1>12 DEF ApiCall, VmEnter, VmState, VmAllowed, Send, SendApiRequest, Enter, Suspend, Allowed
<1>13. CASE SocketOwned
  BY <1>13 DEF SocketOwned, ChownOk, taskVars
<1>14. CASE Serve
  BY <1>14 DEF Serve, vars, callVars, taskVars, Effect
<1>15. CASE InitAnswered
  <2>1. task = "start_init" /\ call' = "none" /\ UNCHANGED <<mode, isPaused>>
    BY <1>15 DEF InitAnswered, Answered, RequestDone
  <2>2. CASE task' = "none"
    BY <1>0, <2>1, <2>2
  <2>3. CASE Len(todo) > 1 /\ task' = "start_next" /\ todo' = Tail(todo)
    <3>1. todo = <<"config", LastRequest>>
      BY <2>1, <2>3
    <3>2. todo' = <<LastRequest>>
      BY <2>3, <3>1
    <3> QED
      BY <1>0, <2>1, <2>3, <3>2
  <2> QED
    BY <1>15, <2>1, <2>2, <2>3 DEF InitAnswered
<1>16. CASE InitFails
  BY <1>0, <1>16 DEF InitFails, RequestFails, Answered, Broken, ChownErr, RequestDone
<1>17. CASE PauseAnswered
  BY <1>17 DEF PauseAnswered, Answered, RequestDone, IInv, CallMatchesState
<1>18. CASE CustomAnswered
  BY <1>18 DEF CustomAnswered, Answered, RequestDone, IInv, CallMatchesState
<1>19. CASE CustomBroken
  BY <1>19 DEF CustomBroken, Broken, ChownErr, RequestDone
<1>20. CASE OtherAnswered
  BY <1>20 DEF OtherAnswered, Answered, RequestDone
<1>21. CASE ApiCallFails
  BY <1>21 DEF ApiCallFails, RequestFails, Answered, Broken, ChownErr, RequestDone
<1>22. CASE Shutdown
  BY <1>0, <1>22 DEF Shutdown, VmEnter, QueryState
<1>23. CASE TryCtrlAltDel
  BY <1>0, <1>23 DEF TryCtrlAltDel, Trying, Send, SendApiRequest, Enter, Suspend, Allowed,
                     Refuse, MethodFails
<1>24. CASE TryPause
  BY <1>0, <1>24 DEF TryPause, Trying, Send, SendApiRequest, Enter, Suspend, Allowed, VmState,
                     QueryState, MethodFails
<1>25. CASE TryKill
  BY <1>0, <1>25 DEF TryKill, Trying, SendSigkill, Enter, ChildExpected, Allowed, Refuse,
                     MethodFails
<1>26. CASE CtrlAltDelAnswered
  BY <1>26 DEF CtrlAltDelAnswered, Answered, RequestDone
<1>27. CASE ShutdownPauseAnswered
  BY <1>27 DEF ShutdownPauseAnswered, Answered, RequestDone, IInv, CallMatchesState
<1>28. CASE ShutdownRequestFails
  BY <1>28 DEF ShutdownRequestFails, RequestFails, Answered, Broken, ChownErr, RequestDone,
               MethodFails
<1>29. CASE ShutdownWait \/ ShutdownWaitFails
  BY <1>0, <1>29 DEF ShutdownWait, ShutdownWaitFails, WaitForExit, Enter, ChildExpected,
               Allowed, Suspend, Refuse, WaitDone, WaitFails, taskVars
<1>30. CASE ShutdownTimeout
  BY <1>30 DEF ShutdownTimeout, Cancel, MethodFails
<1>31. CASE ShutdownEnd
  BY <1>31 DEF ShutdownEnd, vars, callVars
<1>32. CASE VmTakePipes
  BY <1>0, <1>32 DEF VmTakePipes, TakePipes, Enter, ChildExpected, VmEnter
<1>33. CASE VmCleanup
  BY <1>33 DEF VmCleanup, VmEnter, Cleanup, Enter, Suspend, Allowed
<1>34. CASE VmCleanedUp
  BY <1>34 DEF VmCleanedUp, CleanupProgress, CleanupErr, CleanupOk, callVars, vars, taskVars
<1>35. CASE VmCancel
  BY <1>35 DEF VmCancel, Cancel, vars, callVars
<1>36. CASE GuestStep
  BY <1>36 DEF GuestStep, vars, callVars, taskVars
<1>37. CASE VmHostStep
  BY <1>37 DEF VmHostStep, HostStep, VmmExit, ShellExit, Killed, callVars, taskVars
<1>38. CASE Dropped
  BY <1>38 DEF Dropped, vmVars, vars, callVars, taskVars
<1>39. CASE UNCHANGED vmVars
  BY <1>39 DEF vmVars, vars, callVars, taskVars
<1> QED
  BY <1>1, <1>2, <1>3, <1>4, <1>5, <1>6, <1>7, <1>8, <1>9, <1>10, <1>11, <1>12, <1>13,
     <1>14, <1>15, <1>16, <1>17, <1>18, <1>19, <1>20, <1>21, <1>22, <1>23, <1>24, <1>25,
     <1>26, <1>27, <1>28, <1>29, <1>30, <1>31, <1>32, <1>33, <1>34, <1>35, <1>36, <1>37,
     <1>38, <1>39
  DEF VmNext

-----------------------------------------------------------------------------
\* The request, its answer and what the Vm believes of the guest stay together.
LEMMA GuestSideStep ==
  ASSUME VmIInv, [VmNext]_vmVars
  PROVE  OneRequest' /\ AnswerIsTrue' /\ PauseIsOurs' /\ Tracked' /\ KillAfterPause'
<1> USE DEF VmIInv, VmTypes, VmTypeOK, RequestTask, ApiTask, Mode, LastRequest, CallOfTask,
        TodoOfTask, IdleTask, OneRequest, AnswerIsTrue, PauseIsOurs, Tracked, KillAfterPause,
        RequestOf, Return, Leave, GoTo, fieldVars, ghostVars, apiVars
<1>0. adrift' \in BOOLEAN /\ isPaused' \in BOOLEAN
  BY FieldStep
<1>1. CASE VmPrepare
  BY <1>1 DEF VmPrepare, Prepare, Enter, Suspend, Observed, Allowed, hostVars, vars, callVars
<1>2. CASE VmPrepared
  BY <1>2 DEF VmPrepared, PrepareProgress, PrepareOk, PrepareErr, callVars, taskVars
<1>3. CASE VmPrepareFiles
  BY <1>3 DEF VmPrepareFiles, vars, callVars
<1>4. ASSUME NEW op \in VmMethods, VmRefuse(op)
      PROVE  OneRequest' /\ AnswerIsTrue' /\ PauseIsOurs' /\ Tracked' /\ KillAfterPause'
  BY <1>4 DEF VmRefuse, QueryState
<1>5. CASE Start
  BY <1>5 DEF Start, VmEnter, VmState, VmAllowed, QueryState, Invoke, Enter, Suspend, Allowed
<1>6. CASE StartAgain
  BY <1>6 DEF StartAgain, QueryState
<1>7. CASE StartFiles
  BY <1>7 DEF StartFiles, Invoke, Enter, Suspend, Allowed, vars, callVars
<1>8. CASE StartInvoke
  BY <1>8 DEF StartInvoke, Spawn, InvokeOk, InvokeErr, taskVars
<1>9. CASE StartSocket
  BY <1>9 DEF StartSocket, vars, callVars, InitRequests
<1>10. CASE StartTimeout
  BY <1>10 DEF StartTimeout, vars, callVars
<1>11. CASE StartNext
  BY <1>11 DEF StartNext, Send, SendApiRequest, Enter, Suspend, Allowed, Refuse
<1>12. ASSUME NEW t \in ApiTask, ApiCall(t)
      PROVE  OneRequest' /\ AnswerIsTrue' /\ PauseIsOurs' /\ Tracked' /\ KillAfterPause'
  BY <1>12 DEF ApiCall, VmEnter, VmState, VmAllowed, Send, SendApiRequest, Enter, Suspend, Allowed
<1>13. CASE SocketOwned
  <2>1. /\ call = "chown" /\ call' = "request" /\ inbox' = RequestOf(task)
        /\ UNCHANGED <<task, todo, isPaused, guest, answer, mode, adrift>>
    BY <1>13 DEF SocketOwned, ChownOk, taskVars
  <2>2. task \in RequestTask
    BY <2>1 DEF VmTask
  <2>3. RequestOf(task) \in {"boot", "load"} => RequestOf(task) = LastRequest /\ mode # "json"
    BY <2>2
  <2>4. RequestOf(task)' = RequestOf(task) /\ RequestOf(task) # "none"
    BY <2>1, <2>2
  <2> HIDE DEF RequestOf
  <2> QED
    BY <2>1, <2>2, <2>3, <2>4
<1>14. CASE Serve
  <2>1. /\ inbox # "none" /\ inbox' = "none"
        /\ answer' # "none" => call = "request"
        /\ call = "request" => answer' # "none"
        /\ UNCHANGED <<task, todo, call, isPaused, mode, adrift>>
    BY <1>14 DEF Serve, vars, callVars, taskVars
  <2>2. answer = "none" /\ (call = "request" => inbox = RequestOf(task))
    BY <2>1
  <2>3. CASE UNCHANGED guest /\ answer' # "ok"
    BY <2>1, <2>2, <2>3
  <2>4. CASE /\ \E g \in GuestState : <<guest, g>> \in Effect(inbox) /\ guest' = g
              /\ answer' = IF call = "request" THEN "ok" ELSE "none"
    <3>1. /\ inbox = "boot" => guest = "configuring" /\ guest' = "running"
          /\ inbox = "load" => guest = "configuring" /\ guest' \in {"running", "paused"}
          /\ inbox = "load" /\ mode # "restorePaused" => mode = "restore" \/ guest' = "paused"
          /\ inbox = "load" /\ mode = "restore" => guest' = "running"
          /\ inbox = "pause" => guest' = "paused"
          /\ inbox = "resume" => guest' = "running"
          /\ inbox \notin {"boot", "load", "pause", "resume"} => guest' = guest
      BY <2>4 DEF Effect
    <3>2. RequestOf(task)' = RequestOf(task)
      BY <2>1
    <3> HIDE DEF RequestOf
    <3>3. OneRequest' /\ PauseIsOurs' /\ KillAfterPause'
      BY <2>1, <2>2, <3>2
    <3>4. AnswerIsTrue'
      BY <2>1, <2>2, <3>1, <3>2
    <3>5. CASE inbox \in {"pause", "resume"}
      BY <2>1, <2>2, <2>4, <3>1, <3>2, <3>3, <3>4, <3>5
    <3>6. CASE inbox \notin {"pause", "resume"}
      BY <2>1, <2>2, <3>1, <3>2, <3>3, <3>4, <3>6
    <3> QED
      BY <3>3, <3>4, <3>5, <3>6
  <2> QED
    BY <1>14, <2>3, <2>4 DEF Serve
<1>15. CASE InitAnswered
  BY <1>15 DEF InitAnswered, Answered, RequestDone
<1>16. CASE InitFails
  BY <1>16 DEF InitFails, RequestFails, Answered, Broken, ChownErr, RequestDone
<1>17. CASE PauseAnswered
  BY <1>17 DEF PauseAnswered, Answered, RequestDone
<1>18. CASE CustomAnswered
  BY <1>18 DEF CustomAnswered, Answered, RequestDone
<1>19. CASE CustomBroken
  BY <1>0, <1>19 DEF CustomBroken, Broken, ChownErr, RequestDone
<1>20. CASE OtherAnswered
  BY <1>20 DEF OtherAnswered, Answered, RequestDone
<1>21. CASE ApiCallFails
  BY <1>0, <1>21 DEF ApiCallFails, RequestFails, Answered, Broken, ChownErr, RequestDone
<1>22. CASE Shutdown
  BY <1>22 DEF Shutdown, VmEnter, QueryState
<1>23. CASE TryCtrlAltDel
  BY <1>23 DEF TryCtrlAltDel, Trying, Send, SendApiRequest, Enter, Suspend, Allowed, Refuse,
               MethodFails
<1>24. CASE TryPause
  BY <1>24 DEF TryPause, Trying, Send, SendApiRequest, Enter, Suspend, Allowed, VmState,
               QueryState, MethodFails
<1>25. CASE TryKill
  BY <1>25 DEF TryKill, Trying, SendSigkill, Enter, ChildExpected, Allowed, Refuse, MethodFails
<1>26. CASE CtrlAltDelAnswered
  BY <1>26 DEF CtrlAltDelAnswered, Answered, RequestDone
<1>27. CASE ShutdownPauseAnswered
  BY <1>27 DEF ShutdownPauseAnswered, Answered, RequestDone
<1>28. CASE ShutdownRequestFails
  BY <1>0, <1>28 DEF ShutdownRequestFails, RequestFails, Answered, Broken, ChownErr,
                     RequestDone, MethodFails
<1>29. CASE ShutdownWait \/ ShutdownWaitFails
  BY <1>29 DEF ShutdownWait, ShutdownWaitFails, WaitForExit, Enter, ChildExpected, Allowed,
               Suspend, Refuse, WaitDone, WaitFails, taskVars
<1>30. CASE ShutdownTimeout
  BY <1>30 DEF ShutdownTimeout, Cancel, MethodFails
<1>31. CASE ShutdownEnd
  BY <1>31 DEF ShutdownEnd, vars, callVars
<1>32. CASE VmTakePipes
  BY <1>32 DEF VmTakePipes, TakePipes, Enter, ChildExpected, Allowed
<1>33. CASE VmCleanup
  BY <1>33 DEF VmCleanup, VmEnter, Cleanup, Enter, Suspend, Allowed
<1>34. CASE VmCleanedUp
  BY <1>34 DEF VmCleanedUp, CleanupProgress, CleanupErr, CleanupOk, callVars, vars, taskVars
<1>35. CASE VmCancel
  BY <1>35 DEF VmCancel, Cancel, vars, callVars
<1>36. CASE GuestStep
  BY <1>36 DEF GuestStep, vars, callVars, taskVars
<1>37. CASE VmHostStep
  BY <1>37 DEF VmHostStep, HostStep, VmmExit, ShellExit, Killed, callVars, taskVars
<1>38. CASE Dropped
  BY <1>38 DEF Dropped, vmVars, vars, callVars, taskVars
<1>39. CASE UNCHANGED vmVars
  BY <1>39 DEF vmVars, vars, callVars, taskVars
<1> QED
  BY <1>1, <1>2, <1>3, <1>4, <1>5, <1>6, <1>7, <1>8, <1>9, <1>10, <1>11, <1>12, <1>13,
     <1>14, <1>15, <1>16, <1>17, <1>18, <1>19, <1>20, <1>21, <1>22, <1>23, <1>24, <1>25,
     <1>26, <1>27, <1>28, <1>29, <1>30, <1>31, <1>32, <1>33, <1>34, <1>35, <1>36, <1>37,
     <1>38, <1>39
  DEF VmNext

\* The variables of a Vm keep their types.
LEMMA TypesStep ==
  ASSUME VmIInv, [VmNext]_vmVars
  PROVE  VmTypes'
<1> USE DEF VmIInv, VmTypes, VmTypeOK
<1>1. todo' \in Seq(TodoItem)
  BY TodoStep, TodoLists DEF TodoItem
<1>2. mode' = mode /\ task' \in VmTask /\ CallOfTask' /\ TodoOfTask' /\ OneRequest'
  BY FieldStep, ControlStep, GuestSideStep
<1>3. task' \in RequestTask => RequestOf(task)' \in Request
  BY <1>2 DEF Mode, TodoOfTask, RequestTask, ApiTask, RequestOf, Request, LastRequest
<1>4. call' = "request" => inbox' \in Request \union {"none"}
  BY <1>2, <1>3 DEF CallOfTask, OneRequest, VmTask
<1>5. inbox' \in Request \union {"none"}
  BY <1>4, FieldStep
<1> QED
  BY <1>1, <1>2, <1>5, FieldStep DEF TodoItem

\* Once start has returned Ok, the guest has booted, and stays up.
LEMMA BootedByStartStep ==
  ASSUME VmIInv, [VmNext]_vmVars
  PROVE  BootedByStart'
<1> DEFINE StartOk == [op |-> "start", res |-> "Ok"]
           Up == guest \in {"running", "paused"}
<1> USE DEF Return, Leave, GoTo, VmReply, NoReply, MethodFails, Send
<1>1. ASSUME vmReply' # StartOk
      PROVE  BootedByStart'
  BY <1>1 DEF BootedByStart
<1>2. ASSUME UNCHANGED <<vmReply, mode>>, Up => Up'
      PROVE  BootedByStart'
  BY <1>2 DEF VmIInv, BootedByStart
<1>3. ASSUME NEW op \in VmMethods, VmRefuse(op)
      PROVE  BootedByStart'
  BY <1>1, <1>3 DEF VmRefuse
<1>4. ASSUME NEW t \in ApiTask, ApiCall(t)
      PROVE  BootedByStart'
  BY <1>1, <1>4 DEF ApiCall
<1>5. CASE VmPrepare \/ VmPrepared \/ VmPrepareFiles
  BY <1>1, <1>2, <1>5 DEF VmPrepare, VmPrepared, VmPrepareFiles, taskVars, ghostVars, apiVars
<1>6. CASE Start \/ StartAgain \/ StartFiles \/ StartInvoke \/ StartTimeout \/ StartNext
  BY <1>1, <1>2, <1>6 DEF Start, StartAgain, StartFiles, StartInvoke, StartTimeout, StartNext,
                          taskVars, ghostVars, apiVars
<1>7. CASE StartSocket
  BY <1>1, <1>2, <1>7 DEF StartSocket, BootedByStart, ghostVars, apiVars
<1>8. CASE InitAnswered
  <2>1. /\ task = "start_init" /\ answer = "ok"
        /\ UNCHANGED <<guest, mode>>
    BY <1>8 DEF InitAnswered, Answered, ghostVars
  <2>2. CASE Len(todo) = 1
    <3>1. todo = <<LastRequest>>
      BY <2>1, <2>2 DEF VmIInv, TodoOfTask
    <3>2. RequestOf(task) \in {"boot", "load"}
      BY <2>1, <3>1 DEF RequestOf, LastRequest
    <3> QED
      BY <2>1, <3>2 DEF VmIInv, AnswerIsTrue, BootedByStart
  <2>3. CASE UNCHANGED vmReply
    BY <1>2, <2>1, <2>3
  <2> QED
    BY <1>8, <2>2, <2>3 DEF InitAnswered
<1>9. CASE InitFails \/ PauseAnswered \/ CustomAnswered \/ CustomBroken \/ OtherAnswered
             \/ ApiCallFails
  BY <1>1, <1>9 DEF InitFails, PauseAnswered, CustomAnswered, CustomBroken, OtherAnswered,
                    ApiCallFails
<1>10. CASE VmTakePipes \/ VmCleanup \/ VmCleanedUp \/ VmCancel
  BY <1>1, <1>2, <1>10 DEF VmTakePipes, VmCleanup, VmCleanedUp, VmCancel, taskVars, ghostVars,
                           apiVars
<1>11. CASE Shutdown \/ TryCtrlAltDel \/ TryPause \/ TryKill
  BY <1>1, <1>2, <1>11 DEF Shutdown, TryCtrlAltDel, TryPause, TryKill, ghostVars, apiVars
<1>12. CASE CtrlAltDelAnswered \/ ShutdownPauseAnswered
  BY <1>1, <1>12 DEF CtrlAltDelAnswered, ShutdownPauseAnswered
<1>13. CASE ShutdownRequestFails
  BY <1>2, <1>13 DEF ShutdownRequestFails, RequestFails, Answered, Broken, apiVars
<1>14. CASE ShutdownWait \/ ShutdownWaitFails \/ ShutdownTimeout \/ ShutdownEnd
  BY <1>1, <1>2, <1>14 DEF ShutdownWait, ShutdownWaitFails, ShutdownTimeout, ShutdownEnd,
               taskVars, ghostVars,
                           apiVars
<1>15. CASE Serve
  BY <1>2, <1>15 DEF Serve, Effect, taskVars, ghostVars
<1>16. CASE SocketOwned \/ GuestStep \/ VmHostStep \/ Dropped \/ UNCHANGED vmVars
  BY <1>2, <1>16 DEF SocketOwned, GuestStep, VmHostStep, Dropped, vmVars, taskVars, ghostVars,
                     apiVars
<1> QED
  BY <1>3, <1>4, <1>5, <1>6, <1>7, <1>8, <1>9, <1>10, <1>11, <1>12, <1>13, <1>14, <1>15, <1>16
  DEF VmNext

\* Every step preserves VmIInv.
LEMMA VmNextVmIInv == VmIInv /\ [VmNext]_vmVars => VmIInv'
<1> SUFFICES ASSUME VmIInv, [VmNext]_vmVars
             PROVE  VmIInv'
  OBVIOUS
<1>1. IInv'
  BY VmNextIsNext, NextIInv DEF VmIInv
<1> QED
  BY <1>1, TypesStep, ControlStep, GuestSideStep, BootedByStartStep DEF VmIInv

\* VmIInv holds of a new Vm.
LEMMA VmInitVmIInv == VmInit => VmIInv
<1> SUFFICES ASSUME VmInit
             PROVE  VmIInv
  OBVIOUS
<1>1. IInv
  BY InitIInv DEF VmInit
<1>2. VmTypes
  <2>1. todo \in Seq(TodoItem)
    BY DEF VmInit
  <2> QED
    BY <2>1 DEF VmInit, VmTypes, VmTypeOK, TodoItem, GuestState, VmTask, IdleTask, Mode
<1>3. CallOfTask /\ PreparedFirst /\ TodoOfTask
  BY DEF VmInit, Init, CallOfTask, PreparedFirst, TodoOfTask, IdleTask, RequestTask, ApiTask
<1>4. OneRequest /\ AnswerIsTrue /\ PauseIsOurs /\ Tracked
  BY DEF VmInit, Init, OneRequest, AnswerIsTrue, PauseIsOurs, Tracked
<1>5. PausedSinceStart /\ KillAfterPause /\ BootedByStart
  BY DEF VmInit, Init, PausedSinceStart, KillAfterPause, BootedByStart
<1> QED
  BY <1>1, <1>2, <1>3, <1>4, <1>5 DEF VmIInv

-----------------------------------------------------------------------------
\* The strengthened invariant holds in every reachable state.
THEOREM VmInductiveInvariant == VmSpec => []VmIInv
  BY VmInitVmIInv, VmNextVmIInv, PTL DEF VmSpec

\* Every variable of a Vm keeps its type, for any lists of shutdown methods.
THEOREM VmTypeCorrect == VmSpec => []VmTypeOK
  BY VmInductiveInvariant, PTL DEF VmIInv, VmTypes

\* Between two calls state() says Paused exactly when the guest is paused, whatever
\* was dropped, timed out or failed before, unless a request to pause or resume was
\* lost (mod.rs: is_paused follows the response of Firecracker).
THEOREM PauseIsTracked == VmSpec => []TrackedPause
<1>1. VmIInv => TrackedPause
  BY DEF VmIInv, Tracked, TrackedPause, CallOfTask, IdleTask, OneRequest
<1> QED
  BY <1>1, VmInductiveInvariant, PTL

\* When start has returned Ok, the guest of a living VMM has booted or was loaded.
THEOREM StartBoots == VmSpec => []StartOkMeansBooted
<1>1. VmIInv => StartOkMeansBooted
  BY DEF VmIInv, BootedByStart, StartOkMeansBooted
<1> QED
  BY <1>1, VmInductiveInvariant, PTL

\* PauseThenKill sends SIGKILL only to a guest that is really paused.
THEOREM KillIsAfterPause == VmSpec => []PausedBeforeKill
<1>1. VmIInv => PausedBeforeKill
  BY DEF VmIInv, KillAfterPause, PausedBeforeKill
<1> QED
  BY <1>1, VmInductiveInvariant, PTL

-----------------------------------------------------------------------------
(***************************************************************************)
(* The lifecycle.  The process decides what becomes of the environment and *)
(* of its launch; the Vm decides when there is a Vm, and whether it calls  *)
(* a running one Paused.                                                   *)
(***************************************************************************)

\* What a step of the process may do to the environment.
LEMMA EnvStep ==
  ASSUME [Next]_vars
  PROVE  \/ env' = env
         \/ call = "prepare" /\ env' = "partial" /\ UNCHANGED callVars
         \/ call = "prepare" /\ env' = "ready" /\ call' = "none"
         \/ call = "cleanup" /\ env' \in {"partial", "absent"}
<1>1. CASE CallStart
  BY <1>1 DEF CallStart, QueryState, Prepare, Invoke, SendApiRequest, TakePipes, SendSigkill,
              WaitForExit, Cleanup, Refuse, ChildExpected, hostVars
<1>2. CASE CallStep
  BY <1>2 DEF CallStep, PrepareProgress, PrepareOk, PrepareErr, Spawn, InvokeOk, InvokeErr,
      ChownOk, ChownErr, RequestDone, WaitDone, WaitFails, CleanupProgress, CleanupOk, CleanupErr,
      Cancel, hostVars
<1>3. CASE HostStep \/ UNCHANGED vars
  BY <1>3 DEF HostStep, VmmExit, ShellExit, Killed, vars, hostVars
<1> QED
  BY <1>1, <1>2, <1>3 DEF Next

\* A launch is noticed once, perhaps when it has ended already, and ends once.
LEMMA ObservedStep ==
  ASSUME IInv, [Next]_vars, state # "AwaitingPrepare"
  PROVE  \/ Observed' = Observed
         \/ /\ Observed = "AwaitingStart" /\ Observed' \in {"Started"} \union Terminal
            /\ call = "spawned"
         \/ /\ Observed = "Started" /\ Observed' \in Terminal
            /\ call' = call
<1> USE NoPidAssumption
    DEF IInv, TypeOK, ProcessState, Terminal, OsStatus, Dead, ChildTracksState, CallMatchesState,
        TerminalMatchesStatus, Observed
<1>1. CASE SendSigkill
  BY <1>1 DEF SendSigkill, Enter, Allowed, ChildExpected
<1>2. CASE CallStart /\ ~SendSigkill
  BY <1>2 DEF CallStart, QueryState, Prepare, Invoke, SendApiRequest, TakePipes, WaitForExit,
              Cleanup, Refuse, Enter, ChildExpected, hostVars
<1>3. CASE InvokeOk
  BY <1>3 DEF InvokeOk, hostVars
<1>4. ASSUME NEW p \in Pid, Spawn(p)
      PROVE  Observed' = Observed
  BY <1>4 DEF Spawn, selfVars
<1>5. CASE PrepareProgress \/ PrepareOk \/ PrepareErr \/ InvokeErr \/ ChownOk \/ ChownErr
             \/ RequestDone \/ WaitDone \/ WaitFails \/ CleanupProgress \/ CleanupOk
             \/ CleanupErr \/ Cancel
  BY <1>5 DEF PrepareProgress, PrepareOk, PrepareErr, InvokeErr, ChownOk, ChownErr, RequestDone,
              WaitDone, WaitFails, CleanupProgress, CleanupOk, CleanupErr, Cancel, selfVars,
              hostVars
<1>6. CASE HostStep
  BY <1>6 DEF HostStep, VmmExit, ShellExit, Killed, selfVars, callVars
<1>7. CASE UNCHANGED vars
  BY <1>7 DEF vars, selfVars, hostVars
<1> QED
  BY <1>1, <1>2, <1>3, <1>4, <1>5, <1>6, <1>7 DEF Next, CallStart, CallStep

\* There is no Vm before prepare has returned, and none once a prepare has failed.
Unborn == {"new", "prepare", "prepare_files"}
HasVm == task \notin Unborn \union {"dropped"}

\* A Vm stays one, and is_paused changes only when a request is answered, which leaves
\* the process alone.
LEMMA LivingStep ==
  ASSUME VmIInv, [VmNext]_vmVars, HasVm
  PROVE  HasVm' /\ (isPaused' = isPaused \/ UNCHANGED <<selfVars, hostVars>>)
<1> USE DEF HasVm, Unborn, Return, Leave, GoTo, MethodFails, Send, fieldVars, taskVars
<1>1. ASSUME NEW op \in VmMethods, VmRefuse(op)
      PROVE  HasVm' /\ isPaused' = isPaused
  BY <1>1 DEF VmRefuse
<1>2. ASSUME NEW t \in ApiTask, ApiCall(t)
      PROVE  HasVm' /\ isPaused' = isPaused
  BY <1>2 DEF ApiCall, ApiTask
<1>3. CASE Start \/ StartAgain \/ StartFiles \/ StartInvoke \/ StartSocket \/ StartTimeout
             \/ StartNext \/ InitAnswered \/ InitFails
  BY <1>3 DEF Start, StartAgain, StartFiles, StartInvoke, StartSocket, StartTimeout, StartNext,
              InitAnswered, InitFails
<1>4. CASE PauseAnswered \/ CustomAnswered \/ ShutdownPauseAnswered
  BY <1>4 DEF PauseAnswered, CustomAnswered, ShutdownPauseAnswered, Answered, RequestDone
<1>5. CASE CustomBroken \/ OtherAnswered \/ ApiCallFails
  BY <1>5 DEF CustomBroken, OtherAnswered, ApiCallFails
<1>6. CASE Shutdown \/ TryCtrlAltDel \/ TryPause \/ TryKill \/ CtrlAltDelAnswered
             \/ ShutdownRequestFails \/ ShutdownWait \/ ShutdownWaitFails \/ ShutdownTimeout
             \/ ShutdownEnd
  BY <1>6 DEF Shutdown, TryCtrlAltDel, TryPause, TryKill, CtrlAltDelAnswered,
              ShutdownRequestFails, ShutdownWait, ShutdownWaitFails, ShutdownTimeout, ShutdownEnd
<1>7. CASE VmTakePipes \/ VmCleanup \/ VmCleanedUp \/ VmCancel
  BY <1>7 DEF VmTakePipes, VmCleanup, VmCleanedUp, VmCancel
<1>8. CASE SocketOwned \/ Serve \/ GuestStep \/ VmHostStep \/ Dropped \/ UNCHANGED vmVars
  BY <1>8 DEF SocketOwned, Serve, GuestStep, VmHostStep, Dropped, vmVars
<1>9. CASE VmPrepare \/ VmPrepared \/ VmPrepareFiles
  BY <1>9 DEF VmPrepare, VmPrepared, VmPrepareFiles
<1> QED
  BY <1>1, <1>2, <1>3, <1>4, <1>5, <1>6, <1>7, <1>8, <1>9 DEF VmNext

\* A step before there is a Vm builds the environment, creates the Vm or loses it.
LEMMA UnbornStep ==
  ASSUME VmIInv, [VmNext]_vmVars, task \in Unborn
  PROVE  \/ task' \in Unborn /\ env' \in {env, "partial", "ready"}
         \/ task' = "dropped" /\ env' = env
         \/ HasVm' /\ env' = env /\ env = "ready" /\ VmState' = "NotStarted"
<1> USE DEF HasVm, Unborn, Return, Leave, GoTo
<1>1. CASE VmPrepare
  BY <1>1 DEF VmPrepare, Prepare, vars, hostVars
<1>2. CASE VmPrepared
  BY <1>2 DEF VmPrepared, PrepareProgress, PrepareOk, PrepareErr, taskVars, hostVars
<1>3. CASE VmPrepareFiles
  <2>1. child = NoPid /\ state = "AwaitingStart" /\ env = "ready"
    BY <1>3 DEF VmPrepareFiles, VmIInv, PreparedFirst, IInv, ChildTracksState, ReadyEnv
  <2>2. UNCHANGED <<child, state, env>>
    BY <1>3 DEF VmPrepareFiles, vars, selfVars, hostVars
  <2>3. VmState' = "NotStarted"
    BY <2>1, <2>2 DEF VmState, Observed, Terminal
  <2> QED
    BY <1>3, <2>1, <2>2, <2>3 DEF VmPrepareFiles
<1>4. CASE VmCancel
  <2>1. task \in {"prepare", "prepare_files"}
    BY <1>4 DEF VmCancel, VmIInv, CallOfTask, IdleTask
  <2> QED
    BY <1>4, <2>1 DEF VmCancel, Cancel, vars, hostVars
<1>5. CASE VmHostStep
  BY <1>5 DEF VmHostStep, HostStep, VmmExit, ShellExit, Killed, taskVars
<1>6. CASE Serve \/ GuestStep \/ Dropped \/ UNCHANGED vmVars
  BY <1>6 DEF Serve, GuestStep, Dropped, vmVars, vars, taskVars, hostVars
<1>7. CASE SocketOwned
  BY <1>7 DEF SocketOwned, ChownOk, taskVars, hostVars
<1>8. ASSUME NEW op \in VmMethods
      PROVE  ~VmRefuse(op)
  BY DEF VmRefuse
<1>9. ASSUME NEW t \in ApiTask
      PROVE  ~ApiCall(t)
  BY DEF ApiCall, VmEnter
<1>10. ~ \/ Start \/ StartAgain \/ StartFiles \/ StartInvoke \/ StartSocket \/ StartTimeout
         \/ StartNext \/ InitAnswered \/ InitFails
  BY DEF Start, StartAgain, StartFiles, StartInvoke, StartSocket, StartTimeout, StartNext,
         InitAnswered, InitFails, VmEnter
<1>11. ~ \/ PauseAnswered \/ CustomAnswered \/ CustomBroken \/ OtherAnswered \/ ApiCallFails
         \/ ShutdownPauseAnswered
  BY DEF PauseAnswered, CustomAnswered, CustomBroken, OtherAnswered, ApiCallFails,
         ShutdownPauseAnswered
<1>12. ~ \/ Shutdown \/ TryCtrlAltDel \/ TryPause \/ TryKill \/ CtrlAltDelAnswered
         \/ ShutdownRequestFails \/ ShutdownWait \/ ShutdownWaitFails \/ ShutdownTimeout
         \/ ShutdownEnd
  BY DEF Shutdown, TryCtrlAltDel, TryPause, TryKill, Trying, CtrlAltDelAnswered,
         ShutdownRequestFails, ShutdownWait, ShutdownWaitFails, ShutdownTimeout, ShutdownEnd,
         VmEnter
<1>13. ~(VmTakePipes \/ VmCleanup \/ VmCleanedUp)
  BY DEF VmTakePipes, VmCleanup, VmCleanedUp, VmEnter
<1> QED
  BY <1>1, <1>2, <1>3, <1>4, <1>5, <1>6, <1>7, <1>8, <1>9, <1>10, <1>11, <1>12, <1>13 DEF VmNext

\* A dropped process is left as it is: only its VMM may still end.
LEMMA DroppedStep ==
  ASSUME VmIInv, [VmNext]_vmVars, task = "dropped"
  PROVE  task' = "dropped" /\ env' = env
<1>1. call = "none"
  BY DEF VmIInv, CallOfTask, IdleTask
<1>2. CASE VmHostStep
  BY <1>2 DEF VmHostStep, HostStep, VmmExit, ShellExit, Killed, taskVars
<1>3. CASE Serve \/ GuestStep \/ Dropped \/ UNCHANGED vmVars
  BY <1>3 DEF Serve, GuestStep, Dropped, vmVars, vars, taskVars, hostVars
<1>4. ASSUME NEW op \in VmMethods
      PROVE  ~VmRefuse(op)
  BY DEF VmRefuse
<1>5. ASSUME NEW t \in ApiTask
      PROVE  ~ApiCall(t)
  BY DEF ApiCall, VmEnter
<1>6. ~ \/ VmPrepare \/ VmPrepared \/ VmPrepareFiles \/ Start \/ StartAgain \/ StartFiles
        \/ StartInvoke \/ StartSocket \/ StartTimeout \/ StartNext \/ InitAnswered \/ InitFails
        \/ SocketOwned
  BY <1>1 DEF VmPrepare, VmPrepared, VmPrepareFiles, Start, StartAgain, StartFiles, StartInvoke,
      StartSocket, StartTimeout, StartNext, InitAnswered, InitFails, VmEnter, SocketOwned, ChownOk
<1>7. ~ \/ PauseAnswered \/ CustomAnswered \/ CustomBroken \/ OtherAnswered \/ ApiCallFails
        \/ ShutdownPauseAnswered \/ VmCancel
  BY <1>1 DEF PauseAnswered, CustomAnswered, CustomBroken, OtherAnswered, ApiCallFails,
      ShutdownPauseAnswered, VmCancel
<1>8. ~ \/ Shutdown \/ TryCtrlAltDel \/ TryPause \/ TryKill \/ CtrlAltDelAnswered
        \/ ShutdownRequestFails \/ ShutdownWait \/ ShutdownWaitFails \/ ShutdownTimeout
        \/ ShutdownEnd
  BY DEF Shutdown, TryCtrlAltDel, TryPause, TryKill, Trying, CtrlAltDelAnswered,
         ShutdownRequestFails, ShutdownWait, ShutdownWaitFails, ShutdownTimeout, ShutdownEnd,
         VmEnter
<1>9. ~(VmTakePipes \/ VmCleanup \/ VmCleanedUp)
  BY DEF VmTakePipes, VmCleanup, VmCleanedUp, VmEnter
<1> QED
  BY <1>2, <1>3, <1>4, <1>5, <1>6, <1>7, <1>8, <1>9 DEF VmNext

\* Every step of a Vm is a step of its lifecycle, or none.
LEMMA LifecycleStep ==
  ASSUME VmIInv, VmIInv', [VmNext]_vmVars
  PROVE  [Lifecycle!Next]_(Lifecycle!lifecycleVars)
<1> USE DEF Lifecycle!Next, Lifecycle!lifecycleVars, Lifecycle!Ended
<1>1. CASE task \in Unborn
  BY <1>1, UnbornStep
  DEF HasVm, Unborn, Lifecycle!Build, Lifecycle!Complete, Lifecycle!Create, Lifecycle!Lose
<1>2. CASE task = "dropped"
  BY <1>2, DroppedStep
<1>3. CASE HasVm
  <2>1. /\ HasVm /\ HasVm'
        /\ task \notin {"new", "prepare", "prepare_files", "dropped"}
        /\ task' \notin {"new", "prepare", "prepare_files", "dropped"}
    BY <1>3, LivingStep DEF HasVm, Unborn
  <2>2. [Next]_vars /\ state # "AwaitingPrepare" /\ IInv /\ PausedSinceStart'
        /\ isPaused \in BOOLEAN /\ isPaused' \in BOOLEAN
    BY <2>1, VmNextIsNext DEF VmIInv, PreparedFirst, VmTypes, VmTypeOK
  <2>3. CASE VmState' = VmState /\ env' = env
    BY <2>1, <2>3
  <2>4. CASE env' # env
    <3>1. call = "cleanup" /\ env' \in {"partial", "absent"}
      BY <2>1, <2>2, <2>4, EnvStep DEF VmIInv, CallOfTask, HasVm, Unborn, VmTypes, VmTask
    <3>2. state \in Terminal
      BY <2>2, <3>1 DEF IInv, CallMatchesState
    <3>3. Observed \in Terminal /\ Observed' = Observed
      BY <2>2, <3>2, ObservedFrom, ObservedStep DEF Terminal
    <3> QED
      BY <2>1, <3>1, <3>3 DEF VmState, Terminal, Lifecycle!CleanUp
  <2>5. CASE env' = env /\ isPaused' # isPaused
    <3>1. Observed' = Observed
      BY <1>3, <2>5, LivingStep DEF Observed, selfVars, hostVars
    <3> QED
      BY <2>1, <2>2, <2>5, <3>1 DEF VmState, Terminal, Lifecycle!Pause, Lifecycle!Resume
  <2>6. CASE env' = env /\ isPaused' = isPaused
    <3>1. Observed = "AwaitingStart" => ~isPaused
      BY <2>2, ObservedFrom DEF VmIInv, PausedSinceStart, Terminal
    <3> QED
      BY <2>1, <2>2, <2>6, <3>1, ObservedStep
      DEF VmState, Terminal, Lifecycle!Boot, Lifecycle!End
  <2> QED
    BY <2>4, <2>5, <2>6
<1> QED
  BY <1>1, <1>2, <1>3 DEF HasVm

\* Whatever is dropped, fails or crashes, a Vm is prepared, boots once, may be paused and
\* resumed, ends for good, and its environment is removed only after it has ended.
THEOREM VmImplementsLifecycle == VmSpec => ImplementsLifecycle
<1>1. VmInit => Lifecycle!Init
  BY DEF VmInit, Init, Lifecycle!Init
<1> QED
  BY <1>1, LifecycleStep, VmInductiveInvariant, PTL
  DEF VmSpec, ImplementsLifecycle, Lifecycle!Spec

-----------------------------------------------------------------------------
\* The outer paths of the process are taken twice only by a caller that prepares it
\* twice, and a Vm never does: "Outer paths cannot ever be none, unreachable"
\* (process.rs:160), which a bare VmmProcess does not keep, holds inside a Vm.
THEOREM VmPreparesOnce == VmSpec => []OuterPathsExpectHolds
<1> DEFINE Panicked == reply.op = "prepare" /\ reply.res = "Panic"
<1>1. VmInit => ~Panicked
  BY DEF VmInit, Init
<1>2. ASSUME VmIInv, ~Panicked, [VmNext]_vmVars
      PROVE  ~Panicked'
  <2>1. CASE UNCHANGED reply
    BY <1>2, <2>1
  <2>2. ASSUME NEW op \in {"state", "invoke", "send_api_request", "take_pipes", "send_sigkill",
                           "wait_for_exit", "cleanup", "none"},
               NEW res \in {"Ok", "Err", "Panic", "none"}, reply' = [op |-> op, res |-> res]
        PROVE  ~Panicked'
    BY <2>2
  <2> USE DEF Reply, Suspend, NoReply, callVars
  <2>3. CASE VmPrepare
    <3>1. reply' = NoReply \/ UNCHANGED reply
      BY <1>2, <2>3 DEF VmPrepare, Prepare, VmIInv, PreparedFirst, vars
    <3> QED
      BY <2>1, <2>2, <3>1
  <2>4. CASE VmPrepared
    <3>1. UNCHANGED reply \/ reply'.res \in {"Ok", "Err"}
      BY <2>4 DEF VmPrepared, PrepareProgress, PrepareOk, PrepareErr
    <3> QED
      BY <2>1, <3>1
  <2> USE DEF Send, QueryState, Refuse, SendApiRequest, ChildExpected, vars
  <2>5. ASSUME NEW op \in VmMethods, VmRefuse(op)
        PROVE  ~Panicked'
    BY <2>2, <2>5 DEF VmRefuse
  <2>6. ASSUME NEW t \in ApiTask, ApiCall(t)
        PROVE  ~Panicked'
    BY <2>2, <2>6 DEF ApiCall
  <2>7. CASE Start \/ StartAgain \/ StartFiles \/ StartNext
    BY <2>1, <2>2, <2>7 DEF Start, StartAgain, StartFiles, StartNext, Invoke
  <2>8. CASE StartInvoke
    BY <2>1, <2>2, <2>8 DEF StartInvoke, Spawn, InvokeOk, InvokeErr
  <2>9. CASE VmPrepareFiles \/ StartSocket \/ StartTimeout \/ ShutdownEnd \/ Serve \/ GuestStep
             \/ Dropped \/ UNCHANGED vmVars
    BY <2>1, <2>9 DEF VmPrepareFiles, StartSocket, StartTimeout, ShutdownEnd, Serve, GuestStep,
                      Dropped, vmVars
  <2>10. CASE InitAnswered \/ PauseAnswered \/ CustomAnswered \/ OtherAnswered
                \/ CtrlAltDelAnswered \/ ShutdownPauseAnswered
    BY <2>2, <2>10 DEF InitAnswered, PauseAnswered, CustomAnswered, OtherAnswered,
                       CtrlAltDelAnswered, ShutdownPauseAnswered, Answered, RequestDone
  <2>11. CASE InitFails \/ CustomBroken \/ ApiCallFails \/ ShutdownRequestFails
    BY <2>2, <2>11 DEF InitFails, CustomBroken, ApiCallFails, ShutdownRequestFails, RequestFails,
                       Answered, Broken, RequestDone, ChownErr
  <2>12. CASE Shutdown \/ TryCtrlAltDel \/ TryPause \/ TryKill
    BY <2>2, <2>12 DEF Shutdown, TryCtrlAltDel, TryPause, TryKill, SendSigkill
  <2>13. CASE ShutdownWait \/ ShutdownWaitFails \/ ShutdownTimeout
    BY <2>1, <2>2, <2>13 DEF ShutdownWait, ShutdownWaitFails, ShutdownTimeout, WaitForExit,
        WaitDone, WaitFails, Cancel
  <2>14. CASE VmTakePipes
    BY <2>2, <2>14 DEF VmTakePipes, TakePipes
  <2>15. CASE VmCleanup \/ VmCleanedUp
    BY <2>1, <2>2, <2>15 DEF VmCleanup, VmCleanedUp, Cleanup, CleanupProgress, CleanupOk, CleanupErr
  <2>16. CASE VmCancel \/ SocketOwned \/ VmHostStep
    BY <2>1, <2>16 DEF VmCancel, Cancel, SocketOwned, ChownOk, VmHostStep, HostStep, VmmExit,
                       ShellExit, Killed
  <2> QED
    BY <1>2, <2>3, <2>4, <2>5, <2>6, <2>7, <2>8, <2>9, <2>10, <2>11, <2>12, <2>13, <2>14, <2>15,
       <2>16 DEF VmNext
<1> QED
  BY <1>1, <1>2, VmInductiveInvariant, PTL DEF VmSpec, OuterPathsExpectHolds

=============================================================================
