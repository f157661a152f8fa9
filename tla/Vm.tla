--------------------------------- MODULE Vm ---------------------------------
(***************************************************************************)
(* Layer 4 of fctools: Vm<E, S> of src/src/vm, on top of VmmProcess.       *)
(*                                                                         *)
(* A Vm owns a VmmProcess and drives it: every action below that reaches   *)
(* the process is conjoined with the VmmProcess action it calls, so the    *)
(* process keeps its own guards, failures and cancellations.  `task` is    *)
(* where the Vm method in flight is suspended; a Vm method takes &mut self *)
(* and so excludes the others.  The guest and the API server of Firecracker*)
(* are external: they answer, or do not, at any moment.                    *)
(***************************************************************************)
EXTENDS VmmProcess, Sequences

CONSTANTS
    MinMethods, MaxMethods  \* bounds on the length of the list given to shutdown

ASSUME MethodsAssumption == MinMethods \in Nat /\ MaxMethods \in Nat

VARIABLES
    \* The fields of Vm that its methods read and change.
    configuration, \* the VmConfiguration, or "none" once start has taken it
    isPaused,      \* is_paused
    \* The method in flight.
    task,          \* its await point, or "none"; "new" and "dropped" have no Vm
    todo,          \* init requests, or shutdown methods, that are left
    lastResult,    \* last_result of shutdown
    vmReply,       \* [op, res] of the last Vm method, NoReply while one is in flight
    \* Firecracker.
    mode,          \* what the configuration makes of the guest; never changes
    guest,         \* "none" until the API socket is bound
    inbox,         \* the request that the API server has not handled yet
    answer,        \* its answer, on the way to the caller
    \* History.
    adrift         \* a pause or resume was not answered with success

fieldVars == <<configuration, isPaused>>
taskVars == <<task, todo, lastResult, vmReply>>
apiVars == <<guest, inbox, answer>>
ghostVars == <<mode, adrift>>
vmVars == <<vars, fieldVars, taskVars, apiVars, ghostVars>>

-----------------------------------------------------------------------------
Mode == {"api", "json", "restore", "restorePaused"}
GuestState == {"none", "configuring", "running", "paused"}
ShutdownMethod == {"CtrlAltDel", "PauseThenKill", "Kill"}

\* Mutant: InstanceStart is forgotten.
InitRequestsNoBoot(m) == CASE m = "api"  -> <<"config">>
                           [] m = "json" -> << >>
                           [] OTHER      -> <<"config", "load">>

\* init_new and init_restored_from_snapshot: any of the requests before the last
\* one may fail as "config" does; the last one brings the guest to life.
InitRequests(m) == CASE m = "api"  -> <<"config", "boot">>
                     [] m = "json" -> << >>
                     [] OTHER      -> <<"config", "load">>

\* The request each suspended method has sent.
RequestOf(t) == CASE t = "start_init"      -> Head(todo)
                  [] t = "shutdown_ctrl"   -> "ctrlaltdel"
                  [] t = "shutdown_pause"  -> "pause"
                  [] t = "custom_pause"    -> "pause"
                  [] t = "custom_resume"   -> "resume"
                  [] OTHER                 -> t

ApiTask == {"info", "pause", "resume", "snapshot", "custom_pause", "custom_resume"}

\* state(): the process state, split by is_paused while it is Started.
VmState == IF Observed = "Started" THEN IF isPaused THEN "Paused" ELSE "Running"
           ELSE IF Observed \in Terminal THEN Observed
           ELSE "NotStarted"

VmAllowed(op) == CASE op = "start"                 -> {"NotStarted"}
                   [] op = "cleanup"               -> Terminal
                   [] op = "pause"                 -> {"Running"}
                   [] op \in {"resume", "snapshot"} -> {"Paused"}
                   [] OTHER                        -> {"Running", "Paused"}

VmMethods == {"start", "shutdown", "cleanup", "take_pipes"} \union ApiTask

VmReply(op, res) == vmReply' = [op |-> op, res |-> res]

-----------------------------------------------------------------------------
VmInit ==
    /\ Init
    /\ mode \in Mode
    /\ configuration = mode
    /\ isPaused = FALSE
    /\ task = "new"
    /\ todo = << >>
    /\ lastResult = "Ok"
    /\ vmReply = [op |-> "new", res |-> "Ok"]
    /\ guest = "none"
    /\ inbox = "none"
    /\ answer = "none"
    /\ adrift = FALSE

(***************************************************************************)
(* What becomes of the method in flight: it goes on at another point (an   *)
(* await, or between two calls to the process), or it returns and its      *)
(* local variables are gone.                                               *)
(***************************************************************************)
GoTo(point) ==
    /\ task' = point
    /\ vmReply' = NoReply
    /\ UNCHANGED <<todo, lastResult>>

Leave(point, op, res) ==
    /\ task' = point
    /\ VmReply(op, res)
    /\ todo' = << >>
    /\ lastResult' = "Ok"

Return(op, res) == Leave("none", op, res)

-----------------------------------------------------------------------------
\* prepare_arced.  Whatever fails on the way, the Vm is never built and its
\* VmmProcess is dropped without a cleanup.
VmPrepare ==
    /\ task = "new"
    /\ \/ socketPath /\ Prepare /\ GoTo("prepare")
       \/ ~socketPath /\ Leave("dropped", "prepare", "Err") /\ UNCHANGED vars
    /\ UNCHANGED <<fieldVars, apiVars, ghostVars>>

\* Mutant: the error of the executor is ignored.
VmPreparedAnyway ==
    /\ task = "prepare"
    /\ \/ PrepareProgress /\ UNCHANGED taskVars
       \/ PrepareOk /\ GoTo("prepare_files")
       \/ PrepareErr /\ GoTo("prepare_files")
    /\ UNCHANGED <<fieldVars, apiVars, ghostVars>>

VmPrepared ==
    /\ task = "prepare"
    /\ \/ PrepareProgress /\ UNCHANGED taskVars
       \/ PrepareOk /\ GoTo("prepare_files")
       \/ PrepareErr /\ Leave("dropped", "prepare", "Err")
    /\ UNCHANGED <<fieldVars, apiVars, ghostVars>>

\* The returned path mappings are applied and the log, metrics and vsock paths are
\* created; a missing mapping or an I/O error ends it.
VmPrepareFiles ==
    /\ task = "prepare_files"
    /\ \/ Return("prepare", "Ok")
       \/ Leave("dropped", "prepare", "Err")
    /\ UNCHANGED <<vars, fieldVars, apiVars, ghostVars>>

-----------------------------------------------------------------------------
\* ensure_state, ensure_paused_or_running and ensure_exited_or_crashed.
VmEnter(op) == task = "none" /\ VmState \in VmAllowed(op)

VmRefuse(op) ==
    /\ task = "none"
    /\ VmState \notin VmAllowed(op)
    /\ QueryState
    /\ Return(op, "Err")
    /\ UNCHANGED <<fieldVars, apiVars, ghostVars>>

\* start: the configuration is taken first, whatever happens next.
Start ==
    /\ VmEnter("start")
    /\ configuration # "none"
    /\ configuration' = "none"
    /\ IF mode = "json" THEN QueryState /\ GoTo("start_files")
                        ELSE Invoke /\ GoTo("start_invoke")
    /\ UNCHANGED <<isPaused, apiVars, ghostVars>>

\* ... so that a second start panics in its expect.
StartAgain ==
    /\ VmEnter("start")
    /\ configuration = "none"
    /\ QueryState
    /\ Return("start", "Panic")
    /\ UNCHANGED <<fieldVars, apiVars, ghostVars>>

\* The JSON configuration is written before the process is invoked.
StartFiles ==
    /\ task = "start_files"
    /\ \/ Invoke /\ GoTo("start_invoke")
       \/ Return("start", "Err") /\ UNCHANGED vars
    /\ UNCHANGED <<fieldVars, apiVars, ghostVars>>

StartInvoke ==
    /\ task = "start_invoke"
    /\ \/ (\E p \in Pid : Spawn(p)) /\ UNCHANGED taskVars
       \/ InvokeOk /\ GoTo("start_socket")
       \/ InvokeErr /\ Return("start", "Err")
    /\ UNCHANGED <<fieldVars, apiVars, ghostVars>>

\* The socket file is there, even if the process that made it has died since.
StartSocket ==
    /\ task = "start_socket"
    /\ guest # "none"
    /\ \/ mode = "json" /\ Return("start", "Ok")
       \/ /\ mode # "json"
          /\ task' = "start_next"
          /\ todo' = InitRequests(mode)
          /\ UNCHANGED <<lastResult, vmReply>>
    /\ UNCHANGED <<vars, fieldVars, apiVars, ghostVars>>

\* The timeout of the poll loop, or an error of try_exists.
StartTimeout ==
    /\ task = "start_socket"
    /\ Return("start", "Err")
    /\ UNCHANGED <<vars, fieldVars, apiVars, ghostVars>>

-----------------------------------------------------------------------------
(***************************************************************************)
(* Requests.  The request reaches the API server once the socket is owned; *)
(* from then on it may be handled even if its caller has gone.  The server *)
(* is single-threaded: a request sent after another is not handled first.  *)
(***************************************************************************)
Send(t) ==
    /\ SendApiRequest
    /\ GoTo(t)
    /\ inbox' = IF call' = "request" THEN RequestOf(t) ELSE inbox
    /\ UNCHANGED <<guest, answer>>

StartNext ==
    /\ task = "start_next"
    /\ \/ Send("start_init")
       \/ Refuse("send_api_request") /\ Return("start", "Err") /\ UNCHANGED apiVars
    /\ UNCHANGED <<fieldVars, ghostVars>>

\* "info" stands for every request without an effect on the fields of Vm.
\* api_custom_request may pause or resume the guest and is told so by its caller.
ApiCall(t) ==
    /\ VmEnter(t)
    /\ Send(t)
    /\ UNCHANGED <<fieldVars, ghostVars>>

SocketOwned ==
    /\ ChownOk
    /\ inbox' = RequestOf(task)
    /\ UNCHANGED <<fieldVars, taskVars, guest, answer, ghostVars>>

\* What a request that succeeds makes of the guest.
Effect(req) ==
    CASE req = "boot"   -> {<<"configuring", "running">>}
      [] req = "load"   -> {<<"configuring", IF mode = "restore" THEN "running" ELSE "paused">>}
      [] req = "pause"  -> {<<"running", "paused">>, <<"paused", "paused">>}
      [] req = "resume" -> {<<"running", "running">>, <<"paused", "running">>}
      [] req = "snapshot" -> {<<"paused", "paused">>}
      [] OTHER -> {<<g, g>> : g \in GuestState}

\* The API server of Firecracker handles a request, with success or a fault.
Serve ==
    /\ inbox # "none" /\ vmm # {}
    /\ inbox' = "none"
    /\ \/ /\ \E g \in GuestState : <<guest, g>> \in Effect(inbox) /\ guest' = g
          /\ answer' = IF call = "request" THEN "ok" ELSE "none"
       \/ /\ UNCHANGED guest
          /\ answer' = IF call = "request" THEN "fault" ELSE "none"
    /\ UNCHANGED <<vars, fieldVars, taskVars, ghostVars>>

Answered(a) ==
    /\ RequestDone
    /\ reply'.res = "Ok"
    /\ answer = a
    /\ answer' = "none"
    /\ UNCHANGED <<guest, inbox>>

\* The connection broke, or the response was not what send_api_request expects.
Broken ==
    /\ RequestDone
    /\ reply'.res = "Err"
    /\ answer' = "none"
    /\ adrift' = (adrift \/ RequestOf(task) \in {"pause", "resume"})
    /\ UNCHANGED <<guest, inbox>>

\* The request failed before it was sent, in the server, or on the way.
RequestFails ==
    \/ ChownErr /\ UNCHANGED <<apiVars, adrift>>
    \/ Answered("fault") /\ UNCHANGED adrift
    \/ Broken

-----------------------------------------------------------------------------
InitAnswered ==
    /\ task = "start_init"
    /\ Answered("ok")
    /\ \/ Len(todo) = 1 /\ Return("start", "Ok")
       \/ /\ Len(todo) > 1
          /\ task' = "start_next"
          /\ todo' = Tail(todo)
          /\ UNCHANGED <<lastResult, vmReply>>
    /\ UNCHANGED <<fieldVars, ghostVars>>

InitFails ==
    /\ task = "start_init"
    /\ RequestFails
    /\ Return("start", "Err")
    /\ UNCHANGED <<fieldVars, mode>>

\* api_pause and api_resume change is_paused only after a successful response.
PauseAnswered ==
    /\ task \in {"pause", "resume"}
    /\ Answered("ok")
    /\ isPaused' = (task = "pause")
    /\ adrift' = FALSE
    /\ Return(task, "Ok")
    /\ UNCHANGED <<configuration, mode>>

\* api_custom_request believes its caller, whatever the status of the response.
CustomAnswered ==
    /\ task \in {"custom_pause", "custom_resume"}
    /\ isPaused' = (task = "custom_pause")
    /\ \/ Answered("ok") /\ adrift' = FALSE
       \/ Answered("fault") /\ adrift' = TRUE
    /\ Return(task, "Ok")
    /\ UNCHANGED <<configuration, mode>>

CustomBroken ==
    /\ task \in {"custom_pause", "custom_resume"}
    /\ \/ ChownErr /\ UNCHANGED <<apiVars, adrift>>
       \/ Broken
    /\ Return(task, "Err")
    /\ UNCHANGED <<fieldVars, mode>>

OtherAnswered ==
    /\ task \in {"info", "snapshot"}
    /\ Answered("ok")
    /\ Return(task, "Ok")
    /\ UNCHANGED <<fieldVars, ghostVars>>

\* Mutant: is_paused follows the request, not the response.
ApiCallFailsPaused ==
    /\ task \in {"info", "snapshot", "pause", "resume"}
    /\ RequestFails
    /\ isPaused' = (task = "pause" \/ (isPaused /\ task # "resume"))
    /\ Return(task, "Err")
    /\ UNCHANGED <<configuration, mode>>

ApiCallFails ==
    /\ task \in {"info", "snapshot", "pause", "resume"}
    /\ RequestFails
    /\ Return(task, "Err")
    /\ UNCHANGED <<fieldVars, mode>>

-----------------------------------------------------------------------------
ShutdownLists == UNION {[1..n -> ShutdownMethod] : n \in MinMethods..MaxMethods}

Shutdown ==
    /\ VmEnter("shutdown")
    /\ QueryState
    /\ task' = "shutdown"
    /\ todo' \in ShutdownLists
    /\ vmReply' = NoReply
    /\ UNCHANGED <<fieldVars, lastResult, apiVars, ghostVars>>

\* Mutant: the method is stored in place of its result.
MethodFailsRaw ==
    /\ task' = "shutdown"
    /\ todo' = Tail(todo)
    /\ lastResult' = Head(todo)
    /\ UNCHANGED vmReply

\* One method has failed: the loop goes on to the next.
MethodFails ==
    /\ task' = "shutdown"
    /\ todo' = Tail(todo)
    /\ lastResult' = "Err"
    /\ UNCHANGED vmReply

Trying(method) == task = "shutdown" /\ todo # << >> /\ Head(todo) = method

TryCtrlAltDel ==
    /\ Trying("CtrlAltDel")
    /\ \/ Send("shutdown_ctrl")
       \/ Refuse("send_api_request") /\ MethodFails /\ UNCHANGED apiVars
    /\ UNCHANGED <<fieldVars, ghostVars>>

\* api_pause refuses a VM that is already paused.
TryPause ==
    /\ Trying("PauseThenKill")
    /\ \/ VmState = "Running" /\ Send("shutdown_pause")
       \/ VmState # "Running" /\ QueryState /\ MethodFails /\ UNCHANGED apiVars
    /\ UNCHANGED <<fieldVars, ghostVars>>

TryKill ==
    /\ Trying("Kill") \/ task = "shutdown_kill"
    /\ \/ SendSigkill /\ reply'.res = "Ok" /\ GoTo("shutdown_wait")
       \/ SendSigkill /\ reply'.res = "Err" /\ MethodFails
       \/ Refuse("send_sigkill") /\ MethodFails
    /\ UNCHANGED <<fieldVars, apiVars, ghostVars>>

CtrlAltDelAnswered ==
    /\ task = "shutdown_ctrl"
    /\ Answered("ok")
    /\ GoTo("shutdown_wait")
    /\ UNCHANGED <<fieldVars, ghostVars>>

ShutdownPauseAnswered ==
    /\ task = "shutdown_pause"
    /\ Answered("ok")
    /\ isPaused' = TRUE
    /\ adrift' = FALSE
    /\ GoTo("shutdown_kill")
    /\ UNCHANGED <<configuration, mode>>

\* Mutant: the error of api_pause is ignored.
ShutdownRequestFailsKills ==
    /\ task \in {"shutdown_ctrl", "shutdown_pause"}
    /\ RequestFails
    /\ IF task = "shutdown_pause" THEN GoTo("shutdown_kill") ELSE MethodFails
    /\ UNCHANGED <<fieldVars, mode>>

ShutdownRequestFails ==
    /\ task \in {"shutdown_ctrl", "shutdown_pause"}
    /\ RequestFails
    /\ MethodFails
    /\ UNCHANGED <<fieldVars, mode>>

\* wait_for_exit under the timeout.  Its own result is dropped: that the process
\* was found dead before the wait counts as success,
ShutdownWait ==
    /\ task = "shutdown_wait"
    /\ \/ WaitForExit /\ UNCHANGED taskVars
       \/ Refuse("wait_for_exit") /\ Return("shutdown", "Ok")
       \/ WaitDone /\ Return("shutdown", "Ok")
    /\ UNCHANGED <<fieldVars, apiVars, ghostVars>>

\* ... and so does an error of the wait, with the process alive or not.
ShutdownWaitFails ==
    /\ task = "shutdown_wait"
    /\ WaitFails
    /\ Return("shutdown", "Ok")
    /\ UNCHANGED <<fieldVars, apiVars, ghostVars>>

\* Mutant: the Timeout error is dropped together with the result of the wait.
ShutdownTimeoutIgnored ==
    /\ task = "shutdown_wait"
    /\ call = "wait"
    /\ Cancel
    /\ Return("shutdown", "Ok")
    /\ UNCHANGED <<fieldVars, apiVars, ghostVars>>

\* Mutant: the method that timed out is tried again.
ShutdownTimeoutRetries ==
    /\ task = "shutdown_wait"
    /\ call = "wait"
    /\ Cancel
    /\ GoTo("shutdown")
    /\ UNCHANGED <<fieldVars, apiVars, ghostVars>>

ShutdownTimeout ==
    /\ task = "shutdown_wait"
    /\ call = "wait"
    /\ Cancel
    /\ MethodFails
    /\ UNCHANGED <<fieldVars, apiVars, ghostVars>>

\* The list is exhausted.
ShutdownEnd ==
    /\ task = "shutdown"
    /\ todo = << >>
    /\ Return("shutdown", lastResult)
    /\ UNCHANGED <<vars, fieldVars, apiVars, ghostVars>>

-----------------------------------------------------------------------------
VmTakePipes ==
    /\ VmEnter("take_pipes")
    /\ TakePipes
    /\ Return("take_pipes", reply'.res)
    /\ UNCHANGED <<fieldVars, apiVars, ghostVars>>

VmCleanup ==
    /\ VmEnter("cleanup")
    /\ Cleanup
    /\ GoTo("cleanup")
    /\ UNCHANGED <<fieldVars, apiVars, ghostVars>>

\* Once the process is cleaned up, the files of the Vm are removed by blocking
\* tasks that the method joins, ignoring their errors.
VmCleanedUp ==
    /\ \/ task = "cleanup" /\ CleanupProgress /\ UNCHANGED taskVars
       \/ task = "cleanup" /\ CleanupErr /\ Return("cleanup", "Err")
       \/ task = "cleanup" /\ CleanupOk /\ GoTo("cleanup_files")
       \/ task = "cleanup_files" /\ Return("cleanup", "Ok") /\ UNCHANGED vars
    /\ UNCHANGED <<fieldVars, apiVars, ghostVars>>

-----------------------------------------------------------------------------
\* The caller drops the future of a method at an await point.
VmCancel ==
    /\ \/ call # "none" /\ Cancel
       \/ task \in {"prepare_files", "start_files", "start_socket", "cleanup_files"}
          /\ UNCHANGED vars
    /\ Leave(IF task \in {"prepare", "prepare_files"} THEN "dropped" ELSE "none",
             "cancelled", "Err")
    /\ answer' = "none"
    /\ adrift' = (adrift \/ (call = "request" /\ RequestOf(task) \in {"pause", "resume"}))
    /\ UNCHANGED <<fieldVars, guest, inbox, mode>>

\* Firecracker binds its API socket, and boots the guest of a JSON configuration.
GuestStep ==
    /\ vmm # {}
    /\ \/ guest = "none" /\ guest' = "configuring"
       \/ mode = "json" /\ guest = "configuring" /\ guest' = "running"
    /\ UNCHANGED <<vars, fieldVars, taskVars, inbox, answer, ghostVars>>

VmHostStep == HostStep /\ UNCHANGED <<fieldVars, taskVars, apiVars, ghostVars>>

\* There is no Vm any more, and nothing that could clean up after it.
Dropped == task = "dropped" /\ UNCHANGED vmVars

VmNext ==
    \/ VmPrepare \/ VmPrepared \/ VmPrepareFiles
    \/ \E op \in VmMethods : VmRefuse(op)
    \/ Start \/ StartAgain \/ StartFiles \/ StartInvoke \/ StartSocket \/ StartTimeout
    \/ StartNext \/ InitAnswered \/ InitFails
    \/ \E t \in ApiTask : ApiCall(t)
    \/ SocketOwned \/ Serve
    \/ PauseAnswered \/ CustomAnswered \/ CustomBroken \/ OtherAnswered \/ ApiCallFails
    \/ Shutdown \/ TryCtrlAltDel \/ TryPause \/ TryKill
    \/ CtrlAltDelAnswered \/ ShutdownPauseAnswered \/ ShutdownRequestFails
    \/ ShutdownWait \/ ShutdownWaitFails \/ ShutdownTimeout \/ ShutdownEnd
    \/ VmTakePipes \/ VmCleanup \/ VmCleanedUp
    \/ VmCancel \/ GuestStep \/ VmHostStep \/ Dropped

\* A task that is polled makes its synchronous steps, the timer of the timeout
\* fires, and the kernel delivers SIGKILL.  Nothing makes Firecracker answer, and nothing
\* makes a wait fail.
VmFairness ==
    /\ \A p \in Pid : WF_vmVars(Killed(p) /\ UNCHANGED <<fieldVars, taskVars, apiVars,
                                                         ghostVars>>)
    /\ WF_vmVars(TryCtrlAltDel \/ TryPause \/ TryKill \/ ShutdownEnd)
    /\ WF_vmVars(ShutdownWait)
    /\ WF_vmVars(ShutdownTimeout)

VmSpec == VmInit /\ [][VmNext]_vmVars /\ VmFairness

-----------------------------------------------------------------------------
VmTypeOK ==
    /\ configuration \in Mode \union {"none"}
    /\ isPaused \in BOOLEAN
    /\ todo \in Seq(ShutdownMethod \union {"config", "boot", "load"})
    /\ lastResult \in {"Ok", "Err"}
    /\ guest \in GuestState
    /\ answer \in {"none", "ok", "fault"}
    /\ adrift \in BOOLEAN

\* Between two calls, state() says Paused exactly when the guest is paused, unless
\* a request to pause or resume was lost, or api_custom_request was told wrong.  A
\* snapshot restored without resume_vm is left out: see RestoredPausedIsReported.
TrackedPause ==
    task = "none" /\ ~adrift /\ mode # "restorePaused" /\ vmm # {}
        => (isPaused <=> guest = "paused")

\* What the Ok of shutdown hides: wait_for_exit has failed, or the list was empty, so
\* that the process was only asked for its state.
WaitFailed == reply = [op |-> "wait_for_exit", res |-> "WaitFailed"]
NothingTried == reply = [op |-> "state", res |-> "Ok"]

\* shutdown returns Ok on a dead process, whatever timed out, failed or raced with its exit
\* on the way; the two cases in which it does not are all there are.
ShutdownOkMeansDead ==
    vmReply = [op |-> "shutdown", res |-> "Ok"]
        => os[child] \in Dead \/ WaitFailed \/ NothingTried

\* When start returns Ok, every initialization request has been obeyed.  With a
\* JSON configuration the guest boots by itself, after start has returned.
StartOkMeansBooted ==
    vmReply = [op |-> "start", res |-> "Ok"] /\ mode # "json" /\ vmm # {}
        => guest \in {"running", "paused"}

\* PauseThenKill waits "for a graceful pause": SIGKILL follows only a real pause,
\* even with older requests of dropped calls still on their way.
PausedBeforeKill == task = "shutdown_kill" /\ vmm # {} => guest = "paused"

\* The wait for the last shutdown method ends: with the exit, or with the timeout.
LastWaitEnds == (task = "shutdown_wait" /\ Len(todo) = 1) ~> (task = "none")

\* The Vm follows the lifecycle that the comments of VmState describe.
Lifecycle == INSTANCE VmLifecycle WITH
    vm <- IF task \in {"new", "prepare", "prepare_files"} THEN "Absent"
          ELSE IF task = "dropped" THEN "Lost" ELSE VmState

ImplementsLifecycle == Lifecycle!Spec

-----------------------------------------------------------------------------
(***************************************************************************)
(* Statements of the repository that the code does not keep.               *)
(***************************************************************************)

\* vm/mod.rs:311: "No configuration cannot exist for a VM, unreachable".
StartExpectHolds == vmReply # [op |-> "start", res |-> "Panic"]

\* vm/mod.rs:46: VmState::Running means that the VM "was booted and is running".
RestoredPausedIsReported ==
    vmReply = [op |-> "start", res |-> "Ok"] /\ vmm # {} /\ guest = "paused"
        => VmState = "Paused"

=============================================================================
