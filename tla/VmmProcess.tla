----------------------------- MODULE VmmProcess -----------------------------
(***************************************************************************)
(* Layer 3 of fctools: VmmProcess<E, S> of src/src/process.rs, over an     *)
(* arbitrary VmmExecutor and ShellSpawner.  A VmmProcess prepares an       *)
(* environment on the host, launches one shell that becomes (or runs) the  *)
(* VMM, talks to its API socket and finally cleans the environment up.     *)
(*                                                                         *)
(* Every method takes &mut self, so at most one is in flight; `call` is    *)
(* the await point it is suspended at.  A future may be dropped at an      *)
(* await point (Cancel), and the operating system runs at any moment.      *)
(* The executor is a trait: prepare and cleanup are modelled by what any   *)
(* implementation does to the environment, a part at a time, and may fail  *)
(* after any part.                                                         *)
(***************************************************************************)
EXTENDS Naturals, FiniteSets

CONSTANTS
    Pid,          \* the operating system processes that launches may create
    NoPid,        \* Option::None where a process is expected
    Detachments   \* the values of `detaches` to consider

ASSUME NoPidAssumption == NoPid \notin Pid
ASSUME DetachmentsAssumption == Detachments \subseteq BOOLEAN

VARIABLES
    \* The fields of VmmProcess.
    state,        \* the tracked VmmProcessState
    outerPaths,   \* outer_paths.is_some()
    child,        \* the tokio Child kept, or NoPid
    pipes,        \* the standard streams still inside the Child
    hyperClient,  \* the OnceCell holds a client
    socketPath,   \* socket_path.is_some(); never changes
    escalates,    \* shell_spawner.increases_privileges(); never changes
    detaches,     \* the jailer is told to daemonize or to fork; never changes
    \* The call in flight, and what the last finished one returned.
    call,         \* the await point of the method in flight, or "none"
    spawned,      \* the Child that spawn has created and not yet returned
    reply,        \* [op, res] of the last call, NoReply while one is in flight
    \* The host.
    os,           \* what became of each process a spawn created
    vmm,          \* the launches whose VMM is alive
    env           \* the environment that prepare builds and cleanup removes

\* What new_arced settles for good.
fixedVars == <<socketPath, escalates, detaches>>
selfVars == <<state, outerPaths, child, pipes, hyperClient, fixedVars>>
callVars == <<call, spawned, reply>>
hostVars == <<os, vmm, env>>
vars == <<selfVars, callVars, hostVars>>

-----------------------------------------------------------------------------
\* Crashed(ExitStatus) keeps its status; no method tells one status from another.
Terminal == {"Exited", "Crashed"}
ProcessState == {"AwaitingPrepare", "AwaitingStart", "Started"} \union Terminal

Pipe == {"stdin", "stdout", "stderr"}
\* Mutant: stdout is taken first.
PipeOrderOutputFirst == <<"stdout", "stdin", "stderr">>
PipeOrder == <<"stdin", "stdout", "stderr">>

Dead == {"exitedOk", "exitedErr"}
OsStatus == {"unborn", "running", "signalled"} \union Dead

AwaitPoint == {"prepare", "invoke", "spawned", "chown", "request", "wait", "cleanup"}

\* The states each method demands.  send_ctrl_alt_del is a send_api_request whose
\* unsuccessful status is one more error.
Methods == {"prepare", "invoke", "send_api_request", "take_pipes", "send_sigkill",
            "wait_for_exit", "cleanup"}
\* Mutant: cleanup accepts a running process.
AllowedCleanupStarted(op) == IF op = "prepare" THEN {"AwaitingPrepare"}
                             ELSE IF op = "invoke" THEN {"AwaitingStart"}
                             ELSE IF op = "cleanup" THEN Terminal \union {"Started"}
                             ELSE {"Started"}
Allowed(op) == IF op = "prepare" THEN {"AwaitingPrepare"}
               ELSE IF op = "invoke" THEN {"AwaitingStart"}
               ELSE IF op = "cleanup" THEN Terminal
               ELSE {"Started"}

\* The streams a launch leaves inside the Child.  Su and Sudo always pipe stdin.
PipedBy(esc) == IF esc THEN {{"stdin"}, Pipe} ELSE {{}, Pipe}

\* The Child is the VMM itself: the shell and the jailer have exec'ed it.
Direct == ~escalates /\ ~detaches

-----------------------------------------------------------------------------
Init ==
    /\ state = "AwaitingPrepare"
    /\ outerPaths = TRUE
    /\ child = NoPid
    /\ pipes = {}
    /\ hyperClient = FALSE
    /\ socketPath \in BOOLEAN
    /\ escalates \in BOOLEAN
    /\ detaches \in Detachments
    /\ call = "none"
    /\ spawned = NoPid
    /\ reply = [op |-> "new", res |-> "Ok"]
    /\ os = [p \in Pid |-> "unborn"]
    /\ vmm = {}
    /\ env = "absent"

\* Mutant: the exit status is stored as it is.
ObservedRaw == IF child = NoPid \/ os[child] \notin Dead THEN state ELSE os[child]

(***************************************************************************)
(* update_state: every method first polls the Child with try_wait, whose   *)
(* answer tokio remembers, and derives the state from the exit status.     *)
(***************************************************************************)
Observed ==
    IF child = NoPid \/ os[child] \notin Dead THEN state
    ELSE IF os[child] = "exitedOk" THEN "Exited" ELSE "Crashed"

NoReply == [op |-> "none", res |-> "none"]
Reply(op, res) == reply' = [op |-> op, res |-> res]

\* The method is suspended at an await point.
Suspend(point) ==
    /\ call' = point
    /\ reply' = NoReply

\* ensure_state / ensure_exited_or_crashed, passed: the method goes on.
Enter(op) ==
    /\ call = "none"
    /\ Observed \in Allowed(op)
    /\ state' = Observed

\* ensure_state / ensure_exited_or_crashed, failed.
Refuse(op) ==
    /\ call = "none"
    /\ Observed \notin Allowed(op)
    /\ state' = Observed
    /\ Reply(op, "Err")
    /\ UNCHANGED <<outerPaths, child, pipes, hyperClient, fixedVars, call, spawned, hostVars>>

\* state(): the tracked state is brought up to date and returned.
QueryState ==
    /\ call = "none"
    /\ state' = Observed
    /\ Reply("state", "Ok")
    /\ UNCHANGED <<outerPaths, child, pipes, hyperClient, fixedVars, call, spawned, hostVars>>

-----------------------------------------------------------------------------
\* prepare: the outer paths are taken before the executor is awaited, so a
\* second prepare finds None and its expect panics.
Prepare ==
    /\ Enter("prepare")
    /\ outerPaths' = FALSE
    /\ IF outerPaths THEN Suspend("prepare")
                     ELSE Reply("prepare", "Panic") /\ UNCHANGED call
    /\ UNCHANGED <<child, pipes, hyperClient, fixedVars,
                   spawned, hostVars>>

PrepareProgress ==
    /\ call = "prepare"
    /\ env' = "partial"
    /\ UNCHANGED <<selfVars, callVars, os, vmm>>

PrepareOk ==
    /\ call = "prepare"
    /\ state' = "AwaitingStart"
    /\ env' = "ready"
    /\ call' = "none"
    /\ Reply("prepare", "Ok")
    /\ UNCHANGED <<outerPaths, child, pipes, hyperClient, fixedVars, spawned, os, vmm>>

PrepareErr ==
    /\ call = "prepare"
    /\ call' = "none"
    /\ Reply("prepare", "Err")
    /\ UNCHANGED <<selfVars, spawned, hostVars>>

-----------------------------------------------------------------------------
\* Mutant: invoke declares the process Started before the executor has returned.
InvokeStateFirst ==
    /\ call = "none"
    /\ Observed \in Allowed("invoke")
    /\ state' = "Started"
    /\ Suspend("invoke")
    /\ UNCHANGED <<outerPaths, child, pipes, hyperClient, fixedVars, spawned, hostVars>>

Invoke ==
    /\ Enter("invoke")
    /\ Suspend("invoke")
    /\ UNCHANGED <<outerPaths, child, pipes, hyperClient, fixedVars, spawned, hostVars>>

\* ShellSpawner::spawn has created p.  The shell execs the command; su may first
\* reject the password, and then no VMM comes to life.
Spawn(p) ==
    /\ call = "invoke"
    /\ os[p] = "unborn"
    /\ os' = [os EXCEPT ![p] = "running"]
    /\ \/ vmm' = vmm \union {p}
       \/ escalates /\ UNCHANGED vmm
    /\ spawned' = p
    /\ call' = "spawned"
    /\ UNCHANGED <<selfVars, reply, env>>

InvokeOk ==
    /\ call = "spawned"
    /\ child' = spawned
    /\ spawned' = NoPid
    /\ pipes' \in PipedBy(escalates)
    /\ state' = "Started"
    /\ call' = "none"
    /\ Reply("invoke", "Ok")
    /\ UNCHANGED <<outerPaths, hyperClient, fixedVars, hostVars>>

\* The process could not be created, or (su, sudo) writing the password or the
\* command to its stdin failed after it had been: the Child is dropped alive.
InvokeErr ==
    /\ \/ call = "invoke"
       \/ call = "spawned" /\ escalates
    /\ spawned' = NoPid
    /\ call' = "none"
    /\ Reply("invoke", "Err")
    /\ UNCHANGED <<selfVars, hostVars>>

-----------------------------------------------------------------------------
\* send_api_request: the first request chowns the socket and creates the client.
SendApiRequest ==
    /\ Enter("send_api_request")
    /\ IF ~socketPath THEN Reply("send_api_request", "Err") /\ UNCHANGED call
       ELSE Suspend(IF hyperClient THEN "request" ELSE "chown")
    /\ UNCHANGED <<outerPaths, child, pipes, hyperClient, fixedVars, spawned, hostVars>>

ChownOk ==
    /\ call = "chown"
    /\ hyperClient' = TRUE
    /\ call' = "request"
    /\ UNCHANGED <<state, outerPaths, child, pipes, fixedVars, spawned, reply, hostVars>>

\* force_chown does nothing, and so cannot fail, without escalation.
ChownErr ==
    /\ call = "chown"
    /\ escalates
    /\ call' = "none"
    /\ Reply("send_api_request", "Err")
    /\ UNCHANGED <<selfVars, spawned, hostVars>>

RequestDone ==
    /\ call = "request"
    /\ call' = "none"
    /\ \E res \in {"Ok", "Err"} : Reply("send_api_request", res)
    /\ UNCHANGED <<selfVars, spawned, hostVars>>

-----------------------------------------------------------------------------
\* The streams take() removes: each one in turn until the first that is missing.
TakenFrom(ps) ==
    {PipeOrder[i] : i \in {i \in 1..3 : \A j \in 1..i : PipeOrder[j] \in ps}}

\* expect("No child while running")
ChildExpected(op) ==
    /\ child = NoPid
    /\ Reply(op, "Panic")
    /\ UNCHANGED <<outerPaths, child, pipes, hyperClient, fixedVars, call, spawned, hostVars>>

TakePipes ==
    /\ Enter("take_pipes")
    /\ \/ ChildExpected("take_pipes")
       \/ /\ child # NoPid
          /\ pipes' = pipes \ TakenFrom(pipes)
          /\ Reply("take_pipes", IF pipes = Pipe THEN "Ok" ELSE "Err")
          /\ UNCHANGED <<outerPaths, child, hyperClient, fixedVars, call, spawned, hostVars>>

\* Mutant: send_sigkill records the crash that its comment announces.
SendSigkillRecordsCrash ==
    /\ call = "none"
    /\ Observed \in Allowed("send_sigkill")
    /\ child # NoPid
    /\ state' = "Crashed"
    /\ Reply("send_sigkill", "Ok")
    /\ \/ os' = [os EXCEPT ![child] = "signalled"] /\ UNCHANGED vmm
       \/ \E s \in Dead : os' = [os EXCEPT ![child] = s] /\ vmm' = vmm \ {child}
    /\ UNCHANGED <<outerPaths, child, pipes, hyperClient, fixedVars, call, spawned, env>>

\* start_kill only sends the signal.  The process may exit by itself between the
\* try_wait of ensure_state and the kill: a zombie still accepts the signal.  An
\* escalated process may belong to root, which refuses it.
SendSigkill ==
    /\ Enter("send_sigkill")
    /\ \/ ChildExpected("send_sigkill")
       \/ /\ child # NoPid
          /\ \/ /\ os' = [os EXCEPT ![child] = "signalled"]
                /\ UNCHANGED vmm
                /\ Reply("send_sigkill", "Ok")
             \/ /\ \E s \in Dead : os' = [os EXCEPT ![child] = s]
                /\ vmm' = vmm \ {child} \/ (detaches /\ vmm' = vmm)
                /\ Reply("send_sigkill", "Ok")
             \/ escalates /\ Reply("send_sigkill", "Err") /\ UNCHANGED <<os, vmm>>
          /\ UNCHANGED <<outerPaths, child, pipes, hyperClient, fixedVars, call, spawned, env>>

\* tokio's Child::wait closes stdin before it waits.
WaitForExit ==
    /\ Enter("wait_for_exit")
    /\ \/ ChildExpected("wait_for_exit")
       \/ /\ child # NoPid
          /\ pipes' = pipes \ {"stdin"}
          /\ Suspend("wait")
          /\ UNCHANGED <<outerPaths, child, hyperClient, fixedVars, spawned, hostVars>>

\* Mutant: wait_for_exit only returns on success.
WaitDoneOnSuccess ==
    /\ call = "wait"
    /\ os[child] = "exitedOk"
    /\ call' = "none"
    /\ Reply("wait_for_exit", "Ok")
    /\ UNCHANGED <<selfVars, spawned, hostVars>>

\* The exit status is returned; `state` is left for the next update_state.
WaitDone ==
    /\ call = "wait"
    /\ os[child] \in Dead
    /\ call' = "none"
    /\ Reply("wait_for_exit", "Ok")
    /\ UNCHANGED <<selfVars, spawned, hostVars>>

\* The wait itself fails, whatever has become of the process.
WaitFails ==
    /\ call = "wait"
    /\ call' = "none"
    /\ Reply("wait_for_exit", "WaitFailed")
    /\ UNCHANGED <<selfVars, spawned, hostVars>>

-----------------------------------------------------------------------------
Cleanup ==
    /\ Enter("cleanup")
    /\ Suspend("cleanup")
    /\ UNCHANGED <<outerPaths, child, pipes, hyperClient, fixedVars, spawned, hostVars>>

CleanupProgress ==
    /\ call = "cleanup"
    /\ env = "ready"
    /\ env' = "partial"
    /\ UNCHANGED <<selfVars, callVars, os, vmm>>

CleanupOk ==
    /\ call = "cleanup"
    /\ env' = "absent"
    /\ call' = "none"
    /\ Reply("cleanup", "Ok")
    /\ UNCHANGED <<selfVars, spawned, os, vmm>>

CleanupErr ==
    /\ call = "cleanup"
    /\ call' = "none"
    /\ Reply("cleanup", "Err")
    /\ UNCHANGED <<selfVars, spawned, hostVars>>

-----------------------------------------------------------------------------
\* Mutant: an await is added between the spawn and the assignment to `child`.
CancelAnywhere ==
    /\ call # "none"
    /\ call' = "none"
    /\ spawned' = NoPid
    /\ UNCHANGED <<selfVars, reply, hostVars>>

\* The caller drops the future at an await point.  Without escalation nothing is
\* awaited between the creation of the process and the assignment to `child`.
Cancel ==
    /\ call # "none"
    /\ call = "spawned" => escalates
    /\ call' = "none"
    /\ spawned' = NoPid
    /\ UNCHANGED <<selfVars, reply, hostVars>>

\* The VMM of p ends by itself.  The shell was replaced by it (exec) or, under su
\* and sudo, is its parent and follows with its status.
VmmExit(p) ==
    /\ p \in vmm
    /\ os[p] # "signalled" \/ ~Direct
    /\ vmm' = vmm \ {p}
    /\ IF os[p] # "running" \/ detaches THEN UNCHANGED os
       ELSE \E s \in Dead : os' = [os EXCEPT ![p] = s]
    /\ UNCHANGED <<selfVars, callVars, env>>

\* su or sudo ends without having run the command (authentication failed), or a
\* jailer that has forked the VMM ends before it.
ShellExit(p) ==
    /\ os[p] = "running"
    /\ \/ p \notin vmm /\ os' = [os EXCEPT ![p] = "exitedErr"]
       \/ detaches /\ os' = [os EXCEPT ![p] = "exitedOk"]
    /\ UNCHANGED <<selfVars, callVars, vmm, env>>

\* SIGKILL takes effect on the process that spawn returned, and on it alone.
Killed(p) ==
    /\ os[p] = "signalled"
    /\ os' = [os EXCEPT ![p] = "exitedErr"]
    /\ vmm' = IF Direct THEN vmm \ {p} ELSE vmm
    /\ UNCHANGED <<selfVars, callVars, env>>

-----------------------------------------------------------------------------
CallStart ==
    \/ QueryState \/ Prepare \/ Invoke \/ SendApiRequest \/ TakePipes
    \/ SendSigkill \/ WaitForExit \/ Cleanup
    \/ \E op \in Methods : Refuse(op)

CallStep ==
    \/ PrepareProgress \/ PrepareOk \/ PrepareErr
    \/ \E p \in Pid : Spawn(p)
    \/ InvokeOk \/ InvokeErr
    \/ ChownOk \/ ChownErr \/ RequestDone \/ WaitDone \/ WaitFails
    \/ CleanupProgress \/ CleanupOk \/ CleanupErr
    \/ Cancel

HostStep == \E p \in Pid : VmmExit(p) \/ ShellExit(p) \/ Killed(p)

Next == CallStart \/ CallStep \/ HostStep

\* The kernel delivers a pending SIGKILL, and the runtime polls a future whose
\* child has exited.  Nothing else is promised: a VMM need not exit by itself, a
\* request need not be answered, no caller must make a call.
Fairness ==
    /\ \A p \in Pid : WF_vars(Killed(p))
    /\ WF_vars(WaitDone)

\* The safety part, which is all that the invariants need.
SafetySpec == Init /\ [][Next]_vars

Spec == SafetySpec /\ Fairness

-----------------------------------------------------------------------------
TypeOK ==
    /\ state \in ProcessState
    /\ outerPaths \in BOOLEAN
    /\ child \in Pid \union {NoPid}
    /\ pipes \in SUBSET Pipe
    /\ hyperClient \in BOOLEAN
    /\ socketPath \in BOOLEAN
    /\ escalates \in BOOLEAN
    /\ detaches \in BOOLEAN
    /\ call \in AwaitPoint \union {"none"}
    /\ spawned \in Pid \union {NoPid}
    /\ reply \in [op : Methods \union {"new", "state", "none"},
                 res : {"Ok", "Err", "WaitFailed", "Panic", "none"}]
    /\ os \in [Pid -> OsStatus]
    /\ vmm \in SUBSET Pid
    /\ env \in {"absent", "partial", "ready"}

\* The three expect("No child while running") of take_pipes, send_sigkill and
\* wait_for_exit (process.rs:212, 265, 276) never fire, whatever was cancelled or
\* failed before: a Started process always has its Child.
ChildExpectHolds == reply.res = "Panic" => reply.op = "prepare"

\* When the Child is the VMM itself, one VmmProcess never has two VMMs alive,
\* although invoke can be retried after an error or a cancellation.
OneVmm == Direct => \A p, q \in vmm : p = q

\* ... and its VMM is only ever alive inside a complete environment: it
\* is not launched into what a failed or cancelled prepare left behind, and
\* cleanup never removes files under it, even when it dies between two calls.
VmmInReadyEnv == Direct /\ vmm # {} => env = "ready"

\* Exited and Crashed are final and belong to one launch: no signal, cancelled
\* wait, late request or cleanup makes a process change its mind afterwards.
ExitIsFinal == [][(state \in Terminal) => (state' = state /\ child' = child)]_vars

\* stdout and stderr leave the Child only when the caller of take_pipes gets all
\* three streams.  A cancelled wait_for_exit has already closed stdin, so the
\* order in which take_pipes tries the streams matters.
OutputPipesDelivered ==
    [][\A x \in {"stdout", "stderr"} :
          x \in pipes /\ x \notin pipes' => reply' = [op |-> "take_pipes", res |-> "Ok"]]_vars

\* A wait_for_exit on a process that was sent SIGKILL returns (or is dropped), without an
\* error of the wait to end it.
KilledWaitReturns == (call = "wait" /\ os[child] = "signalled") ~> (call = "none")

-----------------------------------------------------------------------------
(***************************************************************************)
(* Statements of the repository that the code does not keep.               *)
(***************************************************************************)

\* process.rs:160: "Outer paths cannot ever be none, unreachable".
OuterPathsExpectHolds == ~(reply.op = "prepare" /\ reply.res = "Panic")

\* shell_spawner.rs:18-19: the returned Child "must be the shell's process", which
\* exits "as soon as the command completes": a dead Child means a dead VMM.
DeadChildMeansDeadVmm == child # NoPid /\ os[child] \in Dead => child \notin vmm

=============================================================================
