------------------------------- MODULE VmTraces -------------------------------
(***************************************************************************)
(* The files that a Vm with an UnrestrictedVmmExecutor leaves on the host, *)
(* and what becomes of them: prepare and cleanup of                        *)
(* executor/unrestricted.rs and of vm/mod.rs, what start writes and what   *)
(* it waits for, api_create_snapshot, and SnapshotData of vm/snapshot.rs.  *)
(*                                                                         *)
(* Vms come one after another and use the same paths, as the tests of the  *)
(* crate do not.  A program may drop a Vm at any time; its VMM lives on.   *)
(*                                                                         *)
(* A file operation that has been handed to the blocking pool goes on when *)
(* its future is dropped; one in a JoinSet only if a thread has taken it.  *)
(***************************************************************************)
EXTENDS Naturals, Sequences

CONSTANTS
    Lives,       \* bound on the number of Vms; only a single one creates a snapshot
    Calls,       \* bound on the number of calls to cleanup, copy, move_out and remove
    Setups       \* what the Vms may be configured with

ASSUME BoundsAssumption == Lives \in Nat /\ Calls \in Nat
ASSUME SetupsAssumption == Setups \subseteq SUBSET {"removesLogs", "json", "vsock"}

VARIABLES
    \* What the Vms are configured with; never changes.
    removesLogs,    \* remove_logs_on_cleanup, remove_metrics_on_cleanup
    json,           \* InitMethod::ViaJsonConfiguration
    vsock,          \* there is a vsock device
    \* The Vm.
    life,           \* the number of Vms so far, the last being the current one
    vm,             \* "none", "notStarted", "starting" (start was called) or "started"
    call, todo,     \* the call in flight, and the steps that it has left
    cleanups,       \* the number of calls to cleanup
    snapshot_traces,
    \* The blocking tasks that remove files, each with the number of its cleanup; 0 is the
    \* executor.
    removals,
    \* The host.
    vmm,            \* the VMM of each Vm
    owner,          \* which of them each file belongs to, 0 if it is not there
    asker, request, \* the Vm that asked for a snapshot, and its request
    disk,           \* which file is where the snapshot was created (1) or brought to (2)
    content,        \* what is in each file
    \* SnapshotData.
    data,           \* the place that it names, or 0
    snapCall,       \* the number of calls
    snapActive,     \* the last one is in flight
    snapOp,         \* what each call does, and at which place
    snapTask,       \* its two blocking tasks
    target,         \* the file that a task has opened to write to, or 0
    crowded,        \* a call began while a task of an earlier one was still at work
    \* History.
    reached,        \* the owner of the socket for which start stopped waiting
    cleaned,        \* the last cleanup of this Vm returned Ok
    interrupted,    \* an earlier one did not return Ok
    unlinkFailed,   \* the removal of an existing file has failed
    overlapped      \* an earlier VMM, or a removal, was still at work when this Vm began

vmVars == <<life, vm, call, todo, cleanups, snapshot_traces>>
hostVars == <<vmm, owner>>
requestVars == <<asker, request>>
diskVars == <<disk, content>>
taskVars == <<snapTask, target>>
dataVars == <<data, snapCall, snapActive, snapOp, taskVars, crowded>>
historyVars == <<reached, cleaned, interrupted, unlinkFailed, overlapped>>
configVars == <<removesLogs, json, vsock>>
vars == <<configVars, vmVars, removals, hostVars, requestVars, diskVars, dataVars, historyVars>>

-----------------------------------------------------------------------------
\* fcLog is the log that the arguments of the executor name, log the one of the logger;
\* each stands for the metrics file next to it as well.
File == {"socket", "fcLog", "log", "config", "vsock", "listener"}
Kind == {"snapshot", "mem"}
Task == (1..Calls) \X Kind

\* The files a snapshot is kept in: Firecracker writes the first, and the copy of call c
\* creates the one with number c + 1.
Inode == 1..(Calls + 1)

\* A task of the blocking pool that was not run yet, has opened its source, has opened its
\* target.
AtWork == {"queued", "opened", "open"}

Alive(n) == vmm[n] \in {"young", "bound", "ready"}

Init ==
    /\ \E setup \in Setups : /\ removesLogs = ("removesLogs" \in setup)
                             /\ json = ("json" \in setup)
                             /\ vsock = ("vsock" \in setup)
    /\ life = 0
    /\ vm = "none"
    /\ call = "none" /\ todo = << >>
    /\ cleanups = 0
    /\ snapshot_traces = {}
    /\ removals = {}
    /\ vmm = [n \in 1..Lives |-> "none"]
    /\ owner = [f \in File |-> 0]
    /\ asker = 0 /\ request = "none"
    /\ disk = [place \in 1..2 |-> [k \in Kind |-> 0]]
    /\ content = [k \in Kind |-> [i \in Inode |-> "torn"]]
    /\ data = 0
    /\ snapCall = 0 /\ snapActive = FALSE
    /\ snapOp = [c \in 1..Calls |-> <<"none", 0>>]
    /\ snapTask = [t \in Task |-> "none"]
    /\ target = [t \in Task |-> 0]
    /\ crowded = FALSE
    /\ reached = 0
    /\ cleaned = FALSE /\ interrupted = FALSE /\ unlinkFailed = FALSE /\ overlapped = FALSE

-----------------------------------------------------------------------------
(***************************************************************************)
(* The Vm                                                                  *)
(***************************************************************************)
\* A behaviour has one Vm with a snapshot or several without one.
Prepare ==
    /\ vm = "none" /\ call = "none"
    /\ life < Lives /\ request = "none"
    /\ life' = life + 1
    /\ call' = "prepare"
    /\ todo' = <<"socket", "fcLog", "mappings", "log">>
    /\ reached' = 0
    /\ cleaned' = FALSE /\ interrupted' = FALSE
    /\ overlapped' = (removals # {} \/ \E n \in 1..life : Alive(n))
    /\ UNCHANGED <<configVars, vm, cleanups, snapshot_traces, removals, hostVars, requestVars,
                   diskVars, dataVars, unlinkFailed>>

PrepareWith(files) ==
    /\ call = "prepare"
    /\ todo' = Tail(todo)
    /\ owner' = files
    /\ UNCHANGED <<configVars, life, vm, call, cleanups, snapshot_traces, removals, vmm,
                   requestVars, diskVars, dataVars, historyVars>>

\* Mutant: a socket that is there is left for Firecracker to deal with.
ExecutorPrepareKeepsSocket ==
    \/ todo # << >> /\ Head(todo) = "socket" /\ PrepareWith(owner)
    \/ todo # << >> /\ Head(todo) = "fcLog" /\ PrepareWith([owner EXCEPT !["fcLog"] = life])

\* The executor removes a socket that is there and creates its log.
ExecutorPrepare ==
    \/ todo # << >> /\ Head(todo) = "socket" /\ PrepareWith([owner EXCEPT !["socket"] = 0])
    \/ todo # << >> /\ Head(todo) = "fcLog" /\ PrepareWith([owner EXCEPT !["fcLog"] = life])

\* The Vm takes its paths from the mappings and creates the log of its logger.  Of a vsock
\* socket it only creates the directory.
VmPrepare ==
    \/ todo # << >> /\ Head(todo) = "mappings" /\ PrepareWith(owner)
    \/ todo # << >> /\ Head(todo) = "log" /\ PrepareWith([owner EXCEPT !["log"] = life])

Prepared ==
    /\ call = "prepare" /\ todo = << >>
    /\ call' = "none"
    /\ vm' = "notStarted"
    /\ UNCHANGED <<configVars, life, todo, cleanups, snapshot_traces, removals, hostVars,
                   requestVars, diskVars, dataVars, historyVars>>

\* The configuration is taken, so that there is no second start.
Start ==
    /\ vm = "notStarted" /\ call = "none"
    /\ vm' = "starting"
    /\ call' = "start"
    /\ todo' = IF json THEN <<"config", "invoke">> ELSE <<"invoke">>
    /\ UNCHANGED <<configVars, life, cleanups, snapshot_traces, removals, hostVars, requestVars,
                   diskVars, dataVars, historyVars>>

WriteConfiguration ==
    /\ call = "start" /\ todo # << >> /\ Head(todo) = "config"
    /\ todo' = Tail(todo)
    /\ owner' = [owner EXCEPT !["config"] = life]
    /\ UNCHANGED <<configVars, life, vm, call, cleanups, snapshot_traces, removals, vmm,
                   requestVars, diskVars, dataVars, historyVars>>

\* invoke succeeds and start waits for the socket.
Invoke ==
    /\ call = "start" /\ todo # << >> /\ Head(todo) = "invoke"
    /\ todo' = Tail(todo)
    /\ vm' = "started"
    /\ vmm' = [vmm EXCEPT ![life] = "young"]
    /\ UNCHANGED <<configVars, life, call, cleanups, snapshot_traces, removals, owner,
                   requestVars, diskVars, dataVars, historyVars>>

SocketAppears ==
    /\ call = "start" /\ vm = "started"
    /\ owner["socket"] # 0
    /\ call' = "none"
    /\ reached' = owner["socket"]
    /\ UNCHANGED <<configVars, life, vm, todo, cleanups, snapshot_traces, removals, hostVars,
                   requestVars, diskVars, dataVars, cleaned, interrupted, unlinkFailed, overlapped>>

RegisterListener ==
    /\ vm = "started" /\ call = "none"
    /\ vmm[life] = "ready"
    /\ owner' = [owner EXCEPT !["listener"] = life]
    /\ UNCHANGED <<configVars, vmVars, removals, vmm, requestVars, diskVars, dataVars, historyVars>>

CreateSnapshot ==
    /\ vm = "started" /\ call = "none"
    /\ life = 1
    /\ vmm[life] = "ready"
    /\ request = "none"
    /\ call' = "snapshot"
    /\ asker' = life
    /\ request' = "asked"
    /\ UNCHANGED <<configVars, life, vm, todo, cleanups, snapshot_traces, removals, hostVars,
                   diskVars, dataVars, historyVars>>

SnapshotCreated ==
    /\ call = "snapshot"
    /\ request = "written"
    /\ call' = "none"
    /\ snapshot_traces' = Kind
    /\ data' = 1
    /\ UNCHANGED <<configVars, life, vm, todo, cleanups, removals, hostVars, requestVars,
                   diskVars, snapCall, snapActive, snapOp, taskVars, crowded, historyVars>>

-----------------------------------------------------------------------------
\* Mutant: the state is not looked at.
CleanupOfLiving ==
    /\ vm = "started" /\ call = "none"
    /\ cleanups + snapCall < Calls
    /\ call' = "cleanup"
    /\ todo' = <<"socket">> \o (IF removesLogs THEN <<"fcLog">> ELSE << >>)
    /\ cleanups' = cleanups + 1
    /\ cleaned' = FALSE
    /\ UNCHANGED <<configVars, life, vm, snapshot_traces, removals, hostVars, requestVars,
                   diskVars, dataVars, reached, interrupted, unlinkFailed, overlapped>>

\* The executor cleans up first.
Cleanup ==
    /\ vm = "started" /\ call = "none"
    /\ ~Alive(life)
    /\ cleanups + snapCall < Calls
    /\ call' = "cleanup"
    /\ todo' = <<"socket">> \o (IF removesLogs THEN <<"fcLog">> ELSE << >>)
    /\ cleanups' = cleanups + 1
    /\ cleaned' = FALSE
    /\ UNCHANGED <<configVars, life, vm, snapshot_traces, removals, hostVars, requestVars,
                   diskVars, dataVars, reached, interrupted, unlinkFailed, overlapped>>

\* A socket that is not there is passed over, a log that is not there is an error.
CleanupStep ==
    /\ call = "cleanup" /\ todo # << >>
    /\ Head(todo) = "fcLog" => owner["fcLog"] # 0
    /\ owner' = [owner EXCEPT ![Head(todo)] = 0]
    /\ todo' = Tail(todo)
    /\ UNCHANGED <<configVars, life, vm, call, cleanups, snapshot_traces, removals, vmm,
                   requestVars, diskVars, dataVars, historyVars>>

\* accessible_paths, as far as cleanup goes through them: the listeners come with the vsock
\* device, and the configuration file is not among them.
AccessiblePaths == {"log"} \union (IF vsock THEN {"vsock", "listener"} ELSE {})

\* Mutant: the listeners are forgotten.
RemoveTracesButListeners ==
    /\ call = "cleanup" /\ todo = << >>
    /\ call' = "removing"
    /\ removals' = removals
            \union ({cleanups} \X ((AccessiblePaths \ {"listener"}) \union snapshot_traces))
    /\ snapshot_traces' = {}
    /\ UNCHANGED <<configVars, life, vm, todo, cleanups, hostVars, requestVars, diskVars,
                   dataVars, historyVars>>

\* Mutant: the traces are kept.
RemoveTracesUnpopped ==
    /\ call = "cleanup" /\ todo = << >>
    /\ call' = "removing"
    /\ removals' = removals \union ({cleanups} \X (AccessiblePaths \union snapshot_traces))
    /\ UNCHANGED <<configVars, life, vm, todo, cleanups, snapshot_traces, hostVars, requestVars,
                   diskVars, dataVars, historyVars>>

\* Then each file gets a task, and the traces of snapshots are popped.
RemoveTraces ==
    /\ call = "cleanup" /\ todo = << >>
    /\ call' = "removing"
    /\ removals' = removals \union ({cleanups} \X (AccessiblePaths \union snapshot_traces))
    /\ snapshot_traces' = {}
    /\ UNCHANGED <<configVars, life, vm, todo, cleanups, hostVars, requestVars, diskVars,
                   dataVars, historyVars>>

Present(f) == IF f \in Kind THEN disk[1][f] # 0 ELSE owner[f] # 0

Unlink(f) ==
    IF f \in Kind
    THEN disk' = [disk EXCEPT ![1][f] = 0] /\ UNCHANGED owner
    ELSE owner' = [owner EXCEPT ![f] = 0] /\ UNCHANGED disk

RunRemoval(r) ==
    /\ removals' = removals \ {r}
    /\ Unlink(r[2])
    /\ UNCHANGED <<configVars, vmVars, vmm, content, requestVars, dataVars, historyVars>>

\* Nobody learns of it.
RemovalFails(r) ==
    /\ removals' = removals \ {r}
    /\ unlinkFailed' = (unlinkFailed \/ Present(r[2]))
    /\ UNCHANGED <<configVars, vmVars, hostVars, requestVars, diskVars, dataVars, reached,
                   cleaned, interrupted, overlapped>>

Current == {r \in removals : r[1] = cleanups}

\* Mutant: cleanup waits until nothing is left.
CleanupDoneWhenGone ==
    /\ call = "removing"
    /\ Current = {} /\ \A f \in AccessiblePaths : ~Present(f)
    /\ call' = "none"
    /\ cleaned' = TRUE
    /\ UNCHANGED <<configVars, life, vm, todo, cleanups, snapshot_traces, removals, hostVars,
                   requestVars, diskVars, dataVars, reached, interrupted, unlinkFailed, overlapped>>

CleanupDone ==
    /\ call = "removing"
    /\ Current = {}
    /\ call' = "none"
    /\ cleaned' = TRUE
    /\ UNCHANGED <<configVars, life, vm, todo, cleanups, snapshot_traces, removals, hostVars,
                   requestVars, diskVars, dataVars, reached, interrupted, unlinkFailed, overlapped>>

\* The call returns an error: a resource or a mapping is missing, the socket does not
\* appear in time, an operation fails, an answer is lost.  Or it is dropped, which the
\* operation in flight may outlive.  keep: the program keeps the Vm.
Abandon(keep) ==
    /\ call # "none" \/ vm # "none"
    /\ keep => call \in {"start", "snapshot", "cleanup", "removing"}
    /\ call' = "none"
    /\ todo' = << >>
    /\ vm' = IF keep THEN vm ELSE "none"
    /\ snapshot_traces' = IF keep THEN snapshot_traces ELSE {}
    /\ IF call = "removing"
       THEN \E aborted \in SUBSET Current : removals' = removals \ aborted
       ELSE \/ UNCHANGED removals
            \/ /\ call \in {"prepare", "cleanup"} /\ todo # << >>
               /\ Head(todo) = "socket" \/ (Head(todo) = "fcLog" /\ call = "cleanup")
               /\ owner[Head(todo)] # 0
               /\ removals' = removals \union {<<0, Head(todo)>>}
    /\ interrupted' = (interrupted \/ call \in {"cleanup", "removing"})
    /\ UNCHANGED <<configVars, life, cleanups, hostVars, requestVars, diskVars, dataVars, reached,
                   cleaned, unlinkFailed, overlapped>>

-----------------------------------------------------------------------------
(***************************************************************************)
(* Firecracker                                                             *)
(***************************************************************************)
\* A socket that is there already is an error.
Bind(n) ==
    /\ vmm[n] = "young"
    /\ IF owner["socket"] = 0
       THEN vmm' = [vmm EXCEPT ![n] = "bound"] /\ owner' = [owner EXCEPT !["socket"] = n]
       ELSE vmm' = [vmm EXCEPT ![n] = "dead"] /\ UNCHANGED owner
    /\ UNCHANGED <<configVars, vmVars, removals, requestVars, diskVars, dataVars, historyVars>>

BindVsock(n) ==
    /\ vmm[n] = "bound"
    /\ vsock => owner["vsock"] = 0
    /\ vmm' = [vmm EXCEPT ![n] = "ready"]
    /\ owner' = IF vsock THEN [owner EXCEPT !["vsock"] = n] ELSE owner
    /\ UNCHANGED <<configVars, vmVars, removals, requestVars, diskVars, dataVars, historyVars>>

Die(n) ==
    /\ Alive(n)
    /\ vmm' = [vmm EXCEPT ![n] = "dead"]
    /\ UNCHANGED <<configVars, vmVars, removals, owner, requestVars, diskVars, dataVars,
                   historyVars>>

\* The VMM that was asked writes both files, or fails and leaves what it has written.
WriteSnapshot ==
    /\ request = "asked"
    /\ vmm[asker] = "ready"
    /\ \/ /\ request' = "written"
          /\ disk' = [disk EXCEPT ![1] = [k \in Kind |-> 1]]
          /\ content' = [k \in Kind |-> [content[k] EXCEPT ![1] = "whole"]]
       \/ /\ request' = "failed"
          /\ \E kinds \in SUBSET Kind :
               disk' = [disk EXCEPT ![1] = [k \in Kind |-> IF k \in kinds THEN 1 ELSE 0]]
          /\ UNCHANGED content
    /\ UNCHANGED <<configVars, vmVars, removals, hostVars, asker, dataVars, historyVars>>

-----------------------------------------------------------------------------
(***************************************************************************)
(* SnapshotData                                                            *)
(***************************************************************************)
\* copy and move_out bring the two files from where they were created to another place.
CallSnapshotData(op) ==
    /\ data # 0 /\ ~snapActive
    /\ op \in {"copy", "move_out"} => data = 1
    /\ cleanups + snapCall < Calls
    /\ snapCall' = snapCall + 1
    /\ snapActive' = TRUE
    /\ snapOp' = [snapOp EXCEPT ![snapCall + 1] = <<op, data>>]
    /\ snapTask' = [t \in Task |-> IF t[1] = snapCall + 1 THEN "queued" ELSE snapTask[t]]
    /\ crowded' = (crowded \/ \E t \in Task : snapTask[t] \in AtWork)
    /\ UNCHANGED <<configVars, vmVars, removals, hostVars, requestVars, diskVars, data, target,
                   historyVars>>

\* The result of a task that nobody awaits goes nowhere.
TaskStep(t, next) ==
    /\ snapTask' = [snapTask EXCEPT ![t] =
          IF next \in AtWork \/ (snapActive /\ t[1] = snapCall) THEN next ELSE "none"]
    /\ UNCHANGED <<configVars, vmVars, removals, hostVars, requestVars, data, snapCall,
                   snapActive, snapOp, crowded, historyVars>>

\* fs::copy opens its source,
OpenSource(t) ==
    /\ snapTask[t] = "queued" /\ snapOp[t[1]][1] = "copy"
    /\ disk[1][t[2]] # 0
    /\ TaskStep(t, "opened")
    /\ UNCHANGED <<diskVars, target>>

\* ... then its target, which is created if it is not there and truncated if it is, be it
\* the source,
OpenTarget(t) ==
    /\ snapTask[t] = "opened"
    /\ LET there == disk[2][t[2]]
           file  == IF there = 0 THEN t[1] + 1 ELSE there
       IN  /\ disk' = [disk EXCEPT ![2][t[2]] = file]
           /\ content' = [content EXCEPT ![t[2]][file] = "torn"]
           /\ target' = [target EXCEPT ![t] = file]
    /\ TaskStep(t, "open")

\* ... and writes to the one what the other holds, wherever they are by now.
WriteCopy(t) ==
    /\ snapTask[t] = "open"
    /\ content' = [content EXCEPT ![t[2]][target[t]] = content[t[2]][1]]
    /\ target' = [target EXCEPT ![t] = 0]
    /\ TaskStep(t, "ok")
    /\ UNCHANGED disk

\* Mutant: the file is unlinked before its target is made.
RenameByUnlink(t) ==
    /\ snapTask[t] \in {"queued", "opened"} /\ snapOp[t[1]][1] = "move_out"
    /\ IF snapTask[t] = "queued"
       THEN /\ disk[1][t[2]] # 0
            /\ disk' = [disk EXCEPT ![1][t[2]] = 0]
            /\ TaskStep(t, "opened")
       ELSE /\ disk' = [disk EXCEPT ![2][t[2]] = 1]
            /\ TaskStep(t, "ok")
    /\ UNCHANGED <<content, target>>

Rename(t) ==
    /\ snapTask[t] = "queued" /\ snapOp[t[1]][1] = "move_out"
    /\ disk[1][t[2]] # 0
    /\ disk' = [disk EXCEPT ![1][t[2]] = 0, ![2][t[2]] = disk[1][t[2]]]
    /\ TaskStep(t, "ok")
    /\ UNCHANGED <<content, target>>

RemoveSnapshot(t) ==
    /\ snapTask[t] = "queued" /\ snapOp[t[1]][1] = "remove"
    /\ disk[snapOp[t[1]][2]][t[2]] # 0
    /\ disk' = [disk EXCEPT ![snapOp[t[1]][2]][t[2]] = 0]
    /\ TaskStep(t, "ok")
    /\ UNCHANGED <<content, target>>

\* At any point, always if the source is gone; a copy that has its target stays torn.
TaskFails(t) ==
    /\ snapTask[t] \in AtWork
    /\ target' = [target EXCEPT ![t] = 0]
    /\ TaskStep(t, "failed")
    /\ UNCHANGED diskVars

\* The tasks of a call that has ended: the results are gone, what is at work goes on.
Detached == [t \in Task |-> IF snapTask[t] \in AtWork THEN snapTask[t] ELSE "none"]

\* Mutant: the first of the two that succeeds decides.
SnapshotDataDoneFirst ==
    /\ snapActive
    /\ \E k \in Kind : snapTask[<<snapCall, k>>] = "ok"
    /\ snapActive' = FALSE
    /\ data' = IF snapOp[snapCall][1] = "remove" THEN 0 ELSE 2
    /\ snapTask' = Detached
    /\ UNCHANGED <<configVars, vmVars, removals, hostVars, requestVars, diskVars, snapCall,
                   snapOp, target, crowded, historyVars>>

\* try_join has both results.
SnapshotDataDone ==
    /\ snapActive
    /\ \A k \in Kind : snapTask[<<snapCall, k>>] = "ok"
    /\ snapActive' = FALSE
    /\ data' = IF snapOp[snapCall][1] = "remove" THEN 0 ELSE 2
    /\ snapTask' = Detached
    /\ UNCHANGED <<configVars, vmVars, removals, hostVars, requestVars, diskVars, snapCall,
                   snapOp, target, crowded, historyVars>>

\* The first error is returned, or the future is dropped; the tasks go on.
SnapshotDataFails ==
    /\ snapActive
    /\ snapActive' = FALSE
    /\ data' = IF snapOp[snapCall][1] = "remove" THEN 0 ELSE data
    /\ snapTask' = Detached
    /\ UNCHANGED <<configVars, vmVars, removals, hostVars, requestVars, diskVars, snapCall,
                   snapOp, target, crowded, historyVars>>

-----------------------------------------------------------------------------
VmNext ==
    \/ Prepare \/ ExecutorPrepare \/ VmPrepare \/ Prepared
    \/ Start \/ WriteConfiguration \/ Invoke \/ SocketAppears \/ RegisterListener
    \/ CreateSnapshot \/ SnapshotCreated
    \/ Cleanup \/ CleanupStep \/ RemoveTraces \/ CleanupDone
    \/ \E keep \in BOOLEAN : Abandon(keep)
    \/ \E r \in removals : RunRemoval(r) \/ RemovalFails(r)

FirecrackerNext ==
    \/ \E n \in 1..Lives : Bind(n) \/ BindVsock(n) \/ Die(n)
    \/ WriteSnapshot

SnapshotDataNext ==
    \/ \E op \in {"copy", "move_out", "remove"} : CallSnapshotData(op)
    \/ \E t \in Task : \/ OpenSource(t) \/ OpenTarget(t) \/ WriteCopy(t) \/ Rename(t)
                       \/ RemoveSnapshot(t) \/ TaskFails(t)
    \/ SnapshotDataDone \/ SnapshotDataFails

Next == VmNext \/ FirecrackerNext \/ SnapshotDataNext

\* The blocking pool runs the removals, and the runtime polls a cleanup that awaits them.
Fairness ==
    /\ WF_vars(\E r \in removals : RunRemoval(r) \/ RemovalFails(r))
    /\ WF_vars(CleanupDone)

Spec == Init /\ [][Next]_vars /\ Fairness

-----------------------------------------------------------------------------
\* Only a started Vm has traces, and none while it removes them.
TypeOK ==
    /\ {removesLogs, json, vsock} \subseteq BOOLEAN
    /\ life \in 0..Lives
    /\ vm \in {"none", "notStarted", "starting", "started"}
    /\ call \in {"none", "prepare", "start", "snapshot", "cleanup", "removing"}
    /\ todo \in Seq({"socket", "fcLog", "mappings", "log", "config", "invoke"})
    /\ cleanups \in 0..Calls
    /\ snapshot_traces \in {{}, Kind}
    /\ removals \subseteq (0..Calls) \X (File \union Kind)
    /\ vmm \in [1..Lives -> {"none", "young", "bound", "ready", "dead"}]
    /\ owner \in [File -> 0..Lives]
    /\ asker \in 0..Lives
    /\ request \in {"none", "asked", "written", "failed"}
    /\ disk \in [1..2 -> [Kind -> Inode \union {0}]]
    /\ content \in [Kind -> [Inode -> {"torn", "whole"}]]
    /\ data \in 0..2
    /\ snapCall \in 0..Calls /\ snapActive \in BOOLEAN
    /\ snapOp \in [1..Calls -> {"none", "copy", "move_out", "remove"} \X (0..2)]
    /\ snapTask \in [Task -> AtWork \union {"none", "ok", "failed"}]
    /\ target \in [Task -> Inode \union {0}]
    /\ reached \in 0..Lives
    /\ {crowded, cleaned, interrupted, unlinkFailed, overlapped} \subseteq BOOLEAN
    /\ snapshot_traces # {} => vm = "started" /\ call # "removing"

\* When start stops waiting for the API socket, the socket is that of the VMM it has just
\* launched, not one that an earlier VMM left behind, and not one that an abandoned call
\* was about to remove.
SocketIsFresh == reached # 0 /\ ~overlapped => reached = life

\* As long as the VMM is alive, its files are there and its own: no cleanup, and no task
\* that one left behind, takes them away.
LivingVmKeepsItsFiles ==
    vm = "started" /\ Alive(life) /\ ~overlapped =>
        /\ owner["fcLog"] = life /\ owner["log"] = life
        /\ vmm[life] # "young" => owner["socket"] = life
        /\ vmm[life] = "ready" /\ vsock => owner["vsock"] = life

\* What cleanup does not look at: a log it is to keep, the configuration file that start has
\* written, and listeners that the program has registered without a vsock device.
Leftovers == {"config"} \union (IF removesLogs THEN {} ELSE {"fcLog"})
                        \union (IF vsock THEN {} ELSE {"listener"})

\* After Ok of cleanup nothing of the Vm is left but these, if no file could not be removed,
\* also when it is a second attempt.  The files of a snapshot may be left by a cleanup that
\* was dropped, which has forgotten them, and if their creation was not seen to end.
OnlyLeftoversRemain ==
    cleaned /\ ~unlinkFailed =>
        /\ \A f \in File \ Leftovers : owner[f] # life
        /\ asker = life /\ (data # 0 \/ snapCall > 0) /\ ~interrupted
             => \A k \in Kind : disk[1][k] = 0

Whole(place, k) == disk[place][k] # 0 /\ content[k][disk[place][k]] = "whole"

\* What copy or move_out has brought elsewhere is complete and survives the cleanup of the
\* Vm, whether that comes before, in between or after; unless a call met the tasks of an
\* abandoned one and one of them is a copy, which truncates what it finds.  Any number of
\* abandoned move_outs does no harm.
BroughtSnapshotSurvives ==
    data = 2 /\ ~snapActive /\ (crowded => \A c \in 1..snapCall : snapOp[c][1] = "move_out")
        => \A k \in Kind : Whole(2, k)

\* The file that Firecracker wrote is somewhere, and complete.
Kept(k) == \E place \in 1..2 : disk[place][k] = 1 /\ content[k][1] = "whole"

\* A call of copy and one of move_out have met.
CopyMeetsMove ==
    crowded /\ {"copy", "move_out"} \subseteq {snapOp[c][1] : c \in 1..snapCall}

\* The file that Firecracker wrote is only lost to remove, to the removal of a trace, or to
\* a copy that has opened it when the late rename of an abandoned move_out, or the other
\* way round, puts it where the copy is to go: the copy then truncates its own source.  No
\* other failure, drop or meeting of copy and move_out loses it.
SnapshotOnlyRemoved ==
    [][\A k \in Kind : Kept(k) /\ ~Kept(k)' =>
          \/ \E r \in removals \ removals' : r[2] = k
          \/ \E t \in Task : /\ t[2] = k /\ snapTask'[t] # snapTask[t]
                            /\ \/ snapOp[t[1]][1] = "remove"
                               \/ CopyMeetsMove /\ target'[t] = 1]_vars

\* A cleanup that removes its traces comes to an end, whatever the removals come to.
CleanupReturns == call = "removing" ~> call # "removing"

=============================================================================
