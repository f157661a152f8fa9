-------------------------- MODULE VmTraces_proofs --------------------------
(***************************************************************************)
(* Proofs about VmTraces, for any number of Vms and of calls.              *)
(*                                                                         *)
(* The invariant has three parts: how far the call in flight has come, to  *)
(* whom each file of the Vm belongs meanwhile, and what the tasks of       *)
(* SnapshotData that are still at work can do to the files of a snapshot.  *)
(***************************************************************************)
EXTENDS VmTraces, TLAPS

\* The steps that a call has left.
PrepareSteps == {<<"socket", "fcLog", "mappings", "log">>, <<"fcLog", "mappings", "log">>,
                 <<"mappings", "log">>, <<"log">>, << >>}
StartSteps == {<<"config", "invoke">>, <<"invoke">>}
CleanupSteps == IF removesLogs THEN {<<"socket", "fcLog">>, <<"fcLog">>, << >>}
                ELSE {<<"socket">>, << >>}

CallOfVm ==
    /\ call \in {"snapshot", "cleanup", "removing"} => vm = "started"
    /\ call = "prepare" => vm = "none" /\ todo \in PrepareSteps
    /\ call = "start" => \/ vm = "starting" /\ todo \in StartSteps
                         \/ vm = "started" /\ todo = << >>
    /\ call = "cleanup" => todo \in CleanupSteps
    /\ call \notin {"prepare", "start", "cleanup"} => todo = << >>
    /\ vm = "notStarted" => call = "none"
    /\ vm = "starting" => call \in {"none", "start"}
    /\ vm # "none" \/ call # "none" => life > 0

\* A VMM is launched once for each Vm, and dead before its Vm cleans up.
VmmOfVm ==
    /\ \A n \in 1..Lives : n > life => vmm[n] = "none"
    /\ vm \in {"notStarted", "starting"} \/ call = "prepare" => vmm[life] = "none"
    /\ vm = "started" => vmm[life] # "none"
    /\ call \in {"cleanup", "removing"} => vmm[life] = "dead"

-----------------------------------------------------------------------------
\* A Vm that began when nothing was at work any more has the paths for itself until its
\* VMM is dead.
OwnFiles ==
    ~overlapped =>
        /\ \A n \in 1..Lives : n < life => ~Alive(n)
        /\ removals # {} /\ ~(vm = "none" /\ call = "none") =>
              vm = "started" /\ vmm[life] = "dead"
        /\ call = "prepare" =>
              /\ todo # <<"socket", "fcLog", "mappings", "log">> => owner["socket"] = 0
              /\ todo \in {<<"mappings", "log">>, <<"log">>, << >>} => owner["fcLog"] = life
              /\ todo = << >> => owner["log"] = life
        /\ vm \in {"notStarted", "starting"} =>
              owner["socket"] = 0 /\ owner["fcLog"] = life /\ owner["log"] = life
        /\ vm = "started" => owner["socket"] \in {0, life}

\* What a cleanup has got rid of, or has a task for, when it has come so far.
CleanupSoFar ==
    /\ call = "removing" \/ (call = "cleanup" /\ todo \in {<<"fcLog">>, << >>})
          => owner["socket"] # life
    /\ removesLogs /\ (call = "removing" \/ (call = "cleanup" /\ todo = << >>))
          => owner["fcLog"] # life
    /\ call = "removing" /\ ~unlinkFailed =>
          \A f \in AccessiblePaths : owner[f] = life => <<cleanups, f>> \in removals

\* No VMM binds the socket of a device that it does not have.
NoVsockDevice == ~vsock => owner["vsock"] = 0

\* A Vm that has cleaned up does nothing that makes files.
CleanedIsDead ==
    cleaned => /\ call = "none" /\ vm \notin {"notStarted", "starting"}
               /\ life > 0 /\ vmm[life] = "dead"

-----------------------------------------------------------------------------
Created == data # 0 \/ snapCall > 0

\* Where the file that Firecracker wrote is, and that it is whole unless a copy has met it.
SnapshotWhole ==
    /\ request \in {"none", "asked"} =>
          \A place \in 1..2 : \A k \in Kind : disk[place][k] = 0
    /\ \A k \in Kind : disk[1][k] \in {0, 1} /\ (disk[1][k] = 1 => disk[2][k] # 1)
    /\ request = "written" /\ ~CopyMeetsMove => \A k \in Kind : content[k][1] = "whole"
    /\ vm \in {"notStarted", "starting"} \/ call = "prepare" => request = "none"
    /\ call = "snapshot" => request # "none" /\ ~Created
    /\ Created => request = "written"

\* A snapshot that was created has its traces, until a cleanup has removals instead.
TracesOfSnapshot ==
    Created /\ vm = "started" /\ ~interrupted /\ ~unlinkFailed =>
        \/ snapshot_traces = Kind
        \/ \A k \in Kind :
              disk[1][k] # 0 => call = "removing" /\ <<cleanups, k>> \in removals

\* What the tasks of SnapshotData belong to.  remove is the last call.
TasksOfCalls ==
    /\ snapActive => snapCall > 0
    /\ \A t \in Task : snapTask[t] # "none" => t[1] <= snapCall
    /\ \A t \in Task : snapTask[t] \in {"opened", "open"} => snapOp[t[1]][1] = "copy"
    /\ \A t \in Task : snapTask[t] \in {"ok", "failed"} => snapActive /\ t[1] = snapCall
    /\ \A c \in 1..Calls : c <= snapCall =>
          /\ snapOp[c][2] \in 1..2
          /\ snapOp[c][1] = "remove" => c = snapCall /\ (snapActive \/ data = 0)
    /\ data = 2 /\ snapActive => snapOp[snapCall][1] = "remove"
    /\ data = 2 /\ ~snapActive => \A k \in Kind : snapTask[<<snapCall, k>>] = "none"

\* The tasks of two calls are at work only if one has begun in spite of the other.  The file
\* that Firecracker wrote is only moved by move_out, and under an open copy only by another
\* call.
TasksMeet ==
    /\ ~crowded => \A t \in Task : snapTask[t] \in AtWork => t[1] = snapCall
    /\ \A k \in Kind : disk[2][k] = 1 => \E c \in 1..snapCall : snapOp[c][1] = "move_out"
    /\ \A t \in Task : snapTask[t] = "opened" /\ disk[2][t[2]] = 1 => crowded

NoCopyMet == crowded => \A c \in 1..snapCall : snapOp[c][1] = "move_out"

\* How far copy or move_out has come with each file.
Brought ==
    snapActive /\ snapOp[snapCall][1] # "remove" /\ NoCopyMet =>
        \A k \in Kind :
            /\ snapTask[<<snapCall, k>>] = "ok" => Whole(2, k)
            /\ snapTask[<<snapCall, k>>] = "open" =>
                  disk[2][k] # 0 /\ disk[2][k] = target[<<snapCall, k>>]

\* What OnlyLeftoversRemain says of the files of the Vm, and of its snapshot.
FilesLeft ==
    cleaned /\ ~unlinkFailed => \A f \in File \ Leftovers : owner[f] # life
SnapshotLeft ==
    cleaned /\ ~unlinkFailed /\ Created /\ ~interrupted => \A k \in Kind : disk[1][k] = 0

ControlInv == CallOfVm /\ VmmOfVm
FilesInv == /\ OwnFiles /\ SocketIsFresh /\ LivingVmKeepsItsFiles
            /\ NoVsockDevice /\ CleanupSoFar /\ CleanedIsDead /\ FilesLeft
SnapshotInv == /\ SnapshotWhole /\ TracesOfSnapshot /\ SnapshotLeft
               /\ TasksOfCalls /\ TasksMeet /\ Brought /\ BroughtSnapshotSurvives

TInv == TypeOK /\ ControlInv /\ FilesInv /\ SnapshotInv

-----------------------------------------------------------------------------
AnyStep == {"socket", "fcLog", "mappings", "log", "config", "invoke"}

\* The lists of steps are different lists, and lists of steps.
LEMMA StepLists ==
  /\ <<"socket", "fcLog", "mappings", "log">> \notin
        {<<"fcLog", "mappings", "log">>, <<"mappings", "log">>, <<"log">>, << >>}
  /\ <<"fcLog", "mappings", "log">> \notin {<<"mappings", "log">>, <<"log">>, << >>}
  /\ <<"mappings", "log">> \notin {<<"log">>, << >>} /\ <<"log">> # << >>
  /\ <<"socket", "fcLog">> \notin {<<"fcLog">>, << >>}
  /\ <<"socket">> \notin {<<"fcLog">>, << >>} /\ <<"fcLog">> # << >>
  /\ <<"config", "invoke">> # << >> /\ <<"invoke">> # << >>
  /\ \A list \in PrepareSteps \union StartSteps \union CleanupSteps : list \in Seq(AnyStep)
<1>1. <<"socket", "fcLog", "mappings", "log">> \in Seq(AnyStep)
  BY DEF AnyStep
<1>2. <<"fcLog", "mappings", "log">> \in Seq(AnyStep)
  BY DEF AnyStep
<1>3. /\ <<"mappings", "log">> \in Seq(AnyStep) /\ <<"log">> \in Seq(AnyStep)
      /\ << >> \in Seq(AnyStep)
  BY DEF AnyStep
<1>4. /\ <<"socket", "fcLog">> \in Seq(AnyStep) /\ <<"socket">> \in Seq(AnyStep)
      /\ <<"fcLog">> \in Seq(AnyStep)
  BY DEF AnyStep
<1>5. <<"config", "invoke">> \in Seq(AnyStep) /\ <<"invoke">> \in Seq(AnyStep)
  BY DEF AnyStep
<1>6. /\ <<"socket", "fcLog", "mappings", "log">> \notin
            {<<"fcLog", "mappings", "log">>, <<"mappings", "log">>, <<"log">>, << >>}
      /\ <<"fcLog", "mappings", "log">> \notin {<<"mappings", "log">>, <<"log">>, << >>}
      /\ <<"mappings", "log">> \notin {<<"log">>, << >>} /\ <<"log">> # << >>
      /\ <<"socket", "fcLog">> \notin {<<"fcLog">>, << >>}
      /\ <<"socket">> \notin {<<"fcLog">>, << >>} /\ <<"fcLog">> # << >>
      /\ <<"config", "invoke">> # << >> /\ <<"invoke">> # << >>
  OBVIOUS
<1>7. \A list \in PrepareSteps \union StartSteps \union CleanupSteps : list \in Seq(AnyStep)
  BY <1>1, <1>2, <1>3, <1>4, <1>5 DEF PrepareSteps, StartSteps, CleanupSteps
<1> QED
  BY <1>6, <1>7

\* The steps of prepare come one after another.
LEMMA PrepareInOrder ==
  ASSUME CallOfVm, ExecutorPrepare \/ VmPrepare
  PROVE  \/ /\ todo = <<"socket", "fcLog", "mappings", "log">>
            /\ todo' = <<"fcLog", "mappings", "log">>
            /\ owner' = [owner EXCEPT !["socket"] = 0]
         \/ /\ todo = <<"fcLog", "mappings", "log">>
            /\ todo' = <<"mappings", "log">>
            /\ owner' = [owner EXCEPT !["fcLog"] = life]
         \/ /\ todo = <<"mappings", "log">>
            /\ todo' = <<"log">>
            /\ owner' = owner
         \/ /\ todo = <<"log">>
            /\ todo' = << >>
            /\ owner' = [owner EXCEPT !["log"] = life]
<1>1. todo \in PrepareSteps /\ todo # << >> /\ todo' = Tail(todo)
  BY DEF ExecutorPrepare, VmPrepare, PrepareWith, CallOfVm
<1>2. CASE todo = <<"socket", "fcLog", "mappings", "log">>
  BY <1>1, <1>2 DEF ExecutorPrepare, VmPrepare, PrepareWith
<1>3. CASE todo = <<"fcLog", "mappings", "log">>
  BY <1>1, <1>3 DEF ExecutorPrepare, VmPrepare, PrepareWith
<1>4. CASE todo = <<"mappings", "log">>
  BY <1>1, <1>4 DEF ExecutorPrepare, VmPrepare, PrepareWith
<1>5. CASE todo = <<"log">>
  BY <1>1, <1>5 DEF ExecutorPrepare, VmPrepare, PrepareWith
<1> QED
  BY <1>1, <1>2, <1>3, <1>4, <1>5 DEF PrepareSteps

\* ... and so do those of start.
LEMMA StartInOrder ==
  ASSUME CallOfVm, WriteConfiguration \/ Invoke
  PROVE  /\ vm = "starting"
         /\ \/ WriteConfiguration /\ todo' = <<"invoke">>
            \/ Invoke /\ todo' = << >>
<1>1. vm = "starting" /\ todo \in StartSteps /\ todo' = Tail(todo)
  BY DEF WriteConfiguration, Invoke, CallOfVm
<1>2. CASE todo = <<"config", "invoke">>
  BY <1>1, <1>2 DEF WriteConfiguration, Invoke
<1>3. CASE todo = <<"invoke">>
  BY <1>1, <1>3 DEF WriteConfiguration, Invoke
<1> QED
  BY <1>1, <1>2, <1>3 DEF StartSteps

\* ... and those of the executor's cleanup.
LEMMA CleanupInOrder ==
  ASSUME CallOfVm, CleanupStep
  PROVE  \/ /\ removesLogs
            /\ todo = <<"socket", "fcLog">> /\ todo' = <<"fcLog">>
            /\ owner' = [owner EXCEPT !["socket"] = 0]
         \/ /\ ~removesLogs
            /\ todo = <<"socket">> /\ todo' = << >>
            /\ owner' = [owner EXCEPT !["socket"] = 0]
         \/ /\ removesLogs
            /\ todo = <<"fcLog">> /\ todo' = << >>
            /\ owner' = [owner EXCEPT !["fcLog"] = 0]
<1>1. todo \in CleanupSteps /\ todo # << >> /\ todo' = Tail(todo)
  BY DEF CleanupStep, CallOfVm
<1>2. CASE todo = <<"socket", "fcLog">> /\ removesLogs
  BY <1>1, <1>2 DEF CleanupStep
<1>3. CASE todo = <<"socket">> /\ ~removesLogs
  BY <1>1, <1>3 DEF CleanupStep
<1>4. CASE todo = <<"fcLog">> /\ removesLogs
  BY <1>1, <1>4 DEF CleanupStep
<1> QED
  BY <1>1, <1>2, <1>3, <1>4 DEF CleanupSteps

\* A start begins with the whole list,
LEMMA StartBegins ==
  Start => todo' \in StartSteps
  BY DEF Start, StartSteps

\* ... and so does a cleanup.
LEMMA CleanupBegins ==
  Cleanup => todo' = IF removesLogs THEN <<"socket", "fcLog">> ELSE <<"socket">>
  BY DEF Cleanup

-----------------------------------------------------------------------------
\* Where the call in flight is, and what has become of the VMM.
LEMMA ControlStep ==
  ASSUME TypeOK, ControlInv, [Next]_vars
  PROVE  ControlInv'
<1> USE DEF TypeOK, ControlInv, CallOfVm, VmmOfVm, PrepareSteps, StartSteps, CleanupSteps, Alive,
            configVars, vmVars, hostVars, requestVars, diskVars, taskVars, dataVars, historyVars
<1>1. CASE Prepare
  <2>1. life + 1 \in 1..Lives /\ life' = life + 1
    BY <1>1, BoundsAssumption DEF Prepare
  <2>2. vmm' = vmm /\ vm' = "none" /\ call' = "prepare" /\ todo' \in PrepareSteps
    BY <1>1 DEF Prepare
  <2> HIDE DEF PrepareSteps
  <2>3. CallOfVm'
    BY <2>1, <2>2, BoundsAssumption DEF PrepareSteps
  <2>4. VmmOfVm'
    BY <2>1, <2>2, BoundsAssumption
  <2> QED
    BY <2>3, <2>4
<1>2. CASE ExecutorPrepare
  <2>1. todo' \in PrepareSteps
    BY <1>2, PrepareInOrder
  <2>2. call = "prepare" /\ UNCHANGED <<vm, call, life, vmm, removesLogs>>
    BY <1>2 DEF ExecutorPrepare, PrepareWith
  <2> QED
    BY <2>1, <2>2
<1>3. CASE VmPrepare
  <2>1. todo' \in PrepareSteps
    BY <1>3, PrepareInOrder
  <2>2. call = "prepare" /\ UNCHANGED <<vm, call, life, vmm, removesLogs>>
    BY <1>3 DEF VmPrepare, PrepareWith
  <2> QED
    BY <2>1, <2>2
<1>4. CASE Prepared
  BY <1>4 DEF Prepared
<1>5. CASE Start
  <2>1. todo' \in StartSteps
    BY <1>5, StartBegins
  <2>2. /\ vm = "notStarted" /\ vm' = "starting" /\ call' = "start"
        /\ UNCHANGED <<life, vmm, removesLogs>>
    BY <1>5 DEF Start
  <2> QED
    BY <2>1, <2>2
<1>30. CASE WriteConfiguration
  <2>1. todo' = <<"invoke">> /\ vm = "starting"
    BY <1>30, StartInOrder DEF WriteConfiguration, Invoke
  <2>2. call = "start" /\ UNCHANGED <<vm, call, life, vmm, removesLogs>>
    BY <1>30 DEF WriteConfiguration
  <2> QED
    BY <2>1, <2>2
<1>31. CASE Invoke
  <2>1. todo' = << >> /\ vm = "starting"
    BY <1>31, StartInOrder DEF WriteConfiguration, Invoke
  <2>2. /\ call = "start" /\ vm' = "started" /\ vmm' = [vmm EXCEPT ![life] = "young"]
        /\ UNCHANGED <<call, life, removesLogs>>
    BY <1>31 DEF Invoke
  <2> QED
    BY <2>1, <2>2
<1>6. CASE SocketAppears
  BY <1>6 DEF SocketAppears
<1>7. CASE RegisterListener
  BY <1>7 DEF RegisterListener
<1>8. CASE CreateSnapshot
  BY <1>8 DEF CreateSnapshot
<1>9. CASE SnapshotCreated
  BY <1>9 DEF SnapshotCreated
<1>10. CASE Cleanup
  <2>1. todo' \in CleanupSteps /\ UNCHANGED removesLogs
    BY <1>10, CleanupBegins DEF Cleanup
  <2>2. /\ vm = "started" /\ vmm[life] = "dead" /\ call' = "cleanup"
        /\ UNCHANGED <<vm, life, vmm, removesLogs>>
    <3>1. vm = "started" /\ ~Alive(life) /\ life \in 1..Lives
      BY <1>10 DEF Cleanup
    <3>2. vmm[life] \in {"none", "young", "bound", "ready", "dead"} /\ vmm[life] # "none"
      BY <3>1
    <3>3. call' = "cleanup" /\ UNCHANGED <<vm, life, vmm, removesLogs>>
      BY <1>10 DEF Cleanup
    <3> QED
      BY ONLY <3>1, <3>2, <3>3 DEF Alive
  <2> QED
    BY <2>1, <2>2
<1>11. CASE CleanupStep
  <2>1. todo' \in CleanupSteps
    BY <1>11, CleanupInOrder DEF CleanupStep
  <2>2. call = "cleanup" /\ UNCHANGED <<vm, call, life, vmm, removesLogs>>
    BY <1>11 DEF CleanupStep
  <2> QED
    BY <2>1, <2>2
<1>12. CASE RemoveTraces
  BY <1>12 DEF RemoveTraces
<1>13. CASE CleanupDone
  BY <1>13 DEF CleanupDone
<1>14. ASSUME NEW keep \in BOOLEAN, Abandon(keep)
      PROVE  ControlInv'
  BY <1>14 DEF Abandon
<1>15. ASSUME NEW r \in removals, RunRemoval(r)
      PROVE  ControlInv'
  BY <1>15 DEF RunRemoval, Unlink
<1>16. ASSUME NEW r \in removals, RemovalFails(r)
      PROVE  ControlInv'
  BY <1>16 DEF RemovalFails, Present
<1>17. ASSUME NEW n \in 1..Lives, Bind(n)
      PROVE  ControlInv'
  <2>1. /\ vmm[n] = "young" /\ n <= life
        /\ vmm' = [vmm EXCEPT ![n] = "bound"] \/ vmm' = [vmm EXCEPT ![n] = "dead"]
        /\ UNCHANGED <<vm, call, todo, life, removesLogs>>
    BY <1>17 DEF Bind
  <2>2. \A m \in 1..Lives : vmm'[m] = vmm[m] \/ (m = n /\ vmm'[m] \in {"bound", "dead"})
    BY <2>1
  <2>3. CallOfVm' /\ \A m \in 1..Lives : m > life' => vmm'[m] = "none"
    BY <2>1, <2>2
  <2>4. /\ vm' \in {"notStarted", "starting"} \/ call' = "prepare" => vmm[life]' = "none"
        /\ vm' = "started" => vmm[life]' # "none"
        /\ call' \in {"cleanup", "removing"} => vmm[life]' = "dead"
    <3>1. CASE life > 0
      BY <2>1, <2>2, <3>1
    <3>2. CASE life = 0
      BY <2>1, <3>2
    <3> QED
      BY <3>1, <3>2
  <2> QED
    BY <2>3, <2>4
<1>18. ASSUME NEW n \in 1..Lives, BindVsock(n)
      PROVE  ControlInv'
  BY <1>18 DEF BindVsock
<1>19. ASSUME NEW n \in 1..Lives, Die(n)
      PROVE  ControlInv'
  BY <1>19 DEF Die
<1>20. CASE WriteSnapshot
  BY <1>20 DEF WriteSnapshot
<1>21. ASSUME NEW op \in {"copy", "move_out", "remove"}, CallSnapshotData(op)
      PROVE  ControlInv'
  BY <1>21 DEF CallSnapshotData
<1>22. ASSUME NEW t \in Task, OpenSource(t) \/ OpenTarget(t)
      PROVE  ControlInv'
  <2>1. UNCHANGED <<vm, call, todo, life, vmm, removesLogs>>
    BY <1>22 DEF OpenSource, OpenTarget, TaskStep
  <2> QED
    BY <2>1
<1>23. ASSUME NEW t \in Task, WriteCopy(t)
      PROVE  ControlInv'
  BY <1>23 DEF WriteCopy, TaskStep
<1>24. ASSUME NEW t \in Task, Rename(t)
      PROVE  ControlInv'
  BY <1>24 DEF Rename, TaskStep
<1>25. ASSUME NEW t \in Task, RemoveSnapshot(t)
      PROVE  ControlInv'
  BY <1>25 DEF RemoveSnapshot, TaskStep
<1>26. ASSUME NEW t \in Task, TaskFails(t)
      PROVE  ControlInv'
  BY <1>26 DEF TaskFails, TaskStep
<1>27. CASE SnapshotDataDone
  BY <1>27 DEF SnapshotDataDone
<1>28. CASE SnapshotDataFails
  BY <1>28 DEF SnapshotDataFails
<1>29. CASE UNCHANGED vars
  BY <1>29 DEF vars
<1> QED
  BY <1>1, <1>2, <1>3, <1>4, <1>5, <1>6, <1>7, <1>8, <1>9, <1>10, <1>11, <1>12, <1>13, <1>14,
    <1>15, <1>16, <1>17, <1>18, <1>19, <1>20, <1>21, <1>22, <1>23, <1>24, <1>25, <1>26, <1>27,
    <1>28, <1>29, <1>30, <1>31 DEF Next, VmNext, FirecrackerNext, SnapshotDataNext

Held == Inode \union {0}

\* Writing or removing one file leaves the disk a disk.
LEMMA DiskWrite ==
  ASSUME NEW d \in [1..2 -> [Kind -> Held]],
         NEW place \in 1..2, NEW k \in Kind, NEW file \in Held
  PROVE  /\ [d EXCEPT ![place][k] = file] \in [1..2 -> [Kind -> Held]]
         /\ \A p \in 1..2 : \A j \in Kind :
               [d EXCEPT ![place][k] = file][p][j]
                 = IF p = place /\ j = k THEN file ELSE d[p][j]
  OBVIOUS

\* ... and so does writing to one for what is in the files.
LEMMA ContentWrite ==
  ASSUME TypeOK, NEW k \in Kind, NEW file \in Inode, NEW what \in {"torn", "whole"}
  PROVE  /\ [content EXCEPT ![k][file] = what] \in [Kind -> [Inode -> {"torn", "whole"}]]
         /\ \A j \in Kind : \A i \in Inode :
               [content EXCEPT ![k][file] = what][j][i]
                 = IF j = k /\ i = file THEN what ELSE content[j][i]
  BY DEF TypeOK

\* The file that Firecracker writes and those that copies create.
LEMMA InodeNumbers ==
  1 \in Inode /\ 0 \notin Inode /\ \A c \in 1..Calls : c + 1 \in Inode /\ c + 1 # 1
  BY BoundsAssumption DEF Inode

\* What opening a target does to the disk: it is there and torn.
LEMMA OpenTargetWrites ==
  ASSUME TypeOK, NEW t \in Task, OpenTarget(t)
  PROVE  /\ disk' \in [1..2 -> [Kind -> Held]]
         /\ content' \in [Kind -> [Inode -> {"torn", "whole"}]]
         /\ target' \in [Task -> Held]
         /\ target'[t] = IF disk[2][t[2]] = 0 THEN t[1] + 1 ELSE disk[2][t[2]]
         /\ target'[t] \in Inode
         /\ \A s \in Task : s # t => target'[s] = target[s]
         /\ \A p \in 1..2 : \A j \in Kind :
               disk'[p][j] = IF p = 2 /\ j = t[2] THEN target'[t] ELSE disk[p][j]
         /\ \A j \in Kind : \A i \in Inode :
               content'[j][i] = IF j = t[2] /\ i = target'[t] THEN "torn" ELSE content[j][i]
<1> DEFINE file == IF disk[2][t[2]] = 0 THEN t[1] + 1 ELSE disk[2][t[2]]
<1>1. t[1] \in 1..Calls /\ t[2] \in Kind
  BY DEF Task
<1>2. disk \in [1..2 -> [Kind -> Held]] /\ disk[2][t[2]] \in Held
  BY <1>1 DEF TypeOK, Held
<1>3. file \in Inode /\ file \in Held
  BY <1>1, <1>2, InodeNumbers DEF Held
<1>4. /\ disk' = [disk EXCEPT ![2][t[2]] = file]
      /\ content' = [content EXCEPT ![t[2]][file] = "torn"]
      /\ target' = [target EXCEPT ![t] = file]
  BY DEF OpenTarget
<1>5. target \in [Task -> Held]
  BY DEF TypeOK, Held
<1> HIDE DEF file
<1>6. /\ target' \in [Task -> Held] /\ target'[t] = file
      /\ \A s \in Task : s # t => target'[s] = target[s]
  BY <1>3, <1>4, <1>5
<1>7. /\ disk' \in [1..2 -> [Kind -> Held]]
      /\ \A p \in 1..2 : \A j \in Kind :
            disk'[p][j] = IF p = 2 /\ j = t[2] THEN file ELSE disk[p][j]
  BY <1>1, <1>2, <1>3, <1>4, DiskWrite
<1>8. /\ content' \in [Kind -> [Inode -> {"torn", "whole"}]]
      /\ \A j \in Kind : \A i \in Inode :
            content'[j][i] = IF j = t[2] /\ i = file THEN "torn" ELSE content[j][i]
  BY <1>1, <1>3, <1>4, ContentWrite
<1> QED
  BY <1>3, <1>6, <1>7, <1>8 DEF file

\* What a copy that succeeds does: its target, if that was not the source, gets what the
\* source holds.
LEMMA WriteCopyWrites ==
  ASSUME TypeOK, NEW t \in Task, WriteCopy(t)
  PROVE  /\ UNCHANGED disk
         /\ content' \in [Kind -> [Inode -> {"torn", "whole"}]]
         /\ target' \in [Task -> Held]
         /\ \A s \in Task : s # t => target'[s] = target[s]
         /\ \A j \in Kind : \A i \in Inode :
               content'[j][i] = IF j = t[2] /\ i = target[t] THEN content[j][1]
                                                           ELSE content[j][i]
<1>1. t[2] \in Kind /\ target[t] \in Held /\ content[t[2]][1] \in {"torn", "whole"}
  BY InodeNumbers DEF Task, TypeOK, Held
<1>2. /\ content' = [content EXCEPT ![t[2]][target[t]] = content[t[2]][1]]
      /\ target' = [target EXCEPT ![t] = 0] /\ UNCHANGED disk
  BY DEF WriteCopy
<1>3. target' \in [Task -> Held] /\ \A s \in Task : s # t => target'[s] = target[s]
  BY <1>2 DEF TypeOK, Held
<1>4. CASE target[t] \in Inode
  BY <1>1, <1>2, <1>3, <1>4, ContentWrite
<1>5. CASE target[t] \notin Inode
  <2> DEFINE what == content[t[2]][1]
  <2>0. content \in [Kind -> [Inode -> {"torn", "whole"}]]
    BY DEF TypeOK
  <2>1. content' = [content EXCEPT ![t[2]] = [content[t[2]] EXCEPT ![target[t]] = what]]
    BY <1>2
  <2>3. [content[t[2]] EXCEPT ![target[t]] = what] = content[t[2]]
    BY <1>1, <1>5, <2>0
  <2>4. content' = content
    BY ONLY <1>1, <2>0, <2>1, <2>3
  <2> QED
    BY <1>1, <1>2, <1>3, <1>5, <2>0, <2>4
<1> QED
  BY <1>4, <1>5

\* What a rename does: the file that Firecracker wrote is at the other place.
LEMMA RenameMoves ==
  ASSUME TypeOK, NEW t \in Task, Rename(t)
  PROVE  /\ disk' \in [1..2 -> [Kind -> Held]]
         /\ disk[1][t[2]] # 0
         /\ \A p \in 1..2 : \A j \in Kind :
               disk'[p][j] = IF j # t[2] THEN disk[p][j]
                             ELSE IF p = 1 THEN 0 ELSE disk[1][t[2]]
<1> DEFINE gone == [disk EXCEPT ![1][t[2]] = 0]
<1>1. /\ t[2] \in Kind /\ disk \in [1..2 -> [Kind -> Held]] /\ disk[1][t[2]] \in Held
      /\ 0 \in Held
  BY DEF Task, TypeOK, Held
<1>2. disk' = [gone EXCEPT ![2][t[2]] = disk[1][t[2]]] /\ disk[1][t[2]] # 0
  BY DEF Rename
<1>3. /\ gone \in [1..2 -> [Kind -> Held]]
      /\ \A p \in 1..2 : \A j \in Kind :
            gone[p][j] = IF p = 1 /\ j = t[2] THEN 0 ELSE disk[p][j]
  BY <1>1, DiskWrite
<1> HIDE DEF gone
<1>4. /\ disk' \in [1..2 -> [Kind -> Held]]
      /\ \A p \in 1..2 : \A j \in Kind :
            disk'[p][j] = IF p = 2 /\ j = t[2] THEN disk[1][t[2]] ELSE gone[p][j]
  BY <1>1, <1>2, <1>3, DiskWrite
<1> QED
  BY <1>1, <1>2, <1>3, <1>4

AnyTask == AtWork \union {"none", "ok", "failed"}

\* The variables keep their types.
LEMMA TypeStep ==
  ASSUME TypeOK, ControlInv, SnapshotInv, [Next]_vars
  PROVE  TypeOK'
<1> USE BoundsAssumption DEF TypeOK, ControlInv, SnapshotInv, TasksOfCalls, CallOfVm,
      PrepareSteps, StartSteps, CleanupSteps, Alive, Kind, File, Task, AtWork,
      configVars, vmVars, hostVars, requestVars, diskVars, taskVars, dataVars, historyVars
<1>1. CASE Prepare
  <2>1. life + 1 \in 0..Lives /\ todo' \in PrepareSteps
    BY <1>1, BoundsAssumption DEF Prepare
  <2>2. todo' \in Seq(AnyStep)
    BY <2>1, StepLists
  <2>3. {crowded, cleaned, interrupted, unlinkFailed, overlapped}' \subseteq BOOLEAN
    BY <1>1 DEF Prepare
  <2> QED
    BY <1>1, <2>1, <2>2, <2>3 DEF Prepare
<1>2. CASE ExecutorPrepare
  <2>1. todo' \in PrepareSteps
    BY <1>2, PrepareInOrder
  <2>2. todo' \in Seq(AnyStep)
    BY <2>1, StepLists
  <2>3. /\ owner' = owner \/ \E f \in File, n \in {0, life} : owner' = [owner EXCEPT ![f] = n]
        /\ owner \in [File -> 0..Lives] /\ life \in 0..Lives /\ 0 \in 0..Lives
    <3>1. {"socket", "fcLog", "log"} \subseteq File
      OBVIOUS
    <3>2. CallOfVm /\ (ExecutorPrepare \/ VmPrepare)
      BY ONLY <1>2, ControlInv DEF ControlInv
    <3>3. \/ owner' \in {owner, [owner EXCEPT !["socket"] = 0]}
          \/ owner' \in {[owner EXCEPT !["fcLog"] = life], [owner EXCEPT !["log"] = life]}
      BY ONLY <3>2, PrepareInOrder
    <3>4. owner \in [File -> 0..Lives] /\ life \in 0..Lives /\ 0 \in 0..Lives
      OBVIOUS
    <3> QED
      BY ONLY <3>1, <3>3, <3>4
  <2>4. owner' \in [File -> 0..Lives]
    BY ONLY <2>3
  <2>5. UNCHANGED <<configVars, life, vm, call, cleanups, snapshot_traces, removals, vmm,
                    requestVars, diskVars, dataVars, historyVars>>
    BY ONLY <1>2 DEF ExecutorPrepare, PrepareWith
  <2> QED
    BY ONLY <2>2, <2>4, <2>5, TypeOK DEF TypeOK, AnyStep, configVars, requestVars, diskVars,
       taskVars, dataVars, historyVars
<1>3. CASE VmPrepare
  <2>1. todo' \in PrepareSteps
    BY <1>3, PrepareInOrder
  <2>2. todo' \in Seq(AnyStep)
    BY <2>1, StepLists
  <2>3. /\ owner' = owner \/ \E f \in File, n \in {0, life} : owner' = [owner EXCEPT ![f] = n]
        /\ owner \in [File -> 0..Lives] /\ life \in 0..Lives /\ 0 \in 0..Lives
    <3>1. {"socket", "fcLog", "log"} \subseteq File
      OBVIOUS
    <3>2. CallOfVm /\ (ExecutorPrepare \/ VmPrepare)
      BY ONLY <1>3, ControlInv DEF ControlInv
    <3>3. \/ owner' \in {owner, [owner EXCEPT !["socket"] = 0]}
          \/ owner' \in {[owner EXCEPT !["fcLog"] = life], [owner EXCEPT !["log"] = life]}
      BY ONLY <3>2, PrepareInOrder
    <3>4. owner \in [File -> 0..Lives] /\ life \in 0..Lives /\ 0 \in 0..Lives
      OBVIOUS
    <3> QED
      BY ONLY <3>1, <3>3, <3>4
  <2>4. owner' \in [File -> 0..Lives]
    BY ONLY <2>3
  <2>5. UNCHANGED <<configVars, life, vm, call, cleanups, snapshot_traces, removals, vmm,
                    requestVars, diskVars, dataVars, historyVars>>
    BY ONLY <1>3 DEF VmPrepare, PrepareWith
  <2> QED
    BY ONLY <2>2, <2>4, <2>5, TypeOK DEF TypeOK, AnyStep, configVars, requestVars, diskVars,
       taskVars, dataVars, historyVars
<1>4. CASE Prepared
  BY <1>4 DEF Prepared
<1>5. CASE Start
  <2>1. todo' \in Seq(AnyStep)
    BY <1>5, StartBegins, StepLists
  <2>2. /\ vm' = "starting" /\ call' = "start" /\ snapshot_traces = {}
        /\ UNCHANGED <<configVars, life, cleanups, snapshot_traces, removals, hostVars,
                       requestVars, diskVars, dataVars, historyVars>>
    BY <1>5 DEF Start
  <2> QED
    BY ONLY <2>1, <2>2, TypeOK DEF TypeOK, AnyStep, configVars, hostVars, requestVars, diskVars,
       taskVars, dataVars, historyVars
<1>30. CASE WriteConfiguration
  <2>1. todo' \in Seq(AnyStep)
    BY <1>30, StartInOrder, StepLists DEF WriteConfiguration, Invoke
  <2>2. owner' \in [File -> 0..Lives]
    BY <1>30 DEF WriteConfiguration
  <2> QED
    BY <1>30, <2>1, <2>2 DEF WriteConfiguration
<1>31. CASE Invoke
  <2>1. todo' \in Seq(AnyStep)
    BY <1>31, StartInOrder, StepLists DEF WriteConfiguration, Invoke
  <2>2. vmm' \in [1..Lives -> {"none", "young", "bound", "ready", "dead"}]
    BY <1>31, SMTT(30) DEF Invoke
  <2> QED
    BY <1>31, <2>1, <2>2 DEF Invoke
<1>6. CASE SocketAppears
  BY <1>6 DEF SocketAppears
<1>7. CASE RegisterListener
  BY <1>7 DEF RegisterListener
<1>8. CASE CreateSnapshot
  BY <1>8 DEF CreateSnapshot
<1>9. CASE SnapshotCreated
  BY <1>9 DEF SnapshotCreated
<1>10. CASE Cleanup
  <2>1. todo' \in CleanupSteps
    BY <1>10, CleanupBegins DEF Cleanup
  <2>2. todo' \in Seq(AnyStep)
    BY <2>1, StepLists
  <2>3. cleanups' \in 0..Calls
    BY <1>10 DEF Cleanup
  <2>4. /\ vm = "started" /\ call' = "cleanup" /\ cleaned' = FALSE
        /\ UNCHANGED <<configVars, life, vm, snapshot_traces, removals, hostVars, requestVars,
                       diskVars, dataVars, reached, interrupted, unlinkFailed, overlapped>>
    BY ONLY <1>10 DEF Cleanup
  <2> QED
    BY ONLY <2>2, <2>3, <2>4, TypeOK DEF TypeOK, AnyStep, configVars, hostVars, requestVars,
       diskVars, taskVars, dataVars
<1>11. CASE CleanupStep
  <2>1. todo' \in CleanupSteps
    BY <1>11, CleanupInOrder DEF CleanupStep
  <2>2. todo' \in Seq(AnyStep)
    BY <2>1, StepLists
  <2>3. /\ \E f \in File : owner' = [owner EXCEPT ![f] = 0]
        /\ owner \in [File -> 0..Lives] /\ 0 \in 0..Lives
    BY <1>11, CleanupInOrder
  <2>4. owner' \in [File -> 0..Lives]
    BY ONLY <2>3
  <2>5. UNCHANGED <<configVars, life, vm, call, cleanups, snapshot_traces, removals, vmm,
                    requestVars, diskVars, dataVars, historyVars>>
    BY ONLY <1>11 DEF CleanupStep
  <2> QED
    BY ONLY <2>2, <2>4, <2>5, TypeOK DEF TypeOK, AnyStep, configVars, requestVars, diskVars,
       taskVars, dataVars, historyVars
<1>12. CASE RemoveTraces
  <2>1. AccessiblePaths \subseteq File /\ cleanups \in 0..Calls /\ snapshot_traces \subseteq Kind
    BY DEF AccessiblePaths
  <2>2. /\ call' = "removing" /\ snapshot_traces' = {}
        /\ removals' = removals \union ({cleanups} \X (AccessiblePaths \union snapshot_traces))
        /\ UNCHANGED <<configVars, life, vm, todo, cleanups, hostVars, requestVars, diskVars,
                       dataVars, historyVars>>
    BY ONLY <1>12 DEF RemoveTraces
  <2>3. removals' \subseteq (0..Calls) \X (File \union Kind)
    BY ONLY <2>1, <2>2, TypeOK DEF TypeOK
  <2> QED
    BY ONLY <2>2, <2>3, TypeOK DEF TypeOK, configVars, hostVars, requestVars, diskVars, taskVars,
       dataVars, historyVars
<1>13. CASE CleanupDone
  BY <1>13 DEF CleanupDone
<1>14. ASSUME NEW keep \in BOOLEAN, Abandon(keep)
      PROVE  TypeOK'
  BY <1>14, SMTT(30) DEF Abandon
<1>15. ASSUME NEW r \in removals, RunRemoval(r)
      PROVE  TypeOK'
  <2>1. CASE r[2] \in Kind
    <3>1. disk \in [1..2 -> [Kind -> Held]] /\ 0 \in Held
      BY DEF Held
    <3>2. /\ removals' = removals \ {r} /\ disk' = [disk EXCEPT ![1][r[2]] = 0]
          /\ UNCHANGED <<configVars, vmVars, vmm, owner, content, requestVars, dataVars,
                         historyVars>>
      BY ONLY <1>15, <2>1 DEF RunRemoval, Unlink
    <3>3. disk' \in [1..2 -> [Kind -> Held]]
      BY ONLY <2>1, <3>1, <3>2, DiskWrite
    <3> QED
      BY ONLY <3>2, <3>3, TypeOK DEF TypeOK, Held, configVars, vmVars, requestVars, taskVars,
         dataVars, historyVars
  <2>2. CASE r[2] \notin Kind
    <3>1. r[2] \in File
      BY <2>2
    <3>2. owner' = [owner EXCEPT ![r[2]] = 0] /\ owner \in [File -> 0..Lives] /\ 0 \in 0..Lives
      BY <1>15, <2>2, BoundsAssumption DEF RunRemoval, Unlink
    <3>3. owner' \in [File -> 0..Lives]
      BY ONLY <3>1, <3>2
    <3> QED
      BY <1>15, <2>2, <3>3 DEF RunRemoval, Unlink
  <2> QED
    BY <2>1, <2>2
<1>16. ASSUME NEW r \in removals, RemovalFails(r)
      PROVE  TypeOK'
  BY <1>16 DEF RemovalFails, Present
<1>17. ASSUME NEW n \in 1..Lives, Bind(n)
      PROVE  TypeOK'
  <2>1. vmm' \in [1..Lives -> {"none", "young", "bound", "ready", "dead"}]
    BY <1>17, SMTT(30) DEF Bind
  <2>2. /\ owner' = owner \/ owner' = [owner EXCEPT !["socket"] = n]
        /\ owner \in [File -> 0..Lives] /\ n \in 0..Lives
    BY <1>17 DEF Bind
  <2>3. owner' \in [File -> 0..Lives]
    BY ONLY <2>2 DEF File
  <2>4. UNCHANGED <<configVars, vmVars, removals, requestVars, diskVars, dataVars, historyVars>>
    BY ONLY <1>17 DEF Bind
  <2> QED
    BY ONLY <2>1, <2>3, <2>4, TypeOK DEF TypeOK, configVars, vmVars, requestVars, diskVars,
       taskVars, dataVars, historyVars
<1>18. ASSUME NEW n \in 1..Lives, BindVsock(n)
      PROVE  TypeOK'
  BY <1>18 DEF BindVsock
<1>19. ASSUME NEW n \in 1..Lives, Die(n)
      PROVE  TypeOK'
  BY <1>19 DEF Die
<1>20. CASE WriteSnapshot
  <2>1. /\ disk \in [1..2 -> [Kind -> Inode \union {0}]] /\ 1 \in Inode
        /\ content \in [Kind -> [Inode -> {"torn", "whole"}]]
    BY InodeNumbers
  <2>2. /\ request' \in {"written", "failed"}
        /\ \E files \in [Kind -> {0, 1}] : disk' = [disk EXCEPT ![1] = files]
        /\ content' \in {content, [k \in Kind |-> [content[k] EXCEPT ![1] = "whole"]]}
        /\ UNCHANGED <<configVars, vmVars, removals, hostVars, asker, dataVars, historyVars>>
    <3>1. [k \in Kind |-> 1] \in [Kind -> {0, 1}]
      OBVIOUS
    <3>2. \A kinds : [k \in Kind |-> IF k \in kinds THEN 1 ELSE 0] \in [Kind -> {0, 1}]
      OBVIOUS
    <3> QED
      BY ONLY <1>20, <3>1, <3>2 DEF WriteSnapshot
  <2>3. disk' \in [1..2 -> [Kind -> Inode \union {0}]]
    BY ONLY <2>1, <2>2
  <2>4. content' \in [Kind -> [Inode -> {"torn", "whole"}]]
    BY ONLY <2>1, <2>2
  <2> QED
    BY ONLY <2>2, <2>3, <2>4, TypeOK DEF TypeOK, configVars, vmVars, hostVars, taskVars, dataVars,
       historyVars
<1>21. ASSUME NEW op \in {"copy", "move_out", "remove"}, CallSnapshotData(op)
      PROVE  TypeOK'
  <2>1. snapCall' \in 0..Calls /\ snapActive' \in BOOLEAN
    BY <1>21 DEF CallSnapshotData
  <2>2. snapOp' \in [1..Calls -> {"none", "copy", "move_out", "remove"} \X (0..2)]
    BY <1>21 DEF CallSnapshotData
  <2>3. snapTask' \in [Task -> AnyTask]
    BY <1>21 DEF CallSnapshotData, AnyTask
  <2> QED
    BY <1>21, <2>1, <2>2, <2>3 DEF AnyTask, CallSnapshotData
<1>22. ASSUME NEW t \in Task, OpenSource(t)
      PROVE  TypeOK'
  <2>1. snapTask' \in [Task -> AnyTask]
    BY <1>22 DEF OpenSource, TaskStep, AnyTask
  <2> QED
    BY <1>22, <2>1 DEF OpenSource, TaskStep, AnyTask
<1>32. ASSUME NEW t \in Task, OpenTarget(t)
      PROVE  TypeOK'
  <2>1. snapTask' \in [Task -> AnyTask]
    BY <1>32 DEF OpenTarget, TaskStep, AnyTask
  <2>2. /\ disk' \in [1..2 -> [Kind -> Held]]
        /\ content' \in [Kind -> [Inode -> {"torn", "whole"}]]
        /\ target' \in [Task -> Held]
    BY ONLY <1>32, OpenTargetWrites, TypeOK, t \in Task
  <2> QED
    BY <1>32, <2>1, <2>2 DEF OpenTarget, TaskStep, AnyTask, Held
<1>23. ASSUME NEW t \in Task, WriteCopy(t)
      PROVE  TypeOK'
  <2>1. snapTask' \in [Task -> AnyTask]
    BY <1>23 DEF WriteCopy, TaskStep, AnyTask
  <2>2. /\ content' \in [Kind -> [Inode -> {"torn", "whole"}]]
        /\ target' \in [Task -> Held]
    BY ONLY <1>23, WriteCopyWrites, TypeOK, t \in Task
  <2> QED
    BY <1>23, <2>1, <2>2 DEF WriteCopy, TaskStep, AnyTask, Held
<1>24. ASSUME NEW t \in Task, Rename(t)
      PROVE  TypeOK'
  <2>1. disk' \in [1..2 -> [Kind -> Held]]
    BY ONLY <1>24, RenameMoves, TypeOK, t \in Task
  <2>2. snapTask' \in [Task -> AnyTask]
    BY <1>24 DEF Rename, TaskStep, AnyTask
  <2> QED
    BY <1>24, <2>1, <2>2 DEF Rename, TaskStep, AnyTask, Held
<1>25. ASSUME NEW t \in Task, RemoveSnapshot(t)
      PROVE  TypeOK'
  BY <1>25 DEF RemoveSnapshot, TaskStep
<1>26. ASSUME NEW t \in Task, TaskFails(t)
      PROVE  TypeOK'
  BY <1>26 DEF TaskFails, TaskStep
<1>27. CASE SnapshotDataDone
  <2>1. snapTask' \in [Task -> AnyTask]
    BY <1>27 DEF SnapshotDataDone, Detached, AnyTask
  <2>2. data \in 0..2
    OBVIOUS
  <2>3. data' \in {0, 2, data} /\ snapActive' = FALSE
    BY ONLY <1>27 DEF SnapshotDataDone
  <2>4. UNCHANGED <<configVars, vmVars, removals, hostVars, requestVars, diskVars, snapCall,
                    snapOp, target, crowded, historyVars>>
    BY ONLY <1>27 DEF SnapshotDataDone
  <2>5. data' \in 0..2
    BY ONLY <2>2, <2>3
  <2>6. snapActive' \in BOOLEAN
    BY ONLY <2>3
  <2> HIDE DEF Task, Kind, File
  <2> QED
    BY <2>1, <2>4, <2>5, <2>6 DEF AnyTask
<1>28. CASE SnapshotDataFails
  <2>1. snapTask' \in [Task -> AnyTask]
    BY <1>28 DEF SnapshotDataFails, Detached, AnyTask
  <2>2. data \in 0..2
    OBVIOUS
  <2>3. data' \in {0, 2, data} /\ snapActive' = FALSE
    BY ONLY <1>28 DEF SnapshotDataFails
  <2>4. UNCHANGED <<configVars, vmVars, removals, hostVars, requestVars, diskVars, snapCall,
                    snapOp, target, crowded, historyVars>>
    BY ONLY <1>28 DEF SnapshotDataFails
  <2>5. data' \in 0..2
    BY ONLY <2>2, <2>3
  <2>6. snapActive' \in BOOLEAN
    BY ONLY <2>3
  <2> HIDE DEF Task, Kind, File
  <2> QED
    BY <2>1, <2>4, <2>5, <2>6 DEF AnyTask
<1>29. CASE UNCHANGED vars
  BY <1>29 DEF vars
<1> QED
  BY <1>1, <1>2, <1>3, <1>4, <1>5, <1>6, <1>7, <1>8, <1>9, <1>10, <1>11, <1>12, <1>13, <1>14,
    <1>15, <1>16, <1>17, <1>18, <1>19, <1>20, <1>21, <1>22, <1>23, <1>24, <1>25, <1>26, <1>27,
    <1>28, <1>29, <1>30, <1>31, <1>32 DEF Next, VmNext, FirecrackerNext, SnapshotDataNext

-----------------------------------------------------------------------------
\* Each step of prepare takes one more path for the Vm.
LEMMA PrepareOwnFiles ==
  ASSUME TypeOK, ControlInv, OwnFiles, ExecutorPrepare \/ VmPrepare
  PROVE  OwnFiles'
<1>1. /\ call = "prepare" /\ vm = "none" /\ owner \in [File -> 0..Lives]
      /\ UNCHANGED <<life, vm, call, removals, vmm, overlapped>>
  BY DEF ExecutorPrepare, VmPrepare, PrepareWith, configVars, vmVars, hostVars, requestVars,
       dataVars, diskVars, taskVars, historyVars, TypeOK, ControlInv, CallOfVm
<1>2. SUFFICES ASSUME ~overlapped
               PROVE  OwnFiles'
  BY <1>1 DEF OwnFiles
<1>3. (\A n \in 1..Lives : n < life => ~Alive(n)) /\ removals = {}
  BY <1>1, <1>2 DEF OwnFiles
<1>4. /\ todo' # <<"socket", "fcLog", "mappings", "log">> => owner'["socket"] = 0
      /\ todo' \in {<<"mappings", "log">>, <<"log">>, << >>} => owner'["fcLog"] = life
      /\ todo' = << >> => owner'["log"] = life
  <2>1. /\ todo # <<"socket", "fcLog", "mappings", "log">> => owner["socket"] = 0
        /\ todo \in {<<"mappings", "log">>, <<"log">>, << >>} => owner["fcLog"] = life
    BY <1>1, <1>2 DEF OwnFiles
  <2>2. CASE /\ todo = <<"socket", "fcLog", "mappings", "log">>
             /\ todo' = <<"fcLog", "mappings", "log">>
             /\ owner' = [owner EXCEPT !["socket"] = 0]
    BY <1>1, <2>2, StepLists DEF File
  <2>3. CASE /\ todo = <<"fcLog", "mappings", "log">>
             /\ todo' = <<"mappings", "log">>
             /\ owner' = [owner EXCEPT !["fcLog"] = life]
    BY <1>1, <2>1, <2>3, StepLists DEF File
  <2>4. CASE /\ todo = <<"mappings", "log">>
             /\ todo' = <<"log">>
             /\ owner' = owner
    BY <1>1, <2>1, <2>4, StepLists DEF File
  <2>5. CASE /\ todo = <<"log">>
             /\ todo' = << >>
             /\ owner' = [owner EXCEPT !["log"] = life]
    BY <1>1, <2>1, <2>5, StepLists DEF File
  <2> QED
    BY <2>2, <2>3, <2>4, <2>5, PrepareInOrder DEF ControlInv
<1> QED
  BY ONLY <1>1, <1>2, <1>3, <1>4 DEF OwnFiles, Alive

\* The executor's cleanup gets rid of the socket and of its log.
LEMMA CleanupStepSoFar ==
  ASSUME TypeOK, ControlInv, CleanupSoFar, CleanupStep
  PROVE  CleanupSoFar'
<1>1. /\ call = "cleanup" /\ life > 0 /\ owner \in [File -> 0..Lives]
      /\ UNCHANGED <<life, call, removesLogs>>
  BY DEF CleanupStep, configVars, vmVars, hostVars, requestVars, dataVars, diskVars, taskVars,
       historyVars, TypeOK, ControlInv, CallOfVm
<1>2. todo \in {<<"fcLog">>, << >>} => owner["socket"] # life
  BY <1>1 DEF CleanupSoFar
<1>3. /\ todo' \in {<<"fcLog">>, << >>} => owner'["socket"] # life
      /\ removesLogs /\ todo' = << >> => owner'["fcLog"] # life
  <2>1. CASE /\ removesLogs
             /\ todo = <<"socket", "fcLog">> /\ todo' = <<"fcLog">>
             /\ owner' = [owner EXCEPT !["socket"] = 0]
    BY <1>1, <2>1, StepLists DEF File
  <2>2. CASE /\ ~removesLogs
             /\ todo = <<"socket">> /\ todo' = << >>
             /\ owner' = [owner EXCEPT !["socket"] = 0]
    BY <1>1, <2>2, StepLists DEF File
  <2>3. CASE /\ removesLogs
             /\ todo = <<"fcLog">> /\ todo' = << >>
             /\ owner' = [owner EXCEPT !["fcLog"] = 0]
    BY <1>1, <1>2, <2>3, StepLists DEF File
  <2> QED
    BY <2>1, <2>2, <2>3, CleanupInOrder DEF ControlInv
<1> QED
  BY ONLY <1>1, <1>3 DEF CleanupSoFar

\* The files belong to whom they should.
LEMMA FilesStep ==
  ASSUME TypeOK, ControlInv, FilesInv, TypeOK', ControlInv', [Next]_vars
  PROVE  FilesInv'
<1> USE DEF TypeOK, ControlInv, FilesInv, CallOfVm, VmmOfVm, OwnFiles, SocketIsFresh,
            LivingVmKeepsItsFiles, NoVsockDevice, CleanupSoFar, CleanedIsDead, FilesLeft, Alive,
            Kind, File, AccessiblePaths, Leftovers, PrepareSteps, StartSteps, CleanupSteps,
            configVars, vmVars, hostVars, requestVars, diskVars, taskVars, dataVars, historyVars
<1>1. ASSUME Prepare
      PROVE  FilesInv'
  <2>1. OwnFiles'
    <3>1. /\ todo' = <<"socket", "fcLog", "mappings", "log">> /\ vm' = "none" /\ call' = "prepare"
          /\ life' = life + 1 /\ UNCHANGED <<vmm, owner, removals>>
          /\ ~overlapped' => removals = {} /\ \A n \in 1..life : ~Alive(n)
      BY <1>1 DEF Prepare
    <3>2. ~overlapped' => \A n \in 1..Lives : n < life' => ~Alive(n)'
      BY <3>1
    <3> HIDE DEF TypeOK, ControlInv, FilesInv, CallOfVm, VmmOfVm, SocketIsFresh,
             LivingVmKeepsItsFiles, CleanupSoFar, CleanedIsDead, FilesLeft, Alive, File
    <3> QED
      BY <3>1, <3>2, StepLists
  <2>2. SocketIsFresh' /\ LivingVmKeepsItsFiles' /\ CleanupSoFar' /\ CleanedIsDead' /\ FilesLeft'
        /\ NoVsockDevice'
    BY <1>1 DEF Prepare
  <2> QED
    BY <2>1, <2>2
<1>2. ASSUME ExecutorPrepare
      PROVE  FilesInv'
  <2>1. OwnFiles'
    BY ONLY <1>2, PrepareOwnFiles, TypeOK, ControlInv, FilesInv DEF ControlInv, FilesInv
  <2>2. /\ call = "prepare" /\ vm = "none"
        /\ UNCHANGED <<removesLogs, life, vm, call, removals, vmm, historyVars>>
    BY <1>2 DEF ExecutorPrepare, PrepareWith
  <2>3. ~cleaned /\ SocketIsFresh'
    BY <2>2
  <2>4. owner'["vsock"] = owner["vsock"] /\ vsock' = vsock
    BY <1>2, PrepareInOrder DEF ExecutorPrepare, VmPrepare, PrepareWith
  <2>5. NoVsockDevice'
    BY <2>4
  <2> QED
    BY ONLY <2>1, <2>2, <2>3, <2>5 DEF FilesInv, LivingVmKeepsItsFiles, CleanupSoFar, CleanedIsDead,
         FilesLeft
<1>3. ASSUME VmPrepare
      PROVE  FilesInv'
  <2>1. OwnFiles'
    BY ONLY <1>3, PrepareOwnFiles, TypeOK, ControlInv, FilesInv DEF ControlInv, FilesInv
  <2>2. /\ call = "prepare" /\ vm = "none"
        /\ UNCHANGED <<removesLogs, life, vm, call, removals, vmm, historyVars>>
    BY <1>3 DEF VmPrepare, PrepareWith
  <2>3. ~cleaned /\ SocketIsFresh'
    BY <2>2
  <2>4. owner'["vsock"] = owner["vsock"] /\ vsock' = vsock
    BY <1>3, PrepareInOrder DEF ExecutorPrepare, VmPrepare, PrepareWith
  <2>5. NoVsockDevice'
    BY <2>4
  <2> QED
    BY ONLY <2>1, <2>2, <2>3, <2>5 DEF FilesInv, LivingVmKeepsItsFiles, CleanupSoFar, CleanedIsDead,
         FilesLeft
<1>4. ASSUME Prepared
      PROVE  FilesInv'
  BY <1>4 DEF Prepared
<1>5. ASSUME Start
      PROVE  FilesInv'
  BY <1>5 DEF Start
<1>30. ASSUME WriteConfiguration
      PROVE  FilesInv'
  <2>1. /\ call = "start" /\ vm = "starting" /\ \A f \in File : f # "config" => owner'[f] = owner[f]
        /\ UNCHANGED <<configVars, life, vm, call, cleanups, removals, vmm, historyVars>>
    BY <1>30, StartInOrder DEF WriteConfiguration, Invoke
  <2> QED
    BY <2>1
<1>31. ASSUME Invoke
      PROVE  FilesInv'
  <2>1. /\ call = "start" /\ vm = "starting" /\ vm' = "started"
        /\ vmm' = [vmm EXCEPT ![life] = "young"]
        /\ UNCHANGED <<configVars, life, call, cleanups, removals, owner, historyVars>>
    BY <1>31, StartInOrder DEF WriteConfiguration, Invoke
  <2> QED
    BY <2>1
<1>6. ASSUME SocketAppears
      PROVE  FilesInv'
  BY <1>6 DEF SocketAppears
<1>7. ASSUME RegisterListener
      PROVE  FilesInv'
  BY <1>7 DEF RegisterListener
<1>8. ASSUME CreateSnapshot \/ SnapshotCreated
      PROVE  FilesInv'
  BY <1>8, SMTT(30) DEF CreateSnapshot, SnapshotCreated
<1>9. ASSUME Cleanup
      PROVE  FilesInv'
  <2>1. OwnFiles' /\ SocketIsFresh' /\ LivingVmKeepsItsFiles' /\ CleanedIsDead' /\ FilesLeft'
        /\ NoVsockDevice'
    BY <1>9 DEF Cleanup
  <2>2. CleanupSoFar'
    <3>1. call' = "cleanup" /\ UNCHANGED <<life, owner, removesLogs>>
      BY <1>9 DEF Cleanup
    <3> QED
      BY <1>9, <3>1, CleanupBegins, StepLists
  <2> QED
    BY <2>1, <2>2
<1>10. ASSUME CleanupStep
      PROVE  FilesInv'
  <2>1. OwnFiles' /\ SocketIsFresh' /\ LivingVmKeepsItsFiles' /\ CleanedIsDead' /\ FilesLeft'
        /\ NoVsockDevice'
    BY <1>10 DEF CleanupStep
  <2>2. CleanupSoFar'
    BY ONLY <1>10, CleanupStepSoFar, TypeOK, ControlInv, FilesInv DEF ControlInv, FilesInv
  <2> QED
    BY <2>1, <2>2
<1>11. ASSUME RemoveTraces
      PROVE  FilesInv'
  BY <1>11 DEF RemoveTraces
<1>12. ASSUME CleanupDone
      PROVE  FilesInv'
  <2>1. OwnFiles' /\ SocketIsFresh' /\ LivingVmKeepsItsFiles' /\ CleanupSoFar' /\ CleanedIsDead'
        /\ NoVsockDevice'
    BY <1>12 DEF CleanupDone
  <2>2. FilesLeft'
    <3>1. /\ call = "removing" /\ \A f \in File : <<cleanups, f>> \notin removals
          /\ UNCHANGED <<life, owner, configVars, unlinkFailed>>
      BY <1>12 DEF CleanupDone, Current
    <3> QED
      BY <3>1
  <2> QED
    BY <2>1, <2>2
<1>13. ASSUME NEW keep \in BOOLEAN, Abandon(keep)
      PROVE  FilesInv'
  BY <1>13 DEF Abandon
<1>14. ASSUME NEW r \in removals, RunRemoval(r)
      PROVE  FilesInv'
  <2>1. OwnFiles'
    BY <1>14, SMTT(30) DEF RunRemoval, Unlink
  <2>2. SocketIsFresh' /\ CleanedIsDead' /\ FilesLeft'
        /\ NoVsockDevice'
    BY <1>14, SMTT(30) DEF RunRemoval, Unlink
  <2>3. LivingVmKeepsItsFiles'
    BY <1>14 DEF RunRemoval, Unlink
  <2>4. CleanupSoFar'
    BY <1>14, SMTT(30) DEF RunRemoval, Unlink
  <2> QED
    BY <2>1, <2>2, <2>3, <2>4
<1>15. ASSUME NEW r \in removals, RemovalFails(r)
      PROVE  FilesInv'
  <2>1. OwnFiles' /\ SocketIsFresh' /\ LivingVmKeepsItsFiles' /\ CleanedIsDead' /\ FilesLeft'
        /\ NoVsockDevice'
    BY <1>15 DEF RemovalFails, Present
  <2>2. CleanupSoFar'
    <3>1. /\ removals' = removals \ {r}
          /\ UNCHANGED <<configVars, life, call, todo, cleanups, owner>>
          /\ unlinkFailed' = (unlinkFailed \/ Present(r[2]))
      BY <1>15 DEF RemovalFails
    <3>2. ASSUME NEW f \in AccessiblePaths, r = <<cleanups, f>>, owner[f] = life,
                 call = "removing"
          PROVE  unlinkFailed'
      <4>1. r[2] = f /\ f \notin Kind
        BY <3>2
      <4>2. owner[f] # 0
        BY <3>2
      <4>3. Present(r[2])
        BY ONLY <4>1, <4>2 DEF Present
      <4> QED
        BY ONLY <3>1, <4>3
    <3> QED
      BY <3>1, <3>2
  <2> QED
    BY <2>1, <2>2
<1>16. ASSUME NEW n \in 1..Lives, Bind(n)
      PROVE  FilesInv'
  <2>1. OwnFiles'
    <3>1. vmm[n] = "young"
      BY <1>16 DEF Bind
    <3>2. ~overlapped => n = life /\ vmm[life] = "young"
      <4>1. life \in 0..Lives
        OBVIOUS
      <4>2. VmmOfVm /\ OwnFiles
        BY ONLY ControlInv, FilesInv DEF ControlInv, FilesInv
      <4>3. n <= life
        BY ONLY <3>1, <4>1, <4>2, n \in 1..Lives, BoundsAssumption DEF VmmOfVm
      <4>4. ~overlapped => ~(n < life)
        BY ONLY <3>1, <4>2, n \in 1..Lives DEF OwnFiles, Alive
      <4> QED
        BY ONLY <3>1, <4>1, <4>3, <4>4, n \in 1..Lives, BoundsAssumption
    <3>3. /\ \A m \in 1..Lives : m # n => vmm'[m] = vmm[m]
          /\ owner' = owner \/ owner' = [owner EXCEPT !["socket"] = n]
          /\ UNCHANGED <<life, vm, call, todo, removals, overlapped>>
      BY <1>16, SMTT(30) DEF Bind
    <3>4. SUFFICES ASSUME ~overlapped
                   PROVE  OwnFiles'
      BY <3>3
    <3>5. /\ call # "prepare" /\ vm \notin {"notStarted", "starting"}
          /\ removals = {} \/ (vm = "none" /\ call = "none")
      BY <3>2, <3>4
    <3>6. owner'["socket"] = owner["socket"] \/ owner'["socket"] = life
      BY <3>2, <3>3, <3>4
    <3>7. \A m \in 1..Lives : m < life => ~Alive(m)'
      BY <3>2, <3>3, <3>4
    <3>8. vm = "started" => owner["socket"] \in {0, life}
      BY <3>4
    <3> QED
      BY ONLY <3>3, <3>4, <3>5, <3>6, <3>7, <3>8 DEF OwnFiles
  <2>2. SocketIsFresh' /\ LivingVmKeepsItsFiles' /\ CleanupSoFar' /\ CleanedIsDead' /\ FilesLeft'
        /\ NoVsockDevice'
    BY <1>16, SMTT(30) DEF Bind
  <2> QED
    BY <2>1, <2>2
<1>17. ASSUME NEW n \in 1..Lives, BindVsock(n)
      PROVE  FilesInv'
  BY <1>17 DEF BindVsock
<1>18. ASSUME NEW n \in 1..Lives, Die(n)
      PROVE  FilesInv'
  BY <1>18 DEF Die
<1>19. CASE WriteSnapshot \/ SnapshotDataNext \/ UNCHANGED vars
  <2>1. UNCHANGED <<configVars, life, vm, call, todo, cleanups, removals, vmm, owner, reached,
                    cleaned, unlinkFailed, overlapped>>
    BY <1>19 DEF WriteSnapshot, SnapshotDataNext, CallSnapshotData, OpenSource, OpenTarget,
         WriteCopy, Rename, RemoveSnapshot, TaskFails, TaskStep, SnapshotDataDone,
         SnapshotDataFails, vars
  <2> QED
    BY <2>1
<1> QED
  BY <1>1, <1>2, <1>3, <1>4, <1>5, <1>6, <1>7, <1>8, <1>9, <1>10, <1>11, <1>12, <1>13, <1>14,
    <1>15, <1>16, <1>17, <1>18, <1>19, <1>30, <1>31 DEF Next, VmNext, FirecrackerNext

-----------------------------------------------------------------------------
\* Only Vm calls and removals touch what TracesOfSnapshot and SnapshotLeft say, as long as the
\* files where they were created only become fewer.
LEMMA DataVmStep ==
  ASSUME TracesOfSnapshot, SnapshotLeft, Created,
         UNCHANGED <<vm, call, cleanups, snapshot_traces, removals, cleaned, interrupted,
                     unlinkFailed>>,
         \A k \in Kind : disk'[1][k] # 0 => disk[1][k] # 0
  PROVE  TracesOfSnapshot' /\ SnapshotLeft'
  BY DEF TracesOfSnapshot, SnapshotLeft

\* What a task of SnapshotData that is at work belongs to.
LEMMA TaskOfCall ==
  ASSUME TypeOK, SnapshotInv, NEW t \in Task, snapTask[t] # "none"
  PROVE  /\ Created /\ request = "written"
         /\ t = <<t[1], t[2]>> /\ t[1] \in 1..Calls /\ t[2] \in Kind
         /\ t[1] <= snapCall /\ snapCall \in 1..Calls
         /\ data = 2 /\ ~snapActive => t[1] < snapCall
<1>1. t = <<t[1], t[2]>> /\ t[1] \in 1..Calls /\ t[2] \in Kind
  BY DEF Task
<1>2. t[1] <= snapCall /\ snapCall \in 0..Calls
  BY DEF SnapshotInv, TasksOfCalls, TypeOK
<1>3. snapCall \in 1..Calls
  BY ONLY <1>1, <1>2, BoundsAssumption
<1>4. Created /\ request = "written"
  BY <1>3 DEF Created, SnapshotInv, SnapshotWhole
<1>5. data = 2 /\ ~snapActive => t[1] # snapCall
  BY <1>1 DEF SnapshotInv, TasksOfCalls
<1> QED
  BY ONLY <1>1, <1>2, <1>3, <1>4, <1>5, BoundsAssumption

\* What the tasks of SnapshotData do to the files and to each other.
LEMMA SnapshotTaskStep ==
  ASSUME TypeOK, SnapshotInv, NEW t \in Task,
         OpenSource(t) \/ OpenTarget(t) \/ WriteCopy(t) \/ Rename(t) \/ RemoveSnapshot(t)
           \/ TaskFails(t)
  PROVE  SnapshotInv'
<1>1. /\ snapTask[t] \in AtWork
      /\ UNCHANGED <<vm, call, cleanups, snapshot_traces, removals, request, data, snapCall,
                     snapActive, snapOp, crowded, cleaned, interrupted, unlinkFailed>>
      /\ UNCHANGED <<Created, CopyMeetsMove, NoCopyMet>>
  BY DEF OpenSource, OpenTarget, WriteCopy, Rename, RemoveSnapshot, TaskFails, TaskStep, AtWork,
         vmVars, requestVars, historyVars, Created, CopyMeetsMove, NoCopyMet
<1>2. /\ Created /\ request = "written"
      /\ t = <<t[1], t[2]>> /\ t[1] \in 1..Calls /\ t[2] \in Kind
      /\ t[1] \in 1..snapCall /\ snapCall \in 1..Calls
      /\ data = 2 /\ ~snapActive => t[1] < snapCall
  <2>1. snapTask[t] # "none"
    BY <1>1 DEF AtWork
  <2> QED
    BY <2>1, TaskOfCall
\* How the task goes on.
<1>3. /\ \A s \in Task : s # t => snapTask'[s] = snapTask[s]
      /\ OpenSource(t) => snapTask'[t] = "opened"
      /\ OpenTarget(t) => snapTask'[t] = "open"
      /\ ~OpenSource(t) /\ ~OpenTarget(t) =>
            snapTask'[t] \in (IF snapActive /\ t[1] = snapCall THEN {"ok", "failed"} ELSE {"none"})
      /\ snapTask'[t] = "ok" => WriteCopy(t) \/ Rename(t) \/ RemoveSnapshot(t)
  BY DEF OpenSource, OpenTarget, WriteCopy, Rename, RemoveSnapshot, TaskFails, TaskStep, AtWork,
         TypeOK
<1>4. /\ OpenSource(t) \/ OpenTarget(t) \/ WriteCopy(t) => snapOp[t[1]][1] = "copy"
      /\ Rename(t) => snapOp[t[1]][1] = "move_out"
      /\ RemoveSnapshot(t) => snapOp[t[1]][1] = "remove"
      /\ OpenSource(t) \/ Rename(t) \/ RemoveSnapshot(t) => snapTask[t] = "queued"
      /\ OpenTarget(t) => snapTask[t] = "opened"
      /\ WriteCopy(t) => snapTask[t] = "open"
  BY DEF OpenSource, OpenTarget, WriteCopy, Rename, RemoveSnapshot, SnapshotInv, TasksOfCalls
\* What it does to the files: those of the other kind stay as they are,
<1>5. \A k \in Kind : k # t[2] =>
         /\ \A place \in 1..2 : disk'[place][k] = disk[place][k]
         /\ \A i \in Inode : content'[k][i] = content[k][i]
  <2>1. CASE OpenTarget(t)
    BY <1>2, <2>1, OpenTargetWrites
  <2>2. CASE WriteCopy(t)
    BY <1>2, <2>2, WriteCopyWrites
  <2>3. CASE Rename(t)
    BY <1>2, <2>3, RenameMoves DEF Rename
  <2>4. CASE RemoveSnapshot(t)
    BY <1>2, <2>4 DEF RemoveSnapshot, SnapshotInv, TasksOfCalls, TypeOK
  <2>5. CASE OpenSource(t) \/ TaskFails(t)
    BY <2>5 DEF OpenSource, TaskFails, diskVars
  <2> QED
    BY <2>1, <2>2, <2>3, <2>4, <2>5
\* ... and the file that Firecracker wrote is only written to where a copy has met a move.
<1>6. /\ disk'[1][t[2]] \in {0, disk[1][t[2]]}
      /\ content'[t[2]][1] # content[t[2]][1] => CopyMeetsMove
      /\ disk'[1][t[2]] = 1 /\ disk'[2][t[2]] = 1 => disk[2][t[2]] = 1
      /\ disk'[2][t[2]] = 1 => disk[2][t[2]] = 1 \/ Rename(t)
  <2>0. 1 \in Inode /\ disk[1][t[2]] \in {0, 1}
    BY <1>2, InodeNumbers DEF SnapshotInv, SnapshotWhole
  <2>1. CASE OpenTarget(t)
    <3>1. content'[t[2]][1] # content[t[2]][1] => disk[2][t[2]] = 1
      BY <1>2, <2>0, <2>1, OpenTargetWrites, InodeNumbers
    <3>2. disk[2][t[2]] = 1 => crowded /\ \E c \in 1..snapCall : snapOp[c][1] = "move_out"
      BY <1>2, <1>4, <2>1 DEF SnapshotInv, TasksMeet
    <3>3. disk[2][t[2]] = 1 => CopyMeetsMove
      BY <1>2, <1>4, <2>1, <3>2 DEF CopyMeetsMove
    <3>4. disk'[1][t[2]] = disk[1][t[2]] /\ (disk'[2][t[2]] = 1 => disk[2][t[2]] = 1)
      BY <1>2, <2>0, <2>1, OpenTargetWrites, InodeNumbers
    <3> QED
      BY <3>1, <3>3, <3>4
  <2>2. CASE WriteCopy(t)
    BY <1>2, <2>0, <2>2, WriteCopyWrites
  <2>3. CASE Rename(t)
    <3>1. UNCHANGED content
      BY <2>3 DEF Rename
    <3>2. disk'[1][t[2]] = 0
      BY <1>2, <2>3, RenameMoves
    <3> QED
      BY <2>3, <3>1, <3>2
  <2>4. CASE RemoveSnapshot(t)
    BY <1>2, <2>4 DEF RemoveSnapshot, SnapshotInv, TasksOfCalls, TypeOK
  <2>5. CASE OpenSource(t) \/ TaskFails(t)
    BY <2>5 DEF OpenSource, TaskFails, diskVars
  <2> QED
    BY <2>1, <2>2, <2>3, <2>4, <2>5
<1>7. SnapshotWhole'
  <2>1. \A k \in Kind : disk'[1][k] \in {0, 1} /\ (disk'[1][k] = 1 => disk'[2][k] # 1)
    BY <1>5, <1>6 DEF SnapshotInv, SnapshotWhole
  <2>2. ~CopyMeetsMove => \A k \in Kind : content'[k][1] = "whole"
    BY <1>2, <1>5, <1>6, InodeNumbers DEF SnapshotInv, SnapshotWhole
  <2> QED
    BY <1>1, <1>2, <2>1, <2>2 DEF SnapshotInv, SnapshotWhole
<1>8. TracesOfSnapshot' /\ SnapshotLeft'
  <2>1. \A k \in Kind : disk'[1][k] # 0 => disk[1][k] # 0
    BY <1>5, <1>6
  <2> QED
    BY <1>1, <1>2, <2>1, DataVmStep DEF SnapshotInv
<1>9. TasksOfCalls'
  <2>1. \A s \in Task : snapTask'[s] # "none" => s[1] <= snapCall
    BY <1>2, <1>3 DEF SnapshotInv, TasksOfCalls
  <2>2. \A s \in Task : snapTask'[s] \in {"opened", "open"} => snapOp[s[1]][1] = "copy"
    BY <1>3, <1>4 DEF SnapshotInv, TasksOfCalls
  <2>3. \A s \in Task : snapTask'[s] \in {"ok", "failed"} => snapActive /\ s[1] = snapCall
    <3>1. snapTask'[t] \in {"ok", "failed"} => snapActive /\ t[1] = snapCall
      BY <1>3
    <3> QED
      BY <1>3, <3>1 DEF SnapshotInv, TasksOfCalls
  <2>4. data = 2 /\ ~snapActive => \A k \in Kind : snapTask'[<<snapCall, k>>] = "none"
    <3>1. \A k \in Kind : <<snapCall, k>> \in Task
      BY <1>2 DEF Task
    <3>2. data = 2 /\ ~snapActive => \A k \in Kind : snapTask[<<snapCall, k>>] = "none"
      BY DEF SnapshotInv, TasksOfCalls
    <3>3. data = 2 /\ ~snapActive => \A k \in Kind : <<snapCall, k>> # t
      BY <1>1, <3>2 DEF AtWork
    <3> QED
      BY <1>3, <3>1, <3>2, <3>3
  <2> QED
    BY <1>1, <2>1, <2>2, <2>3, <2>4 DEF SnapshotInv, TasksOfCalls
<1>10. TasksMeet'
  <2>1. ~crowded => \A s \in Task : snapTask'[s] \in AtWork => s[1] = snapCall
    BY <1>1, <1>3 DEF SnapshotInv, TasksMeet
  <2>2. \A k \in Kind : disk'[2][k] = 1 => \E c \in 1..snapCall : snapOp[c][1] = "move_out"
    <3>1. disk'[2][t[2]] = 1 => \E c \in 1..snapCall : snapOp[c][1] = "move_out"
      <4>1. CASE Rename(t)
        BY <1>2, <1>4, <4>1
      <4>2. CASE ~Rename(t)
        BY <1>2, <1>6, <4>2 DEF SnapshotInv, TasksMeet
      <4> QED
        BY <4>1, <4>2
    <3> QED
      BY <1>5, <3>1 DEF SnapshotInv, TasksMeet
  <2>3. ASSUME NEW s \in Task, snapTask'[s] = "opened", disk'[2][s[2]] = 1
        PROVE  crowded
    <3>1. s[2] \in Kind /\ s[1] \in 1..Calls
      BY DEF Task
    <3>2. CASE s = t
      <4>1. OpenSource(t)
        BY <1>3, <2>3, <3>2
      <4>2. disk[1][t[2]] = 1 /\ disk'[2][t[2]] = disk[2][t[2]]
        BY <1>2, <4>1 DEF OpenSource, diskVars, SnapshotInv, SnapshotWhole
      <4> QED
        BY <1>2, <2>3, <3>2, <4>2 DEF SnapshotInv, SnapshotWhole
    <3>3. CASE s # t
      <4>1. snapTask[s] = "opened" /\ snapOp[s[1]][1] = "copy"
        BY <1>3, <2>3, <3>3 DEF SnapshotInv, TasksOfCalls
      <4>2. CASE disk[2][s[2]] = 1
        BY <4>1, <4>2 DEF SnapshotInv, TasksMeet
      <4>3. CASE disk[2][s[2]] # 1
        <5>1. s[2] = t[2] /\ Rename(t)
          BY <1>5, <1>6, <2>3, <3>1, <4>3
        <5>2. s[1] # t[1]
          BY <1>4, <4>1, <5>1
        <5> QED
          BY <1>1, <4>1, <5>2 DEF SnapshotInv, TasksMeet, AtWork
      <4> QED
        BY <4>2, <4>3
    <3> QED
      BY <3>2, <3>3
  <2> QED
    BY <1>1, <2>1, <2>2, <2>3 DEF TasksMeet
\* A task of an earlier call that is still at work when no copy was met is that of a move.
<1>11. NoCopyMet /\ t[1] # snapCall => ~OpenSource(t) /\ ~OpenTarget(t) /\ ~WriteCopy(t)
                                         /\ ~RemoveSnapshot(t)
  <2>1. t[1] # snapCall => crowded
    BY <1>1 DEF SnapshotInv, TasksMeet
  <2> QED
    BY <1>2, <1>4, <2>1 DEF NoCopyMet
<1>12. NoCopyMet => ~CopyMeetsMove
  BY DEF NoCopyMet, CopyMeetsMove
<1>13. NoCopyMet /\ Rename(t) => Whole(2, t[2])'
  <2>1. Rename(t) => disk'[2][t[2]] = 1
    BY <1>2, RenameMoves DEF SnapshotInv, SnapshotWhole
  <2> QED
    BY <1>1, <1>2, <1>7, <1>12, <2>1 DEF SnapshotWhole, Whole
<1>14. Brought'
  <2> SUFFICES ASSUME snapActive, snapOp[snapCall][1] # "remove", NoCopyMet, NEW k \in Kind
               PROVE  /\ snapTask'[<<snapCall, k>>] = "ok" => Whole(2, k)'
                      /\ snapTask'[<<snapCall, k>>] = "open" =>
                            disk'[2][k] # 0 /\ disk'[2][k] = target'[<<snapCall, k>>]
    BY <1>1 DEF Brought
  <2> DEFINE u == <<snapCall, k>>
  <2>1. u \in Task /\ u[2] = k /\ u[1] = snapCall
    BY <1>2 DEF Task
  <2>2. /\ snapTask[u] = "ok" => Whole(2, k)
        /\ snapTask[u] = "open" => disk[2][k] # 0 /\ disk[2][k] = target[u]
    BY DEF SnapshotInv, Brought
  <2>3. target \in [Task -> Held] /\ disk \in [1..2 -> [Kind -> Held]]
    BY DEF TypeOK, Held
  <2> HIDE DEF u
  <2>4. SUFFICES /\ snapTask'[u] = "ok" => Whole(2, k)'
                 /\ snapTask'[u] = "open" => disk'[2][k] # 0 /\ disk'[2][k] = target'[u]
    BY DEF u
  <2>5. CASE k # t[2]
    <3>1. u # t
      BY <2>1, <2>5
    <3>2. target'[u] = target[u]
      BY <2>1, <2>3, <3>1, OpenTargetWrites, WriteCopyWrites
         DEF OpenSource, Rename, RemoveSnapshot, TaskFails
    <3>3. Whole(2, k)' <=> Whole(2, k)
      BY <1>5, <2>3, <2>5 DEF Whole, Held
    <3> QED
      BY <1>3, <1>5, <2>1, <2>2, <2>5, <3>1, <3>2, <3>3
  <2>6. CASE k = t[2] /\ u # t
    <3>1. t[1] # snapCall
      BY <1>2, <2>6 DEF u
    <3>2. crowded /\ (Rename(t) \/ TaskFails(t))
      BY <1>1, <1>11, <3>1 DEF SnapshotInv, TasksMeet
    <3>3. snapOp[snapCall][1] = "move_out"
      BY <1>2, <3>2 DEF NoCopyMet
    <3>4. snapTask[u] # "open"
      BY <2>1, <3>3 DEF SnapshotInv, TasksOfCalls
    <3>5. CASE Rename(t)
      BY <1>3, <1>13, <2>1, <2>6, <3>4, <3>5
    <3>6. CASE TaskFails(t)
      BY <1>3, <2>1, <2>2, <2>6, <3>4, <3>6 DEF TaskFails, diskVars, Whole
    <3> QED
      BY <3>2, <3>5, <3>6
  <2>7. CASE u = t
    <3>1. k = t[2]
      BY <2>1, <2>7
    <3>2. CASE OpenTarget(t)
      <4>1. disk'[2][k] = target'[t] /\ target'[t] \in Inode
        BY <1>2, <3>1, <3>2, OpenTargetWrites
      <4> QED
        BY <1>3, <2>7, <3>2, <4>1, InodeNumbers
    <3>3. CASE WriteCopy(t)
      <4>1. disk'[2][k] = target[t] /\ disk[2][k] # 0 /\ target[t] \in Inode
        BY <1>4, <2>1, <2>2, <2>3, <2>7, <3>3, WriteCopyWrites DEF Held
      <4>2. content[k][1] = "whole"
        BY <1>2, <1>12 DEF SnapshotInv, SnapshotWhole
      <4>3. content'[k][target[t]] = "whole"
        BY <1>2, <3>1, <3>3, <4>1, <4>2, WriteCopyWrites
      <4>4. ~OpenSource(t) /\ ~OpenTarget(t)
        BY <1>4, <3>3
      <4> QED
        BY <1>3, <2>7, <4>1, <4>3, <4>4, InodeNumbers DEF Whole
    <3>4. CASE Rename(t)
      <4>1. ~OpenSource(t) /\ ~OpenTarget(t)
        BY <1>4, <3>4
      <4> QED
        BY <1>3, <1>13, <2>7, <3>1, <3>4, <4>1
    <3>5. CASE ~OpenTarget(t) /\ ~WriteCopy(t) /\ ~Rename(t)
      <4>1. ~RemoveSnapshot(t)
        BY <1>4, <2>1, <2>7
      <4> QED
        BY <1>3, <2>7, <3>5, <4>1
    <3> QED
      BY <3>2, <3>3, <3>4, <3>5
  <2> QED
    BY <2>5, <2>6, <2>7
<1>15. BroughtSnapshotSurvives'
  <2> SUFFICES ASSUME data = 2, ~snapActive, NoCopyMet, NEW k \in Kind
               PROVE  Whole(2, k)'
    BY <1>1 DEF BroughtSnapshotSurvives, NoCopyMet
  <2>1. Whole(2, k) /\ t[1] # snapCall
    BY <1>2 DEF SnapshotInv, BroughtSnapshotSurvives, NoCopyMet
  <2>2. Rename(t) \/ TaskFails(t)
    BY <1>11, <2>1
  <2>3. CASE k # t[2]
    BY <1>5, <2>1, <2>3 DEF Whole, TypeOK
  <2>4. CASE k = t[2] /\ Rename(t)
    BY <1>13, <2>4
  <2>5. CASE TaskFails(t)
    BY <2>1, <2>5 DEF TaskFails, diskVars, Whole
  <2> QED
    BY <2>2, <2>3, <2>4, <2>5
<1> QED
  BY <1>7, <1>8, <1>9, <1>10, <1>14, <1>15 DEF SnapshotInv

\* What the snapshot has become, and what is still at work on it.
LEMMA SnapshotStep ==
  ASSUME TypeOK, ControlInv, FilesInv, SnapshotInv, TypeOK', [Next]_vars
  PROVE  SnapshotInv'
<1>1. ASSUME UNCHANGED <<disk, content, dataVars>>
      PROVE  TasksOfCalls' /\ TasksMeet' /\ Brought' /\ BroughtSnapshotSurvives'
  BY <1>1 DEF SnapshotInv, TasksOfCalls, TasksMeet, Brought, NoCopyMet, Whole,
       BroughtSnapshotSurvives, dataVars, diskVars, taskVars
<1>2. ASSUME ExecutorPrepare \/ VmPrepare \/ RegisterListener \/ CleanupStep
             \/ (\E n \in 1..Lives : Bind(n) \/ BindVsock(n) \/ Die(n)) \/ UNCHANGED vars
      PROVE  SnapshotInv'
  <2>1. UNCHANGED <<vm, call, cleanups, snapshot_traces, removals, request, disk, content, dataVars,
                    cleaned, interrupted, unlinkFailed>>
    BY <1>2 DEF ExecutorPrepare, VmPrepare, PrepareWith, RegisterListener, CleanupStep, Bind,
         BindVsock, Die, vars, configVars, vmVars, hostVars, requestVars, diskVars, historyVars
  <2>2. UNCHANGED <<Created, CopyMeetsMove>>
    BY <2>1 DEF Created, CopyMeetsMove, dataVars, diskVars, taskVars
  <2>3. SnapshotWhole' /\ TracesOfSnapshot' /\ SnapshotLeft'
    BY <2>1, <2>2 DEF SnapshotInv, SnapshotWhole, TracesOfSnapshot, SnapshotLeft
  <2> QED
    BY <1>1, <2>1, <2>3 DEF SnapshotInv
<1>3. CASE Prepare
  <2>1. UNCHANGED <<request, disk, content, dataVars>> /\ UNCHANGED <<Created, CopyMeetsMove>>
    BY <1>3 DEF Prepare, Created, CopyMeetsMove, dataVars, diskVars, taskVars, requestVars
  <2>2. SnapshotWhole'
    BY <1>3, <2>1 DEF Prepare, SnapshotInv, SnapshotWhole
  <2>3. TracesOfSnapshot'
    BY <1>3, <2>1 DEF Prepare, SnapshotInv, SnapshotWhole, TracesOfSnapshot, TypeOK
  <2>4. SnapshotLeft'
    BY <1>3, <2>1 DEF Prepare, SnapshotInv, SnapshotLeft, TracesOfSnapshot, TypeOK,
         ControlInv, CallOfVm
  <2> QED
    BY <1>1, <2>1, <2>2, <2>3, <2>4 DEF SnapshotInv
<1>4. CASE Prepared
  <2>1. UNCHANGED <<request, disk, content, dataVars>> /\ UNCHANGED <<Created, CopyMeetsMove>>
    BY <1>4 DEF Prepared, Created, CopyMeetsMove, dataVars, diskVars, taskVars, requestVars
  <2>2. SnapshotWhole'
    BY <1>4, <2>1 DEF Prepared, SnapshotInv, SnapshotWhole
  <2>3. TracesOfSnapshot'
    BY <1>4, <2>1 DEF Prepared, SnapshotInv, SnapshotWhole, TracesOfSnapshot, TypeOK
  <2>4. SnapshotLeft'
    BY <1>4, <2>1 DEF Prepared, SnapshotInv, SnapshotLeft, historyVars
  <2> QED
    BY <1>1, <2>1, <2>2, <2>3, <2>4 DEF SnapshotInv
<1>5. CASE Start \/ WriteConfiguration \/ Invoke
  <2>1. UNCHANGED <<request, disk, content, dataVars>> /\ UNCHANGED <<Created, CopyMeetsMove>>
    BY <1>5 DEF Start, WriteConfiguration, Invoke, Created, CopyMeetsMove, dataVars, diskVars,
         taskVars, requestVars
  <2>2. SnapshotWhole'
    <3>1. call' = "start"
      BY <1>5 DEF Start, WriteConfiguration, Invoke
    <3>2. vm \in {"notStarted", "starting"} \/ vm' = vm \/ vm' = "started"
      <4>1. Start => vm = "notStarted"
        BY DEF Start
      <4>2. WriteConfiguration => vm' = vm
        BY DEF WriteConfiguration
      <4>3. Invoke => vm' = "started"
        BY DEF Invoke
      <4> QED
        BY ONLY <1>5, <4>1, <4>2, <4>3
    <3> QED
      BY <2>1, <3>1, <3>2 DEF SnapshotInv, SnapshotWhole
  <2>3. TracesOfSnapshot'
    <3>1. CASE Start
      BY <3>1 DEF Start, TracesOfSnapshot
    <3>2. CASE WriteConfiguration \/ Invoke
      <4>1. vm = "starting" /\ vm' \in {"starting", "started"}
        BY <3>2, StartInOrder DEF ControlInv, WriteConfiguration, Invoke
      <4>2. ~Created /\ ~Created'
        BY <2>1, <4>1 DEF SnapshotInv, SnapshotWhole
      <4> QED
        BY <4>2 DEF TracesOfSnapshot
    <3> QED
      BY <1>5, <3>1, <3>2
  <2>4. SnapshotLeft'
    BY <1>5, <2>1 DEF Start, WriteConfiguration, Invoke, SnapshotInv, SnapshotLeft, historyVars
  <2> QED
    BY <1>1, <2>1, <2>2, <2>3, <2>4 DEF SnapshotInv
<1>6. CASE SocketAppears
  <2>1. UNCHANGED <<request, disk, content, dataVars>> /\ UNCHANGED <<Created, CopyMeetsMove>>
    BY <1>6 DEF SocketAppears, Created, CopyMeetsMove, dataVars, diskVars, taskVars, requestVars
  <2>2. SnapshotWhole'
    BY <1>6, <2>1 DEF SocketAppears, SnapshotInv, SnapshotWhole
  <2>3. TracesOfSnapshot'
    BY <1>6, <2>1 DEF SocketAppears, SnapshotInv, SnapshotWhole, TracesOfSnapshot, TypeOK
  <2>4. SnapshotLeft'
    BY <1>6, <2>1 DEF SocketAppears, SnapshotInv, SnapshotLeft, TracesOfSnapshot, TypeOK,
         ControlInv, CallOfVm
  <2> QED
    BY <1>1, <2>1, <2>2, <2>3, <2>4 DEF SnapshotInv
<1>7. CASE Cleanup
  <2>1. UNCHANGED <<request, disk, content, dataVars>> /\ UNCHANGED <<Created, CopyMeetsMove>>
    BY <1>7 DEF Cleanup, Created, CopyMeetsMove, dataVars, diskVars, taskVars, requestVars
  <2>2. SnapshotWhole'
    BY <1>7, <2>1 DEF Cleanup, SnapshotInv, SnapshotWhole
  <2>3. TracesOfSnapshot'
    BY <1>7, <2>1 DEF Cleanup, SnapshotInv, SnapshotWhole, TracesOfSnapshot, TypeOK
  <2>4. SnapshotLeft'
    BY <1>7, <2>1 DEF Cleanup, SnapshotInv, SnapshotLeft, TracesOfSnapshot, TypeOK,
         ControlInv, CallOfVm
  <2> QED
    BY <1>1, <2>1, <2>2, <2>3, <2>4 DEF SnapshotInv
<1>8. CASE CleanupDone
  <2>1. UNCHANGED <<request, disk, content, dataVars>> /\ UNCHANGED <<Created, CopyMeetsMove>>
    BY <1>8 DEF CleanupDone, Created, CopyMeetsMove, dataVars, diskVars, taskVars, requestVars
  <2>2. SnapshotWhole'
    BY <1>8, <2>1 DEF CleanupDone, SnapshotInv, SnapshotWhole
  <2>3. /\ call = "removing" /\ vm = "started" /\ snapshot_traces = {}
        /\ \A k \in Kind : <<cleanups, k>> \notin removals
        /\ UNCHANGED <<vm, snapshot_traces, interrupted, unlinkFailed>>
    BY <1>8 DEF CleanupDone, Current, TypeOK, ControlInv, CallOfVm, Kind
  <2>4. Created /\ ~interrupted /\ ~unlinkFailed => \A k \in Kind : disk[1][k] = 0
    BY <2>3 DEF SnapshotInv, TracesOfSnapshot, Kind
  <2>5. TracesOfSnapshot' /\ SnapshotLeft'
    BY <2>1, <2>3, <2>4 DEF TracesOfSnapshot, SnapshotLeft
  <2> QED
    BY <1>1, <2>1, <2>2, <2>5 DEF SnapshotInv
<1>9. CASE RemoveTraces
  <2>1. UNCHANGED <<request, disk, content, dataVars>> /\ UNCHANGED <<Created, CopyMeetsMove>>
    BY <1>9 DEF RemoveTraces, Created, CopyMeetsMove, dataVars, diskVars, taskVars, requestVars
  <2>2. SnapshotWhole'
    BY <1>9, <2>1 DEF RemoveTraces, SnapshotInv, SnapshotWhole
  <2>3. TracesOfSnapshot'
    <3>1. \A k \in Kind : snapshot_traces = Kind => <<cleanups, k>> \in removals'
      BY <1>9 DEF RemoveTraces
    <3>2. /\ call = "cleanup" /\ call' = "removing"
          /\ UNCHANGED <<vm, cleanups, interrupted, unlinkFailed>>
      BY <1>9 DEF RemoveTraces, historyVars
    <3> QED
      BY <2>1, <3>1, <3>2 DEF SnapshotInv, TracesOfSnapshot
  <2>4. SnapshotLeft'
    BY <1>9, <2>1 DEF RemoveTraces, SnapshotInv, SnapshotLeft, historyVars
  <2> QED
    BY <1>1, <2>1, <2>2, <2>3, <2>4 DEF SnapshotInv
<1>10. ASSUME NEW keep \in BOOLEAN, Abandon(keep)
       PROVE  SnapshotInv'
  <2>1. UNCHANGED <<request, disk, content, dataVars>> /\ UNCHANGED <<Created, CopyMeetsMove>>
    BY <1>10 DEF Abandon, Created, CopyMeetsMove, dataVars, diskVars, taskVars, requestVars
  <2>2. /\ call' = "none" /\ vm' \in {"none", vm}
        /\ ~keep => vm' = "none"
        /\ keep => UNCHANGED <<vm, snapshot_traces>>
                   /\ call \in {"start", "snapshot", "cleanup", "removing"}
        /\ interrupted' = (interrupted \/ call \in {"cleanup", "removing"})
        /\ UNCHANGED <<cleanups, cleaned, unlinkFailed>>
    BY <1>10 DEF Abandon, historyVars
  <2>3. SnapshotWhole'
    BY <2>1, <2>2 DEF SnapshotInv, SnapshotWhole
  <2>4. TracesOfSnapshot'
    BY <2>1, <2>2 DEF SnapshotInv, TracesOfSnapshot
  <2>5. SnapshotLeft'
    BY <2>1, <2>2 DEF SnapshotInv, SnapshotLeft
  <2> QED
    BY <1>1, <2>1, <2>3, <2>4, <2>5 DEF SnapshotInv
<1>11. CASE CreateSnapshot
  <2>1. UNCHANGED <<disk, content, dataVars, vm, snapshot_traces, cleaned, interrupted,
                    unlinkFailed>>
        /\ UNCHANGED <<Created, CopyMeetsMove>>
    BY <1>11 DEF CreateSnapshot, Created, CopyMeetsMove, dataVars, diskVars, taskVars, historyVars
  <2>2. ~Created /\ request = "none" /\ request' = "asked" /\ vm = "started" /\ call' = "snapshot"
    BY <1>11 DEF CreateSnapshot, SnapshotInv, SnapshotWhole
  <2>3. SnapshotWhole'
    BY <2>1, <2>2 DEF SnapshotInv, SnapshotWhole
  <2>4. TracesOfSnapshot' /\ SnapshotLeft'
    BY <2>1, <2>2 DEF TracesOfSnapshot, SnapshotLeft
  <2> QED
    BY <1>1, <2>1, <2>3, <2>4 DEF SnapshotInv
<1>12. CASE SnapshotCreated
  <2>1. /\ call = "snapshot" /\ request = "written" /\ call' = "none" /\ snapshot_traces' = Kind
        /\ data' = 1 /\ vm = "started" /\ ~cleaned
        /\ UNCHANGED <<request, disk, content, snapCall, snapActive, snapOp, snapTask, target,
                       crowded, vm, cleaned>>
        /\ UNCHANGED CopyMeetsMove
    BY <1>12 DEF SnapshotCreated, requestVars, diskVars, taskVars, historyVars, ControlInv,
         CallOfVm, FilesInv, CleanedIsDead, CopyMeetsMove
  <2>2. data = 0 /\ snapCall = 0
    BY <2>1 DEF SnapshotInv, SnapshotWhole, Created, CopyMeetsMove, TypeOK
  <2>3. SnapshotWhole'
    BY <2>1 DEF SnapshotInv, SnapshotWhole
  <2>4. TracesOfSnapshot' /\ SnapshotLeft'
    BY <2>1 DEF TracesOfSnapshot, SnapshotLeft
  <2>5. TasksOfCalls' /\ TasksMeet' /\ Brought' /\ BroughtSnapshotSurvives'
    BY <2>1, <2>2 DEF SnapshotInv, TasksOfCalls, TasksMeet, Brought, BroughtSnapshotSurvives,
         diskVars
  <2> QED
    BY <2>3, <2>4, <2>5 DEF SnapshotInv
<1>13. ASSUME NEW r \in removals, RunRemoval(r)
       PROVE  SnapshotInv'
  <2>1. /\ removals' = removals \ {r}
        /\ UNCHANGED <<vm, call, cleanups, snapshot_traces, request, content, dataVars, cleaned,
                       interrupted, unlinkFailed>>
        /\ UNCHANGED <<Created, CopyMeetsMove>>
    BY <1>13 DEF RunRemoval, configVars, vmVars, requestVars, dataVars, diskVars, taskVars,
         historyVars, Created, CopyMeetsMove
  <2>2. \A k \in Kind : /\ disk'[2][k] = disk[2][k]
                        /\ disk'[1][k] = IF r[2] = k THEN 0 ELSE disk[1][k]
    <3>1. CASE r[2] \in Kind
      <4>1. disk' = [disk EXCEPT ![1][r[2]] = 0]
        BY <1>13, <3>1 DEF RunRemoval, Unlink
      <4>2. disk \in [1..2 -> [Kind -> Held]] /\ 0 \in Held
        BY DEF TypeOK, Held
      <4> QED
        BY ONLY <3>1, <4>1, <4>2, DiskWrite
    <3>2. CASE r[2] \notin Kind
      BY <1>13, <3>2 DEF RunRemoval, Unlink
    <3> QED
      BY <3>1, <3>2
  <2>3. SnapshotWhole'
    BY <2>1, <2>2 DEF SnapshotInv, SnapshotWhole
  <2>4. TracesOfSnapshot'
    <3>1. \A k \in Kind : <<cleanups, k>> \in removals /\ r[2] # k => <<cleanups, k>> \in removals'
      BY <2>1
    <3> QED
      BY <2>1, <2>2, <3>1 DEF SnapshotInv, TracesOfSnapshot
  <2>5. SnapshotLeft'
    BY <2>1, <2>2 DEF SnapshotInv, SnapshotLeft
  <2>6. TasksOfCalls' /\ TasksMeet'
    BY <2>1, <2>2 DEF SnapshotInv, TasksOfCalls, TasksMeet, Task, dataVars, taskVars
  <2>7. \A k \in Kind : Whole(2, k)' <=> Whole(2, k)
    BY <2>1, <2>2 DEF Whole
  <2>8. Brought'
    BY <2>1, <2>2, <2>7 DEF SnapshotInv, Brought, NoCopyMet, dataVars, taskVars
  <2>9. BroughtSnapshotSurvives'
    BY <2>1, <2>7 DEF SnapshotInv, BroughtSnapshotSurvives, dataVars
  <2> QED
    BY <2>3, <2>4, <2>5, <2>6, <2>8, <2>9 DEF SnapshotInv
<1>14. ASSUME NEW r \in removals, RemovalFails(r)
       PROVE  SnapshotInv'
  <2>1. /\ removals' = removals \ {r}
        /\ unlinkFailed' = (unlinkFailed \/ Present(r[2]))
        /\ UNCHANGED <<vm, call, cleanups, snapshot_traces, request, disk, content, dataVars,
                       cleaned, interrupted>>
        /\ UNCHANGED <<Created, CopyMeetsMove>>
    BY <1>14 DEF RemovalFails, configVars, vmVars, requestVars, dataVars, diskVars, taskVars,
         historyVars, Created, CopyMeetsMove
  <2>2. SnapshotWhole' /\ SnapshotLeft'
    BY <2>1 DEF SnapshotInv, SnapshotWhole, SnapshotLeft
  <2>3. TracesOfSnapshot'
    <3>1. \A k \in Kind : /\ ~unlinkFailed' /\ disk[1][k] # 0
                          /\ <<cleanups, k>> \in removals
             => <<cleanups, k>> \in removals'
      <4> SUFFICES ASSUME NEW k \in Kind, r = <<cleanups, k>>, disk[1][k] # 0
                   PROVE  unlinkFailed'
        BY <2>1
      <4>1. r[2] = k
        OBVIOUS
      <4>2. Present(r[2])
        BY <4>1 DEF Present
      <4> QED
        BY <2>1, <4>2
    <3> QED
      BY <2>1, <3>1 DEF SnapshotInv, TracesOfSnapshot
  <2> QED
    BY <1>1, <2>1, <2>2, <2>3 DEF SnapshotInv
<1>15. CASE WriteSnapshot
  <2>1. /\ request = "asked" /\ request' \in {"written", "failed"}
        /\ UNCHANGED <<vm, call, dataVars>> /\ UNCHANGED <<Created, CopyMeetsMove>>
    BY <1>15 DEF WriteSnapshot, vmVars, dataVars, Created, CopyMeetsMove
  <2>2. ~Created /\ vm \notin {"notStarted", "starting"} /\ call # "prepare"
        /\ data = 0 /\ snapCall = 0
    BY <2>1 DEF SnapshotInv, SnapshotWhole, Created, TypeOK
  <2>3. /\ \A k \in Kind : disk'[1][k] \in {0, 1} /\ disk'[2][k] = 0
        /\ request' = "written" => \A k \in Kind : content'[k][1] = "whole"
    <3>1. \A k \in Kind : disk[2][k] = 0
      BY <2>1 DEF SnapshotInv, SnapshotWhole
    <3>2. \E files \in [Kind -> {0, 1}] : disk' = [disk EXCEPT ![1] = files]
      <4>1. [k \in Kind |-> 1] \in [Kind -> {0, 1}]
        OBVIOUS
      <4>2. \A kinds : [k \in Kind |-> IF k \in kinds THEN 1 ELSE 0] \in [Kind -> {0, 1}]
        OBVIOUS
      <4> QED
        BY ONLY <1>15, <4>1, <4>2 DEF WriteSnapshot
    <3>3. disk \in [1..2 -> [Kind -> Inode \union {0}]]
      BY DEF TypeOK
    <3>4. \A k \in Kind : disk'[1][k] \in {0, 1} /\ disk'[2][k] = 0
      BY ONLY <3>1, <3>2, <3>3
    <3>5. request' = "written" =>
             content' = [k \in Kind |-> [content[k] EXCEPT ![1] = "whole"]]
      BY ONLY <1>15 DEF WriteSnapshot
    <3>6. content \in [Kind -> [Inode -> {"torn", "whole"}]] /\ 1 \in Inode
      BY InodeNumbers DEF TypeOK
    <3>7. request' = "written" => \A k \in Kind : content'[k][1] = "whole"
      BY ONLY <3>5, <3>6
    <3> QED
      BY <3>4, <3>7
  <2>4. SnapshotWhole'
    BY <2>1, <2>2, <2>3 DEF SnapshotWhole
  <2>5. TracesOfSnapshot' /\ SnapshotLeft'
    BY <2>1, <2>2 DEF TracesOfSnapshot, SnapshotLeft
  <2>6. TasksOfCalls' /\ BroughtSnapshotSurvives'
    BY <2>1, <2>2 DEF SnapshotInv, TasksOfCalls, BroughtSnapshotSurvives, dataVars, taskVars
  <2>7. TasksMeet'
    <3>1. \A t \in Task : t[2] \in Kind
      BY DEF Task
    <3> QED
      BY <2>1, <2>3, <3>1 DEF SnapshotInv, TasksMeet, dataVars, taskVars
  <2>8. Brought'
    <3>1. ~snapActive
      BY <2>2 DEF SnapshotInv, TasksOfCalls
    <3>2. ~snapActive'
      BY <2>1, <3>1 DEF dataVars
    <3> QED
      BY <3>2 DEF Brought
  <2> QED
    BY <2>4, <2>5, <2>6, <2>7, <2>8 DEF SnapshotInv
<1>16. ASSUME NEW op \in {"copy", "move_out", "remove"}, CallSnapshotData(op)
       PROVE  SnapshotInv'
  <2>1. /\ data \in 1..2 /\ ~snapActive
        /\ op \in {"copy", "move_out"} => data = 1
        /\ snapCall' = snapCall + 1 /\ snapActive' /\ data' = data
        /\ snapOp' = [snapOp EXCEPT ![snapCall + 1] = <<op, data>>]
        /\ snapTask' = [t \in Task |-> IF t[1] = snapCall + 1 THEN "queued" ELSE snapTask[t]]
        /\ crowded' = (crowded \/ \E t \in Task : snapTask[t] \in AtWork)
        /\ UNCHANGED <<vm, call, cleanups, snapshot_traces, removals, request, disk, content,
                       cleaned, interrupted, unlinkFailed>>
    BY <1>16 DEF CallSnapshotData, configVars, vmVars, requestVars, diskVars, historyVars, TypeOK
  <2>2. Created /\ Created' /\ snapCall \in 0..Calls /\ snapCall + 1 \in 1..Calls
    BY <1>16, <2>1, BoundsAssumption DEF CallSnapshotData, Created, TypeOK
  <2>8. \A c \in 1..snapCall : /\ snapOp'[c] = snapOp[c]
                              /\ c \in 1..snapCall'
    BY <2>1, <2>2 DEF TypeOK
  <2>9. CopyMeetsMove => CopyMeetsMove'
    <3>1. {snapOp[c][1] : c \in 1..snapCall} \subseteq {snapOp'[c][1] : c \in 1..snapCall'}
      BY <2>8
    <3> QED
      BY <2>1, <3>1 DEF CopyMeetsMove
  <2>3. SnapshotWhole'
    BY <2>1, <2>2, <2>9 DEF SnapshotInv, SnapshotWhole, diskVars
  <2>4. TracesOfSnapshot' /\ SnapshotLeft'
    BY <2>1, <2>2, DataVmStep DEF SnapshotInv, diskVars
  <2>5. TasksOfCalls'
    <3>1. /\ snapOp'[snapCall'][1] = op /\ snapOp'[snapCall'][2] = data
          /\ \A c \in 1..Calls : c # snapCall + 1 => snapOp'[c] = snapOp[c]
      BY <2>1, <2>2 DEF TypeOK
    <3>2. \A t \in Task : snapTask'[t] = IF t[1] = snapCall + 1 THEN "queued" ELSE snapTask[t]
      BY <2>1
    <3>3. \A t \in Task : snapTask'[t] # "none" => t[1] <= snapCall'
      BY <2>1, <2>2, <3>2 DEF SnapshotInv, TasksOfCalls, Task
    <3>4. \A t \in Task : snapTask'[t] \in {"opened", "open"} => snapOp'[t[1]][1] = "copy"
      BY <3>1, <3>2 DEF SnapshotInv, TasksOfCalls, Task
    <3>5. \A t \in Task : snapTask'[t] \notin {"ok", "failed"}
      <4>1. \A t \in Task : snapTask[t] \notin {"ok", "failed"}
        BY <2>1 DEF SnapshotInv, TasksOfCalls
      <4> QED
        BY <3>2, <4>1
    <3>6. \A c \in 1..Calls : c <= snapCall' =>
             snapOp'[c][2] \in 1..2 /\ (snapOp'[c][1] = "remove" => c = snapCall')
      <4> SUFFICES ASSUME NEW c \in 1..Calls, c <= snapCall'
                   PROVE  snapOp'[c][2] \in 1..2 /\ (snapOp'[c][1] = "remove" => c = snapCall')
        OBVIOUS
      <4>1. CASE c = snapCall + 1
        BY <2>1, <3>1, <4>1
      <4>2. CASE c <= snapCall
        <5>1. snapOp'[c] = snapOp[c]
          BY <2>2, <3>1, <4>2
        <5>2. snapOp[c][2] \in 1..2
          BY <4>2 DEF SnapshotInv, TasksOfCalls
        <5>3. snapOp[c][1] # "remove"
          BY <2>1, <4>2 DEF SnapshotInv, TasksOfCalls
        <5> QED
          BY <5>1, <5>2, <5>3
      <4> QED
        BY <2>1, <2>2, <4>1, <4>2
    <3>7. data' = 2 => snapOp'[snapCall'][1] = "remove"
      <4>1. data = 2 => op = "remove"
        BY <2>1
      <4> QED
        BY <2>1, <3>1, <4>1
    <3> QED
      BY <2>1, <2>2, <3>3, <3>4, <3>5, <3>6, <3>7 DEF TasksOfCalls
  <2>6. Brought'
    BY <2>1, <2>2 DEF Brought, Task
  <2>10. TasksMeet'
    <3>1. \A t \in Task : snapTask'[t] = IF t[1] = snapCall + 1 THEN "queued" ELSE snapTask[t]
      BY <2>1
    <3>2. ~crowded' => \A t \in Task : snapTask'[t] \in AtWork => t[1] = snapCall'
      BY <2>1, <3>1
    <3>3. \A k \in Kind : disk'[2][k] = 1 => \E c \in 1..snapCall' : snapOp'[c][1] = "move_out"
      BY <2>1, <2>8 DEF SnapshotInv, TasksMeet, diskVars
    <3>4. \A t \in Task : snapTask'[t] = "opened" /\ disk'[2][t[2]] = 1 => crowded'
      BY <2>1, <3>1 DEF SnapshotInv, TasksMeet, diskVars
    <3> QED
      BY <3>2, <3>3, <3>4 DEF TasksMeet
  <2>7. BroughtSnapshotSurvives'
    BY <2>1 DEF BroughtSnapshotSurvives
  <2> QED
    BY <2>3, <2>4, <2>5, <2>6, <2>7, <2>10 DEF SnapshotInv
<1>17. ASSUME NEW t \in Task,
              OpenSource(t) \/ OpenTarget(t) \/ WriteCopy(t) \/ Rename(t) \/ RemoveSnapshot(t)
                \/ TaskFails(t)
       PROVE  SnapshotInv'
  BY <1>17, SnapshotTaskStep
<1>18. CASE SnapshotDataDone \/ SnapshotDataFails
  <2>1. /\ snapActive /\ ~snapActive'
        /\ SnapshotDataDone => \A k \in Kind : snapTask[<<snapCall, k>>] = "ok"
        /\ snapOp[snapCall][1] = "remove" => data' = 0
        /\ snapOp[snapCall][1] # "remove" =>
              IF SnapshotDataDone THEN data' = 2 ELSE data' = data
        /\ snapTask' = Detached
        /\ UNCHANGED <<vm, call, cleanups, snapshot_traces, removals, request, disk, content,
                       snapCall, snapOp, crowded, cleaned, interrupted, unlinkFailed>>
        /\ UNCHANGED CopyMeetsMove
    BY <1>18 DEF SnapshotDataDone, SnapshotDataFails, vmVars, requestVars, diskVars, historyVars,
         CopyMeetsMove
  <2>2. snapCall > 0 /\ Created /\ Created'
    BY <2>1 DEF SnapshotInv, TasksOfCalls, Created
  <2>3. \A t \in Task : snapTask'[t] = IF snapTask[t] \in AtWork THEN snapTask[t] ELSE "none"
    BY <2>1 DEF Detached
  <2>4. data' = 2 => /\ SnapshotDataDone /\ snapOp[snapCall][1] # "remove"
                     /\ \A k \in Kind : snapTask[<<snapCall, k>>] = "ok"
    BY <2>1 DEF SnapshotInv, TasksOfCalls
  <2>5. SnapshotWhole'
    BY <2>1, <2>2 DEF SnapshotInv, SnapshotWhole
  <2>6. TracesOfSnapshot' /\ SnapshotLeft'
    BY <2>1, <2>2, DataVmStep DEF SnapshotInv
  <2>7. TasksOfCalls'
    <3>1. data' = 2 => \A k \in Kind : snapTask'[<<snapCall, k>>] = "none"
      <4>1. \A k \in Kind : <<snapCall, k>> \in Task
        BY <2>2 DEF TypeOK, Task
      <4> QED
        BY <2>3, <2>4, <4>1 DEF AtWork
    <3>2. \A c \in 1..Calls : c <= snapCall =>
             snapOp[c][2] \in 1..2 /\ (snapOp[c][1] = "remove" => c = snapCall /\ data' = 0)
      BY <2>1 DEF SnapshotInv, TasksOfCalls
    <3> QED
      BY <2>1, <2>3, <3>1, <3>2 DEF SnapshotInv, TasksOfCalls, AtWork
  <2>8. TasksMeet'
    BY <2>1, <2>3 DEF SnapshotInv, TasksMeet, AtWork
  <2>9. Brought'
    BY <2>1 DEF Brought
  <2>10. BroughtSnapshotSurvives'
    BY <2>1, <2>4 DEF SnapshotInv, Brought, NoCopyMet, Whole, BroughtSnapshotSurvives
  <2> QED
    BY <2>5, <2>6, <2>7, <2>8, <2>9, <2>10 DEF SnapshotInv
<1> QED
  BY <1>2, <1>3, <1>4, <1>5, <1>6, <1>7, <1>8, <1>9, <1>10, <1>11, <1>12, <1>13, <1>14, <1>15,
     <1>16, <1>17, <1>18 DEF Next, VmNext, FirecrackerNext, SnapshotDataNext

-----------------------------------------------------------------------------
\* The initial states satisfy the invariant.
LEMMA InitTInv ==
  Init => TInv
<1> SUFFICES ASSUME Init
             PROVE  TInv
  OBVIOUS
<1>1. TypeOK
  <2>1. /\ vmm \in [1..Lives -> {"none", "young", "bound", "ready", "dead"}]
        /\ owner \in [File -> 0..Lives]
    BY BoundsAssumption DEF Init
  <2>2. snapOp \in [1..Calls -> {"none", "copy", "move_out", "remove"} \X (0..2)]
    BY DEF Init
  <2>3. /\ disk \in [1..2 -> [Kind -> Inode \union {0}]]
        /\ content \in [Kind -> [Inode -> {"torn", "whole"}]]
        /\ snapTask \in [Task -> AtWork \union {"none", "ok", "failed"}]
        /\ target \in [Task -> Inode \union {0}]
    BY DEF Init
  <2>4. /\ {removesLogs, json, vsock} \subseteq BOOLEAN
        /\ {crowded, cleaned, interrupted, unlinkFailed, overlapped} \subseteq BOOLEAN
    <3>1. {removesLogs, json, vsock} \subseteq BOOLEAN
      <4>1. \E setup \in Setups : /\ removesLogs = ("removesLogs" \in setup)
                                 /\ json = ("json" \in setup)
                                 /\ vsock = ("vsock" \in setup)
        BY DEF Init
      <4> QED
        BY ONLY <4>1
    <3>2. /\ crowded = FALSE /\ cleaned = FALSE /\ interrupted = FALSE
          /\ unlinkFailed = FALSE /\ overlapped = FALSE
      BY DEF Init
    <3> QED
      BY ONLY <3>1, <3>2
  <2>5. todo \in Seq(AnyStep)
    BY DEF Init
  <2>6. life \in 0..Lives /\ asker \in 0..Lives /\ reached \in 0..Lives /\ cleanups \in 0..Calls
        /\ snapCall \in 0..Calls
    BY BoundsAssumption DEF Init
  <2>7. /\ vm \in {"none", "notStarted", "starting", "started"}
        /\ call \in {"none", "prepare", "start", "snapshot", "cleanup", "removing"}
        /\ request \in {"none", "asked", "written", "failed"} /\ data \in 0..2
    BY DEF Init
  <2>8. /\ snapshot_traces \in {{}, Kind}
        /\ removals \subseteq (0..Calls) \X (File \union Kind)
        /\ snapshot_traces # {} => vm = "started" /\ call # "removing"
    BY DEF Init
  <2>9. snapActive \in BOOLEAN
    <3>1. snapActive = FALSE
      BY DEF Init
    <3> QED
      BY ONLY <3>1
  <2> QED
    BY ONLY <2>1, <2>2, <2>3, <2>4, <2>5, <2>6, <2>7, <2>8, <2>9 DEF TypeOK, AnyStep
<1>2. ControlInv
  BY DEF Init, ControlInv, CallOfVm, VmmOfVm
<1>3. FilesInv
  <2>1. CleanupSoFar /\ FilesLeft /\ CleanedIsDead /\ SocketIsFresh /\ LivingVmKeepsItsFiles
    BY DEF Init, CleanupSoFar, FilesLeft, CleanedIsDead, SocketIsFresh, LivingVmKeepsItsFiles
  <2>2. OwnFiles /\ NoVsockDevice
    BY DEF Init, OwnFiles, NoVsockDevice, Alive, File
  <2> QED
    BY <2>1, <2>2 DEF FilesInv
<1>4. SnapshotInv
  <2>1. SnapshotWhole /\ TracesOfSnapshot /\ SnapshotLeft
    BY DEF Init, SnapshotWhole, TracesOfSnapshot, SnapshotLeft, Created
  <2>2. TasksOfCalls
    BY BoundsAssumption DEF Init, TasksOfCalls
  <2>3. TasksMeet /\ Brought /\ BroughtSnapshotSurvives
    BY DEF Init, TasksMeet, Brought, BroughtSnapshotSurvives, AtWork
  <2> QED
    BY <2>1, <2>2, <2>3 DEF SnapshotInv
<1> QED
  BY <1>1, <1>2, <1>3, <1>4 DEF TInv

\* The invariant, for any number of Vms and calls: what every theorem below rests on.
THEOREM TracesInductiveInvariant == Spec => []TInv
<1>1. TInv /\ [Next]_vars => TInv'
  BY TypeStep, ControlStep, FilesStep, SnapshotStep DEF TInv
<1> QED
  BY InitTInv, <1>1, PTL DEF Spec

\* Every variable has its type, and only a started Vm has traces.
THEOREM TracesTypeCorrect == Spec => []TypeOK
<1>1. TInv => TypeOK
  BY DEF TInv
<1> QED
  BY <1>1, TracesInductiveInvariant, PTL

\* When start stops waiting for the API socket, it is that of the VMM just launched.
THEOREM SocketsAreFresh == Spec => []SocketIsFresh
<1>1. TInv => SocketIsFresh
  BY DEF TInv, FilesInv
<1> QED
  BY <1>1, TracesInductiveInvariant, PTL

\* No cleanup, and no task that one left behind, takes the files of a VMM that is alive.
THEOREM LivingVmsKeepTheirFiles == Spec => []LivingVmKeepsItsFiles
<1>1. TInv => LivingVmKeepsItsFiles
  BY DEF TInv, FilesInv
<1> QED
  BY <1>1, TracesInductiveInvariant, PTL

\* Ok of cleanup means that nothing of the Vm is left that it looks at and could remove; the
\* leftovers are the configuration file, logs to be kept, and listeners without a vsock device.
THEOREM CleanupsLeaveOnlyLeftovers == Spec => []OnlyLeftoversRemain
<1>1. TInv => OnlyLeftoversRemain
  BY DEF TInv, FilesInv, SnapshotInv, FilesLeft, SnapshotLeft, Created, OnlyLeftoversRemain
<1> QED
  BY <1>1, TracesInductiveInvariant, PTL

\* What copy or move_out has brought elsewhere is complete and survives the cleanup, unless a
\* call met the tasks of an abandoned one and one of them is a copy.
THEOREM BroughtSnapshotsSurvive == Spec => []BroughtSnapshotSurvives
<1>1. TInv => BroughtSnapshotSurvives
  BY DEF TInv, SnapshotInv
<1> QED
  BY <1>1, TracesInductiveInvariant, PTL

-----------------------------------------------------------------------------
\* The file that Firecracker wrote goes only by a removal, by remove, or by a copy that
\* truncates it where a late rename has put it.
KeptUnlessRemoved ==
    \A k \in Kind : Kept(k) /\ ~Kept(k)' =>
       \/ \E r \in removals \ removals' : r[2] = k
       \/ \E t \in Task : /\ t[2] = k /\ snapTask'[t] # snapTask[t]
                         /\ \/ snapOp[t[1]][1] = "remove"
                            \/ CopyMeetsMove /\ target'[t] = 1

\* No other step loses a file of a snapshot.
LEMMA KeptStep ==
  ASSUME TInv, [Next]_vars
  PROVE  KeptUnlessRemoved
<1>1. ASSUME NEW k \in Kind, Kept(k), \A place \in 1..2 : disk'[place][k] = disk[place][k],
             content'[k][1] = content[k][1]
      PROVE  Kept(k)'
  BY <1>1 DEF Kept
<1>2. ASSUME UNCHANGED diskVars
      PROVE  KeptUnlessRemoved
  BY <1>1, <1>2 DEF KeptUnlessRemoved, diskVars
<1>3. disk \in [1..2 -> [Kind -> Held]] /\ 0 \in Held
  BY DEF TInv, TypeOK, Held
<1>4. ASSUME NEW r \in removals, RunRemoval(r)
      PROVE  KeptUnlessRemoved
  <2>1. CASE r[2] \in Kind
    <3>1. disk' = [disk EXCEPT ![1][r[2]] = 0] /\ UNCHANGED content
      BY <1>4, <2>1 DEF RunRemoval, Unlink
    <3>2. \A k \in Kind : k # r[2] => \A place \in 1..2 : disk'[place][k] = disk[place][k]
      BY <1>3, <2>1, <3>1, DiskWrite
    <3>3. r \in removals \ removals'
      BY <1>4 DEF RunRemoval
    <3> QED
      BY <1>1, <3>1, <3>2, <3>3 DEF KeptUnlessRemoved
  <2>2. CASE r[2] \notin Kind
    BY <1>2, <1>4, <2>2 DEF RunRemoval, Unlink, diskVars
  <2> QED
    BY <2>1, <2>2
<1>5. CASE WriteSnapshot
  <2>1. \A place \in 1..2 : \A k \in Kind : disk[place][k] = 0
    BY <1>5 DEF WriteSnapshot, TInv, SnapshotInv, SnapshotWhole
  <2> QED
    BY <2>1 DEF KeptUnlessRemoved, Kept
<1>6. ASSUME NEW t \in Task, OpenTarget(t)
      PROVE  KeptUnlessRemoved
  <2>1. t[2] \in Kind /\ t[1] \in 1..snapCall
    <3>1. snapTask[t] # "none"
      BY <1>6 DEF OpenTarget
    <3> QED
      BY <3>1, TaskOfCall DEF TInv
  <2>2. ASSUME disk[2][t[2]] = 1
        PROVE  CopyMeetsMove /\ target'[t] = 1 /\ snapTask'[t] # snapTask[t]
    <3>1. snapOp[t[1]][1] = "copy" /\ crowded /\ \E c \in 1..snapCall : snapOp[c][1] = "move_out"
      BY <1>6, <2>1, <2>2 DEF OpenTarget, TInv, SnapshotInv, TasksOfCalls, TasksMeet
    <3>2. target'[t] = 1
      BY <1>6, <2>2, OpenTargetWrites DEF TInv
    <3>3. snapTask'[t] # snapTask[t]
      BY <1>6 DEF OpenTarget, TaskStep, AtWork, TInv, TypeOK
    <3> QED
      BY <2>1, <3>1, <3>2, <3>3 DEF CopyMeetsMove
  <2>3. ASSUME NEW k \in Kind, Kept(k), k # t[2] \/ disk[2][k] # 1
        PROVE  Kept(k)'
    <3>1. content'[k][1] = content[k][1]
      BY <1>6, <2>1, <2>3, OpenTargetWrites, InodeNumbers DEF TInv
    <3>2. \A p \in 1..2 : disk[p][k] = 1 => disk'[p][k] = 1
      BY <1>6, <2>3, OpenTargetWrites DEF TInv
    <3> QED
      BY <2>3, <3>1, <3>2 DEF Kept
  <2> QED
    BY <2>2, <2>3 DEF KeptUnlessRemoved
<1>7. ASSUME NEW t \in Task, WriteCopy(t)
      PROVE  KeptUnlessRemoved
  <2>1. \A k \in Kind : content'[k][1] = content[k][1] /\ UNCHANGED disk
    BY <1>7, WriteCopyWrites, InodeNumbers DEF TInv
  <2> QED
    BY <1>1, <2>1 DEF KeptUnlessRemoved
<1>8. ASSUME NEW t \in Task, Rename(t)
      PROVE  KeptUnlessRemoved
  <2>1. UNCHANGED content /\ t[2] \in Kind
    BY <1>8 DEF Rename, Task
  <2>2. /\ disk[1][t[2]] = 1 /\ disk'[2][t[2]] = 1
        /\ \A k \in Kind : k # t[2] => \A p \in 1..2 : disk'[p][k] = disk[p][k]
    BY <1>8, <2>1, RenameMoves DEF TInv, SnapshotInv, SnapshotWhole
  <2>3. \A k \in Kind : Kept(k) => Kept(k)'
    BY <2>1, <2>2 DEF Kept
  <2> QED
    BY <2>3 DEF KeptUnlessRemoved
<1>9. ASSUME NEW t \in Task, RemoveSnapshot(t)
      PROVE  KeptUnlessRemoved
  <2>1. /\ snapTask[t] = "queued" /\ snapOp[t[1]][1] = "remove" /\ UNCHANGED content
        /\ disk' = [disk EXCEPT ![snapOp[t[1]][2]][t[2]] = 0]
    BY <1>9 DEF RemoveSnapshot
  <2>2. snapTask'[t] # snapTask[t]
    BY <1>9, <2>1 DEF RemoveSnapshot, TaskStep, AtWork, TInv, TypeOK
  <2>3. \A k \in Kind : k # t[2] => \A p \in 1..2 : disk'[p][k] = disk[p][k]
    <3>1. t[1] \in 1..Calls /\ t[1] <= snapCall /\ t[2] \in Kind
      BY <2>1, TaskOfCall DEF TInv
    <3>2. snapOp[t[1]][2] \in 1..2
      BY <3>1 DEF TInv, SnapshotInv, TasksOfCalls
    <3> QED
      BY <1>3, <2>1, <3>1, <3>2, DiskWrite
  <2> QED
    BY <1>1, <2>1, <2>2, <2>3 DEF KeptUnlessRemoved
<1>10. CASE UNCHANGED vars
  BY <1>2, <1>10 DEF vars
<1>11. CASE VmNext
  <2>1. UNCHANGED diskVars \/ \E r \in removals : RunRemoval(r)
    BY <1>11 DEF VmNext, Prepare, ExecutorPrepare, VmPrepare, PrepareWith, Prepared, Start,
         WriteConfiguration, Invoke, SocketAppears, RegisterListener, CreateSnapshot,
         SnapshotCreated, Cleanup, CleanupStep, RemoveTraces, CleanupDone, Abandon, RemovalFails
  <2> QED
    BY <1>2, <1>4, <2>1
<1>12. CASE FirecrackerNext
  BY <1>2, <1>5, <1>12 DEF FirecrackerNext, Bind, BindVsock, Die
<1>13. CASE SnapshotDataNext
  BY <1>2, <1>6, <1>7, <1>8, <1>9, <1>13 DEF SnapshotDataNext, CallSnapshotData, OpenSource,
     TaskFails, SnapshotDataDone, SnapshotDataFails
<1> QED
  BY <1>10, <1>11, <1>12, <1>13 DEF Next

\* copy and move_out lose no file of a snapshot, however they fail or are dropped, but where
\* a copy has met a move and truncates its own source.
THEOREM SnapshotsAreOnlyRemoved == Spec => SnapshotOnlyRemoved
<1>1. TInv /\ [Next]_vars => [KeptUnlessRemoved]_vars
  BY KeptStep
<1>2. Spec => [][KeptUnlessRemoved]_vars
  BY <1>1, TracesInductiveInvariant, PTL DEF Spec
<1> QED
  BY <1>2 DEF SnapshotOnlyRemoved, KeptUnlessRemoved

=============================================================================
