# A verification model of fctools

fctools is a Rust library that launches and controls Firecracker microVMs. It is built in
layers: a *shell spawner* creates a process (1), a *VMM executor* sets up the environment of the
VMM and launches it through the spawner (2), a *VMM process* tracks that process and talks to
its API socket (3), and a *VM* drives the VMM process through the life of a virtual machine (4).
Beside them stand extensions: a task that follows Firecracker's metrics, link-local subnets, and
wrappers of other programs.
This directory holds TLA+ specifications of these layers, TLC configurations that check them on
small instances, and TLAPS proofs for every value of their constants.

Run everything from this directory:

    tlc -workers 2 -config VmmProcess.cfg VmmProcess
    tlc -workers 2 -config Vm.cfg Vm
    tlc -workers 2 -config JailedExecutor.cfg JailedExecutor
    tlc -workers 2 -config VmTraces.cfg VmTraces
    tlc -workers 2 -config MetricsTask.cfg MetricsTask
    tlc -workers 2 -config PureCalls.cfg PureCalls
    tlapm VmmProcess_proofs.tla
    tlapm Vm_proofs.tla
    tlapm VmApi_proofs.tla
    tlapm VmTraces_proofs.tla
    tlapm PureCalls_proofs.tla
    tlapm MetricsTask_proofs.tla
    tlapm JailedExecutor_proofs.tla

## Inventory

| Component | State | Operations | Interacts with | Hard behaviour | What makes it correct |
|---|---|---|---|---|---|
| `ShellSpawner` (`shell_spawner.rs`): SameUser, Su, Sudo | none | `spawn` | the OS, awaited by executors and `force_chown` | the process exists before the password and command are written; the Child of su and sudo is not the command's process | a launch that fails leaves nothing behind; the Child stands for the command |
| `VmmExecutor` (`executor/mod.rs`) with `force_chown`, `force_mkdir` | the environment on the host | `prepare`, `invoke`, `cleanup` | spawner, file system | each stops after any part; concurrent chowns | a prepared environment is complete; cleanup can be repeated |
| `JailedVmmExecutor` (`executor/jailed.rs`) | the jail directory | as above, with parallel moves | blocking tasks, jail renamers | early return while moves still run; colliding inner paths; copy after a failed link | when prepare returns Ok each inner path holds its resource and no source is damaged |
| `UnrestrictedVmmExecutor` (`executor/unrestricted.rs`) | socket, log and metrics files | as above | file system | cleanup stops at the first missing file | nothing of the VMM is left after a successful cleanup |
| arguments, command modifiers, installation | none | text assembly, `verify` | executors | order of replacements | the override of the configuration file wins |
| `VmmProcess` (`process.rs`) | `state`, `child`, `outer_paths`, the lazily created HTTP client | `prepare`, `invoke`, `send_api_request`, `take_pipes`, `send_ctrl_alt_del`, `send_sigkill`, `wait_for_exit`, `state`, `cleanup` | executor, spawner, the OS process, the API socket | every await can be dropped or fail; the state is derived from the Child when a method looks; `expect`s that rely on it | the state agrees with the Child; one VMM; no VMM without its environment; exits are final |
| `Vm` (`vm/mod.rs`) | `is_paused`, `configuration`, `accessible_paths`, `snapshot_traces`, the process | `prepare`, `start`, `shutdown`, `take_pipes`, `cleanup`, `state` | VmmProcess, VmApi, timers | timeouts racing exits and answers; half-done starts; lists of shutdown methods | Ok of start and shutdown mean what they say; the lifecycle is respected |
| `VmApi` (`vm/api.rs`) | through `Vm` | 21 requests and two initialization sequences | the API server of Firecracker | lost, late and unsuccessful answers; requests of dropped calls | the tracked pause agrees with the guest |
| `SnapshotData` (`vm/snapshot.rs`) | two paths | `copy`, `move_out`, `remove`, `into_configuration` | file system | two operations at once, one of which fails | the data names files that exist |
| configuration and models (`vm/configuration.rs`, `vm/models.rs`) | data | builders, serialization | VmApi | - | - |
| metrics task (`ext/metrics.rs`) | a file position, a bounded channel | one loop | Firecracker's metrics file | partial lines, full or closed channel | entries are delivered once, in order |
| link-local subnets (`ext/link_local.rs`) | three integers | conversions and enumeration | - | fixed width arithmetic | addresses stay in the subnet; conversions invert each other |
| fcnet, snapshot editor, gRPC and HTTP over vsock (`ext/`) | none | run one command; wrap a client | spawner, sockets | - | - |

`PROJECT.json` lists the components with what is modelled of each, and the hazards at their lines.

## Modules

| Module | Contents |
|---|---|
| `VmmProcess.tla` | Layer 3 with the executor, the spawner and the OS process behind it |
| `VmmProcess_proofs.tla` | Its inductive invariant and theorems, and that it keeps the contract of `Executor` |
| `Vm.tla` | Layer 4 and VmApi, composed with `VmmProcess` and with the API server and guest |
| `VmLifecycle.tla` | The abstract lifecycle that the comments of `VmState` promise; `Vm` implements it |
| `Vm_proofs.tla` | `Vm` implements `VmmProcess` and inherits its theorems; what `shutdown` promises |
| `VmApi_proofs.tla` | Requests, pauses and boots of `Vm`, and that it implements `VmLifecycle` |
| `Executor.tla` | The contract of `VmmExecutor` between layers 2 and 3: prepare and cleanup happen at once or not at all |
| `JailedExecutor.tla` | Layer 2 with the jailer: `prepare` with its blocking tasks, and `cleanup` |
| `JailedExecutor_proofs.tla` | Its inductive invariant; what `prepare` and `cleanup` promise, that resources survive, and that it implements `Executor` |
| `VmTraces.tla` | The files of layers 2 (unrestricted), 3 and 4: who creates and removes them, Vm after Vm, with snapshots |
| `VmTraces_proofs.tla` | Whose the files are at each moment, and what no cleanup or copy loses |
| `MetricsTask.tla` | The metrics task between a growing file and a bounded channel |
| `MetricsTask_proofs.tla` | Nothing is lost or reordered between file and receiver |
| `LinkLocal.tla` | The arithmetic of link-local subnets, and its reference |
| `CommandLine.tla` | Arguments, command modifiers, the commands of both executors and of fcnet, and how they are read |
| `PureCalls.tla` | Calls of the operators of the last two with operands from small sets |
| `PureCalls_proofs.tla` | The arithmetic of every subnet and every index; the arguments that are passed to Firecracker |

### VmmProcess

One variable per field of `VmmProcess` (`state`, `outerPaths`, `child`, `pipes`, `hyperClient`)
and three facts that never change (`socketPath`: the API socket is enabled; `escalates`: the
spawner increases privileges; `detaches`: the jailer is told to daemonize or to fork). All
methods take `&mut self`, so one is in flight at a time: `call` is the await point at which it is
suspended, `spawned` the Child that a suspended `spawn` holds, `reply` what the last call
returned. The host is `os` (what became of each process), `vmm` (which launches have a living
VMM) and `env` (the environment).

Each method is one action up to its first await and one per continuation. `Observed` is
`update_state`, which runs at the beginning of every method: `Enter` and `Refuse` are the two
outcomes of `ensure_state`. What a method awaits may fail (`PrepareErr`, `InvokeErr`, `ChownErr`,
`RequestDone`, `WaitFails`, `CleanupErr`) and may be dropped (`Cancel`). `WaitFails` is the
`WaitFailed` of `wait_for_exit`: the process may well be alive. That `try_wait` of `update_state`
finds out what became of the Child is assumed. With `SameUserShellSpawner` no await
lies between the creation of the process and the assignment to `child`; with su and sudo the
password and the command are written in between, which is where `InvokeErr` and `Cancel` create
orphans. An executor is a trait: `prepare` and `cleanup` change `env` a part at a time.

The model assumes that `sh -c` execs the single command it is given, and that the jailer execs
Firecracker unless it detaches. `Direct` names that case: then the Child *is* the VMM.

### Vm

Each action of `Vm` that reaches the process is conjoined with the action of `VmmProcess` that it
calls, so that the guards, failures and cancellations of the layer below stay in force. `task` is
the await point (or the point between two synchronous calls) of the Vm method in flight, `todo`
what is left of the initialization requests or of the shutdown methods, `lastResult` the local
variable of `shutdown`. The wait of `shutdown` has three ends: the process is dead
(`ShutdownWait`), the timeout (`ShutdownTimeout`), or an error of the wait itself
(`ShutdownWaitFails`), which `shutdown` drops and takes for success. `WaitFailed` and `NothingTried`
name the two ways to Ok that look at no process. A `VmmProcess` that `prepare` drops on an error is the task `dropped`.

The API server and the guest are external. A request leaves in `inbox`, the server handles it or
not (`Serve`), and its `answer` may be lost (`Broken`). Dropping a call leaves its request in the
inbox, to be obeyed later. Firecracker's server is single-threaded, which is the one assumption
about it: a request that a dropped call left behind is handled before the next one is, or never.
The requests are told apart by what they do to the guest: `info` stands for every request that
changes neither the Vm nor the run state of the guest, `custom_pause` and `custom_resume` for
`api_custom_request` with `new_is_paused`. `mode` is what the configuration makes of the guest:
boot by API calls, boot by a JSON file, or restoration with and without `resume_vm`.

`adrift` is a history variable: a request to pause or resume was dropped, lost or unsuccessful
without the Vm knowing what came of it.

### JailedExecutor

`phase` is what the call in flight awaits, `list` its `outer_paths` and `rest` what its loop has not
reached. Each resource that the loop spawns is a task, a position of the list of one call; `move` is
its next operation. Creating the parent directories, the hard link, the opening of the copy's target
(which truncates what is there) and the writing are separate steps, so that tasks interleave at each
system call. A file is an inode: the inodes of the resources, and one that each task may create.
`jail` maps inner paths to inodes and `data` inodes to contents, so that a hard link makes an inner
path and a resource the same file.

A JoinSet that is dropped, because `prepare` returned an error or was dropped itself, aborts the
blocking tasks that no thread has taken and cannot abort the others: `Return` keeps those. A dropped
call may also leave its `remove_dir_all` behind (`lateRemoval`). Both then work against the next call; the history variable
`overlapped` says that it happened. `collided` says that a list had two resources with one inner
path, including one resource listed twice, as two drives on one image are.

The renamer is a function from resources to inner paths or to an error, which covers the flat and
the mapping renamer. Existence checks and chowns fail freely (`SpawnFails`), and so do hard links
(`LinkFails`, always if the path is taken) and copies. What is left out: the log and metrics files, the chroot base directory, the parent of the API socket, and
`invoke`, which is `Spawn` of `VmmProcess`.

### VmTraces

`VmmProcess` and `Vm` know an environment that is complete or not; this module knows its files. Vms
with an `UnrestrictedVmmExecutor` come one after another and use the same paths. `owner` says which
of them each file belongs to: the API socket, the log that the arguments name (`fcLog`), the log of
the logger, the configuration file of `InitMethod::ViaJsonConfiguration`, the vsock socket and the
socket of a registered listener; a log stands for the metrics file next to it, which is treated
alike. `removesLogs`, `json` and `vsock` are what the Vms are configured with. `call` and `todo` are
the call in flight and the steps it has left: `ExecutorPrepare` and `VmPrepare` are the two halves of
`prepare`, `Start`, `WriteConfiguration`, `Invoke` and `SocketAppears` are `start`, which may end
after each, `CleanupStep` is the `cleanup` of the executor and `RemoveTraces`, `RunRemoval`, `RemovalFails` and `CleanupDone` that of
the Vm, whose removals are blocking tasks. `Abandon` ends any call at any point, by an error or by
dropping its future, and keeps the Vm or not; a VMM whose Vm is dropped lives on. What is in the
blocking pool by then may still happen: `removals` holds it, each with the number of its cleanup.

A snapshot is two files in two places, where Firecracker writes them (1) and where `copy` or
`move_out` bring them (2). `disk` says which file is where and `content` what is in it, so that a
rename moves a file under the hands of a copy that has opened it. The two operations of a call are
blocking tasks (`snapTask`) that run on when `try_join` returns the first error, and that may meet
the removals of a cleanup and the tasks of the next call. A copy opens its source, opens and thereby
truncates its target, and writes, in three steps (`OpenSource`, `OpenTarget`, `WriteCopy`).

Firecracker is external: it fails when the API socket is there already, and it does not remove its
sockets. A file that is created late is left out: the `File::create` of a `prepare` and the
`fs::write` of a `start` that were dropped.

### MetricsTask

An entry is three symbols, the two halves of its text and the newline, and the file is a number of
symbols written, so that every way to tear a line is a position. `wholeLines` says whether
Firecracker appends only whole lines. `next_line` returns the rest of the file when there is no
newline, which is what makes a torn line dangerous. `task` is the await point, or the error that
ended the task; `held` is the entry it is sending.

### LinkLocal, CommandLine and PureCalls

These functions have no state. `LinkLocal` translates them in the integer types of the code, with a
panic as an error of its own, beside a reference: the arithmetic of CIDR prefixes. `CommandLine`
takes a text as a sequence of parts of which a space is one, and a HashMap as a function with an
iteration order as an operand; its reference is how a program reads a command: split at spaces,
a flag followed by its value. `PureCalls` turns each function into an action that calls it with
operands of a small set, and the properties compare results with the reference.

## Runs

| Run | What it asks | Instance |
|---|---|---|
| `vmm_process` | `TypeOK`, `ChildExpectHolds`, `OneVmm`, `VmmInReadyEnv`, `ExitIsFinal`, `OutputPipesDelivered`, `KilledWaitReturns` | two launches, all values of the three fixed facts; 58 thousand states |
| `vm` | `VmTypeOK`, `TrackedPause`, `ShutdownOkMeansDead`, `StartOkMeansBooted`, `PausedBeforeKill`, `LastWaitEnds`, `ImplementsLifecycle` | one launch, all four modes, shutdown lists of no, one and two methods; 588 thousand states |
| `jailed_executor` | `TypeOK`, `JailHoldsResources`, `SourcesIntact`, `HardLinkDetectsCollisions`, `CleanupLeavesNothing`, `PrepareNeverStuck`, `PreparedJailIsStable`, `ImplementsExecutor` | two resources, two inner paths, lists of up to two, two calls of `prepare`; 1.08 million states up to symmetry |
| `vm_traces` | `TypeOK`, `SocketIsFresh`, `LivingVmKeepsItsFiles`, `OnlyLeftoversRemain`, `BroughtSnapshotSurvives`, `SnapshotOnlyRemoved`, `CleanupReturns` | two Vms without or one with a snapshot, two calls of `cleanup`, `copy`, `move_out` and `remove` together; booted by API calls without a vsock device and with logs removed, or by a JSON file with a device and logs kept; 807 thousand states |
| `metrics_task` | `TypeOK`, `EntriesInOrder`, `NothingSkipped`, `WholeLinesParse`, `EntriesHandedOver`, `DroppedReceiverEndsTask` | four entries, a channel of two; 1700 states |
| `pure_calls` | `SubnetsFit`, `AddressesStayInSubnet`, `CommandSaysArguments`, `ReplaceOrderIrrelevant`, `FcnetSaysConfiguration` | the operands of `PureCalls`; 19 thousand calls |
| `vmm_process_outer_paths_expect` | *violated*: "Outer paths cannot ever be none, unreachable" | as `vmm_process` |
| `vmm_process_dead_child` | *violated*: "The returned tokio Child must be the shell's process" | as `vmm_process`, no detaching |
| `vm_start_expect` | *violated*: "No configuration cannot exist for a VM, unreachable" | as `vm` |
| `vm_restored_paused` | *violated*: Running means "was booted and is running" | as `vm` |
| `jailed_executor_unique_names` | *violated*: unique file names "should be enough" for the flat renamer | two resources, one call |
| `link_local_from_inet` | *violated*: `from_inet` finds the subnet of an address | as `pure_calls` |

**Bounds.** A `VmmProcess` stores a Child once; a second launch only happens after a first one that
failed or was dropped and left an orphan. Two launches therefore show everything that a launch can
find behind it, and the theorems cover any number. `Vm` takes its configuration at the first
`start`, so that there is only one launch. A shutdown list of two shows each pair of methods where
the first fails and the second runs in what it left; longer lists repeat the step of the loop, and
`ShutdownMeansDead` is proved for all lengths. Requests and API calls are unbounded in number: the
state does not count them.

`JailedExecutor`: two tasks of one call show every pairwise interleaving, and tasks of different
resources only meet at a shared inner path; the second call shows what an abandoned first one does to
its successor. Paths are interchangeable, which the run uses as a symmetry (`Names`).

`VmTraces`: a file is created, found or removed by a Vm and its predecessor, never by a third, so two
Vms are enough; a snapshot is no file that a successor creates, so the snapshot is checked with one.
The three settings concern different files, so the two `Setups` show each setting both ways; the
theorems are for any set of them.
Two calls are each pair of `cleanup`, `copy`, `move_out` and `remove`: a first one that fails or is
dropped, and a second that meets what it left, one after another or at the same time.

`MetricsTask`: four entries fill the channel, the hand of the task and leave one in the file.
`PureCalls`: all prefix lengths that the code accepts and those around them, indices at both ends of
their ranges, every set of up to two overlapping or separate replacements, and every iteration order.

**Deadlock** is checked in every run except those of `JailedExecutor`, `VmTraces` and `MetricsTask`,
where calls and entries are bounded and nothing need happen after the last one. A dropped Vm stutters
explicitly (`Dropped`).

**Fairness.** Weak fairness of `Killed` (the kernel delivers SIGKILL), of `WaitDone` and
`ShutdownWait` (the runtime polls a future whose child has exited), of the synchronous steps of
`shutdown` and of `ShutdownTimeout` (a tokio timer fires), and never of a wait that fails; in `VmTraces`, of the removals and of
`CleanupDone` (the blocking pool runs them and the runtime polls a cleanup that awaits them); in
`MetricsTask`, of the steps of the task without `ReadFails`, so that no read is made to fail.
Nothing forces Firecracker to answer a
request or to exit, and no caller to make a call; accordingly `LastWaitEnds` promises the end of
the wait under the timeout and not of `shutdown` as a whole, whose requests run outside of it.

### The properties

* `ChildExpectHolds`: three methods `expect` a Child in state Started. The state is derived from the
  Child, and the Child is stored by a method that can fail and be dropped.
* `OneVmm`, `VmmInReadyEnv`: for direct launches, retrying `invoke`, a failed `prepare`, a death
  between two calls or a repeated `cleanup` never leads to a second VMM or to a VMM whose files are
  incomplete or being removed.
* `ExitIsFinal`: no call changes a terminal state or its Child.
* `OutputPipesDelivered`: stdout and stderr are not lost to a `take_pipes` that fails because an
  abandoned `wait_for_exit` has closed stdin.
* `KilledWaitReturns`, `LastWaitEnds`: waits end.
* `TrackedPause`: between calls, `state()` is Paused exactly if the guest is, unless a request was
  lost (`adrift`). A restoration without `resume_vm` is excluded; that is a finding.
* `ShutdownOkMeansDead`, `StartOkMeansBooted`, `PausedBeforeKill`: what Ok of `shutdown` and `start`
  and the name `PauseThenKill` promise, under timeouts, faults and exits at any moment. `shutdown`
  has two exceptions, the empty list and a wait that failed; see below.
* `ImplementsLifecycle`: `Vm` refines `VmLifecycle` under the mapping in `Vm.tla`: prepare precedes
  boot, boot happens once, an end is final, and the environment is taken down only after it.

* `JailHoldsResources`: Ok of `prepare` means that each inner path holds its resource, complete.
* `SourcesIntact`: no move changes a resource on the host. `HardLinkWithCopyFallback` needs distinct
  inner paths and no task of an earlier call for it; the other two methods do not.
* `HardLinkDetectsCollisions`: only this method refuses two resources with one inner path.
* `CleanupLeavesNothing`, `PreparedJailIsStable`: after Ok no task of the call is left that could
  still write into the jail or bring it back after `cleanup`.
* `PrepareNeverStuck`: when all tasks of a call have ended, with whatever results, `prepare` can return.
* `ImplementsExecutor`: `JailedExecutor` refines `Executor`. An environment is *ready* when each resource is
  complete at its inner path, *absent* when the jail is gone, and *partial*, of which nothing is promised,
  while a call is in flight and after one that failed. The steps of blocking tasks and of abandoned
  removals are visible in it only while it is partial. The contract is *spoiled*, and says nothing, once a
  list had two resources for one inner path or a `prepare` began while work of an earlier call went on.

* `SocketIsFresh`: `start` takes any file at the path for the API socket, and what it finds is the
  socket of the VMM it has just launched, if the earlier VMM is dead and its removals are done.
* `LivingVmKeepsItsFiles`: no cleanup, and nothing that one left behind, removes files of a living VMM.
* `OnlyLeftoversRemain`: what Ok of `cleanup` promises, also of a second attempt. `cleanup` calls
  itself the removal of "the full environment" (src/vm/mod.rs:406) but goes through paths that other
  methods have recorded. Left are what the property calls `Leftovers`: the configuration file that
  `start` has written, the logs that are to be kept, and listeners without a vsock device. The
  traces of a snapshot are popped before they are removed, so that a dropped `cleanup` forgets them,
  and are recorded only after the answer; the property says that too.
* `BroughtSnapshotSurvives`, `SnapshotOnlyRemoved`: `copy` and `move_out` against a concurrent cleanup,
  failures of one of two operations, and calls that were dropped. Where a copy meets a move that was
  abandoned, or the other way round, the file may be renamed onto the target between the two opens
  of the copy, which then truncates its own source and returns Ok: both properties except this
  meeting (`crowded`, `CopyMeetsMove`), and `SnapshotOnlyRemoved` says that it is the only one.
* `CleanupReturns`: a cleanup ends whatever its removals come to.
* `EntriesInOrder`, `NothingSkipped`: nothing is lost, repeated or reordered between file and receiver.
* `WholeLinesParse`: whole lines never end the task. `EntriesHandedOver`, `DroppedReceiverEndsTask`: it
  makes progress while the channel does, and a dropped receiver ends it, with the next entry only.
* `SubnetsFit`, `AddressesStayInSubnet`: no subnet reaches out of 169.254.0.0/16, addresses lie in their
  subnet at their index, host addresses are neither the network nor its broadcast address, and
  the errors that "should never happen" do not.
* `CommandSaysArguments`: Firecracker and the jailer read exactly what was asked for, in every
  iteration order, under every override of the configuration file, through modifiers.
* `ReplaceOrderIrrelevant`: which replacements do not depend on the order of their HashMap.
* `FcnetSaysConfiguration`: fcnet reads its operation, one type and the options of that type.

### What the violated statements mean

Each is a comment or a contract of the repository that the code does not keep; the details are in
`PROJECT.json` under `findings`. Two are `expect`s called unreachable that a retry after a failure
reaches; one is a tracked state that is wrong after a restoration; one is a contract of
`ShellSpawner` that `su` and `sudo` cannot keep; one is a move method that, for a file listed twice,
takes its own link for an obstacle and empties the file by copying it onto itself; and one is
`from_inet`, which divides by the length of the prefix instead of the size of the subnet.

`ShutdownOkMeansDead` has two exceptions that the docs of the repository do not have
(src/vm/mod.rs:356-357, 367-368: a shutdown ends in a terminal state or in an error). With an empty
list (`NothingTried`) `shutdown` returns Ok on a running VM, although src/vm/mod.rs:98-99 declares an
error for it. And when `wait_for_exit` returns `WaitFailed`, `shutdown` drops that result and only
looks at the timeout (src/vm/mod.rs:388-391), so that a failed wait on a living process
(`WaitFailed`) is Ok as well. The run explores both; nothing else leads to Ok on a living process.

## Proofs

`VmmProcess_proofs` proves all properties of `VmmProcess` that are not about liveness, for any set of
processes, from `NoPidAssumption` and `DetachmentsAssumption` alone. None of the invariants is
inductive. `IInv` adds what they rest on:

* `ChildTracksState`: the Child is there exactly outside AwaitingPrepare and AwaitingStart;
* `CallMatchesState`: a suspended method is still in the state that admitted it (nobody else has
  `&mut self`), and `spawned` is held exactly at the await inside `spawn`;
* `ProcessesBorn`: the processes that the program holds exist, so that a new launch is not one of them;
* `TerminalMatchesStatus`: a terminal state is the exit status of the Child;
* `ReadyEnv`: the environment is complete from the end of `prepare` to the start of `cleanup`;
* `VmmIsHeld`: for direct launches a living VMM is the held process and that process is alive.

`NextIInv` has one step per action. The safety properties follow in `IInvImplies`; `ExitNeverChanges`
is an action property proved from the same invariant. `OutputPipesAreDelivered`, the other one, needs
`PipesPaired`: stdout and stderr are there together or not at all, so that a `take_pipes` that has
got past stdin and stdout does not fail at stderr and lose the two. `DirectChildIsItsVmm` is the other
side of the run `vmm_process_dead_child`: where the spawner does not escalate and the jailer does not
detach, a dead Child does mean a dead VMM.

The layers 2 and 3 meet in `Executor`, whose actions are the beginnings, the work and the ends of the
two calls that `VmmProcess` makes. `VmmProcess` runs over an arbitrary executor that it takes from no
module; `ProcessKeepsContract` shows that this executor does no more than the contract allows it, and
that `VmmProcess` calls it as the contract demands: one call at a time, and a cleanup only after a
prepare that succeeded (`CallerStep`, from `IInv`: a cleanup needs a terminal state, and that a
Child). `JailedExecutorImplementsExecutor` shows the same contract from below, and there the guard of
`Cleanup` is the demand that `ProcessKeepsContract` proves of the caller. The two modules are joined
by the contract and not composed: `VmmProcess` does not know what spoils it, two paths in one place or
another process on the same jail. `VmKeepsContract` carries the caller's side over to `Vm`.

`Vm_proofs` shows that each step of `Vm` is a step or a stutter of `VmmProcess`
(`VmImplementsProcess`), so that `Vm` inherits `IInv` and every safety property of its process
(`VmFindsItsChild`, `VmHasOneVmm`, `VmLivesInReadyEnv`, `VmEndIsFinal`, `VmDeliversOutputPipes`).
`ShutdownMeansDead` proves `ShutdownOkMeansDead`, for any bounds on the list, with one more invariant,
`ShutdownInv`: `shutdown` only works on a launched process, and reaches the end of a list that is
not empty only after a method has failed. Its delicate cases are the wait that is refused because
the process has died in the meantime, which counts as success and needs `IInv` to know that refused
means dead, and the wait that failed, which the property must tell from the one that ended. With
`VmmIsHeld` it follows that no VMM at all is alive after a successful shutdown of a direct launch,
with the same two exceptions (`ShutdownLeavesNoVmm`).

`VmApi_proofs` proves the other safety properties of `Vm`, for any number of launches and any lists of
shutdown methods. What Ok of a request means depends on the request it answers, and a dropped
request may still be in the server. Its invariant `VmIInv` therefore says, besides `IInv`:

* where the Vm is, and that its process is there too (`CallOfTask`, `PreparedFirst`, `TodoOfTask`);
* whose request the server has and whose answer is on its way: that of the method in flight
  (`OneRequest`), which, when it says Ok, is true of the guest (`AnswerIsTrue`);
* that a request to pause or resume that is nobody's any more has set `adrift` (`PauseIsOurs`), so
  that without it the tracked and the real state differ only while an answer is on its way (`Tracked`);
* that nothing comes between the pause and the SIGKILL of PauseThenKill (`KillAfterPause`).

`VmPreparesOnce` needs `PreparedFirst` only: the `expect` that a bare `VmmProcess` reaches is out of
reach inside a `Vm`, which prepares its process in a constructor and drops it on an error.

`VmImplementsLifecycle` is the refinement of `VmLifecycle`, a step at a time (`LifecycleStep`). Before
there is a Vm a step builds the environment, creates the Vm or loses it (`UnbornStep`); afterwards the
state that `state()` would report moves as `ObservedStep` and `LivingStep` say, from the tracked state
of the process and `is_paused`, and the environment as `EnvStep` says; a dropped process changes no
more (`DroppedStep`). That the Vm cannot be reported Paused before it has started is
`PausedSinceStart`, and that cleanup touches the environment only after the end comes from `IInv`.

`VmTraces_proofs` proves the safety properties of `VmTraces` for any number of Vms and of calls. `TInv`
has three parts, each preserved by itself given those before it:

* `ControlInv`: which steps a call has left, and that the VMM of a Vm is launched once and is dead
  before its cleanup. `PrepareInOrder`, `StartInOrder` and `CleanupInOrder` are the only places that
  look into `todo`;
* `FilesInv`: to whom each file belongs. `OwnFiles` is the heart of it: a Vm that began alone has
  the paths for itself until its VMM is dead, and a pending removal means that it is.
  `CleanupSoFar` says what a cleanup has got rid of, or has a removal for, when it has come so far,
  which is what makes the claim about a second cleanup after a failed one go through;
* `SnapshotInv`: a created snapshot has its traces until a cleanup has removals in their place
  (`TracesOfSnapshot`); which task of which call may be at work on a file (`TasksOfCalls`); and how
  far `copy` or `move_out` has come with each (`Brought`). `SnapshotWhole` and `TasksMeet` follow the
  file that Firecracker wrote: it is where it was created or where a move has brought it, never in
  both places, and a copy that has opened it finds it at its target only if the two calls have met.
  `NoCopyMet` is the premise of `BroughtSnapshotSurvives`: an abandoned copy may still be writing.

`SnapshotsAreOnlyRemoved` is an action property proved from `TInv`: when the file that Firecracker wrote
is lost, the step is a removal, or the truncation by a copy that has met a move.

`PureCalls_proofs` proves `SubnetsFit` and `AddressesStayInSubnet`. The calls of `PureCalls` take their
operands from small sets, but the lemmas do not: `NewIsValid`, `ValidFits`, `AddressInSubnet` and the
theorems `AddressesAtTheirPlace` and `ListsAreTheSubnet` speak of each length from 17 to 30, each subnet
of it and each index. They rest on `AmountDivides`, that each amount of addresses divides 65536, proved
length by length because the provers have no laws of powers, and on `Euclid` for what follows without
looking at the length.

Of the commands it proves what comes before the folds, for any arguments. `ConfigurationFileIsDecided`:
the configuration file that `VmmArguments::join` passes is that of the override under `Enable`, none
under `Disable`, and that of the arguments, if any, under `NoOverride`; there is one API flag; all other
options get through. `start` chooses `Enable` for a configuration by JSON and `NoOverride` for
everything else, a restoration included (src/vm/mod.rs:317), so that a path in the arguments of a
restored VM is passed. Its premise is that no setter writes one of these three keys, which is so in
`VmmArguments`. It needs `OverridesAssumption`, that the two overrides without a path differ.

`MetricsTask_proofs` proves `TypeOK`, `EntriesInOrder`, `NothingSkipped` and `WholeLinesParse` for any
number of entries and any buffer, from `EntriesAssumption` and `BufferAssumption`. Its `IInv` ties
everything to the position in the file: a live task is behind a whole entry, with its newline or
without (`BehindAnEntry`), behind a newline if lines are appended whole (`BehindALine`), and the number
of entries handed over and the one in hand follow from the position (`HandedByPosition`,
`HeldByPosition`). That a next line parses as an entry only if it starts at the beginning of one is
`EntryEnds`, which makes a torn line end the task instead of shifting all later entries.

`JailedExecutor_proofs` proves all properties of `JailedExecutor` that are not about ENABLED, for
any resources, renamer, length of lists and number of calls, from `BoundsAssumption`, `NoneAssumption`
and `DistinctAssumption`. The argument has two halves, and `IInv` a few parts for each:

* who may still write. `TasksOfCalls` ties every task to the call and the position it was spawned for;
  `Quiet` says that without overlap the tasks alive are those of the last call, and that there are none
  before the jail is cleared, during a cleanup, and after a success. `PreparedStaysPrepared` and
  `CleanedMeansGone` follow from it;
* where they write. `JailBySpawned` says that what is in the jail was brought by a resource already
  spawned, so that a new one finds its inner path free unless the list has a collision (`PathsFree`);
  `CopiesInPlace` and `MovedInPlace` follow a resource from there to the end of its task. Hard links
  need no such premise: `LinksApart` says that two that succeeded have two paths.

`ResourcesSurvive` holds under overlap because the methods do not mix: with `Copy` no path of the jail
is a resource (`CopiesAreCopies`), with `HardLink` nothing is opened for writing (`MethodsApart`), so
that no file open for writing is a resource (`NoSourceOpen`). The fallback mixes them, and needs
`PathsFree`. `TargetsOfCall`, `TargetsApart` and `OthersElsewhere` are the lemmas that keep tasks out
of each other's way; `ReturnKeeps`, `MoveKeepsTasks` and `NoFileChangedKeeps` treat the actions that
have a form in common at once.

The refinement of `Executor` needs one fact beside `IInv`: an undisturbed jail has its root from
`ClearJail` on (`RootThere`), because only a removal that a dropped call has left could take it away,
and `Quiet` excludes that. `ContractStep` then has one step per action: a task moves only while a call
is in flight or after one that failed, when the environment is partial, and an Ok comes with
`JailHoldsResources` or `CleanupLeavesNothing`.

`PrepareReturnsAfterItsTasks` is what can be proved of `PrepareNeverStuck`: once all tasks have ended,
the condition of one of the two returns of the loop holds. Its invariant `TasksSpawned` says that no
position the loop has passed is without a task or its result, so that `join_next` yields each of them.

Only model-checked, and why:

* `KilledWaitReturns`, `LastWaitEnds`, `EntriesHandedOver`, `DroppedReceiverEndsTask` and
  `CleanupReturns`: liveness under fairness;
* `PrepareNeverStuck`: it says that an action is ENABLED; the condition of the code that it is about is
  `PrepareReturnsAfterItsTasks`;
* `CommandSaysArguments`, `ReplaceOrderIrrelevant` and `FcnetSaysConfiguration`: `CommandLine` builds
  texts with folds, and what a fold computes for every sequence needs an induction over data (what is
  put into the folds is proved, see above);
* the six violated statements: they are refuted by a counterexample.

## Plan

All components with state of their own are modelled, and every safety property of a passing run that
the provers can reach is a theorem. What is left, in this order:

1. The unrestricted executor of `VmTraces` against `Executor`. Which of its files are the environment
   depends on the arguments, which the contract would have to be told.
2. The bodies of the loops that `CommandLine` folds over, as lemmas about one step.
3. The effect of `force_chown` on a tree of files, which two callers change at once.

## Not modelled

* Bodies, routes and serialization of API requests, and the data types of `vm/models.rs`: no property
  depends on them.
* The translation of inner to outer paths. `Vm` has no paths, `JailedExecutor` has a renamer, and
  `VmTraces` an executor that does not translate.
* The owners of files, and with them what `force_chown` does: the models have its outcome.
* `VmmId` and the verification of an installation: checks of texts, without state.
* Values with spaces, which the shell would split: `CommandLine` takes values for single words.
* `SnapshotData::into_configuration`, the snapshot editor, and the gRPC and HTTP wrappers over vsock:
  they convert data, run one command or wrap one client, and keep no state.

Panics are modelled as a reply after which the object can still be used, as it can after
`catch_unwind`.
