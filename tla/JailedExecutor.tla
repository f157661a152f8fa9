---------------------------- MODULE JailedExecutor ----------------------------
(***************************************************************************)
(* JailedVmmExecutor of src/src/executor/jailed.rs: prepare empties the    *)
(* jail and moves the resources of the VM into it, each in a blocking task *)
(* of its own, and cleanup deletes the jail.                               *)
(*                                                                         *)
(* A blocking task that has started cannot be aborted: when prepare        *)
(* returns early or its future is dropped, the JoinSet aborts the queued   *)
(* tasks and the running ones go on, against whatever the next call does   *)
(* to the same jail.  The same holds for an abandoned remove_dir_all.      *)
(*                                                                         *)
(* A file is an inode with contents; a hard link makes a path of the jail  *)
(* and a path of the host name one inode.  Files that the executor itself  *)
(* creates in the jail (log, metrics) are left out.                        *)
(***************************************************************************)
EXTENDS Naturals, Sequences, FiniteSets, TLC

CONSTANTS
    Outer,     \* paths of resources on the host
    Inner,     \* paths in the jail
    None,      \* no file, no path
    MaxPaths,  \* bound on the length of outer_paths
    Attempts   \* bound on the number of calls to prepare

ASSUME BoundsAssumption == MaxPaths \in Nat /\ Attempts \in Nat
ASSUME NoneAssumption == None \notin Outer \union Inner

VARIABLES
    \* The executor and the host's files; these never change.
    moveMethod,   \* jail_move_method
    rename,       \* the jail renamer; None is its error
    linkable,     \* the jail and the resources are on one file system
    \* The call in flight.
    phase,        \* what it awaits, or "none"
    list, rest,   \* outer_paths, and what the loop of prepare has left of it
    result,       \* what the last call returned, "none" while one is in flight
    attempt,      \* the number of calls to prepare
    \* The blocking tasks, one for each position of a list.
    move,         \* the next operation of each task
    from, file,   \* its resource, and the inode it writes to
    lateRemoval,  \* a remove_dir_all whose caller has gone
    \* The file system.
    root,         \* the root directory of the jail exists
    jail,         \* the inode at each path in the jail
    data,         \* the contents of each inode
    \* History.
    overlapped,   \* a prepare began while an earlier call was still at work
    collided      \* a prepare was given two resources with one inner path

fixedVars == <<moveMethod, rename, linkable>>
callVars == <<phase, list, rest, result, attempt>>
taskVars == <<move, from, file>>
fsVars == <<root, jail, data>>
historyVars == <<overlapped, collided>>
vars == <<fixedVars, callVars, taskVars, lateRemoval, fsVars, historyVars>>

-----------------------------------------------------------------------------
JailMoveMethod == {"Copy", "HardLink", "HardLinkWithCopyFallback"}

Task == (1..Attempts) \X (1..MaxPaths)
Lists == UNION {[1..n -> Outer] : n \in 0..MaxPaths}

\* A resource is the inode of its outer path; a task creates at most one inode.
Inode == Outer \union Task
Contents == Outer \union {"truncated", "mixed"}

ASSUME DistinctAssumption ==
    /\ None \notin Task
    /\ Outer \intersect (Task \union {"truncated", "mixed"}) = {}

Queued == {t \in Task : move[t] = "queued"}
Alive == {t \in Task : move[t] \in {"queued", "linking", "copying", "writing"}}
Current == {t \in Task : t[1] = attempt /\ t[2] <= Len(list)}

Collide(l) == \E j, k \in DOMAIN l : j # k /\ rename[l[j]] = rename[l[k]]

Init ==
    /\ moveMethod \in JailMoveMethod
    /\ rename \in [Outer -> Inner \union {None}]
    /\ linkable \in BOOLEAN
    /\ phase = "none"
    /\ list = << >> /\ rest = << >>
    /\ result = "none"
    /\ attempt = 0
    /\ move = [t \in Task |-> "none"]
    /\ from = [t \in Task |-> None]
    /\ file = [t \in Task |-> None]
    /\ lateRemoval = FALSE
    /\ root = FALSE
    /\ jail = [i \in Inner |-> None]
    /\ data = [n \in Inode |-> IF n \in Outer THEN n ELSE "truncated"]
    /\ overlapped = FALSE
    /\ collided = FALSE

\* The call returns or is dropped, and the JoinSet with it: it aborts those of its tasks
\* that no thread has taken yet.
Return(res) ==
    /\ phase' = "none"
    /\ result' = res
    /\ rest' = << >>
    /\ \E aborted \in SUBSET (Queued \intersect Current) :
          LET left == Alive \ aborted
          IN  /\ move' = [t \in Task |-> IF t \in left THEN move[t] ELSE "none"]
              /\ from' = [t \in Task |-> IF t \in left THEN from[t] ELSE None]
              /\ file' = [t \in Task |-> IF t \in left THEN file[t] ELSE None]
    /\ UNCHANGED <<fixedVars, list, attempt, historyVars>>

\* A remove_dir_all that fails half-way has kept some files.
Remove ==
    \/ root' = FALSE /\ jail' = [i \in Inner |-> None]
    \/ \E kept \in SUBSET Inner :
          /\ jail' = [i \in Inner |-> IF i \in kept THEN jail[i] ELSE None]
          /\ UNCHANGED root

-----------------------------------------------------------------------------
Prepare ==
    /\ phase = "none"
    /\ attempt < Attempts
    /\ phase' = "clear"
    /\ list' \in Lists
    /\ rest' = list'
    /\ result' = "none"
    /\ attempt' = attempt + 1
    /\ overlapped' = (overlapped \/ Alive # {} \/ lateRemoval)
    /\ collided' = (collided \/ Collide(list'))
    /\ UNCHANGED <<fixedVars, taskVars, lateRemoval, fsVars>>

\* The previous jail is deleted and an empty one created.
ClearJail ==
    /\ phase = "clear"
    /\ phase' = "moving"
    /\ root' = TRUE
    /\ jail' = [i \in Inner |-> None]
    /\ UNCHANGED <<fixedVars, list, rest, result, attempt, taskVars, lateRemoval, data,
                   historyVars>>

ClearFails ==
    /\ phase = "clear"
    /\ Remove
    /\ Return("failed")
    /\ UNCHANGED <<lateRemoval, data>>

\* A resource that exists and has an inner path gets a task.
SpawnMove ==
    /\ phase = "moving"
    /\ rest # << >>
    /\ rename[Head(rest)] # None
    /\ LET t == <<attempt, Len(list) - Len(rest) + 1>>
       IN  /\ move' = [move EXCEPT ![t] = "queued"]
           /\ from' = [from EXCEPT ![t] = Head(rest)]
    /\ rest' = Tail(rest)
    /\ UNCHANGED <<fixedVars, phase, list, result, attempt, file, lateRemoval, fsVars,
                   historyVars>>

\* It is missing, has no inner path, or its chown fails: prepare returns at once.
SpawnFails ==
    /\ phase = "moving"
    /\ rest # << >>
    /\ Return("failed")
    /\ UNCHANGED <<lateRemoval, fsVars>>

\* Mutant: prepare returns with the first result.
JoinFirst ==
    /\ phase = "moving"
    /\ rest = << >>
    /\ Current = {} \/ \E t \in Current : move[t] = "ok"
    /\ Return("prepared")
    /\ UNCHANGED <<lateRemoval, fsVars>>

\* Mutant: prepare waits for a first result before it looks for an end.
JoinSome ==
    /\ phase = "moving"
    /\ rest = << >>
    /\ Current # {} /\ \A t \in Current : move[t] = "ok"
    /\ Return("prepared")
    /\ UNCHANGED <<lateRemoval, fsVars>>

\* join_next has yielded every task.
JoinAll ==
    /\ phase = "moving"
    /\ rest = << >>
    /\ \A t \in Current : move[t] = "ok"
    /\ Return("prepared")
    /\ UNCHANGED <<lateRemoval, fsVars>>

\* join_next yields tasks as they end: the first error is returned.
JoinFails ==
    /\ phase = "moving"
    /\ rest = << >>
    /\ \E t \in Current : move[t] = "failed"
    /\ Return("failed")
    /\ UNCHANGED <<lateRemoval, fsVars>>

-----------------------------------------------------------------------------
TaskStep(t, next) ==
    /\ move' = [move EXCEPT ![t] = next]
    /\ UNCHANGED <<fixedVars, callVars, from, lateRemoval, historyVars>>

\* The result of a task whose JoinSet is gone goes nowhere.
TaskEnd(t, res) ==
    /\ move' = [move EXCEPT ![t] = IF phase = "moving" /\ t \in Current THEN res ELSE "none"]
    /\ from' = [from EXCEPT ![t] = None]
    /\ file' = [file EXCEPT ![t] = None]
    /\ UNCHANGED <<fixedVars, callVars, lateRemoval, historyVars>>

Target(t) == rename[from[t]]

\* The task creates the parent directories of the inner path.
StartMove(t) ==
    /\ move[t] = "queued"
    /\ root' = TRUE
    /\ TaskStep(t, IF moveMethod = "Copy" THEN "copying" ELSE "linking")
    /\ UNCHANGED <<file, jail, data>>

CanLink(t) == root /\ linkable /\ jail[Target(t)] = None

\* Mutant: a file in the way is replaced.
LinkReplaces(t) ==
    /\ move[t] = "linking"
    /\ root /\ linkable
    /\ jail' = [jail EXCEPT ![Target(t)] = from[t]]
    /\ TaskEnd(t, "ok")
    /\ UNCHANGED <<root, data>>

\* Mutant: the copy is made whether the link failed or not.
LinkThenCopy(t) ==
    /\ move[t] = "linking"
    /\ CanLink(t)
    /\ jail' = [jail EXCEPT ![Target(t)] = from[t]]
    /\ \/ moveMethod = "HardLink" /\ TaskEnd(t, "ok")
       \/ moveMethod # "HardLink" /\ TaskStep(t, "copying") /\ UNCHANGED file
    /\ UNCHANGED <<root, data>>

Link(t) ==
    /\ move[t] = "linking"
    /\ CanLink(t)
    /\ jail' = [jail EXCEPT ![Target(t)] = from[t]]
    /\ TaskEnd(t, "ok")
    /\ UNCHANGED <<root, data>>

\* Mutant: the error of hard_link is ignored without a fallback, too.
LinkErrorIgnored(t) ==
    /\ move[t] = "linking"
    /\ \/ moveMethod = "HardLink" /\ TaskEnd(t, "ok")
       \/ moveMethod # "HardLink" /\ TaskStep(t, "copying") /\ UNCHANGED file
    /\ UNCHANGED fsVars

\* hard_link fails, always if it cannot succeed; any error of it leads to the fallback.
LinkFails(t) ==
    /\ move[t] = "linking"
    /\ \/ moveMethod = "HardLink" /\ TaskEnd(t, "failed")
       \/ moveMethod # "HardLink" /\ TaskStep(t, "copying") /\ UNCHANGED file
    /\ UNCHANGED fsVars

\* Mutant: the file is created wherever its directory may be.
OpenCopyAnywhere(t) ==
    /\ move[t] = "copying"
    /\ LET n == IF jail[Target(t)] = None THEN t ELSE jail[Target(t)]
       IN  /\ jail' = [jail EXCEPT ![Target(t)] = n]
           /\ file' = [file EXCEPT ![t] = n]
           /\ data' = [data EXCEPT ![n] = "truncated"]
    /\ TaskStep(t, "writing")
    /\ UNCHANGED root

\* std::fs::copy opens its target for writing: a file that is there is truncated,
\* whichever inode it is.
OpenCopy(t) ==
    /\ move[t] = "copying"
    /\ root
    /\ LET n == IF jail[Target(t)] = None THEN t ELSE jail[Target(t)]
       IN  /\ jail' = [jail EXCEPT ![Target(t)] = n]
           /\ file' = [file EXCEPT ![t] = n]
           /\ data' = [data EXCEPT ![n] = "truncated"]
    /\ TaskStep(t, "writing")
    /\ UNCHANGED root

\* What writing c over the contents d makes of them.
Written(d, c) == IF d \in {"truncated", c} THEN c ELSE "mixed"

WriteCopy(t) ==
    /\ move[t] = "writing"
    /\ data' = [data EXCEPT ![file[t]] = Written(@, data[from[t]])]
    /\ TaskEnd(t, "ok")
    /\ UNCHANGED <<root, jail>>

\* There is no directory to create the file in, the resource is a directory or gone,
\* or it cannot be read to its end.
CopyFails(t) ==
    /\ move[t] \in {"copying", "writing"}
    /\ TaskEnd(t, "failed")
    /\ UNCHANGED fsVars

-----------------------------------------------------------------------------
\* VmmProcess admits cleanup only after a launch, so after a successful prepare.
Cleanup ==
    /\ phase = "none"
    /\ result \in {"prepared", "cleaned", "uncleaned"}
    /\ phase' = "cleanup"
    /\ result' = "none"
    /\ UNCHANGED <<fixedVars, list, rest, attempt, taskVars, lateRemoval, fsVars, historyVars>>

CleanupOk ==
    /\ phase = "cleanup"
    /\ root
    /\ root' = FALSE
    /\ jail' = [i \in Inner |-> None]
    /\ Return("cleaned")
    /\ UNCHANGED <<lateRemoval, data>>

CleanupFails ==
    /\ phase = "cleanup"
    /\ Remove
    /\ Return("uncleaned")
    /\ UNCHANGED <<lateRemoval, data>>

\* The future is dropped; a remove_dir_all on its way is not.
Cancel ==
    /\ phase # "none"
    /\ Return(IF phase = "cleanup" THEN "uncleaned" ELSE "failed")
    /\ lateRemoval' = (lateRemoval \/ (phase \in {"clear", "cleanup"} /\ root))
    /\ UNCHANGED fsVars

LateRemove ==
    /\ lateRemoval
    /\ lateRemoval' = FALSE
    /\ Remove
    /\ UNCHANGED <<fixedVars, callVars, taskVars, data, historyVars>>

-----------------------------------------------------------------------------
Move(t) ==
    \/ StartMove(t) \/ Link(t) \/ LinkFails(t) \/ OpenCopy(t) \/ WriteCopy(t) \/ CopyFails(t)

Next ==
    \/ Prepare \/ ClearJail \/ ClearFails
    \/ SpawnMove \/ SpawnFails \/ JoinAll \/ JoinFails
    \/ \E t \in Task : Move(t)
    \/ Cleanup \/ CleanupOk \/ CleanupFails
    \/ Cancel \/ LateRemove

Spec == Init /\ [][Next]_vars

\* Nothing depends on which path is which.
Names == Permutations(Outer) \union Permutations(Inner)

-----------------------------------------------------------------------------
\* Files of the jail are files in its root directory.
TypeOK ==
    /\ moveMethod \in JailMoveMethod
    /\ rename \in [Outer -> Inner \union {None}]
    /\ linkable \in BOOLEAN
    /\ phase \in {"none", "clear", "moving", "cleanup"}
    /\ list \in Lists /\ rest \in Seq(Outer)
    /\ result \in {"none", "prepared", "failed", "cleaned", "uncleaned"}
    /\ attempt \in 0..Attempts
    /\ move \in [Task -> {"none", "queued", "linking", "copying", "writing", "ok", "failed"}]
    /\ from \in [Task -> Outer \union {None}]
    /\ file \in [Task -> Inode \union {None}]
    /\ lateRemoval \in BOOLEAN
    /\ root \in BOOLEAN
    /\ jail \in [Inner -> Inode \union {None}]
    /\ data \in [Inode -> Contents]
    /\ overlapped \in BOOLEAN /\ collided \in BOOLEAN
    /\ root \/ \A i \in Inner : jail[i] = None

\* A prepare that returns Ok has put every resource, complete, at its inner path,
\* if inner paths differed in this and all earlier calls (a collision may ruin a
\* resource for good) and nothing of an earlier call was still at work.
JailHoldsResources ==
    result = "prepared" /\ ~overlapped /\ ~collided
        => \A k \in DOMAIN list : /\ jail[rename[list[k]]] # None
                                  /\ data[jail[rename[list[k]]]] = list[k]

\* The resources themselves are left as they are: always by Copy and HardLink, and by
\* HardLinkWithCopyFallback as long as no file is in the way of a link.
SourcesIntact ==
    moveMethod # "HardLinkWithCopyFallback" \/ ~(overlapped \/ collided)
        => \A o \in Outer : data[o] = o

\* HardLink finds out about two resources with one inner path; they are not silently
\* merged into one.
HardLinkDetectsCollisions ==
    result = "prepared" /\ moveMethod = "HardLink" /\ ~overlapped => ~Collide(list)

\* After a successful cleanup the jail is gone and stays so until the next call: no
\* task of the prepare before it recreates it.
CleanupLeavesNothing == result = "cleaned" /\ ~overlapped => ~root

\* Between the end of a successful prepare and the next call nothing touches the jail.
PreparedJailIsStable ==
    [][result = "prepared" /\ result' = "prepared" /\ ~overlapped => UNCHANGED fsVars]_vars

\* The loop over join_next never waits for nothing: when every task of a call has ended,
\* with whatever results, and however many or few there were, prepare can return.
PrepareNeverStuck ==
    phase = "moving" /\ rest = << >> /\ Current \intersect Alive = {}
        => ENABLED (JoinAll \/ JoinFails)

\* What the last call has promised of the jail, and whether it is so.
Environment ==
    IF phase # "none" \/ result \in {"failed", "uncleaned"} THEN "partial"
    ELSE IF ~root THEN "absent"
    ELSE IF \A k \in DOMAIN list : jail[rename[list[k]]] # None
                                   /\ data[jail[rename[list[k]]]] = list[k]
    THEN "ready" ELSE "partial"

\* For callers whose inner paths differ and who leave no time for the tasks of one call to
\* meet the next, prepare and cleanup happen at once or not at all, as VmmProcess expects:
\* no task, failure or dropped future is seen in the environment after Ok.
Contract == INSTANCE Executor WITH
    call <- IF phase \in {"none", "cleanup"} THEN phase ELSE "prepare",
    env <- Environment,
    prepared <- phase = "cleanup" \/ result \in {"prepared", "cleaned", "uncleaned"},
    spoiled <- overlapped \/ collided
ImplementsExecutor == Contract!Spec

-----------------------------------------------------------------------------
(***************************************************************************)
(* Statements of the repository that the code does not keep.               *)
(***************************************************************************)

\* jailed.rs:262-263: moving a file with filename p to /p: "Given that files have
\* unique names, this should be enough for most scenarios."  Two drives may share one.
UniqueNamesAreEnough ==
    (\A o, p \in Outer : rename[o] = rename[p] => o = p) /\ ~overlapped
        => \A o \in Outer : data[o] = o

=============================================================================
