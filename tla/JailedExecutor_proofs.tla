------------------------ MODULE JailedExecutor_proofs ------------------------
(***************************************************************************)
(* Proofs about JailedExecutor for any resources, any inner paths, lists   *)
(* of any length and any number of calls.                                  *)
(*                                                                         *)
(* What prepare promises rests on who may still write: as long as calls do *)
(* not overlap, the tasks that are alive belong to the last call, and      *)
(* between a success and the next call there are none.  As long as inner   *)
(* paths differ, each of them finds its inner path free.                   *)
(***************************************************************************)
EXTENDS JailedExecutor, TLAPS

Spawned == Len(list) - Len(rest)

Undisturbed == ~overlapped /\ ~collided

Unopened == {"queued", "linking", "copying"}

ListBeforeRest ==
    /\ Len(rest) <= Len(list)
    /\ \A j \in 1..Len(rest) : rest[j] = list[Spawned + j]

\* A prepare is counted when it begins; a call has a result when it is over.
ResultsAfterCalls ==
    /\ phase \in {"clear", "moving"} => attempt > 0
    /\ result # "none" => phase = "none"

\* A list with a collision is remembered.
CollisionsSeen == ~collided => ~Collide(list)

\* A task is the one that its call has spawned for its position.
TasksOfCalls ==
    \A t \in Task :
        /\ move[t] # "none" => t[1] <= attempt
        /\ move[t] # "none" /\ t[1] = attempt => t[2] <= Spawned /\ phase # "clear"
        /\ t \in Alive => from[t] \in Outer /\ rename[from[t]] # None
        /\ t \in Alive /\ t[1] = attempt => from[t] = list[t[2]]
        /\ move[t] \in {"ok", "failed"} => phase = "moving" /\ t \in Current
        /\ file[t] # None <=> move[t] = "writing"

\* Calls that do not overlap leave nothing to each other.
Quiet ==
    ~overlapped =>
        /\ \A t \in Alive : t[1] = attempt
        /\ phase \in {"clear", "cleanup"} \/ result \in {"prepared", "cleaned", "uncleaned"}
             => Alive = {}
        /\ phase \in {"clear", "moving"} \/ result = "prepared" => ~lateRemoval

MethodsApart ==
    \A t \in Task :
        /\ moveMethod = "Copy" => move[t] # "linking"
        /\ moveMethod = "HardLink" => move[t] \notin {"copying", "writing"}

\* Where there are only copies, no path of the jail is a resource.
CopiesAreCopies == moveMethod = "Copy" => \A i \in Inner : jail[i] \notin Outer

NoSourceOpen ==
    moveMethod # "HardLinkWithCopyFallback" \/ Undisturbed => \A t \in Task : file[t] \notin Outer

\* In the jail there is only what the tasks have brought.
JailBySpawned ==
    ~overlapped /\ phase = "moving" =>
        \A i \in Inner : jail[i] # None => \E k \in 1..Spawned : rename[list[k]] = i

PathsFree == Undisturbed => \A t \in Task : move[t] \in Unopened => jail[Target(t)] = None

\* A copy that is being written is in place.
CopiesInPlace ==
    Undisturbed /\ phase = "moving" =>
        \A t \in Task : move[t] = "writing" =>
            file[t] = t /\ jail[Target(t)] = t /\ data[t] = "truncated"

\* A resource that was moved is in place.
MovedInPlace ==
    Undisturbed /\ phase = "moving" =>
        \A t \in Task : move[t] = "ok" =>
            /\ jail[rename[list[t[2]]]] \in {t, list[t[2]]}
            /\ data[jail[rename[list[t[2]]]]] = list[t[2]]

\* Two hard links are two paths.
LinksApart ==
    ~overlapped /\ phase = "moving" /\ moveMethod = "HardLink" =>
        \A t \in Task : move[t] = "ok" =>
            /\ jail[rename[list[t[2]]]] # None
            /\ \A u \in Task : move[u] = "ok" /\ rename[list[u[2]]] = rename[list[t[2]]] => u = t

IInv ==
    /\ TypeOK
    /\ ListBeforeRest
    /\ ResultsAfterCalls
    /\ CollisionsSeen
    /\ TasksOfCalls
    /\ Quiet
    /\ MethodsApart
    /\ CopiesAreCopies
    /\ NoSourceOpen
    /\ JailBySpawned
    /\ PathsFree
    /\ CopiesInPlace
    /\ MovedInPlace
    /\ LinksApart
    /\ SourcesIntact
    /\ JailHoldsResources
    /\ HardLinkDetectsCollisions
    /\ CleanupLeavesNothing

-----------------------------------------------------------------------------
\* A task is a pair of a call and a position.
LEMMA TaskPairs ==
  /\ \A t \in Task : t[1] \in 1..Attempts /\ t[2] \in 1..MaxPaths
  /\ \A t, u \in Task : t[1] = u[1] /\ t[2] = u[2] => t = u
  /\ \A a \in 1..Attempts, k \in 1..MaxPaths :
        <<a, k>> \in Task /\ <<a, k>>[1] = a /\ <<a, k>>[2] = k
BY DEF Task

\* What prepare is given is a sequence of resources, of a bounded length.
LEMMA ListsAreSequences ==
  ASSUME NEW l \in Lists
  PROVE  l \in Seq(Outer) /\ Len(l) \in 0..MaxPaths /\ DOMAIN l = 1..Len(l)
<1>1. PICK n \in 0..MaxPaths : l \in [1..n -> Outer]
  BY DEF Lists
<1>2. n \in Nat
  BY BoundsAssumption
<1> QED
  BY <1>1, <1>2

\* The tasks that outlive a call are alive and as they were; the others are gone.
LEMMA ReturnLeaves ==
  ASSUME TypeOK, NEW res, Return(res)
  PROVE  /\ phase' = "none" /\ result' = res /\ rest' = << >>
         /\ move' \in [Task -> {"none", "queued", "linking", "copying", "writing"}]
         /\ from' \in [Task -> Outer \union {None}]
         /\ file' \in [Task -> Inode \union {None}]
         /\ \A t \in Task :
              \/ move'[t] = "none" /\ from'[t] = None /\ file'[t] = None
              \/ t \in Alive /\ move'[t] = move[t] /\ from'[t] = from[t] /\ file'[t] = file[t]
         /\ \A t \in Alive \ Queued : move'[t] = move[t]
         /\ UNCHANGED <<fixedVars, list, attempt, historyVars>>
<1>1. PICK aborted \in SUBSET (Queued \intersect Current) :
         LET left == Alive \ aborted
         IN  /\ move' = [t \in Task |-> IF t \in left THEN move[t] ELSE "none"]
             /\ from' = [t \in Task |-> IF t \in left THEN from[t] ELSE None]
             /\ file' = [t \in Task |-> IF t \in left THEN file[t] ELSE None]
  BY DEF Return
<1> DEFINE left == Alive \ aborted
<1>2. left \subseteq Alive /\ Alive \ Queued \subseteq left
  BY <1>1
<1>3. \A t \in Task : /\ move'[t] = IF t \in left THEN move[t] ELSE "none"
                      /\ from'[t] = IF t \in left THEN from[t] ELSE None
                      /\ file'[t] = IF t \in left THEN file[t] ELSE None
  BY <1>1
<1> HIDE DEF left
<1>4. \A t \in Task :
        \/ move'[t] = "none" /\ from'[t] = None /\ file'[t] = None
        \/ t \in Alive /\ move'[t] = move[t] /\ from'[t] = from[t] /\ file'[t] = file[t]
  BY <1>2, <1>3
<1>5. \A t \in Alive \ Queued : move'[t] = move[t]
  BY <1>2, <1>3 DEF Alive
<1>6. move' \in [Task -> {"none", "queued", "linking", "copying", "writing"}]
  BY <1>1, <1>4 DEF Alive
<1>7. from' \in [Task -> Outer \union {None}]
  BY <1>1, <1>4 DEF TypeOK
<1>8. file' \in [Task -> Inode \union {None}]
  BY <1>1, <1>4 DEF TypeOK
<1> QED
  BY <1>4, <1>5, <1>6, <1>7, <1>8 DEF Return

-----------------------------------------------------------------------------
\* IInv holds before the first call.
LEMMA InitIInv == Init => IInv
<1> SUFFICES ASSUME Init
             PROVE  IInv
  OBVIOUS
<1>1. list = << >> /\ rest = << >> /\ Len(list) = 0 /\ Len(rest) = 0 /\ DOMAIN list = {}
  BY DEF Init
<1>2. \A t \in Task : move[t] = "none" /\ from[t] = None /\ file[t] = None
  BY DEF Init
<1>3. \A i \in Inner : jail[i] = None
  BY DEF Init
<1>4. Alive = {}
  BY <1>2 DEF Alive
<1>5. TypeOK
  <2>1. list \in Lists /\ rest \in Seq(Outer)
    <3>1. << >> \in [1..0 -> Outer] /\ 0 \in 0..MaxPaths
      BY BoundsAssumption
    <3> QED
      BY <1>1, <3>1 DEF Lists
  <2>2. attempt \in 0..Attempts
    BY BoundsAssumption DEF Init
  <2>3. /\ move \in [Task -> {"none", "queued", "linking", "copying", "writing", "ok", "failed"}]
        /\ from \in [Task -> Outer \union {None}]
        /\ file \in [Task -> Inode \union {None}]
    BY DEF Init
  <2>4. jail \in [Inner -> Inode \union {None}] /\ data \in [Inode -> Contents]
    BY DEF Init, Contents
  <2> QED
    BY <1>3, <2>1, <2>2, <2>3, <2>4 DEF Init, TypeOK
<1>6. ListBeforeRest /\ ResultsAfterCalls /\ CollisionsSeen
  BY <1>1 DEF Init, ListBeforeRest, Spawned, ResultsAfterCalls, CollisionsSeen, Collide
<1>7. TasksOfCalls /\ Quiet /\ MethodsApart
  BY <1>2, <1>4 DEF Init, TasksOfCalls, Quiet, MethodsApart
<1>8. CopiesAreCopies /\ NoSourceOpen
  BY <1>2, <1>3, NoneAssumption DEF CopiesAreCopies, NoSourceOpen
<1>9. JailBySpawned /\ PathsFree /\ CopiesInPlace /\ MovedInPlace /\ LinksApart
  BY <1>2 DEF Init, JailBySpawned, PathsFree, Unopened, CopiesInPlace, MovedInPlace, LinksApart
<1>10. SourcesIntact
  BY DEF Init, SourcesIntact, Inode
<1>11. JailHoldsResources /\ HardLinkDetectsCollisions /\ CleanupLeavesNothing
  BY DEF Init, JailHoldsResources, HardLinkDetectsCollisions, CleanupLeavesNothing
<1> QED
  BY <1>5, <1>6, <1>7, <1>8, <1>9, <1>10, <1>11 DEF IInv

-----------------------------------------------------------------------------
\* What a call leaves that returns res, if it may return that.
LEMMA ReturnKeeps ==
  ASSUME IInv,
         NEW res \in {"prepared", "failed", "cleaned", "uncleaned"}, Return(res),
         data' = data,
         jail' \in [Inner -> Inode \union {None}],
         \A i \in Inner : jail'[i] \in {jail[i], None},
         root' \in BOOLEAN,
         root' \/ \A i \in Inner : jail'[i] = None,
         lateRemoval' \in BOOLEAN,
         ~overlapped /\ res # "failed" => Alive' = {},
         ~overlapped /\ res = "prepared" => ~lateRemoval',
         JailHoldsResources', HardLinkDetectsCollisions', CleanupLeavesNothing'
  PROVE  IInv'
<1> USE DEF IInv
<1>1. /\ phase' = "none" /\ result' = res /\ rest' = << >>
      /\ UNCHANGED <<fixedVars, list, attempt, historyVars>>
  BY ReturnLeaves
<1>2. /\ move' \in [Task -> {"none", "queued", "linking", "copying", "writing"}]
      /\ from' \in [Task -> Outer \union {None}]
      /\ file' \in [Task -> Inode \union {None}]
  BY ReturnLeaves
<1>3. \A t \in Task :
        \/ move'[t] = "none" /\ from'[t] = None /\ file'[t] = None
        \/ t \in Alive /\ move'[t] = move[t] /\ from'[t] = from[t] /\ file'[t] = file[t]
  BY ReturnLeaves
<1>4. Alive' \subseteq Alive
  BY <1>3 DEF Alive
<1>5. list \in Seq(Outer) /\ Len(list) \in 0..MaxPaths
  BY ListsAreSequences DEF TypeOK
<1>6. TypeOK'
  <2>1. list' \in Lists /\ rest' \in Seq(Outer) /\ attempt' \in 0..Attempts
    BY <1>1 DEF TypeOK
  <2>2. move' \in [Task -> {"none", "queued", "linking", "copying", "writing", "ok", "failed"}]
    BY <1>2
  <2> QED
    BY <1>1, <1>2, <2>1, <2>2 DEF TypeOK, fixedVars, historyVars
<1>7. Spawned \in Nat /\ Spawned <= Len(list) /\ Spawned' = Len(list) /\ Len(rest') = 0
  BY <1>1, <1>5 DEF TypeOK, ListBeforeRest, Spawned
<1>8. ListBeforeRest' /\ ResultsAfterCalls' /\ CollisionsSeen'
  BY <1>1, <1>5, <1>7
     DEF ListBeforeRest, ResultsAfterCalls, CollisionsSeen, Collide, fixedVars, historyVars
<1>9. TasksOfCalls'
  <2> SUFFICES ASSUME NEW t \in Task
               PROVE  /\ move'[t] # "none" => t[1] <= attempt'
                      /\ move'[t] # "none" /\ t[1] = attempt'
                            => t[2] <= Spawned' /\ phase' # "clear"
                      /\ t \in Alive' => from'[t] \in Outer /\ rename'[from'[t]] # None
                      /\ t \in Alive' /\ t[1] = attempt' => from'[t] = list'[t[2]]
                      /\ move'[t] \in {"ok", "failed"} => phase' = "moving" /\ t \in Current'
                      /\ file'[t] # None <=> move'[t] = "writing"
    BY DEF TasksOfCalls
  <2>1. CASE move'[t] = "none"
    BY <1>3, <2>1 DEF Alive
  <2>2. CASE move'[t] # "none"
    <3>1. t \in Alive /\ move'[t] = move[t] /\ from'[t] = from[t] /\ file'[t] = file[t]
      BY <1>3, <2>2
    <3>2. /\ move[t] # "none" => t[1] <= attempt
          /\ move[t] # "none" /\ t[1] = attempt => t[2] <= Spawned /\ phase # "clear"
          /\ t \in Alive => from[t] \in Outer /\ rename[from[t]] # None
          /\ t \in Alive /\ t[1] = attempt => from[t] = list[t[2]]
          /\ file[t] # None <=> move[t] = "writing"
      BY DEF TasksOfCalls
    <3>3. t[2] \in Nat
      BY TaskPairs, BoundsAssumption
    <3>4. move'[t] \notin {"ok", "failed"}
      BY <1>2
    <3> QED
      BY <1>1, <1>7, <2>2, <3>1, <3>2, <3>3, <3>4 DEF fixedVars
  <2> QED
    BY <2>1, <2>2
<1>10. Quiet'
  BY <1>1, <1>4 DEF Quiet, historyVars
<1>11. MethodsApart' /\ NoSourceOpen'
  BY <1>1, <1>3, NoneAssumption
     DEF MethodsApart, NoSourceOpen, Undisturbed, fixedVars, historyVars
<1>12. CopiesAreCopies'
  BY <1>1, NoneAssumption DEF CopiesAreCopies, fixedVars
<1>13. JailBySpawned' /\ CopiesInPlace' /\ MovedInPlace' /\ LinksApart'
  BY <1>1 DEF JailBySpawned, CopiesInPlace, MovedInPlace, LinksApart
<1>14. PathsFree'
  <2> SUFFICES ASSUME Undisturbed, NEW t \in Task, move'[t] \in Unopened
               PROVE  jail'[Target(t)'] = None
    BY <1>1 DEF PathsFree, Undisturbed, Unopened, historyVars
  <2>1. t \in Alive /\ move'[t] = move[t] /\ from'[t] = from[t]
    BY <1>3 DEF Unopened
  <2>2. jail[Target(t)] = None /\ Target(t)' = Target(t)
    BY <1>1, <2>1 DEF PathsFree, Target, fixedVars
  <2>3. Target(t) \in Inner
    BY <2>1 DEF TasksOfCalls, TypeOK, Target
  <2> QED
    BY <2>2, <2>3
<1>15. SourcesIntact'
  BY <1>1 DEF SourcesIntact, fixedVars, historyVars
<1> QED
  BY <1>6, <1>8, <1>9, <1>10, <1>11, <1>12, <1>13, <1>14, <1>15

\* A removal, whole or half-way, adds nothing.
LEMMA RemoveOnlyRemoves ==
  ASSUME TypeOK, Remove
  PROVE  /\ jail' \in [Inner -> Inode \union {None}]
         /\ \A i \in Inner : jail'[i] \in {jail[i], None}
         /\ root' \in BOOLEAN
         /\ root' \/ \A i \in Inner : jail'[i] = None
BY DEF TypeOK, Remove

\* Under IInv, the tasks of the call in flight are those of its list.
LEMMA CallHasItsTasks ==
  ASSUME IInv, phase = "moving", rest = << >>
  PROVE  /\ \A k \in DOMAIN list : <<attempt, k>> \in Current /\ <<attempt, k>>[2] = k
         /\ ~overlapped => Alive \subseteq Current
<1>1. list \in Seq(Outer) /\ Len(list) \in 0..MaxPaths /\ DOMAIN list = 1..Len(list)
  BY ListsAreSequences DEF IInv, TypeOK
<1>2. attempt \in 1..Attempts
  BY BoundsAssumption DEF IInv, TypeOK, ResultsAfterCalls
<1>3. Spawned = Len(list)
  BY <1>1 DEF Spawned
<1>4. ASSUME NEW k \in DOMAIN list
      PROVE  <<attempt, k>> \in Current /\ <<attempt, k>>[2] = k
  BY <1>1, <1>2, TaskPairs, BoundsAssumption DEF Current
<1>5. ASSUME ~overlapped, NEW t \in Alive
      PROVE  t \in Current
  <2>1. t \in Task /\ t[1] = attempt /\ move[t] # "none"
    BY <1>5 DEF Alive, IInv, Quiet
  <2> QED
    BY <1>3, <2>1 DEF IInv, TasksOfCalls, Current
<1> QED
  BY <1>4, <1>5

\* The ends of a call keep IInv.
LEMMA CallEndsKeep ==
  ASSUME IInv,
         ClearFails \/ SpawnFails \/ JoinAll \/ JoinFails \/ CleanupOk \/ CleanupFails \/ Cancel
  PROVE  IInv'
<1> USE DEF IInv
<1>0. /\ jail \in [Inner -> Inode \union {None}]
      /\ \A i \in Inner : jail[i] \in {jail[i], None}
      /\ root \in BOOLEAN
      /\ root \/ \A i \in Inner : jail[i] = None
      /\ lateRemoval \in BOOLEAN
  BY DEF TypeOK
<1> DEFINE Spared == JailHoldsResources' /\ HardLinkDetectsCollisions' /\ CleanupLeavesNothing'
<1>1. ASSUME NEW res, Return(res), TypeOK
      PROVE  result' = res /\ Alive' \subseteq Alive /\ UNCHANGED <<list, rename, historyVars>>
  <2>1. \A t \in Task : t \in Alive' => t \in Alive
    BY <1>1, ReturnLeaves DEF Alive
  <2> QED
    BY <1>1, <2>1, ReturnLeaves DEF Alive, fixedVars
<1>2. ASSUME NEW res \in {"failed", "uncleaned"}, Return(res)
      PROVE  Spared
  BY <1>1, <1>2 DEF JailHoldsResources, HardLinkDetectsCollisions, CleanupLeavesNothing
<1>3. CASE ClearFails \/ SpawnFails \/ JoinFails
  <2>1. Return("failed") /\ data' = data /\ lateRemoval' = lateRemoval
    BY <1>3 DEF ClearFails, SpawnFails, JoinFails, fsVars
  <2>2. /\ jail' \in [Inner -> Inode \union {None}]
        /\ \A i \in Inner : jail'[i] \in {jail[i], None}
        /\ root' \in BOOLEAN
        /\ root' \/ \A i \in Inner : jail'[i] = None
    BY <1>0, <1>3, RemoveOnlyRemoves DEF ClearFails, SpawnFails, JoinFails, fsVars
  <2>3. Spared
    BY <1>2, <2>1
  <2> QED
    BY <1>0, <2>1, <2>2, <2>3, ReturnKeeps
<1>4. CASE JoinAll
  <2>1. /\ phase = "moving" /\ rest = << >> /\ Return("prepared")
        /\ \A t \in Current : move[t] = "ok"
        /\ UNCHANGED <<root, jail, data, lateRemoval>>
    BY <1>4 DEF JoinAll, fsVars
  <2>2. \A k \in DOMAIN list : /\ <<attempt, k>> \in Task /\ <<attempt, k>>[2] = k
                               /\ move[<<attempt, k>>] = "ok"
    BY <2>1, CallHasItsTasks DEF Current
  <2>3. ~overlapped => Alive = {} /\ ~lateRemoval
    BY <2>1, CallHasItsTasks DEF Alive, Quiet
  <2>4. JailHoldsResources'
    <3> SUFFICES ASSUME Undisturbed, NEW k \in DOMAIN list
                 PROVE  /\ jail[rename[list[k]]] # None
                        /\ data[jail[rename[list[k]]]] = list[k]
      BY <1>1, <2>1 DEF JailHoldsResources, Undisturbed, historyVars
    <3>1. /\ jail[rename[list[k]]] \in {<<attempt, k>>, list[k]}
          /\ data[jail[rename[list[k]]]] = list[k]
      BY <2>1, <2>2 DEF MovedInPlace
    <3>2. list[k] \in Outer
      BY ListsAreSequences DEF TypeOK
    <3> QED
      BY <2>2, <3>1, <3>2, NoneAssumption, DistinctAssumption
  <2>5. HardLinkDetectsCollisions'
    <3> SUFFICES ASSUME ~overlapped, moveMethod = "HardLink",
                        NEW j \in DOMAIN list, NEW k \in DOMAIN list,
                        rename[list[j]] = rename[list[k]]
                 PROVE  j = k
      BY <1>1, <2>1, ReturnLeaves
         DEF HardLinkDetectsCollisions, Collide, historyVars, fixedVars
    <3>1. <<attempt, j>> = <<attempt, k>>
      BY <2>1, <2>2 DEF LinksApart
    <3> QED
      BY <3>1
  <2>6. CleanupLeavesNothing'
    BY <1>1, <2>1 DEF CleanupLeavesNothing
  <2>7. ~overlapped => Alive' = {} /\ ~lateRemoval'
    BY <1>1, <2>1, <2>3
  <2> QED
    BY <1>0, <2>1, <2>4, <2>5, <2>6, <2>7, ReturnKeeps
<1>5. CASE CleanupOk
  <2>1. /\ phase = "cleanup" /\ Return("cleaned") /\ data' = data /\ lateRemoval' = lateRemoval
        /\ root' = FALSE /\ jail' = [i \in Inner |-> None]
    BY <1>5 DEF CleanupOk
  <2>2. ~overlapped => Alive' = {}
    BY <1>1, <2>1 DEF Quiet
  <2>3. Spared
    BY <1>1, <2>1 DEF JailHoldsResources, HardLinkDetectsCollisions, CleanupLeavesNothing
  <2> QED
    BY <1>0, <2>1, <2>2, <2>3, ReturnKeeps
<1>6. CASE CleanupFails
  <2>1. /\ phase = "cleanup" /\ Return("uncleaned") /\ data' = data /\ lateRemoval' = lateRemoval
        /\ Remove
    BY <1>6 DEF CleanupFails
  <2>2. ~overlapped => Alive' = {}
    BY <1>1, <2>1 DEF Quiet
  <2>3. Spared
    BY <1>2, <2>1
  <2> QED
    BY <1>0, <2>1, <2>2, <2>3, ReturnKeeps, RemoveOnlyRemoves
<1>7. CASE Cancel
  <2> DEFINE res == IF phase = "cleanup" THEN "uncleaned" ELSE "failed"
  <2>1. /\ Return(res) /\ res \in {"failed", "uncleaned"}
        /\ UNCHANGED <<root, jail, data>>
    BY <1>7 DEF Cancel, fsVars
  <2>2. lateRemoval' \in BOOLEAN
    BY <1>7 DEF Cancel
  <2>3. ~overlapped /\ res # "failed" => Alive' = {}
    BY <1>1, <2>1 DEF Quiet
  <2>4. res # "prepared"
    OBVIOUS
  <2> HIDE DEF res
  <2>5. Spared
    BY <1>2, <2>1
  <2> QED
    BY <1>0, <2>1, <2>2, <2>3, <2>4, <2>5, ReturnKeeps
<1> QED
  BY <1>3, <1>4, <1>5, <1>6, <1>7

\* The beginning of a prepare keeps IInv.
LEMMA PrepareKeeps == IInv /\ Prepare => IInv'
<1> SUFFICES ASSUME IInv, Prepare
             PROVE  IInv'
  OBVIOUS
<1> USE DEF IInv
<1>1. /\ phase = "none" /\ phase' = "clear" /\ list' \in Lists /\ rest' = list'
      /\ result' = "none" /\ attempt' = attempt + 1 /\ attempt < Attempts
      /\ overlapped' = (overlapped \/ Alive # {} \/ lateRemoval)
      /\ collided' = (collided \/ Collide(list'))
      /\ UNCHANGED <<moveMethod, rename, linkable, move, from, file, lateRemoval, root, jail, data>>
  BY DEF Prepare, fixedVars, taskVars, fsVars
<1>2. list' \in Seq(Outer) /\ Len(list') \in Nat
  BY <1>1, ListsAreSequences
<1>3. attempt \in Nat /\ attempt' \in 0..Attempts
  BY <1>1, BoundsAssumption DEF TypeOK
<1>4. Alive' = Alive
  BY <1>1 DEF Alive
<1>5. ~overlapped' => ~overlapped /\ Alive = {} /\ ~lateRemoval
  BY <1>1
<1>6. Undisturbed' => Undisturbed /\ Alive = {}
  BY <1>1 DEF Undisturbed
<1>7. Alive = {} => \A t \in Task : move[t] \notin Unopened /\ file[t] = None
  BY DEF Alive, Unopened, TasksOfCalls
<1>8. TypeOK'
  BY <1>1, <1>2, <1>3 DEF TypeOK
<1>9. ListBeforeRest' /\ ResultsAfterCalls' /\ CollisionsSeen'
  <2>1. ListBeforeRest'
    BY <1>1, <1>2 DEF ListBeforeRest, Spawned
  <2>2. ResultsAfterCalls'
    BY <1>1, <1>3 DEF ResultsAfterCalls
  <2>3. CollisionsSeen'
    BY <1>1 DEF CollisionsSeen, Collide
  <2> QED
    BY <2>1, <2>2, <2>3
<1>10. TasksOfCalls'
  <2> SUFFICES ASSUME NEW t \in Task
               PROVE  /\ move[t] # "none" => t[1] < attempt'
                      /\ t \in Alive => from[t] \in Outer /\ rename[from[t]] # None
                      /\ move[t] \notin {"ok", "failed"}
                      /\ file[t] # None <=> move[t] = "writing"
    BY <1>1, <1>3, <1>4, TaskPairs, BoundsAssumption DEF TasksOfCalls, Alive
  <2> QED
    BY <1>1, <1>3, TaskPairs, BoundsAssumption DEF TasksOfCalls
<1>11. Quiet'
  BY <1>1, <1>4, <1>5 DEF Quiet
<1>12. MethodsApart' /\ CopiesAreCopies'
  BY <1>1 DEF MethodsApart, CopiesAreCopies
<1>13. NoSourceOpen' /\ PathsFree' /\ SourcesIntact'
  BY <1>1, <1>6, <1>7, NoneAssumption
     DEF NoSourceOpen, PathsFree, Unopened, SourcesIntact, Undisturbed
<1>14. JailBySpawned' /\ CopiesInPlace' /\ MovedInPlace' /\ LinksApart'
  BY <1>1 DEF JailBySpawned, CopiesInPlace, MovedInPlace, LinksApart
<1>15. JailHoldsResources' /\ HardLinkDetectsCollisions' /\ CleanupLeavesNothing'
  BY <1>1 DEF JailHoldsResources, HardLinkDetectsCollisions, CleanupLeavesNothing
<1> QED
  BY <1>8, <1>9, <1>10, <1>11, <1>12, <1>13, <1>14, <1>15

\* An empty jail keeps IInv.
LEMMA ClearJailKeeps == IInv /\ ClearJail => IInv'
<1> SUFFICES ASSUME IInv, ClearJail
             PROVE  IInv'
  OBVIOUS
<1> USE DEF IInv
<1>1. /\ phase = "clear" /\ phase' = "moving" /\ root' = TRUE
      /\ jail' = [i \in Inner |-> None]
      /\ UNCHANGED <<moveMethod, rename, linkable, list, rest, result, attempt, move, from, file,
                     lateRemoval, data, overlapped, collided>>
  BY DEF ClearJail, fixedVars, taskVars, historyVars
<1>2. result = "none"
  BY <1>1 DEF ResultsAfterCalls
<1>3. Alive' = Alive /\ Current' = Current /\ Spawned' = Spawned
  BY <1>1 DEF Alive, Current, Spawned
<1>4. \A t \in Task : move[t] \notin {"ok", "failed"}
  BY <1>1 DEF TasksOfCalls
<1>5. ~overlapped => Alive = {}
  BY <1>1 DEF Quiet
<1>6. TypeOK'
  BY <1>1 DEF TypeOK
<1>7. ListBeforeRest' /\ ResultsAfterCalls' /\ CollisionsSeen'
  BY <1>1, <1>2, <1>3 DEF ListBeforeRest, ResultsAfterCalls, CollisionsSeen, Collide
<1>8. TasksOfCalls'
  BY <1>1, <1>3, <1>4 DEF TasksOfCalls
<1>9. Quiet'
  BY <1>1, <1>2, <1>3 DEF Quiet
<1>10. MethodsApart' /\ CopiesAreCopies' /\ NoSourceOpen' /\ SourcesIntact'
  BY <1>1, NoneAssumption
     DEF MethodsApart, CopiesAreCopies, NoSourceOpen, SourcesIntact, Undisturbed
<1>11. JailBySpawned'
  BY <1>1 DEF JailBySpawned
<1>12. PathsFree' /\ CopiesInPlace'
  BY <1>1, <1>5 DEF PathsFree, CopiesInPlace, Undisturbed, Alive, Unopened
<1>13. MovedInPlace' /\ LinksApart'
  BY <1>1, <1>4 DEF MovedInPlace, LinksApart
<1>14. JailHoldsResources' /\ HardLinkDetectsCollisions' /\ CleanupLeavesNothing'
  BY <1>1, <1>2 DEF JailHoldsResources, HardLinkDetectsCollisions, CleanupLeavesNothing
<1> QED
  BY <1>6, <1>7, <1>8, <1>9, <1>10, <1>11, <1>12, <1>13, <1>14

\* The beginning of a cleanup keeps IInv.
LEMMA CleanupKeeps == IInv /\ Cleanup => IInv'
<1> SUFFICES ASSUME IInv, Cleanup
             PROVE  IInv'
  OBVIOUS
<1> USE DEF IInv
<1>1. /\ phase = "none" /\ phase' = "cleanup"
      /\ result \in {"prepared", "cleaned", "uncleaned"} /\ result' = "none"
      /\ UNCHANGED <<moveMethod, rename, linkable, list, rest, attempt, move, from, file,
                     lateRemoval, root, jail, data, overlapped, collided>>
  BY DEF Cleanup, fixedVars, taskVars, fsVars, historyVars
<1>2. Alive' = Alive /\ Current' = Current /\ Spawned' = Spawned
  BY <1>1 DEF Alive, Current, Spawned
<1>3. \A t \in Task : move[t] \notin {"ok", "failed"}
  BY <1>1 DEF TasksOfCalls
<1>4. TypeOK'
  BY <1>1 DEF TypeOK
<1>5. ListBeforeRest' /\ ResultsAfterCalls' /\ CollisionsSeen'
  BY <1>1, <1>2 DEF ListBeforeRest, ResultsAfterCalls, CollisionsSeen, Collide
<1>6. TasksOfCalls'
  BY <1>1, <1>2, <1>3 DEF TasksOfCalls
<1>7. Quiet'
  BY <1>1, <1>2 DEF Quiet
<1>8. MethodsApart' /\ CopiesAreCopies' /\ NoSourceOpen' /\ SourcesIntact'
  BY <1>1 DEF MethodsApart, CopiesAreCopies, NoSourceOpen, SourcesIntact, Undisturbed
<1>9. PathsFree'
  BY <1>1 DEF PathsFree, Undisturbed, Unopened, Target
<1>10. JailBySpawned' /\ CopiesInPlace' /\ MovedInPlace' /\ LinksApart'
  BY <1>1 DEF JailBySpawned, CopiesInPlace, MovedInPlace, LinksApart
<1>11. JailHoldsResources' /\ HardLinkDetectsCollisions' /\ CleanupLeavesNothing'
  BY <1>1 DEF JailHoldsResources, HardLinkDetectsCollisions, CleanupLeavesNothing
<1> QED
  BY <1>4, <1>5, <1>6, <1>7, <1>8, <1>9, <1>10, <1>11

\* A removal that nobody waits for keeps IInv.
LEMMA LateRemoveKeeps == IInv /\ LateRemove => IInv'
<1> SUFFICES ASSUME IInv, LateRemove
             PROVE  IInv'
  OBVIOUS
<1> USE DEF IInv
<1>1. /\ lateRemoval /\ lateRemoval' = FALSE
      /\ UNCHANGED <<moveMethod, rename, linkable, phase, list, rest, result, attempt, move, from,
                     file, data, overlapped, collided>>
  BY DEF LateRemove, fixedVars, callVars, taskVars, historyVars
<1>2. /\ jail' \in [Inner -> Inode \union {None}]
      /\ \A i \in Inner : jail'[i] \in {jail[i], None}
      /\ root' \in BOOLEAN
      /\ root' \/ \A i \in Inner : jail'[i] = None
      /\ root' => root
  <2>1. Remove
    BY DEF LateRemove
  <2>2. root' => root
    BY <2>1 DEF Remove
  <2> QED
    BY <2>1, <2>2, RemoveOnlyRemoves
<1>3. Alive' = Alive /\ Current' = Current /\ Spawned' = Spawned
  BY <1>1 DEF Alive, Current, Spawned
<1>4. ~overlapped => phase \notin {"clear", "moving"} /\ result # "prepared"
  BY <1>1 DEF Quiet
<1>5. TypeOK'
  BY <1>1, <1>2 DEF TypeOK
<1>6. ListBeforeRest' /\ ResultsAfterCalls' /\ CollisionsSeen'
  BY <1>1, <1>3 DEF ListBeforeRest, ResultsAfterCalls, CollisionsSeen, Collide
<1>7. TasksOfCalls'
  BY <1>1, <1>3 DEF TasksOfCalls
<1>8. Quiet'
  BY <1>1, <1>3 DEF Quiet
<1>9. MethodsApart' /\ CopiesAreCopies' /\ NoSourceOpen' /\ SourcesIntact'
  BY <1>1, <1>2, NoneAssumption
     DEF MethodsApart, CopiesAreCopies, NoSourceOpen, SourcesIntact, Undisturbed
<1>10. PathsFree'
  <2> SUFFICES ASSUME Undisturbed, NEW t \in Task, move[t] \in Unopened
               PROVE  jail'[Target(t)] = None
    BY <1>1 DEF PathsFree, Undisturbed, Unopened, Target
  <2>1. Target(t) \in Inner
    BY DEF TasksOfCalls, TypeOK, Target, Alive, Unopened
  <2> QED
    BY <1>2, <2>1 DEF PathsFree
<1>11. JailBySpawned' /\ CopiesInPlace' /\ MovedInPlace' /\ LinksApart'
  BY <1>1, <1>4 DEF JailBySpawned, CopiesInPlace, MovedInPlace, LinksApart, Undisturbed
<1>12. JailHoldsResources' /\ HardLinkDetectsCollisions' /\ CleanupLeavesNothing'
  BY <1>1, <1>2, <1>4 DEF JailHoldsResources, HardLinkDetectsCollisions, CleanupLeavesNothing
<1> QED
  BY <1>5, <1>6, <1>7, <1>8, <1>9, <1>10, <1>11, <1>12

\* A new task keeps IInv: its inner path is free unless an earlier resource had it.
LEMMA SpawnMoveKeeps == IInv /\ SpawnMove => IInv'
<1> SUFFICES ASSUME IInv, SpawnMove
             PROVE  IInv'
  OBVIOUS
<1> USE DEF IInv
<1> DEFINE p == <<attempt, Spawned + 1>>
<1>1. /\ phase = "moving" /\ rest # << >> /\ rename[Head(rest)] # None
      /\ move' = [move EXCEPT ![p] = "queued"]
      /\ from' = [from EXCEPT ![p] = Head(rest)]
      /\ rest' = Tail(rest)
      /\ UNCHANGED <<moveMethod, rename, linkable, phase, list, result, attempt, file, lateRemoval,
                     root, jail, data, overlapped, collided>>
  BY DEF SpawnMove, Spawned, fixedVars, fsVars, historyVars
<1>2. list \in Seq(Outer) /\ Len(list) \in 0..MaxPaths /\ DOMAIN list = 1..Len(list)
  BY ListsAreSequences DEF TypeOK
<1>3. /\ rest \in Seq(Outer) /\ Len(rest) \in 1..Len(list)
      /\ Tail(rest) \in Seq(Outer) /\ Len(Tail(rest)) = Len(rest) - 1
      /\ Head(rest) = rest[1] /\ rest[1] \in Outer
      /\ \A j \in 1..(Len(rest) - 1) : Tail(rest)[j] = rest[j + 1]
  BY <1>1, <1>2 DEF TypeOK, ListBeforeRest
<1>4. /\ Spawned \in Nat /\ Spawned + 1 \in 1..Len(list) /\ Spawned + 1 \in 1..MaxPaths
      /\ Spawned' = Spawned + 1
  BY <1>1, <1>2, <1>3, BoundsAssumption DEF Spawned
<1>5. Head(rest) = list[Spawned + 1]
  BY <1>3 DEF ListBeforeRest
<1>6. attempt \in 1..Attempts
  BY <1>1, BoundsAssumption DEF TypeOK, ResultsAfterCalls
<1>7. p \in Task /\ p[1] = attempt /\ p[2] = Spawned + 1
  BY <1>4, <1>6, TaskPairs
<1>8. result = "none"
  BY <1>1 DEF ResultsAfterCalls
<1> HIDE DEF p
<1>9. move[p] = "none" /\ file[p] = None
  BY <1>4, <1>7 DEF TasksOfCalls
<1>10. /\ move'[p] = "queued" /\ from'[p] = list[Spawned + 1]
       /\ \A t \in Task \ {p} : move'[t] = move[t] /\ from'[t] = from[t]
  BY <1>1, <1>5, <1>7 DEF TypeOK
<1>11. Alive' = Alive \union {p} /\ Current' = Current /\ p \in Current
  BY <1>1, <1>2, <1>4, <1>7, <1>10 DEF Alive, Current
<1>12. TypeOK'
  <2>1. /\ move' \in [Task -> {"none", "queued", "linking", "copying", "writing", "ok", "failed"}]
        /\ from' \in [Task -> Outer \union {None}]
    BY <1>1, <1>3 DEF TypeOK
  <2> QED
    BY <1>1, <1>3, <2>1 DEF TypeOK
<1>13. ListBeforeRest'
  BY <1>1, <1>2, <1>3, <1>4 DEF ListBeforeRest, Spawned
<1>14. ResultsAfterCalls' /\ CollisionsSeen'
  BY <1>1 DEF ResultsAfterCalls, CollisionsSeen, Collide
<1>15. TasksOfCalls'
  <2> SUFFICES ASSUME NEW t \in Task
               PROVE  /\ move'[t] # "none" => t[1] <= attempt
                      /\ move'[t] # "none" /\ t[1] = attempt => t[2] <= Spawned'
                      /\ t \in Alive' => from'[t] \in Outer /\ rename[from'[t]] # None
                      /\ t \in Alive' /\ t[1] = attempt => from'[t] = list[t[2]]
                      /\ move'[t] \in {"ok", "failed"} => t \in Current
                      /\ file[t] # None <=> move'[t] = "writing"
    BY <1>1, <1>11 DEF TasksOfCalls
  <2>1. CASE t = p
    BY <1>1, <1>3, <1>4, <1>5, <1>6, <1>7, <1>9, <1>10, <2>1
  <2>2. CASE t # p
    <3>1. move'[t] = move[t] /\ from'[t] = from[t] /\ (t \in Alive' <=> t \in Alive)
      BY <1>10, <1>11, <2>2
    <3>2. t[2] \in Nat
      BY TaskPairs, BoundsAssumption
    <3> QED
      BY <1>4, <3>1, <3>2 DEF TasksOfCalls
  <2> QED
    BY <2>1, <2>2
<1>16. Quiet'
  BY <1>1, <1>7, <1>8, <1>11 DEF Quiet
<1>17. MethodsApart'
  BY <1>1, <1>10 DEF MethodsApart
<1>18. CopiesAreCopies' /\ NoSourceOpen' /\ SourcesIntact'
  BY <1>1 DEF CopiesAreCopies, NoSourceOpen, SourcesIntact, Undisturbed
<1>19. JailBySpawned'
  BY <1>1, <1>4 DEF JailBySpawned
<1>20. PathsFree'
  <2> SUFFICES ASSUME Undisturbed, NEW t \in Task, move'[t] \in Unopened
               PROVE  jail[rename[from'[t]]] = None
    BY <1>1 DEF PathsFree, Undisturbed, Unopened, Target
  <2>1. CASE t = p
    <3>1. rename[list[Spawned + 1]] \in Inner
      BY <1>1, <1>3, <1>5 DEF TypeOK
    <3>2. ASSUME jail[rename[list[Spawned + 1]]] # None
          PROVE  FALSE
      <4>1. PICK k \in 1..Spawned : rename[list[k]] = rename[list[Spawned + 1]]
        BY <1>1, <3>1, <3>2 DEF JailBySpawned, Undisturbed
      <4>2. k \in DOMAIN list /\ Spawned + 1 \in DOMAIN list /\ k # Spawned + 1
        BY <1>2, <1>4
      <4> QED
        BY <4>1, <4>2 DEF CollisionsSeen, Collide, Undisturbed
    <3> QED
      BY <1>10, <2>1, <3>2
  <2>2. CASE t # p
    BY <1>10, <2>2 DEF PathsFree, Target
  <2> QED
    BY <2>1, <2>2
<1>21. CopiesInPlace'
  BY <1>1, <1>10 DEF CopiesInPlace, Undisturbed, Target
<1>22. MovedInPlace' /\ LinksApart'
  BY <1>1, <1>10 DEF MovedInPlace, LinksApart, Undisturbed
<1>23. JailHoldsResources' /\ HardLinkDetectsCollisions' /\ CleanupLeavesNothing'
  BY <1>1, <1>8 DEF JailHoldsResources, HardLinkDetectsCollisions, CleanupLeavesNothing
<1> QED
  BY <1>12, <1>13, <1>14, <1>15, <1>16, <1>17, <1>18, <1>19, <1>20, <1>21, <1>22, <1>23

-----------------------------------------------------------------------------
\* What every step of a task has in common.
LEMMA MoveFacts ==
  ASSUME IInv, NEW t \in Task, Move(t)
  PROVE  /\ t \in Alive /\ from[t] \in Outer /\ Target(t) \in Inner
         /\ UNCHANGED <<moveMethod, rename, linkable, phase, list, rest, result, attempt,
                        lateRemoval, overlapped, collided>>
         /\ \A u \in Task \ {t} :
               move'[u] = move[u] /\ from'[u] = from[u] /\ file'[u] = file[u]
         /\ \/ /\ move'[t] \in {"linking", "copying", "writing"}
               /\ from'[t] = from[t]
               /\ file'[t] # None <=> move'[t] = "writing"
            \/ /\ move'[t] \in {"ok", "failed"} /\ phase = "moving" /\ t \in Current
               /\ from'[t] = None /\ file'[t] = None
            \/ move'[t] = "none" /\ from'[t] = None /\ file'[t] = None
         /\ moveMethod = "Copy" => move'[t] # "linking"
         /\ moveMethod = "HardLink" => move'[t] \notin {"copying", "writing"}
         /\ file'[t] \in Inode \union {None}
<1> USE DEF IInv
<1>1. /\ t \in Alive /\ file[t] \in Inode \union {None}
      /\ file[t] # None <=> move[t] = "writing"
  BY DEF Move, StartMove, Link, LinkFails, OpenCopy, WriteCopy, CopyFails, Alive, TypeOK,
         TasksOfCalls
<1>2. from[t] \in Outer /\ Target(t) \in Inner
  BY <1>1 DEF TasksOfCalls, TypeOK, Target
<1>3. /\ moveMethod \in JailMoveMethod
      /\ moveMethod = "Copy" => move[t] # "linking"
      /\ moveMethod = "HardLink" => move[t] \notin {"copying", "writing"}
  BY DEF TypeOK, MethodsApart
<1> USE DEF TypeOK
<1>4. ASSUME NEW next \in {"linking", "copying"}, TaskStep(t, next), file' = file,
             move[t] # "writing"
      PROVE  /\ \A u \in Task \ {t} :
                   move'[u] = move[u] /\ from'[u] = from[u] /\ file'[u] = file[u]
             /\ move'[t] = next /\ from'[t] = from[t] /\ file'[t] = None
             /\ UNCHANGED <<moveMethod, rename, linkable, phase, list, rest, result, attempt,
                            lateRemoval, overlapped, collided>>
  BY <1>1, <1>4 DEF TaskStep, fixedVars, callVars, historyVars
<1>5. ASSUME NEW res \in {"ok", "failed"}, TaskEnd(t, res)
      PROVE  /\ \A u \in Task \ {t} :
                   move'[u] = move[u] /\ from'[u] = from[u] /\ file'[u] = file[u]
             /\ from'[t] = None /\ file'[t] = None
             /\ \/ move'[t] = res /\ phase = "moving" /\ t \in Current
                \/ move'[t] = "none"
             /\ UNCHANGED <<moveMethod, rename, linkable, phase, list, rest, result, attempt,
                            lateRemoval, overlapped, collided>>
  BY <1>5 DEF TaskEnd, fixedVars, callVars, historyVars
<1>6. CASE StartMove(t)
  <2>1. /\ TaskStep(t, IF moveMethod = "Copy" THEN "copying" ELSE "linking")
        /\ file' = file /\ move[t] = "queued"
    BY <1>6 DEF StartMove
  <2> QED
    BY <1>1, <1>2, <1>3, <1>4, <2>1 DEF JailMoveMethod
<1>7. CASE Link(t)
  BY <1>1, <1>2, <1>3, <1>5, <1>7 DEF Link
<1>8. CASE LinkFails(t)
  <2>1. CASE moveMethod = "HardLink" /\ TaskEnd(t, "failed")
    BY <1>1, <1>2, <1>3, <1>5, <2>1
  <2>2. CASE moveMethod # "HardLink" /\ TaskStep(t, "copying") /\ UNCHANGED file
    <3>1. move[t] # "writing"
      BY <1>8 DEF LinkFails
    <3> QED
      BY <1>1, <1>2, <1>3, <1>4, <2>2, <3>1
  <2> QED
    BY <1>8, <2>1, <2>2 DEF LinkFails
<1>9. CASE OpenCopy(t)
  <2> DEFINE n == IF jail[Target(t)] = None THEN t ELSE jail[Target(t)]
  <2>1. n \in Inode /\ n # None
    BY <1>2, DistinctAssumption DEF Inode
  <2>2. move[t] = "copying" /\ file' = [file EXCEPT ![t] = n] /\ TaskStep(t, "writing")
    BY <1>9 DEF OpenCopy
  <2> HIDE DEF n
  <2>3. move' = [move EXCEPT ![t] = "writing"] /\ from' = from
    BY <2>2 DEF TaskStep
  <2>4. /\ \A u \in Task \ {t} :
              move'[u] = move[u] /\ from'[u] = from[u] /\ file'[u] = file[u]
        /\ move'[t] = "writing" /\ from'[t] = from[t] /\ file'[t] = n
    BY <2>2, <2>3
  <2>5. UNCHANGED <<moveMethod, rename, linkable, phase, list, rest, result, attempt,
                    lateRemoval, overlapped, collided>>
    BY <2>2 DEF TaskStep, fixedVars, callVars, historyVars
  <2> QED
    BY <1>1, <1>2, <1>3, <2>1, <2>2, <2>4, <2>5
<1>10. CASE WriteCopy(t) \/ CopyFails(t)
  BY <1>1, <1>2, <1>3, <1>5, <1>10 DEF WriteCopy, CopyFails
<1> QED
  BY <1>6, <1>7, <1>8, <1>9, <1>10 DEF Move

\* A step of a task keeps what IInv says of calls and tasks, whatever it does to files.
LEMMA MoveKeepsTasks ==
  ASSUME IInv, NEW t \in Task, Move(t),
         root' \in BOOLEAN, jail' \in [Inner -> Inode \union {None}],
         data' \in [Inode -> Contents],
         root' \/ \A i \in Inner : jail'[i] = None
  PROVE  /\ TypeOK' /\ ListBeforeRest' /\ ResultsAfterCalls' /\ CollisionsSeen'
         /\ TasksOfCalls' /\ Quiet' /\ MethodsApart'
         /\ JailHoldsResources' /\ HardLinkDetectsCollisions' /\ CleanupLeavesNothing'
<1> USE DEF IInv
<1>1. /\ t \in Alive /\ from[t] \in Outer
      /\ UNCHANGED <<moveMethod, rename, linkable, phase, list, rest, result, attempt,
                     lateRemoval, overlapped, collided>>
      /\ \A u \in Task \ {t} :
            move'[u] = move[u] /\ from'[u] = from[u] /\ file'[u] = file[u]
      /\ file'[t] \in Inode \union {None}
  BY MoveFacts
<1>2. \/ /\ move'[t] \in {"linking", "copying", "writing"}
         /\ from'[t] = from[t]
         /\ file'[t] # None <=> move'[t] = "writing"
      \/ /\ move'[t] \in {"ok", "failed"} /\ phase = "moving" /\ t \in Current
         /\ from'[t] = None /\ file'[t] = None
      \/ move'[t] = "none" /\ from'[t] = None /\ file'[t] = None
  BY MoveFacts
<1>3. /\ moveMethod = "Copy" => move'[t] # "linking"
      /\ moveMethod = "HardLink" => move'[t] \notin {"copying", "writing"}
  BY MoveFacts
<1>4. Alive' \subseteq Alive /\ Current' = Current /\ Spawned' = Spawned
  BY <1>1 DEF Alive, Current, Spawned
<1>5. ~overlapped => result \notin {"prepared", "cleaned", "uncleaned"}
  BY <1>1 DEF Quiet
<1>6. TypeOK'
  <2>1. /\ move' \in [Task -> {"none", "queued", "linking", "copying", "writing", "ok", "failed"}]
        /\ from' \in [Task -> Outer \union {None}]
        /\ file' \in [Task -> Inode \union {None}]
    <3>1. \A u \in Task :
            /\ move'[u] \in {"none", "queued", "linking", "copying", "writing", "ok", "failed"}
            /\ from'[u] \in Outer \union {None}
            /\ file'[u] \in Inode \union {None}
      BY <1>1, <1>2 DEF TypeOK
    <3>2. /\ move' = [u \in Task |-> move'[u]] /\ from' = [u \in Task |-> from'[u]]
          /\ file' = [u \in Task |-> file'[u]]
      BY DEF Move, StartMove, Link, LinkFails, OpenCopy, WriteCopy, CopyFails, TaskStep, TaskEnd,
             TypeOK
    <3> QED
      BY <3>1, <3>2
  <2> QED
    BY <1>1, <2>1 DEF TypeOK
<1>7. ListBeforeRest' /\ ResultsAfterCalls' /\ CollisionsSeen'
  BY <1>1, <1>4 DEF ListBeforeRest, ResultsAfterCalls, CollisionsSeen, Collide
<1>8. TasksOfCalls'
  <2> SUFFICES ASSUME NEW u \in Task
               PROVE  /\ move'[u] # "none" => u[1] <= attempt
                      /\ move'[u] # "none" /\ u[1] = attempt => u[2] <= Spawned /\ phase # "clear"
                      /\ u \in Alive' => from'[u] \in Outer /\ rename[from'[u]] # None
                      /\ u \in Alive' /\ u[1] = attempt => from'[u] = list[u[2]]
                      /\ move'[u] \in {"ok", "failed"} => phase = "moving" /\ u \in Current
                      /\ file'[u] # None <=> move'[u] = "writing"
    BY <1>1, <1>4 DEF TasksOfCalls
  <2>1. CASE u = t
    <3>1. /\ t[1] <= attempt
          /\ t[1] = attempt => t[2] <= Spawned /\ phase # "clear" /\ from[t] = list[t[2]]
          /\ rename[from[t]] # None
      BY <1>1 DEF TasksOfCalls, Alive
    <3>2. t \in Alive' => move'[t] \in {"queued", "linking", "copying", "writing"}
      BY DEF Alive
    <3> QED
      BY <1>1, <1>2, <2>1, <3>1, <3>2
  <2>2. CASE u # t
    <3>1. move'[u] = move[u] /\ from'[u] = from[u] /\ file'[u] = file[u]
      BY <1>1, <2>2
    <3>2. u \in Alive' <=> u \in Alive
      BY <3>1 DEF Alive
    <3> QED
      BY <3>1, <3>2 DEF TasksOfCalls
  <2> QED
    BY <2>1, <2>2
<1>9. Quiet'
  BY <1>1, <1>4, <1>5 DEF Quiet
<1>10. MethodsApart'
  BY <1>1, <1>3 DEF MethodsApart
<1>11. JailHoldsResources' /\ HardLinkDetectsCollisions' /\ CleanupLeavesNothing'
  BY <1>1, <1>5 DEF JailHoldsResources, HardLinkDetectsCollisions, CleanupLeavesNothing
<1> QED
  BY <1>6, <1>7, <1>8, <1>9, <1>10, <1>11

\* The tasks of the last call, as long as calls do not overlap: where they move what.
LEMMA TargetsOfCall ==
  ASSUME IInv, ~overlapped, NEW t \in Alive
  PROVE  /\ t \in Task /\ t[1] = attempt /\ t[2] \in 1..Spawned
         /\ from[t] = list[t[2]] /\ Target(t) = rename[list[t[2]]]
<1>1. t \in Task /\ move[t] # "none" /\ t[1] = attempt
  BY DEF Alive, IInv, Quiet
<1>2. t[2] <= Spawned /\ from[t] = list[t[2]]
  BY <1>1 DEF IInv, TasksOfCalls
<1>3. t[2] \in Nat /\ t[2] >= 1
  BY <1>1, TaskPairs, BoundsAssumption
<1>4. Spawned \in Nat
  BY ListsAreSequences DEF Spawned, IInv, TypeOK, ListBeforeRest
<1> QED
  BY <1>1, <1>2, <1>3, <1>4 DEF Target

\* No two of them have one inner path, unless the list has a collision.
LEMMA TargetsApart ==
  ASSUME IInv, Undisturbed, NEW t \in Task, NEW u \in Task, t # u,
         t \in Alive \/ move[t] = "ok", u \in Alive \/ move[u] = "ok"
  PROVE  rename[list[t[2]]] # rename[list[u[2]]]
<1>1. ASSUME NEW w \in Task, w \in Alive \/ move[w] = "ok"
      PROVE  w[1] = attempt /\ w[2] \in DOMAIN list
  <2>1. list \in Seq(Outer) /\ Len(list) \in Nat /\ DOMAIN list = 1..Len(list)
    BY ListsAreSequences DEF IInv, TypeOK
  <2>2. CASE w \in Alive
    <3>1. w[1] = attempt /\ w[2] \in 1..Spawned
      BY <2>2, TargetsOfCall DEF Undisturbed
    <3>2. Spawned <= Len(list) /\ Spawned \in Nat
      BY <2>1 DEF Spawned, IInv, TypeOK, ListBeforeRest
    <3> QED
      BY <2>1, <3>1, <3>2
  <2>3. CASE move[w] = "ok"
    <3>1. w[1] = attempt /\ w[2] <= Len(list)
      BY <2>3 DEF IInv, TasksOfCalls, Current
    <3>2. w[2] \in Nat /\ w[2] >= 1
      BY TaskPairs, BoundsAssumption
    <3> QED
      BY <2>1, <3>1, <3>2
  <2> QED
    BY <1>1, <2>2, <2>3
<1>2. t[2] # u[2]
  BY <1>1, TaskPairs
<1> QED
  BY <1>1, <1>2 DEF IInv, CollisionsSeen, Collide, Undisturbed

\* Its inner path is not that of another task that is alive or done.
LEMMA OthersElsewhere ==
  ASSUME IInv, Undisturbed, NEW t \in Alive, NEW u \in Task, u # t,
         u \in Alive \/ move[u] = "ok"
  PROVE  /\ rename[list[u[2]]] # Target(t)
         /\ u \in Alive => Target(u) \in Inner /\ Target(u) # Target(t)
<1>1. t \in Task
  BY DEF Alive
<1>2. rename[list[u[2]]] # rename[list[t[2]]]
  BY <1>1, TargetsApart
<1>3. Target(t) = rename[list[t[2]]]
  BY TargetsOfCall DEF Undisturbed
<1>4. u \in Alive => Target(u) = rename[list[u[2]]]
  BY TargetsOfCall DEF Undisturbed
<1>5. u \in Alive => Target(u) \in Inner
  BY DEF IInv, TasksOfCalls, TypeOK, Target
<1> QED
  BY <1>2, <1>3, <1>4, <1>5

-----------------------------------------------------------------------------
\* A step of a task that changes no file, but may create a directory, keeps IInv.
LEMMA NoFileChangedKeeps ==
  ASSUME IInv, NEW t \in Task, Move(t), move'[t] # "ok",
         jail' = jail, data' = data, root' \in BOOLEAN, root => root',
         file'[t] \in {file[t], None},
         move'[t] \in Unopened => move[t] \in Unopened,
         move'[t] # "writing"
  PROVE  IInv'
<1> USE DEF IInv
<1>1. /\ t \in Alive
      /\ UNCHANGED <<moveMethod, rename, linkable, phase, list, rest, result, attempt,
                     lateRemoval, overlapped, collided>>
      /\ \A u \in Task \ {t} :
            move'[u] = move[u] /\ from'[u] = from[u] /\ file'[u] = file[u]
  BY MoveFacts
<1>2. move'[t] \in Unopened => from'[t] = from[t]
  <2>1. move'[t] \in {"linking", "copying", "writing"} => from'[t] = from[t]
    BY MoveFacts
  <2>2. move'[t] # "queued"
    BY MoveFacts
  <2> QED
    BY <2>1, <2>2 DEF Unopened
<1>3. root' \/ \A i \in Inner : jail'[i] = None
  BY DEF TypeOK
<1>4. jail' \in [Inner -> Inode \union {None}] /\ data' \in [Inode -> Contents]
  BY DEF TypeOK
<1>5. Spawned' = Spawned
  BY <1>1 DEF Spawned
<1>6. CopiesAreCopies' /\ SourcesIntact' /\ JailBySpawned'
  BY <1>1, <1>5 DEF CopiesAreCopies, SourcesIntact, JailBySpawned
<1>7. NoSourceOpen'
  BY <1>1, NoneAssumption DEF NoSourceOpen, Undisturbed
<1>8. PathsFree'
  <2> SUFFICES ASSUME Undisturbed, NEW u \in Task, move'[u] \in Unopened
               PROVE  jail[rename[from'[u]]] = None
    BY <1>1 DEF PathsFree, Undisturbed, Unopened, Target
  <2>1. move[u] \in Unopened /\ from'[u] = from[u]
    BY <1>1, <1>2
  <2> QED
    BY <2>1 DEF PathsFree, Target
<1>9. CopiesInPlace' /\ MovedInPlace' /\ LinksApart'
  <2>1. \A u \in Task : (move'[u] = "writing" \/ move'[u] = "ok") => u # t
    OBVIOUS
  <2>2. CopiesInPlace'
    BY <1>1, <2>1 DEF CopiesInPlace, Undisturbed, Target
  <2>3. MovedInPlace' /\ LinksApart'
    BY <1>1, <2>1 DEF MovedInPlace, LinksApart, Undisturbed
  <2> QED
    BY <2>2, <2>3
<1> QED
  BY <1>3, <1>4, <1>6, <1>7, <1>8, <1>9, MoveKeepsTasks

\* So do the start of a task and its failures.
LEMMA StartOrFailKeeps ==
  ASSUME IInv, NEW t \in Task, StartMove(t) \/ LinkFails(t) \/ CopyFails(t)
  PROVE  IInv'
<1>1. CASE StartMove(t)
  <2>1. /\ move[t] = "queued" /\ move' = [move EXCEPT ![t] = IF moveMethod = "Copy" THEN "copying"
                                                             ELSE "linking"]
        /\ root' = TRUE /\ jail' = jail /\ data' = data /\ file' = file
    BY <1>1 DEF StartMove, TaskStep
  <2>2. move'[t] \in {"linking", "copying"}
    BY <2>1 DEF IInv, TypeOK
  <2> QED
    BY <1>1, <2>1, <2>2, NoFileChangedKeeps DEF Move, Unopened
<1>2. CASE LinkFails(t)
  <2>1. /\ move[t] = "linking" /\ root' = root /\ jail' = jail /\ data' = data
        /\ move'[t] \in {"failed", "none", "copying"}
        /\ file'[t] \in {file[t], None}
    BY <1>2 DEF LinkFails, TaskStep, TaskEnd, fsVars, IInv, TypeOK
  <2> QED
    BY <1>2, <2>1, NoFileChangedKeeps DEF Move, Unopened, IInv, TypeOK
<1>3. CASE CopyFails(t)
  <2>1. /\ root' = root /\ jail' = jail /\ data' = data
        /\ move'[t] \in {"failed", "none"}
        /\ file'[t] = None
    BY <1>3 DEF CopyFails, TaskEnd, fsVars, IInv, TypeOK
  <2> QED
    BY <1>3, <2>1, NoFileChangedKeeps DEF Move, Unopened, IInv, TypeOK
<1> QED
  BY <1>1, <1>2, <1>3

\* A hard link keeps IInv.
LEMMA LinkKeeps ==
  ASSUME IInv, NEW t \in Task, Link(t)
  PROVE  IInv'
<1> USE DEF IInv
<1>0. Move(t)
  BY DEF Move
<1>1. /\ t \in Alive /\ from[t] \in Outer /\ Target(t) \in Inner
      /\ UNCHANGED <<moveMethod, rename, linkable, phase, list, rest, result, attempt,
                     lateRemoval, overlapped, collided>>
      /\ \A u \in Task \ {t} :
            move'[u] = move[u] /\ from'[u] = from[u] /\ file'[u] = file[u]
  BY <1>0, MoveFacts
<1>2. /\ move[t] = "linking" /\ root /\ jail[Target(t)] = None
      /\ jail' = [jail EXCEPT ![Target(t)] = from[t]]
      /\ root' = root /\ data' = data
  BY DEF Link, CanLink
<1>3. move'[t] \in {"ok", "none"} /\ file'[t] = None
  BY DEF Link, TaskEnd, TypeOK
<1>4. moveMethod # "Copy"
  BY <1>2 DEF MethodsApart
<1>5. /\ jail'[Target(t)] = from[t]
      /\ \A i \in Inner : i # Target(t) => jail'[i] = jail[i]
      /\ jail' \in [Inner -> Inode \union {None}]
  BY <1>1, <1>2 DEF TypeOK, Inode
<1>6. from[t] # None
  BY <1>1, NoneAssumption
<1>7. Spawned' = Spawned
  BY <1>1 DEF Spawned
<1>8. CopiesAreCopies' /\ SourcesIntact'
  BY <1>1, <1>2, <1>4 DEF CopiesAreCopies, SourcesIntact
<1>9. NoSourceOpen'
  BY <1>1, <1>3, NoneAssumption DEF NoSourceOpen, Undisturbed
<1>10. JailBySpawned'
  <2> SUFFICES ASSUME ~overlapped, phase = "moving", NEW i \in Inner, jail'[i] # None
               PROVE  \E k \in 1..Spawned : rename[list[k]] = i
    BY <1>1, <1>7 DEF JailBySpawned
  <2>1. CASE i = Target(t)
    BY <1>1, <2>1, TargetsOfCall
  <2>2. CASE i # Target(t)
    BY <1>5, <2>2 DEF JailBySpawned
  <2> QED
    BY <2>1, <2>2
<1>11. PathsFree'
  <2> SUFFICES ASSUME Undisturbed, NEW u \in Task, move'[u] \in Unopened
               PROVE  jail'[rename[from'[u]]] = None
    BY <1>1 DEF PathsFree, Undisturbed, Unopened, Target
  <2>1. u # t
    BY <1>3 DEF Unopened
  <2>2. move[u] \in Unopened /\ from'[u] = from[u] /\ u \in Alive
    BY <1>1, <2>1 DEF Unopened, Alive
  <2>3. Target(u) # Target(t) /\ Target(u) \in Inner
    BY <1>1, <2>1, <2>2, OthersElsewhere
  <2> QED
    BY <1>5, <2>2, <2>3 DEF PathsFree, Target
<1>12. CopiesInPlace'
  <2> SUFFICES ASSUME Undisturbed, phase = "moving", NEW u \in Task, move'[u] = "writing"
               PROVE  file'[u] = u /\ jail'[rename[from'[u]]] = u /\ data[u] = "truncated"
    BY <1>1, <1>2 DEF CopiesInPlace, Undisturbed, Target
  <2>1. u # t
    BY <1>3
  <2>2. move[u] = "writing" /\ from'[u] = from[u] /\ file'[u] = file[u] /\ u \in Alive
    BY <1>1, <2>1 DEF Alive
  <2>3. Target(u) # Target(t) /\ Target(u) \in Inner
    BY <1>1, <2>1, <2>2, OthersElsewhere
  <2> QED
    BY <1>5, <2>2, <2>3 DEF CopiesInPlace, Target
<1>13. MovedInPlace'
  <2> SUFFICES ASSUME Undisturbed, phase = "moving", NEW u \in Task, move'[u] = "ok"
               PROVE  /\ jail'[rename[list[u[2]]]] \in {u, list[u[2]]}
                      /\ data[jail'[rename[list[u[2]]]]] = list[u[2]]
    BY <1>1, <1>2 DEF MovedInPlace, Undisturbed
  <2>1. CASE u = t
    <3>1. from[t] = list[t[2]] /\ Target(t) = rename[list[t[2]]]
      BY <1>1, TargetsOfCall DEF Undisturbed
    <3>2. data[from[t]] = from[t]
      BY <1>1 DEF SourcesIntact, Undisturbed
    <3> QED
      BY <1>5, <2>1, <3>1, <3>2
  <2>2. CASE u # t
    <3>1. move[u] = "ok"
      BY <1>1, <2>2
    <3>2. rename[list[u[2]]] # Target(t)
      BY <1>1, <2>2, <3>1, OthersElsewhere
    <3>3. jail'[rename[list[u[2]]]] = jail[rename[list[u[2]]]]
      BY <1>2, <3>2 DEF TypeOK
    <3> QED
      BY <3>1, <3>3 DEF MovedInPlace
  <2> QED
    BY <2>1, <2>2
<1>14. LinksApart'
  <2> SUFFICES ASSUME ~overlapped, phase = "moving", moveMethod = "HardLink"
               PROVE  \A u \in Task : move'[u] = "ok" =>
                        /\ jail'[rename[list[u[2]]]] # None
                        /\ \A w \in Task : move'[w] = "ok"
                              /\ rename[list[w[2]]] = rename[list[u[2]]] => w = u
    BY <1>1 DEF LinksApart
  <2>1. Target(t) = rename[list[t[2]]]
    BY <1>1, TargetsOfCall
  <2>2. \A u \in Task : u # t /\ move'[u] = "ok" =>
           move[u] = "ok" /\ jail[rename[list[u[2]]]] # None
    BY <1>1 DEF LinksApart
  <2>3. \A u \in Task : u # t /\ move'[u] = "ok" => rename[list[u[2]]] # Target(t)
    BY <1>2, <2>2
  <2>4. \A u \in Task : u # t /\ move'[u] = "ok" => jail'[rename[list[u[2]]]] # None
    BY <1>2, <2>2, <2>3 DEF TypeOK
  <2>5. \A u, w \in Task : /\ u # t /\ w # t /\ move'[u] = "ok" /\ move'[w] = "ok"
                           /\ rename[list[w[2]]] = rename[list[u[2]]]
                           => w = u
    BY <2>2 DEF LinksApart
  <2> QED
    BY <1>5, <1>6, <2>1, <2>3, <2>4, <2>5
<1>15. root' \/ \A i \in Inner : jail'[i] = None
  BY <1>2
<1> QED
  BY <1>0, <1>2, <1>5, <1>8, <1>9, <1>10, <1>11, <1>12, <1>13, <1>14, <1>15, MoveKeepsTasks
     DEF TypeOK

\* The opening of a copy keeps IInv: what it truncates is its own file, or no resource.
LEMMA OpenCopyKeeps ==
  ASSUME IInv, NEW t \in Task, OpenCopy(t)
  PROVE  IInv'
<1> USE DEF IInv
<1> DEFINE n == IF jail[Target(t)] = None THEN t ELSE jail[Target(t)]
<1>0. Move(t)
  BY DEF Move
<1>1. /\ t \in Alive /\ Target(t) \in Inner
      /\ UNCHANGED <<moveMethod, rename, linkable, phase, list, rest, result, attempt,
                     lateRemoval, overlapped, collided>>
      /\ \A u \in Task \ {t} :
            move'[u] = move[u] /\ from'[u] = from[u] /\ file'[u] = file[u]
  BY <1>0, MoveFacts
<1>2. /\ move[t] = "copying" /\ root /\ root' = root
      /\ jail' = [jail EXCEPT ![Target(t)] = n]
      /\ file' = [file EXCEPT ![t] = n]
      /\ data' = [data EXCEPT ![n] = "truncated"]
      /\ move' = [move EXCEPT ![t] = "writing"]
      /\ from' = from
  BY DEF OpenCopy, TaskStep
<1>3. moveMethod # "HardLink"
  BY <1>2 DEF MethodsApart
<1>4. n \in Inode /\ n # None
  BY <1>1, DistinctAssumption DEF Inode, TypeOK
<1>5. t \notin Outer /\ t # None
  BY DistinctAssumption
<1>6. Undisturbed => n = t
  BY <1>2 DEF PathsFree, Unopened
<1>7. moveMethod = "Copy" => n \notin Outer
  BY <1>1, <1>5 DEF CopiesAreCopies
<1> HIDE DEF n
<1>8. /\ jail'[Target(t)] = n
      /\ \A i \in Inner : i # Target(t) => jail'[i] = jail[i]
      /\ jail' \in [Inner -> Inode \union {None}]
      /\ file'[t] = n /\ move'[t] = "writing"
  BY <1>1, <1>2, <1>4 DEF TypeOK
<1>9. /\ data'[n] = "truncated"
      /\ \A m \in Inode : m # n => data'[m] = data[m]
      /\ data' \in [Inode -> Contents]
  <2>1. "truncated" \in Contents
    BY DEF Contents
  <2> QED
    BY <1>2, <1>4, <2>1 DEF TypeOK
<1>10. moveMethod # "HardLinkWithCopyFallback" \/ Undisturbed => n \notin Outer
  BY <1>3, <1>5, <1>6, <1>7 DEF TypeOK, JailMoveMethod
<1>11. Spawned' = Spawned
  BY <1>1 DEF Spawned
<1>12. CopiesAreCopies'
  BY <1>1, <1>7, <1>8 DEF CopiesAreCopies
<1>13. SourcesIntact'
  BY <1>1, <1>9, <1>10 DEF SourcesIntact, Undisturbed, Inode
<1>14. NoSourceOpen'
  BY <1>1, <1>8, <1>10 DEF NoSourceOpen, Undisturbed
<1>15. JailBySpawned'
  <2> SUFFICES ASSUME ~overlapped, phase = "moving", NEW i \in Inner, jail'[i] # None
               PROVE  \E k \in 1..Spawned : rename[list[k]] = i
    BY <1>1, <1>11 DEF JailBySpawned
  <2>1. CASE i = Target(t)
    BY <1>1, <2>1, TargetsOfCall
  <2>2. CASE i # Target(t)
    BY <1>8, <2>2 DEF JailBySpawned
  <2> QED
    BY <2>1, <2>2
<1>16. PathsFree'
  <2> SUFFICES ASSUME Undisturbed, NEW u \in Task, move'[u] \in Unopened
               PROVE  jail'[rename[from[u]]] = None
    BY <1>1, <1>2 DEF PathsFree, Undisturbed, Unopened, Target
  <2>1. u # t
    BY <1>8 DEF Unopened
  <2>2. move[u] \in Unopened /\ u \in Alive
    BY <1>1, <2>1 DEF Unopened, Alive
  <2>3. Target(u) # Target(t) /\ Target(u) \in Inner
    BY <1>1, <2>1, <2>2, OthersElsewhere
  <2> QED
    BY <1>8, <2>2, <2>3 DEF PathsFree, Target
<1>17. CopiesInPlace'
  <2> SUFFICES ASSUME Undisturbed, phase = "moving", NEW u \in Task, move'[u] = "writing"
               PROVE  file'[u] = u /\ jail'[rename[from[u]]] = u /\ data'[u] = "truncated"
    BY <1>1, <1>2 DEF CopiesInPlace, Undisturbed, Target
  <2>1. CASE u = t
    BY <1>6, <1>8, <1>9, <2>1 DEF Target
  <2>2. CASE u # t
    <3>1. move[u] = "writing" /\ file'[u] = file[u] /\ u \in Alive
      BY <1>1, <2>2 DEF Alive
    <3>2. Target(u) # Target(t) /\ Target(u) \in Inner
      BY <1>1, <2>2, <3>1, OthersElsewhere
    <3>3. data'[u] = data[u]
      BY <1>6, <1>9, <2>2 DEF Inode
    <3> QED
      BY <1>8, <3>1, <3>2, <3>3 DEF CopiesInPlace, Target
  <2> QED
    BY <2>1, <2>2
<1>18. MovedInPlace'
  <2> SUFFICES ASSUME Undisturbed, phase = "moving", NEW u \in Task, move'[u] = "ok"
               PROVE  /\ jail'[rename[list[u[2]]]] \in {u, list[u[2]]}
                      /\ data'[jail'[rename[list[u[2]]]]] = list[u[2]]
    BY <1>1 DEF MovedInPlace, Undisturbed
  <2>1. u # t /\ move[u] = "ok"
    BY <1>1, <1>8
  <2>2. rename[list[u[2]]] # Target(t)
    BY <1>1, <2>1, OthersElsewhere
  <2>3. jail'[rename[list[u[2]]]] = jail[rename[list[u[2]]]]
    BY <1>2, <2>2 DEF TypeOK
  <2>4. /\ jail[rename[list[u[2]]]] \in {u, list[u[2]]}
        /\ data[jail[rename[list[u[2]]]]] = list[u[2]]
    BY <2>1 DEF MovedInPlace
  <2>5. list[u[2]] \in Outer
    <3>1. u \in Current /\ list \in Seq(Outer) /\ u[2] \in Nat /\ u[2] >= 1
      BY <2>1, ListsAreSequences, TaskPairs, BoundsAssumption DEF TypeOK, TasksOfCalls
    <3> QED
      BY <3>1 DEF Current
  <2>6. jail[rename[list[u[2]]]] # n /\ jail[rename[list[u[2]]]] \in Inode
    BY <1>5, <1>6, <2>1, <2>4, <2>5 DEF Inode
  <2> QED
    BY <1>9, <2>3, <2>4, <2>6
<1>19. LinksApart'
  BY <1>1, <1>3 DEF LinksApart
<1>20. root' \/ \A i \in Inner : jail'[i] = None
  BY <1>2
<1> QED
  BY <1>0, <1>2, <1>8, <1>9, <1>12, <1>13, <1>14, <1>15, <1>16, <1>17, <1>18, <1>19, <1>20,
     MoveKeepsTasks DEF TypeOK

\* The end of a copy keeps IInv: what it writes to is its own file, or no resource.
LEMMA WriteCopyKeeps ==
  ASSUME IInv, NEW t \in Task, WriteCopy(t)
  PROVE  IInv'
<1> USE DEF IInv
<1> DEFINE c == Written(data[file[t]], data[from[t]])
<1>0. Move(t)
  BY DEF Move
<1>1. /\ t \in Alive /\ from[t] \in Outer /\ Target(t) \in Inner
      /\ UNCHANGED <<moveMethod, rename, linkable, phase, list, rest, result, attempt,
                     lateRemoval, overlapped, collided>>
      /\ \A u \in Task \ {t} :
            move'[u] = move[u] /\ from'[u] = from[u] /\ file'[u] = file[u]
  BY <1>0, MoveFacts
<1>2. /\ move[t] = "writing" /\ root' = root /\ jail' = jail
      /\ data' = [data EXCEPT ![file[t]] = c]
  BY DEF WriteCopy
<1>3. move'[t] \in {"ok", "none"} /\ file'[t] = None
  BY DEF WriteCopy, TaskEnd, TypeOK
<1>4. file[t] \in Inode
  BY <1>2 DEF TypeOK, TasksOfCalls
<1>5. c \in Contents
  BY <1>1, <1>4 DEF Written, Contents, TypeOK, Inode
<1>6. t \notin Outer
  BY DistinctAssumption
<1> HIDE DEF c
<1>7. /\ data'[file[t]] = c
      /\ \A m \in Inode : m # file[t] => data'[m] = data[m]
      /\ data' \in [Inode -> Contents]
  BY <1>2, <1>4, <1>5 DEF TypeOK
<1>8. CopiesAreCopies' /\ JailBySpawned'
  BY <1>1, <1>2 DEF CopiesAreCopies, JailBySpawned, Spawned
<1>9. SourcesIntact'
  BY <1>1, <1>7 DEF SourcesIntact, NoSourceOpen, Undisturbed, Inode
<1>10. NoSourceOpen'
  BY <1>1, <1>3, NoneAssumption DEF NoSourceOpen, Undisturbed
<1>11. PathsFree'
  <2> SUFFICES ASSUME Undisturbed, NEW u \in Task, move'[u] \in Unopened
               PROVE  jail[rename[from'[u]]] = None
    BY <1>1, <1>2 DEF PathsFree, Undisturbed, Unopened, Target
  <2>1. move[u] \in Unopened /\ from'[u] = from[u]
    BY <1>1, <1>3 DEF Unopened
  <2> QED
    BY <2>1 DEF PathsFree, Target
<1>12. Undisturbed /\ phase = "moving" => file[t] = t /\ jail[Target(t)] = t
                                          /\ data[t] = "truncated"
  BY <1>2 DEF CopiesInPlace
<1>13. CopiesInPlace'
  <2> SUFFICES ASSUME Undisturbed, phase = "moving", NEW u \in Task, move'[u] = "writing"
               PROVE  file'[u] = u /\ jail[rename[from'[u]]] = u /\ data'[u] = "truncated"
    BY <1>1, <1>2 DEF CopiesInPlace, Undisturbed, Target
  <2>1. u # t
    BY <1>3
  <2>2. move[u] = "writing" /\ file'[u] = file[u] /\ from'[u] = from[u]
    BY <1>1, <2>1
  <2>3. data'[u] = data[u]
    BY <1>7, <1>12, <2>1 DEF Inode
  <2> QED
    BY <2>2, <2>3 DEF CopiesInPlace, Target
<1>14. MovedInPlace'
  <2> SUFFICES ASSUME Undisturbed, phase = "moving", NEW u \in Task, move'[u] = "ok"
               PROVE  /\ jail[rename[list[u[2]]]] \in {u, list[u[2]]}
                      /\ data'[jail[rename[list[u[2]]]]] = list[u[2]]
    BY <1>1, <1>2 DEF MovedInPlace, Undisturbed
  <2>1. CASE u = t
    <3>1. from[t] = list[t[2]] /\ Target(t) = rename[list[t[2]]]
      BY <1>1, TargetsOfCall DEF Undisturbed
    <3>2. data[from[t]] = from[t]
      BY <1>1 DEF SourcesIntact, Undisturbed
    <3>3. c = from[t]
      BY <1>12, <3>2 DEF c, Written
    <3> QED
      BY <1>7, <1>12, <2>1, <3>1, <3>3
  <2>2. CASE u # t
    <3>1. move[u] = "ok"
      BY <1>1, <2>2
    <3>2. /\ jail[rename[list[u[2]]]] \in {u, list[u[2]]}
          /\ data[jail[rename[list[u[2]]]]] = list[u[2]]
      BY <3>1 DEF MovedInPlace
    <3>3. list[u[2]] \in Outer
      <4>1. u \in Current /\ list \in Seq(Outer) /\ u[2] \in Nat /\ u[2] >= 1
        BY <3>1, ListsAreSequences, TaskPairs, BoundsAssumption DEF TypeOK, TasksOfCalls
      <4> QED
        BY <4>1 DEF Current
    <3>4. jail[rename[list[u[2]]]] # t /\ jail[rename[list[u[2]]]] \in Inode
      BY <1>6, <2>2, <3>2, <3>3 DEF Inode
    <3> QED
      BY <1>7, <1>12, <3>2, <3>4
  <2> QED
    BY <2>1, <2>2
<1>15. LinksApart'
  BY <1>1, <1>2 DEF LinksApart, MethodsApart
<1>16. root' \/ \A i \in Inner : jail'[i] = None
  BY <1>2 DEF TypeOK
<1> QED
  BY <1>0, <1>2, <1>7, <1>8, <1>9, <1>10, <1>11, <1>13, <1>14, <1>15, <1>16, MoveKeepsTasks
     DEF TypeOK

-----------------------------------------------------------------------------
\* Every step keeps IInv.
LEMMA NextIInv == IInv /\ [Next]_vars => IInv'
<1> SUFFICES ASSUME IInv, [Next]_vars
             PROVE  IInv'
  OBVIOUS
<1>1. CASE Prepare
  BY <1>1, PrepareKeeps
<1>2. CASE ClearJail
  BY <1>2, ClearJailKeeps
<1>3. CASE SpawnMove
  BY <1>3, SpawnMoveKeeps
<1>4. CASE ClearFails \/ SpawnFails \/ JoinAll \/ JoinFails \/ CleanupOk \/ CleanupFails \/ Cancel
  BY <1>4, CallEndsKeep
<1>5. ASSUME NEW t \in Task, Move(t)
      PROVE  IInv'
  <2>1. CASE StartMove(t) \/ LinkFails(t) \/ CopyFails(t)
    BY <2>1, StartOrFailKeeps
  <2>2. CASE Link(t)
    BY <2>2, LinkKeeps
  <2>3. CASE OpenCopy(t)
    BY <2>3, OpenCopyKeeps
  <2>4. CASE WriteCopy(t)
    BY <2>4, WriteCopyKeeps
  <2> QED
    BY <1>5, <2>1, <2>2, <2>3, <2>4 DEF Move
<1>6. CASE Cleanup
  BY <1>6, CleanupKeeps
<1>7. CASE LateRemove
  BY <1>7, LateRemoveKeeps
<1>8. CASE UNCHANGED vars
  BY <1>8
     DEF IInv, TypeOK, ListBeforeRest, Spawned, ResultsAfterCalls, CollisionsSeen, Collide,
         TasksOfCalls, Alive, Current, Quiet, MethodsApart, CopiesAreCopies, NoSourceOpen,
         Undisturbed, JailBySpawned, PathsFree, Target, CopiesInPlace, MovedInPlace, LinksApart,
         SourcesIntact, JailHoldsResources, HardLinkDetectsCollisions, CleanupLeavesNothing,
         vars, fixedVars, callVars, taskVars, fsVars, historyVars
<1> QED
  BY <1>1, <1>2, <1>3, <1>4, <1>5, <1>6, <1>7, <1>8 DEF Next

\* IInv is an invariant.
THEOREM InductiveInvariant == Spec => []IInv
BY InitIInv, NextIInv, PTL DEF Spec

-----------------------------------------------------------------------------
\* Type correctness.
THEOREM TypeCorrect == Spec => []TypeOK
<1>1. IInv => TypeOK
  BY DEF IInv
<1> QED
  BY <1>1, InductiveInvariant, PTL

\* A prepare that succeeds leaves every resource, complete, at its inner path, if it had
\* the jail to itself and inner paths differed.
THEOREM PreparedMeansComplete == Spec => []JailHoldsResources
<1>1. IInv => JailHoldsResources
  BY DEF IInv
<1> QED
  BY <1>1, InductiveInvariant, PTL

\* Copying and hard-linking leave the resources of the host as they are, whatever calls
\* overlap; with the fallback it takes that nothing is in the way of a link.
THEOREM ResourcesSurvive == Spec => []SourcesIntact
<1>1. IInv => SourcesIntact
  BY DEF IInv
<1> QED
  BY <1>1, InductiveInvariant, PTL

\* Two resources with one inner path are an error of hard-linking.
THEOREM HardLinkFindsCollisions == Spec => []HardLinkDetectsCollisions
<1>1. IInv => HardLinkDetectsCollisions
  BY DEF IInv
<1> QED
  BY <1>1, InductiveInvariant, PTL

\* After a cleanup the jail stays deleted.
THEOREM CleanedMeansGone == Spec => []CleanupLeavesNothing
<1>1. IInv => CleanupLeavesNothing
  BY DEF IInv
<1> QED
  BY <1>1, InductiveInvariant, PTL

\* Between a successful prepare and the next call the jail does not change.
THEOREM PreparedStaysPrepared == Spec => PreparedJailIsStable
<1>1. IInv /\ [Next]_vars =>
        [result = "prepared" /\ result' = "prepared" /\ ~overlapped => UNCHANGED fsVars]_vars
  <2> SUFFICES ASSUME IInv, Next, result = "prepared", result' = "prepared", ~overlapped
               PROVE  UNCHANGED fsVars
    OBVIOUS
  <2>1. phase = "none" /\ Alive = {} /\ ~lateRemoval
    BY DEF IInv, Quiet, ResultsAfterCalls
  <2>2. \A t \in Task : ~Move(t)
    BY <2>1, MoveFacts
  <2> QED
    BY <2>1, <2>2
       DEF Next, Prepare, ClearJail, ClearFails, SpawnMove, SpawnFails, JoinAll, JoinFails,
           Cleanup, CleanupOk, CleanupFails, Cancel, LateRemove
<1> QED
  BY <1>1, InductiveInvariant, PTL DEF Spec, PreparedJailIsStable

-----------------------------------------------------------------------------
(***************************************************************************)
(* The end of the loop over join_next.                                     *)
(***************************************************************************)

\* Each resource that the loop has passed has its task, until the call is over.
TasksSpawned ==
    /\ phase = "clear" => rest = list
    /\ phase = "moving" => \A t \in Task : t[1] = attempt /\ t[2] <= Spawned => move[t] # "none"

\* No task of the call in flight is lost: it is at work, or has left its result.
LEMMA TasksSpawnedStep ==
  ASSUME IInv, TasksSpawned, [Next]_vars
  PROVE  TasksSpawned'
<1> USE DEF TasksSpawned
<1>1. CASE phase' = "none" \/ phase' = "cleanup"
  BY <1>1
<1>2. CASE Prepare
  BY <1>2 DEF Prepare
<1>3. CASE ClearJail
  <2>1. phase' = "moving" /\ Spawned' = Len(list) - Len(list)
    BY <1>3 DEF ClearJail, Spawned
  <2>2. Len(list) \in Nat
    BY ListsAreSequences DEF IInv, TypeOK
  <2>3. \A t \in Task : ~(t[2] <= Spawned')
    BY <2>1, <2>2, TaskPairs, BoundsAssumption
  <2> QED
    BY <2>1, <2>3
<1>4. CASE SpawnMove
  <2> DEFINE p == <<attempt, Spawned + 1>>
  <2>1. /\ phase = "moving" /\ phase' = "moving" /\ attempt' = attempt
        /\ rest # << >> /\ rest' = Tail(rest) /\ list' = list
        /\ move' = [move EXCEPT ![p] = "queued"]
    BY <1>4 DEF SpawnMove, Spawned
  <2>2. /\ list \in Seq(Outer) /\ Len(list) \in 0..MaxPaths /\ rest \in Seq(Outer)
        /\ Len(rest) <= Len(list)
    BY ListsAreSequences DEF IInv, TypeOK, ListBeforeRest
  <2>3. Len(rest) \in Nat \ {0} /\ Len(rest') = Len(rest) - 1
    BY <2>1, <2>2
  <2>4. Spawned' = Spawned + 1 /\ Spawned + 1 \in 1..MaxPaths /\ Spawned \in Nat
    BY <2>1, <2>2, <2>3, BoundsAssumption DEF Spawned
  <2>5. attempt \in 1..Attempts /\ DOMAIN move = Task
    BY <2>1 DEF IInv, TypeOK, ResultsAfterCalls
  <2>6. p \in Task /\ p[1] = attempt /\ p[2] = Spawned + 1
    BY <2>4, <2>5, TaskPairs
  <2>7. ASSUME NEW t \in Task, t[1] = attempt, t[2] <= Spawned + 1
        PROVE  move'[t] # "none"
    <3>1. CASE t[2] = Spawned + 1
      <4>1. t = p
        BY <2>6, <2>7, <3>1, TaskPairs
      <4> QED
        BY <2>1, <2>5, <2>6, <4>1
    <3>2. CASE t[2] # Spawned + 1
      <4>1. t[2] <= Spawned /\ t # p
        BY <2>4, <2>6, <2>7, <3>2, TaskPairs
      <4> QED
        BY <2>1, <2>5, <2>7, <4>1
    <3> QED
      BY <3>1, <3>2
  <2> QED
    BY <2>1, <2>4, <2>7
<1>5. ASSUME NEW t \in Task, Move(t)
      PROVE  TasksSpawned'
  <2>1. UNCHANGED <<phase, list, rest, attempt>> /\ \A u \in Task \ {t} : move'[u] = move[u]
    BY <1>5, MoveFacts
  <2>2. Spawned' = Spawned
    BY <2>1 DEF Spawned
  <2>3. ASSUME phase = "moving", t[1] = attempt, t[2] <= Spawned
        PROVE  move'[t] # "none"
    <3>1. t \in Current
      <4>1. Len(rest) \in Nat /\ Len(list) \in Nat
        BY ListsAreSequences DEF IInv, TypeOK
      <4>2. t[2] <= Len(list)
        BY <2>3, <4>1, TaskPairs, BoundsAssumption DEF Spawned
      <4> QED
        BY <2>3, <4>2 DEF Current
    <3>2. t \in Alive /\ DOMAIN move = Task
      BY <1>5, MoveFacts DEF IInv, TypeOK
    <3> QED
      BY <1>5, <2>3, <3>1, <3>2 DEF Move, StartMove, Link, LinkFails, OpenCopy, WriteCopy,
           CopyFails, TaskStep, TaskEnd
  <2> QED
    BY <2>1, <2>2, <2>3
<1>6. CASE LateRemove \/ UNCHANGED vars
  BY <1>6 DEF LateRemove, vars, callVars, taskVars, Spawned
<1> QED
  BY <1>1, <1>2, <1>3, <1>4, <1>5, <1>6
  DEF Next, ClearFails, SpawnFails, JoinAll, JoinFails, Cleanup, CleanupOk, CleanupFails,
      Cancel, Return

\* When every task of a call has ended, however many there were and whatever became of them,
\* the loop ends: all have succeeded (JoinAll) or one has failed (JoinFails).  That is what
\* PrepareNeverStuck asks of the conditions of the code.
THEOREM PrepareReturnsAfterItsTasks ==
  Spec => [](phase = "moving" /\ rest = << >> /\ Current \intersect Alive = {}
               => \/ \A t \in Current : move[t] = "ok"
                  \/ \E t \in Current : move[t] = "failed")
<1>1. Init => TasksSpawned
  BY DEF Init, TasksSpawned
<1>2. IInv /\ TasksSpawned /\ [Next]_vars => TasksSpawned'
  BY TasksSpawnedStep
<1>3. IInv /\ TasksSpawned =>
        (phase = "moving" /\ rest = << >> /\ Current \intersect Alive = {}
           => \/ \A t \in Current : move[t] = "ok"
              \/ \E t \in Current : move[t] = "failed")
  <2> SUFFICES ASSUME IInv, TasksSpawned, phase = "moving", rest = << >>,
                      Current \intersect Alive = {}, NEW t \in Current
               PROVE  move[t] \in {"ok", "failed"}
    OBVIOUS
  <2>1. Len(list) \in Nat /\ Len(rest) = 0
    BY ListsAreSequences DEF IInv, TypeOK
  <2>2. Spawned = Len(list)
    BY <2>1 DEF Spawned
  <2>3. t \in Task /\ move[t] # "none"
    BY <2>2 DEF Current, TasksSpawned
  <2> QED
    BY <2>3 DEF Alive, IInv, TypeOK
<1> QED
  BY <1>1, <1>2, <1>3, InductiveInvariant, PTL DEF Spec

-----------------------------------------------------------------------------
(***************************************************************************)
(* The contract of VmmExecutor.                                            *)
(***************************************************************************)

\* An empty jail is there, too, and before the first call nothing is.
RootThere ==
    /\ ~overlapped /\ (phase = "moving" \/ result = "prepared") => root
    /\ phase = "none" /\ result = "none" => attempt = 0 /\ ~root /\ ~lateRemoval

\* Only an abandoned removal could take the root from a call, and there is none.
LEMMA RootStep ==
  ASSUME IInv, RootThere, [Next]_vars
  PROVE  RootThere'
<1> USE DEF RootThere, Return
<1>1. CASE Prepare \/ ClearJail \/ SpawnMove \/ Cleanup
  BY <1>1, BoundsAssumption
     DEF Prepare, ClearJail, SpawnMove, Cleanup, fsVars, historyVars, IInv, TypeOK
<1>2. CASE ClearFails \/ SpawnFails \/ JoinFails \/ CleanupOk \/ CleanupFails \/ Cancel
  BY <1>2 DEF ClearFails, SpawnFails, JoinFails, CleanupOk, CleanupFails, Cancel
<1>3. CASE JoinAll
  BY <1>3 DEF JoinAll, fsVars, historyVars
<1>4. ASSUME NEW t \in Task, Move(t)
      PROVE  RootThere'
  <2>1. root' \in {root, TRUE}
    BY <1>4 DEF Move, StartMove, Link, LinkFails, OpenCopy, WriteCopy, CopyFails, fsVars
  <2>2. ~(phase = "none" /\ result = "none")
    BY <1>4, MoveFacts, TaskPairs, BoundsAssumption
       DEF Alive, IInv, TypeOK, TasksOfCalls
  <2>3. UNCHANGED <<phase, result, overlapped>>
    BY <1>4, MoveFacts
  <2> QED
    BY <2>1, <2>2, <2>3
<1>5. CASE LateRemove
  BY <1>5 DEF LateRemove, callVars, historyVars, IInv, Quiet, ResultsAfterCalls
<1>6. CASE UNCHANGED vars
  BY <1>6 DEF vars, callVars, fsVars, historyVars
<1> QED
  BY <1>1, <1>2, <1>3, <1>4, <1>5, <1>6 DEF Next

\* An undisturbed step is a step of the contract, or one that nobody sees.
LEMMA ContractStep ==
  ASSUME IInv, RootThere, IInv', RootThere', [Next]_vars
  PROVE  Contract!Next \/ UNCHANGED Contract!contractVars
<1> DEFINE Ok == result \in {"prepared", "cleaned", "uncleaned"}
<1>1. CASE ~Undisturbed'
  BY <1>1 DEF Undisturbed, Contract!Next
<1>2. CASE Undisturbed'
  <2>1. Undisturbed
    <3>1. CASE Prepare
      <4>1. /\ overlapped' = (overlapped \/ Alive # {} \/ lateRemoval)
            /\ collided' = (collided \/ Collide(list'))
        BY <3>1 DEF Prepare
      <4> QED
        BY ONLY <4>1, <1>2 DEF Undisturbed
    <3>2. CASE \E t \in Task : Move(t)
      BY <1>2, <3>2, MoveFacts DEF Undisturbed
    <3>3. CASE UNCHANGED historyVars
      BY <1>2, <3>3 DEF Undisturbed, historyVars
    <3>4. CASE ~Prepare /\ ~\E t \in Task : Move(t)
      <4>1. UNCHANGED historyVars
        BY <3>4 DEF Next, ClearJail, ClearFails, SpawnMove, SpawnFails, JoinAll, JoinFails,
                    Cleanup, CleanupOk, CleanupFails, Cancel, LateRemove, Return, vars
      <4> QED
        BY <4>1, <3>3
    <3> QED
      BY <3>1, <3>2, <3>4
  <2>2. result # "none" => phase = "none"
    BY DEF IInv, ResultsAfterCalls
  <2> USE DEF Environment, Undisturbed, Return
  <2>3. CASE Prepare
    <3>1. Contract!Prepare
      BY <2>3 DEF Prepare, Contract!Prepare, Contract!Touched
    <3> QED
      BY <3>1, <2>1, <1>2 DEF Contract!Next, Contract!Honour
  <2>4. CASE ClearJail \/ SpawnMove
    BY <2>4, <2>1, <1>2 DEF ClearJail, SpawnMove, Contract!contractVars, historyVars
  <2>5. CASE ClearFails \/ SpawnFails \/ JoinFails \/ CleanupFails \/ Cancel
    <3>1. Contract!Fail
      BY <2>2, <2>5 DEF ClearFails, SpawnFails, JoinFails, CleanupFails, Cancel, Contract!Fail,
                        Contract!Touched, IInv, TypeOK
    <3> QED
      BY <3>1, <2>1, <1>2 DEF Contract!Next, Contract!Honour
  <2>6. CASE JoinAll
    <3>1. phase = "moving" /\ phase' = "none" /\ result' = "prepared"
      BY <2>6 DEF JoinAll
    <3>2. root' /\ \A k \in DOMAIN list' : /\ jail'[rename'[list'[k]]] # None
                                           /\ data'[jail'[rename'[list'[k]]]] = list'[k]
      BY <1>2, <3>1 DEF RootThere, IInv, JailHoldsResources
    <3>3. Contract!PrepareOk
      BY <3>1, <3>2, <2>2 DEF Contract!PrepareOk
    <3> QED
      BY <3>3, <2>1, <1>2 DEF Contract!Next, Contract!Honour
  <2>7. ASSUME NEW t \in Task, Move(t)
        PROVE  UNCHANGED Contract!contractVars
    <3>1. UNCHANGED <<phase, result, overlapped, collided>>
      BY <2>7, MoveFacts
    <3>2. phase # "none" \/ result = "failed"
      <4>1. t \in Alive /\ ~(phase = "none" /\ result = "none")
        BY <2>7, MoveFacts, TaskPairs, BoundsAssumption
           DEF Alive, RootThere, IInv, TypeOK, TasksOfCalls
      <4> QED
        BY <4>1, <2>1 DEF IInv, TypeOK, Quiet
    <3> QED
      BY <3>1, <3>2 DEF Contract!contractVars
  <2>8. CASE Cleanup
    <3>1. Contract!Cleanup
      BY <2>8 DEF Cleanup, Contract!Cleanup, Contract!Touched
    <3> QED
      BY <3>1, <2>1, <1>2 DEF Contract!Next, Contract!Honour
  <2>9. CASE CleanupOk
    <3>1. Contract!CleanupOk
      BY <2>9, <2>2 DEF CleanupOk, Contract!CleanupOk
    <3> QED
      BY <3>1, <2>1, <1>2 DEF Contract!Next, Contract!Honour
  <2>10. CASE LateRemove
    <3>1. UNCHANGED <<phase, result, overlapped, collided>> /\ lateRemoval
      BY <2>10 DEF LateRemove, callVars, historyVars
    <3>2. phase # "none" \/ result \in {"failed", "cleaned", "uncleaned"}
      BY <3>1, <2>1 DEF IInv, TypeOK, Quiet, RootThere
    <3>3. result = "cleaned" => ~root /\ ~root'
      BY <3>1, <2>1 DEF IInv, CleanupLeavesNothing
    <3> QED
      BY <3>1, <3>2, <3>3 DEF Contract!contractVars
  <2>11. CASE UNCHANGED vars
    BY <2>11 DEF vars, callVars, fixedVars, fsVars, historyVars, Contract!contractVars
  <2> QED
    BY <2>3, <2>4, <2>5, <2>6, <2>7, <2>8, <2>9, <2>10, <2>11 DEF Next
<1> QED
  BY <1>1, <1>2

\* Undisturbed, the jailed executor implements the contract of VmmExecutor: the tasks of
\* prepare, the ones that a failure leaves behind, and a removal that stops half-way or
\* comes late are not seen in an environment of which Ok was returned.
THEOREM JailedExecutorImplementsExecutor == Spec => ImplementsExecutor
<1>1. Init => RootThere
  BY DEF Init, RootThere
<1>2. Init => Contract!Init
  BY DEF Init, Contract!Init, Environment
<1>3. IInv /\ RootThere /\ [Next]_vars => RootThere'
  BY RootStep
<1>4. IInv /\ RootThere /\ IInv' /\ RootThere' /\ [Next]_vars =>
         [Contract!Next]_(Contract!contractVars)
  BY ContractStep
<1> QED
  BY <1>1, <1>2, <1>3, <1>4, InductiveInvariant, PTL
  DEF Spec, ImplementsExecutor, Contract!Spec

=============================================================================
