-------------------------- MODULE WtfServer_proofs --------------------------
(***************************************************************************)
(* Theorems about WtfServer, for any number of handlers and projects: the  *)
(* list of mutexes never has two mutexes for one project, and no two       *)
(* requests are ever at work on one project.                               *)
(*                                                                         *)
(* ProjectExclusive is not inductive.  LockInv adds what it depends on:    *)
(* only the holder of mutexHandlerLock is inside getLock's search, what it *)
(* found out about the list still holds when it adds a node, and a handler *)
(* keeps pointing to the one node of its project.  The files do not occur  *)
(* in it, so the steps of a request under its lock are all alike.          *)
(***************************************************************************)
EXTENDS WtfServer, TLAPS

\* Every handler's request has its five fields; arg and num may be anything.
JobType ==
  \E V : job \in [Handlers -> [op : Operations \cup {None}, project : Projects \cup {None},
                               arg : V, num : V, lock : Locks \cup {None}]]

MemoryType ==
  /\ JobType
  /\ pc \in [Handlers -> Steps]
  /\ owner \in [Locks -> Handlers \cup {None}]
  /\ mutexList \subseteq Locks
  /\ \A h \in Handlers : pc[h] \in {"check", "getlock", "search", "newhead", "append", "lock"}
                           => job[h].op \in Operations /\ job[h].project \in Projects

\* The steps of a request that has no lock, or no longer.
Outside == {"free", "check", "getlock", "search", "newhead", "append", "nolock",
            "reply", "inithistory"}

ListGuarded == \A h \in Handlers : pc[h] \in ListSteps => mutexHandlerLock = h

OneNodeEach == \A k, l \in mutexList : k.project = l.project => k = l

NothingFound ==
  \A h \in Handlers :
    /\ pc[h] = "newhead" => mutexList = {}
    /\ pc[h] = "append" => \A l \in mutexList : l.project # job[h].project

PointsToItsNode ==
  \A h \in Handlers :
    /\ pc[h] \in Outside => job[h].lock = None
    /\ pc[h] \in LockedSteps \cup {"lock"} => job[h].lock # None
    /\ job[h].lock # None => /\ job[h].lock \in mutexList
                             /\ job[h].lock.project = job[h].project

Owns == \A h \in Handlers : Inside(h) => owner[job[h].lock] = h

LockInv == /\ MemoryType /\ ListGuarded /\ OneNodeEach
           /\ NothingFound /\ PointsToItsNode /\ Owns

-----------------------------------------------------------------------------
LEMMA InitLockInv == Init => LockInv
<1> SUFFICES ASSUME Init PROVE LockInv
  OBVIOUS
<1> USE DEF Init, FreePc, NoJobs, NoOwners
<1>1. JobType
  <2>1. job \in [Handlers -> [op : Operations \cup {None}, project : Projects \cup {None},
                             arg : {NoNumber}, num : {NoNumber}, lock : Locks \cup {None}]]
    BY DEF NoJob, Request
  <2> QED BY <2>1 DEF JobType
<1>2. MemoryType
  BY <1>1 DEF MemoryType, Steps
<1>3. ListGuarded /\ OneNodeEach /\ NothingFound
  BY DEF ListGuarded, OneNodeEach, NothingFound, ListSteps
<1>4. PointsToItsNode
  BY DEF PointsToItsNode, NoJob, Request, LockedSteps
<1>5. Owns
  BY DEF Owns, Inside, LockedSteps
<1> QED BY <1>2, <1>3, <1>4, <1>5 DEF LockInv

\* A process that has just started has no request, no mutex and no lock.
LEMMA StopLockInv == ASSUME NEW how, Stop(how) PROVE LockInv'
<1> USE DEF Stop, FreePc, NoJobs, NoOwners
<1>1. JobType'
  <2>1. job' \in [Handlers -> [op : Operations \cup {None}, project : Projects \cup {None},
                              arg : {NoNumber}, num : {NoNumber}, lock : Locks \cup {None}]]
    BY DEF NoJob, Request
  <2> QED BY <2>1 DEF JobType
<1>2. MemoryType'
  BY <1>1 DEF MemoryType, Steps
<1>3. ListGuarded' /\ OneNodeEach' /\ NothingFound'
  BY DEF ListGuarded, OneNodeEach, NothingFound, ListSteps
<1>4. PointsToItsNode'
  BY DEF PointsToItsNode, NoJob, Request, LockedSteps
<1>5. Owns'
  BY DEF Owns, Inside, LockedSteps
<1> QED BY <1>2, <1>3, <1>4, <1>5 DEF LockInv

\* A step that leaves the memory alone.
LEMMA StutterLockInv == ASSUME LockInv, UNCHANGED memory PROVE LockInv'
BY DEF LockInv, MemoryType, JobType, ListGuarded, OneNodeEach, NothingFound,
       PointsToItsNode, Owns, Inside, memory

\* The part of a request that the invariant speaks of, and every other request, stay.
SameRequest(h) ==
  /\ \A g \in Handlers \ {h} : job'[g] = job[g]
  /\ job'[h].op = job[h].op /\ job'[h].project = job[h].project
  /\ job'[h].lock = job[h].lock

\* A handler that holds its project's lock goes on to a step that holds it.
LEMMA HeldStep ==
  ASSUME LockInv, NEW h \in Handlers, NEW step \in LockedSteps \cup {"spin"},
         pc[h] \in LockedSteps, Goto(h, step), JobType', SameRequest(h),
         UNCHANGED <<mutexHandlerLock, mutexList, owner>>
  PROVE  LockInv'
<1> USE DEF LockInv, SameRequest
<1>1. /\ \A g \in Handlers \ {h} : pc'[g] = pc[g]
      /\ pc'[h] = step /\ pc' \in [Handlers -> Steps]
  BY DEF Goto, MemoryType, Steps
<1>2. MemoryType'
  BY <1>1 DEF MemoryType, LockedSteps
<1>3. ListGuarded' /\ OneNodeEach' /\ NothingFound'
  BY <1>1 DEF ListGuarded, OneNodeEach, NothingFound, ListSteps, LockedSteps
<1>4. PointsToItsNode'
  BY <1>1 DEF PointsToItsNode, LockedSteps, Outside
<1>5. Owns'
  BY <1>1 DEF Owns, Inside, PointsToItsNode
<1> QED BY <1>2, <1>3, <1>4, <1>5

LEMMA WorkStep ==
  ASSUME LockInv, NEW h \in Handlers, NEW r, NEW step \in LockedSteps,
         pc[h] \in LockedSteps, Work(h, r, step)
  PROVE  LockInv'
<1>1. JobType' /\ SameRequest(h)
  BY DEF LockInv, MemoryType, JobType, SameRequest, Work
<1> QED BY <1>1, HeldStep DEF Work

LEMMA NumberStep ==
  ASSUME LockInv, NEW h \in Handlers, NEW n, NEW r, NEW step \in LockedSteps,
         pc[h] \in LockedSteps, Number(h, n, r, step)
  PROVE  LockInv'
<1>1. PICK V : job \in [Handlers -> [op : Operations \cup {None},
                                     project : Projects \cup {None},
                                     arg : V, num : V, lock : Locks \cup {None}]]
  BY DEF LockInv, MemoryType, JobType
<1>2. SameRequest(h)
  BY <1>1 DEF SameRequest, Number
<1>3. job' \in [Handlers -> [op : Operations \cup {None}, project : Projects \cup {None},
                             arg : V \cup {n}, num : V \cup {n}, lock : Locks \cup {None}]]
  BY <1>1 DEF Number
<1> QED BY <1>2, <1>3, HeldStep DEF Number, JobType

LEMMA ChooseStep ==
  ASSUME LockInv, NEW h \in Handlers, NEW arg, NEW r, NEW step \in LockedSteps,
         pc[h] \in LockedSteps, Choose(h, arg, r, step)
  PROVE  LockInv'
<1>1. PICK V : job \in [Handlers -> [op : Operations \cup {None},
                                     project : Projects \cup {None},
                                     arg : V, num : V, lock : Locks \cup {None}]]
  BY DEF LockInv, MemoryType, JobType
<1>2. SameRequest(h)
  BY <1>1 DEF SameRequest, Choose
<1>3. job' \in [Handlers -> [op : Operations \cup {None}, project : Projects \cup {None},
                             arg : V \cup {arg}, num : V \cup {arg}, lock : Locks \cup {None}]]
  BY <1>1 DEF Choose
<1> QED BY <1>2, <1>3, HeldStep DEF Choose, JobType

LEMMA HandleRequestStep ==
  ASSUME LockInv, NEW h \in Handlers, handleRequest(h)
  PROVE  LockInv'
<1> USE DEF LockInv
<1> DEFINE Requested(V) == [op : Operations \cup {None}, project : Projects \cup {None},
                            arg : V, num : V, lock : Locks \cup {None}]
<1>1. PICK V : job \in [Handlers -> Requested(V)]
  BY DEF MemoryType, JobType
<1>2. /\ pc[h] = "free" /\ job[h].lock = None
      /\ UNCHANGED <<mutexHandlerLock, mutexList, owner>>
  BY DEF handleRequest, At, PointsToItsNode, Outside
<1>3. PICK op \in Operations, p \in Projects :
        \/ /\ job' = [job EXCEPT ![h] = Request(op, p)]
           /\ Goto(h, IF op = "rollback" THEN "getlock" ELSE "check")
        \/ Spin(h)
  BY DEF handleRequest
<1>4. \E step \in {"check", "getlock", "spin"}, j \in Requested(V \cup {NoNumber}) :
        /\ Goto(h, step) /\ job' = [job EXCEPT ![h] = j] /\ j.lock = None
        /\ step # "spin" => j.op \in Operations /\ j.project \in Projects
  <2>1. CASE Spin(h)
    <3>1. NoJob \in Requested(V \cup {NoNumber}) /\ NoJob.lock = None
      BY DEF NoJob, Request
    <3>2. Goto(h, "spin") /\ job' = [job EXCEPT ![h] = NoJob]
      BY <1>1, <1>2, <2>1 DEF Spin
    <3> QED BY <3>1, <3>2
  <2>2. CASE /\ job' = [job EXCEPT ![h] = Request(op, p)]
             /\ Goto(h, IF op = "rollback" THEN "getlock" ELSE "check")
    <3>1. /\ Request(op, p) \in Requested(V \cup {NoNumber}) /\ Request(op, p).lock = None
          /\ Request(op, p).op \in Operations /\ Request(op, p).project \in Projects
      BY DEF Request
    <3> HIDE DEF Requested
    <3> QED BY <2>2, <3>1
  <2> QED BY <1>3, <2>1, <2>2
<1>5. PICK step \in {"check", "getlock", "spin"}, j \in Requested(V \cup {NoNumber}) :
        /\ Goto(h, step) /\ job' = [job EXCEPT ![h] = j] /\ j.lock = None
        /\ step # "spin" => j.op \in Operations /\ j.project \in Projects
  BY <1>4
<1>6. /\ \A g \in Handlers \ {h} : job'[g] = job[g] /\ pc'[g] = pc[g]
      /\ pc'[h] = step /\ pc' \in [Handlers -> Steps]
      /\ job'[h] = j
  BY <1>1, <1>5 DEF Goto, MemoryType, Steps
<1>7. job' \in [Handlers -> Requested(V \cup {NoNumber})]
  BY <1>1, <1>5
<1>8. MemoryType'
  <2>1. JobType'
    BY <1>7 DEF JobType
  <2>2. \A g \in Handlers :
          pc'[g] \in {"check", "getlock", "search", "newhead", "append", "lock"}
            => job'[g].op \in Operations /\ job'[g].project \in Projects
    <3> HIDE DEF Requested
    <3> QED BY <1>5, <1>6 DEF MemoryType
  <2> QED BY <1>2, <1>6, <2>1, <2>2 DEF MemoryType
<1>9. ListGuarded' /\ OneNodeEach' /\ NothingFound'
  BY <1>2, <1>5, <1>6 DEF ListGuarded, OneNodeEach, NothingFound, ListSteps
<1>10. PointsToItsNode' /\ Owns'
  BY <1>2, <1>5, <1>6 DEF PointsToItsNode, Owns, Inside, LockedSteps
<1> QED BY <1>8, <1>9, <1>10

\* Check, Reply, CreateHistory and the end of a request: no lock before and after.
LEMMA OutsideStep ==
  ASSUME LockInv, NEW h \in Handlers, pc[h] \in Outside \ ListSteps,
         NEW step \in {"free", "check", "getlock", "inithistory"}, Goto(h, step),
         step = "getlock" => pc[h] = "check",
         job' = job \/ job' = [job EXCEPT ![h] = NoJob],
         step = "getlock" => job' = job,
         step # "check",
         UNCHANGED <<mutexHandlerLock, mutexList, owner>>
  PROVE  LockInv'
<1> USE DEF LockInv
<1>1. /\ job[h].lock = None
      /\ \A g \in Handlers \ {h} : job'[g] = job[g] /\ pc'[g] = pc[g]
      /\ pc'[h] = step /\ pc' \in [Handlers -> Steps]
      /\ job'[h] \in {job[h], NoJob} /\ NoJob.lock = None
  BY DEF Goto, MemoryType, JobType, Steps, NoJob, Request, PointsToItsNode
<1>2. PICK V : job \in [Handlers -> [op : Operations \cup {None},
                                     project : Projects \cup {None},
                                     arg : V, num : V, lock : Locks \cup {None}]]
  BY DEF MemoryType, JobType
<1>3. job' \in [Handlers -> [op : Operations \cup {None}, project : Projects \cup {None},
                             arg : V \cup {NoNumber}, num : V \cup {NoNumber},
                             lock : Locks \cup {None}]]
  <2>1. NoJob \in [op : Operations \cup {None}, project : Projects \cup {None},
                   arg : V \cup {NoNumber}, num : V \cup {NoNumber},
                   lock : Locks \cup {None}]
    BY DEF NoJob, Request
  <2> QED BY <1>2, <2>1
<1>4. MemoryType'
  BY <1>1, <1>3 DEF MemoryType, JobType
<1>5. ListGuarded' /\ OneNodeEach' /\ NothingFound'
  BY <1>1 DEF ListGuarded, OneNodeEach, NothingFound, ListSteps
<1>6. PointsToItsNode' /\ Owns'
  BY <1>1 DEF PointsToItsNode, Owns, Inside, LockedSteps
<1> QED BY <1>4, <1>5, <1>6

LEMMA CheckStep ==
  ASSUME LockInv, NEW h \in Handlers, Check(h)
  PROVE  LockInv'
<1>1. /\ pc[h] = "check" /\ UNCHANGED <<mutexHandlerLock, mutexList, owner>>
      /\ \/ Goto(h, "getlock") /\ UNCHANGED job
         \/ Goto(h, "inithistory") /\ UNCHANGED job
         \/ Goto(h, "free") /\ job' = [job EXCEPT ![h] = NoJob]
  BY DEF Check, At, Done
<1> QED BY <1>1, OutsideStep DEF Outside, ListSteps

LEMMA EndStep ==
  ASSUME LockInv, NEW h \in Handlers, Reply(h) \/ CreateHistory(h)
  PROVE  LockInv'
<1>1. /\ pc[h] \in {"reply", "inithistory"}
      /\ UNCHANGED <<mutexHandlerLock, mutexList, owner>>
      /\ Goto(h, "free") /\ job' = [job EXCEPT ![h] = NoJob]
  BY DEF Reply, CreateHistory, At, Done
<1> QED BY <1>1, OutsideStep DEF Outside, ListSteps

-----------------------------------------------------------------------------
(* getLock, and the project's lock.                                        *)

\* mutexHandlerLock was free: nobody else is in the list.
LEMMA GetLockStep ==
  ASSUME LockInv, NEW h \in Handlers, getLock(h)
  PROVE  LockInv'
<1> USE DEF LockInv
<1>1. /\ pc[h] = "getlock" /\ mutexHandlerLock = None /\ mutexHandlerLock' = h
      /\ \A g \in Handlers \ {h} : pc'[g] = pc[g]
      /\ pc'[h] = "search" /\ pc' \in [Handlers -> Steps]
      /\ UNCHANGED <<job, mutexList, owner>>
  BY DEF getLock, At, Goto, MemoryType, Steps, ListSteps
<1>2. MemoryType'
  BY <1>1 DEF MemoryType, JobType
<1>3. ListGuarded'
  BY <1>1, NamesAssumption DEF ListGuarded, ListSteps
<1>4. OneNodeEach' /\ NothingFound'
  BY <1>1 DEF OneNodeEach, NothingFound
<1>5. PointsToItsNode' /\ Owns'
  BY <1>1 DEF PointsToItsNode, Owns, Inside, LockedSteps, Outside
<1> QED BY <1>2, <1>3, <1>4, <1>5

\* The handler that is in the list takes the node of its project with it.
LEMMA GotLockStep ==
  ASSUME LockInv, NEW h \in Handlers, pc[h] \in {"search", "newhead"},
         NEW l \in Locks, l.project = job[h].project, GotLock(h, l),
         mutexList' = mutexList \cup {l}, UNCHANGED owner,
         l \in mutexList \/ mutexList = {}
  PROVE  LockInv'
<1> USE DEF LockInv
<1>1. PICK V : job \in [Handlers -> [op : Operations \cup {None},
                                     project : Projects \cup {None},
                                     arg : V, num : V, lock : Locks \cup {None}]]
  BY DEF MemoryType, JobType
<1>2. /\ \A g \in Handlers \ {h} : pc'[g] = pc[g] /\ job'[g] = job[g]
      /\ pc'[h] = "lock" /\ pc' \in [Handlers -> Steps]
      /\ job'[h].op = job[h].op /\ job'[h].project = job[h].project
      /\ job'[h].lock = l
      /\ mutexHandlerLock' = None
  BY <1>1 DEF GotLock, Goto, MemoryType, Steps
<1>3. job' \in [Handlers -> [op : Operations \cup {None}, project : Projects \cup {None},
                             arg : V, num : V, lock : Locks \cup {None}]]
  BY <1>1 DEF GotLock
<1>4. \A g \in Handlers \ {h} : pc[g] \notin ListSteps
  BY DEF ListGuarded, ListSteps
<1>5. MemoryType'
  <2>1. JobType'
    BY <1>3 DEF JobType
  <2> QED BY <1>2, <2>1 DEF MemoryType
<1>6. ListGuarded' /\ OneNodeEach' /\ NothingFound'
  BY <1>2, <1>4 DEF ListGuarded, OneNodeEach, NothingFound, ListSteps
<1>7. PointsToItsNode'
  BY <1>2, NamesAssumption DEF PointsToItsNode, LockedSteps, Outside
<1>8. Owns'
  BY <1>2 DEF Owns, Inside, LockedSteps
<1> QED BY <1>5, <1>6, <1>7, <1>8

\* The list has no node for the project, and nobody else can add one.
LEMMA NotFoundStep ==
  ASSUME LockInv, NEW h \in Handlers, pc[h] = "search",
         \A l \in mutexList : l.project # job[h].project,
         Goto(h, IF mutexList = {} THEN "newhead" ELSE "append"),
         UNCHANGED <<job, mutexHandlerLock, mutexList, owner>>
  PROVE  LockInv'
<1> USE DEF LockInv
<1>1. /\ \A g \in Handlers \ {h} : pc'[g] = pc[g]
      /\ pc'[h] = IF mutexList = {} THEN "newhead" ELSE "append"
      /\ pc' \in [Handlers -> Steps]
  BY DEF Goto, MemoryType, Steps, ListSteps
<1>2. MemoryType'
  BY <1>1 DEF MemoryType, JobType
<1>3. ListGuarded' /\ OneNodeEach' /\ NothingFound'
  BY <1>1 DEF ListGuarded, OneNodeEach, NothingFound, ListSteps
<1>4. PointsToItsNode' /\ Owns'
  BY <1>1 DEF PointsToItsNode, Owns, Inside, LockedSteps, Outside
<1> QED BY <1>2, <1>3, <1>4

LEMMA SearchListStep ==
  ASSUME LockInv, NEW h \in Handlers, SearchList(h)
  PROVE  LockInv'
<1>1. pc[h] = "search" /\ UNCHANGED <<mutexList, owner>>
  BY DEF SearchList, At
<1>2. CASE \E l \in mutexList : l.project = job[h].project /\ GotLock(h, l)
  <2>1. PICK l \in mutexList : l.project = job[h].project /\ GotLock(h, l)
    BY <1>2
  <2>2. l \in Locks /\ mutexList' = mutexList \cup {l}
    BY <1>1 DEF LockInv, MemoryType
  <2> QED BY <1>1, <2>1, <2>2, GotLockStep
<1>3. CASE /\ \A l \in mutexList : l.project # job[h].project
           /\ Goto(h, IF mutexList = {} THEN "newhead" ELSE "append")
           /\ UNCHANGED <<job, mutexHandlerLock>>
  BY <1>1, <1>3, NotFoundStep
<1> QED BY <1>2, <1>3 DEF SearchList

LEMMA NewHeadStep ==
  ASSUME LockInv, NEW h \in Handlers, NewHead(h)
  PROVE  LockInv'
<1> DEFINE l == [project |-> job[h].project, by |-> h]
<1>1. /\ pc[h] = "newhead" /\ mutexList = {} /\ mutexList' = {l}
      /\ GotLock(h, l) /\ UNCHANGED owner
  BY DEF NewHead, At, LockInv, NothingFound
<1>2. l \in Locks /\ l.project = job[h].project
  BY <1>1 DEF LockInv, MemoryType, Locks
<1> HIDE DEF l
<1> QED BY <1>1, <1>2, GotLockStep

LEMMA AppendNodeStep ==
  ASSUME LockInv, NEW h \in Handlers, AppendNode(h)
  PROVE  LockInv'
<1> USE DEF LockInv
<1> DEFINE l == [project |-> job[h].project, by |-> h]
<1>1. CASE At(h, "append") /\ Stop("exited")
  BY <1>1, StopLockInv
<1>2. CASE /\ At(h, "append") /\ mutexList' = mutexList \cup {l}
           /\ mutexHandlerLock' = None /\ Goto(h, "nolock")
           /\ UNCHANGED <<server, job, owner, repo>>
  <2>1. /\ pc[h] = "append"
        /\ \A g \in Handlers \ {h} : pc'[g] = pc[g] /\ pc[g] \notin ListSteps
        /\ pc'[h] = "nolock" /\ pc' \in [Handlers -> Steps]
    BY <1>2 DEF At, Goto, MemoryType, Steps, ListGuarded, ListSteps
  <2>2. l \in Locks /\ l.project = job[h].project
    BY <2>1 DEF MemoryType, Locks
  <2> HIDE DEF l
  <2>3. MemoryType'
    BY <1>2, <2>1, <2>2 DEF MemoryType, JobType
  <2>4. ListGuarded' /\ NothingFound'
    BY <1>2, <2>1 DEF ListGuarded, NothingFound, ListSteps
  <2>5. OneNodeEach'
    BY <1>2, <2>1, <2>2 DEF OneNodeEach, NothingFound
  <2>6. PointsToItsNode' /\ Owns'
    BY <1>2, <2>1 DEF PointsToItsNode, Owns, Inside, LockedSteps, Outside
  <2> QED BY <2>3, <2>4, <2>5, <2>6
<1> QED BY <1>1, <1>2 DEF AppendNode

\* pthread_mutex_lock succeeds only on a free mutex, and a mutex that another
\* handler is inside is not free.
LEMMA LockStep ==
  ASSUME LockInv, NEW h \in Handlers, Lock(h)
  PROVE  LockInv'
<1> USE DEF LockInv
<1>1. /\ pc[h] = "lock" /\ owner[job[h].lock] = None
      /\ owner' = [owner EXCEPT ![job[h].lock] = h]
      /\ UNCHANGED <<job, mutexHandlerLock, mutexList>>
      /\ job[h].lock \in mutexList /\ job[h].lock \in Locks
  BY DEF Lock, At, PointsToItsNode, MemoryType
<1>2. Entry[job[h].op] \in LockedSteps
  BY <1>1 DEF Entry, LockedSteps, MemoryType, Operations
<1>3. /\ \A g \in Handlers \ {h} : pc'[g] = pc[g]
      /\ pc'[h] \in LockedSteps /\ pc' \in [Handlers -> Steps]
  BY <1>2 DEF Lock, Goto, MemoryType, Steps
<1>4. MemoryType'
  BY <1>1, <1>3 DEF MemoryType, JobType, LockedSteps
<1>5. ListGuarded' /\ OneNodeEach' /\ NothingFound'
  BY <1>1, <1>3 DEF ListGuarded, OneNodeEach, NothingFound, ListSteps, LockedSteps
<1>6. PointsToItsNode'
  BY <1>1, <1>3 DEF PointsToItsNode, LockedSteps, Outside
<1>7. Owns'
  <2>1. \A g \in Handlers \ {h} : Inside(g) => owner[job[g].lock] # None
    BY NamesAssumption DEF Owns
  <2>2. \A g \in Handlers \ {h} : Inside(g)' => Inside(g)
    BY <1>1, <1>3 DEF Inside
  <2>3. \A g \in Handlers \ {h} : Inside(g) => job[g].lock \in Locks
    BY DEF Inside, PointsToItsNode, MemoryType
  <2> QED BY <1>1, <2>1, <2>2, <2>3 DEF Owns, MemoryType
<1> QED BY <1>4, <1>5, <1>6, <1>7

LEMMA UnlockStep ==
  ASSUME LockInv, NEW h \in Handlers, Unlock(h)
  PROVE  LockInv'
<1> USE DEF LockInv
<1>1. /\ pc[h] = "unlock" /\ job[h].lock \in mutexList /\ job[h].lock \in Locks
      /\ Inside(h) /\ owner[job[h].lock] = h
      /\ owner' = [owner EXCEPT ![job[h].lock] = None]
      /\ UNCHANGED <<mutexHandlerLock, mutexList>>
  BY DEF Unlock, At, Inside, LockedSteps, PointsToItsNode, MemoryType, Owns
<1>2. PICK V : job \in [Handlers -> [op : Operations \cup {None},
                                     project : Projects \cup {None},
                                     arg : V, num : V, lock : Locks \cup {None}]]
  BY DEF MemoryType, JobType
<1>3. /\ \A g \in Handlers \ {h} : pc'[g] = pc[g] /\ job'[g] = job[g]
      /\ pc'[h] \in {"inithistory", "reply"} /\ pc' \in [Handlers -> Steps]
      /\ job'[h].lock = None
      /\ job' \in [Handlers -> [op : Operations \cup {None}, project : Projects \cup {None},
                                arg : V \cup {NoNumber}, num : V \cup {NoNumber},
                                lock : Locks \cup {None}]]
  <2>1. CASE /\ job' = [job EXCEPT ![h] = Request(@.op, @.project)]
             /\ Goto(h, "inithistory")
    BY <1>2, <2>1 DEF Goto, MemoryType, Steps, Request
  <2>2. CASE job' = [job EXCEPT ![h] = NoJob] /\ Goto(h, "reply")
    <3>1. /\ NoJob.lock = None
          /\ NoJob \in [op : Operations \cup {None}, project : Projects \cup {None},
                        arg : V \cup {NoNumber}, num : V \cup {NoNumber},
                        lock : Locks \cup {None}]
      BY DEF NoJob, Request
    <3> QED BY <1>2, <2>2, <3>1 DEF Goto, MemoryType, Steps
  <2> QED BY <2>1, <2>2 DEF Unlock
<1>4. MemoryType'
  <2>1. JobType'
    BY <1>3 DEF JobType
  <2> QED BY <1>1, <1>3, <2>1 DEF MemoryType
<1>5. ListGuarded' /\ OneNodeEach' /\ NothingFound'
  BY <1>1, <1>3 DEF ListGuarded, OneNodeEach, NothingFound, ListSteps
<1>6. PointsToItsNode'
  BY <1>1, <1>3 DEF PointsToItsNode, LockedSteps
<1>7. Owns'
  <2>1. \A g \in Handlers \ {h} : Inside(g)' => Inside(g) /\ owner[job[g].lock] = g
    BY <1>3 DEF Inside, Owns
  <2>2. \A g \in Handlers \ {h} : Inside(g) => job[g].lock \in Locks
    BY DEF Inside, PointsToItsNode, MemoryType
  <2>3. ~Inside(h)'
    BY <1>3 DEF Inside, LockedSteps
  <2> QED BY <1>1, <1>3, <2>1, <2>2, <2>3 DEF Owns, MemoryType
<1> QED BY <1>4, <1>5, <1>6, <1>7

-----------------------------------------------------------------------------
(* The steps under the lock.                                               *)

LEMMA ClientLeavesStep ==
  ASSUME LockInv, NEW h \in Handlers, ClientLeaves(h)
  PROVE  LockInv'
<1>1. /\ pc[h] \in LockedSteps /\ Goto(h, "spin") /\ job[h].lock # None
      /\ UNCHANGED <<mutexHandlerLock, mutexList, owner>>
  BY DEF ClientLeaves, Receiving, LockedSteps, Spin, LockInv, PointsToItsNode
<1>2. job' = [job EXCEPT ![h] = [@ EXCEPT !.arg = NoNumber, !.num = NoNumber]]
  BY <1>1 DEF ClientLeaves, Spin
<1>3. PICK V : job \in [Handlers -> [op : Operations \cup {None},
                                     project : Projects \cup {None},
                                     arg : V, num : V, lock : Locks \cup {None}]]
  BY DEF LockInv, MemoryType, JobType
<1>4. /\ SameRequest(h)
      /\ job' \in [Handlers -> [op : Operations \cup {None}, project : Projects \cup {None},
                                arg : V \cup {NoNumber}, num : V \cup {NoNumber},
                                lock : Locks \cup {None}]]
  BY <1>2, <1>3 DEF SameRequest
<1> QED BY <1>1, <1>4, HeldStep DEF JobType

LEMMA CreateDestroySteps ==
  ASSUME LockInv, NEW h \in Handlers,
         \/ CreateProject(h) \/ CreateVersion(h) \/ CreateManifest(h)
         \/ deleteDirectory(h) \/ RemoveProject(h)
  PROVE  LockInv'
<1> USE DEF At, LockedSteps
<1>1. CASE CreateProject(h) \/ CreateManifest(h) \/ RemoveProject(h)
  BY <1>1, WorkStep DEF CreateProject, CreateManifest, RemoveProject
<1>2. CASE CreateVersion(h)
  BY <1>2, StopLockInv, NumberStep DEF CreateVersion
<1>3. CASE deleteDirectory(h)
  BY <1>3, StopLockInv, WorkStep, NumberStep DEF deleteDirectory
<1> QED BY <1>1, <1>2, <1>3

LEMMA RollbackCommitSteps ==
  ASSUME LockInv, NEW h \in Handlers,
         \/ CheckTarget(h) \/ rollback(h)
         \/ SendManifest(h) \/ CreatePending(h) \/ WritePending(h)
  PROVE  LockInv'
<1> USE DEF At, LockedSteps
<1>1. CASE CheckTarget(h)
  BY <1>1, StopLockInv, WorkStep, ChooseStep DEF CheckTarget
<1>2. CASE rollback(h)
  BY <1>2, WorkStep DEF rollback
<1>3. CASE SendManifest(h)
  BY <1>3, StopLockInv, ChooseStep DEF SendManifest
<1>4. CASE CreatePending(h)
  BY <1>4, NumberStep DEF CreatePending
<1>5. CASE WritePending(h)
  BY <1>5, WorkStep DEF WritePending
<1> QED BY <1>1, <1>2, <1>3, <1>4, <1>5

LEMMA PushReadSteps ==
  ASSUME LockInv, NEW h \in Handlers,
         \/ ReceiveCommit(h) \/ DiffCommit(h) \/ expirePending(h) \/ MakeVersion(h)
         \/ CopyVersion(h) \/ UpdateManifest(h) \/ ReceiveFiles(h) \/ FinishPush(h)
         \/ DeletePushCommit(h) \/ Read(h)
  PROVE  LockInv'
<1> USE DEF At, LockedSteps
<1>1. CASE ReceiveCommit(h)
  BY <1>1, ChooseStep DEF ReceiveCommit
<1>2. CASE DiffCommit(h)
  BY <1>2, StopLockInv, WorkStep DEF DiffCommit
<1>3. CASE expirePending(h)
  BY <1>3, WorkStep DEF expirePending
<1>4. CASE MakeVersion(h)
  BY <1>4, StopLockInv, NumberStep DEF MakeVersion
<1>5. CASE CopyVersion(h)
  BY <1>5, WorkStep DEF CopyVersion
<1>6. CASE UpdateManifest(h)
  BY <1>6, StopLockInv, WorkStep DEF UpdateManifest
<1>7. CASE ReceiveFiles(h) \/ DeletePushCommit(h)
  BY <1>7, WorkStep DEF ReceiveFiles, DeletePushCommit
<1>8. CASE FinishPush(h)
  BY <1>8, StopLockInv, WorkStep DEF FinishPush
<1>9. CASE Read(h)
  BY <1>9, StopLockInv, WorkStep DEF Read
<1> QED BY <1>1, <1>2, <1>3, <1>4, <1>5, <1>6, <1>7, <1>8, <1>9

-----------------------------------------------------------------------------
LEMMA NextLockInv == LockInv /\ [Next]_vars => LockInv'
<1> SUFFICES ASSUME LockInv, [Next]_vars PROVE LockInv'
  OBVIOUS
<1>1. CASE UNCHANGED vars
  BY <1>1, StutterLockInv DEF vars
<1>2. CASE Kill
  BY <1>2, StopLockInv DEF Kill
<1>3. CASE Restart
  BY <1>3, StutterLockInv DEF Restart
<1>4. ASSUME NEW h \in Handlers,
             \/ handleRequest(h) \/ HandlerStep(h)
             \/ ClientLeaves(h) \/ ClientKillsServer(h)
      PROVE  LockInv'
  <2>1. CASE handleRequest(h)
    BY <2>1, HandleRequestStep
  <2>2. CASE ClientLeaves(h)
    BY <2>2, ClientLeavesStep
  <2>3. CASE ClientKillsServer(h)
    BY <2>3, StopLockInv DEF ClientKillsServer
  <2>4. CASE Check(h) \/ Reply(h) \/ CreateHistory(h)
    BY <2>4, CheckStep, EndStep
  <2>5. CASE getLock(h) \/ SearchList(h) \/ NewHead(h) \/ AppendNode(h)
    BY <2>5, GetLockStep, SearchListStep, NewHeadStep, AppendNodeStep
  <2>6. CASE DereferenceNull(h)
    BY <2>6, StopLockInv DEF DereferenceNull
  <2>7. CASE Lock(h) \/ Unlock(h)
    BY <2>7, LockStep, UnlockStep
  <2>8. CASE \/ CreateProject(h) \/ CreateVersion(h) \/ CreateManifest(h)
             \/ deleteDirectory(h) \/ RemoveProject(h)
    BY <2>8, CreateDestroySteps
  <2>9. CASE \/ CheckTarget(h) \/ rollback(h)
             \/ SendManifest(h) \/ CreatePending(h) \/ WritePending(h)
    BY <2>9, RollbackCommitSteps
  <2>10. CASE \/ ReceiveCommit(h) \/ DiffCommit(h) \/ expirePending(h) \/ MakeVersion(h)
              \/ CopyVersion(h) \/ UpdateManifest(h) \/ ReceiveFiles(h) \/ FinishPush(h)
              \/ DeletePushCommit(h) \/ Read(h)
    BY <2>10, PushReadSteps
  <2> QED BY <1>4, <2>1, <2>2, <2>3, <2>4, <2>5, <2>6, <2>7, <2>8, <2>9, <2>10
             DEF HandlerStep
<1> QED BY <1>1, <1>2, <1>3, <1>4 DEF Next

\* Two handlers at work on one project would hold the one mutex of its one node.
LEMMA LockInvExcludes == LockInv => ProjectExclusive
<1> SUFFICES ASSUME LockInv, NEW g \in Handlers, NEW h \in Handlers,
                    Inside(g), Inside(h), job[g].project = job[h].project
             PROVE  g = h
  BY DEF ProjectExclusive
<1>1. job[g].lock \in mutexList /\ job[h].lock \in mutexList
  BY DEF LockInv, PointsToItsNode, Inside
<1>2. job[g].lock = job[h].lock
  BY <1>1 DEF LockInv, PointsToItsNode, OneNodeEach, Inside
<1> QED BY <1>2 DEF LockInv, Owns

\* For any number of handlers, projects and versions, and across crashes, no two
\* requests of the server are between lock and unlock of one project.
THEOREM ProjectExclusiveHolds == Spec => []ProjectExclusive
<1>1. Spec => []LockInv
  BY InitLockInv, NextLockInv, PTL DEF Spec
<1> QED BY <1>1, LockInvExcludes, PTL

\* For any number of handlers and projects, the list of mutexes never has two nodes
\* for one project.
THEOREM OneNodeEachHolds == Spec => []OneNodeEach
<1>1. Spec => []LockInv
  BY InitLockInv, NextLockInv, PTL DEF Spec
<1>2. LockInv => OneNodeEach
  BY DEF LockInv
<1> QED BY <1>1, <1>2, PTL
=============================================================================
