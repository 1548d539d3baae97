----------------------- MODULE MyPThreadWaiting_proofs -----------------------
(***************************************************************************)
(* Theorems about who waits where in MyPThread, for any number of threads  *)
(* and mutexes: the queues, the wake-ups and the joins; and the library    *)
(* implements ThreadApi: a step of MyPThread is a step of ThreadApi, or    *)
(* one its callers cannot see.                                             *)
(***************************************************************************)
EXTENDS MyPThreadRefinement, MyPThread_proofs

-----------------------------------------------------------------------------
(* The invariant.                                                          *)

\* The parts of EveryThreadInItsQueue.
TidsInOrder == \A t \in Threads : status[t] = "ABSENT" <=> t >= nextThreadId

ReadyOnce ==
  /\ NoRepeats(readyQueue)
  /\ Elems(readyQueue) = {t \in Threads : status[t] = "READY"} \ {activeThread}

MutexQueues == \A m \in Mutexes : /\ NoRepeats(blockedThreads[m])
                                  /\ Elems(blockedThreads[m]) = WaitingFor(m)

JoinQueues == \A u \in Threads : /\ NoRepeats(joinQueue[u])
                                 /\ Elems(joinQueue[u]) = JoinedOn(u)

BlockedWait == \A t \in Threads : status[t] = "BLOCKED" =>
  \/ \E m \in Mutexes : t \in WaitingFor(m)
  \/ \E u \in Threads : t \in JoinedOn(u)

Queues == MutexQueues /\ JoinQueues /\ BlockedWait

\* What status says of the step a thread is at: of the active thread, whose status may
\* have been changed before its raise, and of the others.
Raising == {"raise", "lock_raise", "join_raise", "exit_raise"}

Statuses ==
  /\ \A t \in Threads : pc[t].at = "exit_raise" <=> status[t] \in {"TERMINATED", "FREED"}
  /\ \A t \in Threads : status[t] = "ABSENT" => pc[t].at = "user"
  /\ \A t \in Threads : t = activeThread =>
       /\ status[t] \in {"READY", "RUNNING", "BLOCKED", "TERMINATED"}
       /\ status[t] = "READY" => pc[t].at = "raise"
       /\ status[t] = "BLOCKED" => pc[t].at \in {"lock_raise", "join_raise"}
  /\ \A t \in Threads : t # activeThread => status[t] \notin {"RUNNING", "TERMINATED"}

Places == TidsInOrder /\ ReadyOnce /\ ReadyQueueSorted /\ Queues /\ Statuses

LEMMA PlacesQueues == Places => EveryThreadInItsQueue
BY DEF Places, TidsInOrder, ReadyOnce, Queues, MutexQueues, JoinQueues, BlockedWait,
       EveryThreadInItsQueue

-----------------------------------------------------------------------------
(* Steps that wake and block nobody.                                       *)

LEMMA ActiveRunning ==
  ASSUME Statuses, NEW t \in Threads, activeThread = t, pc[t].at \notin Raising
  PROVE  status[t] = "RUNNING"
BY DEF Statuses, Raising

\* The queues stay right if the blocked threads are the same, at the same waits.
LEMMA SameWaits ==
  ASSUME Queues, UNCHANGED <<blockedThreads, joinQueue>>,
         \A t \in Threads : status'[t] = "BLOCKED" <=> status[t] = "BLOCKED",
         \A t \in Threads : status[t] = "BLOCKED" =>
           /\ pc'[t].on = pc[t].on
           /\ pc'[t].at \in {"lock_raise", "lock_retry"} <=> pc[t].at \in {"lock_raise", "lock_retry"}
           /\ pc'[t].at \in {"join_raise", "join_return"} <=> pc[t].at \in {"join_raise", "join_return"}
  PROVE  Queues'
<1>1. \A m : WaitingFor(m)' = WaitingFor(m)
  BY DEF WaitingFor
<1>2. \A u : JoinedOn(u)' = JoinedOn(u)
  BY DEF JoinedOn
<1>3. MutexQueues'
  BY <1>1 DEF Queues, MutexQueues, NoRepeats, Elems
<1>4. JoinQueues'
  BY <1>2 DEF Queues, JoinQueues, NoRepeats, Elems
<1>5. BlockedWait'
  BY <1>1, <1>2 DEF Queues, BlockedWait
<1> QED BY <1>3, <1>4, <1>5 DEF Queues

\* The active thread goes on, without a change of any status or queue.
LEMMA GoOn ==
  ASSUME TypeOK, Places, NEW t \in Threads, activeThread = t, status[t] = "RUNNING",
         UNCHANGED <<activeThread, status, quantaCount, readyQueue, nextThreadId,
                     blockedThreads, joinQueue>>,
         \A u \in Threads : u # t => pc'[u] = pc[u],
         pc'[t].at # "exit_raise"
  PROVE  Places'
<1>1. TidsInOrder' /\ ReadyOnce' /\ ReadyQueueSorted'
  BY DEF Places, TidsInOrder, ReadyOnce, ReadyQueueSorted, NoRepeats, Elems
<1>2. Queues'
  BY SameWaits DEF Places
<1>3. Statuses'
  BY DEF Places, Statuses
<1> QED BY <1>1, <1>2, <1>3 DEF Places

LEMMA GoOnTo ==
  ASSUME TypeOK, Places, NEW t \in Threads, activeThread = t, pc[t].at \notin Raising,
         UNCHANGED <<activeThread, status, quantaCount, readyQueue, nextThreadId,
                     blockedThreads, joinQueue>>,
         NEW step, NEW x, Goto(t, step, x), step # "exit_raise"
  PROVE  Places'
<1>1. pc'[t].at = step /\ \A u \in Threads : u # t => pc'[u] = pc[u]
  BY DEF Goto, Move, TypeOK
<1>2. status[t] = "RUNNING"
  BY ActiveRunning DEF Places
<1> QED BY <1>1, <1>2, GoOn
-----------------------------------------------------------------------------
(* Steps that make a thread ready.                                         *)

\* A thread that was not ready joins the ready queue.
LEMMA ReadyGains ==
  ASSUME TypeOK, ReadyOnce, ReadyQueueSorted, NEW w \in Threads,
         status[w] # "READY", w # activeThread,
         UNCHANGED <<activeThread, quantaCount>>,
         status' = [status EXCEPT ![w] = "READY"],
         readyQueue' = enqueueByQuanta(readyQueue, w, quantaCount)
  PROVE  ReadyOnce' /\ ReadyQueueSorted'
<1>1. readyQueue \in Seq(Threads) /\ quantaCount \in [Threads -> Nat]
  BY DEF TypeOK
<1>2. w \notin Elems(readyQueue)
  BY DEF ReadyOnce
<1>3. Elems(readyQueue') = Elems(readyQueue) \cup {w} /\ NoRepeats(readyQueue')
  BY <1>1, <1>2, EnqueueMembers DEF ReadyOnce
<1>4. {u \in Threads : status'[u] = "READY"} = {u \in Threads : status[u] = "READY"} \cup {w}
  BY DEF TypeOK
<1>5. SortedBy(readyQueue', quantaCount)
  BY <1>1, EnqueueSorted DEF ReadyQueueSorted, SortedBy
<1>6. ReadyQueueSorted'
  BY <1>5 DEF ReadyQueueSorted, SortedBy
<1>7. ReadyOnce'
  <2>1. Elems(readyQueue') = {u \in Threads : status'[u] = "READY"} \ {activeThread'}
    BY <1>3, <1>4 DEF ReadyOnce
  <2> QED BY <1>3, <2>1 DEF ReadyOnce, NoRepeats, Elems
<1> QED BY <1>6, <1>7

\* The oldest waiter of a mutex is woken by the active thread.
LEMMA WakeWaiter ==
  ASSUME TypeOK, Places, NEW t \in Threads, activeThread = t, status[t] = "RUNNING",
         NEW m \in Mutexes, blockedThreads[m] # <<>>, WakeOldest(m),
         UNCHANGED <<activeThread, quantaCount, nextThreadId, joinQueue>>,
         \A u \in Threads : u # t => pc'[u] = pc[u],
         pc'[t].at # "exit_raise"
  PROVE  Places'
<1> DEFINE w == Head(blockedThreads[m])
<1>1. blockedThreads[m] \in Seq(Threads)
  BY DEF TypeOK
<1>2. /\ w \in Threads /\ w \in Elems(blockedThreads[m])
      /\ Elems(blockedThreads[m]) = Elems(Tail(blockedThreads[m])) \cup {w}
      /\ NoRepeats(Tail(blockedThreads[m])) /\ w \notin Elems(Tail(blockedThreads[m]))
  BY <1>1, DequeueMembers DEF Places, Queues, MutexQueues
<1>3. w \in WaitingFor(m)
  BY <1>2 DEF Places, Queues, MutexQueues
<1>4. /\ blockedThreads' = [blockedThreads EXCEPT ![m] = Tail(@)]
      /\ status' = [status EXCEPT ![w] = "READY"]
      /\ readyQueue' = enqueueByQuanta(readyQueue, w, quantaCount)
  BY DEF WakeOldest
<1> HIDE DEF w
<1>5. /\ status[w] = "BLOCKED" /\ w # t
      /\ pc[w].at \in {"lock_raise", "lock_retry"} /\ pc[w].on = m
  BY <1>3 DEF WaitingFor
<1>6. status'[w] = "READY" /\ \A u \in Threads : u # w => status'[u] = status[u]
  BY <1>2, <1>4 DEF TypeOK
<1>7. ReadyOnce' /\ ReadyQueueSorted'
  BY <1>2, <1>4, <1>5, ReadyGains DEF Places
<1>8. TidsInOrder'
  BY <1>5, <1>6 DEF Places, TidsInOrder
<1>9. MutexQueues'
  <2>1. WaitingFor(m)' = WaitingFor(m) \ {w}
    BY <1>5, <1>6 DEF WaitingFor
  <2>2. \A x \in Mutexes : x # m => WaitingFor(x)' = WaitingFor(x)
    BY <1>5, <1>6 DEF WaitingFor
  <2>3. /\ blockedThreads'[m] = Tail(blockedThreads[m])
        /\ \A x \in Mutexes : x # m => blockedThreads'[x] = blockedThreads[x]
    BY <1>4 DEF TypeOK
  <2>4. Elems(blockedThreads'[m]) = WaitingFor(m)' /\ NoRepeats(blockedThreads'[m])
    BY <1>2, <2>1, <2>3 DEF Places, Queues, MutexQueues
  <2>5. \A x \in Mutexes : x # m =>
          Elems(blockedThreads'[x]) = WaitingFor(x)' /\ NoRepeats(blockedThreads'[x])
    BY <2>2, <2>3 DEF Places, Queues, MutexQueues
  <2> QED BY <2>4, <2>5 DEF MutexQueues, NoRepeats, Elems
<1>10. \A u : JoinedOn(u)' = JoinedOn(u)
  BY <1>5, <1>6 DEF JoinedOn
<1>11. JoinQueues'
  BY <1>10 DEF Places, Queues, JoinQueues, NoRepeats, Elems
<1>12. BlockedWait'
  <2>1. \A x : x \in Mutexes => WaitingFor(x) \ {w} \subseteq WaitingFor(x)'
    BY <1>5, <1>6 DEF WaitingFor
  <2> QED BY <1>6, <1>10, <2>1 DEF Places, Queues, BlockedWait
<1>13. Statuses'
  BY <1>5, <1>6 DEF Places, Statuses
<1> QED BY <1>7, <1>8, <1>9, <1>11, <1>12, <1>13 DEF Places, Queues

\* A joiner is woken by the exiting thread.
LEMMA WakeJoiner ==
  ASSUME TypeOK, Places, NEW t \in Threads, ExitWake(t)
  PROVE  Places'
<1> DEFINE w == Head(joinQueue[t])
<1>1. joinQueue[t] \in Seq(Threads) /\ joinQueue[t] # <<>>
  BY DEF TypeOK, ExitWake
<1>2. /\ w \in Threads /\ w \in Elems(joinQueue[t])
      /\ Elems(joinQueue[t]) = Elems(Tail(joinQueue[t])) \cup {w}
      /\ NoRepeats(Tail(joinQueue[t])) /\ w \notin Elems(Tail(joinQueue[t]))
  BY <1>1, DequeueMembers DEF Places, Queues, JoinQueues
<1>3. w \in JoinedOn(t)
  BY <1>2 DEF Places, Queues, JoinQueues
<1>4. /\ joinQueue' = [joinQueue EXCEPT ![t] = Tail(@)]
      /\ status' = [status EXCEPT ![w] = "READY"]
      /\ readyQueue' = enqueueByQuanta(readyQueue, w, quantaCount)
      /\ activeThread = t /\ pc[t].at = "exit_wake"
      /\ UNCHANGED <<activeThread, quantaCount, nextThreadId, blockedThreads, pc>>
  BY DEF ExitWake, At, mutexVars
<1> HIDE DEF w
<1>5. /\ status[w] = "BLOCKED" /\ w # t
      /\ pc[w].at \in {"join_raise", "join_return"} /\ pc[w].on = t
  BY <1>3, <1>4 DEF JoinedOn
<1>6. status'[w] = "READY" /\ \A u \in Threads : u # w => status'[u] = status[u]
  BY <1>2, <1>4 DEF TypeOK
<1>7. ReadyOnce' /\ ReadyQueueSorted'
  BY <1>2, <1>4, <1>5, ReadyGains DEF Places
<1>8. TidsInOrder'
  BY <1>4, <1>5, <1>6 DEF Places, TidsInOrder
<1>9. JoinQueues'
  <2>1. JoinedOn(t)' = JoinedOn(t) \ {w}
    BY <1>4, <1>5, <1>6 DEF JoinedOn
  <2>2. \A x \in Threads : x # t => JoinedOn(x)' = JoinedOn(x)
    BY <1>4, <1>5, <1>6 DEF JoinedOn
  <2>3. /\ joinQueue'[t] = Tail(joinQueue[t])
        /\ \A x \in Threads : x # t => joinQueue'[x] = joinQueue[x]
    BY <1>4 DEF TypeOK
  <2>4. Elems(joinQueue'[t]) = JoinedOn(t)' /\ NoRepeats(joinQueue'[t])
    BY <1>2, <2>1, <2>3 DEF Places, Queues, JoinQueues
  <2>5. \A x \in Threads : x # t =>
          Elems(joinQueue'[x]) = JoinedOn(x)' /\ NoRepeats(joinQueue'[x])
    BY <2>2, <2>3 DEF Places, Queues, JoinQueues
  <2> QED BY <2>4, <2>5 DEF JoinQueues, NoRepeats, Elems
<1>10. \A m : WaitingFor(m)' = WaitingFor(m)
  BY <1>4, <1>5, <1>6 DEF WaitingFor
<1>11. MutexQueues'
  BY <1>4, <1>10 DEF Places, Queues, MutexQueues, NoRepeats, Elems
<1>12. BlockedWait'
  <2>1. \A x : x \in Threads => JoinedOn(x) \ {w} \subseteq JoinedOn(x)'
    BY <1>4, <1>5, <1>6 DEF JoinedOn
  <2> QED BY <1>6, <1>10, <2>1 DEF Places, Queues, BlockedWait
<1>13. Statuses'
  BY <1>4, <1>5, <1>6 DEF Places, Statuses
<1> QED BY <1>7, <1>8, <1>9, <1>11, <1>12, <1>13 DEF Places, Queues

\* Create adds a new ready thread and leaves its creator active.
LEMMA CreatePlaces ==
  ASSUME TypeOK, Control, Places, NEW t \in Threads, CreateBody(t)
  PROVE  Places'
<1> DEFINE w == nextThreadId
<1>1. /\ activeThread = t /\ pc[t].at = "create"
      /\ status' = [status EXCEPT ![w] = "READY"] /\ nextThreadId' = w + 1
      /\ readyQueue' = enqueueByQuanta(readyQueue, w, quantaCount)
      /\ Goto(t, "raise", NoThread)
      /\ UNCHANGED <<activeThread, quantaCount, blockedThreads, joinQueue>>
  BY DEF CreateBody, At, mutexVars
<1>2. w \in Threads /\ w \in Nat
  BY <1>1, ConstantsAssumption DEF Control, TypeOK, Threads
<1>3. status[w] = "ABSENT" /\ status[t] = "RUNNING" /\ pc[w].at = "user"
  <2>1. status[t] = "RUNNING"
    BY <1>1, ActiveRunning DEF Places, Raising
  <2>2. status[w] = "ABSENT"
    BY <1>2 DEF Places, TidsInOrder
  <2> QED BY <1>2, <2>1, <2>2 DEF Places, Statuses
<1> HIDE DEF w
<1>4. status'[w] = "READY" /\ \A u \in Threads : u # w => status'[u] = status[u]
  BY <1>1, <1>2 DEF TypeOK
<1>5. pc'[t].at = "raise" /\ \A u \in Threads : u # t => pc'[u] = pc[u]
  BY <1>1 DEF TypeOK, Goto, Move
<1>6. ReadyOnce' /\ ReadyQueueSorted'
  BY <1>1, <1>2, <1>3, ReadyGains DEF Places
<1>7. TidsInOrder'
  BY <1>1, <1>2, <1>3, <1>4 DEF Places, TidsInOrder, Threads, w
<1>8. Queues'
  BY <1>1, <1>2, <1>3, <1>4, <1>5, SameWaits DEF Places
<1>9. Statuses'
  BY <1>1, <1>3, <1>4, <1>5 DEF Places, Statuses
<1> QED BY <1>6, <1>7, <1>8, <1>9 DEF Places

-----------------------------------------------------------------------------
(* Steps that change the status of the active thread.                      *)

\* The active thread is about to give up the processor.
LEMMA LeavesRunning ==
  ASSUME TypeOK, Places, NEW t \in Threads, activeThread = t, status[t] = "RUNNING",
         NEW s, status' = [status EXCEPT ![t] = s],
         UNCHANGED <<activeThread, quantaCount, readyQueue, nextThreadId>>,
         \A u \in Threads : u # t => pc'[u] = pc[u],
         \/ s = "READY" /\ pc'[t].at = "raise"
         \/ s = "TERMINATED" /\ pc'[t].at = "exit_raise"
         \/ s = "BLOCKED" /\ pc'[t].at \in {"lock_raise", "join_raise"}
  PROVE  TidsInOrder' /\ ReadyOnce' /\ ReadyQueueSorted' /\ Statuses'
<1>1. status'[t] = s /\ \A u \in Threads : u # t => status'[u] = status[u]
  BY DEF TypeOK
<1>2. TidsInOrder'
  BY <1>1 DEF Places, TidsInOrder
<1>3. {u \in Threads : status'[u] = "READY"} \ {t} = {u \in Threads : status[u] = "READY"} \ {t}
  BY <1>1
<1>4. ReadyOnce'
  BY <1>3 DEF Places, ReadyOnce, NoRepeats, Elems
<1>5. ReadyQueueSorted'
  BY DEF Places, ReadyQueueSorted
<1>6. Statuses'
  BY <1>1 DEF Places, Statuses
<1> QED BY <1>2, <1>4, <1>5, <1>6

\* Blocking on a mutex puts the active thread behind the other waiters.
LEMMA BlockOnMutex ==
  ASSUME TypeOK, Places, NEW t \in Threads, LockBlock(t)
  PROVE  Places'
<1>1. PICK m \in Mutexes : m = pc[t].on
  <2>1. pc[t].on \in Mutexes
    BY FrameOperand DEF LockBlock, At, MutexSteps
  <2> QED BY <2>1
<1>2. /\ activeThread = t /\ pc[t].at = "lock_block"
      /\ blockedThreads' = [blockedThreads EXCEPT ![m] = Append(@, t)]
      /\ status' = [status EXCEPT ![t] = "BLOCKED"]
      /\ Goto(t, "lock_raise", m)
      /\ UNCHANGED <<activeThread, quantaCount, readyQueue, nextThreadId, joinQueue>>
  BY <1>1 DEF LockBlock, At, threadVars
<1>3. status[t] = "RUNNING"
  BY <1>2, ActiveRunning DEF Places, Raising
<1>4. /\ pc'[t] = [at |-> "lock_raise", on |-> m]
      /\ \A u \in Threads : u # t => pc'[u] = pc[u]
  BY <1>2 DEF TypeOK, Goto, Move
<1>5. status'[t] = "BLOCKED" /\ \A u \in Threads : u # t => status'[u] = status[u]
  BY <1>2 DEF TypeOK
<1>6. TidsInOrder' /\ ReadyOnce' /\ ReadyQueueSorted' /\ Statuses'
  <2>1. pc'[t].at = "lock_raise"
    BY <1>4
  <2> QED BY <1>2, <1>3, <1>4, <2>1, LeavesRunning
<1>7. WaitingFor(m)' = WaitingFor(m) \cup {t} /\ t \notin WaitingFor(m)
  BY <1>3, <1>4, <1>5 DEF WaitingFor
<1>8. \A x \in Mutexes : x # m => WaitingFor(x)' = WaitingFor(x)
  BY <1>3, <1>4, <1>5 DEF WaitingFor
<1>9. \A u : JoinedOn(u)' = JoinedOn(u)
  BY <1>3, <1>4, <1>5 DEF JoinedOn
<1>10. MutexQueues'
  <2>1. blockedThreads[m] \in Seq(Threads)
    BY <1>1 DEF TypeOK
  <2>2. /\ blockedThreads'[m] = Append(blockedThreads[m], t)
        /\ \A x \in Mutexes : x # m => blockedThreads'[x] = blockedThreads[x]
    BY <1>2, <1>1 DEF TypeOK
  <2>3. Elems(blockedThreads'[m]) = WaitingFor(m)' /\ NoRepeats(blockedThreads'[m])
    BY <1>1, <1>7, <2>1, <2>2, AppendMembers DEF Places, Queues, MutexQueues
  <2>4. \A x \in Mutexes : x # m =>
          Elems(blockedThreads'[x]) = WaitingFor(x)' /\ NoRepeats(blockedThreads'[x])
    BY <1>8, <2>2 DEF Places, Queues, MutexQueues
  <2> QED BY <2>3, <2>4 DEF MutexQueues, NoRepeats, Elems
<1>11. JoinQueues'
  BY <1>2, <1>9 DEF Places, Queues, JoinQueues, NoRepeats, Elems
<1>12. BlockedWait'
  BY <1>1, <1>5, <1>7, <1>8, <1>9 DEF Places, Queues, BlockedWait
<1> QED BY <1>6, <1>10, <1>11, <1>12 DEF Places, Queues

\* A join puts the active thread behind the other joiners of its target.
LEMMA BlockOnJoin ==
  ASSUME TypeOK, Places, NEW t \in Threads, JoinBlock(t)
  PROVE  Places'
<1>1. PICK v \in Threads : v = pc[t].on
  <2>1. pc[t].on \in Threads
    BY FrameOperand DEF JoinBlock, At, JoinSteps
  <2> QED BY <2>1
<1>2. /\ activeThread = t /\ pc[t].at = "join_block"
      /\ joinQueue' = [joinQueue EXCEPT ![v] = Append(@, t)]
      /\ status' = [status EXCEPT ![t] = "BLOCKED"]
      /\ Goto(t, "join_raise", v)
      /\ UNCHANGED <<activeThread, quantaCount, readyQueue, nextThreadId, blockedThreads>>
  BY <1>1 DEF JoinBlock, At, mutexVars
<1>3. status[t] = "RUNNING"
  BY <1>2, ActiveRunning DEF Places, Raising
<1>4. /\ pc'[t] = [at |-> "join_raise", on |-> v]
      /\ \A u \in Threads : u # t => pc'[u] = pc[u]
  BY <1>2 DEF TypeOK, Goto, Move
<1>5. status'[t] = "BLOCKED" /\ \A u \in Threads : u # t => status'[u] = status[u]
  BY <1>2 DEF TypeOK
<1>6. TidsInOrder' /\ ReadyOnce' /\ ReadyQueueSorted' /\ Statuses'
  <2>1. pc'[t].at = "join_raise"
    BY <1>4
  <2> QED BY <1>2, <1>3, <1>4, <2>1, LeavesRunning
<1>7. JoinedOn(v)' = JoinedOn(v) \cup {t} /\ t \notin JoinedOn(v)
  BY <1>3, <1>4, <1>5 DEF JoinedOn
<1>8. \A x \in Threads : x # v => JoinedOn(x)' = JoinedOn(x)
  BY <1>3, <1>4, <1>5 DEF JoinedOn
<1>9. \A x : WaitingFor(x)' = WaitingFor(x)
  BY <1>3, <1>4, <1>5 DEF WaitingFor
<1>10. JoinQueues'
  <2>1. joinQueue[v] \in Seq(Threads)
    BY <1>1 DEF TypeOK
  <2>2. /\ joinQueue'[v] = Append(joinQueue[v], t)
        /\ \A x \in Threads : x # v => joinQueue'[x] = joinQueue[x]
    BY <1>2, <1>1 DEF TypeOK
  <2>3. Elems(joinQueue'[v]) = JoinedOn(v)' /\ NoRepeats(joinQueue'[v])
    BY <1>1, <1>7, <2>1, <2>2, AppendMembers DEF Places, Queues, JoinQueues
  <2>4. \A x \in Threads : x # v =>
          Elems(joinQueue'[x]) = JoinedOn(x)' /\ NoRepeats(joinQueue'[x])
    BY <1>8, <2>2 DEF Places, Queues, JoinQueues
  <2> QED BY <2>3, <2>4 DEF JoinQueues, NoRepeats, Elems
<1>11. MutexQueues'
  BY <1>2, <1>9 DEF Places, Queues, MutexQueues, NoRepeats, Elems
<1>12. BlockedWait'
  BY <1>1, <1>5, <1>7, <1>8, <1>9 DEF Places, Queues, BlockedWait
<1> QED BY <1>6, <1>10, <1>11, <1>12 DEF Places, Queues

-----------------------------------------------------------------------------
(* The scheduler.                                                          *)

\* A switch makes nobody runnable, blocked or ended who was not.
Runnable == {"READY", "RUNNING"}
Ended == {"TERMINATED", "FREED"}
SameLives == \A u \in Threads : /\ status'[u] \in Runnable <=> status[u] \in Runnable
                                /\ status'[u] \in Ended <=> status[u] \in Ended

\* A switch parks the active thread and dispatches the head of the ready queue.
LEMMA SwitchPlaces ==
  ASSUME TypeOK, Places, NEW t \in Threads, activeThread = t, Switch,
         UNCHANGED <<nextThreadId, blockedThreads, joinQueue>>,
         \A u \in Threads : u # t => pc'[u] = pc[u],
         pc'[t].on = pc[t].on,
         pc'[t].at = pc[t].at \/ (pc[t].at \in Raising /\ pc'[t].at = AfterRaise(pc[t].at))
  PROVE  Places' /\ SameLives
<1> DEFINE quanta == [quantaCount EXCEPT ![t] = @ + 1]
           parked == [status EXCEPT ![t] = Parked(@)]
           queue == IF parked[t] = "READY"
                    THEN enqueueByQuanta(readyQueue, t, quanta) ELSE readyQueue
<1>1. /\ quantaCount' = quanta
      /\ \/ /\ queue = <<>> /\ activeThread' = NoThread
            /\ status' = parked /\ readyQueue' = queue
         \/ /\ queue # <<>> /\ activeThread' = Head(queue) /\ readyQueue' = Tail(queue)
            /\ status' = [parked EXCEPT ![Head(queue)] = "RUNNING"]
  BY DEF Switch
<1>2. /\ status[t] \in {"READY", "RUNNING", "BLOCKED", "TERMINATED"}
      /\ status[t] = "BLOCKED" => pc[t].at \in {"lock_raise", "join_raise"}
      /\ pc[t].at = "exit_raise" <=> status[t] = "TERMINATED"
  BY DEF Places, Statuses
<1>3. /\ parked \in [Threads -> {"ABSENT", "READY", "RUNNING", "BLOCKED", "TERMINATED", "FREED"}]
      /\ parked[t] = Parked(status[t]) /\ \A u \in Threads : u # t => parked[u] = status[u]
  BY DEF TypeOK, Parked
<1>4. /\ parked[t] = "READY" <=> status[t] \in {"READY", "RUNNING"}
      /\ parked[t] = "BLOCKED" <=> status[t] = "BLOCKED"
      /\ parked[t] = "FREED" <=> status[t] = "TERMINATED"
      /\ parked[t] \in {"READY", "BLOCKED", "FREED"}
  BY <1>2, <1>3 DEF Parked
<1>5. /\ quanta \in [Threads -> Nat] /\ readyQueue \in Seq(Threads)
      /\ \A u \in Threads : u # t => quanta[u] = quantaCount[u]
  BY DEF TypeOK
<1>6. t \notin Elems(readyQueue)
  BY DEF Places, ReadyOnce
<1> HIDE DEF quanta, parked
<1>7. SortedBy(readyQueue, quanta)
  <2>1. \A i \in 1 .. Len(readyQueue) : readyQueue[i] \in Threads /\ readyQueue[i] # t
    BY <1>5, <1>6 DEF Elems
  <2> QED BY <1>5, <2>1 DEF Places, ReadyQueueSorted, SortedBy
<1>8. /\ queue \in Seq(Threads) /\ NoRepeats(queue) /\ SortedBy(queue, quanta)
      /\ Elems(queue) = {u \in Threads : parked[u] = "READY"}
  <2>1. /\ NoRepeats(readyQueue)
        /\ Elems(readyQueue) = {u \in Threads : status[u] = "READY"} \ {t}
    BY DEF Places, ReadyOnce
  <2>2. CASE parked[t] = "READY"
    <3>1. queue = enqueueByQuanta(readyQueue, t, quanta)
      BY <2>2
    <3>2. {u \in Threads : parked[u] = "READY"} = Elems(readyQueue) \cup {t}
      BY <1>3, <2>1, <2>2
    <3> HIDE DEF queue
    <3>3. SortedBy(queue, quanta)
      BY <1>5, <1>7, <3>1, EnqueueSorted
    <3> QED BY <1>5, <1>6, <2>1, <3>1, <3>2, <3>3, EnqueueMembers
  <2>3. CASE parked[t] # "READY"
    <3>1. queue = readyQueue
      BY <2>3
    <3>2. {u \in Threads : parked[u] = "READY"} = Elems(readyQueue)
      BY <1>3, <2>1, <2>3
    <3> QED BY <1>5, <1>7, <2>1, <3>1, <3>2
  <2> QED BY <2>2, <2>3
<1> HIDE DEF queue
<1>9. /\ pc'[t].at = "exit_raise" <=> pc[t].at = "exit_raise"
      /\ pc[t].at \in {"lock_raise", "join_raise"} =>
           /\ pc'[t].at \in {"lock_raise", "lock_retry"} <=> pc[t].at \in {"lock_raise", "lock_retry"}
           /\ pc'[t].at \in {"join_raise", "join_return"} <=> pc[t].at \in {"join_raise", "join_return"}
  BY DEF AfterRaise, Raising
\* What holds of the parked thread and the others before the dispatch.
<1>10. \A u \in Threads :
         /\ parked[u] = "ABSENT" <=> u >= nextThreadId
         /\ pc'[u].at = "exit_raise" <=> parked[u] = "FREED"
         /\ parked[u] = "ABSENT" => pc'[u].at = "user"
         /\ parked[u] \notin {"RUNNING", "TERMINATED"}
         /\ parked[u] = "BLOCKED" <=> status[u] = "BLOCKED"
         /\ parked[u] = "READY" <=> status[u] \in Runnable
         /\ parked[u] \in Ended <=> status[u] \in Ended
  <2>1. ASSUME NEW u \in Threads, u # t
        PROVE  /\ parked[u] = "ABSENT" <=> u >= nextThreadId
               /\ pc'[u].at = "exit_raise" <=> parked[u] = "FREED"
               /\ parked[u] = "ABSENT" => pc'[u].at = "user"
               /\ parked[u] \notin {"RUNNING", "TERMINATED"}
               /\ parked[u] = "BLOCKED" <=> status[u] = "BLOCKED"
               /\ parked[u] = "READY" <=> status[u] \in Runnable
               /\ parked[u] \in Ended <=> status[u] \in Ended
    BY <1>3, <2>1 DEF Places, TidsInOrder, Statuses, Runnable, Ended
  <2>2. status[t] = "ABSENT" <=> t >= nextThreadId
    BY DEF Places, TidsInOrder
  <2> QED BY <1>2, <1>4, <1>9, <2>1, <2>2 DEF Runnable, Ended
<1>11. /\ SameLives
       /\ \A u \in Threads : status'[u] = "BLOCKED" <=> status[u] = "BLOCKED"
       /\ TidsInOrder' /\ ReadyOnce' /\ ReadyQueueSorted' /\ Statuses'
  <2>1. CASE queue = <<>>
    <3>1. /\ activeThread' = NoThread /\ status' = parked /\ readyQueue' = queue
          /\ NoThread \notin Threads
      BY <1>1, <2>1 DEF Threads, NoThread
    <3>2. ReadyOnce'
      BY <1>8, <3>1 DEF ReadyOnce, NoRepeats, Elems, Threads, NoThread
    <3>3. ReadyQueueSorted'
      BY <1>1, <1>8, <3>1 DEF ReadyQueueSorted, SortedBy
    <3>4. TidsInOrder'
      BY <1>10, <3>1 DEF TidsInOrder
    <3>5. Statuses'
      BY <1>10, <3>1 DEF Statuses
    <3> QED BY <1>10, <3>1, <3>2, <3>3, <3>4, <3>5 DEF SameLives, Runnable, Ended
  <2>2. CASE queue # <<>>
    <3>1. PICK h \in Threads : h = Head(queue)
      BY <1>8, <2>2, DequeueMembers
    <3>2. /\ activeThread' = h /\ readyQueue' = Tail(queue)
          /\ status' = [parked EXCEPT ![h] = "RUNNING"]
      BY <1>1, <2>2, <3>1
    <3>3. /\ Elems(queue) = Elems(Tail(queue)) \cup {h} /\ h \notin Elems(Tail(queue))
          /\ NoRepeats(Tail(queue)) /\ h \in Elems(queue)
      BY <1>8, <2>2, <3>1, DequeueMembers
    <3>4. parked[h] = "READY"
      BY <1>8, <3>3
    <3>5. status'[h] = "RUNNING" /\ \A u \in Threads : u # h => status'[u] = parked[u]
      BY <1>3, <3>2
    <3>6. ReadyOnce'
      <4>1. Elems(readyQueue') = {u \in Threads : status'[u] = "READY"} \ {activeThread'}
        BY <1>8, <3>2, <3>3, <3>5
      <4>2. NoRepeats(readyQueue')
        BY <3>2, <3>3
      <4> QED BY <4>1, <4>2 DEF ReadyOnce, NoRepeats, Elems
    <3>7. ReadyQueueSorted'
      <4>1. /\ Len(Tail(queue)) = Len(queue) - 1 /\ Len(queue) \in Nat
            /\ \A i \in 1 .. Len(queue) - 1 : Tail(queue)[i] = queue[i + 1]
        BY <1>8, <2>2
      <4>2. ASSUME NEW i \in 1 .. Len(Tail(queue)), NEW j \in 1 .. Len(Tail(queue)), i < j
            PROVE  quanta[Tail(queue)[i]] <= quanta[Tail(queue)[j]]
        <5>1. i + 1 \in 1 .. Len(queue) /\ j + 1 \in 1 .. Len(queue) /\ i + 1 < j + 1
          BY <4>1, <4>2
        <5>2. quanta[queue[i + 1]] <= quanta[queue[j + 1]]
          BY <1>8, <5>1 DEF SortedBy
        <5> QED BY <4>1, <5>2
      <4> QED BY <1>1, <3>2, <4>2 DEF ReadyQueueSorted
    <3>8. TidsInOrder'
      BY <1>10, <3>4, <3>5 DEF TidsInOrder
    <3>9. Statuses'
      BY <1>10, <3>2, <3>4, <3>5 DEF Statuses
    <3> QED BY <1>10, <3>4, <3>5, <3>6, <3>7, <3>8, <3>9 DEF SameLives, Runnable, Ended
  <2> QED BY <2>1, <2>2
<1>12. Queues'
  BY <1>2, <1>9, <1>11, SameWaits DEF Places
<1> QED BY <1>11, <1>12 DEF Places

\* The first library call makes the main thread the active one.
LEMMA MainPlaces ==
  ASSUME TypeOK, Places, initMainContext
  PROVE  Places'
<1>1. /\ proc = "running" /\ nextThreadId = 0 /\ activeThread' = Main /\ nextThreadId' = 1
      /\ status' = [status EXCEPT ![Main] = "RUNNING"]
      /\ UNCHANGED <<quantaCount, readyQueue, blockedThreads, joinQueue, pc>>
  BY DEF initMainContext, mutexVars
<1>2. activeThread = NoThread /\ Main \in Threads /\ Main = 0 /\ NoThread \notin Threads
  BY <1>1, ConstantsAssumption DEF TypeOK, Threads, Main, NoThread
<1>3. \A u \in Threads : u \in Nat /\ status[u] = "ABSENT" /\ pc[u].at = "user"
  BY <1>1 DEF Places, TidsInOrder, Statuses, Threads
<1>4. status'[Main] = "RUNNING" /\ \A u \in Threads : u # Main => status'[u] = status[u]
  BY <1>1, <1>2 DEF TypeOK
<1>5. TidsInOrder'
  BY <1>1, <1>2, <1>3, <1>4 DEF TidsInOrder
<1>6. ReadyOnce'
  <2>1. Elems(readyQueue') = {u \in Threads : status'[u] = "READY"} \ {activeThread'}
    BY <1>1, <1>2, <1>3, <1>4 DEF Places, ReadyOnce
  <2> QED BY <1>1, <2>1 DEF Places, ReadyOnce, NoRepeats, Elems
<1>7. ReadyQueueSorted'
  BY <1>1 DEF Places, ReadyQueueSorted
<1>8. Queues'
  BY <1>1, <1>2, <1>3, <1>4, SameWaits DEF Places
<1>9. Statuses'
  BY <1>1, <1>3, <1>4 DEF Statuses
<1> QED BY <1>5, <1>6, <1>7, <1>8, <1>9 DEF Places

-----------------------------------------------------------------------------
(* A step keeps Places.                                                    *)

LEMMA CallPlaces ==
  ASSUME TypeOK, Places, NEW t \in Threads, NEW step, NEW x, Call(t, step, x),
         step # "exit_raise"
  PROVE  Places'
<1>1. /\ activeThread = t /\ pc[t].at \notin Raising /\ Goto(t, step, x)
      /\ UNCHANGED <<activeThread, status, quantaCount, readyQueue, nextThreadId,
                     blockedThreads, joinQueue>>
  BY DEF Call, MayCall, At, Raising, schedVars, threadVars, mutexVars
<1> QED BY <1>1, GoOnTo

LEMMA PlacesStepLifecycle ==
  ASSUME TypeOK, Control, Places, NEW t \in Threads, Lifecycle(t)
  PROVE  Places'
<1>1. CASE CreateCall(t) \/ JoinCall(t)
  BY <1>1, CallPlaces DEF CreateCall, JoinCall
<1>2. CASE CreateBody(t)
  BY <1>2, CreatePlaces
<1>3. CASE Yield(t)
  <2>1. /\ activeThread = t /\ pc[t].at \notin Raising /\ Goto(t, "raise", NoThread)
        /\ status' = [status EXCEPT ![t] = "READY"]
        /\ UNCHANGED <<activeThread, quantaCount, readyQueue, nextThreadId,
                       blockedThreads, joinQueue>>
    BY <1>3 DEF Yield, MayCall, At, Raising, threadVars, mutexVars
  <2>2. pc'[t].at = "raise" /\ \A u \in Threads : u # t => pc'[u] = pc[u]
    BY <2>1 DEF TypeOK, Goto, Move
  <2>3. status[t] = "RUNNING"
    BY <2>1, ActiveRunning DEF Places
  <2>4. TidsInOrder' /\ ReadyOnce' /\ ReadyQueueSorted' /\ Statuses'
    BY <2>1, <2>2, <2>3, LeavesRunning
  <2>5. \A u \in Threads : /\ status'[u] = "BLOCKED" <=> status[u] = "BLOCKED"
                           /\ status[u] = "BLOCKED" => pc'[u] = pc[u]
    BY <2>1, <2>2, <2>3 DEF TypeOK
  <2>6. Queues'
    BY <2>1, <2>5, SameWaits DEF Places
  <2> QED BY <2>4, <2>6 DEF Places
<1>4. CASE ExitCall(t) \/ FunctionReturns(t) \/ ExitEnter(t) \/ JoinSearch(t) \/ JoinReturn(t)
  <2>1. /\ activeThread = t /\ pc[t].at \notin Raising
        /\ UNCHANGED <<activeThread, status, quantaCount, readyQueue, nextThreadId,
                       blockedThreads, joinQueue>>
    BY <1>4 DEF ExitCall, FunctionReturns, ExitEnter, JoinSearch, JoinReturn, At, Raising,
                schedVars, threadVars, mutexVars
  <2>2. \E step, x : Goto(t, step, x) /\ step # "exit_raise"
    BY <1>4 DEF ExitCall, FunctionReturns, ExitEnter, JoinSearch, JoinReturn, LeaveBlock, Return
  <2> QED BY <2>1, <2>2, GoOnTo
<1>5. CASE ExitWake(t)
  BY <1>5, WakeJoiner
<1>6. CASE ExitDone(t)
  <2>1. /\ activeThread = t /\ pc[t].at \notin Raising /\ Goto(t, "exit_raise", NoThread)
        /\ status' = [status EXCEPT ![t] = "TERMINATED"]
        /\ UNCHANGED <<activeThread, quantaCount, readyQueue, nextThreadId,
                       blockedThreads, joinQueue>>
    BY <1>6 DEF ExitDone, At, Raising, mutexVars
  <2>2. pc'[t].at = "exit_raise" /\ \A u \in Threads : u # t => pc'[u] = pc[u]
    BY <2>1 DEF TypeOK, Goto, Move
  <2>3. status[t] = "RUNNING"
    BY <2>1, ActiveRunning DEF Places
  <2>4. TidsInOrder' /\ ReadyOnce' /\ ReadyQueueSorted' /\ Statuses'
    BY <2>1, <2>2, <2>3, LeavesRunning
  <2>5. \A u \in Threads : /\ status'[u] = "BLOCKED" <=> status[u] = "BLOCKED"
                           /\ status[u] = "BLOCKED" => pc'[u] = pc[u]
    BY <2>1, <2>2, <2>3 DEF TypeOK
  <2>6. Queues'
    BY <2>1, <2>5, SameWaits DEF Places
  <2> QED BY <2>4, <2>6 DEF Places
<1>7. CASE JoinBlock(t)
  BY <1>7, BlockOnJoin
<1> QED BY <1>1, <1>2, <1>3, <1>4, <1>5, <1>6, <1>7 DEF Lifecycle

\* Outside destroy's loop nobody waits on a mutex that init may still initialise.
LEMMA NobodyBeforeInit ==
  ASSUME TypeOK, Control, NobodyWaitsOnDestroyed, NEW t \in Threads, InitBody(t)
  PROVE  UNCHANGED blockedThreads
<1> DEFINE m == pc[t].on
<1>1. m \in Mutexes /\ activeThread = t /\ pc[t].at = "init"
  BY FrameOperand DEF InitBody, At, MutexSteps
<1>2. \A u \in Threads : pc[u].at # "destroy_wake"
  BY <1>1 DEF Control, CriticalSteps
<1>3. CASE MayInit(m)
  <2>1. \A u \in Threads : pc[u] # [at |-> "destroy_wake", on |-> m]
    BY <1>2
  <2>2. blockedThreads[m] = <<>>
    BY <1>1, <1>3, <2>1 DEF MayInit, NobodyWaitsOnDestroyed
  <2>3. blockedThreads' = [blockedThreads EXCEPT ![m] = <<>>]
    BY <1>3 DEF InitBody
  <2> QED BY <1>1, <2>2, <2>3 DEF TypeOK
<1>4. CASE ~MayInit(m)
  BY <1>4 DEF InitBody, mutexVars
<1> QED BY <1>3, <1>4

LEMMA PlacesStepLocking ==
  ASSUME TypeOK, Control, NobodyWaitsOnDestroyed, Places, NEW t \in Threads, Locking(t)
  PROVE  Places'
<1>1. CASE \E x \in Mutexes : \E step \in {"init", "lock_check", "unlock", "destroy"} :
             Call(t, step, x)
  BY <1>1, CallPlaces
<1>2. CASE InitBody(t)
  <2>1. /\ activeThread = t /\ pc[t].at \notin Raising /\ Goto(t, "user", NoThread)
        /\ UNCHANGED <<activeThread, status, quantaCount, readyQueue, nextThreadId, joinQueue>>
    BY <1>2 DEF InitBody, LeaveBlock, Return, At, Raising, schedVars, threadVars
  <2> QED BY <1>2, <2>1, NobodyBeforeInit, GoOnTo
<1>3. CASE \/ LockCheck(t) \/ LockTry(t) \/ LockRetry(t) \/ LockGot(t)
           \/ UnlockBody(t) \/ DestroyBody(t) \/ DestroyDone(t)
  <2>1. /\ activeThread = t /\ pc[t].at \notin Raising
        /\ UNCHANGED <<activeThread, status, quantaCount, readyQueue, nextThreadId,
                       blockedThreads, joinQueue>>
    BY <1>3 DEF LockCheck, LockTry, LockRetry, LockGot, UnlockBody, DestroyBody, DestroyDone,
                At, Raising, schedVars, threadVars, mutexVars
  <2>2. \E step, x : Goto(t, step, x) /\ step # "exit_raise"
    BY <1>3 DEF LockCheck, LockTry, LockRetry, LockGot, UnlockBody, DestroyBody, DestroyDone,
                LeaveBlock, Return
  <2> QED BY <2>1, <2>2, GoOnTo
<1>4. CASE LockBlock(t)
  BY <1>4, BlockOnMutex
<1>5. CASE UnlockWake(t) \/ DestroyWake(t)
  <2>1. /\ activeThread = t /\ pc[t].at \in {"unlock_wake", "destroy_wake"}
        /\ pc[t].at \notin Raising
        /\ UNCHANGED <<activeThread, quantaCount, nextThreadId, joinQueue>>
    BY <1>5 DEF UnlockWake, DestroyWake, At, Raising, threadVars
  <2>2. pc[t].on \in Mutexes /\ status[t] = "RUNNING"
    BY <2>1, FrameOperand, ActiveRunning DEF MutexSteps, Places
  <2>3. \/ pc' = pc
        \/ \E step, x : Goto(t, step, x) /\ step # "exit_raise"
    BY <1>5 DEF UnlockWake, DestroyWake, Return
  <2>4. pc'[t].at # "exit_raise" /\ \A u \in Threads : u # t => pc'[u] = pc[u]
    BY <2>1, <2>3 DEF TypeOK, Goto, Move
  <2>5. CASE blockedThreads[pc[t].on] = <<>>
    <3>1. UNCHANGED <<status, readyQueue, blockedThreads>>
      BY <1>5, <2>5 DEF UnlockWake, DestroyWake
    <3> QED BY <2>1, <2>2, <2>4, <3>1, GoOn
  <2>6. CASE blockedThreads[pc[t].on] # <<>>
    <3>1. WakeOldest(pc[t].on)
      BY <1>5, <2>6 DEF UnlockWake, DestroyWake
    <3> QED BY <2>1, <2>2, <2>4, <2>6, <3>1, WakeWaiter
  <2> QED BY <2>5, <2>6
<1> QED
  BY <1>1, <1>2, <1>3, <1>4, <1>5 DEF Locking, InitCall, LockCall, UnlockCall, DestroyCall

\* A raise always switches: it is made outside the blocks.
LEMMA RaiseSwitches ==
  ASSUME TypeOK, Control, NEW t \in Threads, Raise(t)
  PROVE  /\ activeThread = t /\ Switch /\ pc[t].at \in Raising
         /\ Goto(t, AfterRaise(pc[t].at), pc[t].on)
         /\ pc'[t].at = AfterRaise(pc[t].at) /\ pc'[t].on = pc[t].on
         /\ \A u \in Threads : u # t => pc'[u] = pc[u]
         /\ UNCHANGED <<threadVars, mutexVars, ghostVars>>
<1>1. activeThread = t /\ pc[t].at \in Raising
  BY DEF Raise, At, Raising
<1>2. ~doNotInterrupt
  BY <1>1 DEF Control, CriticalSteps, Raising
<1>3. Switch /\ Goto(t, AfterRaise(pc[t].at), pc[t].on) /\ UNCHANGED <<threadVars, mutexVars, ghostVars>>
  BY <1>2 DEF Raise
<1> QED BY <1>1, <1>3 DEF TypeOK, Goto, Move

LEMMA PlacesStep ==
  ASSUME TypeOK, Control, NobodyWaitsOnDestroyed, Places, [Next]_vars
  PROVE  Places'
<1>1. CASE UNCHANGED <<activeThread, status, quantaCount, readyQueue, nextThreadId,
                       blockedThreads, joinQueue, pc>>
  <2>1. TidsInOrder' /\ ReadyOnce' /\ ReadyQueueSorted'
    BY <1>1 DEF Places, TidsInOrder, ReadyOnce, ReadyQueueSorted, NoRepeats, Elems
  <2>2. Queues' /\ Statuses'
    BY <1>1, SameWaits DEF Places, Statuses
  <2> QED BY <2>1, <2>2 DEF Places
<1>2. CASE UNCHANGED vars \/ Stopped \/ MainReturns
  BY <1>1, <1>2 DEF Stopped, MainReturns, vars, schedVars, threadVars, mutexVars
<1>3. CASE initMainContext
  BY <1>3, MainPlaces
<1>4. ASSUME NEW t \in Threads, Raise(t) PROVE Places'
  BY <1>4, RaiseSwitches, SwitchPlaces DEF threadVars, mutexVars
<1>5. CASE TimerFires
  <2>1. activeThread \in Threads
    BY <1>5 DEF TimerFires, Control
  <2>2. CASE doNotInterrupt
    BY <1>1, <1>5, <2>2 DEF TimerFires, threadVars, mutexVars
  <2>3. CASE ~doNotInterrupt
    BY <1>5, <2>1, <2>3, SwitchPlaces DEF TimerFires, threadVars, mutexVars
  <2> QED BY <2>2, <2>3
<1> QED
  BY <1>2, <1>3, <1>4, <1>5, PlacesStepLifecycle, PlacesStepLocking DEF Next

-----------------------------------------------------------------------------
(* Wake-ups.                                                               *)

\* Per mutex: who will wake or try it, who empties its queue once it is destroyed, and
\* who will give it back if it was locked after that.
Woken(m) ==
  /\ ~locked[m] /\ blockedThreads[m] # <<>> =>
       \E t \in Threads : Retrying(t, m) \/ Waking(t, m)
  /\ ~initialized[m] /\ blockedThreads[m] # <<>> =>
       \E t \in Threads : pc[t] = [at |-> "destroy_wake", on |-> m]
  /\ locked[m] /\ ~initialized[m] =>
       \E t \in Threads : pc[t] = [at |-> "lock_got", on |-> m]

\* A thread about to block has found the mutex locked, and it still is.
Blocking == \A t \in Threads :
  pc[t].at = "lock_block" => locked[pc[t].on] /\ initialized[pc[t].on]

Wakeups == (\A m \in Mutexes : Woken(m)) /\ Blocking

WakeSteps == {"lock_raise", "lock_retry", "lock_try", "lock_got", "unlock_wake",
              "destroy_wake"}

LEMMA WakeupsGoals == Wakeups => NoLostWakeup /\ NobodyWaitsOnDestroyed
BY DEF Wakeups, Woken, NoLostWakeup, NobodyWaitsOnDestroyed

\* A step of t leaves the promises of m alone, if t was no witness for them.
LEMMA OtherMutex ==
  ASSUME NEW t \in Threads, NEW m \in Mutexes, Woken(m),
         pc[t].on # m \/ pc[t].at \notin WakeSteps,
         \A u \in Threads : u # t =>
           pc'[u] = pc[u] /\ (status[u] \in Runnable => status'[u] \in Runnable),
         initialized'[m] = initialized[m], locked'[m] = locked[m],
         blockedThreads'[m] = blockedThreads[m]
  PROVE  Woken(m)'
<1>1. \A u \in Threads : Retrying(u, m) \/ Waking(u, m) => u # t /\ (Retrying(u, m) \/ Waking(u, m))'
  BY DEF Retrying, Waking, WakeSteps, Runnable
<1>2. \A u \in Threads : pc[u] = [at |-> "destroy_wake", on |-> m] => pc'[u] = pc[u]
  BY DEF WakeSteps
<1>3. \A u \in Threads : pc[u] = [at |-> "lock_got", on |-> m] => pc'[u] = pc[u]
  BY DEF WakeSteps
<1>4. ~locked'[m] /\ blockedThreads'[m] # <<>> =>
        \E u \in Threads : (Retrying(u, m) \/ Waking(u, m))'
  BY <1>1 DEF Woken
<1>5. ~initialized'[m] /\ blockedThreads'[m] # <<>> =>
        \E u \in Threads : pc'[u] = [at |-> "destroy_wake", on |-> m]
  BY <1>2 DEF Woken
<1>6. locked'[m] /\ ~initialized'[m] =>
        \E u \in Threads : pc'[u] = [at |-> "lock_got", on |-> m]
  BY <1>3 DEF Woken
<1> QED BY <1>4, <1>5, <1>6 DEF Woken

\* Only the active thread can be about to block.
LEMMA NobodyBlocking ==
  ASSUME Control, NEW t \in Threads, activeThread = t,
         \A u \in Threads : u # t => pc'[u] = pc[u],
         pc'[t].at # "lock_block"
  PROVE  Blocking'
BY DEF Control, CriticalSteps, Blocking

LEMMA WakeupsGoOn ==
  ASSUME TypeOK, Control, Wakeups, NEW t \in Threads, activeThread = t,
         pc[t].at \notin WakeSteps, pc'[t].at # "lock_block",
         UNCHANGED <<initialized, locked, blockedThreads>>,
         \A u \in Threads : u # t =>
           pc'[u] = pc[u] /\ (status[u] \in Runnable => status'[u] \in Runnable)
  PROVE  Wakeups'
BY OtherMutex, NobodyBlocking DEF Wakeups

LEMMA GotoFrame ==
  ASSUME TypeOK, NEW t \in Threads, NEW step, NEW x, Goto(t, step, x)
  PROVE  /\ pc'[t] = [at |-> step, on |-> x] /\ pc'[t].at = step /\ pc'[t].on = x
         /\ \A u \in Threads : u # t => pc'[u] = pc[u]
BY DEF TypeOK, Goto, Move

LEMMA WakeupsStepLifecycle ==
  ASSUME TypeOK, Control, Places, Wakeups, NEW t \in Threads, Lifecycle(t)
  PROVE  Wakeups'
<1>1. /\ activeThread = t /\ pc[t].at \notin WakeSteps
      /\ UNCHANGED <<initialized, locked, blockedThreads>>
  BY DEF Lifecycle, CreateCall, CreateBody, Yield, ExitCall, FunctionReturns, ExitEnter,
         ExitWake, ExitDone, JoinCall, JoinSearch, JoinBlock, JoinReturn, Call, MayCall, At,
         mutexVars, WakeSteps
<1>2. \/ pc' = pc /\ pc[t].at = "exit_wake"
      \/ \E step, x : Goto(t, step, x) /\ step # "lock_block"
  BY DEF Lifecycle, CreateCall, CreateBody, Yield, ExitCall, FunctionReturns, ExitEnter,
         ExitWake, ExitDone, JoinCall, JoinSearch, JoinBlock, JoinReturn, Call, LeaveBlock,
         Return, At
<1>3. pc'[t].at # "lock_block" /\ \A u \in Threads : u # t => pc'[u] = pc[u]
  BY <1>2, GotoFrame
<1>4. \A u \in Threads : u # t => (status[u] \in Runnable => status'[u] \in Runnable)
  <2>1. CASE CreateBody(t)
    BY <2>1 DEF CreateBody, TypeOK, Runnable
  <2>2. CASE ExitWake(t)
    BY <2>2 DEF ExitWake, TypeOK, Runnable
  <2>3. CASE status' = status \/ \E s : status' = [status EXCEPT ![t] = s]
    BY <2>3 DEF TypeOK
  <2> QED
    BY <2>1, <2>2, <2>3
       DEF Lifecycle, CreateCall, Yield, ExitCall, FunctionReturns, ExitEnter, ExitDone,
           JoinCall, JoinSearch, JoinBlock, JoinReturn, Call, schedVars
<1> QED BY <1>1, <1>3, <1>4, WakeupsGoOn

LEMMA WakeupsStepLocking ==
  ASSUME TypeOK, Control, Places, Wakeups, NEW t \in Threads, Locking(t)
  PROVE  Wakeups'
<1> USE DEF At
<1>1. CASE \E x \in Mutexes : \E step \in {"init", "lock_check", "unlock", "destroy"} :
             Call(t, step, x)
  <2>1. PICK x \in Mutexes, step \in {"init", "lock_check", "unlock", "destroy"} :
          Call(t, step, x)
    BY <1>1
  <2>2. /\ activeThread = t /\ pc[t].at = "user" /\ Goto(t, step, x)
        /\ UNCHANGED <<initialized, locked, blockedThreads, status>>
    BY <2>1 DEF Call, MayCall, schedVars, mutexVars
  <2>3. pc'[t].at # "lock_block" /\ \A u \in Threads : u # t => pc'[u] = pc[u]
    BY <2>2, GotoFrame
  <2> QED BY <2>2, <2>3, WakeupsGoOn DEF WakeSteps
<1>2. CASE LockRetry(t)
  <2>1. PICK m \in Mutexes : m = pc[t].on
    BY <1>2, FrameOperand DEF LockRetry, MutexSteps
  <2>2. /\ activeThread = t /\ pc[t].at = "lock_retry" /\ Goto(t, "lock_try", m)
        /\ UNCHANGED <<initialized, locked, blockedThreads, status>>
    BY <1>2, <2>1 DEF LockRetry, schedVars, mutexVars
  <2>3. pc'[t].at = "lock_try" /\ pc'[t].on = m /\ \A u \in Threads : u # t => pc'[u] = pc[u]
    BY <2>2, GotoFrame
  <2>4. \A x \in Mutexes : x # m => Woken(x)'
    BY <2>1, <2>2, <2>3, OtherMutex DEF Wakeups
  <2>5. \A u \in Threads : Retrying(u, m) \/ Waking(u, m) => (Retrying(u, m) \/ Waking(u, m))'
    BY <2>2, <2>3 DEF Retrying, Waking
  <2>6. \A u \in Threads : \A step \in {"destroy_wake", "lock_got"} :
          pc[u] = [at |-> step, on |-> m] => pc'[u] = pc[u]
    BY <2>2, <2>3
  <2>7. Woken(m)'
    <3>1. Woken(m)
      BY DEF Wakeups
    <3>2. ~locked'[m] /\ blockedThreads'[m] # <<>> =>
            \E u \in Threads : (Retrying(u, m) \/ Waking(u, m))'
      BY <2>2, <2>5, <3>1 DEF Woken
    <3>3. ~initialized'[m] /\ blockedThreads'[m] # <<>> =>
            \E u \in Threads : pc'[u] = [at |-> "destroy_wake", on |-> m]
      BY <2>2, <2>6, <3>1 DEF Woken
    <3>4. locked'[m] /\ ~initialized'[m] =>
            \E u \in Threads : pc'[u] = [at |-> "lock_got", on |-> m]
      BY <2>2, <2>6, <3>1 DEF Woken
    <3> QED BY <3>2, <3>3, <3>4 DEF Woken
  <2>8. Blocking'
    BY <2>2, <2>3, NobodyBlocking
  <2> QED BY <2>4, <2>7, <2>8 DEF Wakeups
<1>3. CASE \/ InitBody(t) \/ LockCheck(t) \/ LockTry(t) \/ LockBlock(t) \/ LockGot(t)
           \/ UnlockBody(t) \/ UnlockWake(t) \/ DestroyBody(t) \/ DestroyWake(t)
           \/ DestroyDone(t)
  <2>1. PICK m \in Mutexes : m = pc[t].on
    BY <1>3, FrameOperand
       DEF InitBody, LockCheck, LockTry, LockBlock, LockGot, UnlockBody, UnlockWake,
           DestroyBody, DestroyWake, DestroyDone, MutexSteps
  <2>2. activeThread = t /\ pc[t].at \in CriticalSteps
    BY <1>3 DEF InitBody, LockCheck, LockTry, LockBlock, LockGot, UnlockBody, UnlockWake,
                DestroyBody, DestroyWake, DestroyDone, CriticalSteps
  <2>3. \A u \in Threads : u # t => pc[u].at \notin CriticalSteps
    BY <2>2 DEF Control
  <2>4. \/ pc' = pc /\ pc[t].at = "destroy_wake"
        \/ \E step, x : Goto(t, step, x)
    BY <1>3 DEF InitBody, LockCheck, LockTry, LockBlock, LockGot, UnlockBody, UnlockWake,
                DestroyBody, DestroyWake, DestroyDone, LeaveBlock, Return
  <2>5. \A u \in Threads : u # t => pc'[u] = pc[u]
    BY <2>4, GotoFrame
  <2>6. \A u \in Threads : u # t => (status[u] \in Runnable => status'[u] \in Runnable)
    <3>1. \/ status' = status
          \/ \E s : status' = [status EXCEPT ![t] = s]
          \/ \E w : status' = [status EXCEPT ![w] = "READY"]
      BY <1>3 DEF InitBody, LockCheck, LockTry, LockBlock, LockGot, UnlockBody, UnlockWake,
                  DestroyBody, DestroyWake, DestroyDone, WakeOldest, schedVars
    <3> QED BY <3>1 DEF TypeOK, Runnable
  <2>7. \A x \in Mutexes : x # m => /\ initialized'[x] = initialized[x]
                                    /\ locked'[x] = locked[x]
                                    /\ blockedThreads'[x] = blockedThreads[x]
    BY <1>3, <2>1 DEF InitBody, LockCheck, LockTry, LockBlock, LockGot, UnlockBody, UnlockWake,
                DestroyBody, DestroyWake, DestroyDone, WakeOldest, mutexVars, TypeOK
  <2>8. \A x \in Mutexes : x # m => Woken(x)'
    BY <2>1, <2>5, <2>6, <2>7, OtherMutex DEF Wakeups
  <2>9. Woken(m) /\ Blocking
    BY DEF Wakeups
\* Inside a block the only critical witness can be the active thread itself.
  <2>10. \A step \in {"destroy_wake", "lock_got"} : pc[t].at # step =>
           \A u \in Threads : pc[u] # [at |-> step, on |-> m]
    BY <2>3 DEF CriticalSteps
  <2>11. /\ pc[t].at # "destroy_wake" /\ ~initialized[m] => blockedThreads[m] = <<>>
         /\ pc[t].at # "lock_got" => ~(locked[m] /\ ~initialized[m])
    BY <2>9, <2>10 DEF Woken
\* It is enough to see to m, and to t if it blocks.
  <2>12. ASSUME Woken(m)', pc'[t].at # "lock_block" PROVE Wakeups'
    <3>1. Blocking'
      BY <2>2, <2>5, <2>12, NobodyBlocking
    <3> QED BY <2>8, <2>12, <3>1 DEF Wakeups
  <2>13. ASSUME pc[t].at \notin WakeSteps, pc'[t].at # "lock_block",
                UNCHANGED <<initialized, locked, blockedThreads>>
         PROVE  Wakeups'
    <3>1. Woken(m)'
      BY <2>5, <2>6, <2>9, <2>13, OtherMutex
    <3> QED BY <2>12, <2>13, <3>1
  <2>14. CASE InitBody(t)
    <3>1. pc[t].at \notin WakeSteps /\ Goto(t, "user", NoThread)
      BY <2>14 DEF InitBody, LeaveBlock, Return, WakeSteps
    <3>2. pc'[t].at = "user"
      BY <3>1, GotoFrame
    <3>3. CASE MayInit(m)
      <4>1. initialized'[m] = TRUE /\ blockedThreads'[m] = <<>>
        BY <2>1, <2>14, <3>3 DEF InitBody, TypeOK
      <4>2. Woken(m)'
        BY <4>1 DEF Woken
      <4> QED BY <2>12, <3>2, <4>2
    <3>4. CASE ~MayInit(m)
      <4>1. UNCHANGED <<initialized, locked, blockedThreads>>
        BY <2>1, <2>14, <3>4 DEF InitBody, mutexVars
      <4> QED BY <2>13, <3>1, <3>2, <4>1
    <3> QED BY <3>3, <3>4
  <2>15. CASE LockCheck(t)
    <3>1. /\ pc[t].at \notin WakeSteps
          /\ Goto(t, "user", NoThread) \/ Goto(t, "lock_try", m)
          /\ UNCHANGED <<initialized, locked, blockedThreads>>
      BY <2>1, <2>15 DEF LockCheck, LeaveBlock, Return, WakeSteps, mutexVars
    <3>2. pc'[t].at = "user" \/ pc'[t].at = "lock_try"
      BY <3>1, GotoFrame
    <3> QED BY <2>13, <3>1, <3>2
  <2>16. CASE LockTry(t)
    <3>1. /\ pc[t].at = "lock_try" /\ UNCHANGED <<initialized, blockedThreads>>
          /\ locked' = [locked EXCEPT ![m] = TRUE]
          /\ Goto(t, IF locked[m] THEN "lock_block" ELSE "lock_got", m)
      BY <2>1, <2>16 DEF LockTry
    <3>2. locked'[m] = TRUE
      BY <2>1, <3>1 DEF TypeOK
    <3>3. CASE locked[m]
      <4>1. initialized[m]
        BY <2>11, <3>1, <3>3
      <4>2. Woken(m)'
        BY <3>1, <3>2, <4>1 DEF Woken
      <4>3. pc'[t].on = m
        BY <3>1, GotoFrame
      <4>4. \A u \in Threads : u # t => pc'[u].at # "lock_block"
        BY <2>3, <2>5 DEF CriticalSteps
      <4>5. Blocking'
        BY <3>1, <3>2, <4>1, <4>3, <4>4 DEF Blocking
      <4> QED BY <2>8, <4>2, <4>5 DEF Wakeups
    <3>4. CASE ~locked[m]
      <4>1. pc'[t] = [at |-> "lock_got", on |-> m] /\ pc'[t].at # "lock_block"
        BY <3>1, <3>4, GotoFrame
      <4>2. ~initialized'[m] => blockedThreads'[m] = <<>>
        BY <2>11, <3>1
      <4>3. Woken(m)'
        BY <3>2, <4>1, <4>2 DEF Woken
      <4> QED BY <2>12, <4>1, <4>3
    <3> QED BY <3>3, <3>4
  <2>17. CASE LockBlock(t)
    <3>1. /\ pc[t].at = "lock_block" /\ UNCHANGED <<initialized, locked>>
          /\ Goto(t, "lock_raise", m)
      BY <2>1, <2>17 DEF LockBlock
    <3>2. locked[m] /\ initialized[m]
      BY <2>1, <2>9, <3>1 DEF Blocking
    <3>3. Woken(m)'
      BY <3>1, <3>2 DEF Woken
    <3>4. pc'[t].at = "lock_raise"
      BY <3>1, GotoFrame
    <3> QED BY <2>12, <3>3, <3>4
  <2>18. CASE LockGot(t)
    <3>1. /\ pc[t].at = "lock_got" /\ UNCHANGED <<initialized, blockedThreads, status>>
          /\ Goto(t, "user", NoThread)
      BY <2>18 DEF LockGot, LeaveBlock, Return, schedVars
    <3>2. pc'[t].at = "user"
      BY <3>1, GotoFrame
    <3>3. CASE initialized[m]
      <4>1. locked' = locked
        BY <2>1, <2>18, <3>3 DEF LockGot
      <4>2. ~locked[m] /\ blockedThreads[m] # <<>> =>
              \E u \in Threads : u # t /\ (Retrying(u, m) \/ Waking(u, m))
        BY <2>9, <3>1 DEF Woken, Retrying, Waking
      <4>3. \A u \in Threads : u # t /\ (Retrying(u, m) \/ Waking(u, m)) =>
              (Retrying(u, m) \/ Waking(u, m))'
        BY <2>5, <3>1 DEF Retrying, Waking
      <4>4. ~locked'[m] /\ blockedThreads'[m] # <<>> =>
              \E u \in Threads : (Retrying(u, m) \/ Waking(u, m))'
        BY <3>1, <4>1, <4>2, <4>3
      <4>5. Woken(m)'
        BY <3>1, <3>3, <4>4 DEF Woken
      <4> QED BY <2>12, <3>2, <4>5
    <3>4. CASE ~initialized[m]
      <4>1. locked'[m] = FALSE
        BY <2>1, <2>18, <3>4 DEF LockGot, TypeOK
      <4>2. blockedThreads'[m] = <<>>
        BY <2>11, <3>1, <3>4
      <4>3. Woken(m)'
        BY <4>1, <4>2 DEF Woken
      <4> QED BY <2>12, <3>2, <4>3
    <3> QED BY <3>3, <3>4
  <2>19. CASE UnlockBody(t)
    <3>1. pc[t].at = "unlock" /\ UNCHANGED <<initialized, blockedThreads>>
      BY <2>19 DEF UnlockBody, mutexVars
    <3>2. CASE MayUnlock(t, m)
      <4>1. Goto(t, "unlock_wake", m) /\ initialized[m]
        BY <2>1, <2>19, <3>2 DEF UnlockBody, MayUnlock
      <4>2. pc'[t].at = "unlock_wake" /\ pc'[t].on = m
        BY <4>1, GotoFrame
      <4>3. Waking(t, m)'
        BY <4>2 DEF Waking
      <4>4. Woken(m)'
        BY <3>1, <4>1, <4>3 DEF Woken
      <4> QED BY <2>12, <4>2, <4>4
    <3>3. CASE ~MayUnlock(t, m)
      <4>1. Goto(t, "user", NoThread) /\ UNCHANGED locked
        BY <2>1, <2>19, <3>3 DEF UnlockBody, LeaveBlock, Return, mutexVars
      <4>2. pc'[t].at = "user"
        BY <4>1, GotoFrame
      <4> QED BY <2>13, <3>1, <4>1, <4>2 DEF WakeSteps
    <3> QED BY <3>2, <3>3
  <2>20. CASE UnlockWake(t)
    <3>1. /\ pc[t].at = "unlock_wake" /\ UNCHANGED <<initialized, locked>>
          /\ Goto(t, "user", NoThread) \/ Goto(t, "raise", NoThread)
      BY <2>20 DEF UnlockWake, Return
    <3>2. pc'[t].at = "user" \/ pc'[t].at = "raise"
      BY <3>1, GotoFrame
    <3>3. CASE blockedThreads[m] = <<>>
      <4>1. blockedThreads'[m] = <<>>
        BY <2>1, <2>20, <3>3 DEF UnlockWake
      <4>2. Woken(m)'
        BY <2>11, <3>1, <4>1 DEF Woken
      <4> QED BY <2>12, <3>2, <4>2
    <3>4. CASE blockedThreads[m] # <<>>
      <4>1. initialized[m]
        BY <2>11, <3>1, <3>4
      <4>2. PICK w \in WaitingFor(m) : w = Head(blockedThreads[m])
        <5>1. blockedThreads[m] \in Seq(Threads)
          BY DEF TypeOK
        <5> QED BY <3>4, <5>1, DequeueMembers DEF Places, Queues, MutexQueues
      <4>3. w \in Threads /\ status'[w] = "READY"
        BY <2>1, <2>20, <3>4, <4>2 DEF UnlockWake, WakeOldest, WaitingFor, TypeOK
      <4>4. pc'[w] = pc[w]
        BY <2>5, <3>1, <4>2 DEF WaitingFor
      <4>5. Retrying(w, m)'
        BY <4>2, <4>3, <4>4 DEF WaitingFor, Retrying
      <4>6. Woken(m)'
        BY <3>1, <4>1, <4>3, <4>5 DEF Woken
      <4> QED BY <2>12, <3>2, <4>6
    <3> QED BY <3>3, <3>4
  <2>21. CASE DestroyBody(t)
    <3>1. pc[t].at = "destroy" /\ UNCHANGED blockedThreads
      BY <2>21 DEF DestroyBody
    <3>2. CASE MayDestroy(m)
      <4>1. locked'[m] = FALSE
        BY <2>1, <2>21, <3>2 DEF DestroyBody, TypeOK
      <4>2. CASE blockedThreads[m] = <<>>
        <5>1. Goto(t, "user", NoThread)
          BY <2>1, <2>21, <4>2 DEF DestroyBody, LeaveBlock, Return
        <5>2. pc'[t].at = "user"
          BY <5>1, GotoFrame
        <5>3. Woken(m)'
          BY <3>1, <4>1, <4>2 DEF Woken
        <5> QED BY <2>12, <5>2, <5>3
      <4>3. CASE blockedThreads[m] # <<>>
        <5>1. Goto(t, "destroy_wake", m)
          BY <2>1, <2>21, <3>2, <4>3 DEF DestroyBody
        <5>2. pc'[t] = [at |-> "destroy_wake", on |-> m] /\ pc'[t].at = "destroy_wake" /\ pc'[t].on = m
          BY <5>1, GotoFrame
        <5>3. Waking(t, m)'
          BY <5>2 DEF Waking
        <5>4. Woken(m)'
          BY <4>1, <5>2, <5>3 DEF Woken
        <5> QED BY <2>12, <5>2, <5>4
      <4> QED BY <4>2, <4>3
    <3>3. CASE ~MayDestroy(m)
      <4>1. Goto(t, "user", NoThread) /\ UNCHANGED <<initialized, locked>>
        BY <2>1, <2>21, <3>3 DEF DestroyBody, LeaveBlock, Return
      <4>2. pc'[t].at = "user"
        BY <4>1, GotoFrame
      <4> QED BY <2>13, <3>1, <4>1, <4>2 DEF WakeSteps
    <3> QED BY <3>2, <3>3
  <2>22. CASE DestroyWake(t)
    <3>1. pc[t].at = "destroy_wake" /\ UNCHANGED <<initialized, locked, pc>>
      BY <2>22 DEF DestroyWake
    <3>2. pc'[t] = [at |-> "destroy_wake", on |-> m]
      BY <2>1, <3>1 DEF TypeOK, Frame
    <3>3. Waking(t, m)'
      BY <2>1, <3>1 DEF Waking
    <3>4. Woken(m)'
      BY <2>11, <3>1, <3>2, <3>3 DEF Woken
    <3> QED BY <2>12, <3>1, <3>4
  <2>23. CASE DestroyDone(t)
    <3>1. /\ pc[t].at = "destroy_wake" /\ blockedThreads[m] = <<>>
          /\ UNCHANGED <<initialized, locked, blockedThreads>> /\ Goto(t, "raise", NoThread)
      BY <2>1, <2>23 DEF DestroyDone, mutexVars
    <3>2. Woken(m)'
      BY <2>11, <3>1 DEF Woken
    <3>3. pc'[t].at # "lock_block"
      BY <3>1, GotoFrame
    <3> QED BY <2>12, <3>2, <3>3
  <2> QED
    BY <1>3, <2>14, <2>15, <2>16, <2>17, <2>18, <2>19, <2>20, <2>21, <2>22, <2>23
<1> QED
  BY <1>1, <1>2, <1>3 DEF Locking, InitCall, LockCall, UnlockCall, DestroyCall

\* A switch keeps the promises: a thread that retries goes on to retry.
LEMMA SwitchWakeups ==
  ASSUME Wakeups, SameLives, NEW t \in Threads,
         UNCHANGED <<initialized, locked, blockedThreads>>,
         \A u \in Threads : u # t => pc'[u] = pc[u],
         \/ pc'[t] = pc[t]
         \/ /\ pc[t].at \in Raising
            /\ pc'[t].at = AfterRaise(pc[t].at) /\ pc'[t].on = pc[t].on
  PROVE  Wakeups'
<1>1. /\ pc[t].at \in Raising /\ pc'[t].at = AfterRaise(pc[t].at) =>
           pc'[t].at \notin {"lock_block", "unlock_wake", "destroy_wake", "lock_got"}
      /\ pc[t].at = "lock_raise" /\ pc'[t].at = AfterRaise(pc[t].at) => pc'[t].at = "lock_retry"
  BY DEF Raising, AfterRaise
<1>2. ASSUME NEW m \in Mutexes PROVE Woken(m)'
  <2>1. Woken(m)
    BY DEF Wakeups
  <2>2. \A u \in Threads : Retrying(u, m) \/ Waking(u, m) => (Retrying(u, m) \/ Waking(u, m))'
    <3>1. ASSUME NEW u \in Threads, Retrying(u, m) PROVE Retrying(u, m)'
      <4>1. status'[u] \in {"READY", "RUNNING"}
        BY <3>1 DEF Retrying, SameLives, Runnable
      <4>2. pc'[u].at \in {"lock_raise", "lock_retry", "lock_try"} /\ pc'[u].on = m
        BY <1>1, <3>1 DEF Retrying, Raising
      <4> QED BY <4>1, <4>2 DEF Retrying
    <3>2. ASSUME NEW u \in Threads, Waking(u, m) PROVE Waking(u, m)'
      <4>1. pc'[u] = pc[u]
        BY <3>2 DEF Waking, Raising
      <4> QED BY <3>2, <4>1 DEF Waking
    <3> QED BY <3>1, <3>2
  <2>3. \A u \in Threads : \A step \in {"destroy_wake", "lock_got"} :
          pc[u] = [at |-> step, on |-> m] => pc'[u] = pc[u]
    BY DEF Raising
  <2>4. ~locked'[m] /\ blockedThreads'[m] # <<>> =>
          \E u \in Threads : (Retrying(u, m) \/ Waking(u, m))'
    BY <2>1, <2>2 DEF Woken
  <2>5. ~initialized'[m] /\ blockedThreads'[m] # <<>> =>
          \E u \in Threads : pc'[u] = [at |-> "destroy_wake", on |-> m]
    BY <2>1, <2>3 DEF Woken
  <2>6. locked'[m] /\ ~initialized'[m] =>
          \E u \in Threads : pc'[u] = [at |-> "lock_got", on |-> m]
    BY <2>1, <2>3 DEF Woken
  <2> QED BY <2>4, <2>5, <2>6 DEF Woken
<1>3. Blocking'
  <2>1. \A u \in Threads : pc'[u].at = "lock_block" => pc'[u] = pc[u]
    BY <1>1
  <2> QED BY <2>1 DEF Wakeups, Blocking
<1> QED BY <1>2, <1>3 DEF Wakeups

LEMMA WakeupsStep ==
  ASSUME TypeOK, Control, Places, Wakeups, [Next]_vars
  PROVE  Wakeups'
<1>1. CASE UNCHANGED <<initialized, locked, blockedThreads, pc, status>>
  <2>1. \A t, m : Retrying(t, m)' = Retrying(t, m) /\ Waking(t, m)' = Waking(t, m)
    BY <1>1 DEF Retrying, Waking
  <2> QED BY <1>1, <2>1 DEF Wakeups, Woken, Blocking
<1>2. CASE UNCHANGED vars \/ Stopped \/ MainReturns
  BY <1>1, <1>2 DEF Stopped, MainReturns, vars, schedVars, threadVars, mutexVars
<1>3. CASE initMainContext
  <2>1. UNCHANGED <<initialized, locked, blockedThreads, pc>> /\ Main \in Threads
    BY <1>3, ConstantsAssumption DEF initMainContext, mutexVars, Main, Threads
  <2>2. \A u \in Threads : status[u] = "ABSENT" /\ pc[u].at = "user"
    BY <1>3 DEF initMainContext, Places, TidsInOrder, Statuses, Threads
  <2>3. \A u \in Threads : \A m : ~Retrying(u, m) /\ ~Waking(u, m)
    BY <2>2 DEF Retrying, Waking
  <2>4. \A m \in Mutexes : ~(~locked[m] /\ blockedThreads[m] # <<>>)
    BY <2>3 DEF Wakeups, Woken
  <2>5. \A m \in Mutexes : Woken(m)'
    BY <2>1, <2>4 DEF Wakeups, Woken
  <2> QED BY <2>1, <2>5 DEF Wakeups, Blocking
<1>4. ASSUME NEW t \in Threads, Raise(t) PROVE Wakeups'
  <2>1. SameLives
    BY <1>4, RaiseSwitches, SwitchPlaces DEF threadVars, mutexVars
  <2> QED BY <1>4, <2>1, RaiseSwitches, SwitchWakeups DEF mutexVars
<1>5. CASE TimerFires
  <2>1. activeThread \in Threads
    BY <1>5 DEF TimerFires, Control
  <2>2. CASE doNotInterrupt
    BY <1>1, <1>5, <2>2 DEF TimerFires, threadVars, mutexVars
  <2>3. CASE ~doNotInterrupt
    <3>1. SameLives
      BY <1>5, <2>1, <2>3, SwitchPlaces DEF TimerFires, threadVars, mutexVars
    <3> QED BY <1>5, <2>1, <3>1, SwitchWakeups DEF TimerFires, mutexVars
  <2> QED BY <2>2, <2>3
<1> QED
  BY <1>2, <1>3, <1>4, <1>5, WakeupsStepLifecycle, WakeupsStepLocking DEF Next

-----------------------------------------------------------------------------
(* Joins.                                                                  *)

\* A thread that has begun to wake its joiners, or has ended.
Exiting(u) == status[u] \in Ended \/ pc[u].at = "exit_wake"

\* A joiner of u that is runnable again was woken by the exit of u, with its value.
Released(t, u) ==
  pc[t].at \in {"join_raise", "join_return"} /\ pc[t].on = u /\ status[t] \in Runnable

Joins ==
  /\ NobodyWaitsOnTerminated
  /\ \A t, u \in Threads : pc[t].at = "join_block" /\ pc[t].on = u => u \in allThreads
  /\ \A t, u \in Threads : Released(t, u) =>
       Exiting(u) /\ retVal[t] \in {NoAddress, ExitValue(u)}

LEMMA JoinsGoal == TypeOK /\ Control /\ Places /\ Joins => JoinReturnsAfterExit
<1> SUFFICES ASSUME TypeOK, Control, Places, Joins, NEW t \in Threads, JoinOver(t)
             PROVE  /\ status[pc[t].on] \in {"TERMINATED", "FREED"}
                    /\ retVal[t] \in {NoAddress, ExitValue(pc[t].on)}
  BY DEF JoinReturnsAfterExit
<1>1. pc[t].at = "join_return" /\ status[t] = "RUNNING"
  BY DEF JoinOver
<1>2. PICK u \in Threads : u = pc[t].on
  <2>1. pc[t].on \in Threads
    BY <1>1, FrameOperand DEF JoinSteps
  <2> QED BY <2>1
<1>3. Exiting(u) /\ retVal[t] \in {NoAddress, ExitValue(u)}
  BY <1>1, <1>2 DEF Joins, Released, Runnable
<1>4. (activeThread = t /\ u # activeThread) \/ pc[u].at # "exit_wake"
  BY <1>1 DEF Places, Statuses
<1>5. pc[u].at # "exit_wake"
  BY <1>4 DEF Control, CriticalSteps
<1> QED BY <1>2, <1>3, <1>5 DEF Exiting, Ended

\* A step that leaves the exits and the joins alone.
LEMMA JoinsGoOn ==
  ASSUME Joins, UNCHANGED <<joinQueue, allThreads, retVal>>,
         \A u \in Threads : status'[u] \in Ended <=> status[u] \in Ended,
         \A u \in Threads : pc[u].at = "exit_wake" => pc'[u].at = "exit_wake",
         \A t, u \in Threads : Released(t, u)' => Released(t, u),
         \A t, u \in Threads : pc'[t].at = "join_block" /\ pc'[t].on = u => u \in allThreads,
         \A u \in Threads : Exiting(u) => ExitValue(u)' = ExitValue(u)
  PROVE  Joins'
<1>1. NobodyWaitsOnTerminated'
  BY DEF Joins, NobodyWaitsOnTerminated, Ended
<1>2. ASSUME NEW t \in Threads, NEW u \in Threads, Released(t, u)'
      PROVE  (Exiting(u) /\ retVal[t] \in {NoAddress, ExitValue(u)})'
  <2>1. Exiting(u) /\ retVal[t] \in {NoAddress, ExitValue(u)}
    BY <1>2 DEF Joins
  <2>2. Exiting(u)'
    BY <2>1 DEF Exiting
  <2>3. ExitValue(u)' = ExitValue(u)
    BY <2>1
  <2> QED BY <2>1, <2>2, <2>3
<1> QED BY <1>1, <1>2 DEF Joins

\* The active thread leaves a step that is no exit and comes to one that is no join.
LEMMA JoinsGoOnTo ==
  ASSUME TypeOK, Control, Joins, NEW t \in Threads, activeThread = t,
         pc[t].at # "exit_wake", NEW step, NEW x, Goto(t, step, x),
         step \notin {"join_block", "join_raise", "join_return"},
         UNCHANGED <<joinQueue, allThreads, retVal, exitStack>>,
         \A u \in Threads : status'[u] \in Ended <=> status[u] \in Ended,
         \A u \in Threads : pc[u].at \in {"join_raise", "join_return"} =>
           (status'[u] \in Runnable => status[u] \in Runnable)
  PROVE  Joins'
<1>1. pc'[t].at = step /\ \A u \in Threads : u # t => pc'[u] = pc[u]
  BY GotoFrame
<1>2. \A u \in Threads : ExitValue(u)' = ExitValue(u)
  BY DEF ExitValue
<1>3. \A v, u \in Threads : Released(v, u)' => Released(v, u)
  BY <1>1 DEF Released
<1>4. \A v, u \in Threads : pc'[v].at = "join_block" /\ pc'[v].on = u => u \in allThreads
  BY <1>1 DEF Joins
<1>5. \A u \in Threads : pc[u].at = "exit_wake" => pc'[u].at = "exit_wake"
  BY <1>1
<1> QED BY <1>2, <1>3, <1>4, <1>5, JoinsGoOn

LEMMA JoinsStepLifecycle ==
  ASSUME TypeOK, Control, Places, Joins, NEW t \in Threads, Lifecycle(t)
  PROVE  Joins'
<1> USE DEF At
<1>1. CASE CreateCall(t) \/ JoinCall(t)
  <2>1. PICK step, x : Call(t, step, x) /\ step \in {"create", "join_search"}
    BY <1>1 DEF CreateCall, JoinCall
  <2>2. /\ activeThread = t /\ pc[t].at # "exit_wake" /\ Goto(t, step, x)
        /\ UNCHANGED <<joinQueue, allThreads, retVal, exitStack, status>>
    BY <2>1 DEF Call, MayCall, schedVars, threadVars
  <2> QED BY <2>1, <2>2, JoinsGoOnTo
<1>2. CASE CreateBody(t)
  <2> DEFINE w == nextThreadId
  <2>1. /\ activeThread = t /\ pc[t].at = "create" /\ Goto(t, "raise", NoThread)
        /\ status' = [status EXCEPT ![w] = "READY"]
        /\ allThreads' = allThreads \cup {w}
        /\ UNCHANGED <<joinQueue, retVal, exitStack>>
    BY <1>2 DEF CreateBody
  <2>2. w \in Threads
    BY <2>1, ConstantsAssumption DEF Control, TypeOK, Threads
  <2>3. status[w] = "ABSENT"
    <3>1. nextThreadId \in Int
      BY DEF TypeOK
    <3> QED BY <2>2, <3>1 DEF Places, TidsInOrder
  <2>4. pc[w].at = "user"
    BY <2>2, <2>3 DEF Places, Statuses
  <2> HIDE DEF w
  <2>5. status'[w] = "READY" /\ \A u \in Threads : u # w => status'[u] = status[u]
    BY <2>1, <2>2 DEF TypeOK
  <2>6. pc'[t].at = "raise" /\ \A u \in Threads : u # t => pc'[u] = pc[u]
    BY <2>1, GotoFrame
  <2>7. NobodyWaitsOnTerminated'
    BY <2>1, <2>5 DEF Joins, NobodyWaitsOnTerminated
  <2>8. \A v, u \in Threads : pc'[v].at = "join_block" /\ pc'[v].on = u => u \in allThreads'
    BY <2>1, <2>6 DEF Joins
  <2>9. ASSUME NEW v \in Threads, NEW u \in Threads, Released(v, u)'
        PROVE  (Exiting(u) /\ retVal[v] \in {NoAddress, ExitValue(u)})'
    <3>1. Released(v, u)
      BY <2>1, <2>4, <2>5, <2>6, <2>9 DEF Released
    <3>2. Exiting(u) /\ retVal[v] \in {NoAddress, ExitValue(u)}
      BY <3>1 DEF Joins
    <3>3. Exiting(u)'
      BY <2>1, <2>3, <2>4, <2>5, <2>6, <3>2 DEF Exiting, Ended
    <3> QED BY <2>1, <3>2, <3>3 DEF ExitValue
  <2> QED BY <2>7, <2>8, <2>9 DEF Joins
<1>3. CASE Yield(t)
  <2>1. /\ activeThread = t /\ pc[t].at = "user" /\ Goto(t, "raise", NoThread)
        /\ status' = [status EXCEPT ![t] = "READY"]
        /\ UNCHANGED <<joinQueue, allThreads, retVal, exitStack>>
    BY <1>3 DEF Yield, MayCall, threadVars
  <2>2. status[t] = "RUNNING"
    BY <2>1, ActiveRunning DEF Places, Raising
  <2>3. /\ \A u \in Threads : status'[u] \in Ended <=> status[u] \in Ended
        /\ \A u \in Threads : status'[u] \in Runnable => status[u] \in Runnable
    BY <2>1, <2>2 DEF TypeOK, Ended, Runnable
  <2> QED BY <2>1, <2>3, JoinsGoOnTo
<1>4. CASE ExitCall(t) \/ ExitEnter(t) \/ JoinReturn(t)
  <2>1. /\ activeThread = t /\ pc[t].at # "exit_wake"
        /\ UNCHANGED <<joinQueue, allThreads, retVal, exitStack, status>>
    BY <1>4 DEF ExitCall, ExitEnter, JoinReturn, schedVars, threadVars
  <2>2. \E step, x : Goto(t, step, x) /\ step \notin {"join_block", "join_raise", "join_return"}
    BY <1>4 DEF ExitCall, ExitEnter, JoinReturn, Return
  <2> QED BY <2>1, <2>2, JoinsGoOnTo
<1>5. CASE FunctionReturns(t)
  <2>1. /\ activeThread = t /\ pc[t].at = "user" /\ Goto(t, "exit_enter", NoThread)
        /\ UNCHANGED <<joinQueue, allThreads, retVal, status>>
        /\ exitStack' = [u \in Threads |->
                           IF u = t THEN "on"
                           ELSE IF exitStack[u] = "on" /\ status[u] # "FREED"
                                THEN "clobbered" ELSE exitStack[u]]
    BY <1>5 DEF FunctionReturns, schedVars
  <2>2. status[t] = "RUNNING"
    BY <2>1, ActiveRunning DEF Places, Raising
  <2>3. pc'[t].at = "exit_enter" /\ \A u \in Threads : u # t => pc'[u] = pc[u]
    BY <2>1, GotoFrame
  <2>4. \A u \in Threads : Exiting(u) => ExitValue(u)' = ExitValue(u)
    BY <2>1, <2>2 DEF Exiting, Ended, ExitValue
  <2>5. \A v, u \in Threads : Released(v, u)' => Released(v, u)
    BY <2>1, <2>3 DEF Released
  <2>6. \A v, u \in Threads : pc'[v].at = "join_block" /\ pc'[v].on = u => u \in allThreads
    BY <2>3 DEF Joins
  <2>7. \A u \in Threads : pc[u].at = "exit_wake" => pc'[u].at = "exit_wake"
    BY <2>1, <2>3
  <2> QED BY <2>1, <2>4, <2>5, <2>6, <2>7, JoinsGoOn
<1>6. CASE ExitWake(t)
  <2> DEFINE w == Head(joinQueue[t])
  <2>1. /\ activeThread = t /\ pc[t].at = "exit_wake" /\ joinQueue[t] # <<>>
        /\ joinQueue' = [joinQueue EXCEPT ![t] = Tail(@)]
        /\ status' = [status EXCEPT ![w] = "READY"]
        /\ retVal' = Delivered(t, w)
        /\ UNCHANGED <<allThreads, exitStack, pc>>
    BY <1>6 DEF ExitWake
  <2>2. w \in JoinedOn(t)
    <3>1. joinQueue[t] \in Seq(Threads)
      BY DEF TypeOK
    <3> QED BY <2>1, <3>1, DequeueMembers DEF Places, Queues, JoinQueues
  <2> HIDE DEF w
  <2>3. w \in Threads /\ status[w] = "BLOCKED" /\ pc[w].on = t
    BY <2>2 DEF JoinedOn
  <2>4. status'[w] = "READY" /\ \A u \in Threads : u # w => status'[u] = status[u]
    BY <2>1, <2>3 DEF TypeOK
  <2>5. /\ retVal'[w] \in {NoAddress, ExitValue(t)}
        /\ \A u \in Threads : u # w => retVal'[u] = retVal[u]
    BY <2>1, <2>3 DEF TypeOK, Delivered
  <2>6. status[t] = "RUNNING"
    BY <2>1, ActiveRunning DEF Places, Raising
  <2>7. NobodyWaitsOnTerminated'
    <3>1. \A u \in Threads : u # t => joinQueue'[u] = joinQueue[u]
      BY <2>1 DEF TypeOK
    <3> QED BY <2>1, <2>4, <2>6, <3>1 DEF Joins, NobodyWaitsOnTerminated
  <2>8. ASSUME NEW v \in Threads, NEW u \in Threads, Released(v, u)'
        PROVE  (Exiting(u) /\ retVal[v] \in {NoAddress, ExitValue(u)})'
    <3>1. CASE v = w
      <4>1. u = t
        BY <2>1, <2>3, <2>8, <3>1 DEF Released
      <4> QED BY <2>1, <2>5, <3>1, <4>1 DEF Exiting, ExitValue
    <3>2. CASE v # w
      <4>1. Released(v, u)
        BY <2>1, <2>4, <2>8, <3>2 DEF Released
      <4>2. Exiting(u) /\ retVal[v] \in {NoAddress, ExitValue(u)}
        BY <4>1 DEF Joins
      <4>3. Exiting(u)'
        BY <2>1, <2>3, <2>4, <4>2 DEF Exiting, Ended
      <4> QED BY <2>1, <2>5, <3>2, <4>2, <4>3 DEF ExitValue
    <3> QED BY <3>1, <3>2
  <2> QED BY <2>1, <2>7, <2>8 DEF Joins
<1>7. CASE ExitDone(t)
  <2>1. /\ activeThread = t /\ pc[t].at = "exit_wake" /\ joinQueue[t] = <<>>
        /\ status' = [status EXCEPT ![t] = "TERMINATED"]
        /\ allThreads' = allThreads \ {t}
        /\ Goto(t, "exit_raise", NoThread)
        /\ UNCHANGED <<joinQueue, retVal, exitStack>>
    BY <1>7 DEF ExitDone
  <2>2. status'[t] = "TERMINATED" /\ \A u \in Threads : u # t => status'[u] = status[u]
    BY <2>1 DEF TypeOK
  <2>3. pc'[t].at = "exit_raise" /\ \A u \in Threads : u # t => pc'[u] = pc[u]
    BY <2>1, GotoFrame
  <2>4. NobodyWaitsOnTerminated'
    BY <2>1, <2>2 DEF Joins, NobodyWaitsOnTerminated
  <2>5. \A v \in Threads : pc'[v].at # "join_block"
    BY <2>1, <2>3 DEF Control, CriticalSteps
  <2>6. ASSUME NEW v \in Threads, NEW u \in Threads, Released(v, u)'
        PROVE  (Exiting(u) /\ retVal[v] \in {NoAddress, ExitValue(u)})'
    <3>1. Released(v, u)
      BY <2>2, <2>3, <2>6 DEF Released
    <3>2. Exiting(u) /\ retVal[v] \in {NoAddress, ExitValue(u)}
      BY <3>1 DEF Joins
    <3>3. Exiting(u)'
      BY <2>2, <2>3, <3>2 DEF Exiting, Ended
    <3> QED BY <2>1, <3>2, <3>3 DEF ExitValue
  <2> QED BY <2>4, <2>5, <2>6 DEF Joins
<1>8. CASE JoinSearch(t)
  <2>1. /\ activeThread = t /\ pc[t].at = "join_search"
        /\ UNCHANGED <<joinQueue, allThreads, retVal, exitStack, status>>
    BY <1>8 DEF JoinSearch, schedVars, threadVars
  <2>2. CASE Goto(t, "user", NoThread)
    BY <2>1, <2>2, JoinsGoOnTo
  <2>3. CASE Goto(t, "join_block", pc[t].on) /\ pc[t].on \in allThreads
    <3>1. /\ pc'[t].at = "join_block" /\ pc'[t].on = pc[t].on
          /\ \A u \in Threads : u # t => pc'[u] = pc[u]
      BY <2>3, GotoFrame
    <3>2. \A v, u \in Threads : Released(v, u)' => Released(v, u)
      BY <2>1, <3>1 DEF Released
    <3>3. \A v, u \in Threads : pc'[v].at = "join_block" /\ pc'[v].on = u => u \in allThreads
      BY <2>3, <3>1 DEF Joins
    <3>4. \A u \in Threads : pc[u].at = "exit_wake" => pc'[u].at = "exit_wake"
      BY <2>1, <3>1
    <3>5. \A u \in Threads : ExitValue(u)' = ExitValue(u)
      BY <2>1 DEF ExitValue
    <3> QED BY <2>1, <3>2, <3>3, <3>4, <3>5, JoinsGoOn
  <2> QED BY <1>8, <2>2, <2>3 DEF JoinSearch, LeaveBlock, Return
<1>9. CASE JoinBlock(t)
  <2>1. PICK x \in Threads : x = pc[t].on
    BY <1>9, FrameOperand DEF JoinBlock, JoinSteps
  <2>2. /\ activeThread = t /\ pc[t].at = "join_block"
        /\ joinQueue' = [joinQueue EXCEPT ![x] = Append(@, t)]
        /\ \E value_ptr : retVal' = [retVal EXCEPT ![t] = value_ptr]
        /\ status' = [status EXCEPT ![t] = "BLOCKED"]
        /\ Goto(t, "join_raise", x)
        /\ UNCHANGED <<allThreads, exitStack>>
    BY <1>9, <2>1 DEF JoinBlock
  <2>3. status'[t] = "BLOCKED" /\ \A u \in Threads : u # t => status'[u] = status[u]
    BY <2>2 DEF TypeOK
  <2>4. pc'[t].at = "join_raise" /\ \A u \in Threads : u # t => pc'[u] = pc[u]
    BY <2>2, GotoFrame
  <2>5. status[t] = "RUNNING"
    BY <2>2, ActiveRunning DEF Places, Raising
  <2>6. status[x] \notin Ended
    BY <2>1, <2>2 DEF Joins, NobodyWaitsOnTerminated, Ended
  <2>7. NobodyWaitsOnTerminated'
    <3>1. \A u \in Threads : u # x => joinQueue'[u] = joinQueue[u]
      BY <2>2 DEF TypeOK
    <3> QED BY <2>2, <2>3, <2>6, <3>1 DEF Joins, NobodyWaitsOnTerminated, Ended
  <2>8. \A v, u \in Threads : pc'[v].at = "join_block" /\ pc'[v].on = u => u \in allThreads'
    BY <2>2, <2>4 DEF Joins
  <2>9. ASSUME NEW v \in Threads, NEW u \in Threads, Released(v, u)'
        PROVE  (Exiting(u) /\ retVal[v] \in {NoAddress, ExitValue(u)})'
    <3>1. v # t /\ Released(v, u)
      BY <2>3, <2>4, <2>9 DEF Released, Runnable
    <3>2. Exiting(u) /\ retVal[v] \in {NoAddress, ExitValue(u)}
      BY <3>1 DEF Joins
    <3>3. Exiting(u)'
      BY <2>2, <2>3, <2>4, <2>5, <3>2 DEF Exiting, Ended
    <3>4. retVal'[v] = retVal[v]
      BY <2>2, <3>1 DEF TypeOK
    <3> QED BY <2>2, <3>2, <3>3, <3>4 DEF ExitValue
  <2> QED BY <2>7, <2>8, <2>9 DEF Joins
<1> QED BY <1>1, <1>2, <1>3, <1>4, <1>5, <1>6, <1>7, <1>8, <1>9 DEF Lifecycle

LEMMA JoinsStepLocking ==
  ASSUME TypeOK, Control, Places, Joins, NEW t \in Threads, Locking(t)
  PROVE  Joins'
<1> USE DEF At
<1>1. CASE \E x \in Mutexes : \E step \in {"init", "lock_check", "unlock", "destroy"} :
             Call(t, step, x)
  <2>1. PICK x \in Mutexes, step \in {"init", "lock_check", "unlock", "destroy"} :
          Call(t, step, x)
    BY <1>1
  <2>2. /\ activeThread = t /\ pc[t].at # "exit_wake" /\ Goto(t, step, x)
        /\ UNCHANGED <<joinQueue, allThreads, retVal, exitStack, status>>
    BY <2>1 DEF Call, MayCall, schedVars, threadVars
  <2> QED BY <2>2, JoinsGoOnTo
<1>2. CASE \/ InitBody(t) \/ LockCheck(t) \/ LockTry(t) \/ LockRetry(t) \/ LockGot(t)
           \/ UnlockBody(t) \/ DestroyBody(t) \/ DestroyDone(t)
  <2>1. /\ activeThread = t /\ pc[t].at # "exit_wake"
        /\ UNCHANGED <<joinQueue, allThreads, retVal, exitStack, status>>
    BY <1>2 DEF InitBody, LockCheck, LockTry, LockRetry, LockGot, UnlockBody, DestroyBody,
                DestroyDone, schedVars, threadVars
  <2>2. \E step, x : Goto(t, step, x) /\ step \notin {"join_block", "join_raise", "join_return"}
    BY <1>2 DEF InitBody, LockCheck, LockTry, LockRetry, LockGot, UnlockBody, DestroyBody,
                DestroyDone, LeaveBlock, Return
  <2> QED BY <2>1, <2>2, JoinsGoOnTo
<1>3. CASE LockBlock(t)
  <2>1. /\ activeThread = t /\ pc[t].at = "lock_block"
        /\ status' = [status EXCEPT ![t] = "BLOCKED"] /\ Goto(t, "lock_raise", pc[t].on)
        /\ UNCHANGED <<joinQueue, allThreads, retVal, exitStack>>
    BY <1>3 DEF LockBlock, threadVars
  <2>2. status[t] = "RUNNING"
    BY <2>1, ActiveRunning DEF Places, Raising
  <2>3. /\ \A u \in Threads : status'[u] \in Ended <=> status[u] \in Ended
        /\ \A u \in Threads : status'[u] \in Runnable => status[u] \in Runnable
    BY <2>1, <2>2 DEF TypeOK, Ended, Runnable
  <2> QED BY <2>1, <2>3, JoinsGoOnTo
<1>4. CASE UnlockWake(t) \/ DestroyWake(t)
  <2>1. PICK m \in Mutexes : m = pc[t].on
    BY <1>4, FrameOperand DEF UnlockWake, DestroyWake, MutexSteps
  <2>2. /\ activeThread = t /\ pc[t].at \in {"unlock_wake", "destroy_wake"}
        /\ UNCHANGED <<joinQueue, allThreads, retVal, exitStack>>
    BY <1>4 DEF UnlockWake, DestroyWake, threadVars
  <2>3. /\ \A u \in Threads : status'[u] \in Ended <=> status[u] \in Ended
        /\ \A u \in Threads : pc[u].at \in {"join_raise", "join_return"} =>
             (status'[u] \in Runnable => status[u] \in Runnable)
    <3>1. CASE blockedThreads[m] = <<>>
      <4>1. status' = status
        BY <1>4, <2>1, <3>1 DEF UnlockWake, DestroyWake
      <4> QED BY <4>1
    <3>2. CASE blockedThreads[m] # <<>>
      <4>1. PICK w \in WaitingFor(m) : w = Head(blockedThreads[m])
        <5>1. blockedThreads[m] \in Seq(Threads)
          BY DEF TypeOK
        <5> QED BY <3>2, <5>1, DequeueMembers DEF Places, Queues, MutexQueues
      <4>2. w \in Threads /\ status[w] = "BLOCKED" /\ pc[w].at \in {"lock_raise", "lock_retry"}
        BY <4>1 DEF WaitingFor
      <4>3. status' = [status EXCEPT ![w] = "READY"]
        BY <1>4, <2>1, <3>2, <4>1 DEF UnlockWake, DestroyWake, WakeOldest
      <4>4. status'[w] = "READY" /\ \A u \in Threads : u # w => status'[u] = status[u]
        BY <4>2, <4>3 DEF TypeOK
      <4> QED BY <4>2, <4>4 DEF Ended
    <3> QED BY <3>1, <3>2
  <2>4. CASE UnlockWake(t)
    <3>1. \E step, x : Goto(t, step, x) /\ step \notin {"join_block", "join_raise", "join_return"}
      BY <2>4 DEF UnlockWake, Return
    <3> QED BY <2>2, <2>3, <3>1, JoinsGoOnTo
  <2>5. CASE DestroyWake(t)
    <3>1. pc' = pc
      BY <2>5 DEF DestroyWake
    <3>2. \A v, u \in Threads : Released(v, u)' => Released(v, u)
      BY <2>3, <3>1 DEF Released
    <3>3. \A v, u \in Threads : pc'[v].at = "join_block" /\ pc'[v].on = u => u \in allThreads
      BY <3>1 DEF Joins
    <3>4. \A u \in Threads : ExitValue(u)' = ExitValue(u)
      BY <2>2 DEF ExitValue
    <3> QED BY <2>2, <2>3, <3>1, <3>2, <3>3, <3>4, JoinsGoOn
  <2> QED BY <1>4, <2>4, <2>5
<1> QED
  BY <1>1, <1>2, <1>3, <1>4 DEF Locking, InitCall, LockCall, UnlockCall, DestroyCall

\* A switch ends nobody and releases nobody.
LEMMA SwitchJoins ==
  ASSUME Joins, SameLives, NEW t \in Threads,
         UNCHANGED <<joinQueue, allThreads, retVal, exitStack>>,
         \A u \in Threads : u # t => pc'[u] = pc[u],
         \/ pc'[t] = pc[t]
         \/ /\ pc[t].at \in Raising
            /\ pc'[t].at = AfterRaise(pc[t].at) /\ pc'[t].on = pc[t].on
  PROVE  Joins'
<1>1. pc[t].at \in Raising /\ pc'[t].at = AfterRaise(pc[t].at) =>
        /\ pc'[t].at # "join_block" /\ pc[t].at # "exit_wake"
        /\ pc'[t].at \in {"join_raise", "join_return"} => pc[t].at = "join_raise"
  BY DEF Raising, AfterRaise
<1>2. ASSUME NEW v \in Threads, NEW u \in Threads, Released(v, u)' PROVE Released(v, u)
  <2>1. status[v] \in Runnable
    BY <1>2 DEF Released, SameLives
  <2>2. pc[v].at \in {"join_raise", "join_return"} /\ pc[v].on = u
    BY <1>1, <1>2 DEF Released
  <2> QED BY <2>1, <2>2 DEF Released
<1>3. \A v, u \in Threads : pc'[v].at = "join_block" /\ pc'[v].on = u => u \in allThreads
  BY <1>1 DEF Joins
<1>4. \A u \in Threads : ExitValue(u)' = ExitValue(u)
  BY DEF ExitValue
<1>5. \A u \in Threads : pc[u].at = "exit_wake" => pc'[u].at = "exit_wake"
  BY <1>1
<1>6. \A u \in Threads : status'[u] \in Ended <=> status[u] \in Ended
  BY DEF SameLives
<1> QED BY <1>2, <1>3, <1>4, <1>5, <1>6, JoinsGoOn

LEMMA JoinsStep ==
  ASSUME TypeOK, Control, Places, Joins, [Next]_vars
  PROVE  Joins'
<1>1. CASE UNCHANGED <<joinQueue, allThreads, retVal, exitStack, pc, status>>
  <2>1. \A v, u \in Threads : Released(v, u)' => Released(v, u)
    BY <1>1 DEF Released
  <2>2. \A u \in Threads : ExitValue(u)' = ExitValue(u)
    BY <1>1 DEF ExitValue
  <2>3. \A v, u \in Threads : pc'[v].at = "join_block" /\ pc'[v].on = u => u \in allThreads
    BY <1>1 DEF Joins
  <2> QED BY <1>1, <2>1, <2>2, <2>3, JoinsGoOn
<1>2. CASE UNCHANGED vars \/ Stopped \/ MainReturns
  BY <1>1, <1>2 DEF Stopped, MainReturns, vars, schedVars, threadVars
<1>3. CASE initMainContext
  <2>1. /\ UNCHANGED <<joinQueue, allThreads, retVal, exitStack, pc>> /\ Main \in Threads
        /\ status' = [status EXCEPT ![Main] = "RUNNING"]
    BY <1>3, ConstantsAssumption DEF initMainContext, Main, Threads
  <2>2. \A u \in Threads : status[u] = "ABSENT" /\ pc[u].at = "user"
    BY <1>3 DEF initMainContext, Places, TidsInOrder, Statuses, Threads
  <2>3. \A v, u \in Threads : Released(v, u)' => Released(v, u)
    BY <2>1, <2>2 DEF Released
  <2>4. \A u \in Threads : ExitValue(u)' = ExitValue(u)
    BY <2>1 DEF ExitValue
  <2>5. \A u \in Threads : status'[u] \in Ended <=> status[u] \in Ended
    BY <2>1, <2>2 DEF TypeOK, Ended
  <2>6. \A v, u \in Threads : pc'[v].at = "join_block" /\ pc'[v].on = u => u \in allThreads
    BY <2>1, <2>2
  <2> QED BY <2>1, <2>3, <2>4, <2>5, <2>6, JoinsGoOn
<1>4. ASSUME NEW t \in Threads, Raise(t) PROVE Joins'
  <2>1. SameLives
    BY <1>4, RaiseSwitches, SwitchPlaces DEF threadVars, mutexVars
  <2> QED BY <1>4, <2>1, RaiseSwitches, SwitchJoins DEF threadVars
<1>5. CASE TimerFires
  <2>1. activeThread \in Threads
    BY <1>5 DEF TimerFires, Control
  <2>2. CASE doNotInterrupt
    BY <1>1, <1>5, <2>2 DEF TimerFires, threadVars
  <2>3. CASE ~doNotInterrupt
    <3>1. SameLives
      BY <1>5, <2>1, <2>3, SwitchPlaces DEF TimerFires, threadVars, mutexVars
    <3> QED BY <1>5, <2>1, <3>1, SwitchJoins DEF TimerFires, threadVars
  <2> QED BY <2>2, <2>3
<1> QED
  BY <1>2, <1>3, <1>4, <1>5, JoinsStepLifecycle, JoinsStepLocking DEF Next

-----------------------------------------------------------------------------
(* The theorems.                                                           *)

LEMMA InitWaiting == Init => Places /\ Wakeups /\ Joins
<1> SUFFICES ASSUME Init PROVE Places /\ Wakeups /\ Joins
  OBVIOUS
<1>1. /\ Elems(<<>>) = {} /\ NoRepeats(<<>>) /\ Len(<<>>) = 0
  BY DEF Elems, NoRepeats
<1>2. \A t \in Threads : status[t] = "ABSENT" /\ pc[t].at = "user" /\ t >= 0
  BY DEF Init, Threads
<1>3. (\A m : WaitingFor(m) = {}) /\ (\A u : JoinedOn(u) = {})
  BY <1>2 DEF WaitingFor, JoinedOn
<1>4. Places
  <2>1. TidsInOrder
    BY <1>2 DEF Init, TidsInOrder
  <2>2. ReadyOnce /\ ReadyQueueSorted
    BY <1>1, <1>2 DEF Init, ReadyOnce, ReadyQueueSorted
  <2>3. Queues
    BY <1>1, <1>2, <1>3 DEF Init, Queues, MutexQueues, JoinQueues, BlockedWait
  <2>4. Statuses
    BY <1>2 DEF Init, Statuses, Threads, NoThread
  <2> QED BY <2>1, <2>2, <2>3, <2>4 DEF Places
<1>5. Wakeups
  BY <1>2 DEF Init, Wakeups, Woken, Blocking
<1>6. Joins
  BY <1>2 DEF Init, Joins, NobodyWaitsOnTerminated, Released
<1> QED BY <1>4, <1>5, <1>6

\* The inductive invariant of the waiting: Places needs that nobody waits on a destroyed
\* mutex, Wakeups and Joins need that everybody is in the right queue.
Waiting == Safe /\ Places /\ Wakeups /\ Joins

\* From the first call on, whatever the order of calls and ticks, every thread is where
\* its status says, whoever must be woken is about to be, and joins wait for the living.
THEOREM WaitingInvariant == Spec => []Waiting
<1>1. Init => Waiting
  BY InitTypeOK, InitControl, InitWaiting DEF Waiting, Safe
<1>2. Waiting /\ [Next]_vars => Waiting'
  BY TypeStep, ControlStep, OwnershipStep, WakeupsGoals, PlacesStep, WakeupsStep, JoinsStep
     DEF Waiting, Safe
<1> QED BY <1>1, <1>2, PTL DEF Spec

\* However the queue and status updates of the library interleave with ticks, no thread
\* is lost, queued twice, or queued after it was freed, for any number of threads.
THEOREM EveryThreadInItsQueueHolds == Spec => []EveryThreadInItsQueue
<1>1. Waiting => EveryThreadInItsQueue
  BY PlacesQueues DEF Waiting
<1> QED BY <1>1, WaitingInvariant, PTL

\* sched_stcf always dispatches a thread with the fewest quanta: enqueueByQuanta keeps
\* the ready queue sorted, though quantaCount of the running thread grows.
THEOREM ReadyQueueSortedHolds == Spec => []ReadyQueueSorted
<1>1. Waiting => ReadyQueueSorted
  BY DEF Waiting, Places
<1> QED BY <1>1, WaitingInvariant, PTL

\* mypthread_mutex_unlock and mypthread_mutex_destroy lose no wake-up, however many
\* threads and mutexes there are: behind an unlocked mutex with waiters there is always
\* a thread that will try it or wake another.
THEOREM NoLostWakeupHolds == Spec => []NoLostWakeup
<1>1. Waiting => NoLostWakeup
  BY WakeupsGoals DEF Waiting
<1> QED BY <1>1, WaitingInvariant, PTL

\* mypthread_mutex_destroy leaves no waiter on the mutex it destroys, and nobody joins
\* that queue afterwards.
THEOREM NobodyWaitsOnDestroyedHolds == Spec => []NobodyWaitsOnDestroyed
<1>1. Waiting => NobodyWaitsOnDestroyed
  BY WakeupsGoals DEF Waiting
<1> QED BY <1>1, WaitingInvariant, PTL

\* mypthread_exit wakes every joiner, and mypthread_join queues nobody behind a thread
\* that has ended, although a tick may come anywhere outside their blocks.
THEOREM NobodyWaitsOnTerminatedHolds == Spec => []NobodyWaitsOnTerminated
<1>1. Waiting => NobodyWaitsOnTerminated
  BY DEF Waiting, Joins
<1> QED BY <1>1, WaitingInvariant, PTL

\* mypthread_join returns 0 only after its target's exit, with that exit's value.
THEOREM JoinReturnsAfterExitHolds == Spec => []JoinReturnsAfterExit
<1>1. Waiting => JoinReturnsAfterExit
  BY JoinsGoal DEF Waiting, Safe
<1> QED BY <1>1, WaitingInvariant, PTL

-----------------------------------------------------------------------------
(* What the steps of ThreadApi need beyond Waiting.                        *)

\* A mutex that is recorded as somebody's is held by that thread; a join that has found
\* its target waits for another thread, and only created threads are found.
Targets ==
  /\ \A m \in Mutexes : initialized[m] /\ threadId[m] # NoThread => threadId[m] \in holds[m]
  /\ \A t \in Threads : pc[t].at = "join_block" => pc[t].on # t
  /\ \A u \in allThreads : status[u] # "ABSENT"

LEMMA InitTargets == Init => Targets
BY DEF Init, Targets

\* A step that changes no mutex, finds no target and adds no thread to allThreads.
LEMMA TargetsKept ==
  ASSUME TypeOK, Targets, UNCHANGED <<initialized, threadId, holds>>,
         \A t \in Threads : pc'[t].at = "join_block" => pc'[t] = pc[t],
         allThreads' \subseteq allThreads,
         \A u \in Threads : status'[u] = "ABSENT" => status[u] = "ABSENT"
  PROVE  Targets'
BY DEF Targets, TypeOK

\* Nobody becomes a stranger to the library again: the tids in use only grow.
LEMMA NoNewStrangers ==
  ASSUME TypeOK, Places, Places', nextThreadId' = nextThreadId
  PROVE  \A u \in Threads : status'[u] = "ABSENT" <=> status[u] = "ABSENT"
BY DEF Places, TidsInOrder

LEMMA TargetsStepLifecycle ==
  ASSUME TypeOK, TypeOK', Control, Places, Places', Targets, NEW t \in Threads, Lifecycle(t)
  PROVE  Targets'
<1> USE DEF At
<1>1. UNCHANGED <<initialized, threadId, holds>>
  BY DEF Lifecycle, CreateCall, CreateBody, Yield, ExitCall, FunctionReturns, ExitEnter,
         ExitWake, ExitDone, JoinCall, JoinSearch, JoinBlock, JoinReturn, Call,
         mutexVars, ghostVars
<1>2. CASE CreateBody(t)
  <2>1. /\ nextThreadId' = nextThreadId + 1 /\ allThreads' = allThreads \cup {nextThreadId}
        /\ status' = [status EXCEPT ![nextThreadId] = "READY"] /\ Goto(t, "raise", NoThread)
    BY <1>2 DEF CreateBody
  <2>2. pc'[t].at = "raise" /\ \A u \in Threads : u # t => pc'[u] = pc[u]
    BY <2>1, GotoFrame
  <2> QED BY <1>1, <2>1, <2>2 DEF Targets, TypeOK
<1>3. CASE JoinSearch(t)
  <2>1. UNCHANGED <<allThreads, status>>
    BY <1>3 DEF JoinSearch, schedVars, threadVars
  <2>2. CASE Goto(t, "user", NoThread)
    <3>1. pc'[t].at = "user" /\ \A u \in Threads : u # t => pc'[u] = pc[u]
      BY <2>2, GotoFrame
    <3> QED BY <1>1, <2>1, <3>1 DEF Targets
  <2>3. CASE Goto(t, "join_block", pc[t].on) /\ pc[t].on # t
    <3>1. /\ pc'[t].at = "join_block" /\ pc'[t].on = pc[t].on
          /\ \A u \in Threads : u # t => pc'[u] = pc[u]
      BY <2>3, GotoFrame
    <3> QED BY <1>1, <2>1, <2>3, <3>1 DEF Targets
  <2> QED BY <1>3, <2>2, <2>3 DEF JoinSearch, LeaveBlock, Return
<1>4. CASE \/ CreateCall(t) \/ Yield(t) \/ ExitCall(t) \/ FunctionReturns(t) \/ ExitEnter(t)
           \/ ExitWake(t) \/ ExitDone(t) \/ JoinCall(t) \/ JoinBlock(t) \/ JoinReturn(t)
  <2>1. nextThreadId' = nextThreadId /\ allThreads' \subseteq allThreads
    BY <1>4 DEF CreateCall, Yield, ExitCall, FunctionReturns, ExitEnter, ExitWake, ExitDone,
                JoinCall, JoinBlock, JoinReturn, Call, threadVars
  <2>2. \A u \in Threads : status'[u] = "ABSENT" => status[u] = "ABSENT"
    BY <2>1, NoNewStrangers
  <2>3. pc' = pc \/ \E step, x : Goto(t, step, x) /\ step # "join_block"
    BY <1>4 DEF CreateCall, Yield, ExitCall, FunctionReturns, ExitEnter, ExitWake, ExitDone,
                JoinCall, JoinBlock, JoinReturn, Call, Return
  <2>4. \A u \in Threads : pc'[u].at = "join_block" => pc'[u] = pc[u]
    BY <2>3, GotoFrame
  <2> QED BY <1>1, <2>1, <2>2, <2>4, TargetsKept
<1> QED BY <1>2, <1>3, <1>4 DEF Lifecycle

LEMMA TargetsStepLocking ==
  ASSUME TypeOK, TypeOK', Control, Places, Places', Targets, NEW t \in Threads, Locking(t)
  PROVE  Targets'
<1> USE DEF At
<1>1. nextThreadId' = nextThreadId /\ allThreads' = allThreads
  BY DEF Locking, InitCall, InitBody, LockCall, LockCheck, LockTry, LockBlock, LockRetry,
         LockGot, UnlockCall, UnlockBody, UnlockWake, DestroyCall, DestroyBody, DestroyWake,
         DestroyDone, Call, threadVars
<1>2. \A u \in Threads : status'[u] = "ABSENT" => status[u] = "ABSENT"
  BY <1>1, NoNewStrangers
<1>3. pc' = pc \/ \E step, x : Goto(t, step, x) /\ step # "join_block"
  BY DEF Locking, InitCall, InitBody, LockCall, LockCheck, LockTry, LockBlock, LockRetry,
         LockGot, UnlockCall, UnlockBody, UnlockWake, DestroyCall, DestroyBody, DestroyWake,
         DestroyDone, Call, LeaveBlock, Return
<1>4. \A u \in Threads : pc'[u].at = "join_block" => pc'[u] = pc[u]
  BY <1>3, GotoFrame
<1>5. CASE UNCHANGED <<initialized, threadId, holds>>
  BY <1>1, <1>2, <1>4, <1>5, TargetsKept
\* A mutex changes, and is nobody's or its new holder's.
<1>6. ASSUME NEW m \in Mutexes,
             \A x \in Mutexes : x # m => /\ initialized'[x] = initialized[x]
                                         /\ threadId'[x] = threadId[x]
                                         /\ holds'[x] = holds[x],
             threadId'[m] = NoThread \/ threadId'[m] \in holds'[m]
      PROVE  Targets'
  BY <1>1, <1>2, <1>4, <1>6 DEF Targets, TypeOK
<1>7. CASE InitBody(t) \/ LockGot(t) \/ UnlockBody(t) \/ DestroyBody(t)
  <2>1. PICK m \in Mutexes : m = pc[t].on
    BY <1>7, FrameOperand DEF InitBody, LockGot, UnlockBody, DestroyBody, MutexSteps
  <2>2. \A x \in Mutexes : x # m => /\ initialized'[x] = initialized[x]
                                    /\ threadId'[x] = threadId[x]
                                    /\ holds'[x] = holds[x]
    BY <1>7, <2>1 DEF InitBody, LockGot, UnlockBody, DestroyBody, mutexVars, ghostVars, TypeOK
  <2>3. \/ UNCHANGED <<initialized, threadId, holds>>
        \/ threadId' = [threadId EXCEPT ![m] = NoThread]
        \/ /\ threadId' = [threadId EXCEPT ![m] = t]
           /\ holds' = [holds EXCEPT ![m] = @ \cup {t}]
    BY <1>7, <2>1 DEF InitBody, LockGot, UnlockBody, DestroyBody, mutexVars, ghostVars
  <2>4. \/ UNCHANGED <<initialized, threadId, holds>>
        \/ threadId'[m] = NoThread \/ threadId'[m] \in holds'[m]
    BY <2>1, <2>3 DEF TypeOK
  <2> QED BY <1>5, <1>6, <2>2, <2>4
<1>8. CASE ~(InitBody(t) \/ LockGot(t) \/ UnlockBody(t) \/ DestroyBody(t))
  <2>1. UNCHANGED <<initialized, threadId, holds>>
    BY <1>8 DEF Locking, InitCall, LockCall, LockCheck, LockTry, LockBlock, LockRetry,
                UnlockCall, UnlockWake, DestroyCall, DestroyWake, DestroyDone, Call,
                mutexVars, ghostVars
  <2> QED BY <1>5, <2>1
<1> QED BY <1>7, <1>8

LEMMA TargetsStep ==
  ASSUME TypeOK, TypeOK', Control, Places, Places', Targets, [Next]_vars
  PROVE  Targets'
<1>1. CASE UNCHANGED <<initialized, threadId, holds, pc, allThreads, status>>
  BY <1>1, TargetsKept
<1>2. CASE UNCHANGED vars \/ Stopped \/ MainReturns
  BY <1>1, <1>2 DEF Stopped, MainReturns, vars, schedVars, threadVars, mutexVars, ghostVars
<1>3. CASE initMainContext
  <2>1. /\ UNCHANGED <<initialized, threadId, holds, pc, allThreads>>
        /\ status' = [status EXCEPT ![Main] = "RUNNING"]
    BY <1>3 DEF initMainContext, mutexVars, ghostVars
  <2>2. \A u \in Threads : status'[u] = "ABSENT" => status[u] = "ABSENT"
    BY <2>1 DEF TypeOK
  <2> QED BY <2>1, <2>2, TargetsKept
<1>4. ASSUME NEW t \in Threads, Raise(t) PROVE Targets'
  <2>1. /\ UNCHANGED <<initialized, threadId, holds, allThreads, nextThreadId>>
        /\ pc'[t].at # "join_block" /\ \A u \in Threads : u # t => pc'[u] = pc[u]
    BY <1>4, RaiseSwitches DEF threadVars, mutexVars, ghostVars, Raising, AfterRaise
  <2> QED BY <2>1, NoNewStrangers, TargetsKept
<1>5. CASE TimerFires
  <2>1. UNCHANGED <<initialized, threadId, holds, allThreads, nextThreadId, pc>>
    BY <1>5 DEF TimerFires, threadVars, mutexVars, ghostVars
  <2> QED BY <2>1, NoNewStrangers, TargetsKept
<1> QED
  BY <1>2, <1>3, <1>4, <1>5, TargetsStepLifecycle, TargetsStepLocking DEF Next

-----------------------------------------------------------------------------
(* What the callers see.                                                   *)

lifeOf == [t \in Threads |-> Life(status[t])]
joiningOf == [t \in Threads |-> Joining(pc[t])]
ownerOf == [m \in Mutexes |-> IF initialized[m] THEN threadId[m] ELSE NoThread]

SameLife == \A u \in Threads : /\ status'[u] = "ABSENT" <=> status[u] = "ABSENT"
                               /\ status'[u] \in Ended <=> status[u] \in Ended
SameJoins == \A u \in Threads : Joining(pc'[u]) = Joining(pc[u])
SameOwners == /\ initialized' = initialized
              /\ \A m \in Mutexes : initialized[m] => threadId'[m] = threadId[m]

LEMMA SameView ==
  /\ SameLife => lifeOf' = lifeOf
  /\ SameJoins => joiningOf' = joiningOf
  /\ SameOwners => ownerOf' = ownerOf
<1>1. ASSUME SameLife PROVE lifeOf' = lifeOf
  <2>1. \A u \in Threads : Life(status'[u]) = Life(status[u])
    BY <1>1 DEF SameLife, Life, Ended
  <2> QED BY <2>1 DEF lifeOf
<1>2. ASSUME SameJoins PROVE joiningOf' = joiningOf
  BY <1>2 DEF SameJoins, joiningOf
<1>3. ASSUME SameOwners PROVE ownerOf' = ownerOf
  BY <1>3 DEF SameOwners, ownerOf
<1> QED BY <1>1, <1>2, <1>3

LEMMA Unseen ==
  ASSUME SameLife, SameJoins, SameOwners
  PROVE  UNCHANGED Api!apiVars
<1>1. lifeOf' = lifeOf /\ joiningOf' = joiningOf /\ ownerOf' = ownerOf /\ initialized' = initialized
  BY SameView DEF SameOwners
<1> QED BY <1>1 DEF Api!apiVars, lifeOf, joiningOf, ownerOf

\* The active thread changes its step, but not the join it is in.
LEMMA GotoJoins ==
  ASSUME TypeOK, NEW t \in Threads, NEW step, NEW x, Goto(t, step, x),
         pc[t].at \notin {"join_raise", "join_return"},
         step \notin {"join_raise", "join_return"}
  PROVE  SameJoins
<1>1. pc'[t].at = step /\ \A u \in Threads : u # t => pc'[u] = pc[u]
  BY GotoFrame
<1>2. Joining(pc'[t]) = NoThread /\ Joining(pc[t]) = NoThread
  BY <1>1 DEF Joining
<1> QED BY <1>1, <1>2 DEF SameJoins

\* One thread is created.
LEMMA StartSeen ==
  ASSUME TypeOK, NEW u \in Threads, status[u] = "ABSENT", NEW s \in {"READY", "RUNNING"},
         status' = [status EXCEPT ![u] = s], SameJoins, SameOwners
  PROVE  Api!Start(u)
<1>1. Life(status[u]) = "none" /\ Life(s) = "live"
  BY DEF Life
<1>2. lifeOf[u] = "none" /\ lifeOf' = [lifeOf EXCEPT ![u] = "live"]
  BY <1>1 DEF lifeOf, TypeOK
<1>3. joiningOf' = joiningOf /\ ownerOf' = ownerOf /\ initialized' = initialized
  BY SameView DEF SameOwners
<1> QED BY <1>2, <1>3 DEF Api!Start, lifeOf, joiningOf, ownerOf

LEMMA EndSeen ==
  ASSUME TypeOK, NEW t \in Threads, status[t] = "RUNNING", pc[t].at = "exit_wake",
         status' = [status EXCEPT ![t] = "TERMINATED"], SameJoins, SameOwners
  PROVE  Api!End(t)
<1>1. Life(status[t]) = "live" /\ Life("TERMINATED") = "done" /\ Joining(pc[t]) = NoThread
  BY DEF Life, Joining
<1>2. lifeOf[t] = "live" /\ lifeOf' = [lifeOf EXCEPT ![t] = "done"] /\ joiningOf[t] = NoThread
  BY <1>1 DEF lifeOf, joiningOf, TypeOK
<1>3. joiningOf' = joiningOf /\ ownerOf' = ownerOf /\ initialized' = initialized
  BY SameView DEF SameOwners
<1> QED BY <1>2, <1>3 DEF Api!End, lifeOf, joiningOf, ownerOf

\* A join is accepted: its target is another thread, and has not ended.
LEMMA JoinSeen ==
  ASSUME TypeOK, Places, Joins, Targets, NEW t \in Threads, JoinBlock(t)
  PROVE  \E u \in Threads : Api!Join(t, u)
<1>1. PICK u \in Threads : u = pc[t].on
  BY FrameOperand DEF JoinBlock, At, JoinSteps
<1>2. /\ activeThread = t /\ pc[t].at = "join_block"
      /\ status' = [status EXCEPT ![t] = "BLOCKED"] /\ Goto(t, "join_raise", u)
      /\ UNCHANGED <<initialized, threadId>>
  BY <1>1 DEF JoinBlock, At, mutexVars
<1>3. status[t] = "RUNNING"
  BY <1>2, ActiveRunning DEF Places, Raising
<1>4. u # t /\ u \in allThreads
  BY <1>1, <1>2 DEF Targets, Joins
<1>5. status[u] # "ABSENT" /\ status[u] \notin Ended
  BY <1>4 DEF Targets, Joins, NobodyWaitsOnTerminated, Ended
<1>6. lifeOf[t] = "live" /\ lifeOf[u] = "live"
  BY <1>3, <1>5 DEF lifeOf, Life, Ended
<1>7. lifeOf' = lifeOf
  <2>1. SameLife
    BY <1>2, <1>3 DEF SameLife, Ended, TypeOK
  <2> QED BY <2>1, SameView
<1>8. joiningOf[t] = NoThread /\ joiningOf' = [joiningOf EXCEPT ![t] = u]
  <2>1. pc' = [pc EXCEPT ![t] = [at |-> "join_raise", on |-> u]]
    BY <1>2 DEF Goto, Move
  <2>2. Joining([at |-> "join_raise", on |-> u]) = u /\ Joining(pc[t]) = NoThread
    BY <1>2 DEF Joining
  <2> QED BY <2>1, <2>2 DEF joiningOf, TypeOK
<1>9. ownerOf' = ownerOf
  BY <1>2, SameView DEF SameOwners
<1>10. Api!Join(t, u)
  BY <1>2, <1>4, <1>6, <1>7, <1>8, <1>9 DEF Api!Join, lifeOf, joiningOf, ownerOf
<1> QED BY <1>10

\* A join returns: its target has ended.
LEMMA JoinedSeen ==
  ASSUME TypeOK, Control, Places, Joins, NEW t \in Threads, JoinReturn(t)
  PROVE  Api!Joined(t)
<1>1. PICK u \in Threads : u = pc[t].on
  BY FrameOperand DEF JoinReturn, At, JoinSteps
<1>2. /\ activeThread = t /\ pc[t].at = "join_return" /\ Goto(t, "user", NoThread)
      /\ UNCHANGED <<initialized, threadId, status>>
  BY DEF JoinReturn, Return, At, schedVars, mutexVars
<1>3. status[t] = "RUNNING"
  BY <1>2, ActiveRunning DEF Places, Raising
<1>4. status[u] \in Ended
  BY <1>1, <1>2, <1>3, JoinsGoal DEF JoinReturnsAfterExit, JoinOver, Ended
<1>5. lifeOf[u] = "done" /\ lifeOf' = lifeOf
  BY <1>2, <1>4 DEF lifeOf, Life, Ended
<1>6. joiningOf[t] = u /\ u # NoThread /\ joiningOf' = [joiningOf EXCEPT ![t] = NoThread]
  <2>1. pc' = [pc EXCEPT ![t] = [at |-> "user", on |-> NoThread]]
    BY <1>2 DEF Goto, Move
  <2>2. Joining([at |-> "user", on |-> NoThread]) = NoThread /\ Joining(pc[t]) = u
    BY <1>1, <1>2 DEF Joining
  <2>3. u # NoThread
    BY DEF Threads, NoThread
  <2> QED BY <2>1, <2>2, <2>3 DEF joiningOf, TypeOK
<1>7. ownerOf' = ownerOf
  BY <1>2, SameView DEF SameOwners
<1> QED BY <1>2, <1>5, <1>6, <1>7 DEF Api!Joined, lifeOf, joiningOf, ownerOf

\* A thread inside a block is live, and not in a join.
LEMMA CallerLives ==
  ASSUME Places, NEW t \in Threads, activeThread = t, pc[t].at \in MutexSteps,
         pc[t].at \notin Raising
  PROVE  lifeOf[t] = "live" /\ joiningOf[t] = NoThread
<1>1. status[t] = "RUNNING"
  BY ActiveRunning DEF Places
<1> QED BY <1>1 DEF lifeOf, joiningOf, Life, Joining, MutexSteps

\* The four calls that change a mutex do what ThreadApi allows, or nothing.
LEMMA MutexSeen ==
  ASSUME TypeOK, Control, Ownership, Places, Targets, NEW t \in Threads,
         InitBody(t) \/ LockGot(t) \/ UnlockBody(t) \/ DestroyBody(t)
  PROVE  Api!ApiNext \/ UNCHANGED Api!apiVars
<1> USE DEF At
<1>1. PICK m \in Mutexes : m = pc[t].on
  BY FrameOperand DEF InitBody, LockGot, UnlockBody, DestroyBody, MutexSteps
<1>2. /\ activeThread = t /\ pc[t].at \in MutexSteps /\ pc[t].at \notin Raising
      /\ status' = status
  BY DEF InitBody, LockGot, UnlockBody, DestroyBody, MutexSteps, Raising, schedVars
<1>3. \E step, x : Goto(t, step, x) /\ step \notin {"join_raise", "join_return"}
  BY DEF InitBody, LockGot, UnlockBody, DestroyBody, LeaveBlock, Return
<1>4. SameLife /\ SameJoins
  <2>1. SameLife
    BY <1>2 DEF SameLife
  <2> QED BY <1>2, <1>3, <2>1, GotoJoins DEF MutexSteps
<1>5. lifeOf' = lifeOf /\ joiningOf' = joiningOf
  BY <1>4, SameView
<1>6. lifeOf[t] = "live" /\ joiningOf[t] = NoThread
  BY <1>2, CallerLives
<1>7. CASE SameOwners
  BY <1>4, <1>7, Unseen
<1>8. CASE InitBody(t)
  <2>1. CASE MayInit(m)
    <3>1. /\ initialized' = [initialized EXCEPT ![m] = TRUE]
          /\ threadId' = [threadId EXCEPT ![m] = NoThread] /\ ~initialized[m]
      BY <1>1, <1>8, <2>1 DEF InitBody, MayInit
    <3>2. ownerOf' = ownerOf
      BY <3>1 DEF ownerOf, TypeOK
    <3>3. Api!SetUp(m)
      BY <1>5, <3>1, <3>2 DEF Api!SetUp, lifeOf, joiningOf, ownerOf
    <3> QED BY <3>3 DEF Api!ApiNext
  <2>2. CASE ~MayInit(m)
    BY <1>1, <1>7, <1>8, <2>2 DEF InitBody, mutexVars, SameOwners
  <2> QED BY <2>1, <2>2
<1>9. CASE LockGot(t)
  <2>1. CASE initialized[m]
    <3>1. initialized' = initialized /\ threadId' = [threadId EXCEPT ![m] = t]
      BY <1>1, <1>9, <2>1 DEF LockGot
    <3>2. threadId[m] = NoThread
      <4>1. holds[m] = {}
        BY <1>1, <1>9 DEF LockGot, Ownership
      <4> QED BY <2>1, <4>1 DEF Targets
    <3>3. ownerOf[m] = NoThread /\ ownerOf' = [ownerOf EXCEPT ![m] = t]
      BY <2>1, <3>1, <3>2 DEF ownerOf, TypeOK
    <3>4. Api!Acquire(t, m)
      BY <1>5, <1>6, <2>1, <3>1, <3>3 DEF Api!Acquire, lifeOf, joiningOf, ownerOf
    <3> QED BY <3>4 DEF Api!ApiNext
  <2>2. CASE ~initialized[m]
    BY <1>1, <1>7, <1>9, <2>2 DEF LockGot, SameOwners
  <2> QED BY <2>1, <2>2
<1>10. CASE UnlockBody(t)
  <2>1. CASE MayUnlock(t, m)
    <3>1. /\ initialized[m] /\ threadId[m] = t
          /\ initialized' = initialized /\ threadId' = [threadId EXCEPT ![m] = NoThread]
      BY <1>1, <1>10, <2>1 DEF UnlockBody, MayUnlock
    <3>2. ownerOf[m] = t /\ ownerOf' = [ownerOf EXCEPT ![m] = NoThread]
      BY <3>1 DEF ownerOf, TypeOK
    <3>3. Api!Release(t, m)
      BY <1>5, <1>6, <3>1, <3>2 DEF Api!Release, lifeOf, joiningOf, ownerOf
    <3> QED BY <3>3 DEF Api!ApiNext
  <2>2. CASE ~MayUnlock(t, m)
    BY <1>1, <1>7, <1>10, <2>2 DEF UnlockBody, mutexVars, SameOwners
  <2> QED BY <2>1, <2>2
<1>11. CASE DestroyBody(t)
  <2>1. CASE MayDestroy(m) /\ initialized[m]
    <3>1. /\ initialized' = [initialized EXCEPT ![m] = FALSE]
          /\ threadId' = [threadId EXCEPT ![m] = NoThread]
      BY <1>1, <1>11, <2>1 DEF DestroyBody
    <3>2. threadId[m] = NoThread
      <4>1. holds[m] = {}
        BY <2>1 DEF MayDestroy, Ownership
      <4> QED BY <2>1, <4>1 DEF Targets
    <3>3. ownerOf[m] = NoThread /\ ownerOf' = ownerOf
      BY <3>1, <3>2 DEF ownerOf, TypeOK
    <3>4. Api!TearDown(m)
      BY <1>5, <2>1, <3>1, <3>3 DEF Api!TearDown, lifeOf, joiningOf, ownerOf
    <3> QED BY <3>4 DEF Api!ApiNext
  <2>2. CASE MayDestroy(m) /\ ~initialized[m]
    <3>1. /\ initialized' = [initialized EXCEPT ![m] = FALSE]
          /\ threadId' = [threadId EXCEPT ![m] = NoThread]
      BY <1>1, <1>11, <2>2 DEF DestroyBody
    <3>2. SameOwners
      BY <2>2, <3>1 DEF SameOwners, TypeOK
    <3> QED BY <1>7, <3>2
  <2>3. CASE ~MayDestroy(m)
    BY <1>1, <1>7, <1>11, <2>3 DEF DestroyBody, SameOwners
  <2> QED BY <2>1, <2>2, <2>3
<1> QED BY <1>8, <1>9, <1>10, <1>11

\* The other steps of a thread are visible when it is created, ends, joins or is joined.
LEMMA LifecycleSeen ==
  ASSUME TypeOK, Control, Places, Places', Joins, Targets, NEW t \in Threads, Lifecycle(t)
  PROVE  Api!ApiNext \/ UNCHANGED Api!apiVars
<1> USE DEF At
<1>1. SameOwners
  BY DEF Lifecycle, CreateCall, CreateBody, Yield, ExitCall, FunctionReturns, ExitEnter,
         ExitWake, ExitDone, JoinCall, JoinSearch, JoinBlock, JoinReturn, Call, mutexVars,
         SameOwners
<1>2. CASE CreateBody(t)
  <2>1. /\ activeThread = t /\ pc[t].at = "create" /\ Goto(t, "raise", NoThread)
        /\ status' = [status EXCEPT ![nextThreadId] = "READY"]
    BY <1>2 DEF CreateBody
  <2>2. PICK u \in Threads : u = nextThreadId
    BY <2>1, ConstantsAssumption DEF Control, TypeOK, Threads
  <2>3. status[u] = "ABSENT"
    <3>1. nextThreadId \in Int
      BY DEF TypeOK
    <3> QED BY <2>2, <3>1 DEF Places, TidsInOrder
  <2>4. SameJoins
    BY <2>1, GotoJoins
  <2>5. Api!Start(u)
    BY <1>1, <2>1, <2>2, <2>3, <2>4, StartSeen
  <2> QED BY <2>5 DEF Api!ApiNext
<1>3. CASE ExitDone(t)
  <2>1. /\ activeThread = t /\ pc[t].at = "exit_wake" /\ Goto(t, "exit_raise", NoThread)
        /\ status' = [status EXCEPT ![t] = "TERMINATED"]
    BY <1>3 DEF ExitDone
  <2>2. status[t] = "RUNNING"
    BY <2>1, ActiveRunning DEF Places, Raising
  <2>3. SameJoins
    BY <2>1, GotoJoins
  <2>4. Api!End(t)
    BY <1>1, <2>1, <2>2, <2>3, EndSeen
  <2> QED BY <2>4 DEF Api!ApiNext
<1>4. CASE JoinBlock(t)
  BY <1>4, JoinSeen DEF Api!ApiNext
<1>5. CASE JoinReturn(t)
  BY <1>5, JoinedSeen DEF Api!ApiNext
<1>6. CASE ExitWake(t)
  <2> DEFINE w == Head(joinQueue[t])
  <2>1. /\ joinQueue[t] # <<>> /\ status' = [status EXCEPT ![w] = "READY"] /\ pc' = pc
    BY <1>6 DEF ExitWake
  <2>2. w \in JoinedOn(t)
    <3>1. joinQueue[t] \in Seq(Threads)
      BY DEF TypeOK
    <3> QED BY <2>1, <3>1, DequeueMembers DEF Places, Queues, JoinQueues
  <2> HIDE DEF w
  <2>3. status[w] = "BLOCKED" /\ w \in Threads
    BY <2>2 DEF JoinedOn
  <2>4. status'[w] = "READY" /\ \A u \in Threads : u # w => status'[u] = status[u]
    BY <2>1, <2>3 DEF TypeOK
  <2>5. SameLife
    BY <2>3, <2>4 DEF SameLife, Ended
  <2>6. SameJoins
    BY <2>1 DEF SameJoins
  <2> QED BY <1>1, <2>5, <2>6, Unseen
<1>7. CASE \/ CreateCall(t) \/ Yield(t) \/ ExitCall(t) \/ FunctionReturns(t) \/ ExitEnter(t)
           \/ JoinCall(t) \/ JoinSearch(t)
  <2>1. /\ activeThread = t
        /\ pc[t].at \notin {"join_raise", "join_return"} /\ pc[t].at \notin Raising
    BY <1>7 DEF CreateCall, Yield, ExitCall, FunctionReturns, ExitEnter, JoinCall, JoinSearch,
                Call, MayCall, Raising
  <2>2. \E step, x : Goto(t, step, x) /\ step \notin {"join_raise", "join_return"}
    BY <1>7 DEF CreateCall, Yield, ExitCall, FunctionReturns, ExitEnter, JoinCall, JoinSearch,
                Call, LeaveBlock, Return
  <2>3. SameJoins
    BY <2>1, <2>2, GotoJoins
  <2>4. status' = status \/ status' = [status EXCEPT ![t] = "READY"]
    BY <1>7 DEF CreateCall, Yield, ExitCall, FunctionReturns, ExitEnter, JoinCall, JoinSearch,
                Call, schedVars
  <2>5. status[t] = "RUNNING"
    BY <2>1, ActiveRunning DEF Places
  <2>6. SameLife
    BY <2>4, <2>5 DEF SameLife, Ended, TypeOK
  <2> QED BY <1>1, <2>3, <2>6, Unseen
<1> QED BY <1>2, <1>3, <1>4, <1>5, <1>6, <1>7 DEF Lifecycle

LEMMA LockingSeen ==
  ASSUME TypeOK, Control, Ownership, Places, Places', Targets, NEW t \in Threads, Locking(t)
  PROVE  Api!ApiNext \/ UNCHANGED Api!apiVars
<1> USE DEF At
<1>1. CASE InitBody(t) \/ LockGot(t) \/ UnlockBody(t) \/ DestroyBody(t)
  BY <1>1, MutexSeen
<1>2. CASE \/ InitCall(t) \/ LockCall(t) \/ UnlockCall(t) \/ DestroyCall(t)
           \/ LockCheck(t) \/ LockTry(t) \/ LockRetry(t) \/ LockBlock(t) \/ DestroyDone(t)
           \/ UnlockWake(t) \/ DestroyWake(t)
  <2>1. SameOwners
    BY <1>2 DEF InitCall, LockCall, UnlockCall, DestroyCall, Call, LockCheck, LockTry, LockRetry,
                LockBlock, DestroyDone, UnlockWake, DestroyWake, mutexVars, SameOwners
  <2>2. activeThread = t /\ pc[t].at \notin {"join_raise", "join_return"}
    BY <1>2 DEF InitCall, LockCall, UnlockCall, DestroyCall, Call, MayCall, LockCheck, LockTry,
                LockRetry, LockBlock, DestroyDone, UnlockWake, DestroyWake
  <2>3. \/ pc' = pc
        \/ \E step, x : Goto(t, step, x) /\ step \notin {"join_raise", "join_return"}
    BY <1>2 DEF InitCall, LockCall, UnlockCall, DestroyCall, Call, LockCheck, LockTry, LockRetry,
                LockBlock, DestroyDone, UnlockWake, DestroyWake, LeaveBlock, Return
  <2>4. SameJoins
    <3>1. CASE pc' = pc
      BY <3>1 DEF SameJoins
    <3> QED BY <2>2, <2>3, <3>1, GotoJoins
  <2>5. CASE LockBlock(t)
    <3>1. pc[t].at \notin Raising /\ status' = [status EXCEPT ![t] = "BLOCKED"]
      BY <2>5 DEF LockBlock, Raising
    <3>2. status[t] = "RUNNING"
      BY <2>2, <3>1, ActiveRunning DEF Places
    <3>3. SameLife
      BY <3>1, <3>2 DEF SameLife, Ended, TypeOK
    <3> QED BY <2>1, <2>4, <3>3, Unseen
  <2>6. CASE UnlockWake(t) \/ DestroyWake(t)
    <3>1. PICK m \in Mutexes : m = pc[t].on
      BY <2>6, FrameOperand DEF UnlockWake, DestroyWake, MutexSteps
    <3>2. CASE blockedThreads[m] = <<>>
      <4>1. status' = status
        BY <2>6, <3>1, <3>2 DEF UnlockWake, DestroyWake
      <4>2. SameLife
        BY <4>1 DEF SameLife
      <4> QED BY <2>1, <2>4, <4>2, Unseen
    <3>3. CASE blockedThreads[m] # <<>>
      <4>1. PICK w \in WaitingFor(m) : w = Head(blockedThreads[m])
        <5>1. blockedThreads[m] \in Seq(Threads)
          BY DEF TypeOK
        <5> QED BY <3>3, <5>1, DequeueMembers DEF Places, Queues, MutexQueues
      <4>2. w \in Threads /\ status[w] = "BLOCKED"
        BY <4>1 DEF WaitingFor
      <4>3. status' = [status EXCEPT ![w] = "READY"]
        BY <2>6, <3>1, <3>3, <4>1 DEF UnlockWake, DestroyWake, WakeOldest
      <4>4. status'[w] = "READY" /\ \A u \in Threads : u # w => status'[u] = status[u]
        BY <4>2, <4>3 DEF TypeOK
      <4>5. SameLife
        BY <4>2, <4>4 DEF SameLife, Ended
      <4> QED BY <2>1, <2>4, <4>5, Unseen
    <3> QED BY <3>2, <3>3
  <2>7. CASE ~(LockBlock(t) \/ UnlockWake(t) \/ DestroyWake(t))
    <3>1. status' = status
      BY <1>2, <2>7 DEF InitCall, LockCall, UnlockCall, DestroyCall, Call, LockCheck, LockTry,
                        LockRetry, DestroyDone, schedVars
    <3>2. SameLife
      BY <3>1 DEF SameLife
    <3> QED BY <2>1, <2>4, <3>2, Unseen
  <2> QED BY <2>5, <2>6, <2>7
<1> QED BY <1>1, <1>2 DEF Locking

LEMMA ApiStep ==
  ASSUME Safe, Places, Places', Joins, Targets, [Next]_vars
  PROVE  Api!ApiNext \/ UNCHANGED Api!apiVars
<1> USE DEF Safe
<1>1. CASE UNCHANGED <<status, pc, initialized, threadId>>
  <2>1. SameLife /\ SameJoins /\ SameOwners
    BY <1>1 DEF SameLife, SameJoins, SameOwners
  <2> QED BY <2>1, Unseen
<1>2. CASE UNCHANGED vars \/ Stopped \/ MainReturns
  BY <1>1, <1>2 DEF Stopped, MainReturns, vars, schedVars, mutexVars
<1>3. CASE initMainContext
  <2>1. /\ nextThreadId = 0 /\ UNCHANGED <<pc, initialized, threadId>>
        /\ status' = [status EXCEPT ![Main] = "RUNNING"] /\ Main \in Threads /\ Main = 0
    BY <1>3, ConstantsAssumption DEF initMainContext, mutexVars, Main, Threads
  <2>2. status[Main] = "ABSENT" /\ SameJoins /\ SameOwners
    BY <2>1 DEF Places, TidsInOrder, SameJoins, SameOwners
  <2>3. Api!Start(Main)
    BY <2>1, <2>2, StartSeen
  <2> QED BY <2>1, <2>3 DEF Api!ApiNext
<1>4. ASSUME SameLives, UNCHANGED <<nextThreadId, initialized, threadId>>, SameJoins
      PROVE  UNCHANGED Api!apiVars
  <2>1. SameLife
    BY <1>4, NoNewStrangers DEF SameLife, SameLives
  <2>2. SameOwners
    BY <1>4 DEF SameOwners
  <2> QED BY <1>4, <2>1, <2>2, Unseen
<1>5. ASSUME NEW t \in Threads, Raise(t) PROVE UNCHANGED Api!apiVars
  <2>1. /\ UNCHANGED <<nextThreadId, initialized, threadId, blockedThreads, joinQueue>>
        /\ Switch /\ activeThread = t /\ pc[t].at \in Raising
        /\ pc'[t].at = AfterRaise(pc[t].at) /\ pc'[t].on = pc[t].on
        /\ \A u \in Threads : u # t => pc'[u] = pc[u]
    BY <1>5, RaiseSwitches DEF threadVars, mutexVars
  <2>2. Joining(pc'[t]) = Joining(pc[t])
    BY <2>1 DEF Joining, Raising, AfterRaise
  <2>3. SameJoins
    BY <2>1, <2>2 DEF SameJoins
  <2>4. SameLives
    BY <2>1, SwitchPlaces
  <2> QED BY <1>4, <2>1, <2>3, <2>4
<1>6. CASE TimerFires
  <2>1. /\ activeThread \in Threads
        /\ UNCHANGED <<nextThreadId, initialized, threadId, blockedThreads, joinQueue, pc>>
    BY <1>6 DEF TimerFires, Control, threadVars, mutexVars
  <2>2. CASE doNotInterrupt
    BY <1>1, <1>6, <2>1, <2>2 DEF TimerFires
  <2>3. CASE ~doNotInterrupt
    <3>1. SameLives
      BY <1>6, <2>1, <2>3, SwitchPlaces DEF TimerFires
    <3>2. SameJoins
      BY <2>1 DEF SameJoins
    <3> QED BY <1>4, <2>1, <3>1, <3>2
  <2> QED BY <2>2, <2>3
<1> QED
  BY <1>2, <1>3, <1>5, <1>6, LifecycleSeen, LockingSeen DEF Next

-----------------------------------------------------------------------------
(* The theorem.                                                            *)

LEMMA ApiInitially == Init => Api!ApiInit
<1> SUFFICES ASSUME Init PROVE Api!ApiInit
  OBVIOUS
<1>1. Life("ABSENT") = "none" /\ Joining([at |-> "user", on |-> NoThread]) = NoThread
  BY DEF Life, Joining
<1> QED BY <1>1 DEF Init, Api!ApiInit

\* However calls, ticks and wake-ups interleave, what the callers see of the library is
\* what mypthread.h promises: threads start and end once, a join returns when its target
\* has ended, and a usable mutex is taken when it is free and given back by its owner.
THEOREM ThreadApiImplemented == Spec => ImplementsThreadApi
<1>1. Init => Targets /\ Api!ApiInit
  BY InitTargets, ApiInitially
<1>2. Waiting /\ Waiting' /\ Targets /\ [Next]_vars => Targets'
  BY TargetsStep DEF Waiting, Safe
<1>3. Waiting /\ Waiting' /\ Targets /\ [Next]_vars => [Api!ApiNext]_(Api!apiVars)
  BY ApiStep DEF Waiting
<1> QED BY <1>1, <1>2, <1>3, WaitingInvariant, PTL DEF Spec, ImplementsThreadApi, Api!ApiSpec
=============================================================================
