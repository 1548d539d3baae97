----------------------------- MODULE MyPThread -----------------------------
(***************************************************************************)
(* The user-level thread library of src/myPThreads: one processor, one     *)
(* ready queue ordered by quanta, a one-shot interval timer, joins and     *)
(* blocking mutexes.                                                       *)
(*                                                                         *)
(* Only the active thread executes.  Between two of its atomic steps a     *)
(* timer signal may run the scheduler, unless doNotInterrupt is set.  The  *)
(* signal handler itself runs with SIGALRM masked and is one step.  The    *)
(* threads call the library in every order a C program could.              *)
(***************************************************************************)
EXTENDS Integers, Sequences

CONSTANTS MaxThreads, \* threads a program creates, the main thread included
          Mutexes,    \* the mypthread_mutex_t objects of the program
          MaxQuanta   \* a thread with this quantaCount makes no further call

Threads == 0 .. MaxThreads - 1
Main == 0
NoThread == -1        \* a NULL tcb, and the threadId of a mutex without owner

ASSUME ConstantsAssumption ==
  /\ MaxThreads \in Nat \ {0}
  /\ MaxQuanta \in Nat
  /\ Mutexes \cap (Threads \cup {NoThread}) = {}

\* What retValFromJoin leads to: a join without an address, an address nothing
\* was written to, an unspecified value, or the value thread t passed to exit (t).
NoAddress == -3
Garbage == -2
Unwritten == -1

VARIABLES
  proc,            \* the process: running, exited, crashed or undefined
  pc,              \* per thread: the step it is at and the object it works on
  exitStack,       \* per thread: its frames on the shared exit stack
  activeThread, status, quantaCount, readyQueue, doNotInterrupt, timer,
  allThreads, nextThreadId, joinQueue, retVal,
  initialized, locked, threadId, blockedThreads,
  holds,           \* history: the threads whose last lock returned 0
  wokenByDestroy   \* history: the threads a destroy took out of a wait queue

schedVars  == <<proc, activeThread, status, quantaCount, readyQueue, timer>>
threadVars == <<allThreads, nextThreadId, joinQueue, retVal, exitStack>>
mutexVars  == <<initialized, locked, threadId, blockedThreads>>
ghostVars  == <<holds, wokenByDestroy>>
vars == <<schedVars, threadVars, mutexVars, ghostVars, pc, doNotInterrupt>>

MutexSteps == {"init", "lock_check", "lock_try", "lock_block", "lock_raise",
               "lock_retry", "lock_got", "unlock", "unlock_wake", "destroy",
               "destroy_wake"}
JoinSteps  == {"join_search", "join_block", "join_raise", "join_return"}
PlainSteps == {"user", "create", "raise", "exit_enter", "exit_wake", "exit_raise"}
\* The steps at which doNotInterrupt is set.
CriticalSteps == {"create", "init", "lock_check", "lock_try", "lock_block",
                  "lock_got", "unlock", "unlock_wake", "destroy", "destroy_wake",
                  "join_search", "join_block", "exit_wake"}

Frame == [at : PlainSteps, on : {NoThread}]
           \cup [at : MutexSteps, on : Mutexes]
           \cup [at : JoinSteps, on : Threads]

Init ==
  /\ proc = "running"
  /\ pc = [t \in Threads |-> [at |-> "user", on |-> NoThread]]
  /\ exitStack = [t \in Threads |-> "off"]
  /\ activeThread = NoThread
  /\ status = [t \in Threads |-> "ABSENT"]
  /\ quantaCount = [t \in Threads |-> 0]
  /\ readyQueue = <<>>
  /\ doNotInterrupt = FALSE
  /\ timer = FALSE
  /\ allThreads = {}
  /\ nextThreadId = 0
  /\ joinQueue = [t \in Threads |-> <<>>]
  /\ retVal = [t \in Threads |-> NoAddress]
  /\ initialized = [m \in Mutexes |-> FALSE]
  /\ locked = [m \in Mutexes |-> FALSE]
  /\ threadId = [m \in Mutexes |-> 0]
  /\ blockedThreads = [m \in Mutexes |-> <<>>]
  /\ holds = [m \in Mutexes |-> {}]
  /\ wokenByDestroy = {}

-----------------------------------------------------------------------------
(* Queues.  Index 1 is the node the code calls the tail: it is dequeued    *)
(* first.                                                                  *)

\* Mutant: a plain FIFO enqueue.
FifoEnqueue(q, t, quanta) == Append(q, t)

\* Insert t behind the threads with no more quanta, ahead of those with more.
enqueueByQuanta(q, t, quanta) ==
  IF q = <<>> \/ quanta[q[Len(q)]] <= quanta[t]
  THEN Append(q, t)
  ELSE LET i == CHOOSE k \in 1 .. Len(q) :
                  /\ quanta[t] < quanta[q[k]]
                  /\ \A j \in 1 .. k - 1 : quanta[q[j]] <= quanta[t]
       IN  [j \in 1 .. Len(q) + 1 |->
              IF j < i THEN q[j] ELSE IF j = i THEN t ELSE q[j - 1]]

-----------------------------------------------------------------------------
(* The active thread and its steps.                                        *)

At(t, step) == proc = "running" /\ activeThread = t /\ pc[t].at = step
Move(t, step, x) == [pc EXCEPT ![t] = [at |-> step, on |-> x]]
Goto(t, step, x) == pc' = Move(t, step, x)
Return(t) == Goto(t, "user", NoThread)

\* A call of the library by t; the first step of its block sets doNotInterrupt.
MayCall(t) == At(t, "user") /\ quantaCount[t] < MaxQuanta
Call(t, step, x) ==
  /\ MayCall(t)
  /\ Goto(t, step, x)
  /\ doNotInterrupt' = TRUE
  /\ UNCHANGED <<schedVars, threadVars, mutexVars, ghostVars>>

\* The end of a block without a switch.
LeaveBlock(t) == Return(t) /\ doNotInterrupt' = FALSE

-----------------------------------------------------------------------------
(* The scheduler: the SIGALRM handler, for a raise and for the timer.      *)

\* Mutant: no break between the cases of the switch, a blocked thread is requeued.
ParkedFallsThrough(s) == IF s = "TERMINATED" THEN "FREED" ELSE "READY"

\* What becomes of the interrupted thread: ready again, freed, or left blocked.
Parked(s) == CASE s = "RUNNING" -> "READY"
               [] s = "TERMINATED" -> "FREED"
               [] OTHER -> s

\* sched_stcf past its early return: account, requeue, dispatch, arm the timer.
\* With nothing to dispatch it dereferences the NULL activeThread.
Switch ==
  LET self == activeThread
      quanta == [quantaCount EXCEPT ![self] = @ + 1]
      parked == [status EXCEPT ![self] = Parked(@)]
      queue == IF parked[self] = "READY"
               THEN enqueueByQuanta(readyQueue, self, quanta)
               ELSE readyQueue
  IN  /\ quantaCount' = quanta
      /\ timer' = TRUE
      /\ \/ /\ queue = <<>>
            /\ proc' = "crashed"
            /\ activeThread' = NoThread
            /\ status' = parked
            /\ readyQueue' = queue
         \/ /\ queue # <<>>
            /\ activeThread' = Head(queue)
            /\ readyQueue' = Tail(queue)
            /\ status' = [parked EXCEPT ![Head(queue)] = "RUNNING"]
            /\ proc' = IF exitStack[Head(queue)] = "clobbered"
                       THEN "undefined" ELSE proc

\* The step of a thread that follows its raise(SIGALRM).
AfterRaise(step) == CASE step = "raise" -> "user"
                      [] step = "lock_raise" -> "lock_retry"
                      [] step = "join_raise" -> "join_return"
                      [] OTHER -> step

Raise(t) ==
  /\ \/ At(t, "raise") \/ At(t, "lock_raise")
     \/ At(t, "join_raise") \/ At(t, "exit_raise")
  /\ Goto(t, AfterRaise(pc[t].at), pc[t].on)
  /\ IF doNotInterrupt THEN UNCHANGED schedVars ELSE Switch
  /\ UNCHANGED <<threadVars, mutexVars, ghostVars, doNotInterrupt>>

\* The timer is one-shot: a tick ignored in a block is not armed again.
TimerFires ==
  /\ proc = "running" /\ timer
  /\ quantaCount[activeThread] < MaxQuanta
  /\ IF doNotInterrupt
     THEN timer' = FALSE
          /\ UNCHANGED <<proc, activeThread, status, quantaCount, readyQueue>>
     ELSE Switch
  /\ UNCHANGED <<threadVars, mutexVars, ghostVars, pc, doNotInterrupt>>

-----------------------------------------------------------------------------
(* Threads: create, yield, exit, join.                                     *)

\* Mutant: the main thread does not use up a tid.
initMainContextKeepsTid ==
  /\ proc = "running" /\ activeThread = NoThread
  /\ activeThread' = Main
  /\ status' = [status EXCEPT ![Main] = "RUNNING"]
  /\ UNCHANGED <<proc, quantaCount, readyQueue, timer, threadVars, mutexVars,
                 ghostVars, pc, doNotInterrupt>>

\* The first create or mutex call of the program makes the main thread a thread.
initMainContext ==
  /\ proc = "running" /\ nextThreadId = 0
  /\ activeThread' = Main
  /\ nextThreadId' = 1
  /\ status' = [status EXCEPT ![Main] = "RUNNING"]
  /\ UNCHANGED <<proc, quantaCount, readyQueue, timer, allThreads, joinQueue,
                 retVal, exitStack, mutexVars, ghostVars, pc, doNotInterrupt>>

CreateCall(t) == nextThreadId < MaxThreads /\ Call(t, "create", NoThread)
CreateBody(t) ==
  /\ At(t, "create")
  /\ nextThreadId' = nextThreadId + 1
  /\ status' = [status EXCEPT ![nextThreadId] = "READY"]
  /\ allThreads' = allThreads \cup {nextThreadId}
  /\ readyQueue' = enqueueByQuanta(readyQueue, nextThreadId, quantaCount)
  /\ doNotInterrupt' = FALSE
  /\ Goto(t, "raise", NoThread)
  /\ UNCHANGED <<proc, activeThread, quantaCount, timer, joinQueue, retVal,
                 exitStack, mutexVars, ghostVars>>

Yield(t) ==
  /\ MayCall(t)
  /\ status' = [status EXCEPT ![t] = "READY"]
  /\ Goto(t, "raise", NoThread)
  /\ UNCHANGED <<proc, activeThread, quantaCount, readyQueue, timer, threadVars,
                 mutexVars, ghostVars, doNotInterrupt>>

\* mypthread_exit called by a thread function, on the thread's own stack.
ExitCall(t) ==
  /\ At(t, "user") /\ t # Main
  /\ Goto(t, "exit_enter", NoThread)
  /\ UNCHANGED <<schedVars, threadVars, mutexVars, ghostVars, doNotInterrupt>>

\* A thread function returns: uc_link enters mypthread_exit on the one stack of
\* threadExitContext, over the frames of any thread preempted there.
FunctionReturns(t) ==
  /\ At(t, "user") /\ t # Main
  /\ Goto(t, "exit_enter", NoThread)
  /\ exitStack' = [u \in Threads |->
                     IF u = t THEN "on"
                     ELSE IF exitStack[u] = "on" /\ status[u] # "FREED"
                          THEN "clobbered" ELSE exitStack[u]]
  /\ UNCHANGED <<schedVars, allThreads, nextThreadId, joinQueue, retVal,
                 mutexVars, ghostVars, doNotInterrupt>>

ExitEnter(t) ==
  /\ At(t, "exit_enter")
  /\ doNotInterrupt' = TRUE
  /\ Goto(t, "exit_wake", NoThread)
  /\ UNCHANGED <<schedVars, threadVars, mutexVars, ghostVars>>

\* The value an exiting thread hands to its joiners; uc_link passes none.
ExitValue(t) == IF exitStack[t] = "off" THEN t ELSE Garbage

\* Mutant: tests the exiting thread's own retValFromJoin.
DeliveredBySelf(t, joiner) ==
  IF retVal[t] = NoAddress THEN retVal
  ELSE [retVal EXCEPT ![joiner] = ExitValue(t)]

\* Write the exit value where the joiner asked for it, if it did.
Delivered(t, joiner) ==
  IF retVal[joiner] = NoAddress THEN retVal
  ELSE [retVal EXCEPT ![joiner] = ExitValue(t)]

\* One turn of the loop over the exiting thread's joinQueue.
ExitWake(t) ==
  /\ At(t, "exit_wake")
  /\ joinQueue[t] # <<>>
  /\ LET joiner == Head(joinQueue[t])
     IN  /\ joinQueue' = [joinQueue EXCEPT ![t] = Tail(@)]
         /\ status' = [status EXCEPT ![joiner] = "READY"]
         /\ readyQueue' = enqueueByQuanta(readyQueue, joiner, quantaCount)
         /\ retVal' = Delivered(t, joiner)
  /\ UNCHANGED <<proc, activeThread, quantaCount, timer, allThreads,
                 nextThreadId, exitStack, mutexVars, ghostVars, pc, doNotInterrupt>>

ExitDone(t) ==
  /\ At(t, "exit_wake")
  /\ joinQueue[t] = <<>>
  /\ allThreads' = allThreads \ {t}
  /\ status' = [status EXCEPT ![t] = "TERMINATED"]
  /\ doNotInterrupt' = FALSE
  /\ Goto(t, "exit_raise", NoThread)
  /\ UNCHANGED <<proc, activeThread, quantaCount, readyQueue, timer, nextThreadId,
                 joinQueue, retVal, exitStack, mutexVars, ghostVars>>

\* Mutant: mypthread_join does not set doNotInterrupt.
JoinCallOpen(t) ==
  /\ MayCall(t)
  /\ \E u \in Threads : Goto(t, "join_search", u)
  /\ UNCHANGED <<schedVars, threadVars, mutexVars, ghostVars, doNotInterrupt>>

JoinCall(t) == \E u \in Threads : Call(t, "join_search", u)

\* Joining itself, or a thread that is not in allThreads, returns -1.
JoinSearch(t) ==
  /\ At(t, "join_search")
  /\ IF pc[t].on = t \/ pc[t].on \notin allThreads
     THEN LeaveBlock(t)
     ELSE Goto(t, "join_block", pc[t].on) /\ UNCHANGED doNotInterrupt
  /\ UNCHANGED <<schedVars, threadVars, mutexVars, ghostVars>>

JoinBlock(t) ==
  /\ At(t, "join_block")
  /\ joinQueue' = [joinQueue EXCEPT ![pc[t].on] = Append(@, t)]
  /\ \E value_ptr \in {NoAddress, Unwritten} :
       retVal' = [retVal EXCEPT ![t] = value_ptr]
  /\ status' = [status EXCEPT ![t] = "BLOCKED"]
  /\ doNotInterrupt' = FALSE
  /\ Goto(t, "join_raise", pc[t].on)
  /\ UNCHANGED <<proc, activeThread, quantaCount, readyQueue, timer, allThreads,
                 nextThreadId, exitStack, mutexVars, ghostVars>>

\* mypthread_join returns 0.
JoinReturn(t) ==
  /\ At(t, "join_return")
  /\ Return(t)
  /\ UNCHANGED <<schedVars, threadVars, mutexVars, ghostVars, doNotInterrupt>>

-----------------------------------------------------------------------------
(* Mutexes: init, lock, unlock, destroy.                                   *)

\* Mutant: init overwrites a mutex that is in use.
MayInitAlways(m) == TRUE
MayInit(m) == ~initialized[m] /\ ~locked[m]

InitCall(t) == \E m \in Mutexes : Call(t, "init", m)
InitBody(t) ==
  /\ At(t, "init")
  /\ LET m == pc[t].on
     IN  IF MayInit(m)
         THEN /\ initialized' = [initialized EXCEPT ![m] = TRUE]
              /\ locked' = [locked EXCEPT ![m] = FALSE]
              /\ threadId' = [threadId EXCEPT ![m] = NoThread]
              /\ blockedThreads' = [blockedThreads EXCEPT ![m] = <<>>]
         ELSE UNCHANGED mutexVars
  /\ LeaveBlock(t)
  /\ UNCHANGED <<schedVars, threadVars, ghostVars>>

LockCall(t) == \E m \in Mutexes : Call(t, "lock_check", m)

\* An uninitialised mutex, or one the caller already holds, returns -1.
LockCheck(t) ==
  /\ At(t, "lock_check")
  /\ IF ~initialized[pc[t].on] \/ threadId[pc[t].on] = t
     THEN LeaveBlock(t)
     ELSE Goto(t, "lock_try", pc[t].on) /\ UNCHANGED doNotInterrupt
  /\ UNCHANGED <<schedVars, threadVars, mutexVars, ghostVars>>

\* The atomic test-and-set of the locked flag.
LockTry(t) ==
  /\ At(t, "lock_try")
  /\ locked' = [locked EXCEPT ![pc[t].on] = TRUE]
  /\ Goto(t, IF locked[pc[t].on] THEN "lock_block" ELSE "lock_got", pc[t].on)
  /\ UNCHANGED <<schedVars, threadVars, initialized, threadId, blockedThreads,
                 ghostVars, doNotInterrupt>>

LockBlock(t) ==
  /\ At(t, "lock_block")
  /\ blockedThreads' = [blockedThreads EXCEPT ![pc[t].on] = Append(@, t)]
  /\ status' = [status EXCEPT ![t] = "BLOCKED"]
  /\ doNotInterrupt' = FALSE
  /\ Goto(t, "lock_raise", pc[t].on)
  /\ UNCHANGED <<proc, activeThread, quantaCount, readyQueue, timer, threadVars,
                 initialized, locked, threadId, ghostVars>>

\* Mutant: doNotInterrupt is not set again after the wait.
LockRetryOpen(t) ==
  /\ At(t, "lock_retry")
  /\ Goto(t, "lock_try", pc[t].on)
  /\ UNCHANGED <<schedVars, threadVars, mutexVars, ghostVars, doNotInterrupt>>

\* A woken waiter goes back to the test-and-set.
LockRetry(t) ==
  /\ At(t, "lock_retry")
  /\ doNotInterrupt' = TRUE
  /\ Goto(t, "lock_try", pc[t].on)
  /\ UNCHANGED <<schedVars, threadVars, mutexVars, ghostVars>>

\* The mutex may have been destroyed while the thread waited: give it back, -1.
LockGot(t) ==
  /\ At(t, "lock_got")
  /\ LET m == pc[t].on
     IN  IF initialized[m]
         THEN /\ threadId' = [threadId EXCEPT ![m] = t]
              /\ holds' = [holds EXCEPT ![m] = @ \cup {t}]
              /\ UNCHANGED locked
         ELSE /\ locked' = [locked EXCEPT ![m] = FALSE]
              /\ UNCHANGED <<threadId, holds>>
  /\ wokenByDestroy' = wokenByDestroy \ {t}
  /\ LeaveBlock(t)
  /\ UNCHANGED <<schedVars, threadVars, initialized, blockedThreads>>

\* Mutant: any thread unlocks.
MayUnlockAnyones(t, m) == locked[m] /\ initialized[m]
MayUnlock(t, m) == locked[m] /\ initialized[m] /\ threadId[m] = t

UnlockCall(t) == \E m \in Mutexes : Call(t, "unlock", m)

\* A mutex the caller does not hold returns -1.
UnlockBody(t) ==
  /\ At(t, "unlock")
  /\ LET m == pc[t].on
     IN  IF MayUnlock(t, m)
         THEN /\ locked' = [locked EXCEPT ![m] = FALSE]
              /\ threadId' = [threadId EXCEPT ![m] = NoThread]
              /\ holds' = [holds EXCEPT ![m] = @ \ {t}]
              /\ Goto(t, "unlock_wake", m)
              /\ UNCHANGED <<initialized, blockedThreads, wokenByDestroy,
                             doNotInterrupt>>
         ELSE LeaveBlock(t) /\ UNCHANGED <<mutexVars, ghostVars>>
  /\ UNCHANGED <<schedVars, threadVars>>

\* Make the oldest waiter of m ready.
WakeOldest(m) ==
  LET waiter == Head(blockedThreads[m])
  IN  /\ blockedThreads' = [blockedThreads EXCEPT ![m] = Tail(@)]
      /\ status' = [status EXCEPT ![waiter] = "READY"]
      /\ readyQueue' = enqueueByQuanta(readyQueue, waiter, quantaCount)

\* Only a wake-up is followed by a raise.
UnlockWake(t) ==
  /\ At(t, "unlock_wake")
  /\ IF blockedThreads[pc[t].on] = <<>>
     THEN Return(t) /\ UNCHANGED <<status, readyQueue, blockedThreads>>
     ELSE Goto(t, "raise", NoThread) /\ WakeOldest(pc[t].on)
  /\ doNotInterrupt' = FALSE
  /\ UNCHANGED <<proc, activeThread, quantaCount, timer, threadVars,
                 initialized, locked, threadId, ghostVars>>

\* Mutant: destroy does not test whether the mutex is locked.
MayDestroyAlways(m) == TRUE
MayDestroy(m) == ~locked[m]

DestroyCall(t) == \E m \in Mutexes : Call(t, "destroy", m)

\* A locked mutex returns -1; any other one becomes uninitialised.
DestroyBody(t) ==
  /\ At(t, "destroy")
  /\ LET m == pc[t].on
     IN  /\ IF MayDestroy(m)
            THEN /\ initialized' = [initialized EXCEPT ![m] = FALSE]
                 /\ locked' = [locked EXCEPT ![m] = FALSE]
                 /\ threadId' = [threadId EXCEPT ![m] = NoThread]
            ELSE UNCHANGED <<initialized, locked, threadId>>
         /\ IF MayDestroy(m) /\ blockedThreads[m] # <<>>
            THEN Goto(t, "destroy_wake", m) /\ UNCHANGED doNotInterrupt
            ELSE LeaveBlock(t)
  /\ UNCHANGED <<schedVars, threadVars, blockedThreads, ghostVars>>

\* One turn of the loop that wakes every waiter.
DestroyWake(t) ==
  /\ At(t, "destroy_wake")
  /\ blockedThreads[pc[t].on] # <<>>
  /\ WakeOldest(pc[t].on)
  /\ wokenByDestroy' = wokenByDestroy \cup {Head(blockedThreads[pc[t].on])}
  /\ UNCHANGED <<proc, activeThread, quantaCount, timer, threadVars, initialized,
                 locked, threadId, holds, pc, doNotInterrupt>>

\* Mutant: destroy may stop before its wait queue is empty.
DestroyDoneEarly(t) ==
  /\ At(t, "destroy_wake")
  /\ doNotInterrupt' = FALSE
  /\ Goto(t, "raise", NoThread)
  /\ UNCHANGED <<schedVars, threadVars, mutexVars, ghostVars>>

DestroyDone(t) ==
  /\ At(t, "destroy_wake")
  /\ blockedThreads[pc[t].on] = <<>>
  /\ doNotInterrupt' = FALSE
  /\ Goto(t, "raise", NoThread)
  /\ UNCHANGED <<schedVars, threadVars, mutexVars, ghostVars>>

-----------------------------------------------------------------------------
\* Returning from main ends the process, whatever the other threads do.
MainReturns ==
  /\ At(Main, "user")
  /\ proc' = "exited"
  /\ UNCHANGED <<activeThread, status, quantaCount, readyQueue, timer, threadVars,
                 mutexVars, ghostVars, pc, doNotInterrupt>>

Stopped == proc # "running" /\ UNCHANGED vars

Lifecycle(t) == \/ CreateCall(t) \/ CreateBody(t) \/ Yield(t)
                \/ ExitCall(t) \/ FunctionReturns(t) \/ ExitEnter(t)
                \/ ExitWake(t) \/ ExitDone(t)
                \/ JoinCall(t) \/ JoinSearch(t) \/ JoinBlock(t) \/ JoinReturn(t)

Locking(t) == \/ InitCall(t) \/ InitBody(t)
              \/ LockCall(t) \/ LockCheck(t) \/ LockTry(t) \/ LockBlock(t)
              \/ LockRetry(t) \/ LockGot(t)
              \/ UnlockCall(t) \/ UnlockBody(t) \/ UnlockWake(t)
              \/ DestroyCall(t) \/ DestroyBody(t) \/ DestroyWake(t) \/ DestroyDone(t)

Next == \/ initMainContext
        \/ \E t \in Threads : Lifecycle(t) \/ Locking(t) \/ Raise(t)
        \/ TimerFires
        \/ MainReturns
        \/ Stopped

Spec == Init /\ [][Next]_vars

-----------------------------------------------------------------------------
(* Properties.                                                             *)

\* Every variable keeps its type, and the library has an active thread exactly from
\* the first tid on, until it crashes.
TypeOK ==
  /\ proc \in {"running", "exited", "crashed", "undefined"}
  /\ pc \in [Threads -> Frame]
  /\ exitStack \in [Threads -> {"off", "on", "clobbered"}]
  /\ activeThread \in Threads \cup {NoThread}
  /\ status \in [Threads -> {"ABSENT", "READY", "RUNNING", "BLOCKED",
                             "TERMINATED", "FREED"}]
  /\ quantaCount \in [Threads -> Nat]
  /\ readyQueue \in Seq(Threads)
  /\ doNotInterrupt \in BOOLEAN
  /\ timer \in BOOLEAN
  /\ allThreads \in SUBSET Threads
  /\ nextThreadId \in 0 .. MaxThreads
  /\ joinQueue \in [Threads -> Seq(Threads)]
  /\ retVal \in [Threads -> Threads \cup {NoAddress, Garbage, Unwritten}]
  /\ initialized \in [Mutexes -> BOOLEAN]
  /\ locked \in [Mutexes -> BOOLEAN]
  /\ threadId \in [Mutexes -> Threads \cup {NoThread}]
  /\ blockedThreads \in [Mutexes -> Seq(Threads)]
  /\ holds \in [Mutexes -> SUBSET Threads]
  /\ wokenByDestroy \in SUBSET Threads
  /\ proc = "running" => (nextThreadId = 0 <=> activeThread = NoThread)

Elems(q) == {q[i] : i \in 1 .. Len(q)}
NoRepeats(q) == \A i, j \in 1 .. Len(q) : q[i] = q[j] => i = j

\* The threads that wait for m, and those that wait in a join on u, by their steps.
WaitingFor(m) == {t \in Threads : /\ status[t] = "BLOCKED"
                                  /\ pc[t].at \in {"lock_raise", "lock_retry"}
                                  /\ pc[t].on = m}
JoinedOn(u) == {t \in Threads : /\ status[t] = "BLOCKED"
                                /\ pc[t].at \in {"join_raise", "join_return"}
                                /\ pc[t].on = u}

\* Tids are handed out in order and once.  No thread is lost, queued twice or queued
\* after it was freed: a ready thread that is not active is once in readyQueue and a
\* blocked one is once in the queue of the mutex or thread it waits for; nothing else
\* is in any queue (the status and queue updates of create, exit, join, lock, unlock,
\* destroy and sched_stcf).
EveryThreadInItsQueue ==
  /\ \A t \in Threads : status[t] = "ABSENT" <=> t >= nextThreadId
  /\ NoRepeats(readyQueue)
  /\ Elems(readyQueue) = {t \in Threads : status[t] = "READY"} \ {activeThread}
  /\ \A m \in Mutexes : /\ NoRepeats(blockedThreads[m])
                        /\ Elems(blockedThreads[m]) = WaitingFor(m)
  /\ \A u \in Threads : /\ NoRepeats(joinQueue[u])
                        /\ Elems(joinQueue[u]) = JoinedOn(u)
  /\ \A t \in Threads : status[t] = "BLOCKED" =>
       \/ \E m \in Mutexes : t \in WaitingFor(m)
       \/ \E u \in Threads : t \in JoinedOn(u)

\* At most one thread is between a mypthread_mutex_lock that returned 0 and its
\* successful unlock, for any calls, preemptions and destroys of the others.
MutualExclusion ==
  \A m \in Mutexes : \A t, u \in holds[m] : t = u

\* What a holder relies on: the mutex it holds stays initialised, locked and
\* recorded as its own (destroy, init and other threads' unlocks must fail).
HeldMutexIntact ==
  \A m \in Mutexes : \A t \in holds[m] :
    initialized[m] /\ locked[m] /\ threadId[m] = t

\* A thread that was woken, or is still running, and will try the lock of m again.
Retrying(t, m) == /\ status[t] \in {"READY", "RUNNING"}
                  /\ pc[t].at \in {"lock_raise", "lock_retry", "lock_try"}
                  /\ pc[t].on = m
Waking(t, m) == pc[t].at \in {"unlock_wake", "destroy_wake"} /\ pc[t].on = m

\* No lost wake-up: whenever threads are blocked on a mutex nobody has locked,
\* one is already on its way to lock it or the waker is in its loop.
NoLostWakeup ==
  \A m \in Mutexes : ~locked[m] /\ blockedThreads[m] # <<>> =>
    \E t \in Threads : Retrying(t, m) \/ Waking(t, m)

\* A destroyed mutex strands nobody: with the mutex uninitialised its wait queue
\* is empty, except inside the loop of destroy itself.
NobodyWaitsOnDestroyed ==
  \A m \in Mutexes : ~initialized[m] /\ blockedThreads[m] # <<>> =>
    \E t \in Threads : pc[t] = [at |-> "destroy_wake", on |-> m]

\* A terminated thread has woken all its joiners and is out of allThreads: a join
\* that found it before it ended is never left waiting for a freed tcb.
NobodyWaitsOnTerminated ==
  \A u \in Threads : status[u] \in {"TERMINATED", "FREED"} =>
    joinQueue[u] = <<>> /\ u \notin allThreads

\* A thread whose join has found its target and that is runnable again.
JoinOver(t) == pc[t].at = "join_return" /\ status[t] = "RUNNING"

\* mypthread_join returns 0 only when the target is past its exit, and the address
\* the joiner gave then holds the value of that exit.
JoinReturnsAfterExit ==
  \A t \in Threads : JoinOver(t) =>
    LET u == pc[t].on
    IN  /\ status[u] \in {"TERMINATED", "FREED"}
        /\ retVal[t] \in {NoAddress, ExitValue(u)}

\* The dispatch order of the scheduler: the ready queue is sorted by quantaCount,
\* so that dequeue hands out a thread with the fewest quanta.
ReadyQueueSorted ==
  \A i, j \in 1 .. Len(readyQueue) :
    i < j => quantaCount[readyQueue[i]] <= quantaCount[readyQueue[j]]

-----------------------------------------------------------------------------
(* What comments of mypthread.c say, and the code does not do.             *)

\* "They will all get an error because they will try to lock the mutext but it is
\* destroyed now" (403-404): a waiter woken by destroy never gets the lock.
DestroyedWaitersFail ==
  [][\A t \in wokenByDestroy : \A m \in Mutexes : t \in holds'[m] => t \in holds[m]]_vars

\* "Tell scheduler to ignore timer and not swap this thread while running this
\* block" (70, 137, 176, ...) of a "Preemptive SJF" scheduler (458): past the block
\* the thread is preemptible again, so with others ready the timer is armed.
PreemptibleOutsideBlocks ==
  \A t \in Threads : At(t, "user") /\ readyQueue # <<>> => timer
=============================================================================
