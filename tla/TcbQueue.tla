------------------------------ MODULE TcbQueue ------------------------------
(* What the users of the list of mypthread.c expect of it: a sequence of   *)
(* threads, the next one to be dequeued first.                             *)
EXTENDS Sequences, Integers

CONSTANTS Tcbs,    \* records with a tid and a quantaCount
          NoTcb    \* the NULL an unsuccessful operation returns

VARIABLES use,     \* readyQueue, a wait queue, or allThreads
          queue, result

queueVars == <<use, queue, result>>

QueueInit == use \in {"ready", "wait", "all"} /\ queue = <<>> /\ result = NoTcb

Fresh(t) == \A i \in 1 .. Len(queue) : queue[i].tid # t.tid

Put(t) ==
  /\ use # "ready" /\ Fresh(t)
  /\ queue' = Append(queue, t)
  /\ UNCHANGED <<use, result>>

\* Behind every thread with as few quanta, ahead of every thread with more.
PutByQuanta(t) ==
  /\ use = "ready" /\ Fresh(t)
  /\ \E k \in 0 .. Len(queue) :
       /\ \A i \in 1 .. k : queue[i].quantaCount <= t.quantaCount
       /\ \A i \in k + 1 .. Len(queue) : queue[i].quantaCount > t.quantaCount
       /\ queue' = SubSeq(queue, 1, k) \o <<t>> \o SubSeq(queue, k + 1, Len(queue))
  /\ UNCHANGED <<use, result>>

Take ==
  /\ use # "all"
  /\ result' = IF queue = <<>> THEN NoTcb ELSE Head(queue)
  /\ queue' = IF queue = <<>> THEN queue ELSE Tail(queue)
  /\ UNCHANGED use

Has(tid) == \E i \in 1 .. Len(queue) : queue[i].tid = tid
IsResult(i, tid) == queue[i].tid = tid /\ result' = queue[i]

\* The members of allThreads are looked up by tid only: a removal may turn the
\* sequence round, it may not lose or repeat a thread.
Delete(tid) ==
  /\ use = "all"
  /\ \/ ~Has(tid) /\ result' = NoTcb /\ UNCHANGED queue
     \/ \E i \in 1 .. Len(queue) :
          LET rest == SubSeq(queue, 1, i - 1) \o SubSeq(queue, i + 1, Len(queue))
          IN  /\ IsResult(i, tid)
              /\ \E k \in 0 .. Len(rest) :
                   queue' = SubSeq(rest, k + 1, Len(rest)) \o SubSeq(rest, 1, k)
  /\ UNCHANGED use

Find(tid) ==
  /\ use = "all"
  /\ \/ ~Has(tid) /\ result' = NoTcb
     \/ \E i \in 1 .. Len(queue) : IsResult(i, tid)
  /\ UNCHANGED <<use, queue>>

QueueNext == \/ \E t \in Tcbs : Put(t) \/ PutByQuanta(t)
             \/ Take
             \/ \E tid \in {t.tid : t \in Tcbs} : Delete(tid) \/ Find(tid)

QueueSpec == QueueInit /\ [][QueueNext]_queueVars
=============================================================================
