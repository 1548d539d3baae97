------------------------------- MODULE TcbList -------------------------------
(***************************************************************************)
(* The circular doubly linked list of mypthread.c, with its pointers.      *)
(* *head is the node added last; head->next, called the tail, is dequeued  *)
(* first.  The library uses the list in three ways: readyQueue with        *)
(* enqueueByQuanta and dequeue, joinQueue and blockedThreads with enqueue  *)
(* and dequeue, allThreads with enqueue, searchTcb and removeTcb.          *)
(***************************************************************************)
EXTENDS Integers, Sequences, FiniteSets

CONSTANTS Nodes,      \* addresses malloc returns
          Tids, MaxQuantaCount,
          NULL

ASSUME NullAssumption == NULL \notin Nodes
ASSUME QuantaAssumption == MaxQuantaCount \in Nat

Tcbs == [tid : Tids, quantaCount : 0 .. MaxQuantaCount]

VARIABLES use,        \* which of the three lists this is
          head,       \* the node *head points to, or NULL
          mem,        \* the allocated nodes
          result      \* what the last dequeue, search or removal returned

listVars == <<use, head, mem, result>>

Init ==
  /\ use \in {"ready", "wait", "all"}
  /\ head = NULL
  /\ mem = <<>>
  /\ result = NULL

-----------------------------------------------------------------------------
tail == mem[head].next
quantaCount(n) == mem[n].tcb.quantaCount

\* The nodes from the tail to the head, as the loops of the code visit them.
Walk ==
  LET size == Cardinality(DOMAIN mem)
      w[k \in 1 .. size] == IF k = 1 THEN tail ELSE mem[w[k - 1]].next
  IN  w

\* The callers put a thread in a list once.
Listed(tid) == \E n \in DOMAIN mem : mem[n].tcb.tid = tid
Unused == Nodes \ DOMAIN mem

Alone(n, t) == [x \in {n} |-> [tcb |-> t, next |-> n, prev |-> n]]

\* The memory with a node n more.
Allocated(n, node) == [x \in DOMAIN mem \cup {n} |-> IF x = n THEN node ELSE mem[x]]

\* Mutant: the node after the new one keeps its prev pointer.
LinkedHalf(n, t, before, after) ==
  [Allocated(n, [tcb |-> t, next |-> after, prev |-> before])
     EXCEPT ![before].next = n]

\* The list with a node n for t between two nodes, which may be the same.
Linked(n, t, before, after) ==
  [Allocated(n, [tcb |-> t, next |-> after, prev |-> before])
     EXCEPT ![before].next = n, ![after].prev = n]

\* Mutant: the node is freed, its neighbours still point to it.
UnlinkedFreesOnly(n, before, after) == [x \in DOMAIN mem \ {n} |-> mem[x]]

\* The list with its neighbours joined over n, and n freed.
Unlinked(n, before, after) ==
  LET joined == [mem EXCEPT ![before].next = after, ![after].prev = before]
  IN  [x \in DOMAIN mem \ {n} |-> joined[x]]

-----------------------------------------------------------------------------
enqueue(t) ==
  /\ use # "ready" /\ ~Listed(t.tid)
  /\ \E n \in Unused :
       /\ mem' = IF head = NULL THEN Alone(n, t) ELSE Linked(n, t, head, tail)
       /\ head' = n
  /\ UNCHANGED <<use, result>>

dequeue ==
  /\ use # "all"
  /\ IF head = NULL
     THEN result' = NULL /\ UNCHANGED <<head, mem>>
     ELSE /\ result' = mem[tail].tcb
          /\ mem' = IF tail = head THEN <<>> ELSE Unlinked(tail, head, mem[tail].next)
          /\ head' = IF tail = head THEN NULL ELSE head
  /\ UNCHANGED use

\* Mutant: >= for < puts t ahead of the threads with as few quanta.
OvertakesEqual(t, n) == t.quantaCount <= quantaCount(n)

\* The comparison of the loop of enqueueByQuanta.
Overtakes(t, n) == t.quantaCount < quantaCount(n)

\* The first node from the tail on that t overtakes.
FirstOvertaken(t) ==
  Walk[CHOOSE k \in DOMAIN Walk : /\ Overtakes(t, Walk[k])
                                  /\ \A j \in 1 .. k - 1 : ~Overtakes(t, Walk[j])]

\* No node; one node; a new head; or ahead of the first node with more quanta.
enqueueByQuanta(t) ==
  /\ use = "ready" /\ ~Listed(t.tid)
  /\ \E n \in Unused :
       \/ /\ head = NULL
          /\ mem' = Alone(n, t) /\ head' = n
       \/ /\ head # NULL /\ tail = head
          /\ mem' = Linked(n, t, tail, tail)
          /\ head' = IF t.quantaCount >= quantaCount(tail) THEN n ELSE tail
       \/ /\ head # NULL /\ tail # head
          /\ t.quantaCount >= quantaCount(head)
          /\ mem' = Linked(n, t, head, tail) /\ head' = n
       \/ /\ head # NULL /\ tail # head
          /\ t.quantaCount < quantaCount(head)
          /\ LET x == FirstOvertaken(t) IN mem' = Linked(n, t, mem[x].prev, x)
          /\ UNCHANGED head
  /\ UNCHANGED <<use, result>>

NodeOf(tid) == CHOOSE n \in DOMAIN mem : mem[n].tcb.tid = tid

searchTcb(tid) ==
  /\ use = "all"
  /\ result' = IF Listed(tid) THEN mem[NodeOf(tid)].tcb ELSE NULL
  /\ UNCHANGED <<use, head, mem>>

\* Removing the head makes the tail the new head.
removeTcb(tid) ==
  /\ use = "all"
  /\ IF ~Listed(tid)
     THEN result' = NULL /\ UNCHANGED <<head, mem>>
     ELSE LET n == NodeOf(tid)
          IN  /\ result' = mem[n].tcb
              /\ mem' = IF mem[n].next = n THEN <<>>
                        ELSE Unlinked(n, mem[n].prev, mem[n].next)
              /\ head' = IF mem[n].next = n THEN NULL
                         ELSE IF n = head THEN mem[n].next ELSE head
  /\ UNCHANGED use

Next == \/ \E t \in Tcbs : enqueue(t) \/ enqueueByQuanta(t)
        \/ dequeue
        \/ \E tid \in Tids : searchTcb(tid) \/ removeTcb(tid)

Spec == Init /\ [][Next]_listVars

-----------------------------------------------------------------------------
\* No pointer dangles: head, next and prev name allocated nodes, and head is NULL
\* exactly when none is left (the frees of dequeue and removeTcb).
TypeOK ==
  /\ DOMAIN mem \subseteq Nodes
  /\ \A n \in DOMAIN mem :
       mem[n] \in [tcb : Tcbs, next : DOMAIN mem, prev : DOMAIN mem]
  /\ head \in IF DOMAIN mem = {} THEN {NULL} ELSE DOMAIN mem
  /\ result \in Tcbs \cup {NULL}

\* The pointers form one ring: following next from the tail visits every allocated
\* node once and ends at *head, and prev leads back, so that no operation leaves a
\* node unreachable (the four ways to insert, and dequeue and removeTcb).
OneRing ==
  /\ \A n \in DOMAIN mem : mem[mem[n].next].prev = n
  /\ head # NULL => /\ {Walk[k] : k \in DOMAIN Walk} = DOMAIN mem
                    /\ Walk[Cardinality(DOMAIN mem)] = head

\* The threads from the tail to the head.
Queued == [k \in 1 .. Cardinality(DOMAIN mem) |-> mem[Walk[k]].tcb]

Abstract == INSTANCE TcbQueue WITH NoTcb <- NULL, queue <- Queued

\* The list is a queue to its users: first in, first out for the wait queues, stable
\* by quanta for readyQueue, and a searchable collection for allThreads.
ImplementsTcbQueue == Abstract!QueueSpec
=============================================================================
