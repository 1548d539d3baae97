-------------------------- MODULE MyPThread_proofs --------------------------
(* Theorems about MyPThread, for any number of threads and mutexes.        *)
EXTENDS MyPThread, TLAPS, WellFoundedInduction, SequenceTheorems

-----------------------------------------------------------------------------
(* What enqueueByQuanta and the other queue operations do to the members   *)
(* and the order of a queue, for queues of any length.                     *)

\* The least number principle for sets of naturals.
LEMMA LeastNatural ==
  ASSUME NEW T \in SUBSET Nat, T # {}
  PROVE  \E x \in T : \A y \in T : x <= y
<1> DEFINE Less == OpToRel(<, Nat)
<1>1. IsWellFoundedOn(Less, Nat)
  BY NatLessThanWellFounded
<1>2. PICK x \in T : \A y \in T : ~ (<<y, x>> \in Less)
  <2> HIDE DEF Less
  <2> QED BY <1>1, WFMin
<1>3. ASSUME NEW y \in T PROVE x <= y
  <2>1. ~ (<<y, x>> \in {ss \in Nat \X Nat : ss[1] < ss[2]})
    BY <1>2 DEF OpToRel
  <2>2. y \in Nat /\ x \in Nat
    OBVIOUS
  <2>3. ~ (y < x)
    <3> SUFFICES ASSUME y < x PROVE FALSE
      OBVIOUS
    <3>1. <<y, x>> \in Nat \X Nat /\ <<y, x>>[1] < <<y, x>>[2]
      BY <2>2
    <3> QED BY <3>1, <2>1
  <2> QED BY <2>2, <2>3
<1> QED BY <1>3

\* Where enqueueByQuanta puts a thread that does not go last.
Position(q, t, quanta, i) ==
  /\ i \in 1 .. Len(q)
  /\ quanta[t] < quanta[q[i]]
  /\ \A j \in 1 .. i - 1 : quanta[q[j]] <= quanta[t]

\* The scan of enqueueByQuanta stops: some thread of the queue is the first with
\* more quanta than t, when the last one has more.
LEMMA PositionExists ==
  ASSUME NEW q \in Seq(Threads), NEW t \in Threads, NEW quanta \in [Threads -> Nat],
         q # <<>>, ~ (quanta[q[Len(q)]] <= quanta[t])
  PROVE  \E i \in 1 .. Len(q) : Position(q, t, quanta, i)
<1> DEFINE T == {k \in 1 .. Len(q) : quanta[t] < quanta[q[k]]}
<1>1. T \in SUBSET Nat /\ T # {}
  <2>1. Len(q) \in T
    OBVIOUS
  <2> QED BY <2>1
<1>2. PICK i \in T : \A y \in T : i <= y
  <2> HIDE DEF T
  <2> QED BY <1>1, LeastNatural
<1>3. ASSUME NEW j \in 1 .. i - 1 PROVE quanta[q[j]] <= quanta[t]
  <2>1. j \in 1 .. Len(q) /\ j \notin T
    BY <1>2
  <2>2. quanta[q[j]] \in Nat /\ quanta[t] \in Nat
    BY <2>1
  <2> QED BY <2>1, <2>2
<1> QED BY <1>2, <1>3 DEF Position

\* The result, point by point.
LEMMA EnqueueShape ==
  ASSUME NEW q \in Seq(Threads), NEW t \in Threads, NEW quanta \in [Threads -> Nat]
  PROVE  \E i \in 1 .. Len(q) + 1 :
           /\ enqueueByQuanta(q, t, quanta) =
                [j \in 1 .. Len(q) + 1 |->
                   IF j < i THEN q[j] ELSE IF j = i THEN t ELSE q[j - 1]]
           /\ i <= Len(q) => quanta[t] < quanta[q[i]]
           /\ i <= Len(q) => \A j \in 1 .. i - 1 : quanta[q[j]] <= quanta[t]
           /\ i = Len(q) + 1 => q = <<>> \/ quanta[q[Len(q)]] <= quanta[t]
<1>1. CASE q = <<>> \/ quanta[q[Len(q)]] <= quanta[t]
  <2>1. enqueueByQuanta(q, t, quanta) = Append(q, t)
    BY <1>1 DEF enqueueByQuanta
  <2>2. Append(q, t) = [j \in 1 .. Len(q) + 1 |->
          IF j < Len(q) + 1 THEN q[j] ELSE IF j = Len(q) + 1 THEN t ELSE q[j - 1]]
    <3> DEFINE f == [j \in 1 .. Len(q) + 1 |->
          IF j < Len(q) + 1 THEN q[j] ELSE IF j = Len(q) + 1 THEN t ELSE q[j - 1]]
    <3>1. Len(q) \in Nat /\ \A j \in 1 .. Len(q) : q[j] \in Threads
      OBVIOUS
    <3>2. f \in [1 .. Len(q) + 1 -> Threads]
      BY <3>1
    <3>3. f \in Seq(Threads) /\ Len(f) = Len(q) + 1
      BY <3>2, <3>1
    <3>4. /\ Append(q, t) \in Seq(Threads) /\ Len(Append(q, t)) = Len(q) + 1
          /\ \A j \in 1 .. Len(q) + 1 : Append(q, t)[j] = f[j]
      BY <3>1
    <3> HIDE DEF f
    <3>5. Append(q, t) = f
      BY <3>3, <3>4, SeqEqual
    <3> QED BY <3>5 DEF f
  <2>3. Len(q) + 1 \in 1 .. Len(q) + 1 /\ ~ (Len(q) + 1 <= Len(q))
    OBVIOUS
  <2> QED BY <1>1, <2>1, <2>2, <2>3
<1>2. CASE ~ (q = <<>> \/ quanta[q[Len(q)]] <= quanta[t])
  <2> DEFINE i == CHOOSE k \in 1 .. Len(q) :
                    /\ quanta[t] < quanta[q[k]]
                    /\ \A j \in 1 .. k - 1 : quanta[q[j]] <= quanta[t]
  <2>1. Position(q, t, quanta, i)
    BY <1>2, PositionExists DEF Position
  <2>2. enqueueByQuanta(q, t, quanta) =
          [j \in 1 .. Len(q) + 1 |->
             IF j < i THEN q[j] ELSE IF j = i THEN t ELSE q[j - 1]]
    BY <1>2 DEF enqueueByQuanta
  <2> HIDE DEF i
  <2>3. i \in 1 .. Len(q) + 1 /\ i # Len(q) + 1
    BY <2>1 DEF Position
  <2> QED BY <2>1, <2>2, <2>3 DEF Position
<1> QED BY <1>1, <1>2

\* enqueueByQuanta adds one thread: no other thread is lost or repeated.
LEMMA EnqueueMembers ==
  ASSUME NEW q \in Seq(Threads), NEW t \in Threads, NEW quanta \in [Threads -> Nat]
  PROVE  LET r == enqueueByQuanta(q, t, quanta)
         IN  /\ r \in Seq(Threads)
             /\ Len(r) = Len(q) + 1
             /\ r # <<>>
             /\ Elems(r) = Elems(q) \cup {t}
             /\ NoRepeats(q) /\ t \notin Elems(q) => NoRepeats(r)
<1> DEFINE r == enqueueByQuanta(q, t, quanta)
<1>1. PICK i \in 1 .. Len(q) + 1 :
        r = [j \in 1 .. Len(q) + 1 |->
               IF j < i THEN q[j] ELSE IF j = i THEN t ELSE q[j - 1]]
  BY EnqueueShape
<1> HIDE DEF r
<1>2. Len(q) \in Nat /\ \A k \in 1 .. Len(q) : q[k] \in Threads
  OBVIOUS
<1>3. r \in [1 .. Len(q) + 1 -> Threads]
  BY <1>1, <1>2
<1>4. r \in Seq(Threads) /\ Len(r) = Len(q) + 1 /\ r # <<>>
  BY <1>3, <1>2
<1>5. Elems(r) = Elems(q) \cup {t}
  <2>1. ASSUME NEW j \in 1 .. Len(q) + 1 PROVE r[j] \in Elems(q) \cup {t}
    BY <1>1, <1>2 DEF Elems
  <2>2. t = r[i]
    BY <1>1
  <2>3. ASSUME NEW k \in 1 .. Len(q) PROVE \E j \in 1 .. Len(q) + 1 : r[j] = q[k]
    <3>1. CASE k < i
      BY <3>1, <1>1, <1>2
    <3>2. CASE ~ (k < i)
      <4>1. k + 1 \in 1 .. Len(q) + 1 /\ ~ (k + 1 < i) /\ k + 1 # i /\ (k + 1) - 1 = k
        BY <3>2, <1>2
      <4> QED BY <4>1, <1>1
    <3> QED BY <3>1, <3>2
  <2> QED BY <2>1, <2>2, <2>3, <1>4 DEF Elems
<1>6. ASSUME NoRepeats(q), t \notin Elems(q) PROVE NoRepeats(r)
  <2>1. SUFFICES ASSUME NEW j \in 1 .. Len(q) + 1, NEW k \in 1 .. Len(q) + 1, r[j] = r[k]
                 PROVE  j = k
    BY <1>4 DEF NoRepeats
  <2>2. \A a, b \in 1 .. Len(q) : q[a] = q[b] => a = b
    BY <1>6 DEF NoRepeats
  <2>3. \A a \in 1 .. Len(q) : q[a] # t
    BY <1>6 DEF Elems
  <2>4. ASSUME NEW l \in 1 .. Len(q) + 1, l # i
        PROVE  \E a \in 1 .. Len(q) : r[l] = q[a] /\ l = IF a < i THEN a ELSE a + 1
    <3>1. r[l] = IF l < i THEN q[l] ELSE IF l = i THEN t ELSE q[l - 1]
      BY <1>1
    <3>2. CASE l < i
      <4>1. l \in 1 .. Len(q)
        BY <1>2, <3>2
      <4> QED BY <3>1, <3>2, <4>1
    <3>3. CASE ~ (l < i)
      <4>1. PICK a \in 1 .. Len(q) : a = l - 1
        BY <1>2, <2>4, <3>3
      <4>2. r[l] = q[a]
        BY <2>4, <3>1, <3>3, <4>1
      <4>3. ~ (a < i) /\ l = a + 1
        BY <1>2, <2>4, <3>3, <4>1
      <4> QED BY <4>2, <4>3
    <3> QED BY <3>2, <3>3
  <2>5. r[i] = t
    BY <1>1
  <2>6. CASE j = i \/ k = i
    <3>1. j = i /\ k = i
      BY <2>1, <2>3, <2>4, <2>5, <2>6
    <3> QED BY <3>1
  <2>7. CASE j # i /\ k # i
    <3>1. PICK a \in 1 .. Len(q) : r[j] = q[a] /\ j = IF a < i THEN a ELSE a + 1
      BY <2>4, <2>7
    <3>2. PICK b \in 1 .. Len(q) : r[k] = q[b] /\ k = IF b < i THEN b ELSE b + 1
      BY <2>4, <2>7
    <3>3. a = b
      BY <2>1, <2>2, <3>1, <3>2
    <3> QED BY <3>1, <3>2, <3>3
  <2> QED BY <2>6, <2>7
<1> QED BY <1>4, <1>5, <1>6 DEF r

\* The order of dispatch survives an insertion.
SortedBy(q, quanta) ==
  \A i, j \in 1 .. Len(q) : i < j => quanta[q[i]] <= quanta[q[j]]

LEMMA EnqueueSorted ==
  ASSUME NEW q \in Seq(Threads), NEW t \in Threads, NEW quanta \in [Threads -> Nat],
         SortedBy(q, quanta)
  PROVE  SortedBy(enqueueByQuanta(q, t, quanta), quanta)
<1> DEFINE r == enqueueByQuanta(q, t, quanta)
<1>1. PICK i \in 1 .. Len(q) + 1 :
        /\ r = [j \in 1 .. Len(q) + 1 |->
                  IF j < i THEN q[j] ELSE IF j = i THEN t ELSE q[j - 1]]
        /\ i <= Len(q) => quanta[t] < quanta[q[i]]
        /\ i <= Len(q) => \A j \in 1 .. i - 1 : quanta[q[j]] <= quanta[t]
        /\ i = Len(q) + 1 => q = <<>> \/ quanta[q[Len(q)]] <= quanta[t]
  BY EnqueueShape
<1>2. Len(r) = Len(q) + 1
  BY EnqueueMembers
<1> HIDE DEF r
<1>3. /\ Len(q) \in Nat /\ quanta[t] \in Nat
      /\ \A k \in 1 .. Len(q) : q[k] \in Threads /\ quanta[q[k]] \in Nat
  OBVIOUS
<1>4. \A a, b \in 1 .. Len(q) : a <= b => quanta[q[a]] <= quanta[q[b]]
  BY <1>3 DEF SortedBy
<1>5. ASSUME NEW a \in 1 .. i - 1 PROVE quanta[q[a]] <= quanta[t]
  <2>1. CASE i <= Len(q)
    BY <2>1, <1>1
  <2>2. CASE i = Len(q) + 1
    <3>1. a \in 1 .. Len(q) /\ Len(q) \in 1 .. Len(q) /\ q # <<>>
      BY <2>2, <1>3
    <3>2. quanta[q[a]] <= quanta[q[Len(q)]] /\ quanta[q[Len(q)]] <= quanta[t]
      BY <2>2, <3>1, <1>1, <1>4
    <3> QED BY <3>1, <3>2, <1>3
  <2> QED BY <2>1, <2>2, <1>3
<1>6. ASSUME NEW a \in i .. Len(q) PROVE quanta[t] <= quanta[q[a]]
  <2>1. i \in 1 .. Len(q) /\ a \in 1 .. Len(q)
    BY <1>3
  <2>2. quanta[t] < quanta[q[i]] /\ quanta[q[i]] <= quanta[q[a]]
    BY <2>1, <1>1, <1>4
  <2> QED BY <2>1, <2>2, <1>3
<1>7. SUFFICES ASSUME NEW a \in 1 .. Len(q) + 1, NEW b \in 1 .. Len(q) + 1, a < b
               PROVE  quanta[r[a]] <= quanta[r[b]]
  BY <1>2 DEF SortedBy, r
<1>8. CASE b < i
  <2>1. a \in 1 .. Len(q) /\ b \in 1 .. Len(q) /\ r[a] = q[a] /\ r[b] = q[b]
    BY <1>8, <1>7, <1>1, <1>3
  <2> QED BY <2>1, <1>4, <1>7, <1>3
<1>9. CASE b = i
  <2>1. a \in 1 .. i - 1 /\ r[a] = q[a] /\ r[b] = t
    BY <1>9, <1>7, <1>1, <1>3
  <2> QED BY <2>1, <1>5
<1>10. CASE b > i
  <2>1. b - 1 \in i .. Len(q) /\ b - 1 \in 1 .. Len(q) /\ r[b] = q[b - 1]
    BY <1>10, <1>1, <1>3
  <2>2. CASE a < i
    <3>1. a \in 1 .. Len(q) /\ r[a] = q[a] /\ a <= b - 1
      BY <2>2, <1>10, <1>1, <1>3
    <3> QED BY <3>1, <2>1, <1>4, <1>3
  <2>3. CASE a = i
    BY <2>1, <2>3, <1>1, <1>6
  <2>4. CASE a > i
    <3>1. a - 1 \in 1 .. Len(q) /\ r[a] = q[a - 1] /\ a - 1 <= b - 1
      BY <2>4, <1>7, <1>1, <1>3
    <3> QED BY <3>1, <2>1, <1>4, <1>3
  <2> QED BY <2>2, <2>3, <2>4, <1>1
<1> QED BY <1>8, <1>9, <1>10, <1>1

\* Append, as enqueue does on a wait queue.
LEMMA AppendMembers ==
  ASSUME NEW q \in Seq(Threads), NEW t \in Threads
  PROVE  /\ Append(q, t) \in Seq(Threads)
         /\ Append(q, t) # <<>>
         /\ Elems(Append(q, t)) = Elems(q) \cup {t}
         /\ NoRepeats(q) /\ t \notin Elems(q) => NoRepeats(Append(q, t))
<1>1. /\ Len(q) \in Nat
      /\ Append(q, t) \in Seq(Threads)
      /\ Len(Append(q, t)) = Len(q) + 1
      /\ \A j \in 1 .. Len(q) : Append(q, t)[j] = q[j]
      /\ Append(q, t)[Len(q) + 1] = t
  OBVIOUS
<1> HIDE DEF Elems
<1>2. Elems(Append(q, t)) = Elems(q) \cup {t}
  BY <1>1 DEF Elems
<1>3. NoRepeats(q) /\ t \notin Elems(q) => NoRepeats(Append(q, t))
  BY <1>1 DEF Elems, NoRepeats
<1> QED BY <1>1, <1>2, <1>3

\* Head and Tail, as dequeue does.
LEMMA DequeueMembers ==
  ASSUME NEW q \in Seq(Threads), q # <<>>
  PROVE  /\ Head(q) \in Threads /\ Tail(q) \in Seq(Threads)
         /\ Head(q) \in Elems(q)
         /\ Elems(q) = Elems(Tail(q)) \cup {Head(q)}
         /\ NoRepeats(q) => NoRepeats(Tail(q)) /\ Head(q) \notin Elems(Tail(q))
<1>1. /\ Len(q) \in Nat \ {0}
      /\ Head(q) \in Threads /\ Head(q) = q[1]
      /\ Tail(q) \in Seq(Threads) /\ Len(Tail(q)) = Len(q) - 1
      /\ \A j \in 1 .. Len(q) - 1 : Tail(q)[j] = q[j + 1]
  OBVIOUS
<1>2. \A j \in 2 .. Len(q) : j - 1 \in 1 .. Len(q) - 1 /\ Tail(q)[j - 1] = q[j]
  BY <1>1
<1>3. Head(q) \in Elems(q) /\ Elems(Tail(q)) \subseteq Elems(q)
  BY <1>1 DEF Elems
<1>4. Elems(q) \subseteq Elems(Tail(q)) \cup {Head(q)}
  BY <1>1, <1>2 DEF Elems
<1>5. NoRepeats(q) => NoRepeats(Tail(q)) /\ Head(q) \notin Elems(Tail(q))
  BY <1>1 DEF Elems, NoRepeats
<1> QED BY <1>1, <1>3, <1>4, <1>5

-----------------------------------------------------------------------------
(* Control: who may be inside a block that must not be interrupted.        *)

Control ==
  /\ doNotInterrupt <=> /\ activeThread \in Threads
                        /\ pc[activeThread].at \in CriticalSteps
  /\ \A t \in Threads : t # activeThread => pc[t].at \notin CriticalSteps
  /\ proc = "running" /\ timer => activeThread \in Threads
  /\ \A t \in Threads : pc[t].at = "create" => nextThreadId < MaxThreads

\* Ownership: a held mutex is recorded as held, and the thread that just won the
\* test-and-set finds it free.
Ownership ==
  /\ \A m \in Mutexes : \A t \in holds[m] :
       initialized[m] /\ locked[m] /\ threadId[m] = t
  /\ \A t \in Threads : \A m \in Mutexes :
       pc[t].at = "lock_got" /\ pc[t].on = m => locked[m] /\ holds[m] = {}

LEMMA InitTypeOK == Init => TypeOK
<1> SUFFICES ASSUME Init PROVE TypeOK
  OBVIOUS
<1> USE DEF Init
<1>1. [at |-> "user", on |-> NoThread] \in Frame
  BY DEF Frame, PlainSteps
<1>2. <<>> \in Seq(Threads)
  OBVIOUS
<1>3. 0 \in Threads /\ 0 \in 0 .. MaxThreads
  BY ConstantsAssumption DEF Threads
<1>4. /\ quantaCount \in [Threads -> Nat]
      /\ readyQueue \in Seq(Threads)
      /\ joinQueue \in [Threads -> Seq(Threads)]
      /\ blockedThreads \in [Mutexes -> Seq(Threads)]
  BY <1>2
<1>5. /\ pc \in [Threads -> Frame]
      /\ threadId \in [Mutexes -> Threads \cup {NoThread}]
      /\ retVal \in [Threads -> Threads \cup {NoAddress, Garbage, Unwritten}]
  BY <1>1, <1>3
<1> QED BY <1>3, <1>4, <1>5 DEF TypeOK

\* The scheduler dispatches a thread of the queue, or the process crashes.
LEMMA SwitchTypes ==
  ASSUME TypeOK, activeThread \in Threads, Switch
  PROVE  /\ proc' \in {"running", "exited", "crashed", "undefined"}
         /\ activeThread' \in Threads \cup {NoThread}
         /\ status' \in [Threads -> {"ABSENT", "READY", "RUNNING", "BLOCKED",
                                     "TERMINATED", "FREED"}]
         /\ quantaCount' \in [Threads -> Nat]
         /\ readyQueue' \in Seq(Threads)
         /\ timer' = TRUE
         /\ proc' = "running" => activeThread' \in Threads
<1> DEFINE self == activeThread
           quanta == [quantaCount EXCEPT ![self] = @ + 1]
           parked == [status EXCEPT ![self] = Parked(@)]
           queue == IF parked[self] = "READY"
                    THEN enqueueByQuanta(readyQueue, self, quanta) ELSE readyQueue
<1>1. quanta \in [Threads -> Nat]
  BY DEF TypeOK
<1>2. parked \in [Threads -> {"ABSENT", "READY", "RUNNING", "BLOCKED",
                              "TERMINATED", "FREED"}]
  BY DEF TypeOK, Parked
<1>3. queue \in Seq(Threads)
  <2> HIDE DEF quanta, parked
  <2>1. enqueueByQuanta(readyQueue, self, quanta) \in Seq(Threads)
    BY <1>1, EnqueueMembers DEF TypeOK
  <2> QED BY <2>1 DEF TypeOK
<1>4. /\ quantaCount' = quanta /\ timer' = TRUE
      /\ \/ /\ queue = <<>>
            /\ proc' = "crashed" /\ activeThread' = NoThread
            /\ status' = parked /\ readyQueue' = queue
         \/ /\ queue # <<>>
            /\ activeThread' = Head(queue) /\ readyQueue' = Tail(queue)
            /\ status' = [parked EXCEPT ![Head(queue)] = "RUNNING"]
            /\ proc' = IF exitStack[Head(queue)] = "clobbered" THEN "undefined" ELSE proc
  BY DEF Switch
<1> HIDE DEF quanta, parked, queue
<1>5. CASE queue = <<>>
  BY <1>1, <1>2, <1>3, <1>4, <1>5
<1>6. CASE queue # <<>>
  <2>1. Head(queue) \in Threads /\ Tail(queue) \in Seq(Threads)
    BY <1>3, <1>6
  <2> QED BY <1>1, <1>2, <1>4, <1>6, <2>1 DEF TypeOK
<1> QED BY <1>5, <1>6


\* A thread inside a mutex call works on a mutex, one inside a join on a thread.
LEMMA FrameOperand ==
  ASSUME TypeOK, NEW t \in Threads
  PROVE  /\ pc[t].at \in MutexSteps => pc[t].on \in Mutexes
         /\ pc[t].at \in JoinSteps => pc[t].on \in Threads
<1>1. pc[t] \in Frame
  BY DEF TypeOK
<1> QED BY <1>1 DEF Frame, PlainSteps, MutexSteps, JoinSteps

LEMMA GotoTypes ==
  ASSUME TypeOK, NEW t \in Threads, NEW step, NEW x, Goto(t, step, x),
         \/ step \in MutexSteps /\ x \in Mutexes
         \/ step \in JoinSteps /\ x \in Threads
         \/ step \in PlainSteps /\ x = NoThread
  PROVE  pc' \in [Threads -> Frame]
<1>1. [at |-> step, on |-> x] \in Frame
  BY DEF Frame
<1> QED BY <1>1 DEF TypeOK, Goto, Move

\* Taking a thread out of a wait queue and making it ready.
LEMMA WakeTypes ==
  ASSUME TypeOK, NEW q \in Seq(Threads), q # <<>>
  PROVE  /\ Head(q) \in Threads /\ Tail(q) \in Seq(Threads)
         /\ enqueueByQuanta(readyQueue, Head(q), quantaCount) \in Seq(Threads)
         /\ [status EXCEPT ![Head(q)] = "READY"] \in
              [Threads -> {"ABSENT", "READY", "RUNNING", "BLOCKED", "TERMINATED", "FREED"}]
<1>1. Head(q) \in Threads /\ Tail(q) \in Seq(Threads)
  BY DequeueMembers
<1>2. enqueueByQuanta(readyQueue, Head(q), quantaCount) \in Seq(Threads)
  BY <1>1, EnqueueMembers DEF TypeOK
<1> QED BY <1>1, <1>2 DEF TypeOK

LEMMA CallTypes ==
  ASSUME TypeOK, NEW t \in Threads, NEW step, NEW x, Call(t, step, x),
         \/ step \in MutexSteps /\ x \in Mutexes
         \/ step \in JoinSteps /\ x \in Threads
         \/ step \in PlainSteps /\ x = NoThread
  PROVE  TypeOK'
<1>1. pc' \in [Threads -> Frame]
  BY GotoTypes DEF Call
<1> QED BY <1>1 DEF Call, TypeOK, schedVars, threadVars, mutexVars, ghostVars

LEMMA TypeStepLifecycle ==
  ASSUME TypeOK, Control, NEW t \in Threads, Lifecycle(t)
  PROVE  TypeOK'
<1> USE DEF schedVars, threadVars, mutexVars, ghostVars, At, Return, LeaveBlock
<1>1. CASE CreateCall(t)
  BY <1>1, CallTypes DEF CreateCall, PlainSteps
<1>2. CASE CreateBody(t)
  <2>1. nextThreadId \in Threads /\ nextThreadId + 1 \in 0 .. MaxThreads /\ nextThreadId + 1 # 0
    BY <1>2, ConstantsAssumption DEF CreateBody, Control, TypeOK, Threads
  <2>2. pc' \in [Threads -> Frame]
    BY <1>2, GotoTypes DEF CreateBody, PlainSteps
  <2>3. readyQueue' \in Seq(Threads)
    BY <1>2, <2>1, EnqueueMembers DEF CreateBody, TypeOK
  <2>4. activeThread # NoThread
    BY <1>2 DEF CreateBody, Threads, NoThread
  <2> QED BY <1>2, <2>1, <2>2, <2>3, <2>4 DEF CreateBody, TypeOK
<1>3. CASE Yield(t)
  <2>1. pc' \in [Threads -> Frame]
    BY <1>3, GotoTypes DEF Yield, PlainSteps
  <2> QED BY <1>3, <2>1 DEF Yield, MayCall, TypeOK
<1>4. CASE ExitCall(t)
  <2>1. pc' \in [Threads -> Frame]
    BY <1>4, GotoTypes DEF ExitCall, PlainSteps
  <2> QED BY <1>4, <2>1 DEF ExitCall, TypeOK
<1>5. CASE FunctionReturns(t)
  <2>1. pc' \in [Threads -> Frame]
    BY <1>5, GotoTypes DEF FunctionReturns, PlainSteps
  <2> QED BY <1>5, <2>1 DEF FunctionReturns, TypeOK
<1>6. CASE ExitEnter(t)
  <2>1. pc' \in [Threads -> Frame]
    BY <1>6, GotoTypes DEF ExitEnter, PlainSteps
  <2> QED BY <1>6, <2>1 DEF ExitEnter, TypeOK
<1>7. CASE ExitWake(t)
  <2> DEFINE q == joinQueue[t]
  <2>1. q \in Seq(Threads) /\ q # <<>>
    BY <1>7 DEF ExitWake, TypeOK
  <2>2. /\ Head(q) \in Threads /\ Tail(q) \in Seq(Threads)
        /\ readyQueue' \in Seq(Threads)
        /\ status' \in [Threads -> {"ABSENT", "READY", "RUNNING", "BLOCKED",
                                    "TERMINATED", "FREED"}]
    BY <1>7, <2>1, WakeTypes DEF ExitWake
  <2>3. retVal' \in [Threads -> Threads \cup {NoAddress, Garbage, Unwritten}]
    BY <1>7, <2>2 DEF ExitWake, Delivered, ExitValue, TypeOK
  <2> QED BY <1>7, <2>2, <2>3 DEF ExitWake, TypeOK
<1>8. CASE ExitDone(t)
  <2>1. pc' \in [Threads -> Frame]
    BY <1>8, GotoTypes DEF ExitDone, PlainSteps
  <2> QED BY <1>8, <2>1 DEF ExitDone, TypeOK
<1>9. CASE JoinCall(t)
  BY <1>9, CallTypes DEF JoinCall, JoinSteps
<1>10. CASE JoinSearch(t)
  <2>1. pc[t].on \in Threads
    BY <1>10, FrameOperand DEF JoinSearch, JoinSteps
  <2>2. pc' \in [Threads -> Frame]
    BY <1>10, <2>1, GotoTypes DEF JoinSearch, PlainSteps, JoinSteps
  <2>3. doNotInterrupt' \in BOOLEAN
    BY <1>10 DEF JoinSearch, TypeOK
  <2> QED BY <1>10, <2>2, <2>3 DEF JoinSearch, TypeOK
<1>11. CASE JoinBlock(t)
  <2>1. pc[t].on \in Threads
    BY <1>11, FrameOperand DEF JoinBlock, JoinSteps
  <2>2. pc' \in [Threads -> Frame]
    BY <1>11, <2>1, GotoTypes DEF JoinBlock, JoinSteps
  <2>3. joinQueue' \in [Threads -> Seq(Threads)]
    BY <1>11, <2>1, AppendMembers DEF JoinBlock, TypeOK
  <2>4. retVal' \in [Threads -> Threads \cup {NoAddress, Garbage, Unwritten}]
    BY <1>11 DEF JoinBlock, TypeOK
  <2> QED BY <1>11, <2>2, <2>3, <2>4 DEF JoinBlock, TypeOK
<1>12. CASE JoinReturn(t)
  <2>1. pc' \in [Threads -> Frame]
    BY <1>12, GotoTypes DEF JoinReturn, PlainSteps
  <2> QED BY <1>12, <2>1 DEF JoinReturn, TypeOK
<1> QED
  BY <1>1, <1>2, <1>3, <1>4, <1>5, <1>6, <1>7, <1>8, <1>9, <1>10, <1>11, <1>12
     DEF Lifecycle

LEMMA TypeStepLocking ==
  ASSUME TypeOK, NEW t \in Threads, Locking(t)
  PROVE  TypeOK'
<1> USE DEF schedVars, threadVars, mutexVars, ghostVars, At, Return, LeaveBlock
<1> DEFINE m == pc[t].on
<1>1. CASE \E x \in Mutexes : \E step \in {"init", "lock_check", "unlock", "destroy"} :
             Call(t, step, x)
  BY <1>1, CallTypes DEF MutexSteps
<1>2. pc[t].at \in MutexSteps => m \in Mutexes
  BY FrameOperand
<1> HIDE DEF m
<1>3. CASE InitBody(t)
  <2>1. m \in Mutexes
    BY <1>3, <1>2 DEF InitBody, MutexSteps
  <2>2. pc' \in [Threads -> Frame]
    BY <1>3, <2>1, GotoTypes DEF InitBody, PlainSteps, MutexSteps, m, MayInit
  <2>3. /\ initialized' \in [Mutexes -> BOOLEAN] /\ locked' \in [Mutexes -> BOOLEAN]
        /\ threadId' \in [Mutexes -> Threads \cup {NoThread}]
        /\ blockedThreads' \in [Mutexes -> Seq(Threads)]
    <3>1. CASE MayInit(m)
      <4>1. /\ initialized' = [initialized EXCEPT ![m] = TRUE]
            /\ locked' = [locked EXCEPT ![m] = FALSE]
            /\ threadId' = [threadId EXCEPT ![m] = NoThread]
            /\ blockedThreads' = [blockedThreads EXCEPT ![m] = <<>>]
        BY <1>3, <3>1 DEF InitBody, m
      <4>2. <<>> \in Seq(Threads)
        OBVIOUS
      <4>3. blockedThreads' \in [Mutexes -> Seq(Threads)]
        BY <4>1, <4>2 DEF TypeOK
      <4> QED BY <4>1, <4>3 DEF TypeOK
    <3>2. CASE ~MayInit(m)
      BY <1>3, <2>1, <3>2 DEF InitBody, TypeOK, m
    <3> QED BY <3>1, <3>2
  <2>4. doNotInterrupt' \in BOOLEAN
    BY <1>3 DEF InitBody
  <2> QED BY <1>3, <2>1, <2>2, <2>3, <2>4 DEF InitBody, TypeOK, m, MayInit
<1>4. CASE LockCheck(t)
  <2>1. m \in Mutexes
    BY <1>4, <1>2 DEF LockCheck, MutexSteps
  <2>2. pc' \in [Threads -> Frame]
    BY <1>4, <2>1, GotoTypes DEF LockCheck, PlainSteps, MutexSteps, m
  <2> QED BY <1>4, <2>1, <2>2 DEF LockCheck, TypeOK, m
<1>5. CASE LockTry(t)
  <2>1. m \in Mutexes
    BY <1>5, <1>2 DEF LockTry, MutexSteps
  <2>2. pc' \in [Threads -> Frame]
    BY <1>5, <2>1, GotoTypes DEF LockTry, PlainSteps, MutexSteps, m
  <2> QED BY <1>5, <2>1, <2>2 DEF LockTry, TypeOK, m
<1>6. CASE LockBlock(t)
  <2>1. m \in Mutexes
    BY <1>6, <1>2 DEF LockBlock, MutexSteps
  <2>2. pc' \in [Threads -> Frame]
    BY <1>6, <2>1, GotoTypes DEF LockBlock, PlainSteps, MutexSteps, m
  <2>3. blockedThreads' \in [Mutexes -> Seq(Threads)]
    BY <1>6, <2>1, AppendMembers DEF LockBlock, TypeOK, m
  <2> QED BY <1>6, <2>1, <2>2, <2>3 DEF LockBlock, TypeOK, m
<1>7. CASE LockRetry(t)
  <2>1. m \in Mutexes
    BY <1>7, <1>2 DEF LockRetry, MutexSteps
  <2>2. pc' \in [Threads -> Frame]
    BY <1>7, <2>1, GotoTypes DEF LockRetry, PlainSteps, MutexSteps, m
  <2> QED BY <1>7, <2>1, <2>2 DEF LockRetry, TypeOK, m
<1>8. CASE LockGot(t)
  <2>1. m \in Mutexes
    BY <1>8, <1>2 DEF LockGot, MutexSteps
  <2>2. pc' \in [Threads -> Frame]
    BY <1>8, <2>1, GotoTypes DEF LockGot, PlainSteps, MutexSteps, m
  <2>3. /\ locked' \in [Mutexes -> BOOLEAN]
        /\ threadId' \in [Mutexes -> Threads \cup {NoThread}]
        /\ holds' \in [Mutexes -> SUBSET Threads]
    <3>1. CASE initialized[m]
      <4>1. /\ locked' = locked /\ threadId' = [threadId EXCEPT ![m] = t]
            /\ holds' = [holds EXCEPT ![m] = @ \cup {t}]
        BY <1>8, <3>1 DEF LockGot, m
      <4> QED BY <4>1 DEF TypeOK
    <3>2. CASE ~initialized[m]
      BY <1>8, <2>1, <3>2 DEF LockGot, TypeOK, m
    <3> QED BY <3>1, <3>2
  <2>4. doNotInterrupt' \in BOOLEAN /\ wokenByDestroy' \in SUBSET Threads
    BY <1>8 DEF LockGot, TypeOK
  <2> QED BY <1>8, <2>1, <2>2, <2>3, <2>4 DEF LockGot, TypeOK, m
<1>9. CASE UnlockBody(t)
  <2>1. m \in Mutexes
    BY <1>9, <1>2 DEF UnlockBody, MutexSteps
  <2>2. pc' \in [Threads -> Frame]
    BY <1>9, <2>1, GotoTypes DEF UnlockBody, PlainSteps, MutexSteps, m, MayUnlock
  <2>3. /\ locked' \in [Mutexes -> BOOLEAN]
        /\ threadId' \in [Mutexes -> Threads \cup {NoThread}]
        /\ holds' \in [Mutexes -> SUBSET Threads]
        /\ initialized' = initialized /\ blockedThreads' = blockedThreads
        /\ wokenByDestroy' = wokenByDestroy /\ doNotInterrupt' \in BOOLEAN
    <3>1. CASE MayUnlock(t, m)
      <4>1. /\ locked' = [locked EXCEPT ![m] = FALSE]
            /\ threadId' = [threadId EXCEPT ![m] = NoThread]
            /\ holds' = [holds EXCEPT ![m] = @ \ {t}]
            /\ UNCHANGED <<initialized, blockedThreads, wokenByDestroy, doNotInterrupt>>
        BY <1>9, <3>1 DEF UnlockBody, m
      <4> QED BY <4>1 DEF TypeOK
    <3>2. CASE ~MayUnlock(t, m)
      BY <1>9, <2>1, <3>2 DEF UnlockBody, TypeOK, m
    <3> QED BY <3>1, <3>2
  <2> QED BY <1>9, <2>1, <2>2, <2>3 DEF UnlockBody, TypeOK, m, MayUnlock
<1>10. CASE UnlockWake(t)
  <2>1. m \in Mutexes
    BY <1>10, <1>2 DEF UnlockWake, MutexSteps
  <2>2. pc' \in [Threads -> Frame]
    BY <1>10, <2>1, GotoTypes DEF UnlockWake, PlainSteps, MutexSteps, m, WakeOldest
  <2>3. CASE blockedThreads[m] = <<>>
    BY <1>10, <2>2, <2>3 DEF UnlockWake, TypeOK, m
  <2>4. CASE blockedThreads[m] # <<>>
    <3>1. blockedThreads[m] \in Seq(Threads)
      BY <2>1 DEF TypeOK
    <3>2. WakeOldest(m)
      BY <1>10, <2>4 DEF UnlockWake, m
    <3>3. /\ blockedThreads' \in [Mutexes -> Seq(Threads)]
          /\ readyQueue' \in Seq(Threads)
          /\ status' \in [Threads -> {"ABSENT", "READY", "RUNNING", "BLOCKED",
                                      "TERMINATED", "FREED"}]
      BY <2>1, <2>4, <3>1, <3>2, WakeTypes DEF WakeOldest, TypeOK
    <3> QED BY <1>10, <2>2, <3>3 DEF UnlockWake, TypeOK
  <2> QED BY <1>10, <2>1, <2>2, <2>3, <2>4 DEF UnlockWake, TypeOK, m, WakeOldest
<1>11. CASE DestroyBody(t)
  <2>1. m \in Mutexes
    BY <1>11, <1>2 DEF DestroyBody, MutexSteps
  <2>2. pc' \in [Threads -> Frame]
    BY <1>11, <2>1, GotoTypes DEF DestroyBody, PlainSteps, MutexSteps, m, MayDestroy
  <2> QED BY <1>11, <2>1, <2>2 DEF DestroyBody, TypeOK, m, MayDestroy
<1>12. CASE DestroyWake(t)
  <2>1. m \in Mutexes
    BY <1>12, <1>2 DEF DestroyWake, MutexSteps
  <2>2. blockedThreads[m] \in Seq(Threads) /\ blockedThreads[m] # <<>>
    BY <1>12, <2>1 DEF DestroyWake, TypeOK, m
  <2>3. /\ blockedThreads' \in [Mutexes -> Seq(Threads)]
        /\ readyQueue' \in Seq(Threads)
        /\ status' \in [Threads -> {"ABSENT", "READY", "RUNNING", "BLOCKED",
                                    "TERMINATED", "FREED"}]
        /\ wokenByDestroy' \in SUBSET Threads
    BY <1>12, <2>1, <2>2, WakeTypes DEF DestroyWake, WakeOldest, TypeOK, m
  <2> QED BY <1>12, <2>3 DEF DestroyWake, TypeOK
<1>13. CASE DestroyDone(t)
  <2>1. m \in Mutexes
    BY <1>13, <1>2 DEF DestroyDone, MutexSteps
  <2>2. pc' \in [Threads -> Frame]
    BY <1>13, <2>1, GotoTypes DEF DestroyDone, PlainSteps, MutexSteps, m
  <2> QED BY <1>13, <2>1, <2>2 DEF DestroyDone, TypeOK, m
<1> QED
  BY <1>1, <1>3, <1>4, <1>5, <1>6, <1>7, <1>8, <1>9, <1>10, <1>11, <1>12, <1>13
     DEF Locking, InitCall, LockCall, UnlockCall, DestroyCall

LEMMA TypeStepRaise ==
  ASSUME TypeOK, NEW t \in Threads, Raise(t)
  PROVE  TypeOK'
<1>1. activeThread = t /\ proc = "running"
  BY DEF Raise, At
<1>2. pc' \in [Threads -> Frame]
  <2>1. \/ pc[t].at \in PlainSteps /\ pc[t].on = NoThread
        \/ pc[t].at = "lock_raise" /\ pc[t].on \in Mutexes
        \/ pc[t].at = "join_raise" /\ pc[t].on \in Threads
    <3>1. pc[t] \in Frame
      BY DEF TypeOK
    <3> QED BY <3>1 DEF Raise, At, Frame, PlainSteps, MutexSteps, JoinSteps
  <2>2. Goto(t, AfterRaise(pc[t].at), pc[t].on)
    BY DEF Raise
  <2>3. \/ AfterRaise(pc[t].at) \in PlainSteps /\ pc[t].on = NoThread
        \/ AfterRaise(pc[t].at) \in MutexSteps /\ pc[t].on \in Mutexes
        \/ AfterRaise(pc[t].at) \in JoinSteps /\ pc[t].on \in Threads
    BY <2>1 DEF AfterRaise, PlainSteps, MutexSteps, JoinSteps
  <2> QED BY <2>2, <2>3, GotoTypes
<1>3. CASE doNotInterrupt
  BY <1>2, <1>3 DEF Raise, TypeOK, schedVars, threadVars, mutexVars, ghostVars
<1>4. CASE ~doNotInterrupt
  <2>1. Switch
    BY <1>4 DEF Raise
  <2>2. nextThreadId # 0
    BY <1>1 DEF TypeOK, Threads, NoThread
  <2>3. activeThread' \in Threads => activeThread' # NoThread
    BY DEF Threads, NoThread
  <2> QED
    BY <1>1, <1>2, <2>1, <2>2, <2>3, SwitchTypes
       DEF Raise, TypeOK, threadVars, mutexVars, ghostVars
<1> QED BY <1>3, <1>4

LEMMA TypeStepTick ==
  ASSUME TypeOK, Control, TimerFires
  PROVE  TypeOK'
<1>1. activeThread \in Threads /\ activeThread # NoThread /\ proc = "running"
  BY DEF TimerFires, Control, Threads, NoThread
<1>2. CASE doNotInterrupt
  BY <1>2 DEF TimerFires, TypeOK, threadVars, mutexVars, ghostVars
<1>3. CASE ~doNotInterrupt
  <2>1. Switch
    BY <1>3 DEF TimerFires
  <2>2. nextThreadId # 0
    BY <1>1 DEF TypeOK
  <2>3. activeThread' \in Threads => activeThread' # NoThread
    BY DEF Threads, NoThread
  <2> QED
    BY <1>1, <2>1, <2>2, <2>3, SwitchTypes
       DEF TimerFires, TypeOK, threadVars, mutexVars, ghostVars
<1> QED BY <1>2, <1>3

LEMMA TypeStep ==
  ASSUME TypeOK, Control, [Next]_vars
  PROVE  TypeOK'
<1>1. CASE UNCHANGED vars
  BY <1>1 DEF TypeOK, vars, schedVars, threadVars, mutexVars, ghostVars
<1>2. CASE initMainContext
  <2>1. Main \in Threads /\ Main # NoThread /\ 1 \in 0 .. MaxThreads
    BY ConstantsAssumption DEF Main, Threads, NoThread
  <2> QED BY <1>2, <2>1 DEF initMainContext, TypeOK, mutexVars, ghostVars
<1>3. CASE MainReturns
  BY <1>3 DEF MainReturns, TypeOK, threadVars, mutexVars, ghostVars
<1>4. CASE Stopped
  BY <1>4, <1>1 DEF Stopped
<1> QED
  BY <1>1, <1>2, <1>3, <1>4, TypeStepLifecycle, TypeStepLocking, TypeStepRaise,
     TypeStepTick DEF Next

-----------------------------------------------------------------------------
(* A step keeps Control.                                                    *)

\* The active thread moves on without a switch.
LEMMA StayControl ==
  ASSUME TypeOK, Control, NEW t \in Threads, NEW step, NEW x,
         activeThread = t, activeThread' = t, Goto(t, step, x),
         doNotInterrupt' <=> step \in CriticalSteps,
         step = "create" => nextThreadId' < MaxThreads
  PROVE  Control'
<1>1. pc' = [pc EXCEPT ![t] = [at |-> step, on |-> x]]
  BY DEF Goto, Move
<1>2. pc'[t].at = step /\ \A u \in Threads : u # t => pc'[u] = pc[u]
  BY <1>1 DEF TypeOK
<1>3. \A u \in Threads : u # t => pc[u].at \notin CriticalSteps /\ pc[u].at # "create"
  BY DEF Control, CriticalSteps
<1> QED BY <1>2, <1>3 DEF Control

\* The scheduler runs: nobody is inside a block, before and after.
LEMMA SwitchControl ==
  ASSUME TypeOK, Control, activeThread \in Threads, Switch, ~doNotInterrupt,
         doNotInterrupt' = doNotInterrupt,
         \A u \in Threads : pc'[u].at \in CriticalSteps => pc[u].at \in CriticalSteps
  PROVE  Control'
<1>1. \A u \in Threads : pc[u].at \notin CriticalSteps
  BY DEF Control
<1>2. \A u \in Threads : pc'[u].at \notin CriticalSteps /\ pc'[u].at # "create"
  BY <1>1 DEF CriticalSteps
<1>3. proc' = "running" => activeThread' \in Threads
  BY SwitchTypes
<1> QED BY <1>2, <1>3 DEF Control

LEMMA CallControl ==
  ASSUME TypeOK, Control, NEW t \in Threads, NEW step, NEW x, Call(t, step, x),
         step \in CriticalSteps, step = "create" => nextThreadId < MaxThreads
  PROVE  Control'
<1>1. /\ activeThread = t /\ activeThread' = t /\ Goto(t, step, x)
      /\ doNotInterrupt' = TRUE /\ nextThreadId' = nextThreadId
  BY DEF Call, MayCall, At, schedVars, threadVars
<1> QED BY <1>1, StayControl

LEMMA ControlStepLifecycle ==
  ASSUME TypeOK, Control, NEW t \in Threads, Lifecycle(t)
  PROVE  Control'
<1> USE DEF schedVars, threadVars, At
<1>1. CASE CreateCall(t)
  BY <1>1, CallControl DEF CreateCall, CriticalSteps
<1>2. CASE CreateBody(t)
  BY <1>2, StayControl DEF CreateBody, CriticalSteps
<1>3. CASE Yield(t)
  <2>1. ~doNotInterrupt
    BY <1>3 DEF Yield, MayCall, Control, CriticalSteps
  <2> QED BY <1>3, <2>1, StayControl DEF Yield, MayCall, CriticalSteps
<1>4. CASE ExitCall(t) \/ FunctionReturns(t)
  <2>1. ~doNotInterrupt
    BY <1>4 DEF ExitCall, FunctionReturns, Control, CriticalSteps
  <2> QED BY <1>4, <2>1, StayControl DEF ExitCall, FunctionReturns, CriticalSteps
<1>5. CASE ExitEnter(t)
  BY <1>5, StayControl DEF ExitEnter, CriticalSteps
<1>6. CASE ExitWake(t)
  BY <1>6 DEF ExitWake, Control
<1>7. CASE ExitDone(t)
  BY <1>7, StayControl DEF ExitDone, CriticalSteps
<1>8. CASE JoinCall(t)
  BY <1>8, CallControl DEF JoinCall, CriticalSteps
<1>9. CASE JoinSearch(t)
  <2>1. doNotInterrupt
    BY <1>9 DEF JoinSearch, Control, CriticalSteps
  <2>2. CASE LeaveBlock(t)
    BY <1>9, <2>2, StayControl DEF JoinSearch, LeaveBlock, Return, CriticalSteps
  <2>3. CASE Goto(t, "join_block", pc[t].on) /\ UNCHANGED doNotInterrupt
    BY <1>9, <2>1, <2>3, StayControl DEF JoinSearch, CriticalSteps
  <2> QED BY <1>9, <2>2, <2>3 DEF JoinSearch
<1>10. CASE JoinBlock(t)
  BY <1>10, StayControl DEF JoinBlock, CriticalSteps
<1>11. CASE JoinReturn(t)
  <2>1. ~doNotInterrupt
    BY <1>11 DEF JoinReturn, Control, CriticalSteps
  <2> QED BY <1>11, <2>1, StayControl DEF JoinReturn, Return, CriticalSteps
<1> QED
  BY <1>1, <1>2, <1>3, <1>4, <1>5, <1>6, <1>7, <1>8, <1>9, <1>10, <1>11 DEF Lifecycle

LEMMA ControlStepLocking ==
  ASSUME TypeOK, Control, NEW t \in Threads, Locking(t)
  PROVE  Control'
<1> USE DEF schedVars, threadVars, At
<1>1. CASE \E x \in Mutexes : \E step \in {"init", "lock_check", "unlock", "destroy"} :
             Call(t, step, x)
  BY <1>1, CallControl DEF CriticalSteps
<1>2. pc[t].at \in CriticalSteps /\ activeThread = t => doNotInterrupt
  BY DEF Control
<1>3. CASE InitBody(t)
  BY <1>3, StayControl DEF InitBody, LeaveBlock, Return, CriticalSteps
<1>4. CASE LockCheck(t)
  <2>1. CASE LeaveBlock(t)
    BY <1>4, <2>1, StayControl DEF LockCheck, LeaveBlock, Return, CriticalSteps
  <2>2. CASE Goto(t, "lock_try", pc[t].on) /\ UNCHANGED doNotInterrupt
    BY <1>2, <1>4, <2>2, StayControl DEF LockCheck, CriticalSteps
  <2> QED BY <1>4, <2>1, <2>2 DEF LockCheck
<1>5. CASE LockTry(t)
  BY <1>2, <1>5, StayControl DEF LockTry, CriticalSteps
<1>6. CASE LockBlock(t)
  BY <1>6, StayControl DEF LockBlock, CriticalSteps
<1>7. CASE LockRetry(t)
  BY <1>7, StayControl DEF LockRetry, CriticalSteps
<1>8. CASE LockGot(t)
  BY <1>8, StayControl DEF LockGot, LeaveBlock, Return, CriticalSteps
<1>9. CASE UnlockBody(t)
  <2> DEFINE m == pc[t].on
  <2>1. CASE MayUnlock(t, m)
    BY <1>2, <1>9, <2>1, StayControl DEF UnlockBody, CriticalSteps
  <2>2. CASE ~MayUnlock(t, m)
    BY <1>9, <2>2, StayControl DEF UnlockBody, LeaveBlock, Return, CriticalSteps
  <2> QED BY <2>1, <2>2
<1>10. CASE UnlockWake(t)
  BY <1>10, StayControl DEF UnlockWake, Return, CriticalSteps
<1>11. CASE DestroyBody(t)
  <2> DEFINE m == pc[t].on
  <2>1. CASE MayDestroy(m) /\ blockedThreads[m] # <<>>
    BY <1>2, <1>11, <2>1, StayControl DEF DestroyBody, CriticalSteps
  <2>2. CASE ~(MayDestroy(m) /\ blockedThreads[m] # <<>>)
    BY <1>11, <2>2, StayControl DEF DestroyBody, LeaveBlock, Return, CriticalSteps
  <2> QED BY <2>1, <2>2
<1>12. CASE DestroyWake(t)
  BY <1>12 DEF DestroyWake, Control
<1>13. CASE DestroyDone(t)
  BY <1>13, StayControl DEF DestroyDone, CriticalSteps
<1> QED
  BY <1>1, <1>3, <1>4, <1>5, <1>6, <1>7, <1>8, <1>9, <1>10, <1>11, <1>12, <1>13
     DEF Locking, InitCall, LockCall, UnlockCall, DestroyCall

LEMMA ControlStep ==
  ASSUME TypeOK, Control, [Next]_vars
  PROVE  Control'
<1> USE DEF schedVars, threadVars, mutexVars, ghostVars
<1>1. CASE UNCHANGED vars
  BY <1>1 DEF Control, vars
<1>2. CASE initMainContext
  <2>1. activeThread = NoThread /\ NoThread \notin Threads /\ Main \in Threads
    BY <1>2, ConstantsAssumption DEF initMainContext, TypeOK, Threads, NoThread, Main
  <2>2. ~doNotInterrupt /\ \A u \in Threads : pc[u].at \notin CriticalSteps
    BY <2>1 DEF Control
  <2>3. \A u \in Threads : pc[u].at # "create"
    BY <2>2 DEF CriticalSteps
  <2>4. activeThread' = Main /\ pc' = pc /\ doNotInterrupt' = doNotInterrupt
    BY <1>2 DEF initMainContext
  <2> QED BY <2>1, <2>2, <2>3, <2>4 DEF Control
<1>3. ASSUME NEW t \in Threads, Raise(t) PROVE Control'
  <2>1. activeThread = t /\ pc[t].at \in {"raise", "lock_raise", "join_raise", "exit_raise"}
    BY <1>3 DEF Raise, At
  <2>2. ~doNotInterrupt
    BY <2>1 DEF Control, CriticalSteps
  <2>3. Switch /\ Goto(t, AfterRaise(pc[t].at), pc[t].on) /\ UNCHANGED doNotInterrupt
    BY <1>3, <2>2 DEF Raise
  <2>4. AfterRaise(pc[t].at) \notin CriticalSteps
    BY <2>1 DEF AfterRaise, CriticalSteps
  <2>5. \A u \in Threads : pc'[u].at \in CriticalSteps => pc[u].at \in CriticalSteps
    BY <2>3, <2>4 DEF Goto, Move, TypeOK
  <2> QED BY <2>1, <2>2, <2>3, <2>5, SwitchControl
<1>4. CASE TimerFires
  <2>1. activeThread \in Threads
    BY <1>4 DEF TimerFires, Control
  <2>2. CASE doNotInterrupt
    BY <1>4, <2>2 DEF TimerFires, Control
  <2>3. CASE ~doNotInterrupt
    BY <1>4, <2>1, <2>3, SwitchControl DEF TimerFires
  <2> QED BY <2>2, <2>3
<1>5. CASE MainReturns
  <2>1. /\ activeThread' = activeThread /\ pc' = pc /\ proc' # "running"
        /\ doNotInterrupt' = doNotInterrupt /\ nextThreadId' = nextThreadId
    BY <1>5 DEF MainReturns
  <2> QED BY <2>1 DEF Control
<1>6. CASE Stopped
  BY <1>6, <1>1 DEF Stopped
<1> QED
  BY <1>1, <1>2, <1>3, <1>4, <1>5, <1>6, ControlStepLifecycle, ControlStepLocking DEF Next

-----------------------------------------------------------------------------
(* A step keeps Ownership.                                                  *)

\* Steps that touch no mutex field and win no test-and-set.
LEMMA QuietOwnership ==
  ASSUME TypeOK, Ownership, UNCHANGED <<initialized, locked, threadId, holds>>,
         \A u \in Threads : pc'[u] = pc[u] \/ pc'[u].at # "lock_got"
  PROVE  Ownership'
BY DEF Ownership

LEMMA GotoQuiet ==
  ASSUME TypeOK, NEW t \in Threads, NEW step, NEW x, Goto(t, step, x), step # "lock_got"
  PROVE  \A u \in Threads : pc'[u] = pc[u] \/ pc'[u].at # "lock_got"
BY DEF TypeOK, Goto, Move

LEMMA OwnershipStepLifecycle ==
  ASSUME TypeOK, Ownership, NEW t \in Threads, Lifecycle(t)
  PROVE  Ownership'
<1>1. UNCHANGED <<initialized, locked, threadId, holds>>
  BY DEF Lifecycle, CreateCall, CreateBody, Yield, ExitCall, FunctionReturns, ExitEnter,
         ExitWake, ExitDone, JoinCall, JoinSearch, JoinBlock, JoinReturn, Call,
         mutexVars, ghostVars
<1>2. \/ UNCHANGED pc
      \/ \E step \in PlainSteps \cup JoinSteps, x \in Threads \cup {NoThread} :
           Goto(t, step, x)
  <2>1. CASE ExitWake(t)
    BY <2>1 DEF ExitWake
  <2>2. CASE JoinSearch(t)
    <3>1. pc[t].on \in Threads
      BY <2>2, FrameOperand DEF JoinSearch, At, JoinSteps
    <3> QED BY <2>2, <3>1 DEF JoinSearch, LeaveBlock, Return, PlainSteps, JoinSteps
  <2>3. CASE JoinBlock(t)
    <3>1. pc[t].on \in Threads
      BY <2>3, FrameOperand DEF JoinBlock, At, JoinSteps
    <3> QED BY <2>3, <3>1 DEF JoinBlock, PlainSteps, JoinSteps
  <2> QED BY <2>1, <2>2, <2>3
        DEF Lifecycle, CreateCall, CreateBody, Yield, ExitCall, FunctionReturns, ExitEnter,
            ExitDone, JoinCall, JoinReturn, Call, Return, PlainSteps, JoinSteps
<1>3. \A u \in Threads : pc'[u] = pc[u] \/ pc'[u].at # "lock_got"
  BY <1>2, GotoQuiet DEF PlainSteps, JoinSteps
<1> QED BY <1>1, <1>3, QuietOwnership

LEMMA OwnershipStepLocking ==
  ASSUME TypeOK, Control, Ownership, NEW t \in Threads, Locking(t)
  PROVE  Ownership'
<1> USE DEF At
<1> DEFINE m == pc[t].on
<1>1. CASE \E x \in Mutexes : \E step \in {"init", "lock_check", "unlock", "destroy"} :
             Call(t, step, x)
  <2>1. PICK x \in Mutexes, step \in {"init", "lock_check", "unlock", "destroy"} :
          Call(t, step, x)
    BY <1>1
  <2>2. \A u \in Threads : pc'[u] = pc[u] \/ pc'[u].at # "lock_got"
    BY <2>1, GotoQuiet DEF Call
  <2> QED BY <2>1, <2>2, QuietOwnership DEF Call, mutexVars, ghostVars
<1>2. pc[t].at \in MutexSteps => m \in Mutexes
  BY FrameOperand
<1>3. pc[t].at \in CriticalSteps /\ activeThread = t =>
        \A u \in Threads : u # t => pc[u].at # "lock_got"
  BY DEF Control, CriticalSteps
\* A free mutex changes: nobody holds it and nobody has just won it.
<1>4. ASSUME m \in Mutexes, holds[m] = {}, holds' = holds,
             \A u \in Threads : pc'[u].at = "lock_got" => u # t /\ pc'[u] = pc[u],
             \A u \in Threads : u # t => pc[u].at # "lock_got",
             \A x \in Mutexes : x # m => /\ initialized'[x] = initialized[x]
                                         /\ locked'[x] = locked[x]
                                         /\ threadId'[x] = threadId[x]
      PROVE  Ownership'
  BY <1>4 DEF Ownership
<1> HIDE DEF m
<1>5. ASSUME pc[t].at # "lock_got", NEW step, NEW x, Goto(t, step, x), step # "lock_got"
      PROVE  \A u \in Threads : pc'[u].at = "lock_got" => u # t /\ pc'[u] = pc[u]
  BY <1>5 DEF TypeOK, Goto, Move
<1>6. CASE InitBody(t)
  <2>1. m \in Mutexes /\ pc[t].at = "init" /\ pc[t].at \in CriticalSteps /\ activeThread = t
    BY <1>2, <1>6 DEF InitBody, MutexSteps, CriticalSteps
  <2>2. Goto(t, "user", NoThread) /\ holds' = holds
    BY <1>6 DEF InitBody, LeaveBlock, Return, ghostVars
  <2>3. CASE MayInit(m)
    <3>1. holds[m] = {}
      BY <2>1, <2>3 DEF MayInit, Ownership
    <3>2. /\ initialized' = [initialized EXCEPT ![m] = TRUE]
          /\ locked' = [locked EXCEPT ![m] = FALSE]
          /\ threadId' = [threadId EXCEPT ![m] = NoThread]
      BY <1>6, <2>3 DEF InitBody, m
    <3> QED BY <1>3, <1>4, <1>5, <2>1, <2>2, <3>1, <3>2 DEF TypeOK
  <2>4. CASE ~MayInit(m)
    <3>1. UNCHANGED <<initialized, locked, threadId, holds>>
      BY <1>6, <2>2, <2>4 DEF InitBody, mutexVars, m
    <3> QED BY <2>2, <3>1, QuietOwnership, GotoQuiet
  <2> QED BY <2>3, <2>4
<1>7. CASE LockCheck(t)
  <2>1. \E step, x : Goto(t, step, x) /\ step # "lock_got"
    BY <1>7 DEF LockCheck, LeaveBlock, Return
  <2>2. UNCHANGED <<initialized, locked, threadId, holds>>
    BY <1>7 DEF LockCheck, mutexVars, ghostVars
  <2> QED BY <2>1, <2>2, QuietOwnership, GotoQuiet
<1>8. CASE LockTry(t)
  <2>1. m \in Mutexes /\ pc[t].at \in CriticalSteps /\ activeThread = t
    BY <1>2, <1>8 DEF LockTry, MutexSteps, CriticalSteps
  <2>2. /\ locked' = [locked EXCEPT ![m] = TRUE]
        /\ UNCHANGED <<initialized, threadId, holds>>
    BY <1>8 DEF LockTry, ghostVars, m
  <2>3. CASE locked[m]
    <3>1. Goto(t, "lock_block", m)
      BY <1>8, <2>3 DEF LockTry, m
    <3>2. locked' = locked
      BY <2>1, <2>2, <2>3 DEF TypeOK
    <3> QED BY <2>2, <3>1, <3>2, QuietOwnership, GotoQuiet
  <2>4. CASE ~locked[m]
    <3>1. pc' = [pc EXCEPT ![t] = [at |-> "lock_got", on |-> m]]
      BY <1>8, <2>4 DEF LockTry, Goto, Move, m
    <3>2. holds[m] = {}
      BY <2>1, <2>4 DEF Ownership
    <3>3. pc'[t] = [at |-> "lock_got", on |-> m] /\ \A u \in Threads : u # t => pc'[u] = pc[u]
      BY <3>1 DEF TypeOK
    <3>4. locked'[m] /\ \A x \in Mutexes : x # m => locked'[x] = locked[x]
      BY <2>1, <2>2 DEF TypeOK
    <3> QED BY <1>3, <2>1, <2>2, <3>2, <3>3, <3>4 DEF Ownership
  <2> QED BY <2>3, <2>4
<1>9. CASE LockBlock(t)
  <2>1. Goto(t, "lock_block", m) \/ Goto(t, "lock_raise", m)
    BY <1>9 DEF LockBlock, m
  <2> QED BY <1>9, <2>1, QuietOwnership, GotoQuiet DEF LockBlock, ghostVars
<1>10. CASE LockRetry(t)
  <2>1. Goto(t, "lock_try", m)
    BY <1>10 DEF LockRetry, m
  <2> QED BY <1>10, <2>1, QuietOwnership, GotoQuiet DEF LockRetry, mutexVars, ghostVars
<1>11. CASE LockGot(t)
  <2>1. /\ m \in Mutexes /\ pc[t].at = "lock_got" /\ pc[t].at \in CriticalSteps
        /\ activeThread = t
    BY <1>2, <1>11 DEF LockGot, MutexSteps, CriticalSteps
  <2>2. locked[m] /\ holds[m] = {}
    BY <2>1 DEF Ownership, m
  <2>3. pc' = [pc EXCEPT ![t] = [at |-> "user", on |-> NoThread]]
    BY <1>11 DEF LockGot, LeaveBlock, Return, Goto, Move
  <2>4. \A u \in Threads : pc'[u].at # "lock_got"
    BY <1>3, <2>1, <2>3 DEF TypeOK
  <2>5. CASE initialized[m]
    <3>1. /\ threadId' = [threadId EXCEPT ![m] = t]
          /\ holds' = [holds EXCEPT ![m] = @ \cup {t}]
          /\ UNCHANGED <<locked, initialized>>
      BY <1>11, <2>5 DEF LockGot, m
    <3>2. /\ threadId'[m] = t /\ holds'[m] = {t}
          /\ \A x \in Mutexes : x # m => threadId'[x] = threadId[x] /\ holds'[x] = holds[x]
      BY <2>1, <2>2, <3>1 DEF TypeOK
    <3> QED BY <2>2, <2>4, <2>5, <3>1, <3>2 DEF Ownership
  <2>6. CASE ~initialized[m]
    <3>1. /\ locked' = [locked EXCEPT ![m] = FALSE]
          /\ UNCHANGED <<threadId, holds, initialized>>
      BY <1>11, <2>6 DEF LockGot, m
    <3>2. \A x \in Mutexes : x # m => locked'[x] = locked[x]
      BY <2>1, <3>1 DEF TypeOK
    <3> QED BY <2>2, <2>4, <3>1, <3>2 DEF Ownership
  <2> QED BY <2>5, <2>6
<1>12. CASE UnlockBody(t)
  <2>1. /\ m \in Mutexes /\ pc[t].at = "unlock" /\ pc[t].at \in CriticalSteps
        /\ activeThread = t
    BY <1>2, <1>12 DEF UnlockBody, MutexSteps, CriticalSteps
  <2>2. CASE MayUnlock(t, m)
    <3>1. /\ locked' = [locked EXCEPT ![m] = FALSE]
          /\ threadId' = [threadId EXCEPT ![m] = NoThread]
          /\ holds' = [holds EXCEPT ![m] = @ \ {t}]
          /\ UNCHANGED initialized
          /\ Goto(t, "unlock_wake", m)
      BY <1>12, <2>2 DEF UnlockBody, m
    <3>2. threadId[m] = t
      BY <2>2 DEF MayUnlock
    <3>3. /\ holds'[m] = {}
          /\ \A x \in Mutexes : x # m => /\ threadId'[x] = threadId[x]
                                         /\ holds'[x] = holds[x] /\ locked'[x] = locked[x]
      BY <2>1, <3>1, <3>2 DEF TypeOK, Ownership
    <3>4. \A u \in Threads : pc'[u].at # "lock_got"
      BY <1>3, <1>5, <2>1, <3>1
    <3> QED BY <3>1, <3>3, <3>4 DEF Ownership
  <2>3. CASE ~MayUnlock(t, m)
    <3>1. UNCHANGED <<initialized, locked, threadId, holds>> /\ Goto(t, "user", NoThread)
      BY <1>12, <2>3 DEF UnlockBody, LeaveBlock, Return, mutexVars, ghostVars, m
    <3> QED BY <3>1, QuietOwnership, GotoQuiet
  <2> QED BY <2>2, <2>3
<1>13. CASE UnlockWake(t)
  <2>1. \E step, x : Goto(t, step, x) /\ step # "lock_got"
    BY <1>13 DEF UnlockWake, Return
  <2> QED BY <1>13, <2>1, QuietOwnership, GotoQuiet DEF UnlockWake, ghostVars
<1>14. CASE DestroyBody(t)
  <2>1. /\ m \in Mutexes /\ pc[t].at = "destroy" /\ pc[t].at \in CriticalSteps
        /\ activeThread = t
    BY <1>2, <1>14 DEF DestroyBody, MutexSteps, CriticalSteps
  <2>2. holds' = holds /\ \E step, x : Goto(t, step, x) /\ step # "lock_got"
    BY <1>14 DEF DestroyBody, LeaveBlock, Return, ghostVars
  <2>3. CASE MayDestroy(m)
    <3>1. holds[m] = {}
      BY <2>1, <2>3 DEF MayDestroy, Ownership
    <3>2. /\ initialized' = [initialized EXCEPT ![m] = FALSE]
          /\ locked' = [locked EXCEPT ![m] = FALSE]
          /\ threadId' = [threadId EXCEPT ![m] = NoThread]
      BY <1>14, <2>3 DEF DestroyBody, m
    <3>3. \A u \in Threads : pc'[u].at = "lock_got" => u # t /\ pc'[u] = pc[u]
      BY <1>5, <2>1, <2>2
    <3>4. \A x \in Mutexes : x # m => /\ initialized'[x] = initialized[x]
                                      /\ locked'[x] = locked[x]
                                      /\ threadId'[x] = threadId[x]
      BY <2>1, <3>2 DEF TypeOK
    <3> QED BY <1>3, <1>4, <2>1, <2>2, <3>1, <3>3, <3>4
  <2>4. CASE ~MayDestroy(m)
    <3>1. UNCHANGED <<initialized, locked, threadId, holds>>
      BY <1>14, <2>2, <2>4 DEF DestroyBody, m
    <3> QED BY <2>2, <3>1, QuietOwnership, GotoQuiet
  <2> QED BY <2>3, <2>4
<1>15. CASE DestroyWake(t)
  BY <1>15, QuietOwnership DEF DestroyWake
<1>16. CASE DestroyDone(t)
  <2>1. Goto(t, "raise", NoThread)
    BY <1>16 DEF DestroyDone
  <2> QED BY <1>16, <2>1, QuietOwnership, GotoQuiet DEF DestroyDone, mutexVars, ghostVars
<1> QED
  BY <1>1, <1>6, <1>7, <1>8, <1>9, <1>10, <1>11, <1>12, <1>13, <1>14, <1>15, <1>16
     DEF Locking, InitCall, LockCall, UnlockCall, DestroyCall

LEMMA OwnershipStep ==
  ASSUME TypeOK, Control, Ownership, [Next]_vars
  PROVE  Ownership'
<1>1. CASE UNCHANGED vars
  BY <1>1 DEF Ownership, vars, mutexVars, ghostVars
<1>2. ASSUME NEW t \in Threads, Raise(t) PROVE Ownership'
  <2>1. Goto(t, AfterRaise(pc[t].at), pc[t].on) /\ AfterRaise(pc[t].at) # "lock_got"
    BY <1>2 DEF Raise, At, AfterRaise
  <2> QED BY <1>2, <2>1, QuietOwnership, GotoQuiet DEF Raise, mutexVars, ghostVars
<1>3. CASE initMainContext \/ TimerFires \/ MainReturns
  <2>1. UNCHANGED <<pc, initialized, locked, threadId, holds>>
    BY <1>3 DEF initMainContext, TimerFires, MainReturns, mutexVars, ghostVars
  <2> QED BY <2>1, QuietOwnership
<1>4. CASE Stopped
  BY <1>4, <1>1 DEF Stopped
<1> QED
  BY <1>1, <1>2, <1>3, <1>4, OwnershipStepLifecycle, OwnershipStepLocking DEF Next

-----------------------------------------------------------------------------
(* The theorems.                                                           *)

LEMMA InitControl == Init => Control /\ Ownership
<1> SUFFICES ASSUME Init PROVE Control /\ Ownership
  OBVIOUS
<1> QED BY DEF Init, Control, Ownership, CriticalSteps, Threads, NoThread

\* TypeOK, Control and Ownership together are inductive.
Safe == TypeOK /\ Control /\ Ownership

\* Whatever calls and ticks come, doNotInterrupt guards the critical steps of one thread
\* only, and what the mutexes record is what the threads hold.
THEOREM SafeInvariant == Spec => []Safe
<1>1. Init => Safe
  BY InitTypeOK, InitControl DEF Safe
<1>2. Safe /\ [Next]_vars => Safe'
  BY TypeStep, ControlStep, OwnershipStep DEF Safe
<1> QED BY <1>1, <1>2, PTL DEF Spec

\* Every reachable state of the library is well typed (globals 24-36, tcb and mutex
\* structs of mypthread.h), for any number of threads and mutexes.
THEOREM TypeCorrect == Spec => []TypeOK
BY SafeInvariant, PTL DEF Safe

\* A mutex never has two holders: lock's test-and-set and its block without preemption
\* are enough, for any number of threads, mutexes, ticks and destroys.
THEOREM MutualExclusionHolds == Spec => []MutualExclusion
<1>1. Safe => MutualExclusion
  BY DEF Safe, Ownership, MutualExclusion
<1> QED BY <1>1, SafeInvariant, PTL

\* Nothing another thread calls takes a held mutex away from its holder: init, destroy
\* and unlock refuse it.
THEOREM HeldMutexIntactHolds == Spec => []HeldMutexIntact
<1>1. Safe => HeldMutexIntact
  BY DEF Safe, Ownership, HeldMutexIntact
<1> QED BY <1>1, SafeInvariant, PTL
=============================================================================
