--------------------------- MODULE TcbList_proofs ---------------------------
(***************************************************************************)
(* Theorems about the circular list of mypthread.c, for any number of      *)
(* nodes: no pointer dangles, the pointers form one ring through all       *)
(* allocated nodes that ends at *head, and the list implements TcbQueue.   *)
(*                                                                         *)
(* Walk follows the next pointers, so nothing can be said of it without a  *)
(* ring to follow.  The invariant is that there is one: a sequence of all  *)
(* nodes, each once (Ring), which spells the queue of their threads        *)
(* (Spells), by quanta in readyQueue (Sorted).  Every operation puts a     *)
(* node into that sequence, takes one out, or turns it, and does the same  *)
(* to the queue; Walk is that sequence, so Queued is the queue.            *)
(***************************************************************************)
EXTENDS TcbList, TLAPS, FiniteSetTheorems, WellFoundedInduction, SequenceTheorems

Node(D) == [tcb : Tcbs, next : D, prev : D]

\* The place after k in a ring of n places.
After(k, n) == IF k = n THEN 1 ELSE k + 1

\* f goes once round the nodes of m and ends at hd.
Ring(m, hd, n, f) ==
  LET D == DOMAIN m
  IN  /\ m \in [D -> Node(D)]
      /\ n \in Nat \ {0}
      /\ f \in [1 .. n -> D]
      /\ \A j, k \in 1 .. n : f[j] = f[k] => j = k
      /\ \A x \in D : \E k \in 1 .. n : f[k] = x
      /\ \A k \in 1 .. n : m[f[k]].next = f[After(k, n)] /\ m[f[After(k, n)]].prev = f[k]
      /\ f[n] = hd

\* Linked and Unlinked of any memory.
Inserted(m, x, t, before, after) ==
  [[y \in DOMAIN m \cup {x} |->
      IF y = x THEN [tcb |-> t, next |-> after, prev |-> before] ELSE m[y]]
     EXCEPT ![before].next = x, ![after].prev = x]

Removed(m, x, before, after) ==
  LET joined == [m EXCEPT ![before].next = after, ![after].prev = before]
  IN  [y \in DOMAIN m \ {x} |-> joined[y]]

\* The threads of a ring, from its first node on.
Spelled(m, n, f) == [k \in 1 .. n |-> m[f[k]].tcb]
Spells(m, hd, s) == \E n, f : Ring(m, hd, n, f) /\ s = Spelled(m, n, f)

IsList(m, hd, s) == \/ hd = NULL /\ m = <<>> /\ s = <<>>
                    \/ hd # NULL /\ Spells(m, hd, s)

Sorted(s) == \A i, j \in 1 .. Len(s) : i <= j => s[i].quantaCount <= s[j].quantaCount

ListInv ==
  /\ DOMAIN mem \subseteq Nodes
  /\ result \in Tcbs \cup {NULL}
  /\ \E s : IsList(mem, head, s) /\ (use = "ready" => Sorted(s))

-----------------------------------------------------------------------------
(* What Walk is.                                                           *)

\* The ring has as many places as there are nodes.
LEMMA RingSize ==
  ASSUME NEW m, NEW hd, NEW n, NEW f, Ring(m, hd, n, f)
  PROVE  Cardinality(DOMAIN m) = n
<1>1. f \in Bijection(1 .. n, DOMAIN m) /\ n \in Nat
  BY DEF Ring, Bijection, Injection, Surjection, IsInjective
<1>2. ExistsBijection(1 .. n, DOMAIN m)
  BY <1>1 DEF ExistsBijection
<1> QED BY <1>1, <1>2, FS_CountingElements

\* In the list's memory, Walk is the ring.
LEMMA WalkIsRing ==
  ASSUME NEW n, NEW f, Ring(mem, head, n, f)
  PROVE  /\ DOMAIN Walk = 1 .. n /\ Cardinality(DOMAIN mem) = n
         /\ \A k \in 1 .. n : Walk[k] = f[k]
<1>1. Cardinality(DOMAIN mem) = n /\ n \in Nat \ {0}
  BY RingSize DEF Ring
<1>2. f = [k \in 1 .. n |-> IF k = 1 THEN tail ELSE mem[f[k - 1]].next]
  <2>1. f = [k \in 1 .. n |-> f[k]]
    BY DEF Ring
  <2>2. ASSUME NEW k \in 1 .. n
        PROVE  f[k] = IF k = 1 THEN tail ELSE mem[f[k - 1]].next
    <3>1. CASE k = 1
      <4>1. n \in 1 .. n /\ After(n, n) = 1
        BY <1>1 DEF After
      <4> QED BY <3>1, <4>1 DEF Ring, tail
    <3>2. CASE k # 1
      <4>1. k - 1 \in 1 .. n /\ After(k - 1, n) = k
        BY <1>1, <3>2 DEF After
      <4> QED BY <3>2, <4>1 DEF Ring
    <3> QED BY <3>1, <3>2
  <2> QED BY <2>1, <2>2
<1>3. Walk = [k \in 1 .. n |-> IF k = 1 THEN tail ELSE mem[Walk[k - 1]].next]
  BY <1>1, <1>2 DEF Walk
<1>4. \A k \in 1 .. n : Walk[k] = f[k]
  <2> DEFINE Differ == {k \in 1 .. n : Walk[k] # f[k]}
  <2> SUFFICES ASSUME Differ # {} PROVE FALSE
    OBVIOUS
  <2>1. Differ \in SUBSET Nat
    BY <1>1
  <2>2. PICK k \in Differ : \A j \in Differ : ~ (<<j, k>> \in OpToRel(<, Nat))
    <3>1. IsWellFoundedOn(OpToRel(<, Nat), Nat)
      BY NatLessThanWellFounded
    <3> HIDE DEF Differ
    <3> QED BY <2>1, <3>1, WFMin
  <2>3. k \in 1 .. n /\ Walk[k] # f[k]
    BY <2>2
  <2>4. CASE k = 1
    BY <1>2, <1>3, <2>3, <2>4
  <2>5. CASE k # 1
    <3>1. k - 1 \in 1 .. n /\ k - 1 < k /\ k - 1 \in Nat /\ k \in Nat
      BY <1>1, <2>3, <2>5
    <3>2. k - 1 \notin Differ
      <4>1. <<k - 1, k>> \in {ss \in Nat \X Nat : ss[1] < ss[2]}
        BY <3>1
      <4> QED BY <2>2, <4>1 DEF OpToRel
    <3>3. Walk[k - 1] = f[k - 1]
      BY <3>1, <3>2
    <3>4. f[k] = mem[f[k - 1]].next
      BY <1>2, <2>3, <2>5
    <3>5. Walk[k] = mem[Walk[k - 1]].next
      BY <1>3, <2>3, <2>5
    <3> QED BY <2>3, <3>3, <3>4, <3>5
  <2> QED BY <2>4, <2>5
<1> QED BY <1>1, <1>3, <1>4

-----------------------------------------------------------------------------
(* What the operations do to a ring.                                       *)

LEMMA AfterIsPlace ==
  ASSUME NEW n \in Nat \ {0}, NEW k \in 1 .. n
  PROVE  /\ After(k, n) \in 1 .. n
         /\ \E j \in 1 .. n : After(j, n) = k
<1>1. After(k, n) \in 1 .. n
  BY DEF After
<1>2. CASE k = 1
  BY <1>2 DEF After
<1>3. CASE k # 1
  <2>1. k - 1 \in 1 .. n /\ After(k - 1, n) = k
    BY <1>3 DEF After
  <2> QED BY <1>1, <2>1
<1> QED BY <1>1, <1>2, <1>3

\* What the pointers of one node tell.
LEMMA RingNeighbours ==
  ASSUME NEW m, NEW hd, NEW n, NEW f, Ring(m, hd, n, f), NEW k \in 1 .. n
  PROVE  /\ m[f[k]].next = f[After(k, n)]
         /\ m[f[k]].prev = IF k = 1 THEN f[n] ELSE f[k - 1]
         /\ f[k] \in DOMAIN m /\ m[f[k]].next \in DOMAIN m /\ m[f[k]].prev \in DOMAIN m
<1>1. n \in Nat \ {0} /\ f \in [1 .. n -> DOMAIN m]
  BY DEF Ring
<1>2. m[f[k]].next = f[After(k, n)] /\ After(k, n) \in 1 .. n
  BY <1>1, AfterIsPlace DEF Ring
<1>3. CASE k = 1
  <2>1. n \in 1 .. n /\ After(n, n) = k
    BY <1>1, <1>3 DEF After
  <2>2. m[f[k]].prev = f[n]
    BY <2>1 DEF Ring
  <2> QED BY <1>1, <1>2, <1>3, <2>1, <2>2
<1>4. CASE k # 1
  <2>1. k - 1 \in 1 .. n /\ After(k - 1, n) = k
    BY <1>1, <1>4 DEF After
  <2>2. m[f[k]].prev = f[k - 1]
    BY <2>1 DEF Ring
  <2> QED BY <1>1, <1>2, <1>4, <2>1, <2>2
<1> QED BY <1>3, <1>4

\* The ring of one node.
LEMMA RingOfOne ==
  ASSUME NEW x, NEW t \in Tcbs
  PROVE  Spells([y \in {x} |-> [tcb |-> t, next |-> x, prev |-> x]], x, <<t>>)
<1> DEFINE m == [y \in {x} |-> [tcb |-> t, next |-> x, prev |-> x]]
           f == [k \in 1 .. 1 |-> x]
<1>1. m \in [DOMAIN m -> Node(DOMAIN m)]
  BY DEF Node
<1>2. \A k \in 1 .. 1 : k = 1 /\ f[k] = x /\ After(k, 1) = 1 /\ m[x].next = x /\ m[x].prev = x
  BY DEF After
<1>3. f \in [1 .. 1 -> DOMAIN m]
  OBVIOUS
<1>4. \A y \in DOMAIN m : \E k \in 1 .. 1 : f[k] = y
  OBVIOUS
<1>5. 1 \in 1 .. 1 /\ 1 \in Nat \ {0}
  OBVIOUS
<1>6. m[x].tcb = t
  OBVIOUS
<1> HIDE DEF m, f
<1>7. Ring(m, x, 1, f)
  BY <1>1, <1>2, <1>3, <1>4, <1>5 DEF Ring
<1>8. Spelled(m, 1, f) = <<t>>
  BY <1>2, <1>6 DEF Spelled
<1> QED BY <1>7, <1>8 DEF Spells, m

\* The ring can end at its first node.
LEMMA RingTurned ==
  ASSUME NEW m, NEW hd, NEW n, NEW f, Ring(m, hd, n, f)
  PROVE  \E g : Ring(m, f[1], n, g) /\ \A k \in 1 .. n : g[k] = f[After(k, n)]
<1> DEFINE g == [k \in 1 .. n |-> f[After(k, n)]]
<1>1. n \in Nat \ {0} /\ f \in [1 .. n -> DOMAIN m]
  BY DEF Ring
<1>2. \A k \in 1 .. n : After(k, n) \in 1 .. n /\ \E j \in 1 .. n : After(j, n) = k
  BY <1>1, AfterIsPlace
<1>3. g \in [1 .. n -> DOMAIN m]
  BY <1>1, <1>2
<1>4. \A j, k \in 1 .. n : g[j] = g[k] => j = k
  <2> SUFFICES ASSUME NEW j \in 1 .. n, NEW k \in 1 .. n, g[j] = g[k] PROVE j = k
    OBVIOUS
  <2>1. After(j, n) = After(k, n)
    BY <1>2 DEF Ring
  <2> QED BY <1>1, <2>1 DEF After
<1>5. \A x \in DOMAIN m : \E k \in 1 .. n : g[k] = x
  <2> SUFFICES ASSUME NEW x \in DOMAIN m PROVE \E k \in 1 .. n : g[k] = x
    OBVIOUS
  <2>1. PICK i \in 1 .. n : f[i] = x
    BY DEF Ring
  <2>2. PICK k \in 1 .. n : After(k, n) = i
    BY <1>2
  <2> QED BY <2>1, <2>2
<1>6. \A k \in 1 .. n : m[g[k]].next = g[After(k, n)] /\ m[g[After(k, n)]].prev = g[k]
  BY <1>2 DEF Ring
<1>7. g[n] = f[1] /\ m \in [DOMAIN m -> Node(DOMAIN m)]
  BY <1>1 DEF After, Ring
<1>8. \A k \in 1 .. n : g[k] = f[After(k, n)]
  OBVIOUS
<1> HIDE DEF g
<1>9. Ring(m, f[1], n, g)
  BY <1>1, <1>3, <1>4, <1>5, <1>6, <1>7 DEF Ring
<1> QED BY <1>8, <1>9

\* All pointers of m point into m.
Closed(m) == m \in [DOMAIN m -> Node(DOMAIN m)]

\* r is m with a node x for t between p and a.
Inserts(r, m, x, t, p, a) ==
  /\ DOMAIN r = DOMAIN m \cup {x}
  /\ r \in [DOMAIN m \cup {x} -> Node(DOMAIN m \cup {x})]
  /\ r[x].tcb = t
  /\ r[x].next = a
  /\ r[x].prev = p
  /\ \A y \in DOMAIN m : /\ r[y].tcb = m[y].tcb
                         /\ r[y].next = IF y = p THEN x ELSE m[y].next
                         /\ r[y].prev = IF y = a THEN x ELSE m[y].prev

\* r is m without x, which was between p and a.
Removes(r, m, x, p, a) ==
  /\ DOMAIN r = DOMAIN m \ {x}
  /\ \A y \in DOMAIN m \ {x} :
       /\ r[y] = [tcb |-> m[y].tcb, next |-> r[y].next, prev |-> r[y].prev]
       /\ r[y].next = IF y = p THEN a ELSE m[y].next
       /\ r[y].prev = IF y = a THEN p ELSE m[y].prev
  /\ r = [y \in DOMAIN m \ {x} |-> r[y]]

\* The assignments of an insertion, pointer by pointer.
LEMMA InsertedNodes ==
  ASSUME NEW m, Closed(m), NEW x, x \notin DOMAIN m,
         NEW t \in Tcbs, NEW p \in DOMAIN m, NEW a \in DOMAIN m,
         NEW r, r = Inserted(m, x, t, p, a)
  PROVE  Inserts(r, m, x, t, p, a)
<1> DEFINE D2 == DOMAIN m \cup {x}
           m1 == [y \in D2 |->
                    IF y = x THEN [tcb |-> t, next |-> a, prev |-> p] ELSE m[y]]
           mp == [m1 EXCEPT ![p].next = x]
           m2 == [mp EXCEPT ![a].prev = x]
<1>1. r = m2
  BY DEF Inserted
<1>2. m1 \in [D2 -> Node(D2)]
  BY DEF Node, Closed
<1>3. \A y \in D2 : m1[y] = IF y = x THEN [tcb |-> t, next |-> a, prev |-> p] ELSE m[y]
  OBVIOUS
<1>4. p \in D2 /\ a \in D2 /\ x \in D2 /\ p # x /\ a # x
  OBVIOUS
<1> HIDE DEF m1, D2
<1>5. /\ mp \in [D2 -> Node(D2)]
      /\ \A y \in D2 : /\ mp[y].next = IF y = p THEN x ELSE m1[y].next
                       /\ mp[y].prev = m1[y].prev
                       /\ mp[y].tcb = m1[y].tcb
  BY <1>2, <1>4 DEF Node
<1> HIDE DEF mp
<1>6. /\ m2 \in [D2 -> Node(D2)]
      /\ \A y \in D2 : /\ m2[y].next = mp[y].next
                       /\ m2[y].prev = IF y = a THEN x ELSE mp[y].prev
                       /\ m2[y].tcb = mp[y].tcb
  <2>1. \A y \in D2 : m2[y] = IF y = a THEN [mp[y] EXCEPT !.prev = x] ELSE mp[y]
    BY <1>5
  <2>2. ASSUME NEW y \in D2
        PROVE  /\ m2[y] \in Node(D2) /\ m2[y].next = mp[y].next
               /\ m2[y].prev = IF y = a THEN x ELSE mp[y].prev
               /\ m2[y].tcb = mp[y].tcb
    <3>1. mp[y] \in Node(D2)
      BY <1>5
    <3> HIDE DEF m2
    <3> QED BY <1>4, <2>1, <3>1 DEF Node
  <2>3. m2 = [y \in D2 |-> m2[y]]
    BY <1>5
  <2> HIDE DEF m2
  <2> QED BY <2>2, <2>3
<1> HIDE DEF m2
<1>7. /\ m2[x].next = a /\ m2[x].prev = p /\ m2[x].tcb = t
      /\ \A y \in DOMAIN m : /\ m2[y].next = IF y = p THEN x ELSE m[y].next
                             /\ m2[y].prev = IF y = a THEN x ELSE m[y].prev
                             /\ m2[y].tcb = m[y].tcb
  BY <1>3, <1>4, <1>5, <1>6 DEF D2
<1> HIDE DEF mp
<1> QED BY <1>1, <1>6, <1>7 DEF D2, Inserts

\* Those of a removal.
LEMMA RemovedNodes ==
  ASSUME NEW m, Closed(m), NEW x \in DOMAIN m,
         NEW p \in DOMAIN m \ {x}, NEW a \in DOMAIN m \ {x},
         NEW r, r = Removed(m, x, p, a)
  PROVE  Removes(r, m, x, p, a)
<1> DEFINE D == DOMAIN m
           m1 == [m EXCEPT ![p].next = a]
           m2 == [m1 EXCEPT ![a].prev = p]
           m3 == [y \in D \ {x} |-> m2[y]]
<1>1. r = m3
  BY DEF Removed
<1>2. p \in D /\ a \in D /\ m \in [D -> Node(D)]
  BY DEF Closed
<1> HIDE DEF D
<1>3. /\ m1 \in [D -> Node(D)]
      /\ \A y \in D : /\ m1[y].next = IF y = p THEN a ELSE m[y].next
                      /\ m1[y].prev = m[y].prev
                      /\ m1[y].tcb = m[y].tcb
  BY <1>2 DEF Node
<1> HIDE DEF m1
<1>4. /\ m2 \in [D -> Node(D)]
      /\ \A y \in D : /\ m2[y].next = m1[y].next
                      /\ m2[y].prev = IF y = a THEN p ELSE m1[y].prev
                      /\ m2[y].tcb = m1[y].tcb
  <2>1. \A y \in D : m2[y] = IF y = a THEN [m1[y] EXCEPT !.prev = p] ELSE m1[y]
    BY <1>3
  <2>2. ASSUME NEW y \in D
        PROVE  /\ m2[y] \in Node(D) /\ m2[y].next = m1[y].next
               /\ m2[y].prev = IF y = a THEN p ELSE m1[y].prev
               /\ m2[y].tcb = m1[y].tcb
    <3>1. m1[y] \in Node(D)
      BY <1>3
    <3> HIDE DEF m2
    <3> QED BY <1>2, <2>1, <3>1 DEF Node
  <2>3. m2 = [y \in D |-> m2[y]]
    BY <1>3
  <2> HIDE DEF m2
  <2> QED BY <2>2, <2>3
<1> HIDE DEF m2
<1>5. \A y \in D : m2[y] = [tcb |-> m2[y].tcb, next |-> m2[y].next, prev |-> m2[y].prev]
  BY <1>4 DEF Node
<1>6. DOMAIN m3 = D \ {x} /\ \A y \in D \ {x} : m3[y] = m2[y]
  OBVIOUS
<1>7. m3 = [y \in D \ {x} |-> m3[y]]
  OBVIOUS
<1> HIDE DEF m3
<1>8. \A y \in D \ {x} :
        /\ m3[y] = [tcb |-> m[y].tcb, next |-> m3[y].next, prev |-> m3[y].prev]
        /\ m3[y].next = IF y = p THEN a ELSE m[y].next
        /\ m3[y].prev = IF y = a THEN p ELSE m[y].prev
  BY <1>3, <1>4, <1>5, <1>6
<1> QED BY <1>1, <1>6, <1>7, <1>8 DEF D, Removes

\* g is f with x in the i-th place; without its i-th place.
WithPlace(g, n, f, i, x) ==
  \A k \in 1 .. n + 1 : g[k] = IF k < i THEN f[k] ELSE IF k = i THEN x ELSE f[k - 1]
WithoutPlace(g, n, f, i) ==
  \A k \in 1 .. n - 1 : g[k] = IF k < i THEN f[k] ELSE f[k + 1]

Grown(m, hd, n, f, i, x) == \E g : Ring(m, hd, n + 1, g) /\ WithPlace(g, n, f, i, x)
Shrunk(m, hd, n, f, i) == \E g : Ring(m, hd, n - 1, g) /\ WithoutPlace(g, n, f, i)

\* The nodes of m that r has too are for the same threads.
SameTcbs(r, m) == \A y \in DOMAIN m \cap DOMAIN r : r[y].tcb = m[y].tcb

\* m2 has a node x for t more than m.
Added(m2, m, x, t) == DOMAIN m2 = DOMAIN m \cup {x} /\ SameTcbs(m2, m) /\ m2[x].tcb = t

\* m2 is the ring f of m with a node x for t before the i-th, at.
InsertsBefore(m2, m, hd, n, f, i, x, t, at) ==
  /\ Ring(m, hd, n, f) /\ i \in 1 .. n /\ at = f[i]
  /\ x \notin DOMAIN m /\ t \in Tcbs
  /\ m2 = Inserted(m, x, t, m[at].prev, at)

\* A node put before the i-th has the i-th place; the ring ends where it did.
LEMMA RingInsert ==
  ASSUME NEW m, NEW hd, NEW n, NEW f, NEW i, NEW x, NEW t, NEW m2, NEW at,
         InsertsBefore(m2, m, hd, n, f, i, x, t, at)
  PROVE  Grown(m2, hd, n, f, i, x) /\ Added(m2, m, x, t)
<1>0. /\ Ring(m, hd, n, f) /\ i \in 1 .. n /\ at = f[i]
      /\ x \notin DOMAIN m /\ t \in Tcbs
      /\ m2 = Inserted(m, x, t, m[at].prev, at)
  BY DEF InsertsBefore
<1> DEFINE D2 == DOMAIN m \cup {x}
           b == IF i = 1 THEN n ELSE i - 1
           g == [k \in 1 .. n + 1 |-> IF k < i THEN f[k] ELSE IF k = i THEN x ELSE f[k - 1]]
<1>1. /\ n \in Nat \ {0} /\ f \in [1 .. n -> DOMAIN m]
      /\ m \in [DOMAIN m -> Node(DOMAIN m)]
      /\ \A j, k \in 1 .. n : f[j] = f[k] => j = k
      /\ f[n] = hd
      /\ \A y \in DOMAIN m : \E k \in 1 .. n : f[k] = y
      /\ i \in 1 .. n /\ x \notin DOMAIN m
  BY <1>0 DEF Ring
<1>2. /\ b \in 1 .. n /\ m[f[i]].prev = f[b]
      /\ f[b] \in DOMAIN m /\ f[i] \in DOMAIN m /\ f[b] # x /\ f[i] # x
  <2>1. m[f[i]].prev = IF i = 1 THEN f[n] ELSE f[i - 1]
    BY <1>0, RingNeighbours
  <2> QED BY <1>1, <2>1
<1>3. Inserts(m2, m, x, t, f[b], f[i])
  <2> HIDE DEF b
  <2>1. PICK p \in DOMAIN m, a \in DOMAIN m : p = f[b] /\ a = f[i]
    BY <1>2
  <2>2. Closed(m)
    BY <1>1 DEF Closed
  <2>3. m2 = Inserted(m, x, t, p, a)
    BY <1>0, <1>2, <2>1
  <2>4. Inserts(m2, m, x, t, p, a)
    BY <1>0, <2>2, <2>3, InsertedNodes
  <2> QED BY <2>1, <2>4
<1>4. /\ DOMAIN m2 = D2 /\ m2 \in [D2 -> Node(D2)]
      /\ m2[x].next = f[i] /\ m2[x].prev = f[b] /\ m2[x].tcb = t
  BY <1>3 DEF Inserts
<1>5. g \in [1 .. n + 1 -> D2]
  BY <1>1
<1>6. \A k \in 1 .. n + 1 : g[k] = IF k < i THEN f[k] ELSE IF k = i THEN x ELSE f[k - 1]
  OBVIOUS
<1>7. \A j, k \in 1 .. n + 1 : g[j] = g[k] => j = k
  BY <1>1, <1>6
<1>8. \A y \in D2 : \E k \in 1 .. n + 1 : g[k] = y
  <2> SUFFICES ASSUME NEW y \in D2 PROVE \E k \in 1 .. n + 1 : g[k] = y
    OBVIOUS
  <2>1. CASE y = x
    <3>1. i \in 1 .. n + 1 /\ g[i] = x
      BY <1>1, <1>6
    <3> QED BY <2>1, <3>1
  <2>2. CASE y # x
    <3>1. PICK k \in 1 .. n : f[k] = y
      BY <1>1, <2>2
    <3>2. CASE k < i
      <4>1. k \in 1 .. n + 1 /\ g[k] = y
        BY <1>1, <1>6, <3>1, <3>2
      <4> QED BY <4>1
    <3>3. CASE ~(k < i)
      <4>1. k + 1 \in 1 .. n + 1 /\ g[k + 1] = y
        BY <1>1, <1>6, <3>1, <3>3
      <4> QED BY <4>1
    <3> QED BY <3>2, <3>3
  <2> QED BY <2>1, <2>2
<1>9. ASSUME NEW k \in 1 .. n
      PROVE  /\ m2[f[k]].next = IF k = b THEN x ELSE f[After(k, n)]
             /\ m2[f[k]].prev = IF k = i THEN x ELSE IF k = 1 THEN f[n] ELSE f[k - 1]
  <2>1. f[k] \in DOMAIN m /\ (f[k] = f[b] <=> k = b) /\ (f[k] = f[i] <=> k = i)
    BY <1>1, <1>2
  <2>2. /\ m[f[k]].next = f[After(k, n)]
        /\ m[f[k]].prev = IF k = 1 THEN f[n] ELSE f[k - 1]
    BY <1>0, RingNeighbours
  <2> HIDE DEF b
  <2>3. /\ m2[f[k]].next = IF f[k] = f[b] THEN x ELSE m[f[k]].next
        /\ m2[f[k]].prev = IF f[k] = f[i] THEN x ELSE m[f[k]].prev
    BY <1>3, <2>1 DEF Inserts
  <2> QED BY <2>1, <2>2, <2>3
<1>10. ASSUME NEW k \in 1 .. n + 1
       PROVE  m2[g[k]].next = g[After(k, n + 1)] /\ m2[g[After(k, n + 1)]].prev = g[k]
  <2> HIDE DEF g
  <2>1. CASE k = i
    <3>1. After(k, n + 1) = i + 1 /\ g[k] = x /\ g[i + 1] = f[i] /\ i + 1 \in 1 .. n + 1
      BY <1>1, <1>6, <2>1 DEF After
    <3>2. m2[f[i]].prev = x
      BY <1>1, <1>9
    <3> QED BY <1>4, <2>1, <3>1, <3>2
  <2>2. CASE k < i
    <3>1. After(k, n + 1) = k + 1 /\ g[k] = f[k] /\ k \in 1 .. n /\ k + 1 \in 1 .. n
          /\ After(k, n) = k + 1 /\ k + 1 \in 1 .. n + 1
      BY <1>1, <1>6, <2>2 DEF After
    <3>2. CASE k = b
      <4>1. k + 1 = i /\ g[k + 1] = x
        BY <1>1, <1>6, <2>2, <3>1, <3>2
      <4>2. m2[f[k]].next = x
        BY <1>9, <3>1, <3>2
      <4> QED BY <1>4, <3>1, <3>2, <4>1, <4>2
    <3>3. CASE k # b
      <4>1. k + 1 < i /\ g[k + 1] = f[k + 1]
        BY <1>1, <1>6, <2>2, <3>1, <3>3
      <4>2. k + 1 # i /\ k + 1 # 1 /\ (k + 1) - 1 = k
        BY <1>1, <3>1, <4>1
      <4>3. m2[f[k]].next = f[k + 1]
        BY <1>9, <3>1, <3>3
      <4>4. m2[f[k + 1]].prev = f[k]
        BY <1>9, <3>1, <4>2
      <4> QED BY <3>1, <4>1, <4>3, <4>4
    <3> QED BY <3>2, <3>3
  <2>3. CASE k > i
    <3>1. k - 1 \in 1 .. n /\ g[k] = f[k - 1] /\ k \in Nat /\ k # 1
      BY <1>1, <1>6, <2>3
    <3>2. CASE k = n + 1
      <4>1. After(k, n + 1) = 1 /\ k - 1 = n /\ After(n, n) = 1 /\ n \in 1 .. n /\ 1 \in 1 .. n
            /\ 1 \in 1 .. n + 1
        BY <1>1, <3>2 DEF After
      <4>2. CASE i = 1
        <5>1. b = n /\ g[1] = x
          BY <1>1, <1>6, <4>1, <4>2
        <5>2. m2[f[n]].next = x
          BY <1>9, <4>1, <5>1
        <5> QED BY <1>4, <3>1, <4>1, <5>1, <5>2
      <4>3. CASE i # 1
        <5>1. b # n /\ g[1] = f[1]
          BY <1>1, <1>6, <4>1, <4>3
        <5>2. m2[f[n]].next = f[1] /\ m2[f[1]].prev = f[n]
          BY <1>9, <4>1, <4>3, <5>1
        <5> QED BY <3>1, <4>1, <5>1, <5>2
      <4> QED BY <4>2, <4>3
    <3>3. CASE k # n + 1
      <4>1. After(k, n + 1) = k + 1 /\ After(k - 1, n) = k /\ k \in 1 .. n
            /\ g[k + 1] = f[k] /\ k # i /\ k - 1 # b
        <5>1. k + 1 \in 1 .. n + 1 /\ ~(k + 1 < i) /\ k + 1 # i /\ (k + 1) - 1 = k /\ k # 1
          BY <1>1, <2>3, <3>1, <3>3
        <5>2. g[k + 1] = f[k]
          BY <1>6, <5>1
        <5>3. k - 1 # n /\ k - 1 # b /\ k \in 1 .. n /\ k # i /\ (k - 1) + 1 = k
          BY <1>1, <2>3, <3>1, <3>3
        <5> QED BY <3>3, <5>2, <5>3 DEF After
      <4>2. m2[f[k - 1]].next = f[k]
        BY <1>9, <3>1, <4>1
      <4>3. m2[f[k]].prev = f[k - 1]
        BY <1>9, <3>1, <4>1
      <4> QED BY <3>1, <4>1, <4>2, <4>3
    <3> QED BY <3>2, <3>3
  <2> QED BY <1>1, <2>1, <2>2, <2>3
<1>11. g[n + 1] = hd /\ n + 1 \in Nat \ {0}
  BY <1>1, <1>6
<1> HIDE DEF g, b
<1>12. Ring(m2, hd, n + 1, g)
  BY <1>4, <1>5, <1>7, <1>8, <1>10, <1>11 DEF Ring
<1>13. WithPlace(g, n, f, i, x)
  BY <1>6 DEF WithPlace
<1>14. Added(m2, m, x, t)
  <2>1. ASSUME NEW y \in DOMAIN m \cap DOMAIN m2 PROVE m2[y].tcb = m[y].tcb
    BY <1>3, <2>1 DEF Inserts
  <2> QED BY <1>4, <2>1 DEF Added, SameTcbs
<1> QED BY <1>12, <1>13, <1>14 DEF Grown

\* A node other than the last can be taken out; the ring ends where it did.
LEMMA RingRemove ==
  ASSUME NEW m, NEW hd, NEW n, NEW f, Ring(m, hd, n, f),
         NEW i \in 1 .. n, i # n, NEW x \in DOMAIN m, x = f[i], NEW m2,
         m2 = Removed(m, x, m[x].prev, m[x].next)
  PROVE  /\ Shrunk(m2, hd, n, f, i)
         /\ DOMAIN m2 = DOMAIN m \ {x} /\ SameTcbs(m2, m)
<1>1. /\ n \in Nat \ {0} /\ f \in [1 .. n -> DOMAIN m]
      /\ m \in [DOMAIN m -> Node(DOMAIN m)]
      /\ \A j, k \in 1 .. n : f[j] = f[k] => j = k
      /\ f[n] = hd
      /\ \A y \in DOMAIN m : \E k \in 1 .. n : f[k] = y
  BY DEF Ring
<1>2. f[i] = x
  OBVIOUS
<1>3. i # n /\ i < n /\ i + 1 \in 1 .. n /\ After(i, n) = i + 1 /\ i \in Nat
  BY <1>1, <1>2 DEF After
<1> DEFINE D2 == DOMAIN m \ {x}
           b == IF i = 1 THEN n ELSE i - 1
           g == [k \in 1 .. n - 1 |-> IF k < i THEN f[k] ELSE f[k + 1]]
<1>4. /\ b \in 1 .. n /\ b # i /\ m[x].prev = f[b] /\ m[x].next = f[i + 1]
      /\ f[b] \in D2 /\ f[i + 1] \in D2
  <2>1. /\ m[f[i]].next = f[After(i, n)]
        /\ m[f[i]].prev = IF i = 1 THEN f[n] ELSE f[i - 1]
    BY RingNeighbours
  <2> QED BY <1>1, <1>2, <1>3, <2>1
<1>5. /\ DOMAIN m2 = D2 /\ m2 = [y \in D2 |-> m2[y]]
      /\ \A y \in D2 : /\ m2[y] = [tcb |-> m[y].tcb, next |-> m2[y].next, prev |-> m2[y].prev]
                       /\ m2[y].next = IF y = f[b] THEN f[i + 1] ELSE m[y].next
                       /\ m2[y].prev = IF y = f[i + 1] THEN f[b] ELSE m[y].prev
  <2> HIDE DEF b
  <2>1. PICK p \in DOMAIN m \ {x}, a \in DOMAIN m \ {x} : p = f[b] /\ a = f[i + 1]
    BY <1>4
  <2>2. Closed(m)
    BY <1>1 DEF Closed
  <2>3. m2 = Removed(m, x, p, a)
    BY <1>4, <2>1
  <2>4. Removes(m2, m, x, p, a)
    BY <2>2, <2>3, RemovedNodes
  <2> QED BY <2>1, <2>4 DEF Removes
<1>6. ASSUME NEW k \in 1 .. n, k # i
      PROVE  /\ f[k] \in D2
             /\ m2[f[k]].next = IF k = b THEN f[i + 1] ELSE f[After(k, n)]
             /\ m2[f[k]].prev = IF k = i + 1 THEN f[b] ELSE IF k = 1 THEN f[n] ELSE f[k - 1]
  <2>1. f[k] \in D2 /\ (f[k] = f[b] <=> k = b) /\ (f[k] = f[i + 1] <=> k = i + 1)
    <3>1. f[k] \in DOMAIN m /\ f[k] # x
      BY <1>1, <1>2, <1>6
    <3> HIDE DEF b
    <3> QED BY <1>1, <1>3, <1>4, <3>1
  <2>2. /\ m[f[k]].next = f[After(k, n)]
        /\ m[f[k]].prev = IF k = 1 THEN f[n] ELSE f[k - 1]
    BY RingNeighbours
  <2> HIDE DEF b, D2
  <2>3. /\ m2[f[k]].next = IF f[k] = f[b] THEN f[i + 1] ELSE m[f[k]].next
        /\ m2[f[k]].prev = IF f[k] = f[i + 1] THEN f[b] ELSE m[f[k]].prev
    BY <1>5, <2>1
  <2> QED BY <2>1, <2>2, <2>3
<1>7. m2 \in [D2 -> Node(D2)]
  <2>1. ASSUME NEW y \in D2 PROVE m2[y] \in Node(D2)
    <3>1. PICK k \in 1 .. n : f[k] = y
      BY <1>1
    <3>2. k # i
      BY <1>2, <3>1
    <3>3. After(k, n) \in 1 .. n /\ (After(k, n) = i => k = b)
      BY <1>1, <1>3 DEF After
    <3>4. k # i + 1 => IF k = 1 THEN n # i ELSE k - 1 # i /\ k - 1 \in 1 .. n
      BY <1>1, <1>3
    <3>5. \A j \in 1 .. n : j # i => f[j] \in D2
      BY <1>1, <1>2
    <3>6. m2[y].next \in D2
      <4> HIDE DEF b, D2
      <4> QED BY <1>3, <1>4, <1>6, <3>1, <3>2, <3>3, <3>5
    <3>7. m2[y].prev \in D2
      <4>1. n \in 1 .. n
        BY <1>1
      <4> HIDE DEF b, D2
      <4> QED BY <1>3, <1>4, <1>6, <3>1, <3>2, <3>4, <3>5, <4>1
    <3>8. m2[y] = [tcb |-> m[y].tcb, next |-> m2[y].next, prev |-> m2[y].prev]
      <4> HIDE DEF b, D2
      <4> QED BY <1>5
    <3>9. m[y].tcb \in Tcbs
      BY <1>1 DEF Node
    <3> HIDE DEF D2
    <3> QED BY <3>6, <3>7, <3>8, <3>9 DEF Node
  <2> HIDE DEF D2
  <2> QED BY <1>5, <2>1
<1>8. \A k \in 1 .. n - 1 : g[k] = IF k < i THEN f[k] ELSE f[k + 1]
  OBVIOUS
<1>9. g \in [1 .. n - 1 -> D2]
  <2>1. ASSUME NEW k \in 1 .. n - 1
        PROVE  (IF k < i THEN f[k] ELSE f[k + 1]) \in D2
    BY <1>1, <1>2, <1>3
  <2> HIDE DEF D2
  <2> QED BY <2>1
<1>10. \A j, k \in 1 .. n - 1 : g[j] = g[k] => j = k
  BY <1>1, <1>3, <1>8
<1>11. \A y \in D2 : \E k \in 1 .. n - 1 : g[k] = y
  <2> SUFFICES ASSUME NEW y \in D2 PROVE \E k \in 1 .. n - 1 : g[k] = y
    OBVIOUS
  <2>1. PICK k \in 1 .. n : f[k] = y
    BY <1>1
  <2>2. k # i
    BY <1>2, <2>1
  <2>3. CASE k < i
    <3>1. k \in 1 .. n - 1 /\ g[k] = y
      BY <1>1, <1>3, <1>8, <2>1, <2>3
    <3> QED BY <3>1
  <2>4. CASE k > i
    <3>1. k - 1 \in 1 .. n - 1 /\ ~(k - 1 < i) /\ (k - 1) + 1 = k
      BY <1>1, <1>3, <2>4
    <3>2. g[k - 1] = y
      BY <1>8, <2>1, <3>1
    <3> QED BY <3>1, <3>2
  <2> QED BY <1>1, <2>2, <2>3, <2>4
<1>12. ASSUME NEW k \in 1 .. n - 1
       PROVE  m2[g[k]].next = g[After(k, n - 1)] /\ m2[g[After(k, n - 1)]].prev = g[k]
  <2> HIDE DEF g, D2
  <2>0. k \in Nat /\ n \in Nat /\ n > 1
    BY <1>1, <1>3
  <2>1. CASE k < i
    <3>1. After(k, n - 1) = k + 1 /\ g[k] = f[k] /\ k \in 1 .. n /\ k # i
          /\ k + 1 \in 1 .. n - 1 /\ After(k, n) = k + 1 /\ k + 1 \in 1 .. n
      BY <1>3, <1>8, <2>0, <2>1 DEF After
    <3>2. CASE k = b
      <4>1. k + 1 = i /\ g[k + 1] = f[i + 1] /\ i + 1 # i
        BY <1>3, <1>8, <2>0, <2>1, <3>1, <3>2
      <4>2. m2[f[k]].next = f[i + 1]
        BY <1>6, <3>1, <3>2
      <4>3. m2[f[i + 1]].prev = f[k]
        BY <1>3, <1>6, <3>2, <4>1
      <4> QED BY <3>1, <4>1, <4>2, <4>3
    <3>3. CASE k # b
      <4>1. k + 1 < i /\ g[k + 1] = f[k + 1] /\ k + 1 # i /\ k + 1 # i + 1 /\ k + 1 # 1
            /\ (k + 1) - 1 = k
        BY <1>3, <1>8, <2>0, <2>1, <3>1, <3>3
      <4>2. m2[f[k]].next = f[k + 1]
        BY <1>6, <3>1, <3>3
      <4>3. m2[f[k + 1]].prev = f[k]
        BY <1>6, <3>1, <4>1
      <4> QED BY <3>1, <4>1, <4>2, <4>3
    <3> QED BY <3>2, <3>3
  <2>2. CASE k >= i
    <3>1. k + 1 \in 1 .. n /\ k + 1 # i /\ g[k] = f[k + 1]
      BY <1>3, <1>8, <2>0, <2>2
    <3>2. CASE k = n - 1
      <4>1. After(k, n - 1) = 1 /\ k + 1 = n /\ After(n, n) = 1 /\ 1 \in 1 .. n - 1 /\ 1 \in 1 .. n
            /\ n \in 1 .. n
        BY <2>0, <3>2 DEF After
      <4>2. CASE i = 1
        <5>1. b = n /\ g[1] = f[2] /\ i + 1 = 2
          BY <1>3, <1>8, <4>1, <4>2
        <5>2. m2[f[n]].next = f[2]
          BY <1>3, <1>6, <4>1, <5>1
        <5>3. m2[f[2]].prev = f[n]
          BY <1>3, <1>6, <4>2, <5>1
        <5> QED BY <3>1, <4>1, <5>1, <5>2, <5>3
      <4>3. CASE i # 1
        <5>1. b # n /\ g[1] = f[1] /\ i + 1 # 1
          BY <1>3, <1>8, <2>0, <4>1, <4>3
        <5>2. m2[f[n]].next = f[1]
          BY <1>3, <1>6, <4>1, <5>1
        <5>3. m2[f[1]].prev = f[n]
          BY <1>6, <4>1, <4>3, <5>1
        <5> QED BY <3>1, <4>1, <5>1, <5>2, <5>3
      <4> QED BY <4>2, <4>3
    <3>3. CASE k # n - 1
      <4>1. After(k, n - 1) = k + 1 /\ k + 1 \in 1 .. n - 1 /\ g[k + 1] = f[k + 2]
            /\ k + 2 \in 1 .. n /\ k + 2 # i /\ k + 2 # i + 1
        BY <1>3, <1>8, <2>0, <2>2, <3>1, <3>3 DEF After
      <4>2. After(k + 1, n) = k + 2 /\ k + 1 # b /\ k + 2 # 1 /\ (k + 2) - 1 = k + 1
        BY <1>3, <2>0, <2>2, <3>1, <3>3 DEF After
      <4>3. m2[f[k + 1]].next = f[k + 2]
        BY <1>6, <3>1, <4>2
      <4>4. m2[f[k + 2]].prev = f[k + 1]
        BY <1>6, <4>1, <4>2
      <4> QED BY <3>1, <4>1, <4>3, <4>4
    <3> QED BY <3>2, <3>3
  <2> QED BY <1>3, <2>0, <2>1, <2>2
<1>13. g[n - 1] = hd /\ n - 1 \in Nat \ {0} /\ DOMAIN m2 = D2
  BY <1>1, <1>3, <1>5, <1>8
<1>14. SameTcbs(m2, m)
  <2>1. ASSUME NEW y \in D2 PROVE m2[y].tcb = m[y].tcb
    <3> HIDE DEF b, D2
    <3>1. m2[y] = [tcb |-> m[y].tcb, next |-> m2[y].next, prev |-> m2[y].prev]
      BY <1>5
    <3> QED BY <3>1
  <2>2. DOMAIN m2 \cap DOMAIN m \subseteq D2
    BY <1>13
  <2> QED BY <2>1, <2>2 DEF SameTcbs
<1> HIDE DEF g, b
<1>15. Ring(m2, hd, n - 1, g)
  BY <1>7, <1>9, <1>10, <1>11, <1>12, <1>13 DEF Ring
<1>16. WithoutPlace(g, n, f, i)
  BY <1>8 DEF WithoutPlace
<1> QED BY <1>13, <1>14, <1>15, <1>16 DEF Shrunk

-----------------------------------------------------------------------------
(* Sequences.                                                              *)

PutAt(s, k, t) == SubSeq(s, 1, k) \o <<t>> \o SubSeq(s, k + 1, Len(s))
PutBefore(s, i, t) == PutAt(s, i - 1, t)
Without(s, i) == SubSeq(s, 1, i - 1) \o SubSeq(s, i + 1, Len(s))
Turned(s, k) == SubSeq(s, k + 1, Len(s)) \o SubSeq(s, 1, k)

HasPut(r, s, k, t) ==
  \A j \in 1 .. Len(s) + 1 : r[j] = IF j <= k THEN s[j] ELSE IF j = k + 1 THEN t ELSE s[j - 1]

LEMMA FunctionIsSeq ==
  ASSUME NEW S, NEW n \in Nat, NEW f \in [1 .. n -> S]
  PROVE  f \in Seq(S) /\ Len(f) = n
OBVIOUS

LEMMA SubSeqElements ==
  ASSUME NEW S, NEW s \in Seq(S), NEW a \in 1 .. Len(s) + 1, NEW b \in 0 .. Len(s), a <= b + 1
  PROVE  /\ SubSeq(s, a, b) \in Seq(S) /\ Len(SubSeq(s, a, b)) = b - a + 1
         /\ \A j \in 1 .. b - a + 1 : SubSeq(s, a, b)[j] = s[a + j - 1]
<1>1. a \in Int /\ b \in Int /\ Len(s) \in Nat
  OBVIOUS
<1>2. \A j \in a .. b : s[j] \in S
  BY <1>1, ElementOfSeq
<1> DEFINE r == SubSeq(s, a, b)
<1>3. /\ r \in Seq(S) /\ Len(r) = IF a <= b THEN b - a + 1 ELSE 0
      /\ \A j \in 1 .. b - a + 1 : r[j] = s[a + j - 1]
  BY <1>1, <1>2, SubSeqProperties
<1> HIDE DEF r
<1>4. Len(r) = b - a + 1
  BY <1>1, <1>3
<1> QED BY <1>3, <1>4 DEF r

LEMMA PutAtElements ==
  ASSUME NEW S, NEW s \in Seq(S), NEW k \in 0 .. Len(s), NEW t \in S,
         NEW r, r = PutAt(s, k, t)
  PROVE  r \in Seq(S) /\ Len(r) = Len(s) + 1 /\ HasPut(r, s, k, t)
<1> DEFINE front == SubSeq(s, 1, k)
           one == <<t>>
           back == SubSeq(s, k + 1, Len(s))
           both == front \o one
           u == both \o back
<1>1. Len(s) \in Nat /\ k \in Int
  OBVIOUS
<1>2. /\ front \in Seq(S) /\ Len(front) = k - 1 + 1
      /\ \A j \in 1 .. k - 1 + 1 : front[j] = s[1 + j - 1]
  <2>1. 1 \in 1 .. Len(s) + 1 /\ 1 <= k + 1
    BY <1>1
  <2> HIDE DEF front
  <2> QED BY <2>1, SubSeqElements DEF front
<1>3. /\ back \in Seq(S) /\ Len(back) = Len(s) - (k + 1) + 1
      /\ \A j \in 1 .. Len(s) - (k + 1) + 1 : back[j] = s[k + 1 + j - 1]
  <2>1. k + 1 \in 1 .. Len(s) + 1 /\ Len(s) \in 0 .. Len(s) /\ k + 1 <= Len(s) + 1
    BY <1>1
  <2> HIDE DEF back
  <2> QED BY <2>1, SubSeqElements DEF back
<1>4. one \in Seq(S) /\ Len(one) = 1 /\ one[1] = t
  OBVIOUS
<1> HIDE DEF front, back, one
<1>5. /\ both \in Seq(S) /\ Len(both) = Len(front) + Len(one)
      /\ \A j \in 1 .. Len(front) + Len(one) :
           both[j] = IF j <= Len(front) THEN front[j] ELSE one[j - Len(front)]
  BY <1>2, <1>4, ConcatProperties
<1> HIDE DEF both
<1>6. /\ u \in Seq(S) /\ Len(u) = Len(both) + Len(back)
      /\ \A j \in 1 .. Len(both) + Len(back) :
           u[j] = IF j <= Len(both) THEN both[j] ELSE back[j - Len(both)]
  <2>1. both \in Seq(S) /\ back \in Seq(S)
    BY <1>3, <1>5
  <2> QED BY <2>1, ConcatProperties
<1>7. Len(front) = k /\ Len(both) = k + 1 /\ Len(back) = Len(s) - k
  BY <1>1, <1>2, <1>3, <1>4, <1>5
<1>8. r = u
  BY DEF PutAt, front, one, back, both
<1> HIDE DEF u
<1>9. ASSUME NEW j \in 1 .. Len(s) + 1
      PROVE  u[j] = IF j <= k THEN s[j] ELSE IF j = k + 1 THEN t ELSE s[j - 1]
  <2>1. CASE j <= k
    <3>1. u[j] = both[j] /\ both[j] = front[j]
      BY <1>1, <1>4, <1>5, <1>6, <1>7, <2>1
    <3>2. front[j] = s[j]
      BY <1>1, <1>2, <2>1
    <3> QED BY <2>1, <3>1, <3>2
  <2>2. CASE j = k + 1
    <3>1. ~(j <= Len(front)) /\ j - Len(front) = 1 /\ j <= Len(both)
          /\ j \in 1 .. Len(front) + Len(one) /\ j \in 1 .. Len(both) + Len(back)
      BY <1>1, <1>4, <1>7, <2>2
    <3>2. u[j] = both[j] /\ both[j] = one[1]
      BY <1>5, <1>6, <3>1
    <3> QED BY <1>1, <1>4, <2>2, <3>2
  <2>3. CASE j > k + 1
    <3>0. ~(j <= Len(both)) /\ j \in 1 .. Len(both) + Len(back)
      BY <1>1, <1>7, <2>3
    <3>1. u[j] = back[j - (k + 1)]
      BY <1>6, <1>7, <3>0
    <3>2. j - (k + 1) \in 1 .. Len(s) - (k + 1) + 1 /\ k + 1 + (j - (k + 1)) - 1 = j - 1
      BY <1>1, <2>3
    <3>3. back[j - (k + 1)] = s[j - 1]
      BY <1>3, <3>2
    <3> QED BY <1>1, <2>3, <3>1, <3>3
  <2> QED BY <1>1, <2>1, <2>2, <2>3
<1>10. u \in Seq(S) /\ Len(u) = Len(s) + 1
  BY <1>1, <1>6, <1>7
<1>11. HasPut(r, s, k, t)
  BY <1>8, <1>9 DEF HasPut
<1> QED BY <1>8, <1>10, <1>11

LEMMA WithoutElements ==
  ASSUME NEW S, NEW s \in Seq(S), NEW i \in 1 .. Len(s)
  PROVE  /\ Without(s, i) \in Seq(S) /\ Len(Without(s, i)) = Len(s) - 1
         /\ \A j \in 1 .. Len(s) - 1 : Without(s, i)[j] = IF j < i THEN s[j] ELSE s[j + 1]
<1> DEFINE front == SubSeq(s, 1, i - 1)
           back == SubSeq(s, i + 1, Len(s))
           r == front \o back
<1>1. Len(s) \in Nat /\ i \in Int
  OBVIOUS
<1>2. /\ front \in Seq(S) /\ Len(front) = i - 1 - 1 + 1
      /\ \A j \in 1 .. i - 1 - 1 + 1 : front[j] = s[1 + j - 1]
  <2>1. 1 \in 1 .. Len(s) + 1 /\ i - 1 \in 0 .. Len(s) /\ 1 <= i - 1 + 1
    BY <1>1
  <2> HIDE DEF front
  <2> QED BY <2>1, SubSeqElements DEF front
<1>3. /\ back \in Seq(S) /\ Len(back) = Len(s) - (i + 1) + 1
      /\ \A j \in 1 .. Len(s) - (i + 1) + 1 : back[j] = s[i + 1 + j - 1]
  <2>1. i + 1 \in 1 .. Len(s) + 1 /\ Len(s) \in 0 .. Len(s) /\ i + 1 <= Len(s) + 1
    BY <1>1
  <2> HIDE DEF back
  <2> QED BY <2>1, SubSeqElements DEF back
<1> HIDE DEF front, back
<1>4. /\ r \in Seq(S) /\ Len(r) = Len(front) + Len(back)
      /\ \A j \in 1 .. Len(front) + Len(back) :
           r[j] = IF j <= Len(front) THEN front[j] ELSE back[j - Len(front)]
  BY <1>2, <1>3, ConcatProperties
<1>5. Without(s, i) = r
  BY DEF Without, front, back
<1> HIDE DEF r
<1>6. Len(front) = i - 1 /\ Len(r) = Len(s) - 1
  BY <1>1, <1>2, <1>3, <1>4
<1>7. ASSUME NEW j \in 1 .. Len(s) - 1
      PROVE  r[j] = IF j < i THEN s[j] ELSE s[j + 1]
  <2>1. CASE j < i
    <3>1. j \in 1 .. i - 1 - 1 + 1 /\ 1 + j - 1 = j /\ j <= Len(front)
          /\ j \in 1 .. Len(front) + Len(back)
      BY <1>1, <1>4, <1>6, <2>1
    <3>2. r[j] = front[j] /\ front[j] = s[j]
      BY <1>2, <1>4, <3>1
    <3> QED BY <2>1, <3>2
  <2>2. CASE j >= i
    <3>0. ~(j <= Len(front)) /\ j \in 1 .. Len(front) + Len(back)
      BY <1>1, <1>4, <1>6, <2>2
    <3>1. r[j] = back[j - (i - 1)]
      BY <1>4, <1>6, <3>0
    <3>2. j - (i - 1) \in 1 .. Len(s) - (i + 1) + 1 /\ i + 1 + (j - (i - 1)) - 1 = j + 1
      BY <1>1, <2>2
    <3>3. back[j - (i - 1)] = s[j + 1]
      BY <1>3, <3>2
    <3> QED BY <1>1, <2>2, <3>1, <3>3
  <2> QED BY <1>1, <2>1, <2>2
<1> QED BY <1>4, <1>5, <1>6, <1>7

\* Turned by one place.
LEMMA TurnedElements ==
  ASSUME NEW S, NEW s \in Seq(S), Len(s) > 0
  PROVE  /\ Turned(s, 1) \in Seq(S) /\ Len(Turned(s, 1)) = Len(s)
         /\ \A j \in 1 .. Len(s) : Turned(s, 1)[j] = s[After(j, Len(s))]
<1> DEFINE front == SubSeq(s, 2, Len(s))
           back == SubSeq(s, 1, 1)
           r == front \o back
<1>1. Len(s) \in Nat \ {0}
  OBVIOUS
<1>2. /\ front \in Seq(S) /\ Len(front) = Len(s) - 2 + 1
      /\ \A j \in 1 .. Len(s) - 2 + 1 : front[j] = s[2 + j - 1]
  <2>1. 2 \in 1 .. Len(s) + 1 /\ Len(s) \in 0 .. Len(s) /\ 2 <= Len(s) + 1
    BY <1>1
  <2> HIDE DEF front
  <2> QED BY <2>1, SubSeqElements DEF front
<1>3. /\ back \in Seq(S) /\ Len(back) = 1 - 1 + 1
      /\ \A j \in 1 .. 1 - 1 + 1 : back[j] = s[1 + j - 1]
  <2>1. 1 \in 1 .. Len(s) + 1 /\ 1 \in 0 .. Len(s) /\ 1 <= 1 + 1
    BY <1>1
  <2> HIDE DEF back
  <2> QED BY <2>1, SubSeqElements DEF back
<1> HIDE DEF front, back
<1>4. /\ r \in Seq(S) /\ Len(r) = Len(front) + Len(back)
      /\ \A j \in 1 .. Len(front) + Len(back) :
           r[j] = IF j <= Len(front) THEN front[j] ELSE back[j - Len(front)]
  BY <1>2, <1>3, ConcatProperties
<1>5. Turned(s, 1) = r
  <2>1. 1 + 1 = 2
    OBVIOUS
  <2> QED BY <2>1 DEF Turned, front, back
<1> HIDE DEF r
<1>6. Len(front) = Len(s) - 1 /\ Len(r) = Len(s)
  BY <1>1, <1>2, <1>3, <1>4
<1>7. ASSUME NEW j \in 1 .. Len(s)
      PROVE  r[j] = s[After(j, Len(s))]
  <2>1. CASE j = Len(s)
    <3>1. r[j] = back[1] /\ back[1] = s[1]
      BY <1>1, <1>2, <1>3, <1>4, <1>6, <2>1
    <3> QED BY <2>1, <3>1 DEF After
  <2>2. CASE j # Len(s)
    <3>1. r[j] = front[j]
      BY <1>1, <1>2, <1>3, <1>4, <1>6, <2>2
    <3>2. j \in 1 .. Len(s) - 2 + 1 /\ 2 + j - 1 = j + 1
      BY <1>1, <2>2
    <3>3. front[j] = s[j + 1]
      BY <1>2, <3>2
    <3> QED BY <2>2, <3>1, <3>3 DEF After
  <2> QED BY <2>1, <2>2
<1> QED BY <1>4, <1>5, <1>6, <1>7
-----------------------------------------------------------------------------
(* The operations on the list's memory.                                    *)

LEMMA RingSpells ==
  ASSUME NEW m, NEW hd, NEW n, NEW f, Ring(m, hd, n, f), NEW s, s = Spelled(m, n, f)
  PROVE  /\ n \in Nat \ {0} /\ f \in [1 .. n -> DOMAIN m]
         /\ s \in Seq(Tcbs) /\ Len(s) = n
         /\ \A k \in 1 .. n : s[k] = m[f[k]].tcb
<1>1. n \in Nat \ {0} /\ f \in [1 .. n -> DOMAIN m] /\ m \in [DOMAIN m -> Node(DOMAIN m)]
  BY DEF Ring
<1>2. ASSUME NEW k \in 1 .. n PROVE m[f[k]].tcb \in Tcbs
  BY <1>1 DEF Node
<1>3. s \in [1 .. n -> Tcbs] /\ \A k \in 1 .. n : s[k] = m[f[k]].tcb
  BY <1>2 DEF Spelled
<1> QED BY <1>1, <1>3, FunctionIsSeq

\* The same threads at the same places.
LEMMA SpelledIs ==
  ASSUME NEW m, NEW hd, NEW n, NEW f, Ring(m, hd, n, f),
         NEW r \in Seq(Tcbs), Len(r) = n, \A k \in 1 .. n : r[k] = m[f[k]].tcb
  PROVE  Spells(m, hd, r)
<1>1. PICK s : s = Spelled(m, n, f)
  OBVIOUS
<1>2. s \in Seq(Tcbs) /\ Len(s) = n /\ \A k \in 1 .. n : s[k] = m[f[k]].tcb
  BY <1>1, RingSpells
<1>3. \A k \in 1 .. Len(r) : r[k] = s[k]
  BY <1>2
<1>4. r = s
  BY <1>2, <1>3, SeqEqual
<1> QED BY <1>1, <1>4 DEF Spells

LEMMA EndOfRing ==
  ASSUME NEW n, NEW f, Ring(mem, head, n, f)
  PROVE  /\ Closed(mem) /\ f[n] = head /\ head \in DOMAIN mem
         /\ f[1] = tail /\ tail \in DOMAIN mem /\ mem[tail].prev = head
         /\ tail = head <=> n = 1
         /\ \A y \in DOMAIN mem : mem[y].next \in DOMAIN mem /\ (mem[y].next = y <=> n = 1)
<1>1. /\ n \in Nat \ {0} /\ n \in 1 .. n /\ 1 \in 1 .. n /\ After(n, n) = 1
      /\ f[n] = head /\ f \in [1 .. n -> DOMAIN mem] /\ Closed(mem)
      /\ \A j, k \in 1 .. n : f[j] = f[k] => j = k
      /\ \A y \in DOMAIN mem : \E k \in 1 .. n : f[k] = y
  BY DEF Ring, Closed, After
<1>2. mem[head].next = f[1] /\ mem[f[1]].prev = head
  BY <1>1 DEF Ring
<1>3. ASSUME NEW y \in DOMAIN mem
      PROVE  mem[y].next \in DOMAIN mem /\ (mem[y].next = y <=> n = 1)
  <2>1. PICK k \in 1 .. n : f[k] = y
    BY <1>1
  <2>2. mem[y].next = f[After(k, n)] /\ After(k, n) \in 1 .. n
    BY <1>1, <2>1, AfterIsPlace DEF Ring
  <2>3. f[After(k, n)] = f[k] <=> After(k, n) = k
    BY <1>1, <2>2
  <2>4. After(k, n) = k <=> n = 1
    BY <1>1 DEF After
  <2> QED BY <1>1, <2>1, <2>2, <2>3, <2>4
<1>4. f[1] = f[n] <=> n = 1
  BY <1>1
<1> QED BY <1>1, <1>2, <1>3, <1>4 DEF tail

\* q is the list s of nodes f with a node x for t linked in before the i-th, y.
LinksIn(q, n, f, s, i, y, x, t) ==
  /\ Ring(mem, head, n, f) /\ s = Spelled(mem, n, f)
  /\ i \in 1 .. n /\ y = f[i] /\ x \in Unused /\ t \in Tcbs
  /\ q = Linked(x, t, mem[y].prev, y)

\* Linked in before the tail, the new node can be the head.
LEMMA LinkedSpells ==
  ASSUME NEW q, NEW n, NEW f, NEW s, NEW i, NEW y, NEW x, NEW t, LinksIn(q, n, f, s, i, y, x, t)
  PROVE  /\ Spells(q, head, PutBefore(s, i, t))
         /\ i = 1 => Spells(q, x, Append(s, t))
         /\ DOMAIN q = DOMAIN mem \cup {x}
<1>0. /\ Ring(mem, head, n, f) /\ s = Spelled(mem, n, f)
      /\ i \in 1 .. n /\ y = f[i] /\ x \in Unused /\ t \in Tcbs
      /\ q = Linked(x, t, mem[y].prev, y)
  BY DEF LinksIn
<1>1. q = Inserted(mem, x, t, mem[y].prev, y) /\ x \notin DOMAIN mem
  BY <1>0 DEF Linked, Allocated, Inserted, Unused
<1>2. /\ Grown(q, head, n, f, i, x)
      /\ DOMAIN q = DOMAIN mem \cup {x} /\ SameTcbs(q, mem) /\ q[x].tcb = t
  <2>1. InsertsBefore(q, mem, head, n, f, i, x, t, y)
    BY <1>0, <1>1 DEF InsertsBefore
  <2>2. Grown(q, head, n, f, i, x) /\ Added(q, mem, x, t)
    BY <2>1, RingInsert
  <2> QED BY <2>2 DEF Added
<1>3. PICK g : Ring(q, head, n + 1, g) /\ WithPlace(g, n, f, i, x)
  BY <1>2 DEF Grown
<1>4. /\ n \in Nat \ {0} /\ f \in [1 .. n -> DOMAIN mem] /\ s \in Seq(Tcbs) /\ Len(s) = n
      /\ \A k \in 1 .. n : s[k] = mem[f[k]].tcb
  BY <1>0, RingSpells
<1>5. \A k \in 1 .. n : q[f[k]].tcb = s[k]
  BY <1>2, <1>4 DEF SameTcbs
<1>6. Spells(q, head, PutBefore(s, i, t))
  <2>1. PICK r : r = PutBefore(s, i, t)
    OBVIOUS
  <2>2. PICK k0 \in 0 .. Len(s) : k0 = i - 1
    BY <1>0, <1>4
  <2>3. /\ r \in Seq(Tcbs) /\ Len(r) = n + 1
        /\ \A j \in 1 .. n + 1 : r[j] = IF j <= k0 THEN s[j] ELSE IF j = k0 + 1 THEN t ELSE s[j - 1]
    <3>1. r = PutAt(s, k0, t) /\ s \in Seq(Tcbs)
      BY <1>0, <1>4, <2>1, <2>2 DEF PutBefore
    <3>2. r \in Seq(Tcbs) /\ Len(r) = Len(s) + 1 /\ HasPut(r, s, k0, t)
      BY <1>0, <3>1, PutAtElements
    <3> QED BY <1>0, <1>4, <3>2 DEF HasPut
  <2>4. ASSUME NEW k \in 1 .. n + 1 PROVE r[k] = q[g[k]].tcb
    <3>1. g[k] = IF k < i THEN f[k] ELSE IF k = i THEN x ELSE f[k - 1]
      BY <1>3 DEF WithPlace
    <3>2. CASE k < i
      <4>1. k \in 1 .. n /\ k <= k0
        BY <1>0, <1>4, <2>2, <3>2
      <4> QED BY <1>5, <2>3, <3>1, <3>2, <4>1
    <3>3. CASE k = i
      <4>1. k = k0 + 1 /\ ~(k <= k0)
        BY <1>0, <1>4, <2>2, <3>3
      <4> QED BY <1>2, <2>3, <3>1, <3>3, <4>1
    <3>4. CASE k > i
      <4>1. k - 1 \in 1 .. n /\ ~(k <= k0) /\ k # k0 + 1 /\ ~(k < i) /\ k # i
        BY <1>0, <1>4, <2>2, <3>4
      <4> QED BY <1>5, <2>3, <3>1, <4>1
    <3> QED BY <1>0, <1>4, <3>2, <3>3, <3>4
  <2>5. Spells(q, head, r)
    BY <1>3, <2>3, <2>4, SpelledIs
  <2> QED BY <2>1, <2>5
<1>7. ASSUME i = 1 PROVE Spells(q, x, Append(s, t))
  <2>1. g[1] = x /\ \A k \in 1 .. n : g[k + 1] = f[k]
    <3>1. g[1] = x
      BY <1>0, <1>3, <1>4, <1>7 DEF WithPlace
    <3>2. ASSUME NEW k \in 1 .. n PROVE g[k + 1] = f[k]
      <4>1. k + 1 \in 1 .. n + 1 /\ ~(k + 1 < i) /\ k + 1 # i /\ (k + 1) - 1 = k
        BY <1>0, <1>4, <1>7
      <4> QED BY <1>3, <4>1 DEF WithPlace
    <3> QED BY <3>1, <3>2
  <2>2. PICK h : Ring(q, g[1], n + 1, h) /\ \A k \in 1 .. n + 1 : h[k] = g[After(k, n + 1)]
    BY <1>3, RingTurned
  <2>3. PICK r : r = Append(s, t)
    OBVIOUS
  <2>4. /\ r \in Seq(Tcbs) /\ Len(r) = n + 1
        /\ \A k \in 1 .. n : r[k] = s[k]
        /\ r[n + 1] = t
    <3>1. /\ Append(s, t) \in Seq(Tcbs) /\ Len(Append(s, t)) = Len(s) + 1
          /\ \A k \in 1 .. Len(s) : Append(s, t)[k] = s[k]
          /\ Append(s, t)[Len(s) + 1] = t
      BY <1>0, <1>4, AppendProperties
    <3> QED BY <1>0, <1>4, <2>3, <3>1
  <2>5. ASSUME NEW k \in 1 .. n + 1 PROVE r[k] = q[h[k]].tcb
    <3>1. CASE k = n + 1
      <4>1. After(k, n + 1) = 1
        BY <3>1 DEF After
      <4> QED BY <1>2, <2>1, <2>2, <2>4, <3>1, <4>1
    <3>2. CASE k # n + 1
      <4>1. k \in 1 .. n /\ After(k, n + 1) = k + 1
        BY <1>0, <1>4, <3>2 DEF After
      <4> QED BY <1>5, <2>1, <2>2, <2>4, <4>1
    <3> QED BY <3>1, <3>2
  <2>6. Ring(q, x, n + 1, h)
    BY <2>1, <2>2
  <2>7. Spells(q, x, r)
    BY <2>4, <2>5, <2>6, SpelledIs
  <2> QED BY <2>3, <2>7
<1> QED BY <1>2, <1>6, <1>7

\* The i-th node taken out of at least two; without the head, its tail is the head.
LEMMA UnlinkedSpells ==
  ASSUME NEW n, NEW f, Ring(mem, head, n, f), n # 1, NEW s, s = Spelled(mem, n, f),
         NEW i \in 1 .. n, NEW y \in DOMAIN mem, y = f[i],
         NEW q, q = Unlinked(y, mem[y].prev, mem[y].next)
  PROVE  /\ i # n => Spells(q, head, Without(s, i))
         /\ i = n => Spells(q, f[1], Turned(Without(s, n), 1))
         /\ DOMAIN q = DOMAIN mem \ {y}
<1>1. q = Removed(mem, y, mem[y].prev, mem[y].next)
  BY DEF Unlinked, Removed
<1>2. /\ n \in Nat \ {0} /\ f \in [1 .. n -> DOMAIN mem] /\ s \in Seq(Tcbs) /\ Len(s) = n
      /\ \A k \in 1 .. n : s[k] = mem[f[k]].tcb
  BY RingSpells
<1>3. \A j, k \in 1 .. n : f[j] = f[k] => j = k
  BY DEF Ring
<1>4. CASE i # n
  <2>1. /\ Shrunk(q, head, n, f, i)
        /\ DOMAIN q = DOMAIN mem \ {y} /\ SameTcbs(q, mem)
    BY <1>1, <1>4, RingRemove
  <2>2. PICK g : Ring(q, head, n - 1, g) /\ WithoutPlace(g, n, f, i)
    BY <2>1 DEF Shrunk
  <2>3. PICK r : r = Without(s, i)
    OBVIOUS
  <2>4. /\ r \in Seq(Tcbs) /\ Len(r) = n - 1
        /\ \A j \in 1 .. n - 1 : r[j] = IF j < i THEN s[j] ELSE s[j + 1]
    <3>1. /\ Without(s, i) \in Seq(Tcbs) /\ Len(Without(s, i)) = Len(s) - 1
          /\ \A j \in 1 .. Len(s) - 1 : Without(s, i)[j] = IF j < i THEN s[j] ELSE s[j + 1]
      <4>1. s \in Seq(Tcbs) /\ i \in 1 .. Len(s)
        BY <1>2
      <4> QED BY <4>1, WithoutElements
    <3> QED BY <1>2, <2>3, <3>1
  <2>5. ASSUME NEW k \in 1 .. n - 1 PROVE r[k] = q[g[k]].tcb
    <3>1. PICK j \in 1 .. n : j = IF k < i THEN k ELSE k + 1
      BY <1>2
    <3>2. j # i /\ f[j] # y
      BY <1>2, <1>3, <3>1
    <3>3. g[k] = f[j] /\ r[k] = s[j]
      BY <2>2, <2>4, <3>1 DEF WithoutPlace
    <3>4. q[f[j]].tcb = mem[f[j]].tcb
      BY <1>2, <2>1, <3>2 DEF SameTcbs
    <3> QED BY <1>2, <3>3, <3>4
  <2>6. Spells(q, head, r)
    BY <2>2, <2>4, <2>5, SpelledIs
  <2> QED BY <1>4, <2>1, <2>3, <2>6
<1>5. CASE i = n
  <2>1. PICK e : Ring(mem, f[1], n, e) /\ \A k \in 1 .. n : e[k] = f[After(k, n)]
    BY RingTurned
  <2>2. PICK i1 \in 1 .. n : i1 = n - 1 /\ i1 # n
    BY <1>2
  <2>3. y = e[i1]
    BY <1>2, <1>5, <2>1, <2>2 DEF After
  <2>4. /\ Shrunk(q, f[1], n, e, i1)
        /\ DOMAIN q = DOMAIN mem \ {y} /\ SameTcbs(q, mem)
    <3>1. PICK hd : hd = f[1]
      OBVIOUS
    <3>2. Ring(mem, hd, n, e)
      BY <2>1, <3>1
    <3>3. Shrunk(q, hd, n, e, i1) /\ DOMAIN q = DOMAIN mem \ {y} /\ SameTcbs(q, mem)
      BY <1>1, <2>2, <2>3, <3>2, RingRemove
    <3> QED BY <3>1, <3>3
  <2>5. PICK g : Ring(q, f[1], n - 1, g) /\ WithoutPlace(g, n, e, i1)
    BY <2>4 DEF Shrunk
  <2>6. PICK w : w = Without(s, n)
    OBVIOUS
  <2>7. w \in Seq(Tcbs) /\ Len(w) = n - 1 /\ \A j \in 1 .. n - 1 : w[j] = s[j]
    <3>1. /\ w \in Seq(Tcbs) /\ Len(w) = n - 1
          /\ \A j \in 1 .. n - 1 : w[j] = IF j < n THEN s[j] ELSE s[j + 1]
      <4>1. /\ Without(s, n) \in Seq(Tcbs) /\ Len(Without(s, n)) = Len(s) - 1
            /\ \A j \in 1 .. Len(s) - 1 : Without(s, n)[j] = IF j < n THEN s[j] ELSE s[j + 1]
        <5>1. n \in 1 .. Len(s)
          BY <1>2
        <5> QED BY <1>2, <5>1, WithoutElements
      <4> QED BY <1>2, <2>6, <4>1
    <3> QED BY <1>2, <3>1
  <2>8. PICK r : r = Turned(w, 1)
    OBVIOUS
  <2>9. r \in Seq(Tcbs) /\ Len(r) = n - 1 /\ \A j \in 1 .. n - 1 : r[j] = w[After(j, n - 1)]
    <3>1. Len(w) > 0
      BY <1>2, <2>7
    <3> QED BY <2>7, <2>8, <3>1, TurnedElements
  <2>10. ASSUME NEW k \in 1 .. n - 1 PROVE r[k] = q[g[k]].tcb
    <3>1. PICK j \in 1 .. n - 1 : j = After(k, n - 1)
      BY <1>2 DEF After
    <3>2. j \in 1 .. n /\ j # n /\ f[j] # y
      BY <1>2, <1>3, <1>5
    <3>3. r[k] = s[j]
      BY <2>7, <2>9, <3>1
    <3>4. g[k] = f[j]
      <4>1. g[k] = IF k < i1 THEN e[k] ELSE e[k + 1]
        BY <2>5 DEF WithoutPlace
      <4>2. CASE k = n - 1
        <5>1. ~(k < i1) /\ k + 1 = n /\ n \in 1 .. n /\ After(n, n) = 1 /\ j = 1
          BY <1>2, <2>2, <3>1, <4>2 DEF After
        <5> QED BY <2>1, <4>1, <5>1
      <4>3. CASE k # n - 1
        <5>1. k < i1 /\ k \in 1 .. n /\ After(k, n) = k + 1 /\ j = k + 1
          BY <1>2, <2>2, <3>1, <4>3 DEF After
        <5> QED BY <2>1, <4>1, <5>1
      <4> QED BY <4>2, <4>3
    <3>5. q[f[j]].tcb = mem[f[j]].tcb
      BY <1>2, <2>4, <3>2 DEF SameTcbs
    <3> QED BY <1>2, <3>2, <3>3, <3>4, <3>5
  <2>11. Spells(q, f[1], r)
    BY <2>5, <2>9, <2>10, SpelledIs
  <2> QED BY <1>5, <2>4, <2>6, <2>8, <2>11
<1> QED BY <1>4, <1>5
\* The loop of enqueueByQuanta finds a node when the head has more quanta.
LEMMA FirstOvertakenIsNode ==
  ASSUME NEW n, NEW f, Ring(mem, head, n, f), NEW t \in Tcbs, t.quantaCount < quantaCount(head)
  PROVE  \E i \in 1 .. n : /\ FirstOvertaken(t) = f[i] /\ Overtakes(t, f[i])
                           /\ \A j \in 1 .. i - 1 : ~Overtakes(t, f[j])
<1>1. DOMAIN Walk = 1 .. n /\ \A k \in 1 .. n : Walk[k] = f[k]
  BY WalkIsRing
<1>2. n \in Nat \ {0} /\ f \in [1 .. n -> DOMAIN mem] /\ f[n] = head
  BY DEF Ring
<1> DEFINE Overtaken == {k \in 1 .. n : Overtakes(t, Walk[k])}
<1>3. Overtaken \in SUBSET Nat /\ n \in Overtaken
  BY <1>1, <1>2 DEF Overtakes
<1>4. PICK k \in Overtaken : \A j \in Overtaken : ~ (<<j, k>> \in OpToRel(<, Nat))
  <2>1. IsWellFoundedOn(OpToRel(<, Nat), Nat)
    BY NatLessThanWellFounded
  <2> HIDE DEF Overtaken
  <2> QED BY <1>3, <2>1, WFMin
<1>5. k \in 1 .. n /\ Overtakes(t, Walk[k])
  BY <1>4
<1>6. ASSUME NEW j \in 1 .. k - 1 PROVE ~ Overtakes(t, Walk[j])
  <2>1. j \in 1 .. n /\ j \in Nat /\ k \in Nat /\ j < k
    BY <1>2, <1>5
  <2>2. <<j, k>> \in {ss \in Nat \X Nat : ss[1] < ss[2]}
    BY <2>1
  <2>3. j \notin Overtaken
    <3> HIDE DEF Overtaken
    <3> QED BY <1>4, <2>2 DEF OpToRel
  <2> QED BY <2>1, <2>3
<1>7. \E i \in DOMAIN Walk : /\ Overtakes(t, Walk[i])
                             /\ \A j \in 1 .. i - 1 : ~Overtakes(t, Walk[j])
  BY <1>1, <1>5, <1>6
<1>8. PICK i \in DOMAIN Walk : /\ FirstOvertaken(t) = Walk[i] /\ Overtakes(t, Walk[i])
                               /\ \A j \in 1 .. i - 1 : ~Overtakes(t, Walk[j])
  BY <1>7 DEF FirstOvertaken
<1>9. i \in 1 .. n /\ FirstOvertaken(t) = f[i] /\ Overtakes(t, f[i])
  BY <1>1, <1>8
<1>10. ASSUME NEW j \in 1 .. i - 1 PROVE ~ Overtakes(t, f[j])
  <2>1. j \in 1 .. n
    BY <1>2, <1>9
  <2> QED BY <1>1, <1>8, <2>1
<1> QED BY <1>9, <1>10

-----------------------------------------------------------------------------
(* The list as a queue.                                                    *)

\* The threads of a list are those of its nodes.
LEMMA ListMembers ==
  ASSUME NEW s, IsList(mem, head, s)
  PROVE  /\ s \in Seq(Tcbs)
         /\ \A k \in 1 .. Len(s) : \E y \in DOMAIN mem : s[k] = mem[y].tcb
         /\ \A y \in DOMAIN mem : \E k \in 1 .. Len(s) : s[k] = mem[y].tcb
<1>1. CASE mem = <<>> /\ s = <<>>
  <2>1. s \in Seq(Tcbs) /\ Len(s) = 0 /\ DOMAIN mem = {}
    BY <1>1
  <2> QED BY <2>1
<1>2. CASE Spells(mem, head, s)
  <2>1. PICK n, f : Ring(mem, head, n, f) /\ s = Spelled(mem, n, f)
    BY <1>2 DEF Spells
  <2>2. /\ f \in [1 .. n -> DOMAIN mem] /\ s \in Seq(Tcbs) /\ Len(s) = n
        /\ \A k \in 1 .. n : s[k] = mem[f[k]].tcb
    BY <2>1, RingSpells
  <2>3. \A y \in DOMAIN mem : \E k \in 1 .. n : f[k] = y
    BY <2>1 DEF Ring
  <2> QED BY <2>2, <2>3
<1> QED BY <1>1, <1>2 DEF IsList

LEMMA QueuedIs == \A s : IsList(mem, head, s) => Queued = s
<1> SUFFICES ASSUME NEW s, IsList(mem, head, s) PROVE Queued = s
  OBVIOUS
<1>1. CASE mem = <<>> /\ s = <<>>
  <2>1. DOMAIN mem = {} /\ s = <<>>
    BY <1>1
  <2>2. Cardinality(DOMAIN mem) = 0
    BY <2>1, FS_EmptySet
  <2> QED BY <2>1, <2>2 DEF Queued
<1>2. CASE Spells(mem, head, s)
  <2>1. PICK n, f : Ring(mem, head, n, f) /\ s = Spelled(mem, n, f)
    BY <1>2 DEF Spells
  <2>2. Cardinality(DOMAIN mem) = n /\ \A k \in 1 .. n : Walk[k] = f[k]
    BY <2>1, WalkIsRing
  <2> QED BY <2>1, <2>2 DEF Queued, Spelled
<1> QED BY <1>1, <1>2 DEF IsList

LEMMA QueuedIsNext == (\A s : IsList(mem, head, s) => Queued = s)'
BY QueuedIs, PTL

\* What a step has to leave.
LEMMA Becomes ==
  ASSUME NEW s, IsList(mem', head', s), DOMAIN mem' \subseteq Nodes,
         result' \in Tcbs \cup {NULL}, use' = "ready" => Sorted(s)
  PROVE  ListInv' /\ Queued' = s
<1>1. IsList(mem, head, s)'
  BY DEF IsList, Spells, Spelled, Ring, Node
<1>2. Queued' = s
  BY <1>1, QueuedIsNext
<1> QED BY <1>1, <1>2 DEF ListInv

\* Where a thread is put by its quanta, the order stays.
LEMMA PutSorted ==
  ASSUME NEW s \in Seq(Tcbs), Sorted(s), NEW k \in 0 .. Len(s), NEW t \in Tcbs,
         \A i \in 1 .. k : s[i].quantaCount <= t.quantaCount,
         \A i \in k + 1 .. Len(s) : s[i].quantaCount > t.quantaCount
  PROVE  Sorted(PutAt(s, k, t))
<1>1. PICK r : r = PutAt(s, k, t)
  OBVIOUS
<1>2. Len(r) = Len(s) + 1 /\ HasPut(r, s, k, t)
  BY <1>1, PutAtElements
<1>3. \A i \in 1 .. Len(s) : s[i].quantaCount \in Nat
  <2> SUFFICES ASSUME NEW i \in 1 .. Len(s) PROVE s[i].quantaCount \in Nat
    OBVIOUS
  <2>1. s[i] \in Tcbs
    BY ElementOfSeq
  <2>2. s[i].quantaCount \in 0 .. MaxQuantaCount
    BY <2>1 DEF Tcbs
  <2> QED BY <2>2, QuantaAssumption
<1>4. t.quantaCount \in Nat /\ Len(s) \in Nat
  BY QuantaAssumption DEF Tcbs
<1>5. ASSUME NEW i \in 1 .. Len(s) + 1, NEW j \in 1 .. Len(s) + 1, i <= j
      PROVE  r[i].quantaCount <= r[j].quantaCount
  <2>1. \A l \in 1 .. Len(s) + 1 :
          r[l] = IF l <= k THEN s[l] ELSE IF l = k + 1 THEN t ELSE s[l - 1]
    BY <1>2 DEF HasPut
  <2>2. CASE j <= k
    <3>1. r[i] = s[i] /\ r[j] = s[j] /\ i \in 1 .. Len(s) /\ j \in 1 .. Len(s)
      BY <1>4, <1>5, <2>1, <2>2
    <3> QED BY <1>5, <3>1 DEF Sorted
  <2>3. CASE j = k + 1
    <3>1. r[j] = t
      BY <2>1, <2>3
    <3>2. CASE i = j
      BY <1>4, <3>1, <3>2
    <3>3. CASE i # j
      <4>1. r[i] = s[i] /\ i \in 1 .. k
        BY <1>4, <1>5, <2>1, <2>3, <3>3
      <4> QED BY <3>1, <4>1
    <3> QED BY <3>2, <3>3
  <2>4. CASE j > k + 1
    <3>1. r[j] = s[j - 1] /\ j - 1 \in k + 1 .. Len(s) /\ j - 1 \in 1 .. Len(s)
      BY <1>4, <2>1, <2>4
    <3>2. CASE i <= k
      <4>1. r[i] = s[i] /\ i \in 1 .. k /\ i \in 1 .. Len(s)
        BY <1>4, <2>1, <3>2
      <4>2. s[i].quantaCount <= t.quantaCount /\ s[j - 1].quantaCount > t.quantaCount
        BY <3>1, <4>1
      <4> QED BY <1>3, <1>4, <3>1, <4>1, <4>2
    <3>3. CASE i = k + 1
      <4>1. r[i] = t /\ s[j - 1].quantaCount > t.quantaCount
        BY <2>1, <3>1, <3>3
      <4> QED BY <1>3, <1>4, <3>1, <4>1
    <3>4. CASE i > k + 1
      <4>1. r[i] = s[i - 1] /\ i - 1 \in 1 .. Len(s) /\ i - 1 <= j - 1
        BY <1>4, <1>5, <2>1, <3>4
      <4> QED BY <3>1, <4>1 DEF Sorted
    <3> QED BY <1>4, <3>2, <3>3, <3>4
  <2> QED BY <1>4, <2>2, <2>3, <2>4
<1>6. Sorted(r)
  BY <1>2, <1>5 DEF Sorted
<1> QED BY <1>1, <1>6

LEMMA TailSorted ==
  ASSUME NEW s \in Seq(Tcbs), s # <<>>, Sorted(s)
  PROVE  Sorted(Tail(s))
<1>1. PICK r : r = Tail(s)
  OBVIOUS
<1>2. Len(r) = Len(s) - 1 /\ \A i \in 1 .. Len(r) : r[i] = s[i + 1]
  BY <1>1, HeadTailProperties
<1>3. ASSUME NEW i \in 1 .. Len(r), NEW j \in 1 .. Len(r), i <= j
      PROVE  r[i].quantaCount <= r[j].quantaCount
  <2>1. i + 1 \in 1 .. Len(s) /\ j + 1 \in 1 .. Len(s) /\ i + 1 <= j + 1
    BY <1>2, <1>3
  <2> QED BY <1>2, <2>1 DEF Sorted
<1> QED BY <1>1, <1>3 DEF Sorted

\* A removal of the first thread leaves the others.
LEMMA WithoutFirst ==
  ASSUME NEW s \in Seq(Tcbs), s # <<>>
  PROVE  Without(s, 1) = Tail(s)
<1>1. 1 \in 1 .. Len(s) /\ Len(s) \in Nat
  BY EmptySeq
<1>2. /\ Without(s, 1) \in Seq(Tcbs) /\ Len(Without(s, 1)) = Len(s) - 1
      /\ \A j \in 1 .. Len(s) - 1 : Without(s, 1)[j] = IF j < 1 THEN s[j] ELSE s[j + 1]
  BY <1>1, WithoutElements
<1>3. /\ Tail(s) \in Seq(Tcbs) /\ Len(Tail(s)) = Len(s) - 1
      /\ \A j \in 1 .. Len(Tail(s)) : Tail(s)[j] = s[j + 1]
  BY HeadTailProperties
<1>4. \A j \in 1 .. Len(s) - 1 : ~(j < 1)
  BY <1>1
<1> QED BY <1>2, <1>3, <1>4, SeqEqual

LEMMA ListedIs ==
  ASSUME NEW s, IsList(mem, head, s), NEW tid
  PROVE  Listed(tid) <=> \E i \in 1 .. Len(s) : s[i].tid = tid
BY ListMembers DEF Listed

\* A list that is not empty is one ring, and the last thread is that of the head.
LEMMA ListIsRing ==
  ASSUME NEW s, IsList(mem, head, s), head # NULL
  PROVE  \E n, f : Ring(mem, head, n, f) /\ s = Spelled(mem, n, f)
BY DEF IsList, Spells

LEMMA EmptyIsList ==
  ASSUME NEW s, IsList(mem, head, s), head = NULL
  PROVE  mem = <<>> /\ s = <<>> /\ DOMAIN mem = {}
<1>1. mem = <<>> /\ s = <<>>
  BY DEF IsList
<1> QED BY <1>1

LEMMA AloneIsList ==
  ASSUME NEW n \in Nodes, NEW t \in Tcbs
  PROVE  IsList(Alone(n, t), n, <<t>>) /\ DOMAIN Alone(n, t) = {n}
<1>1. Spells(Alone(n, t), n, <<t>>) /\ DOMAIN Alone(n, t) = {n}
  BY RingOfOne DEF Alone
<1>2. n # NULL
  BY NullAssumption
<1> QED BY <1>1, <1>2 DEF IsList

-----------------------------------------------------------------------------
(* One operation on the ring is one on the queue.                          *)

LEMMA InitStep == Init => ListInv /\ Abstract!QueueInit
<1> SUFFICES ASSUME Init PROVE ListInv /\ Abstract!QueueInit
  OBVIOUS
<1>1. IsList(mem, head, <<>>) /\ use \in {"ready", "wait", "all"} /\ result = NULL
  BY DEF Init, IsList
<1>2. Sorted(<<>>)
  BY DEF Sorted
<1>3. Queued = <<>>
  BY <1>1, QueuedIs
<1>4. DOMAIN mem = {}
  BY DEF Init
<1>5. \E s : IsList(mem, head, s) /\ (use = "ready" => Sorted(s))
  BY <1>1, <1>2
<1>6. ListInv
  BY <1>1, <1>4, <1>5 DEF ListInv
<1> QED BY <1>1, <1>3, <1>6 DEF Abstract!QueueInit

LEMMA enqueueStep ==
  ASSUME ListInv, NEW t \in Tcbs, enqueue(t)
  PROVE  ListInv' /\ Abstract!Put(t)
<1>1. PICK s : IsList(mem, head, s)
  BY DEF ListInv
<1>2. Queued = s /\ s \in Seq(Tcbs) /\ DOMAIN mem \subseteq Nodes /\ result \in Tcbs \cup {NULL}
  BY <1>1, QueuedIs, ListMembers DEF ListInv
<1>3. PICK x \in Unused : /\ mem' = IF head = NULL THEN Alone(x, t) ELSE Linked(x, t, head, tail)
                          /\ head' = x
  BY DEF enqueue
<1>4. x \in Nodes /\ x # NULL
  BY NullAssumption DEF Unused
<1>5. use # "ready" /\ ~Listed(t.tid) /\ UNCHANGED <<use, result>>
  BY DEF enqueue
<1>6. PICK r : r = Append(s, t)
  OBVIOUS
<1>7. IsList(mem', head', r) /\ DOMAIN mem' \subseteq Nodes
  <2>1. CASE head = NULL
    <3>1. s = <<>>
      BY <1>1, <2>1, EmptyIsList
    <3>2. r = <<t>>
      BY <1>6, <3>1
    <3>3. IsList(Alone(x, t), x, <<t>>) /\ DOMAIN Alone(x, t) = {x}
      BY <1>4, AloneIsList
    <3> QED BY <1>3, <1>4, <2>1, <3>2, <3>3
  <2>2. CASE head # NULL
    <3>1. PICK n, f : Ring(mem, head, n, f) /\ s = Spelled(mem, n, f)
      BY <1>1, <2>2, ListIsRing
    <3>2. f[1] = tail /\ mem[tail].prev = head /\ 1 \in 1 .. n
      BY <3>1, EndOfRing, RingSpells
    <3>3. PICK q : q = Linked(x, t, mem[tail].prev, tail)
      OBVIOUS
    <3>4. PICK y : y = tail
      OBVIOUS
    <3>5. Spells(q, x, Append(s, t)) /\ DOMAIN q = DOMAIN mem \cup {x}
      <4>1. y = f[1] /\ q = Linked(x, t, mem[y].prev, y)
        BY <3>2, <3>3, <3>4
      <4>2. PICK i \in 1 .. n : i = 1
        BY <3>2
      <4>3. LinksIn(q, n, f, s, i, y, x, t)
        BY <3>1, <3>2, <4>1, <4>2 DEF LinksIn
      <4> QED BY <4>2, <4>3, LinkedSpells
    <3>6. mem' = q /\ head' = x
      BY <1>3, <2>2, <3>2, <3>3
    <3> QED BY <1>2, <1>4, <1>6, <3>5, <3>6 DEF IsList
  <2> QED BY <2>1, <2>2
<1>8. ListInv' /\ Queued' = r
  <2>1. result' \in Tcbs \cup {NULL} /\ use' # "ready"
    BY <1>2, <1>5
  <2> QED BY <1>7, <2>1, Becomes
<1>9. \A i \in 1 .. Len(s) : s[i].tid # t.tid
  BY <1>1, <1>5, ListedIs
<1> QED BY <1>2, <1>5, <1>6, <1>8, <1>9 DEF Abstract!Put, Abstract!Fresh

LEMMA dequeueStep ==
  ASSUME ListInv, dequeue
  PROVE  ListInv' /\ Abstract!Take
<1>1. PICK s : IsList(mem, head, s) /\ (use = "ready" => Sorted(s))
  BY DEF ListInv
<1>2. Queued = s /\ s \in Seq(Tcbs) /\ DOMAIN mem \subseteq Nodes
  BY <1>1, QueuedIs, ListMembers DEF ListInv
<1>3. use # "all" /\ use' = use
  BY DEF dequeue
<1>4. CASE head = NULL
  <2>1. s = <<>>
    BY <1>1, <1>4, EmptyIsList
  <2>2. result' = NULL /\ head' = head /\ mem' = mem
    BY <1>4 DEF dequeue
  <2>3. ListInv' /\ Queued' = s
    BY <1>1, <1>2, <1>3, <2>2, Becomes
  <2> QED BY <1>2, <1>3, <2>1, <2>2, <2>3 DEF Abstract!Take
<1>5. CASE head # NULL
  <2>1. PICK n, f : Ring(mem, head, n, f) /\ s = Spelled(mem, n, f)
    BY <1>1, <1>5, ListIsRing
  <2>2. /\ n \in Nat \ {0} /\ 1 \in 1 .. n /\ Len(s) = n
        /\ f[1] = tail /\ tail \in DOMAIN mem /\ mem[tail].prev = head /\ (tail = head <=> n = 1)
    BY <2>1, EndOfRing, RingSpells
  <2>3. s[1] = mem[tail].tcb
    BY <2>1, <2>2, RingSpells
  <2>4. s # <<>> /\ Head(s) = s[1] /\ s[1] \in Tcbs
    BY <1>2, <2>2, EmptySeq, HeadTailProperties, ElementOfSeq
  <2>5. result' = Head(s)
    BY <1>5, <2>3, <2>4 DEF dequeue
  <2>6. PICK r : r = Tail(s)
    OBVIOUS
  <2>7. IsList(mem', head', r) /\ DOMAIN mem' \subseteq Nodes
    <3>1. CASE n = 1
      <4>1. mem' = <<>> /\ head' = NULL
        BY <1>5, <2>2, <3>1 DEF dequeue
      <4>2. r = <<>>
        <5>1. Len(Tail(s)) = 0 /\ Tail(s) \in Seq(Tcbs)
          BY <1>2, <2>2, <2>4, <3>1, HeadTailProperties
        <5> QED BY <2>6, <5>1, EmptySeq
      <4>3. DOMAIN mem' = {}
        BY <4>1
      <4> QED BY <4>1, <4>2, <4>3 DEF IsList
    <3>2. CASE n # 1
      <4>1. PICK y \in DOMAIN mem : y = tail
        BY <2>2
      <4>2. PICK q : q = Unlinked(y, mem[y].prev, mem[y].next)
        OBVIOUS
      <4>3. Spells(q, head, Without(s, 1)) /\ DOMAIN q = DOMAIN mem \ {y}
        <5>1. PICK i \in 1 .. n : i = 1 /\ i # n /\ y = f[i]
          BY <2>2, <3>2, <4>1
        <5>2. Spells(q, head, Without(s, i)) /\ DOMAIN q = DOMAIN mem \ {y}
          BY <2>1, <3>2, <4>1, <4>2, <5>1, UnlinkedSpells
        <5> QED BY <5>1, <5>2
      <4>4. Without(s, 1) = r
        BY <1>2, <2>4, <2>6, WithoutFirst
      <4>5. mem' = q /\ head' = head
        BY <1>5, <2>2, <3>2, <4>1, <4>2 DEF dequeue
      <4> QED BY <1>2, <1>5, <4>3, <4>4, <4>5 DEF IsList
    <3> QED BY <3>1, <3>2
  <2>8. use' = "ready" => Sorted(r)
    BY <1>1, <1>2, <1>3, <2>4, <2>6, TailSorted
  <2>9. ListInv' /\ Queued' = r
    BY <2>4, <2>5, <2>7, <2>8, Becomes
  <2> QED BY <1>2, <1>3, <2>4, <2>5, <2>6, <2>9 DEF Abstract!Take
<1> QED BY <1>4, <1>5

LEMMA searchTcbStep ==
  ASSUME ListInv, NEW tid \in Tids, searchTcb(tid)
  PROVE  ListInv' /\ Abstract!Find(tid)
<1>1. PICK s : IsList(mem, head, s) /\ (use = "ready" => Sorted(s))
  BY DEF ListInv
<1>2. Queued = s /\ s \in Seq(Tcbs) /\ DOMAIN mem \subseteq Nodes
  BY <1>1, QueuedIs, ListMembers DEF ListInv
<1>3. use = "all" /\ UNCHANGED <<use, head, mem>>
  BY DEF searchTcb
<1>4. ListInv' /\ Queued' = s
  <2> SUFFICES result' \in Tcbs \cup {NULL}
    BY <1>1, <1>2, <1>3, Becomes
  <2>1. CASE Listed(tid)
    <3>1. PICK i \in 1 .. Len(s) : s[i] = mem[NodeOf(tid)].tcb
      BY <1>1, <2>1, ListMembers DEF NodeOf, Listed
    <3> QED BY <1>2, <2>1, <3>1, ElementOfSeq DEF searchTcb
  <2>2. CASE ~Listed(tid)
    BY <2>2 DEF searchTcb
  <2> QED BY <2>1, <2>2
<1>5. CASE Listed(tid)
  <2>1. NodeOf(tid) \in DOMAIN mem /\ mem[NodeOf(tid)].tcb.tid = tid
    BY <1>5 DEF NodeOf, Listed
  <2>2. PICK i \in 1 .. Len(s) : s[i] = mem[NodeOf(tid)].tcb
    BY <1>1, <2>1, ListMembers
  <2>3. result' = s[i] /\ s[i].tid = tid
    BY <1>5, <2>1, <2>2 DEF searchTcb
  <2> QED BY <1>2, <1>3, <1>4, <2>3 DEF Abstract!Find, Abstract!IsResult
<1>6. CASE ~Listed(tid)
  <2>1. result' = NULL
    BY <1>6 DEF searchTcb
  <2>2. ~ \E i \in 1 .. Len(s) : s[i].tid = tid
    BY <1>1, <1>6, ListedIs
  <2> QED BY <1>2, <1>3, <1>4, <2>1, <2>2 DEF Abstract!Find, Abstract!Has
<1> QED BY <1>5, <1>6

\* The place for t among the threads of s.
PlaceFor(s, k, t) ==
  /\ k \in 0 .. Len(s)
  /\ \A i \in 1 .. k : s[i].quantaCount <= t.quantaCount
  /\ \A i \in k + 1 .. Len(s) : s[i].quantaCount > t.quantaCount

\* A thread with as many quanta as the last one belongs behind all the others.
LEMMA LastPlace ==
  ASSUME NEW s \in Seq(Tcbs), s # <<>>, Sorted(s), NEW t \in Tcbs,
         t.quantaCount >= s[Len(s)].quantaCount
  PROVE  PlaceFor(s, Len(s), t)
<1>1. Len(s) \in 1 .. Len(s) /\ Len(s) \in Nat
  BY EmptySeq
<1>2. \A i \in 1 .. Len(s) : s[i].quantaCount \in Nat
  <2> SUFFICES ASSUME NEW i \in 1 .. Len(s) PROVE s[i].quantaCount \in Nat
    OBVIOUS
  <2>1. s[i] \in Tcbs
    BY ElementOfSeq
  <2> QED BY <2>1, QuantaAssumption DEF Tcbs
<1>3. t.quantaCount \in Nat
  BY QuantaAssumption DEF Tcbs
<1>4. ASSUME NEW i \in 1 .. Len(s) PROVE s[i].quantaCount <= t.quantaCount
  <2>1. s[i].quantaCount <= s[Len(s)].quantaCount
    <3>1. i <= Len(s)
      BY <1>1
    <3> QED BY <1>1, <3>1 DEF Sorted
  <2>2. s[i].quantaCount \in Nat /\ s[Len(s)].quantaCount \in Nat
    BY <1>1, <1>2
  <2> QED BY <1>3, <2>1, <2>2
<1>5. Len(s) + 1 .. Len(s) = {}
  BY <1>1
<1> QED BY <1>1, <1>4, <1>5 DEF PlaceFor

\* One ahead of the first thread with more quanta belongs just before it.
LEMMA PlaceAhead ==
  ASSUME NEW s \in Seq(Tcbs), Sorted(s), NEW t \in Tcbs, NEW i \in 1 .. Len(s),
         t.quantaCount < s[i].quantaCount,
         \A j \in 1 .. i - 1 : ~(t.quantaCount < s[j].quantaCount)
  PROVE  PlaceFor(s, i - 1, t)
<1>1. Len(s) \in Nat /\ i - 1 \in 0 .. Len(s) /\ (i - 1) + 1 = i
  OBVIOUS
<1>2. \A j \in 1 .. Len(s) : s[j].quantaCount \in Nat
  <2> SUFFICES ASSUME NEW j \in 1 .. Len(s) PROVE s[j].quantaCount \in Nat
    OBVIOUS
  <2>1. s[j] \in Tcbs
    BY ElementOfSeq
  <2> QED BY <2>1, QuantaAssumption DEF Tcbs
<1>3. t.quantaCount \in Nat
  BY QuantaAssumption DEF Tcbs
<1>4. ASSUME NEW j \in 1 .. i - 1 PROVE s[j].quantaCount <= t.quantaCount
  <2>1. s[j].quantaCount \in Nat /\ ~(t.quantaCount < s[j].quantaCount)
    <3>1. j \in 1 .. Len(s)
      BY <1>1
    <3> QED BY <1>2, <3>1
  <2> QED BY <1>3, <2>1
<1>5. ASSUME NEW j \in i .. Len(s) PROVE s[j].quantaCount > t.quantaCount
  <2>1. j \in 1 .. Len(s) /\ i <= j
    BY <1>1
  <2>2. s[i].quantaCount <= s[j].quantaCount
    BY <2>1 DEF Sorted
  <2>3. s[i].quantaCount \in Nat /\ s[j].quantaCount \in Nat
    BY <1>2, <2>1
  <2> QED BY <1>3, <2>2, <2>3
<1> QED BY <1>1, <1>4, <1>5 DEF PlaceFor

\* Behind all threads is the end.
LEMMA PutAtEnd ==
  ASSUME NEW s \in Seq(Tcbs), NEW t \in Tcbs
  PROVE  PutAt(s, Len(s), t) = Append(s, t)
<1>1. PICK r : r = PutAt(s, Len(s), t)
  OBVIOUS
<1>2. Len(s) \in Nat /\ Len(s) \in 0 .. Len(s)
  OBVIOUS
<1>3. r \in Seq(Tcbs) /\ Len(r) = Len(s) + 1 /\ HasPut(r, s, Len(s), t)
  <2>1. PICK k \in 0 .. Len(s) : k = Len(s)
    BY <1>2
  <2>2. r = PutAt(s, k, t)
    BY <1>1, <2>1
  <2>3. r \in Seq(Tcbs) /\ Len(r) = Len(s) + 1 /\ HasPut(r, s, k, t)
    BY <2>2, PutAtElements
  <2> QED BY <2>1, <2>3
<1>4. /\ Append(s, t) \in Seq(Tcbs) /\ Len(Append(s, t)) = Len(s) + 1
      /\ \A i \in 1 .. Len(s) : Append(s, t)[i] = s[i]
      /\ Append(s, t)[Len(s) + 1] = t
  BY AppendProperties
<1>5. ASSUME NEW j \in 1 .. Len(s) + 1 PROVE r[j] = Append(s, t)[j]
  <2>1. r[j] = IF j <= Len(s) THEN s[j] ELSE IF j = Len(s) + 1 THEN t ELSE s[j - 1]
    BY <1>3 DEF HasPut
  <2>2. CASE j <= Len(s)
    <3>1. j \in 1 .. Len(s)
      BY <1>2, <2>2
    <3> QED BY <1>4, <2>1, <2>2, <3>1
  <2>3. CASE ~(j <= Len(s))
    <3>1. j = Len(s) + 1
      BY <1>2, <2>3
    <3> QED BY <1>4, <2>1, <2>3, <3>1
  <2> QED BY <2>2, <2>3
<1> QED BY <1>1, <1>3, <1>4, <1>5, SeqEqual

LEMMA enqueueByQuantaStep ==
  ASSUME ListInv, NEW t \in Tcbs, enqueueByQuanta(t)
  PROVE  ListInv' /\ Abstract!PutByQuanta(t)
<1> DEFINE First(n) == head = NULL /\ mem' = Alone(n, t) /\ head' = n
           Second(n) == /\ head # NULL /\ tail = head
                        /\ mem' = Linked(n, t, tail, tail)
                        /\ head' = IF t.quantaCount >= quantaCount(tail) THEN n ELSE tail
           Last(n) == /\ head # NULL /\ tail # head
                      /\ t.quantaCount >= quantaCount(head)
                      /\ mem' = Linked(n, t, head, tail) /\ head' = n
           Ahead(n) == /\ head # NULL /\ tail # head
                       /\ t.quantaCount < quantaCount(head)
                       /\ LET x == FirstOvertaken(t) IN mem' = Linked(n, t, mem[x].prev, x)
                       /\ UNCHANGED head
<1>1. PICK x \in Unused : First(x) \/ Second(x) \/ Last(x) \/ Ahead(x)
  BY DEF enqueueByQuanta
<1>2. x \in Nodes /\ x # NULL
  BY NullAssumption DEF Unused
<1>3. use = "ready" /\ ~Listed(t.tid) /\ UNCHANGED <<use, result>>
  BY DEF enqueueByQuanta
<1>4. PICK s : IsList(mem, head, s) /\ Sorted(s)
  BY <1>3 DEF ListInv
<1>5. Queued = s /\ s \in Seq(Tcbs) /\ DOMAIN mem \subseteq Nodes /\ result \in Tcbs \cup {NULL}
  BY <1>4, QueuedIs, ListMembers DEF ListInv
<1>6. \E k \in 0 .. Len(s) : /\ PlaceFor(s, k, t)
                             /\ IsList(mem', head', PutAt(s, k, t)) /\ DOMAIN mem' \subseteq Nodes
  <2>1. CASE head = NULL
    <3>1. mem' = Alone(x, t) /\ head' = x
      BY <1>1, <2>1
    <3>2. s = <<>>
      BY <1>4, <2>1, EmptyIsList
    <3>3. IsList(Alone(x, t), x, <<t>>) /\ DOMAIN Alone(x, t) = {x}
      BY <1>2, AloneIsList
    <3>4. PutAt(s, 0, t) = <<t>>
      <4>1. PutAt(s, Len(s), t) = Append(s, t) /\ Len(s) = 0
        BY <1>5, <3>2, PutAtEnd
      <4> QED BY <3>2, <4>1
    <3>5. PlaceFor(s, 0, t)
      BY <3>2 DEF PlaceFor
    <3>6. 0 \in 0 .. Len(s)
      BY <3>2
    <3> QED BY <1>2, <3>1, <3>3, <3>4, <3>5, <3>6
  <2>2. CASE head # NULL
    <3>1. PICK n, f : Ring(mem, head, n, f) /\ s = Spelled(mem, n, f)
      BY <1>4, <2>2, ListIsRing
    <3>2. /\ n \in Nat \ {0} /\ n \in 1 .. n /\ 1 \in 1 .. n /\ Len(s) = n /\ f \in [1 .. n -> DOMAIN mem]
          /\ f[1] = tail /\ f[n] = head /\ mem[tail].prev = head /\ (tail = head <=> n = 1)
      BY <3>1, EndOfRing, RingSpells
    <3>3. \A i \in 1 .. n : s[i].quantaCount = quantaCount(f[i])
      BY <3>1, RingSpells DEF quantaCount
    <3>4. s # <<>>
      BY <1>5, <3>2, EmptySeq
    <3>5. PICK last \in 0 .. Len(s) : last = n
      BY <3>2
    <3>6. PutAt(s, last, t) = Append(s, t)
      BY <1>5, <3>2, <3>5, PutAtEnd
    <3>7. PICK q : q = Linked(x, t, head, tail)
      OBVIOUS
    <3>8. PICK p : p = 1
      OBVIOUS
    <3>9. Spells(q, head, PutAt(s, 0, t)) /\ Spells(q, x, Append(s, t)) /\ DOMAIN q = DOMAIN mem \cup {x}
      <4>1. PICK y : y = tail
        OBVIOUS
      <4>2. p \in 1 .. n /\ y = f[p] /\ q = Linked(x, t, mem[y].prev, y)
        BY <3>2, <3>7, <3>8, <4>1
      <4>3. /\ Spells(q, head, PutBefore(s, p, t)) /\ (p = 1 => Spells(q, x, Append(s, t)))
            /\ DOMAIN q = DOMAIN mem \cup {x}
        <5>1. LinksIn(q, n, f, s, p, y, x, t)
          BY <3>1, <4>2 DEF LinksIn
        <5> QED BY <4>2, <5>1, LinkedSpells
      <4>4. PutBefore(s, p, t) = PutAt(s, 0, t)
        BY <3>8 DEF PutBefore
      <4> QED BY <3>8, <4>3, <4>4
    <3>10. IsList(q, x, PutAt(s, last, t)) /\ IsList(q, head, PutAt(s, 0, t)) /\ DOMAIN q \subseteq Nodes
      BY <1>2, <1>5, <2>2, <3>6, <3>9 DEF IsList
    <3>11. ASSUME t.quantaCount >= quantaCount(head) PROVE PlaceFor(s, last, t)
      <4>1. t.quantaCount >= s[Len(s)].quantaCount
        BY <3>2, <3>3, <3>11
      <4>2. PlaceFor(s, Len(s), t)
        BY <1>4, <1>5, <3>4, <4>1, LastPlace
      <4> QED BY <3>2, <3>5, <4>2
    <3>12. CASE Second(x) /\ ~(t.quantaCount >= quantaCount(tail))
      <4>1. mem' = q /\ head' = head /\ n = 1 /\ p \in 1 .. Len(s)
        BY <3>2, <3>7, <3>8, <3>12
      <4>2. t.quantaCount < s[p].quantaCount
        <5>1. s[p].quantaCount = quantaCount(tail)
          BY <3>2, <3>3, <3>8
        <5>2. s[p] \in Tcbs
          BY <1>5, <4>1, ElementOfSeq
        <5>3. t.quantaCount \in Nat /\ s[p].quantaCount \in Nat
          BY <5>2, QuantaAssumption DEF Tcbs
        <5>4. ~(t.quantaCount >= s[p].quantaCount)
          BY <3>12, <5>1
        <5> QED BY <5>3, <5>4
      <4>3. \A j \in 1 .. p - 1 : ~(t.quantaCount < s[j].quantaCount)
        BY <3>8
      <4>4. PlaceFor(s, p - 1, t)
        BY <1>4, <1>5, <4>1, <4>2, <4>3, PlaceAhead
      <4>5. p - 1 = 0 /\ 0 \in 0 .. Len(s)
        BY <3>2, <3>8
      <4> QED BY <3>10, <4>1, <4>4, <4>5
    <3>13. CASE (Second(x) /\ t.quantaCount >= quantaCount(tail)) \/ Last(x)
      <4>1. mem' = q /\ head' = x /\ t.quantaCount >= quantaCount(head)
        BY <3>2, <3>7, <3>13
      <4> QED BY <3>5, <3>10, <3>11, <4>1
    <3>14. CASE Ahead(x)
      <4>1. PICK i \in 1 .. n : /\ FirstOvertaken(t) = f[i] /\ Overtakes(t, f[i])
                                /\ \A j \in 1 .. i - 1 : ~Overtakes(t, f[j])
        BY <3>1, <3>14, FirstOvertakenIsNode
      <4>2. PICK y : y = f[i]
        OBVIOUS
      <4>3. PICK w : w = Linked(x, t, mem[y].prev, y)
        OBVIOUS
      <4>4. mem' = w /\ head' = head
        BY <3>14, <4>1, <4>2, <4>3
      <4>5. Spells(w, head, PutAt(s, i - 1, t)) /\ DOMAIN w = DOMAIN mem \cup {x}
        <5>1. LinksIn(w, n, f, s, i, y, x, t)
          BY <3>1, <4>2, <4>3 DEF LinksIn
        <5>2. Spells(w, head, PutBefore(s, i, t)) /\ DOMAIN w = DOMAIN mem \cup {x}
          BY <5>1, LinkedSpells
        <5> QED BY <5>2 DEF PutBefore
      <4>6. PlaceFor(s, i - 1, t)
        <5>1. t.quantaCount < s[i].quantaCount
          BY <3>3, <4>1 DEF Overtakes
        <5>2. ASSUME NEW j \in 1 .. i - 1 PROVE ~(t.quantaCount < s[j].quantaCount)
          <6>1. j \in 1 .. n
            BY <3>2
          <6> QED BY <3>3, <4>1, <6>1 DEF Overtakes
        <5>3. i \in 1 .. Len(s)
          BY <3>2
        <5> QED BY <1>4, <1>5, <5>1, <5>2, <5>3, PlaceAhead
      <4>7. IsList(w, head, PutAt(s, i - 1, t)) /\ DOMAIN w \subseteq Nodes
        BY <1>2, <1>5, <2>2, <4>5 DEF IsList
      <4>8. i - 1 \in 0 .. Len(s)
        BY <3>2
      <4> QED BY <4>4, <4>6, <4>7, <4>8
    <3> HIDE DEF First, Second, Last, Ahead
    <3>15. ~First(x)
      BY <2>2 DEF First
    <3> QED BY <1>1, <3>12, <3>13, <3>14, <3>15
  <2> QED BY <2>1, <2>2
<1>7. PICK k \in 0 .. Len(s) : /\ PlaceFor(s, k, t)
                               /\ IsList(mem', head', PutAt(s, k, t)) /\ DOMAIN mem' \subseteq Nodes
  BY <1>6
<1>8. PICK r : r = PutAt(s, k, t)
  OBVIOUS
<1>9. ListInv' /\ Queued' = r
  <2>1. Sorted(PutAt(s, k, t))
    BY <1>4, <1>5, <1>7, PutSorted DEF PlaceFor
  <2>2. result' \in Tcbs \cup {NULL} /\ Sorted(r) /\ IsList(mem', head', r)
    BY <1>3, <1>5, <1>7, <1>8, <2>1
  <2> QED BY <1>7, <2>2, Becomes
<1> QED BY <1>3, <1>4, <1>5, <1>7, <1>8, <1>9, ListedIs
        DEF Abstract!PutByQuanta, Abstract!Fresh, PlaceFor, PutAt

\* What removeTcb leaves of the ring is a rotation of the other threads.
LEMMA Rotations ==
  ASSUME NEW w \in Seq(Tcbs), NEW r, r = w \/ (w # <<>> /\ r = Turned(w, 1))
  PROVE  \E k \in 0 .. Len(w) : r = Turned(w, k)
<1>1. Len(w) \in Nat /\ 0 \in 0 .. Len(w)
  OBVIOUS
<1>2. CASE w = <<>>
  <2>1. Turned(w, 0) = w
    BY <1>2 DEF Turned
  <2> QED BY <1>1, <1>2, <2>1
<1>3. CASE w # <<>> /\ r = Turned(w, 1)
  <2>1. 1 \in 0 .. Len(w)
    BY <1>1, <1>3, EmptySeq
  <2> QED BY <1>3, <2>1
<1>4. CASE w # <<>> /\ r = w
  <2>1. SubSeq(w, 1, 0) = <<>>
    BY <1>1, SubSeqEmpty
  <2>2. SubSeq(w, 1, Len(w)) = w
    BY SubSeqFull
  <2>3. Turned(w, 0) = SubSeq(w, 1, Len(w)) \o SubSeq(w, 1, 0)
    BY DEF Turned
  <2>4. w \o <<>> = w
    BY ConcatEmptySeq
  <2>5. Turned(w, 0) = w
    BY <2>1, <2>2, <2>3, <2>4
  <2> QED BY <1>1, <1>4, <2>5
<1> QED BY <1>2, <1>3, <1>4

LEMMA removeTcbStep ==
  ASSUME ListInv, NEW tid \in Tids, removeTcb(tid)
  PROVE  ListInv' /\ Abstract!Delete(tid)
<1>1. PICK s : IsList(mem, head, s) /\ (use = "ready" => Sorted(s))
  BY DEF ListInv
<1>2. Queued = s /\ s \in Seq(Tcbs) /\ DOMAIN mem \subseteq Nodes
  BY <1>1, QueuedIs, ListMembers DEF ListInv
<1>3. use = "all" /\ use' = use
  BY DEF removeTcb
<1>4. CASE ~Listed(tid)
  <2>1. result' = NULL /\ head' = head /\ mem' = mem
    BY <1>4 DEF removeTcb
  <2>2. ListInv' /\ Queued' = s
    BY <1>1, <1>2, <1>3, <2>1, Becomes
  <2>3. ~ \E i \in 1 .. Len(s) : s[i].tid = tid
    BY <1>1, <1>4, ListedIs
  <2> QED BY <1>2, <1>3, <2>1, <2>2, <2>3 DEF Abstract!Delete, Abstract!Has
<1>5. CASE Listed(tid)
  <2>1. PICK y \in DOMAIN mem : y = NodeOf(tid) /\ mem[y].tcb.tid = tid
    BY <1>5 DEF NodeOf, Listed
  <2>2. head # NULL
    BY <1>1, <2>1, EmptyIsList
  <2>3. PICK n, f : Ring(mem, head, n, f) /\ s = Spelled(mem, n, f)
    BY <1>1, <2>2, ListIsRing
  <2>4. /\ n \in Nat \ {0} /\ Len(s) = n /\ f \in [1 .. n -> DOMAIN mem]
        /\ \A k \in 1 .. n : s[k] = mem[f[k]].tcb
    BY <2>3, RingSpells
  <2>5. /\ f[n] = head /\ f[1] = tail /\ tail \in DOMAIN mem
        /\ mem[y].next \in DOMAIN mem /\ (mem[y].next = y <=> n = 1)
    BY <2>1, <2>3, EndOfRing
  <2>6. PICK i \in 1 .. n : f[i] = y
    BY <2>1, <2>3 DEF Ring
  <2>7. i \in 1 .. Len(s) /\ s[i].tid = tid /\ result' = s[i] /\ s[i] \in Tcbs
    <3>1. i \in 1 .. Len(s) /\ s[i] = mem[y].tcb
      BY <2>4, <2>6
    <3> QED BY <1>2, <1>5, <2>1, <3>1, ElementOfSeq DEF removeTcb
  <2>8. PICK w : w = Without(s, i)
    OBVIOUS
  <2>9. w \in Seq(Tcbs) /\ Len(w) = n - 1
    BY <1>2, <2>4, <2>7, <2>8, WithoutElements
  <2>10. \E r : /\ r = w \/ (w # <<>> /\ r = Turned(w, 1))
                /\ IsList(mem', head', r) /\ DOMAIN mem' \subseteq Nodes
    <3>1. CASE n = 1
      <4>1. mem' = <<>> /\ head' = NULL
        BY <1>5, <2>1, <2>5, <3>1 DEF removeTcb
      <4>2. w = <<>>
        BY <2>9, <3>1, EmptySeq
      <4>3. DOMAIN mem' = {}
        BY <4>1
      <4> QED BY <4>1, <4>2, <4>3 DEF IsList
    <3>2. CASE n # 1
      <4>1. PICK q : q = Unlinked(y, mem[y].prev, mem[y].next)
        OBVIOUS
      <4>2. mem' = q /\ head' = IF y = head THEN mem[y].next ELSE head
        BY <1>5, <2>1, <2>5, <3>2, <4>1 DEF removeTcb
      <4>3. y = head <=> i = n
        <5>1. n \in 1 .. n
          BY <2>4
        <5> QED BY <2>3, <2>5, <2>6, <5>1 DEF Ring
      <4>4. /\ i # n => Spells(q, head, Without(s, i))
            /\ i = n => Spells(q, f[1], Turned(Without(s, n), 1))
            /\ DOMAIN q = DOMAIN mem \ {y}
        BY <2>3, <2>6, <3>2, <4>1, UnlinkedSpells
      <4>5. CASE i # n
        <5>1. IsList(q, head, w)
          BY <2>2, <2>8, <4>4, <4>5 DEF IsList
        <5> QED BY <1>2, <4>2, <4>3, <4>4, <4>5, <5>1
      <4>6. CASE i = n
        <5>1. mem[y].next = f[1]
          <6>1. n \in 1 .. n /\ After(n, n) = 1
            BY <2>4 DEF After
          <6> QED BY <2>3, <2>6, <4>6, <6>1 DEF Ring
        <5>2. f[1] # NULL
          <6>1. f[1] \in Nodes
            BY <1>2, <2>5
          <6> QED BY <6>1, NullAssumption
        <5>3. w # <<>>
          BY <2>4, <2>9, <3>2, EmptySeq
        <5>4. IsList(q, f[1], Turned(w, 1))
          BY <2>8, <4>4, <4>6, <5>2 DEF IsList
        <5> QED BY <1>2, <4>2, <4>3, <4>4, <4>6, <5>1, <5>3, <5>4
      <4> QED BY <4>5, <4>6
    <3> QED BY <3>1, <3>2
  <2>11. PICK r : /\ r = w \/ (w # <<>> /\ r = Turned(w, 1))
                  /\ IsList(mem', head', r) /\ DOMAIN mem' \subseteq Nodes
    BY <2>10
  <2>12. ListInv' /\ Queued' = r
    <3>1. result' \in Tcbs \cup {NULL} /\ use' # "ready"
      BY <1>3, <2>7
    <3> QED BY <2>11, <3>1, Becomes
  <2>13. PICK k \in 0 .. Len(w) : r = Turned(w, k)
    BY <2>9, <2>11, Rotations
  <2> QED BY <1>2, <1>3, <2>7, <2>8, <2>12, <2>13
          DEF Abstract!Delete, Abstract!IsResult, Without, Turned
<1> QED BY <1>4, <1>5

LEMMA TidOfTcb ==
  ASSUME NEW tid \in Tids
  PROVE  tid \in {t.tid : t \in Tcbs}
<1>1. 0 \in 0 .. MaxQuantaCount
  BY QuantaAssumption
<1>2. [tid |-> tid, quantaCount |-> 0] \in Tcbs
  BY <1>1 DEF Tcbs
<1>3. [tid |-> tid, quantaCount |-> 0].tid = tid
  OBVIOUS
<1> QED BY <1>2, <1>3

LEMMA Step == ListInv /\ [Next]_listVars => ListInv' /\ [Abstract!QueueNext]_(Abstract!queueVars)
<1> SUFFICES ASSUME ListInv, [Next]_listVars
             PROVE  ListInv' /\ [Abstract!QueueNext]_(Abstract!queueVars)
  OBVIOUS
<1>1. CASE UNCHANGED listVars
  <2>1. PICK s : IsList(mem, head, s) /\ (use = "ready" => Sorted(s))
    BY DEF ListInv
  <2>2. Queued = s /\ UNCHANGED <<use, head, mem, result>>
    BY <1>1, <2>1, QueuedIs DEF listVars
  <2>3. ListInv' /\ Queued' = s
    BY <2>1, <2>2, Becomes DEF ListInv
  <2> QED BY <2>2, <2>3 DEF Abstract!queueVars
<1>2. ASSUME NEW t \in Tcbs, enqueue(t) PROVE ListInv' /\ Abstract!QueueNext
  BY <1>2, enqueueStep DEF Abstract!QueueNext
<1>3. ASSUME NEW t \in Tcbs, enqueueByQuanta(t) PROVE ListInv' /\ Abstract!QueueNext
  BY <1>3, enqueueByQuantaStep DEF Abstract!QueueNext
<1>4. CASE dequeue
  BY <1>4, dequeueStep DEF Abstract!QueueNext
<1>5. ASSUME NEW tid \in Tids, searchTcb(tid) PROVE ListInv' /\ Abstract!QueueNext
  BY <1>5, searchTcbStep, TidOfTcb DEF Abstract!QueueNext
<1>6. ASSUME NEW tid \in Tids, removeTcb(tid) PROVE ListInv' /\ Abstract!QueueNext
  BY <1>6, removeTcbStep, TidOfTcb DEF Abstract!QueueNext
<1> QED BY <1>1, <1>2, <1>3, <1>4, <1>5, <1>6 DEF Next

LEMMA Invariance == Spec => []ListInv
BY InitStep, Step, PTL DEF Spec

-----------------------------------------------------------------------------
\* No operation leaves a pointer to a node that was freed, and head is NULL exactly
\* when the list is empty (the frees of dequeue and removeTcb).
THEOREM TypeCorrect == Spec => []TypeOK
<1>1. ASSUME ListInv PROVE TypeOK
  <2>1. PICK s : IsList(mem, head, s)
    BY <1>1 DEF ListInv
  <2>2. CASE head = NULL
    BY <1>1, <2>1, <2>2, EmptyIsList DEF ListInv, TypeOK
  <2>3. CASE head # NULL
    <3>1. PICK n, f : Ring(mem, head, n, f)
      BY <2>1, <2>3, ListIsRing
    <3>2. Closed(mem) /\ head \in DOMAIN mem
      BY <3>1, EndOfRing
    <3> QED BY <1>1, <3>2 DEF ListInv, TypeOK, Closed, Node
  <2> QED BY <2>2, <2>3
<1> QED BY <1>1, Invariance, PTL

\* Every allocated node stays reachable: the pointers are one ring that ends at
\* *head, whatever nodes were put in and taken out before.
THEOREM OneRingHolds == Spec => []OneRing
<1>1. ASSUME ListInv PROVE OneRing
  <2>1. PICK s : IsList(mem, head, s)
    BY <1>1 DEF ListInv
  <2>2. CASE head = NULL
    <3>1. DOMAIN mem = {}
      BY <2>1, <2>2, EmptyIsList
    <3> QED BY <2>2, <3>1 DEF OneRing
  <2>3. CASE head # NULL
    <3>1. PICK n, f : Ring(mem, head, n, f)
      BY <2>1, <2>3, ListIsRing
    <3>2. /\ DOMAIN Walk = 1 .. n /\ Cardinality(DOMAIN mem) = n
          /\ \A k \in 1 .. n : Walk[k] = f[k]
      BY <3>1, WalkIsRing
    <3>3. /\ n \in Nat \ {0} /\ f \in [1 .. n -> DOMAIN mem] /\ f[n] = head
          /\ \A x \in DOMAIN mem : \E k \in 1 .. n : f[k] = x
          /\ \A k \in 1 .. n : mem[f[k]].next = f[After(k, n)] /\ mem[f[After(k, n)]].prev = f[k]
      BY <3>1 DEF Ring
    <3>4. {Walk[k] : k \in DOMAIN Walk} = DOMAIN mem
      <4>1. f \in [1 .. n -> DOMAIN mem] /\ \A x \in DOMAIN mem : \E k \in 1 .. n : f[k] = x
        BY <3>3
      <4> QED BY <3>2, <4>1
    <3>5. Walk[n] = head
      BY <3>2, <3>3
    <3>6. \A y \in DOMAIN mem : mem[mem[y].next].prev = y
      BY <3>3
    <3> QED BY <3>2, <3>4, <3>5, <3>6 DEF OneRing
  <2> QED BY <2>2, <2>3
<1> QED BY <1>1, Invariance, PTL

\* The pointers keep the promise of a queue to every user of the list: a wait queue
\* hands out its threads in the order they came, readyQueue by quanta and in the order
\* they came among equals, and allThreads finds and removes exactly the thread asked
\* for; no operation loses a thread or lists one twice.
THEOREM QueueImplemented == Spec => ImplementsTcbQueue
BY InitStep, Step, Invariance, PTL DEF Spec, ImplementsTcbQueue, Abstract!QueueSpec
=============================================================================
