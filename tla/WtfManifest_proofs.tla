------------------------- MODULE WtfManifest_proofs -------------------------
(***************************************************************************)
(* What buildCommit, updateManifest and updateManifestPush do to lists of  *)
(* any length.                                                             *)
(***************************************************************************)
EXTENDS WtfManifest, TLAPS, WellFoundedInduction, SequenceTheorems

-----------------------------------------------------------------------------
(* Counting.                                                               *)

\* The least number principle for sets of naturals.
LEMMA LeastNatural ==
  ASSUME NEW T \in SUBSET Nat, T # {}
  PROVE  \E x \in T : \A y \in T : x <= y
<1> DEFINE Less == OpToRel(<, Nat)
<1>1. IsWellFoundedOn(Less, Nat)
  BY NatLessThanWellFounded
<1>2. PICK x \in T : \A y \in T : ~ (<<y, x>> \in Less)
  <2> HIDE DEF Less
  <2> QED BY <1>1, WFMin
<1>3. ASSUME NEW y \in T PROVE x <= y
  <2>1. ~ (<<y, x>> \in {ss \in Nat \X Nat : ss[1] < ss[2]})
    BY <1>2 DEF OpToRel
  <2>2. y \in Nat /\ x \in Nat
    OBVIOUS
  <2>3. ~ (y < x)
    <3> SUFFICES ASSUME y < x PROVE FALSE
      OBVIOUS
    <3>1. <<y, x>> \in Nat \X Nat /\ <<y, x>>[1] < <<y, x>>[2]
      BY <2>2
    <3> QED BY <3>1, <2>1
  <2> QED BY <2>2, <2>3
<1> QED BY <1>3

\* What is true of 0, and of each number up to n after the one before it, is true of
\* all of them.
LEMMA CountUp ==
  ASSUME NEW n \in Nat, NEW T, 0 \in T, \A k \in 1 .. n : k - 1 \in T => k \in T
  PROVE  \A k \in 0 .. n : k \in T
<1> DEFINE Missing == {k \in 0 .. n : k \notin T}
<1> SUFFICES ASSUME Missing # {} PROVE FALSE
  OBVIOUS
<1>1. PICK x \in Missing : \A y \in Missing : x <= y
  <2> Missing \in SUBSET Nat
    OBVIOUS
  <2> HIDE DEF Missing
  <2> QED BY LeastNatural
<1>2. x \in 1 .. n /\ x - 1 \in 0 .. n /\ ~ (x <= x - 1)
  OBVIOUS
<1>3. x - 1 \in T
  BY <1>1, <1>2
<1> QED BY <1>2, <1>3

-----------------------------------------------------------------------------
(* Lists.                                                                  *)

\* Find gives the first index of the path, or 0.
LEMMA FindFirst ==
  ASSUME NEW S, NEW list \in Seq(S), NEW path
  PROVE  /\ Find(list, path) \in 0 .. Len(list)
         /\ Find(list, path) = 0 => \A j \in 1 .. Len(list) : list[j].path # path
         /\ Find(list, path) # 0 => /\ list[Find(list, path)].path = path
                                    /\ \A j \in 1 .. Find(list, path) - 1 : list[j].path # path
<1> DEFINE I == {j \in 1 .. Len(list) : list[j].path = path}
<1>1. Find(list, path) = IF I # {} THEN Min(I) ELSE 0
  BY DEF Find, SelectInSeq
<1>2. CASE I = {}
  BY <1>1, <1>2
<1>3. CASE I # {}
  <2>1. I \in SUBSET Nat
    OBVIOUS
  <2>2. PICK x \in I : \A y \in I : x <= y
    <3> HIDE DEF I
    <3> QED BY <1>3, <2>1, LeastNatural
  <2>3. Min(I) \in I /\ \A y \in I : Min(I) <= y
    <3> HIDE DEF I
    <3> QED BY <2>2 DEF Min
  <2>4. Find(list, path) \in I /\ \A y \in I : Find(list, path) <= y
    BY <1>1, <1>3, <2>3
  <2> HIDE DEF Min
  <2>5. Len(list) \in Nat
    OBVIOUS
  <2> QED BY <2>4, <2>5
<1> QED BY <1>2, <1>3

\* A list without its i-th element.
LEMMA RemoveAtElements ==
  ASSUME NEW S, NEW list \in Seq(S), NEW i \in 1 .. Len(list)
  PROVE  /\ RemoveAt(list, i) \in Seq(S)
         /\ Len(RemoveAt(list, i)) = Len(list) - 1
         /\ \A j \in 1 .. Len(list) - 1 :
              RemoveAt(list, i)[j] = IF j < i THEN list[j] ELSE list[j + 1]
<1> DEFINE front == SubSeq(list, 1, i - 1)
           back == SubSeq(list, i + 1, Len(list))
<1>1. Len(list) \in Nat /\ i \in Int
  OBVIOUS
<1>2. /\ front \in Seq(S) /\ Len(front) = i - 1
      /\ \A j \in 1 .. i - 1 : front[j] = list[j]
  <2>1. \A j \in 1 .. i - 1 : list[j] \in S
    BY <1>1, ElementOfSeq
  <2>2. /\ front \in Seq(S)
        /\ Len(front) = IF 1 <= i - 1 THEN i - 1 - 1 + 1 ELSE 0
        /\ \A j \in 1 .. i - 1 - 1 + 1 : front[j] = list[1 + j - 1]
    <3>1. 1 \in Int /\ i - 1 \in Int
      BY <1>1
    <3> HIDE DEF front
    <3> QED BY <2>1, <3>1, SubSeqProperties DEF front
  <2> HIDE DEF front
  <2> QED BY <2>2, <1>1
<1>3. /\ back \in Seq(S) /\ Len(back) = Len(list) - i
      /\ \A j \in 1 .. Len(list) - i : back[j] = list[j + i]
  <2>1. \A j \in i + 1 .. Len(list) : list[j] \in S
    BY <1>1, ElementOfSeq
  <2>2. /\ back \in Seq(S)
        /\ Len(back) = IF i + 1 <= Len(list) THEN Len(list) - (i + 1) + 1 ELSE 0
        /\ \A j \in 1 .. Len(list) - (i + 1) + 1 : back[j] = list[i + 1 + j - 1]
    <3>1. i + 1 \in Int /\ Len(list) \in Int
      BY <1>1
    <3> HIDE DEF back
    <3> QED BY <2>1, <3>1, SubSeqProperties DEF back
  <2> HIDE DEF back
  <2> QED BY <2>2, <1>1
<1>4. RemoveAt(list, i) = front \o back
  BY DEF RemoveAt
<1> HIDE DEF front, back
<1>5. /\ front \o back \in Seq(S) /\ Len(front \o back) = Len(front) + Len(back)
      /\ \A j \in 1 .. Len(front) + Len(back) :
           (front \o back)[j] = IF j <= Len(front) THEN front[j] ELSE back[j - Len(front)]
  BY <1>2, <1>3, ConcatProperties
<1>6. /\ RemoveAt(list, i) \in Seq(S)
      /\ Len(RemoveAt(list, i)) = Len(list) - 1
  BY <1>1, <1>2, <1>3, <1>4, <1>5
<1>7. ASSUME NEW j \in 1 .. Len(list) - 1
      PROVE  RemoveAt(list, i)[j] = IF j < i THEN list[j] ELSE list[j + 1]
  <2>1. j \in 1 .. Len(front) + Len(back)
    BY <1>1, <1>2, <1>3
  <2>2. RemoveAt(list, i)[j] = IF j <= Len(front) THEN front[j] ELSE back[j - Len(front)]
    BY <1>4, <1>5, <2>1
  <2>3. CASE j < i
    BY <1>1, <1>2, <2>2, <2>3
  <2>4. CASE ~ (j < i)
    <3>1. j - (i - 1) \in 1 .. Len(list) - i /\ ~ (j <= i - 1) /\ j - (i - 1) + i = j + 1
      BY <1>1, <2>4
    <3>2. RemoveAt(list, i)[j] = back[j - (i - 1)]
      BY <1>2, <2>2, <3>1
    <3> QED BY <1>3, <2>4, <3>1, <3>2
  <2> QED BY <2>3, <2>4
<1> QED BY <1>6, <1>7

-----------------------------------------------------------------------------
(* The three loops: one function of the number of turns each.              *)

\* The walk of buildCommit over the client's list.
IsWalk(walk, client, server, live) ==
  /\ walk[0] = StartOfWalk(client, server)
  /\ \A n \in 1 .. Len(client) : walk[n] = BuildStep(walk[n - 1], live)

\* The states of updateManifest.
IsUpdate(state, list, text) ==
  /\ state[0] = [list |-> list, freed |-> {}]
  /\ \A n \in 1 .. Len(text.files) :
       state[n] = Applied(state[n - 1], text.files[n], text.version)

\* The states of updateManifestPush.
IsUpdatePush(state, list, text) ==
  /\ state[0] = list
  /\ \A n \in 1 .. Len(text.files) :
       state[n] = Taken(state[n - 1], text.files[n], text.version)

LEMMA BuildCommitWalks ==
  ASSUME NEW client, NEW server, NEW live, Len(client) \in Nat
  PROVE  \E walk : /\ IsWalk(walk, client, server, live)
                   /\ buildCommit(client, server, live) =
                        [files |-> walk[Len(client)].commit \o Deleted(walk[Len(client)].server),
                         end |-> walk[Len(client)].end]
<1> DEFINE N == Len(client)
           Start == StartOfWalk(client, server)
           Turn(w) == BuildStep(w, live)
           Upto(k, w) == w = [n \in 0 .. k |-> IF n = 0 THEN Start ELSE Turn(w[n - 1])]
           T == {k \in 0 .. N : \E w : Upto(k, w)}
<1>1. 0 \in T
  <2>1. Upto(0, [n \in 0 .. 0 |-> Start])
    OBVIOUS
  <2> HIDE DEF Upto
  <2> QED BY <2>1
<1>2. ASSUME NEW k \in 1 .. N, k - 1 \in T PROVE k \in T
  <2>1. PICK w : Upto(k - 1, w)
    <3> HIDE DEF Upto
    <3> QED BY <1>2
  <2> DEFINE v == [n \in 0 .. k |-> IF n = k THEN Turn(w[k - 1]) ELSE w[n]]
  <2>2. ASSUME NEW n \in 0 .. k PROVE v[n] = IF n = 0 THEN Start ELSE Turn(v[n - 1])
    <3> HIDE DEF Turn, Start
    <3>1. CASE n = 0
      BY <2>1, <3>1
    <3>2. CASE n # 0 /\ n # k
      <4>1. n \in 0 .. k - 1 /\ n - 1 \in 0 .. k /\ n - 1 # k
        BY <3>2
      <4> QED BY <2>1, <3>2, <4>1
    <3>3. CASE n = k
      <4>1. n # 0 /\ k - 1 \in 0 .. k /\ k - 1 # k
        BY <3>3
      <4> QED BY <3>3, <4>1
    <3> QED BY <3>1, <3>2, <3>3
  <2>3. Upto(k, v)
    <3> HIDE DEF Turn, Start
    <3> QED BY <2>2
  <2> HIDE DEF Upto, v
  <2> QED BY <2>3
<1>3. N \in T
  <2>1. N \in Nat /\ N \in 0 .. N
    OBVIOUS
  <2> HIDE DEF T, N
  <2> QED BY <1>1, <1>2, <2>1, CountUp
<1> DEFINE walk == CHOOSE w : Upto(N, w)
<1>4. Upto(N, walk)
  <2> HIDE DEF Upto
  <2> QED BY <1>3
<1>5. IsWalk(walk, client, server, live)
  <2> HIDE DEF walk
  <2>1. walk[0] = Start
    <3> HIDE DEF Start, Turn
    <3> QED BY <1>4
  <2>2. ASSUME NEW n \in 1 .. N PROVE walk[n] = Turn(walk[n - 1])
    <3> HIDE DEF Start, Turn
    <3> QED BY <1>4
  <2> QED BY <2>1, <2>2 DEF IsWalk
<1>6. buildCommit(client, server, live) =
        [files |-> walk[N].commit \o Deleted(walk[N].server), end |-> walk[N].end]
  BY DEF buildCommit
<1> HIDE DEF walk
<1> QED BY <1>5, <1>6

LEMMA UpdateManifestStates ==
  ASSUME NEW list, NEW text, Len(text.files) \in Nat
  PROVE  \E state : /\ IsUpdate(state, list, text)
                    /\ updateManifest(list, text) = state[Len(text.files)]
<1> DEFINE N == Len(text.files)
           Start == [list |-> list, freed |-> {}]
           Turn(w, n) == Applied(w, text.files[n], text.version)
           Upto(k, w) == w = [n \in 0 .. k |-> IF n = 0 THEN Start ELSE Turn(w[n - 1], n)]
           T == {k \in 0 .. N : \E w : Upto(k, w)}
<1>1. 0 \in T
  <2>1. Upto(0, [n \in 0 .. 0 |-> Start])
    OBVIOUS
  <2> HIDE DEF Upto
  <2> QED BY <2>1
<1>2. ASSUME NEW k \in 1 .. N, k - 1 \in T PROVE k \in T
  <2>1. PICK w : Upto(k - 1, w)
    <3> HIDE DEF Upto
    <3> QED BY <1>2
  <2> DEFINE v == [n \in 0 .. k |-> IF n = k THEN Turn(w[k - 1], k) ELSE w[n]]
  <2>2. ASSUME NEW n \in 0 .. k PROVE v[n] = IF n = 0 THEN Start ELSE Turn(v[n - 1], n)
    <3> HIDE DEF Turn, Start
    <3>1. CASE n = 0
      BY <2>1, <3>1
    <3>2. CASE n # 0 /\ n # k
      <4>1. n \in 0 .. k - 1 /\ n - 1 \in 0 .. k /\ n - 1 # k
        BY <3>2
      <4> QED BY <2>1, <3>2, <4>1
    <3>3. CASE n = k
      <4>1. n # 0 /\ k - 1 \in 0 .. k /\ k - 1 # k
        BY <3>3
      <4> QED BY <3>3, <4>1
    <3> QED BY <3>1, <3>2, <3>3
  <2>3. Upto(k, v)
    <3> HIDE DEF Turn, Start
    <3> QED BY <2>2
  <2> HIDE DEF Upto, v
  <2> QED BY <2>3
<1>3. N \in T
  <2>1. N \in Nat /\ N \in 0 .. N
    OBVIOUS
  <2> HIDE DEF T, N
  <2> QED BY <1>1, <1>2, <2>1, CountUp
<1> DEFINE state == CHOOSE w : Upto(N, w)
<1>4. Upto(N, state)
  <2> HIDE DEF Upto
  <2> QED BY <1>3
<1>5. IsUpdate(state, list, text)
  <2> HIDE DEF state
  <2>1. state[0] = Start
    <3> HIDE DEF Start, Turn
    <3> QED BY <1>4
  <2>2. ASSUME NEW n \in 1 .. N PROVE state[n] = Turn(state[n - 1], n)
    <3> HIDE DEF Start, Turn
    <3> QED BY <1>4
  <2> QED BY <2>1, <2>2 DEF IsUpdate
<1>6. updateManifest(list, text) = state[N]
  BY DEF updateManifest
<1> HIDE DEF state
<1> QED BY <1>5, <1>6

LEMMA UpdateManifestPushStates ==
  ASSUME NEW list, NEW text, Len(text.files) \in Nat
  PROVE  \E state : /\ IsUpdatePush(state, list, text)
                    /\ updateManifestPush(list, text) = state[Len(text.files)]
<1> DEFINE N == Len(text.files)
           Start == list
           Turn(w, n) == Taken(w, text.files[n], text.version)
           Upto(k, w) == w = [n \in 0 .. k |-> IF n = 0 THEN Start ELSE Turn(w[n - 1], n)]
           T == {k \in 0 .. N : \E w : Upto(k, w)}
<1>1. 0 \in T
  <2>1. Upto(0, [n \in 0 .. 0 |-> Start])
    OBVIOUS
  <2> HIDE DEF Upto
  <2> QED BY <2>1
<1>2. ASSUME NEW k \in 1 .. N, k - 1 \in T PROVE k \in T
  <2>1. PICK w : Upto(k - 1, w)
    <3> HIDE DEF Upto
    <3> QED BY <1>2
  <2> DEFINE v == [n \in 0 .. k |-> IF n = k THEN Turn(w[k - 1], k) ELSE w[n]]
  <2>2. ASSUME NEW n \in 0 .. k PROVE v[n] = IF n = 0 THEN Start ELSE Turn(v[n - 1], n)
    <3> HIDE DEF Turn, Start
    <3>1. CASE n = 0
      BY <2>1, <3>1
    <3>2. CASE n # 0 /\ n # k
      <4>1. n \in 0 .. k - 1 /\ n - 1 \in 0 .. k /\ n - 1 # k
        BY <3>2
      <4> QED BY <2>1, <3>2, <4>1
    <3>3. CASE n = k
      <4>1. n # 0 /\ k - 1 \in 0 .. k /\ k - 1 # k
        BY <3>3
      <4> QED BY <3>3, <4>1
    <3> QED BY <3>1, <3>2, <3>3
  <2>3. Upto(k, v)
    <3> HIDE DEF Turn, Start
    <3> QED BY <2>2
  <2> HIDE DEF Upto, v
  <2> QED BY <2>3
<1>3. N \in T
  <2>1. N \in Nat /\ N \in 0 .. N
    OBVIOUS
  <2> HIDE DEF T, N
  <2> QED BY <1>1, <1>2, <2>1, CountUp
<1> DEFINE state == CHOOSE w : Upto(N, w)
<1>4. Upto(N, state)
  <2> HIDE DEF Upto
  <2> QED BY <1>3
<1>5. IsUpdatePush(state, list, text)
  <2> HIDE DEF state
  <2>1. state[0] = Start
    <3> HIDE DEF Start, Turn
    <3> QED BY <1>4
  <2>2. ASSUME NEW n \in 1 .. N PROVE state[n] = Turn(state[n - 1], n)
    <3> HIDE DEF Start, Turn
    <3> QED BY <1>4
  <2> QED BY <2>1, <2>2 DEF IsUpdatePush
<1>6. updateManifestPush(list, text) = state[N]
  BY DEF updateManifestPush
<1> HIDE DEF state
<1> QED BY <1>5, <1>6

-----------------------------------------------------------------------------
(* updateManifest.                                                         *)

Nodes == [path : Paths, fileVersion : Nat, hash : Contents, projectVersion : Int]

LEMMA ElementsOf ==
  ASSUME NEW S, NEW list \in Seq(S)
  PROVE  /\ DOMAIN list = 1 .. Len(list) /\ Len(list) \in Nat
         /\ \A j \in 1 .. Len(list) : list[j] \in S /\ list[j] \in ToSet(list)
         /\ \A e \in ToSet(list) : e \in S /\ \E j \in 1 .. Len(list) : e = list[j]
<1>1. DOMAIN list = 1 .. Len(list) /\ Len(list) \in Nat
  OBVIOUS
<1>2. \A j \in 1 .. Len(list) : list[j] \in S
  BY ElementOfSeq
<1> QED BY <1>1, <1>2 DEF ToSet

LEMMA NodeType ==
  ASSUME NEW e, NEW v \in Int, e \in Entries \/ e \in Changes
  PROVE  /\ Node(e, v) \in Nodes
         /\ Node(e, v).path = e.path /\ Node(e, v).fileVersion = e.fileVersion
         /\ Node(e, v).hash = e.hash /\ Node(e, v).projectVersion = v
BY DEF Node, Nodes, Entries, Changes

\* What one change does to a list that names no path twice, as far as its elements go.
AppliedTo(new, list, x, version) ==
  /\ new \in Seq(Nodes) /\ Once(new)
  /\ \A e \in ToSet(new) : e = Node(x, version) \/ (e \in ToSet(list) /\ e.path # x.path)
  /\ \A e \in ToSet(list) : e.path # x.path => e \in ToSet(new)
  /\ x.op # "M" /\ (\E e \in ToSet(list) : e.path = x.path)
       => \A e \in ToSet(new) : e.path # x.path

LEMMA AppliedElements ==
  ASSUME NEW list \in Seq(Nodes), Once(list), NEW freed,
         NEW x \in Changes, NEW version \in Int
  PROVE  \E new, gone :
           /\ Applied([list |-> list, freed |-> freed], x, version) = [list |-> new, freed |-> gone]
           /\ gone \subseteq freed \cup {x.path}
           /\ AppliedTo(new, list, x, version)
<1> DEFINE i == Find(list, x.path)
           n == Node(x, version)
           state == [list |-> list, freed |-> freed]
<1>1. /\ i \in 0 .. Len(list)
      /\ i = 0 => \A j \in 1 .. Len(list) : list[j].path # x.path
      /\ i # 0 => list[i].path = x.path
  BY FindFirst
<1>2. n \in Nodes /\ n.path = x.path
  BY NodeType
<1>3. Len(list) \in Nat /\ DOMAIN list = 1 .. Len(list)
  BY ElementsOf
<1>4. Applied(state, x, version) =
        IF i = 0 THEN [state EXCEPT !.list = Append(@, n)]
        ELSE IF x.op = "M" THEN [state EXCEPT !.list[i] = n]
        ELSE [list |-> RemoveAt(list, i), freed |-> freed \cup {x.path}]
  BY DEF Applied
<1> HIDE DEF i, n
<1>5. CASE i = 0
  <2> DEFINE new == Append(list, n)
  <2>1. Applied(state, x, version) = [list |-> new, freed |-> freed]
    BY <1>4, <1>5
  <2>2. /\ new \in Seq(Nodes) /\ Len(new) = Len(list) + 1 /\ new[Len(list) + 1] = n
        /\ \A j \in 1 .. Len(list) : new[j] = list[j]
    BY <1>2, AppendProperties
  <2> HIDE DEF new
  <2>3. DOMAIN new = 1 .. Len(list) + 1
    BY <2>2, ElementsOf
  <2>4. Once(new)
    BY <1>1, <1>2, <1>3, <1>5, <2>2, <2>3 DEF Once
  <2>5. \A e \in ToSet(new) : e = n \/ (e \in ToSet(list) /\ e.path # x.path)
    <3>1. ASSUME NEW j \in 1 .. Len(list) + 1
          PROVE  new[j] = n \/ (new[j] \in ToSet(list) /\ new[j].path # x.path)
      <4>1. CASE j = Len(list) + 1
        BY <2>2, <4>1
      <4>2. CASE j \in 1 .. Len(list)
        BY <1>1, <1>5, <2>2, <4>2, ElementsOf
      <4> QED BY <1>3, <4>1, <4>2
    <3> QED BY <2>3, <3>1 DEF ToSet
  <2>6. \A e \in ToSet(list) : e \in ToSet(new) /\ e.path # x.path
    <3>1. \A j \in 1 .. Len(list) : list[j] \in ToSet(new)
      BY <1>3, <2>2, <2>3 DEF ToSet
    <3> QED BY <1>1, <1>5, <3>1, ElementsOf
  <2>7. AppliedTo(new, list, x, version)
    BY <2>2, <2>4, <2>5, <2>6 DEF AppliedTo, n
  <2> QED BY <2>1, <2>7
<1>6. CASE i # 0 /\ x.op = "M"
  <2> DEFINE new == [list EXCEPT ![i] = n]
  <2>1. Applied(state, x, version) = [list |-> new, freed |-> freed]
    BY <1>4, <1>6
  <2>0. i \in 1 .. Len(list)
    BY <1>1, <1>3, <1>6
  <2>2. /\ new \in Seq(Nodes) /\ Len(new) = Len(list)
        /\ \A j \in 1 .. Len(list) : new[j] = IF j = i THEN n ELSE list[j]
    BY <1>2, <2>0, ExceptSeq
  <2> HIDE DEF new
  <2>3. DOMAIN new = 1 .. Len(list)
    BY <2>2, ElementsOf
  <2>4. \A j \in 1 .. Len(list) : new[j].path = list[j].path
    BY <1>1, <1>2, <2>0, <2>2
  <2>5. Once(new)
    BY <1>3, <2>3, <2>4 DEF Once
  <2>6. \A j \in 1 .. Len(list) : j # i => list[j].path # x.path
    BY <1>1, <1>3, <2>0 DEF Once
  <2>7. \A e \in ToSet(new) : e = n \/ (e \in ToSet(list) /\ e.path # x.path)
    <3>1. ASSUME NEW j \in 1 .. Len(list)
          PROVE  new[j] = n \/ (new[j] \in ToSet(list) /\ new[j].path # x.path)
      <4>1. list[j] \in ToSet(list)
        BY ElementsOf
      <4> QED BY <2>2, <2>6, <4>1
    <3> QED BY <2>3, <3>1 DEF ToSet
  <2>8. \A e \in ToSet(list) : e.path # x.path => e \in ToSet(new)
    <3>1. ASSUME NEW j \in 1 .. Len(list), list[j].path # x.path PROVE list[j] \in ToSet(new)
      <4>1. j # i /\ new[j] = list[j]
        BY <1>1, <1>6, <2>2, <3>1
      <4> QED BY <2>3, <4>1 DEF ToSet
    <3> QED BY <3>1, ElementsOf
  <2>9. AppliedTo(new, list, x, version)
    BY <1>6, <2>2, <2>5, <2>7, <2>8 DEF AppliedTo, n
  <2> QED BY <2>1, <2>9
<1>7. CASE i # 0 /\ x.op # "M"
  <2> DEFINE new == RemoveAt(list, i)
  <2>1. Applied(state, x, version) = [list |-> new, freed |-> freed \cup {x.path}]
    BY <1>4, <1>7
  <2>0. i \in 1 .. Len(list)
    BY <1>1, <1>3, <1>7
  <2>2. /\ new \in Seq(Nodes) /\ Len(new) = Len(list) - 1
        /\ \A j \in 1 .. Len(list) - 1 : new[j] = IF j < i THEN list[j] ELSE list[j + 1]
    BY <2>0, RemoveAtElements
  <2> HIDE DEF new
  <2>3. DOMAIN new = 1 .. Len(list) - 1
    BY <2>2, ElementsOf
  <2>4. \A j \in 1 .. Len(list) : j # i => list[j].path # x.path
    BY <1>1, <1>3, <2>0 DEF Once
  <2>5. Once(new)
    <3> DEFINE Old(j) == IF j < i THEN j ELSE j + 1
    <3>1. ASSUME NEW j \in 1 .. Len(list) - 1
          PROVE  Old(j) \in 1 .. Len(list) /\ new[j] = list[Old(j)]
      BY <1>3, <2>0, <2>2
    <3>2. ASSUME NEW j \in 1 .. Len(list) - 1, NEW k \in 1 .. Len(list) - 1,
                 new[j].path = new[k].path
          PROVE  j = k
      <4>1. Old(j) = Old(k)
        <5> HIDE DEF Old
        <5> QED BY <1>3, <3>1, <3>2 DEF Once
      <4> QED BY <4>1, <1>3, <2>0
    <3> QED BY <2>3, <3>2 DEF Once
  <2>6. \A e \in ToSet(new) : e \in ToSet(list) /\ e.path # x.path
    <3>1. ASSUME NEW j \in 1 .. Len(list) - 1
          PROVE  new[j] \in ToSet(list) /\ new[j].path # x.path
      <4>1. PICK k \in 1 .. Len(list) : k # i /\ new[j] = list[k]
        BY <1>3, <2>0, <2>2
      <4> QED BY <2>4, <4>1, ElementsOf
    <3> QED BY <2>3, <3>1 DEF ToSet
  <2>7. \A e \in ToSet(list) : e.path # x.path => e \in ToSet(new)
    <3>1. ASSUME NEW j \in 1 .. Len(list), list[j].path # x.path PROVE list[j] \in ToSet(new)
      <4>1. j # i
        BY <1>1, <1>7, <3>1
      <4>2. PICK k \in 1 .. Len(list) - 1 : new[k] = list[j]
        <5>1. CASE j < i
          BY <1>3, <2>0, <2>2, <5>1
        <5>2. CASE j > i
          <6>1. j - 1 \in 1 .. Len(list) - 1 /\ ~ (j - 1 < i) /\ j - 1 + 1 = j
            BY <1>3, <2>0, <5>2
          <6> QED BY <2>2, <6>1
        <5> QED BY <1>3, <2>0, <4>1, <5>1, <5>2
      <4> QED BY <2>3, <4>2 DEF ToSet
    <3> QED BY <3>1, ElementsOf
  <2>8. AppliedTo(new, list, x, version)
    BY <1>7, <2>2, <2>5, <2>6, <2>7 DEF AppliedTo
  <2> QED BY <2>1, <2>8
<1> QED BY <1>5, <1>6, <1>7

\* A list after the first k changes: every node in it is one of the changes, or an old
\* node that no change has named. If the text names no path twice, a change of a path
\* that was listed is still there only if it is a modification, and nodes without a
\* change are.
UpdatedTo(new, list, text, k) ==
  /\ new \in Seq(Nodes) /\ Once(new)
  /\ \A e \in ToSet(new) :
       \/ \E i \in 1 .. k : e = Node(text.files[i], text.version)
       \/ e \in ToSet(list) /\ \A i \in 1 .. k : text.files[i].path # e.path
  /\ Once(text.files) =>
       \A e \in ToSet(list) :
         /\ (\A i \in 1 .. k : text.files[i].path # e.path) => e \in ToSet(new)
         /\ \A f \in ToSet(new) : f.path = e.path =>
              \/ f = e
              \/ \E i \in 1 .. k : text.files[i].op = "M" /\ f = Node(text.files[i], text.version)

LEMMA UpdatedOneMore ==
  ASSUME NEW list \in Seq(Nodes), Once(list), NEW text, text.files \in Seq(Changes),
         text.version \in Int, NEW k \in 1 .. Len(text.files),
         NEW old, UpdatedTo(old, list, text, k - 1),
         NEW new, AppliedTo(new, old, text.files[k], text.version)
  PROVE  UpdatedTo(new, list, text, k)
<1> DEFINE x == text.files[k]
           N(i) == Node(text.files[i], text.version)
<1>1. /\ Len(text.files) \in Nat /\ k \in Nat /\ DOMAIN text.files = 1 .. Len(text.files)
      /\ \A i \in 1 .. k : i \in 1 .. Len(text.files) /\ N(i).path = text.files[i].path
  <2>1. \A i \in 1 .. Len(text.files) : text.files[i] \in Changes
    BY ElementsOf
  <2>2. Len(text.files) \in Nat /\ DOMAIN text.files = 1 .. Len(text.files)
    BY ElementsOf
  <2> QED BY <2>1, <2>2, NodeType
<1>2. \A i \in 1 .. k : i = k \/ i \in 1 .. k - 1
  BY <1>1
<1>3. new \in Seq(Nodes) /\ Once(new)
  BY DEF AppliedTo
<1>4. ASSUME NEW e \in ToSet(new)
      PROVE  \/ \E i \in 1 .. k : e = N(i)
             \/ e \in ToSet(list) /\ \A i \in 1 .. k : text.files[i].path # e.path
  <2>1. CASE e = N(k)
    BY <1>1, <2>1
  <2>2. CASE e \in ToSet(old) /\ e.path # x.path
    <3>1. CASE \E i \in 1 .. k - 1 : e = N(i)
      BY <1>1, <3>1
    <3>2. CASE e \in ToSet(list) /\ \A i \in 1 .. k - 1 : text.files[i].path # e.path
      BY <1>2, <2>2, <3>2
    <3> QED BY <2>2, <3>1, <3>2 DEF UpdatedTo
  <2> QED BY <2>1, <2>2 DEF AppliedTo
<1>5. ASSUME Once(text.files), NEW e \in ToSet(list)
      PROVE  /\ (\A i \in 1 .. k : text.files[i].path # e.path) => e \in ToSet(new)
             /\ \A f \in ToSet(new) : f.path = e.path =>
                  \/ f = e
                  \/ \E i \in 1 .. k : text.files[i].op = "M" /\ f = N(i)
  <2>1. ASSUME \A i \in 1 .. k : text.files[i].path # e.path PROVE e \in ToSet(new)
    <3>1. e \in ToSet(old)
      BY <1>1, <1>5, <2>1 DEF UpdatedTo
    <3>2. e.path # x.path
      BY <1>1, <2>1
    <3> QED BY <3>1, <3>2 DEF AppliedTo
  <2>2. ASSUME NEW f \in ToSet(new), f.path = e.path
        PROVE  f = e \/ \E i \in 1 .. k : text.files[i].op = "M" /\ f = N(i)
    <3>1. CASE f = N(k)
      <4>1. x.path = e.path
        BY <1>1, <2>2, <3>1
      <4>2. \A i \in 1 .. k - 1 : text.files[i].path # e.path
        <5>1. ASSUME NEW i \in 1 .. k - 1, text.files[i].path = e.path PROVE FALSE
          <6>1. i \in DOMAIN text.files /\ k \in DOMAIN text.files /\ i # k
            BY <1>1
          <6> QED BY <1>5, <4>1, <5>1, <6>1 DEF Once
        <5> QED BY <5>1
      <4>3. e \in ToSet(old)
        BY <1>5, <4>2 DEF UpdatedTo
      <4>4. x.op = "M"
        BY <2>2, <4>1, <4>3 DEF AppliedTo
      <4> QED BY <1>1, <3>1, <4>4
    <3>2. CASE f \in ToSet(old)
      <4>1. f = e \/ \E i \in 1 .. k - 1 : text.files[i].op = "M" /\ f = N(i)
        BY <1>5, <2>2, <3>2 DEF UpdatedTo
      <4> QED BY <1>1, <4>1
    <3> QED BY <3>1, <3>2 DEF AppliedTo
  <2> QED BY <2>1, <2>2
<1> QED BY <1>3, <1>4, <1>5 DEF UpdatedTo

\* updateManifest as a whole. It frees only nodes of paths that the text names.
LEMMA UpdateManifestElements ==
  ASSUME NEW list \in Seq(Nodes), Once(list), NEW text, text.files \in Seq(Changes),
         text.version \in Int
  PROVE  /\ UpdatedTo(updateManifest(list, text).list, list, text, Len(text.files))
         /\ updateManifest(list, text).freed \subseteq Listed(text.files)
<1> DEFINE n == Len(text.files)
           Paths_(k) == {text.files[i].path : i \in 1 .. k}
           Good(k, st) == \E new, gone : /\ st = [list |-> new, freed |-> gone]
                                         /\ gone \subseteq Paths_(k)
                                         /\ UpdatedTo(new, list, text, k)
<1>1. n \in Nat /\ DOMAIN text.files = 1 .. n
  BY ElementsOf
<1>2. PICK state : IsUpdate(state, list, text) /\ updateManifest(list, text) = state[n]
  BY <1>1, UpdateManifestStates
<1> DEFINE T == {k \in 0 .. n : Good(k, state[k])}
<1>3. 0 \in T
  <2>1. state[0] = [list |-> list, freed |-> {}]
    BY <1>2 DEF IsUpdate
  <2>2. UpdatedTo(list, list, text, 0)
    <3>1. ASSUME NEW e \in ToSet(list), NEW f \in ToSet(list), f.path = e.path PROVE f = e
      <4>1. PICK i \in DOMAIN list, j \in DOMAIN list : e = list[i] /\ f = list[j]
        BY DEF ToSet
      <4> QED BY <3>1, <4>1 DEF Once
    <3> QED BY <3>1 DEF UpdatedTo
  <2>3. Good(0, state[0])
    <3>1. {} \subseteq Paths_(0)
      OBVIOUS
    <3> HIDE DEF Paths_
    <3>2. PICK none : none = {}
      OBVIOUS
    <3>3. /\ state[0] = [list |-> list, freed |-> none]
          /\ none \subseteq Paths_(0) /\ UpdatedTo(list, list, text, 0)
      BY <2>1, <2>2, <3>1, <3>2
    <3> QED BY <3>3
  <2> HIDE DEF Good
  <2> QED BY <1>1, <2>3
<1>4. ASSUME NEW k \in 1 .. n, k - 1 \in T PROVE k \in T
  <2>1. Good(k - 1, state[k - 1])
    <3> HIDE DEF Good
    <3> QED BY <1>4
  <2>2. PICK old, freed : /\ state[k - 1] = [list |-> old, freed |-> freed]
                          /\ freed \subseteq Paths_(k - 1)
                          /\ UpdatedTo(old, list, text, k - 1)
    <3> HIDE DEF Paths_
    <3> QED BY <2>1
  <2>3. state[k] = Applied(state[k - 1], text.files[k], text.version)
    BY <1>2 DEF IsUpdate
  <2>4. old \in Seq(Nodes) /\ Once(old)
    BY <2>2 DEF UpdatedTo
  <2>5. text.files[k] \in Changes
    BY ElementsOf
  <2>6. PICK new, gone :
          /\ state[k] = [list |-> new, freed |-> gone]
          /\ gone \subseteq freed \cup {text.files[k].path}
          /\ AppliedTo(new, old, text.files[k], text.version)
    <3>1. \E new, gone :
            /\ Applied([list |-> old, freed |-> freed], text.files[k], text.version) =
                 [list |-> new, freed |-> gone]
            /\ gone \subseteq freed \cup {text.files[k].path}
            /\ AppliedTo(new, old, text.files[k], text.version)
      BY <2>4, <2>5, AppliedElements
    <3> QED BY <2>2, <2>3, <3>1, Zenon
  <2>7. UpdatedTo(new, list, text, k)
    BY <2>2, <2>6, UpdatedOneMore
  <2>8. gone \subseteq Paths_(k)
    <3>1. Paths_(k - 1) \subseteq Paths_(k) /\ text.files[k].path \in Paths_(k)
      BY <1>1
    <3> HIDE DEF Paths_
    <3> QED BY <2>2, <2>6, <3>1
  <2>9. Good(k, state[k])
    <3> HIDE DEF Paths_
    <3> QED BY <2>6, <2>7, <2>8
  <2> HIDE DEF Good
  <2> QED BY <1>4, <2>9
<1>5. Good(n, state[n])
  <2>1. n \in 0 .. n
    BY <1>1
  <2>2. n \in T
    <3> HIDE DEF T, n
    <3> QED BY <1>1, <1>3, <1>4, <2>1, CountUp
  <2> HIDE DEF Good
  <2> QED BY <2>2
<1>6. Paths_(n) = Listed(text.files)
  BY <1>1 DEF Listed
<1>7. PICK new, gone : /\ state[n] = [list |-> new, freed |-> gone]
                       /\ gone \subseteq Paths_(n) /\ UpdatedTo(new, list, text, n)
  <2> HIDE DEF Paths_
  <2> QED BY <1>5
<1> HIDE DEF Paths_, n
<1>8. updateManifest(list, text).list = new /\ updateManifest(list, text).freed = gone
  BY <1>2, <1>7
<1> QED BY <1>6, <1>7, <1>8 DEF n

-----------------------------------------------------------------------------
(* Reading and writing.                                                    *)

\* The line that is written for a node, or for a change.
Line(e) == [path |-> e.path, fileVersion |-> e.fileVersion, hash |-> e.hash]

LEMMA LineType ==
  ASSUME NEW e, e \in Nodes \/ e \in Changes
  PROVE  /\ Line(e) \in Entries /\ Line(e).path = e.path
         /\ Line(e).fileVersion = e.fileVersion /\ Line(e).hash = e.hash
BY DEF Line, Nodes, Changes, Entries

LEMMA LineOfNode ==
  ASSUME NEW e, NEW v
  PROVE  Line(Node(e, v)) = Line(e) /\ (e \in Entries => Line(e) = e)
BY DEF Line, Node, Entries

LEMMA FunctionIsSeq ==
  ASSUME NEW S, NEW n \in Nat, NEW f \in [1 .. n -> S]
  PROVE  f \in Seq(S) /\ Len(f) = n
OBVIOUS

LEMMA ReadManifestNodes ==
  ASSUME NEW m, m.files \in Seq(Entries), m.version \in Int
  PROVE  /\ readManifest(m) \in Seq(Nodes) /\ Len(readManifest(m)) = Len(m.files)
         /\ \A i \in 1 .. Len(m.files) : readManifest(m)[i] = Node(m.files[i], m.version)
         /\ Once(m.files) => Once(readManifest(m))
<1>1. DOMAIN m.files = 1 .. Len(m.files) /\ Len(m.files) \in Nat
  BY ElementsOf
<1>2. \A i \in 1 .. Len(m.files) : /\ Node(m.files[i], m.version) \in Nodes
                                   /\ Node(m.files[i], m.version).path = m.files[i].path
  BY ElementsOf, NodeType
<1> DEFINE list == readManifest(m)
<1>3. /\ list \in [1 .. Len(m.files) -> Nodes]
      /\ \A i \in 1 .. Len(m.files) : list[i] = Node(m.files[i], m.version)
  BY <1>1, <1>2 DEF readManifest
<1> HIDE DEF list
<1>4. list \in Seq(Nodes) /\ Len(list) = Len(m.files) /\ DOMAIN list = 1 .. Len(m.files)
  BY <1>1, <1>3, FunctionIsSeq
<1>5. ASSUME Once(m.files) PROVE Once(list)
  BY <1>1, <1>2, <1>3, <1>4, <1>5 DEF Once
<1> QED BY <1>3, <1>4, <1>5 DEF list

LEMMA WriteManifestLines ==
  ASSUME NEW list \in Seq(Nodes), list # <<>>
  PROVE  /\ writeManifest(list) = [version |-> list[1].projectVersion,
                                   files |-> writeManifest(list).files]
         /\ writeManifest(list).files \in Seq(Entries)
         /\ Len(writeManifest(list).files) = Len(list) /\ Len(list) # 0
         /\ \A i \in 1 .. Len(list) : writeManifest(list).files[i] = Line(list[i])
         /\ Once(list) => Once(writeManifest(list).files)
<1> DEFINE files == writeManifest(list).files
<1>1. DOMAIN list = 1 .. Len(list) /\ Len(list) \in Nat
  BY ElementsOf
<1>2. \A i \in 1 .. Len(list) : Line(list[i]) \in Entries /\ Line(list[i]).path = list[i].path
  BY ElementsOf, LineType
<1>3. writeManifest(list) = [version |-> Head(list).projectVersion,
                             files |-> [i \in DOMAIN list |-> Line(list[i])]]
  BY DEF writeManifest, Line
<1>4. /\ files \in [1 .. Len(list) -> Entries]
      /\ \A i \in 1 .. Len(list) : files[i] = Line(list[i])
  BY <1>1, <1>2, <1>3
<1>5. writeManifest(list) = [version |-> list[1].projectVersion, files |-> files]
  <2>1. Head(list) = list[1]
    OBVIOUS
  <2>2. files = [i \in DOMAIN list |-> Line(list[i])]
    BY <1>3
  <2> QED BY <1>3, <2>1, <2>2
<1> HIDE DEF files
<1>6. files \in Seq(Entries) /\ Len(files) = Len(list) /\ DOMAIN files = 1 .. Len(list)
  BY <1>1, <1>4, FunctionIsSeq
<1>7. Len(list) # 0
  BY EmptySeq
<1>8. ASSUME Once(list) PROVE Once(files)
  BY <1>1, <1>2, <1>4, <1>6, <1>8 DEF Once
<1> QED BY <1>4, <1>5, <1>6, <1>7, <1>8 DEF files

\* The manifest that a push publishes: its lines are lines of the text, or lines of the
\* old one that the text does not name; no file is listed twice.
Published(w, m, text) ==
  /\ w = [version |-> w.version, files |-> w.files]
  /\ w.files \in Seq(Entries) /\ Len(w.files) # 0 /\ Once(w.files)
  /\ w.version \in {m.version, text.version}
  /\ Listed(m.files) \subseteq Listed(text.files) => w.version = text.version
  /\ \A e \in ToSet(w.files) :
       \/ \E i \in DOMAIN text.files : e = Line(text.files[i])
       \/ e \in ToSet(m.files) /\ e.path \notin Listed(text.files)
  /\ Once(text.files) =>
       \A e \in ToSet(m.files) : \A f \in ToSet(w.files) : f.path = e.path =>
         f = e \/ \E i \in DOMAIN text.files : text.files[i].op = "M" /\ f = Line(text.files[i])

LEMMA UpdatedManifest ==
  ASSUME NEW m, m.files \in Seq(Entries), m.version \in Int, Once(m.files),
         NEW text, text.files \in Seq(Changes), text.version \in Int,
         updateManifest(readManifest(m), text).list # <<>>
  PROVE  Published(writeManifest(updateManifest(readManifest(m), text).list), m, text)
<1> DEFINE list == readManifest(m)
           n == Len(text.files)
<1>1. PICK new : new = updateManifest(list, text).list
  OBVIOUS
<1>2. PICK w : w = writeManifest(new)
  OBVIOUS
<1>3. /\ list \in Seq(Nodes) /\ Len(list) = Len(m.files) /\ Once(list)
      /\ \A i \in 1 .. Len(m.files) : list[i] = Node(m.files[i], m.version)
  BY ReadManifestNodes
<1> HIDE DEF list
<1>4. UpdatedTo(new, list, text, n) /\ new # <<>>
  BY <1>1, <1>3, UpdateManifestElements DEF list
<1>5. new \in Seq(Nodes) /\ Once(new)
  BY <1>4 DEF UpdatedTo
<1>6. /\ w = [version |-> new[1].projectVersion, files |-> w.files]
      /\ w.files \in Seq(Entries) /\ Len(w.files) = Len(new) /\ Len(new) # 0 /\ Once(w.files)
      /\ \A i \in 1 .. Len(new) : w.files[i] = Line(new[i])
  BY <1>2, <1>4, <1>5, WriteManifestLines
<1>7. DOMAIN text.files = 1 .. n /\ n \in Nat /\ \A i \in 1 .. n : text.files[i] \in Changes
  BY ElementsOf
<1>8. DOMAIN m.files = 1 .. Len(m.files) /\ \A i \in 1 .. Len(m.files) : m.files[i] \in Entries
  BY ElementsOf
\* Old nodes are old lines with the old version, and the other way round.
<1>9. ASSUME NEW e \in ToSet(list)
      PROVE  /\ Line(e) \in ToSet(m.files) /\ Line(e).path = e.path
             /\ e.projectVersion = m.version
  <2>1. PICK i \in 1 .. Len(m.files) : e = Node(m.files[i], m.version)
    BY <1>3, ElementsOf
  <2>2. Line(e) = m.files[i]
    BY <1>8, <2>1, LineOfNode
  <2>3. e.projectVersion = m.version /\ e.path = m.files[i].path
    BY <1>8, <2>1, NodeType
  <2> QED BY <1>8, <2>2, <2>3 DEF ToSet
<1>10. ASSUME NEW e \in ToSet(m.files)
       PROVE  \E d \in ToSet(list) : Line(d) = e /\ d.path = e.path
  <2>1. PICK i \in 1 .. Len(m.files) : e = m.files[i]
    BY ElementsOf
  <2>2. list[i] \in ToSet(list)
    BY <1>3, ElementsOf
  <2>3. list[i] = Node(e, m.version) /\ e \in Entries
    BY <1>3, <1>8, <2>1
  <2>4. Line(list[i]) = e /\ list[i].path = e.path
    BY <2>3, LineOfNode, NodeType
  <2> QED BY <2>2, <2>4
<1>11. ASSUME NEW e \in ToSet(new)
       PROVE  \/ \E i \in 1 .. n : e = Node(text.files[i], text.version)
              \/ e \in ToSet(list) /\ \A i \in 1 .. n : text.files[i].path # e.path
  BY <1>4 DEF UpdatedTo
<1>12. ASSUME NEW f \in ToSet(w.files)
       PROVE  \E d \in ToSet(new) : f = Line(d) /\ f.path = d.path
  <2>1. PICK i \in 1 .. Len(new) : f = Line(new[i])
    BY <1>6, ElementsOf
  <2>2. new[i] \in Nodes /\ new[i] \in ToSet(new)
    BY <1>5, ElementsOf
  <2>3. f.path = new[i].path
    BY <2>1, <2>2, LineType
  <2> QED BY <2>1, <2>2, <2>3
<1>13. new[1] \in ToSet(new)
  <2>1. Len(new) \in Nat
    BY <1>5, ElementsOf
  <2>2. 1 \in 1 .. Len(new)
    BY <1>6, <2>1
  <2> QED BY <1>5, <2>2, ElementsOf
<1>14. w.version \in {m.version, text.version}
  <2>1. CASE \E i \in 1 .. n : new[1] = Node(text.files[i], text.version)
    BY <1>6, <1>7, <2>1, NodeType
  <2>2. CASE new[1] \in ToSet(list)
    BY <1>6, <1>9, <2>2
  <2> QED BY <1>11, <1>13, <2>1, <2>2
<1>15. ASSUME Listed(m.files) \subseteq Listed(text.files) PROVE w.version = text.version
  <2>1. CASE \E i \in 1 .. n : new[1] = Node(text.files[i], text.version)
    BY <1>6, <1>7, <2>1, NodeType
  <2>2. CASE new[1] \in ToSet(list) /\ \A i \in 1 .. n : text.files[i].path # new[1].path
    <3>1. new[1].path \in Listed(m.files)
      BY <1>9, <2>2 DEF Listed, ToSet
    <3>2. new[1].path \notin Listed(text.files)
      BY <1>7, <2>2 DEF Listed
    <3> QED BY <1>15, <3>1, <3>2
  <2> QED BY <1>11, <1>13, <2>1, <2>2
<1>16. ASSUME NEW f \in ToSet(w.files)
       PROVE  \/ \E i \in DOMAIN text.files : f = Line(text.files[i])
              \/ f \in ToSet(m.files) /\ f.path \notin Listed(text.files)
  <2>1. PICK d \in ToSet(new) : f = Line(d) /\ f.path = d.path
    BY <1>12
  <2>2. CASE \E i \in 1 .. n : d = Node(text.files[i], text.version)
    BY <1>7, <2>1, <2>2, LineOfNode
  <2>3. CASE d \in ToSet(list) /\ \A i \in 1 .. n : text.files[i].path # d.path
    BY <1>7, <1>9, <2>1, <2>3 DEF Listed
  <2> QED BY <1>11, <2>2, <2>3
<1>17. ASSUME Once(text.files), NEW e \in ToSet(m.files), NEW f \in ToSet(w.files), f.path = e.path
       PROVE  f = e \/ \E i \in DOMAIN text.files : text.files[i].op = "M" /\ f = Line(text.files[i])
  <2>1. PICK d \in ToSet(new) : f = Line(d) /\ f.path = d.path
    BY <1>12
  <2>2. PICK o \in ToSet(list) : Line(o) = e /\ o.path = e.path
    BY <1>10
  <2>3. d = o \/ \E i \in 1 .. n : text.files[i].op = "M" /\ d = Node(text.files[i], text.version)
    BY <1>4, <1>17, <2>1, <2>2 DEF UpdatedTo
  <2> QED BY <1>7, <2>1, <2>2, <2>3, LineOfNode
<1>18. Published(w, m, text)
  <2>1. w = [version |-> w.version, files |-> w.files]
    BY <1>6
  <2> QED BY <2>1, <1>6, <1>14, <1>15, <1>16, <1>17 DEF Published
<1> QED BY <1>1, <1>2, <1>18 DEF list

-----------------------------------------------------------------------------
(* buildCommit, a turn at a time.                                          *)

WalkState(client, server, shared, commit, end) ==
  [client |-> client, server |-> server, shared |-> shared, commit |-> commit, end |-> end]

\* A turn that goes on: the client's next file is not missing, and the server does not
\* list it or lists it with the content that was changed.
GoesOn(client, server, live) ==
  LET x == client[1]
      i == Find(server, x.path)
  IN  /\ live[x.path] # Absent
      /\ i # 0 => x.hash = server[i].hash /\ live[x.path] # x.hash

LEMMA TurnStays ==
  ASSUME NEW client, NEW server, NEW shared, NEW commit, NEW end, NEW live,
         end # "done" \/ client = <<>>
  PROVE  BuildStep(WalkState(client, server, shared, commit, end), live)
           = WalkState(client, server, shared, commit, end)
BY DEF BuildStep, WalkState

LEMMA TurnEnds ==
  ASSUME NEW client \in Seq(Entries), NEW server, NEW shared, NEW commit, NEW live,
         client # <<>>, ~ GoesOn(client, server, live)
  PROVE  \E end : /\ end # "done"
                  /\ BuildStep(WalkState(client, server, shared, commit, "done"), live)
                       = WalkState(client, server, shared, commit, end)
<1> DEFINE w == WalkState(client, server, shared, commit, "done")
           x == client[1]
           i == Find(server, x.path)
<1>1. /\ w.client = client /\ w.server = server /\ w.end = "done" /\ Head(client) = x
  BY DEF WalkState
<1> DEFINE Ended(v) == WalkState(client, server, shared, commit, v)
<1>5. /\ [w EXCEPT !.end = "missing"] = Ended("missing")
      /\ [w EXCEPT !.end = "outdated"] = Ended("outdated")
      /\ [w EXCEPT !.end = "endless"] = Ended("endless")
  BY DEF WalkState
<1>6. SUFFICES \E end : end # "done" /\ BuildStep(w, live) = Ended(end)
  OBVIOUS
<1>2. BuildStep(w, live) =
        IF live[x.path] = Absent THEN [w EXCEPT !.end = "missing"]
        ELSE IF i = 0 THEN Added(w, live) ELSE Compared(w, i, live)
  <2> HIDE DEF w, x
  <2> QED BY <1>1 DEF BuildStep
<1>3. CASE live[x.path] = Absent
  <2>1. BuildStep(w, live) = Ended("missing")
    <3> HIDE DEF w, x, Ended
    <3> QED BY <1>2, <1>3, <1>5
  <2> HIDE DEF w, Ended
  <2> QED BY <2>1
<1>4. CASE live[x.path] # Absent
  <2>1. i # 0 /\ ~ (x.hash = server[i].hash /\ live[x.path] # x.hash)
    BY <1>4 DEF GoesOn
  <2>2. BuildStep(w, live) = Compared(w, i, live)
    BY <1>2, <1>4, <2>1
  <2> HIDE DEF w, x, i
  <2>3. Compared(w, i, live) =
          IF x.hash # server[i].hash
          THEN [w EXCEPT !.end = IF x.fileVersion < server[i].fileVersion
                                 THEN "outdated" ELSE "endless"]
          ELSE IF live[x.path] = x.hash THEN [w EXCEPT !.end = "endless"]
          ELSE Modified(w, i, live)
    BY <1>1 DEF Compared
  <2> HIDE DEF Ended
  <2>4. BuildStep(w, live) = Ended("outdated") \/ BuildStep(w, live) = Ended("endless")
    BY <1>5, <2>1, <2>2, <2>3
  <2> QED BY <2>4
<1> QED BY <1>3, <1>4

LEMMA TurnAdds ==
  ASSUME NEW client \in Seq(Entries), NEW server, NEW shared, NEW commit, NEW live,
         client # <<>>, GoesOn(client, server, live), Find(server, client[1].path) = 0
  PROVE  BuildStep(WalkState(client, server, shared, commit, "done"), live)
           = WalkState(Tail(client), IF server = <<>> THEN server ELSE server \o Tail(client),
                       server # <<>>, Append(commit, Change("A", client[1], live)), "done")
<1> DEFINE w == WalkState(client, server, shared, commit, "done")
<1>1. /\ w.client = client /\ w.server = server /\ w.end = "done" /\ w.commit = commit
      /\ Head(client) = client[1]
  BY DEF WalkState
<1>2. BuildStep(w, live) = Added(w, live)
  <2> HIDE DEF w
  <2> QED BY <1>1 DEF BuildStep, GoesOn
<1>3. Added(w, live) =
        [w EXCEPT !.client = Tail(client),
                  !.commit = Append(commit, Change("A", client[1], live)),
                  !.server = IF server = <<>> THEN server ELSE server \o Tail(client),
                  !.shared = server # <<>>]
  BY <1>1 DEF Added, WalkState
<1> QED BY <1>2, <1>3 DEF WalkState

LEMMA TurnModifies ==
  ASSUME NEW client \in Seq(Entries), NEW server, NEW shared, NEW commit, NEW live,
         client # <<>>, GoesOn(client, server, live), Find(server, client[1].path) # 0
  PROVE  LET i == Find(server, client[1].path)
             own == shared /\ i = Len(server) - Len(client) + 1
         IN  BuildStep(WalkState(client, server, shared, commit, "done"), live)
               = WalkState(IF own THEN <<>> ELSE Tail(client), RemoveAt(server, i), shared,
                           Append(commit, Change("M", server[i], live)), "done")
<1> DEFINE w == WalkState(client, server, shared, commit, "done")
           i == Find(server, client[1].path)
           own == shared /\ i = Len(server) - Len(client) + 1
<1>1. /\ w.client = client /\ w.server = server /\ w.end = "done" /\ w.commit = commit
      /\ w.shared = shared /\ Head(client) = client[1]
  BY DEF WalkState
<1>2. BuildStep(w, live) = Modified(w, i, live)
  <2>1. BuildStep(w, live) = Compared(w, i, live)
    <3> HIDE DEF w
    <3> QED BY <1>1 DEF BuildStep, GoesOn
  <2>2. Compared(w, i, live) = Modified(w, i, live)
    <3> HIDE DEF w
    <3> QED BY <1>1 DEF Compared, GoesOn
  <2> QED BY <2>1, <2>2
<1>3. Modified(w, i, live) =
        [w EXCEPT !.client = IF own THEN <<>> ELSE Tail(client),
                  !.commit = Append(commit, Change("M", server[i], live)),
                  !.server = RemoveAt(server, i)]
  <2> HIDE DEF i
  <2> QED BY <1>1 DEF Modified, WalkState
<1>4. Modified(w, i, live) =
        WalkState(IF own THEN <<>> ELSE Tail(client), RemoveAt(server, i), shared,
                  Append(commit, Change("M", server[i], live)), "done")
  <2> HIDE DEF i, own
  <2> QED BY <1>3 DEF WalkState
<1> QED BY <1>2, <1>4

-----------------------------------------------------------------------------
(* What a commit says of the server's list.                                *)

\* Where the changes first name a file of the list, they remove it, or give it another
\* content and the next file version.
FirstChanges(changes, lines) ==
  \A i \in DOMAIN changes :
    LET x == changes[i]
    IN  (\A k \in 1 .. i - 1 : changes[k].path # x.path) =>
          \A e \in ToSet(lines) : e.path = x.path =>
            \/ x.op = "D"
            \/ x.op = "M" /\ x.fileVersion = e.fileVersion + 1 /\ x.hash # e.hash

\* What is left of the server's list starts with all its lines that no change has named
\* yet; lines of the client may hang on its end.
Originals(left, changes, lines) ==
  \E r \in 0 .. Len(left) :
    /\ \A j \in 1 .. r : left[j] \in ToSet(lines)
    /\ \A e \in ToSet(lines) : e.path \in Listed(changes) \/ \E j \in 1 .. r : left[j] = e

LEMMA ChangeType ==
  ASSUME NEW op \in {"A", "M"}, NEW e \in Entries, NEW live, live[e.path] \in Contents
  PROVE  /\ Change(op, e, live) \in Changes /\ Change(op, e, live).op = op
         /\ Change(op, e, live).path = e.path
         /\ Change(op, e, live).fileVersion = e.fileVersion + 1
         /\ Change(op, e, live).hash = live[e.path]
BY DEF Change, Changes, Entries

LEMMA ListedOf ==
  ASSUME NEW S, NEW list \in Seq(S)
  PROVE  /\ \A j \in 1 .. Len(list) : list[j].path \in Listed(list)
         /\ \A p \in Listed(list) : \E j \in 1 .. Len(list) : p = list[j].path
BY ElementsOf DEF Listed

LEMMA ListedAppend ==
  ASSUME NEW S, NEW list \in Seq(S), NEW e \in S
  PROVE  Listed(list) \subseteq Listed(Append(list, e)) /\ e.path \in Listed(Append(list, e))
<1> DEFINE new == Append(list, e)
<1>1. /\ new \in Seq(S) /\ Len(new) = Len(list) + 1 /\ new[Len(list) + 1] = e
      /\ \A j \in 1 .. Len(list) : new[j] = list[j]
  BY AppendProperties
<1> HIDE DEF new
<1>2. /\ DOMAIN new = 1 .. Len(list) + 1 /\ DOMAIN list = 1 .. Len(list)
      /\ Len(list) \in Nat
  BY <1>1, ElementsOf
<1>3. Listed(list) \subseteq Listed(new)
  <2>1. ASSUME NEW j \in 1 .. Len(list) PROVE list[j].path \in Listed(new)
    <3>1. j \in DOMAIN new /\ new[j].path = list[j].path
      BY <1>1, <1>2
    <3> QED BY <3>1 DEF Listed
  <2> QED BY <1>2, <2>1 DEF Listed
<1>4. e.path \in Listed(new)
  <2>1. Len(list) + 1 \in DOMAIN new
    BY <1>2
  <2> QED BY <1>1, <2>1 DEF Listed
<1> QED BY <1>3, <1>4 DEF new

LEMMA FirstChangesAppend ==
  ASSUME NEW changes \in Seq(Changes), NEW lines, FirstChanges(changes, lines),
         NEW x \in Changes,
         x.path \notin Listed(changes) => \A e \in ToSet(lines) : e.path = x.path =>
           x.op = "M" /\ x.fileVersion = e.fileVersion + 1 /\ x.hash # e.hash
  PROVE  FirstChanges(Append(changes, x), lines)
<1> DEFINE new == Append(changes, x)
<1>1. /\ new \in Seq(Changes) /\ Len(new) = Len(changes) + 1 /\ new[Len(changes) + 1] = x
      /\ \A j \in 1 .. Len(changes) : new[j] = changes[j]
  BY AppendProperties
<1> HIDE DEF new
<1>2. /\ DOMAIN new = 1 .. Len(changes) + 1 /\ DOMAIN changes = 1 .. Len(changes)
      /\ Len(changes) \in Nat
  BY <1>1, ElementsOf
<1>3. SUFFICES ASSUME NEW i \in DOMAIN new, \A k \in 1 .. i - 1 : new[k].path # new[i].path,
                      NEW e \in ToSet(lines), e.path = new[i].path
               PROVE  \/ new[i].op = "D"
                      \/ /\ new[i].op = "M" /\ new[i].fileVersion = e.fileVersion + 1
                         /\ new[i].hash # e.hash
  BY DEF FirstChanges, new
<1>4. CASE i = Len(changes) + 1
  <2>1. x.path \notin Listed(changes)
    <3>1. ASSUME NEW j \in 1 .. Len(changes) PROVE changes[j].path # x.path
      <4>1. j \in 1 .. i - 1 /\ new[j] = changes[j] /\ new[i] = x
        BY <1>1, <1>2, <1>4
      <4> QED BY <1>3, <4>1
    <3> QED BY <1>2, <3>1 DEF Listed
  <2> QED BY <1>1, <1>3, <1>4, <2>1
<1>5. CASE i \in 1 .. Len(changes)
  <2>1. i \in DOMAIN changes /\ new[i] = changes[i]
    BY <1>1, <1>2, <1>5
  <2>2. \A k \in 1 .. i - 1 : changes[k].path # changes[i].path
    <3>1. \A k \in 1 .. i - 1 : k \in 1 .. Len(changes)
      BY <1>2, <1>5
    <3> QED BY <1>1, <1>3, <2>1, <3>1
  <2> QED BY <1>3, <2>1, <2>2 DEF FirstChanges
<1> QED BY <1>2, <1>4, <1>5

\* Naming one more path, and lines of the client on the end.
LEMMA OriginalsExtended ==
  ASSUME NEW left \in Seq(Entries), NEW tail \in Seq(Entries), NEW lines,
         NEW changes, NEW more, Listed(changes) \subseteq Listed(more),
         Originals(left, changes, lines)
  PROVE  Originals(left, more, lines) /\ Originals(left \o tail, more, lines)
<1>1. PICK r \in 0 .. Len(left) :
        /\ \A j \in 1 .. r : left[j] \in ToSet(lines)
        /\ \A e \in ToSet(lines) : e.path \in Listed(changes) \/ \E j \in 1 .. r : left[j] = e
  BY DEF Originals
<1>2. \A e \in ToSet(lines) : e.path \in Listed(more) \/ \E j \in 1 .. r : left[j] = e
  BY <1>1
<1>3. Originals(left, more, lines)
  BY <1>1, <1>2 DEF Originals
<1> DEFINE new == left \o tail
<1>4. /\ Len(new) = Len(left) + Len(tail) /\ Len(left) \in Nat /\ Len(tail) \in Nat
      /\ \A j \in 1 .. Len(left) : new[j] = left[j]
  <2>1. Len(left) \in Nat /\ Len(tail) \in Nat
    BY ElementsOf
  <2>2. /\ Len(new) = Len(left) + Len(tail)
        /\ \A j \in 1 .. Len(left) + Len(tail) :
             new[j] = IF j <= Len(left) THEN left[j] ELSE tail[j - Len(left)]
    BY ConcatProperties
  <2> HIDE DEF new
  <2>3. \A j \in 1 .. Len(left) : j \in 1 .. Len(left) + Len(tail) /\ j <= Len(left)
    BY <2>1
  <2> QED BY <2>1, <2>2, <2>3
<1> HIDE DEF new
<1>5. Originals(new, more, lines)
  <2>1. r \in 0 .. Len(new) /\ \A j \in 1 .. r : new[j] = left[j]
    BY <1>4
  <2>2. \A j \in 1 .. r : new[j] \in ToSet(lines)
    BY <1>1, <2>1
  <2>3. \A e \in ToSet(lines) : e.path \in Listed(more) \/ \E j \in 1 .. r : new[j] = e
    BY <1>2, <2>1
  <2> QED BY <2>1, <2>2, <2>3 DEF Originals
<1> QED BY <1>3, <1>5 DEF new

\* A line is taken out and its path named.
LEMMA OriginalsRemoved ==
  ASSUME NEW left \in Seq(Entries), NEW i \in 1 .. Len(left), NEW lines,
         NEW changes, NEW more, Listed(changes) \subseteq Listed(more),
         left[i].path \in Listed(more), Originals(left, changes, lines)
  PROVE  Originals(RemoveAt(left, i), more, lines)
<1> DEFINE new == RemoveAt(left, i)
<1>1. PICK r \in 0 .. Len(left) :
        /\ \A j \in 1 .. r : left[j] \in ToSet(lines)
        /\ \A e \in ToSet(lines) : e.path \in Listed(changes) \/ \E j \in 1 .. r : left[j] = e
  BY DEF Originals
<1>2. /\ Len(left) \in Nat /\ Len(new) = Len(left) - 1
      /\ \A j \in 1 .. Len(left) - 1 : new[j] = IF j < i THEN left[j] ELSE left[j + 1]
  BY ElementsOf, RemoveAtElements
<1> HIDE DEF new
<1>3. CASE i <= r
  <2>0. PICK q : q = r - 1
    OBVIOUS
  <2>1. r - 1 \in 0 .. Len(new)
    BY <1>2, <1>3
  <2>2. ASSUME NEW j \in 1 .. r - 1 PROVE new[j] \in ToSet(lines)
    <3>1. PICK k \in 1 .. r : new[j] = left[k]
      <4>1. j \in 1 .. Len(left) - 1 /\ j \in 1 .. r /\ j + 1 \in 1 .. r
        BY <1>2, <1>3
      <4> QED BY <1>2, <4>1
    <3> QED BY <1>1, <3>1
  <2>3. ASSUME NEW e \in ToSet(lines), e.path \notin Listed(more)
        PROVE  \E j \in 1 .. r - 1 : new[j] = e
    <3>1. PICK k \in 1 .. r : left[k] = e
      BY <1>1, <2>3
    <3>2. k # i
      BY <2>3, <3>1
    <3>3. CASE k < i
      <4>1. k \in 1 .. r - 1 /\ k \in 1 .. Len(left) - 1
        BY <1>2, <1>3, <3>3
      <4> QED BY <1>2, <3>1, <3>3, <4>1
    <3>4. CASE k > i
      <4>1. /\ k - 1 \in 1 .. r - 1 /\ k - 1 \in 1 .. Len(left) - 1 /\ ~ (k - 1 < i)
            /\ k - 1 + 1 = k
        BY <1>2, <3>4
      <4>2. new[k - 1] = e
        BY <1>2, <3>1, <4>1
      <4> QED BY <4>1, <4>2
    <3> QED BY <3>2, <3>3, <3>4
  <2>4. /\ q \in 0 .. Len(new) /\ \A j \in 1 .. q : new[j] \in ToSet(lines)
        /\ \A e \in ToSet(lines) : e.path \in Listed(more) \/ \E j \in 1 .. q : new[j] = e
    BY <2>0, <2>1, <2>2, <2>3
  <2> QED BY <2>4 DEF Originals, new
<1>4. CASE r < i
  <2>1. r \in 0 .. Len(new) /\ \A j \in 1 .. r : new[j] = left[j]
    BY <1>2, <1>4
  <2>2. \A j \in 1 .. r : new[j] \in ToSet(lines)
    BY <1>1, <2>1
  <2>3. \A e \in ToSet(lines) : e.path \in Listed(more) \/ \E j \in 1 .. r : new[j] = e
    BY <1>1, <2>1
  <2> QED BY <2>1, <2>2, <2>3 DEF Originals, new
<1> QED BY <1>2, <1>3, <1>4 DEF new

\* The search finds the server's own line of a path that no change has named.
LEMMA OriginalsFound ==
  ASSUME NEW left \in Seq(Entries), NEW lines, NEW changes, Originals(left, changes, lines),
         NEW e \in ToSet(lines), e.path \notin Listed(changes)
  PROVE  Find(left, e.path) # 0 /\ left[Find(left, e.path)] \in ToSet(lines)
<1> DEFINE i == Find(left, e.path)
<1>1. PICK r \in 0 .. Len(left) :
        /\ \A j \in 1 .. r : left[j] \in ToSet(lines)
        /\ \A d \in ToSet(lines) : d.path \in Listed(changes) \/ \E j \in 1 .. r : left[j] = d
  BY DEF Originals
<1>2. PICK j \in 1 .. r : left[j] = e
  BY <1>1
<1>3. /\ i \in 0 .. Len(left)
      /\ i = 0 => \A k \in 1 .. Len(left) : left[k].path # e.path
      /\ i # 0 => \A k \in 1 .. i - 1 : left[k].path # e.path
  BY FindFirst
<1>4. j \in 1 .. Len(left) /\ Len(left) \in Nat
  BY ElementsOf
<1> HIDE DEF i
<1>5. i # 0
  BY <1>2, <1>3, <1>4
<1>6. j \notin 1 .. i - 1
  BY <1>2, <1>3, <1>5
<1>7. i \in 1 .. r
  BY <1>3, <1>4, <1>5, <1>6
<1> QED BY <1>1, <1>5, <1>7 DEF i

\* The walk of a client's list over a server's that names no path twice, after any turn.
WalkSoFar(w, client, server) ==
  \E c, s, m, shared, end :
    /\ c \in Seq(Entries) /\ s \in Seq(Entries) /\ m \in Seq(Changes)
    /\ w = WalkState(c, s, shared, m, end)
    /\ Listed(c) \subseteq Listed(client)
    /\ Originals(s, m, server) /\ FirstChanges(m, server)

LEMMA TailEntries ==
  ASSUME NEW c \in Seq(Entries), c # <<>>
  PROVE  /\ Tail(c) \in Seq(Entries) /\ Len(Tail(c)) = Len(c) - 1 /\ Len(c) \in Nat \ {0}
         /\ c[1] \in Entries /\ c[1].path \in Listed(c)
         /\ Listed(Tail(c)) \subseteq Listed(c)
<1>1. /\ Tail(c) \in Seq(Entries) /\ Len(Tail(c)) = Len(c) - 1
      /\ \A j \in 1 .. Len(Tail(c)) : Tail(c)[j] = c[j + 1]
  BY HeadTailProperties
<1>2. Len(c) \in Nat \ {0}
  BY EmptySeq
<1>3. c[1] \in Entries /\ c[1].path \in Listed(c)
  <2>1. 1 \in 1 .. Len(c)
    BY <1>2
  <2> QED BY <2>1, ElementsOf, ListedOf
<1>4. ASSUME NEW p \in Listed(Tail(c)) PROVE p \in Listed(c)
  <2>1. PICK j \in 1 .. Len(Tail(c)) : p = Tail(c)[j].path
    BY <1>1, ListedOf
  <2>2. j + 1 \in 1 .. Len(c) /\ p = c[j + 1].path
    BY <1>1, <1>2, <2>1
  <2> QED BY <2>2, ListedOf
<1> QED BY <1>1, <1>2, <1>3, <1>4

LEMMA WalkOneTurn ==
  ASSUME NEW client \in Seq(Entries), NEW server \in Seq(Entries), Once(server),
         NEW live, \A p \in Listed(client) : live[p] \in Contents \cup {Absent},
         NEW w, WalkSoFar(w, client, server)
  PROVE  WalkSoFar(BuildStep(w, live), client, server)
<1>1. PICK c, s, m, shared, end :
        /\ c \in Seq(Entries) /\ s \in Seq(Entries) /\ m \in Seq(Changes)
        /\ w = WalkState(c, s, shared, m, end)
        /\ Listed(c) \subseteq Listed(client)
        /\ Originals(s, m, server) /\ FirstChanges(m, server)
  BY DEF WalkSoFar
<1>2. CASE end # "done" \/ c = <<>>
  <2>1. BuildStep(w, live) = w
    BY <1>1, <1>2, TurnStays
  <2> QED BY <2>1
<1>3. CASE end = "done" /\ c # <<>> /\ ~ GoesOn(c, s, live)
  <2>1. PICK e : BuildStep(w, live) = WalkState(c, s, shared, m, e)
    BY <1>1, <1>3, TurnEnds
  <2> QED BY <1>1, <2>1 DEF WalkSoFar
<1>4. CASE end = "done" /\ c # <<>> /\ GoesOn(c, s, live)
  <2> DEFINE x == c[1]
             i == Find(s, x.path)
  <2>1. /\ Tail(c) \in Seq(Entries) /\ Listed(Tail(c)) \subseteq Listed(client)
        /\ x \in Entries /\ x.path \in Listed(client)
    BY <1>1, <1>4, TailEntries
  <2>2. live[x.path] \in Contents
    BY <1>4, <2>1 DEF GoesOn
  <2>3. i \in 0 .. Len(s) /\ (i # 0 => s[i].path = x.path)
    BY <1>1, FindFirst
  <2>4. CASE i = 0
    <3> DEFINE a == Change("A", x, live)
               t == IF s = <<>> THEN s ELSE s \o Tail(c)
    <3>1. BuildStep(w, live) = WalkState(Tail(c), t, s # <<>>, Append(m, a), "done")
      BY <1>1, <1>4, <2>4, TurnAdds
    <3>2. a \in Changes /\ a.path = x.path
      BY <2>1, <2>2, ChangeType
    <3> HIDE DEF a
    <3>3. Append(m, a) \in Seq(Changes) /\ Listed(m) \subseteq Listed(Append(m, a))
      BY <1>1, <3>2, AppendProperties, ListedAppend
    <3>4. t \in Seq(Entries)
      BY <1>1, <2>1, ConcatProperties
    <3>5. Originals(t, Append(m, a), server)
      BY <1>1, <2>1, <3>3, OriginalsExtended
    <3>6. a.path \notin Listed(m) => \A e \in ToSet(server) : e.path # a.path
      <4>1. ASSUME NEW e \in ToSet(server), e.path \notin Listed(m), e.path = x.path PROVE FALSE
        <5>1. Find(s, e.path) # 0
          BY <1>1, <4>1, OriginalsFound
        <5> QED BY <2>4, <4>1, <5>1
      <4> QED BY <3>2, <4>1
    <3>7. FirstChanges(Append(m, a), server)
      BY <1>1, <3>2, <3>6, FirstChangesAppend
    <3> HIDE DEF t
    <3> QED BY <2>1, <3>1, <3>3, <3>4, <3>5, <3>7 DEF WalkSoFar
  <2>5. CASE i # 0
    <3> DEFINE a == Change("M", s[i], live)
               rest == IF shared /\ i = Len(s) - Len(c) + 1 THEN <<>> ELSE Tail(c)
    <3>1. BuildStep(w, live) = WalkState(rest, RemoveAt(s, i), shared, Append(m, a), "done")
      BY <1>1, <1>4, <2>5, TurnModifies
    <3>2. i \in 1 .. Len(s) /\ s[i] \in Entries /\ s[i].path = x.path
      <4>1. Len(s) \in Nat
        BY ElementsOf
      <4>2. i \in 1 .. Len(s)
        BY <2>3, <2>5, <4>1
      <4> QED BY <1>1, <2>3, <2>5, <4>2, ElementsOf
    <3>3. /\ a \in Changes /\ a.path = x.path /\ a.op = "M"
          /\ a.fileVersion = s[i].fileVersion + 1 /\ a.hash = live[x.path]
      BY <2>2, <3>2, ChangeType
    <3>4. a.hash # s[i].hash
      BY <1>4, <2>5, <3>3 DEF GoesOn
    <3> HIDE DEF a
    <3>5. /\ Append(m, a) \in Seq(Changes) /\ Listed(m) \subseteq Listed(Append(m, a))
          /\ s[i].path \in Listed(Append(m, a))
      BY <1>1, <3>2, <3>3, AppendProperties, ListedAppend
    <3>6. RemoveAt(s, i) \in Seq(Entries)
      BY <1>1, <3>2, RemoveAtElements
    <3>7. Originals(RemoveAt(s, i), Append(m, a), server)
      <4> HIDE DEF i
      <4> QED BY <1>1, <3>2, <3>5, OriginalsRemoved
    <3>8. ASSUME a.path \notin Listed(m), NEW e \in ToSet(server), e.path = a.path
          PROVE  a.op = "M" /\ a.fileVersion = e.fileVersion + 1 /\ a.hash # e.hash
      <4>1. s[Find(s, e.path)] \in ToSet(server)
        BY <1>1, <3>8, OriginalsFound
      <4>2. s[i] \in ToSet(server)
        BY <3>3, <3>8, <4>1
      <4>3. s[i] = e
        BY <3>2, <3>3, <3>8, <4>2 DEF Once, ToSet
      <4> QED BY <3>3, <3>4, <4>3
    <3>9. FirstChanges(Append(m, a), server)
      BY <1>1, <3>3, <3>8, FirstChangesAppend
    <3>10. rest \in Seq(Entries) /\ Listed(rest) \subseteq Listed(client)
      <4>1. <<>> \in Seq(Entries) /\ Listed(<<>>) = {}
        BY DEF Listed
      <4> QED BY <2>1, <4>1
    <3> HIDE DEF rest, i
    <3> QED BY <3>1, <3>5, <3>6, <3>7, <3>9, <3>10 DEF WalkSoFar
  <2> QED BY <2>4, <2>5
<1> QED BY <1>2, <1>3, <1>4

\* The nodes left over are deletions.
LEMMA DeletedChanges ==
  ASSUME NEW list \in Seq(Entries)
  PROVE  /\ Deleted(list) \in Seq(Changes) /\ Len(Deleted(list)) = Len(list)
         /\ \A j \in 1 .. Len(list) : Deleted(list)[j].op = "D" /\ Deleted(list)[j].path = list[j].path
<1> DEFINE d == Deleted(list)
<1>1. DOMAIN list = 1 .. Len(list) /\ Len(list) \in Nat
  BY ElementsOf
<1>2. \A j \in 1 .. Len(list) : list[j] \in Entries
  BY ElementsOf
<1>3. \A j \in 1 .. Len(list) :
        [op |-> "D", path |-> list[j].path, fileVersion |-> list[j].fileVersion,
         hash |-> list[j].hash] \in Changes
  BY <1>2 DEF Entries, Changes
<1>4. /\ d \in [1 .. Len(list) -> Changes]
      /\ \A j \in 1 .. Len(list) : d[j].op = "D" /\ d[j].path = list[j].path
  BY <1>1, <1>3 DEF Deleted
<1> HIDE DEF d
<1> QED BY <1>1, <1>4, FunctionIsSeq DEF d

\* A commit names every file of the server's list, and what it first says of each is a
\* deletion or the next version of that file.
LEMMA CommitChanges ==
  ASSUME NEW client \in Seq(Entries), NEW server \in Seq(Entries), Once(server),
         NEW live, \A p \in Listed(client) : live[p] \in Contents \cup {Absent}
  PROVE  LET files == buildCommit(client, server, live).files
         IN  /\ files \in Seq(Changes)
             /\ Listed(server) \subseteq Listed(files)
             /\ FirstChanges(files, server)
<1> DEFINE n == Len(client)
<1>1. n \in Nat /\ DOMAIN server = 1 .. Len(server)
  BY ElementsOf
<1>2. PICK walk : /\ IsWalk(walk, client, server, live)
                  /\ buildCommit(client, server, live) =
                       [files |-> walk[n].commit \o Deleted(walk[n].server), end |-> walk[n].end]
  BY <1>1, BuildCommitWalks
<1> DEFINE T == {k \in 0 .. n : WalkSoFar(walk[k], client, server)}
<1>3. 0 \in T
  <2>1. walk[0] = WalkState(client, server, FALSE, <<>>, "done")
    BY <1>2 DEF IsWalk, StartOfWalk, WalkState
  <2>2. PICK none : none = <<>>
    OBVIOUS
  <2>3. none \in Seq(Changes) /\ DOMAIN none = {}
    BY <2>2
  <2>4. FirstChanges(none, server)
    BY <2>3 DEF FirstChanges
  <2>5. Originals(server, none, server)
    <3>1. Len(server) \in 0 .. Len(server) /\ \A j \in 1 .. Len(server) : server[j] \in ToSet(server)
      BY <1>1, ElementsOf
    <3>2. \A e \in ToSet(server) : \E j \in 1 .. Len(server) : server[j] = e
      BY ElementsOf
    <3> QED BY <3>1, <3>2 DEF Originals
  <2>6. WalkSoFar(walk[0], client, server)
    BY <2>1, <2>2, <2>3, <2>4, <2>5 DEF WalkSoFar
  <2> QED BY <1>1, <2>6
<1>4. ASSUME NEW k \in 1 .. n, k - 1 \in T PROVE k \in T
  <2>1. WalkSoFar(walk[k - 1], client, server)
    BY <1>4
  <2>2. walk[k] = BuildStep(walk[k - 1], live)
    BY <1>2 DEF IsWalk
  <2> QED BY <2>1, <2>2, WalkOneTurn
<1>5. WalkSoFar(walk[n], client, server)
  <2>1. n \in 0 .. n
    BY <1>1
  <2>2. n \in T
    <3> HIDE DEF T, n
    <3> QED BY <1>1, <1>3, <1>4, <2>1, CountUp
  <2> QED BY <2>2
<1>6. PICK c, s, m, shared, end :
        /\ c \in Seq(Entries) /\ s \in Seq(Entries) /\ m \in Seq(Changes)
        /\ walk[n] = WalkState(c, s, shared, m, end)
        /\ Originals(s, m, server) /\ FirstChanges(m, server)
  BY <1>5 DEF WalkSoFar
<1> DEFINE d == Deleted(s)
           files == m \o d
<1>7. buildCommit(client, server, live).files = files
  BY <1>2, <1>6 DEF WalkState
<1>8. /\ d \in Seq(Changes) /\ Len(d) = Len(s)
      /\ \A j \in 1 .. Len(s) : d[j].op = "D" /\ d[j].path = s[j].path
  BY <1>6, DeletedChanges
<1> HIDE DEF d
<1>9. /\ files \in Seq(Changes) /\ Len(files) = Len(m) + Len(s)
      /\ \A j \in 1 .. Len(m) + Len(s) :
           files[j] = IF j <= Len(m) THEN m[j] ELSE d[j - Len(m)]
      /\ Len(m) \in Nat /\ Len(s) \in Nat /\ DOMAIN m = 1 .. Len(m)
  <2>1. Len(m) \in Nat /\ Len(s) \in Nat /\ DOMAIN m = 1 .. Len(m)
    BY ElementsOf
  <2>2. /\ files \in Seq(Changes) /\ Len(files) = Len(m) + Len(d)
        /\ \A j \in 1 .. Len(m) + Len(d) :
             files[j] = IF j <= Len(m) THEN m[j] ELSE d[j - Len(m)]
    <3>1. m \in Seq(Changes) /\ d \in Seq(Changes)
      BY <1>6, <1>8
    <3> QED BY ONLY <3>1, ConcatProperties
  <2> HIDE DEF files
  <2> QED BY <1>8, <2>1, <2>2
<1> HIDE DEF files
<1>10. DOMAIN files = 1 .. Len(m) + Len(s)
  BY <1>9, ElementsOf
<1>11. ASSUME NEW e \in ToSet(server) PROVE e.path \in Listed(files)
  <2>1. CASE e.path \in Listed(m)
    <3>1. PICK j \in 1 .. Len(m) : e.path = m[j].path
      BY <1>6, <2>1, ListedOf
    <3>2. j \in 1 .. Len(files) /\ files[j] = m[j]
      BY <1>9, <3>1
    <3> QED BY <1>9, <3>1, <3>2, ListedOf
  <2>2. CASE \E j \in 1 .. Len(s) : s[j] = e
    <3>1. PICK j \in 1 .. Len(s) : s[j] = e
      BY <2>2
    <3>2. PICK k \in 1 .. Len(files) : files[k] = d[j]
      <4>1. /\ Len(m) + j \in 1 .. Len(m) + Len(s) /\ ~ (Len(m) + j <= Len(m))
            /\ Len(m) + j - Len(m) = j
        BY <1>9
      <4>2. files[Len(m) + j] = d[j]
        BY <1>9, <4>1
      <4>3. Len(m) + j \in 1 .. Len(files)
        BY <1>9, <4>1
      <4> QED BY <4>2, <4>3
    <3>3. files[k].path = e.path
      BY <1>8, <3>1, <3>2
    <3> QED BY <1>9, <3>2, <3>3, ListedOf
  <2> QED BY <1>6, <1>9, <2>1, <2>2 DEF Originals
<1>12. FirstChanges(files, server)
  <2>1. SUFFICES ASSUME NEW i \in DOMAIN files,
                        \A k \in 1 .. i - 1 : files[k].path # files[i].path,
                        NEW e \in ToSet(server), e.path = files[i].path
                 PROVE  \/ files[i].op = "D"
                        \/ /\ files[i].op = "M" /\ files[i].fileVersion = e.fileVersion + 1
                           /\ files[i].hash # e.hash
    BY DEF FirstChanges
  <2>2. CASE i <= Len(m)
    <3>1. i \in DOMAIN m /\ files[i] = m[i]
      BY <1>9, <1>10, <2>2
    <3>2. \A k \in 1 .. i - 1 : files[k] = m[k]
      BY <1>9, <1>10, <2>2
    <3>3. \A k \in 1 .. i - 1 : m[k].path # m[i].path
      BY <2>1, <3>1, <3>2
    <3> QED BY <1>6, <2>1, <3>1, <3>3 DEF FirstChanges
  <2>3. CASE ~ (i <= Len(m))
    <3>1. i - Len(m) \in 1 .. Len(s) /\ files[i] = d[i - Len(m)]
      BY <1>9, <1>10, <2>3
    <3> QED BY <1>8, <3>1
  <2> QED BY <2>2, <2>3
<1>13. Listed(server) \subseteq Listed(files)
  BY <1>1, <1>11 DEF Listed, ToSet
<1> QED BY <1>7, <1>9, <1>12, <1>13

-----------------------------------------------------------------------------
(* updateManifestPush.                                                     *)

\* The client's nodes stay in their places; each has its version or the text's.
TakenFrom(new, list, version) ==
  /\ new \in Seq(Nodes) /\ Len(new) = Len(list)
  /\ \A i \in 1 .. Len(list) :
       new[i].path = list[i].path /\ new[i].projectVersion \in {list[i].projectVersion, version}

LEMMA TakenElements ==
  ASSUME NEW list \in Seq(Nodes), NEW x \in Changes, NEW version \in Int
  PROVE  TakenFrom(Taken(list, x, version), list, version)
<1> DEFINE i == Find(list, x.path)
           n == Node(x, version)
<1>1. Len(list) \in Nat /\ \A j \in 1 .. Len(list) : list[j] \in Nodes
  BY ElementsOf
<1>2. i \in 0 .. Len(list) /\ (i # 0 => list[i].path = x.path)
  BY FindFirst
<1>3. n \in Nodes /\ n.path = x.path /\ n.projectVersion = version
  BY NodeType
<1>4. Taken(list, x, version) = IF i = 0 THEN list ELSE [list EXCEPT ![i] = n]
  BY DEF Taken
<1> HIDE DEF i, n
<1>5. CASE i = 0
  BY <1>4, <1>5 DEF TakenFrom
<1>6. CASE i # 0
  <2>1. i \in 1 .. Len(list)
    BY <1>1, <1>2, <1>6
  <2> DEFINE new == [list EXCEPT ![i] = n]
  <2>2. /\ new \in Seq(Nodes) /\ Len(new) = Len(list)
        /\ \A j \in 1 .. Len(list) : new[j] = IF j = i THEN n ELSE list[j]
    BY <1>3, <2>1, ExceptSeq
  <2> HIDE DEF new
  <2>3. TakenFrom(new, list, version)
    BY <1>2, <1>3, <1>6, <2>2 DEF TakenFrom
  <2> QED BY <1>4, <1>6, <2>3 DEF new
<1> QED BY <1>5, <1>6

LEMMA UpdateManifestPushElements ==
  ASSUME NEW list \in Seq(Nodes), NEW text, text.files \in Seq(Changes), text.version \in Int
  PROVE  TakenFrom(updateManifestPush(list, text), list, text.version)
<1> DEFINE n == Len(text.files)
<1>1. n \in Nat
  BY ElementsOf
<1>2. PICK state : IsUpdatePush(state, list, text) /\ updateManifestPush(list, text) = state[n]
  BY <1>1, UpdateManifestPushStates
<1> DEFINE T == {k \in 0 .. n : TakenFrom(state[k], list, text.version)}
<1>3. 0 \in T
  <2>1. state[0] = list
    BY <1>2 DEF IsUpdatePush
  <2>2. TakenFrom(list, list, text.version)
    BY DEF TakenFrom
  <2> QED BY <1>1, <2>1, <2>2
<1>4. ASSUME NEW k \in 1 .. n, k - 1 \in T PROVE k \in T
  <2>1. TakenFrom(state[k - 1], list, text.version)
    BY <1>4
  <2>2. state[k - 1] \in Seq(Nodes) /\ text.files[k] \in Changes
    BY <2>1, ElementsOf DEF TakenFrom
  <2>3. TakenFrom(Taken(state[k - 1], text.files[k], text.version), state[k - 1], text.version)
    BY <2>2, TakenElements
  <2>4. state[k] = Taken(state[k - 1], text.files[k], text.version)
    BY <1>2 DEF IsUpdatePush
  <2>5. TakenFrom(state[k], list, text.version)
    BY <2>1, <2>3, <2>4 DEF TakenFrom
  <2> QED BY <1>4, <2>5
<1>5. n \in T
  <2>1. n \in 0 .. n
    BY <1>1
  <2> HIDE DEF T, n
  <2> QED BY <1>1, <1>3, <1>4, <2>1, CountUp
<1> QED BY <1>2, <1>5
-----------------------------------------------------------------------------
(* A text that names the files of a list in their order.                   *)

InOrder(list, text) ==
  \A i \in 1 .. Len(list) : i <= Len(text.files) => text.files[i].path = list[i].path

\* The list after k changes: their nodes are the first ones, the others are the old ones.
InPlace(new, list, text, k) ==
  /\ new \in Seq(Nodes) /\ Len(new) = (IF k <= Len(list) THEN Len(list) ELSE k)
  /\ \A i \in 1 .. k : new[i] = Node(text.files[i], text.version)
  /\ \A i \in k + 1 .. Len(list) : new[i] = list[i]

\* The next change finds its node in its place; the list may have come to its end.
LEMMA FoundInPlace ==
  ASSUME NEW list \in Seq(Nodes), Once(list), NEW text, text.files \in Seq(Changes),
         text.version \in Int, Once(text.files), InOrder(list, text),
         NEW k \in 1 .. Len(text.files), NEW old, InPlace(old, list, text, k - 1)
  PROVE  Find(old, text.files[k].path) = IF k <= Len(list) THEN k ELSE 0
<1> DEFINE n == Len(text.files)
           x(i) == text.files[i]
           f == Find(old, text.files[k].path)
<1>1. /\ DOMAIN text.files = 1 .. n /\ n \in Nat /\ DOMAIN list = 1 .. Len(list) /\ Len(list) \in Nat
      /\ \A i \in 1 .. n : x(i) \in Changes
  BY ElementsOf
<1>2. /\ old \in Seq(Nodes) /\ Len(old) = (IF k <= Len(list) THEN Len(list) ELSE k - 1)
      /\ \A i \in 1 .. k - 1 : old[i] = Node(x(i), text.version)
      /\ \A i \in k .. Len(list) : old[i] = list[i]
  BY <1>1 DEF InPlace
<1>3. /\ f \in 0 .. Len(old)
      /\ f = 0 => \A j \in 1 .. Len(old) : old[j].path # x(k).path
      /\ f # 0 => old[f].path = x(k).path
  BY <1>2, FindFirst
<1> HIDE DEF f
<1>4. ASSUME NEW i \in 1 .. k - 1 PROVE old[i].path # x(k).path
  <2>1. i \in 1 .. n /\ i # k
    BY <1>1
  <2>2. x(i).path # x(k).path
    BY <1>1, <2>1 DEF Once
  <2> QED BY <1>1, <1>2, <2>1, <2>2, NodeType
<1>5. ASSUME NEW i \in k + 1 .. Len(list) PROVE old[i].path # x(k).path
  <2>1. i \in 1 .. Len(list) /\ k \in 1 .. Len(list) /\ i # k /\ i \in k .. Len(list)
    BY <1>1
  <2>2. list[i].path # list[k].path
    BY <1>1, <2>1 DEF Once
  <2>3. x(k).path = list[k].path
    BY <1>1, <2>1 DEF InOrder
  <2> QED BY <1>2, <2>1, <2>2, <2>3
<1>6. CASE k <= Len(list)
  <2>1. k \in 1 .. Len(list) /\ k \in k .. Len(list) /\ k \in 1 .. Len(old)
    BY <1>1, <1>2, <1>6
  <2>2. old[k].path = x(k).path
    BY <1>1, <1>2, <2>1 DEF InOrder
  <2>3. f # 0
    BY <1>3, <2>1, <2>2
  <2>4. f \in 1 .. k - 1 \/ f = k \/ f \in k + 1 .. Len(list)
    BY <1>1, <1>2, <1>3, <1>6, <2>3
  <2>5. f = k
    BY <1>3, <1>4, <1>5, <2>3, <2>4
  <2> QED BY <1>6, <2>5 DEF f
<1>7. CASE ~ (k <= Len(list))
  <2>1. f = 0 \/ f \in 1 .. k - 1
    BY <1>1, <1>2, <1>3, <1>7
  <2>2. f = 0
    BY <1>1, <1>3, <1>4, <2>1
  <2> QED BY <1>7, <2>2 DEF f
<1> QED BY <1>6, <1>7

\* One more node in its place.
LEMMA ReplacedInPlace ==
  ASSUME NEW list \in Seq(Nodes), NEW text, text.files \in Seq(Changes), text.version \in Int,
         NEW k \in 1 .. Len(text.files), NEW old, InPlace(old, list, text, k - 1)
  PROVE  /\ k <= Len(list) =>
              InPlace([old EXCEPT ![k] = Node(text.files[k], text.version)], list, text, k)
         /\ ~ (k <= Len(list)) =>
              InPlace(Append(old, Node(text.files[k], text.version)), list, text, k)
<1> DEFINE x == Node(text.files[k], text.version)
<1>1. Len(text.files) \in Nat /\ Len(list) \in Nat /\ x \in Nodes
  BY ElementsOf, NodeType
<1>2. /\ old \in Seq(Nodes) /\ Len(old) = (IF k <= Len(list) THEN Len(list) ELSE k - 1)
      /\ \A i \in 1 .. k - 1 : old[i] = Node(text.files[i], text.version)
      /\ \A i \in k .. Len(list) : old[i] = list[i]
  BY <1>1 DEF InPlace
<1>3. \A i \in 1 .. k : i \in 1 .. k - 1 \/ i = k
  BY <1>1
<1>4. ASSUME k <= Len(list) PROVE InPlace([old EXCEPT ![k] = x], list, text, k)
  <2> HIDE DEF x
  <2>1. k \in 1 .. Len(old) /\ Len(old) = Len(list)
    BY <1>1, <1>2, <1>4
  <2>2. PICK new : new = [old EXCEPT ![k] = x]
    OBVIOUS
  <2>3. /\ new \in Seq(Nodes) /\ Len(new) = Len(old)
        /\ \A j \in 1 .. Len(old) : new[j] = IF j = k THEN x ELSE old[j]
    BY <1>1, <1>2, <2>1, <2>2, ExceptSeq
  <2>4. \A i \in 1 .. k : new[i] = Node(text.files[i], text.version)
    <3>1. \A i \in 1 .. k - 1 : i \in 1 .. Len(old) /\ i # k
      BY <1>1, <2>1
    <3> QED BY <1>2, <1>3, <2>1, <2>3, <3>1 DEF x
  <2>5. \A i \in k + 1 .. Len(list) : new[i] = list[i]
    <3>1. \A i \in k + 1 .. Len(list) : i \in 1 .. Len(old) /\ i # k /\ i \in k .. Len(list)
      BY <1>1, <2>1
    <3> QED BY <1>2, <2>3, <3>1
  <2> QED BY <1>4, <2>1, <2>2, <2>3, <2>4, <2>5 DEF InPlace
<1>5. ASSUME ~ (k <= Len(list)) PROVE InPlace(Append(old, x), list, text, k)
  <2> HIDE DEF x
  <2>1. Len(old) = k - 1
    BY <1>1, <1>2, <1>5
  <2>2. PICK new : new = Append(old, x)
    OBVIOUS
  <2>3. /\ new \in Seq(Nodes) /\ Len(new) = k /\ new[k] = x
        /\ \A j \in 1 .. k - 1 : new[j] = old[j]
    BY <1>1, <1>2, <2>1, <2>2, AppendProperties
  <2>4. \A i \in 1 .. k : new[i] = Node(text.files[i], text.version)
    BY <1>2, <1>3, <2>3 DEF x
  <2>5. \A i \in k + 1 .. Len(list) : FALSE
    BY <1>1, <1>5
  <2> QED BY <1>5, <2>2, <2>3, <2>4, <2>5 DEF InPlace
<1> QED BY <1>4, <1>5

LEMMA AppliedIs ==
  ASSUME NEW list, NEW freed, NEW x, NEW version, NEW i, i = Find(list, x.path),
         NEW y, y = Node(x, version)
  PROVE  /\ i = 0 =>
              Applied([list |-> list, freed |-> freed], x, version)
                = [list |-> Append(list, y), freed |-> freed]
         /\ i # 0 /\ x.op = "M" =>
              Applied([list |-> list, freed |-> freed], x, version)
                = [list |-> [list EXCEPT ![i] = y], freed |-> freed]
<1> DEFINE state == [list |-> list, freed |-> freed]
<1>1. state.list = list /\ state.freed = freed
  OBVIOUS
<1>2. \A new : [state EXCEPT !.list = new] = [list |-> new, freed |-> freed]
  OBVIOUS
<1>3. Applied(state, x, version) =
        IF i = 0 THEN [state EXCEPT !.list = Append(list, y)]
        ELSE IF x.op = "M" THEN [state EXCEPT !.list = [list EXCEPT ![i] = y]]
        ELSE [list |-> RemoveAt(state.list, i), freed |-> state.freed \cup {x.path}]
  BY <1>1 DEF Applied
<1> HIDE DEF state
<1> QED BY <1>2, <1>3 DEF state

\* updateManifest frees no node if the changes of listed files are modifications, and
\* appends the others.
LEMMA UpdateManifestInPlace ==
  ASSUME NEW list \in Seq(Nodes), Once(list), NEW text, text.files \in Seq(Changes),
         text.version \in Int, Once(text.files), InOrder(list, text),
         \A i \in 1 .. Len(text.files) : i <= Len(list) => text.files[i].op = "M"
  PROVE  /\ updateManifest(list, text).freed = {}
         /\ InPlace(updateManifest(list, text).list, list, text, Len(text.files))
<1>0. PICK none : none = {}
  OBVIOUS
<1> DEFINE n == Len(text.files)
           Good(k, st) == \E new : /\ st = [list |-> new, freed |-> none]
                                   /\ InPlace(new, list, text, k)
<1>1. n \in Nat /\ Len(list) \in Nat
  BY ElementsOf
<1>2. PICK state : IsUpdate(state, list, text) /\ updateManifest(list, text) = state[n]
  BY <1>1, UpdateManifestStates
<1> DEFINE T == {k \in 0 .. n : Good(k, state[k])}
<1>3. 0 \in T
  <2>1. state[0] = [list |-> list, freed |-> none]
    BY <1>0, <1>2 DEF IsUpdate
  <2>2. InPlace(list, list, text, 0)
    BY <1>1 DEF InPlace
  <2>3. Good(0, state[0])
    BY <2>1, <2>2
  <2> HIDE DEF Good
  <2> QED BY <1>1, <2>3
<1>4. ASSUME NEW k \in 1 .. n, k - 1 \in T PROVE k \in T
  <2>1. PICK old : state[k - 1] = [list |-> old, freed |-> none] /\ InPlace(old, list, text, k - 1)
    BY <1>4
  <2>2. PICK x, i, v, y : /\ x = text.files[k] /\ i = Find(old, x.path)
                       /\ v = text.version /\ y = Node(x, v)
    OBVIOUS
  <2>3. state[k] = Applied(state[k - 1], x, v)
    BY <1>2, <2>2 DEF IsUpdate
  <2>4. i = IF k <= Len(list) THEN k ELSE 0
    BY <2>1, <2>2, FoundInPlace
  <2>5. /\ k <= Len(list) => InPlace([old EXCEPT ![k] = y], list, text, k)
        /\ ~ (k <= Len(list)) => InPlace(Append(old, y), list, text, k)
    BY <2>1, <2>2, ReplacedInPlace
  <2>6. /\ i = 0 => Applied([list |-> old, freed |-> none], x, v)
                     = [list |-> Append(old, y), freed |-> none]
        /\ i # 0 /\ x.op = "M" => Applied([list |-> old, freed |-> none], x, v)
                     = [list |-> [old EXCEPT ![i] = y], freed |-> none]
    BY <2>2, AppliedIs
  <2>7. CASE k <= Len(list)
    <3>1. x.op = "M" /\ i = k /\ i # 0
      BY <1>1, <2>2, <2>4, <2>7
    <3>2. Applied(state[k - 1], x, v) = [list |-> [old EXCEPT ![k] = y], freed |-> none]
      BY <2>1, <2>6, <3>1
    <3>3. Good(k, state[k])
      BY <2>3, <2>5, <2>7, <3>2
    <3> HIDE DEF Good
    <3> QED BY <1>4, <3>3
  <2>8. CASE ~ (k <= Len(list))
    <3>1. i = 0
      BY <2>4, <2>8
    <3>2. Applied(state[k - 1], x, v) = [list |-> Append(old, y), freed |-> none]
      BY <2>1, <2>6, <3>1
    <3>3. Good(k, state[k])
      BY <2>3, <2>5, <2>8, <3>2
    <3> HIDE DEF Good
    <3> QED BY <1>4, <3>3
  <2> QED BY <2>7, <2>8
<1>5. n \in T
  <2>1. n \in 0 .. n
    BY <1>1
  <2> HIDE DEF T, n
  <2> QED BY <1>1, <1>3, <1>4, <2>1, CountUp
<1>6. PICK new : state[n] = [list |-> new, freed |-> none] /\ InPlace(new, list, text, n)
  BY <1>5
<1> HIDE DEF n
<1>7. updateManifest(list, text).list = new /\ updateManifest(list, text).freed = {}
  BY <1>0, <1>2, <1>6
<1> QED BY <1>6, <1>7 DEF n

\* updateManifestPush does the same to a list that has all the files.
LEMMA UpdateManifestPushInPlace ==
  ASSUME NEW list \in Seq(Nodes), Once(list), NEW text, text.files \in Seq(Changes),
         text.version \in Int, Once(text.files), InOrder(list, text),
         Len(text.files) <= Len(list)
  PROVE  InPlace(updateManifestPush(list, text), list, text, Len(text.files))
<1> DEFINE n == Len(text.files)
<1>1. n \in Nat /\ Len(list) \in Nat
  BY ElementsOf
<1>2. PICK state : IsUpdatePush(state, list, text) /\ updateManifestPush(list, text) = state[n]
  BY <1>1, UpdateManifestPushStates
<1> DEFINE T == {k \in 0 .. n : InPlace(state[k], list, text, k)}
<1>3. 0 \in T
  <2>1. state[0] = list
    BY <1>2 DEF IsUpdatePush
  <2>2. InPlace(list, list, text, 0)
    BY <1>1 DEF InPlace
  <2> QED BY <1>1, <2>1, <2>2
<1>4. ASSUME NEW k \in 1 .. n, k - 1 \in T PROVE k \in T
  <2>1. PICK old : old = state[k - 1] /\ InPlace(old, list, text, k - 1)
    BY <1>4
  <2>2. PICK x, v : x = text.files[k] /\ v = text.version
    OBVIOUS
  <2>3. state[k] = Taken(old, x, v)
    BY <1>2, <2>1, <2>2 DEF IsUpdatePush
  <2>4. k <= Len(list) /\ k # 0
    BY <1>1
  <2>5. Find(old, x.path) = k
    BY <2>1, <2>2, <2>4, FoundInPlace
  <2>6. InPlace([old EXCEPT ![k] = Node(x, v)], list, text, k)
    BY <2>1, <2>2, <2>4, ReplacedInPlace
  <2>7. Taken(old, x, v) = [old EXCEPT ![k] = Node(x, v)]
    BY <2>4, <2>5 DEF Taken
  <2> QED BY <1>4, <2>3, <2>6, <2>7
<1>5. n \in T
  <2>1. n \in 0 .. n
    BY <1>1
  <2> HIDE DEF T, n
  <2> QED BY <1>1, <1>3, <1>4, <2>1, CountUp
<1> QED BY <1>2, <1>5
-----------------------------------------------------------------------------
(* The walk over a list that begins with the server's.                     *)

\* The first k changes.
FirstOfPrefix(changes, client, server, k) ==
  /\ changes \in Seq(Changes) /\ Len(changes) = k
  /\ \A i \in 1 .. k : /\ changes[i].path = client[i].path
                       /\ changes[i].fileVersion = client[i].fileVersion + 1
                       /\ i <= Len(server) => changes[i].op = "M" /\ changes[i].hash # server[i].hash

\* The list without its first k elements.
Without(list, k, S, rest) ==
  /\ rest \in Seq(S) /\ Len(rest) = (IF k <= Len(list) THEN Len(list) - k ELSE 0)
  /\ \A j \in 1 .. Len(rest) : rest[j] = list[j + k]

WalkedPrefix(walk, client, server, k) ==
  \E c, s, shared, m, end :
    /\ walk = WalkState(c, s, shared, m, end) /\ shared = FALSE
    /\ end = "done" => /\ Without(client, k, Entries, c) /\ Without(server, k, Entries, s)
                       /\ FirstOfPrefix(m, client, server, k)

LEMMA WithoutOneMore ==
  ASSUME NEW S, NEW list \in Seq(S), NEW k \in Nat \ {0}, NEW rest, Without(list, k - 1, S, rest)
  PROVE  /\ k <= Len(list) => /\ rest # <<>> /\ rest[1] = list[k] /\ Len(rest) \in Nat \ {0}
                              /\ Without(list, k, S, Tail(rest))
         /\ ~ (k <= Len(list)) => rest = <<>> /\ Without(list, k, S, rest)
<1>1. /\ Len(list) \in Nat /\ rest \in Seq(S) /\ Len(rest) \in Nat
      /\ Len(rest) = (IF k - 1 <= Len(list) THEN Len(list) - (k - 1) ELSE 0)
      /\ \A j \in 1 .. Len(rest) : rest[j] = list[j + (k - 1)]
  BY ElementsOf DEF Without
<1>2. CASE k <= Len(list)
  <2>1. Len(rest) = Len(list) - k + 1 /\ Len(rest) # 0 /\ 1 \in 1 .. Len(rest)
    BY <1>1, <1>2
  <2>2. rest # <<>> /\ rest[1] = list[k]
    BY <1>1, <2>1
  <2>3. PICK t : t = Tail(rest)
    OBVIOUS
  <2>4. /\ t \in Seq(S) /\ Len(t) = Len(rest) - 1
        /\ \A j \in 1 .. Len(t) : t[j] = rest[j + 1]
    BY <1>1, <2>2, <2>3, HeadTailProperties
  <2>5. \A j \in 1 .. Len(t) : j + 1 \in 1 .. Len(rest) /\ j + 1 + (k - 1) = j + k
    BY <1>1, <2>1, <2>4
  <2>6. \A j \in 1 .. Len(t) : t[j] = list[j + k]
    BY <1>1, <2>4, <2>5
  <2>7. Without(list, k, S, t)
    BY <1>1, <1>2, <2>1, <2>4, <2>6 DEF Without
  <2> QED BY <1>1, <1>2, <2>1, <2>2, <2>3, <2>7
<1>3. CASE ~ (k <= Len(list))
  <2>1. Len(rest) = 0
    BY <1>1, <1>3
  <2>2. rest = <<>>
    BY <1>1, <2>1
  <2>3. Without(list, k, S, rest)
    BY <1>1, <1>3, <2>1 DEF Without
  <2> QED BY <1>3, <2>2, <2>3
<1> QED BY <1>2, <1>3

LEMMA FirstOneMore ==
  ASSUME NEW client \in Seq(Entries), NEW server \in Seq(Entries), NEW k \in 1 .. Len(client),
         NEW m, FirstOfPrefix(m, client, server, k - 1), NEW x \in Changes,
         x.path = client[k].path, x.fileVersion = client[k].fileVersion + 1,
         k <= Len(server) => x.op = "M" /\ x.hash # server[k].hash
  PROVE  FirstOfPrefix(Append(m, x), client, server, k)
<1>1. Len(client) \in Nat /\ m \in Seq(Changes) /\ Len(m) = k - 1
  BY ElementsOf DEF FirstOfPrefix
<1>2. PICK new : new = Append(m, x)
  OBVIOUS
<1>3. /\ new \in Seq(Changes) /\ Len(new) = k /\ new[k] = x
      /\ \A i \in 1 .. k - 1 : new[i] = m[i]
  BY <1>1, <1>2, AppendProperties
<1>4. \A i \in 1 .. k : i \in 1 .. k - 1 \/ i = k
  BY <1>1
<1>5. ASSUME NEW i \in 1 .. k
      PROVE  /\ new[i].path = client[i].path
             /\ new[i].fileVersion = client[i].fileVersion + 1
             /\ i <= Len(server) => new[i].op = "M" /\ new[i].hash # server[i].hash
  <2>1. CASE i = k
    <3>1. new[i] = x
      BY <1>3, <2>1
    <3> QED BY <2>1, <3>1
  <2>2. CASE i # k
    <3>1. i \in 1 .. k - 1 /\ new[i] = m[i]
      BY <1>3, <1>4, <2>2
    <3>2. /\ m[i].path = client[i].path
          /\ m[i].fileVersion = client[i].fileVersion + 1
          /\ i <= Len(server) => m[i].op = "M" /\ m[i].hash # server[i].hash
      BY <3>1 DEF FirstOfPrefix
    <3> QED BY <3>1, <3>2
  <2> QED BY <2>1, <2>2
<1>6. FirstOfPrefix(new, client, server, k)
  BY <1>3, <1>5 DEF FirstOfPrefix
<1> QED BY <1>2, <1>6

LEMMA PrefixOneTurn ==
  ASSUME NEW client \in Seq(Entries), NEW server \in Seq(Entries), Once(client),
         Len(server) <= Len(client), \A i \in 1 .. Len(server) : server[i] = client[i],
         NEW live, \A p \in Listed(client) : live[p] \in Contents \cup {Absent},
         NEW k \in 1 .. Len(client), NEW w, WalkedPrefix(w, client, server, k - 1)
  PROVE  WalkedPrefix(BuildStep(w, live), client, server, k)
<1>1. PICK c, s, shared, m, end :
        /\ w = WalkState(c, s, shared, m, end) /\ shared = FALSE
        /\ end = "done" => /\ Without(client, k - 1, Entries, c) /\ Without(server, k - 1, Entries, s)
                           /\ FirstOfPrefix(m, client, server, k - 1)
  BY DEF WalkedPrefix
<1>2. ASSUME NEW e, e # "done", BuildStep(w, live) = WalkState(c, s, shared, m, e)
      PROVE  WalkedPrefix(BuildStep(w, live), client, server, k)
  <2>1. e = "done" => /\ Without(client, k, Entries, c) /\ Without(server, k, Entries, s)
                      /\ FirstOfPrefix(m, client, server, k)
    BY <1>2
  <2> QED BY <1>1, <1>2, <2>1 DEF WalkedPrefix
<1>3. CASE end # "done"
  <2>1. BuildStep(w, live) = WalkState(c, s, shared, m, end)
    BY <1>1, <1>3, TurnStays
  <2> QED BY <1>3, <1>2, <2>1
<1>4. CASE end = "done"
  <2>1. /\ Len(client) \in Nat /\ Len(server) \in Nat /\ k \in Nat \ {0} /\ k <= Len(client)
        /\ client[k] \in Entries /\ client[k].path \in Listed(client)
    BY ElementsOf, ListedOf
  <2>2. /\ c # <<>> /\ c[1] = client[k] /\ Without(client, k, Entries, Tail(c))
        /\ c \in Seq(Entries) /\ Len(c) \in Nat \ {0}
    BY <1>1, <1>4, <2>1, WithoutOneMore DEF Without
  <2>3. /\ s \in Seq(Entries) /\ Len(s) \in Nat
        /\ k <= Len(server) => s # <<>> /\ s[1] = server[k] /\ Without(server, k, Entries, Tail(s))
        /\ ~ (k <= Len(server)) => s = <<>> /\ Without(server, k, Entries, s)
    <3>1. Without(server, k - 1, Entries, s)
      BY <1>1, <1>4
    <3>2. s \in Seq(Entries) /\ Len(s) \in Nat
      BY <3>1 DEF Without
    <3> QED BY <2>1, <3>1, <3>2, WithoutOneMore
  <2>4. FirstOfPrefix(m, client, server, k - 1)
    BY <1>1, <1>4
  <2>5. CASE ~ GoesOn(c, s, live)
    <3>1. PICK e : e # "done" /\ BuildStep(w, live) = WalkState(c, s, shared, m, e)
      <4>1. \E e : /\ e # "done"
                   /\ BuildStep(WalkState(c, s, shared, m, "done"), live) = WalkState(c, s, shared, m, e)
        BY <2>2, <2>5, TurnEnds
      <4> QED BY <1>1, <1>4, <4>1
    <3> QED BY <1>2, <3>1
  <2>6. CASE GoesOn(c, s, live) /\ k <= Len(server)
    <3>1. Find(s, c[1].path) = 1
      <4>1. s[1] = c[1] /\ 1 \in 1 .. Len(s)
        <5>1. k \in 1 .. Len(server)
          BY <2>1, <2>6
        <5>2. Len(s) # 0
          BY <2>3, <2>6
        <5> QED BY <2>2, <2>3, <2>6, <5>1, <5>2
      <4>2. PICK i : i = Find(s, c[1].path)
        OBVIOUS
      <4>3. /\ i \in 0 .. Len(s)
            /\ i = 0 => \A j \in 1 .. Len(s) : s[j].path # c[1].path
            /\ i # 0 => \A j \in 1 .. i - 1 : s[j].path # c[1].path
        BY <2>3, <4>2, FindFirst
      <4>4. i # 0
        BY <4>1, <4>3
      <4>5. ~ (1 \in 1 .. i - 1)
        BY <4>1, <4>3, <4>4
      <4> QED BY <2>3, <4>2, <4>3, <4>4, <4>5
    <3>2. PICK x : x = Change("M", s[1], live)
      OBVIOUS
    <3>3. BuildStep(w, live) = WalkState(Tail(c), RemoveAt(s, 1), shared, Append(m, x), "done")
      <4>1. Find(s, c[1].path) # 0
        BY <3>1
      <4>2. PICK i : i = Find(s, c[1].path)
        OBVIOUS
      <4>3. BuildStep(WalkState(c, s, shared, m, "done"), live)
              = WalkState(IF shared /\ i = Len(s) - Len(c) + 1 THEN <<>> ELSE Tail(c),
                          RemoveAt(s, i), shared, Append(m, Change("M", s[i], live)), "done")
        BY <2>2, <2>6, <4>1, <4>2, TurnModifies
      <4>4. ~ shared /\ i = 1
        BY <1>1, <3>1, <4>2
      <4> QED BY <1>1, <1>4, <3>2, <4>3, <4>4
    <3>4. s[1] = c[1] /\ s[1] = server[k] /\ s[1] = client[k]
      <4>1. k \in 1 .. Len(server)
        BY <2>1, <2>6
      <4> QED BY <2>2, <2>3, <2>6, <4>1
    <3>5. live[s[1].path] # Absent /\ live[s[1].path] # s[1].hash
      BY <2>6, <3>1, <3>4 DEF GoesOn
    <3>6. live[s[1].path] \in Contents
      BY <2>1, <3>4, <3>5
    <3>7. /\ x \in Changes /\ x.op = "M" /\ x.path = client[k].path
          /\ x.fileVersion = client[k].fileVersion + 1 /\ x.hash # server[k].hash
      BY <2>1, <3>2, <3>4, <3>5, <3>6, ChangeType
    <3>8. FirstOfPrefix(Append(m, x), client, server, k)
      BY <2>4, <3>7, FirstOneMore
    <3>9. RemoveAt(s, 1) = Tail(s)
      <4>1. s # <<>> /\ Len(s) # 0 /\ 1 \in 1 .. Len(s)
        BY <2>3, <2>6
      <4>2. PICK a, b : a = RemoveAt(s, 1) /\ b = Tail(s)
        OBVIOUS
      <4>3. /\ a \in Seq(Entries) /\ Len(a) = Len(s) - 1
            /\ \A j \in 1 .. Len(s) - 1 : a[j] = IF j < 1 THEN s[j] ELSE s[j + 1]
        BY <2>3, <4>1, <4>2, RemoveAtElements
      <4>4. b \in Seq(Entries) /\ Len(b) = Len(s) - 1 /\ \A j \in 1 .. Len(s) - 1 : b[j] = s[j + 1]
        BY <2>3, <4>1, <4>2, HeadTailProperties
      <4>5. \A j \in 1 .. Len(s) - 1 : a[j] = b[j]
        <5>1. \A j \in 1 .. Len(s) - 1 : ~ (j < 1)
          BY <2>3
        <5> QED BY <4>3, <4>4, <5>1
      <4> QED BY <4>2, <4>3, <4>4, <4>5, SeqEqual
    <3> QED BY <2>2, <2>3, <2>6, <3>3, <3>8, <3>9, <1>1 DEF WalkedPrefix
  <2>7. CASE GoesOn(c, s, live) /\ ~ (k <= Len(server))
    <3>1. s = <<>>
      BY <2>3, <2>7
    <3>2. Find(s, c[1].path) = 0
      <4>1. PICK i : i = Find(s, c[1].path)
        OBVIOUS
      <4>2. i \in 0 .. Len(s)
        BY <2>3, <4>1, FindFirst
      <4> QED BY <3>1, <4>1, <4>2
    <3>3. PICK x : x = Change("A", c[1], live)
      OBVIOUS
    <3>4. BuildStep(w, live) = WalkState(Tail(c), s, shared, Append(m, x), "done")
      <4>1. BuildStep(w, live) =
              WalkState(Tail(c), IF s = <<>> THEN s ELSE s \o Tail(c), s # <<>>, Append(m, x), "done")
        <5>1. BuildStep(WalkState(c, s, shared, m, "done"), live) =
                WalkState(Tail(c), IF s = <<>> THEN s ELSE s \o Tail(c), s # <<>>,
                          Append(m, Change("A", c[1], live)), "done")
          BY <2>2, <2>7, <3>2, TurnAdds
        <5> QED BY <1>1, <1>4, <3>3, <5>1
      <4>2. (s # <<>>) = shared
        BY <1>1, <3>1
      <4> QED BY <3>1, <4>1, <4>2
    <3>5. live[c[1].path] # Absent
      BY <2>7 DEF GoesOn
    <3>6. live[c[1].path] \in Contents
      BY <2>1, <2>2, <3>5
    <3>7. x \in Changes /\ x.path = client[k].path /\ x.fileVersion = client[k].fileVersion + 1
      BY <2>1, <2>2, <3>3, <3>6, ChangeType
    <3>8. FirstOfPrefix(Append(m, x), client, server, k)
      BY <2>4, <2>7, <3>7, FirstOneMore
    <3> QED BY <2>2, <2>3, <2>7, <3>4, <3>8, <1>1 DEF WalkedPrefix
  <2> QED BY <2>5, <2>6, <2>7
<1> QED BY <1>3, <1>4

\* Of such a list every file is in the commit, in its place: a modification of each file
\* that the server has, and nothing is left over to delete.
LEMMA CommitOfPrefix ==
  ASSUME NEW client \in Seq(Entries), NEW server \in Seq(Entries), Once(client),
         Len(server) <= Len(client), \A i \in 1 .. Len(server) : server[i] = client[i],
         NEW live, \A p \in Listed(client) : live[p] \in Contents \cup {Absent},
         buildCommit(client, server, live).end = "done"
  PROVE  FirstOfPrefix(buildCommit(client, server, live).files, client, server, Len(client))
<1>1. PICK n : n = Len(client)
  OBVIOUS
<1>2. n \in Nat /\ Len(server) \in Nat
  BY <1>1, ElementsOf
<1>3. PICK walk : /\ IsWalk(walk, client, server, live)
                  /\ buildCommit(client, server, live) =
                       [files |-> walk[n].commit \o Deleted(walk[n].server), end |-> walk[n].end]
  BY <1>1, <1>2, BuildCommitWalks
<1> DEFINE T == {k \in 0 .. n : WalkedPrefix(walk[k], client, server, k)}
<1>4. 0 \in T
  <2>1. PICK none : none = <<>>
    OBVIOUS
  <2>2. PICK no : no = FALSE
    OBVIOUS
  <2>3. walk[0] = WalkState(client, server, no, none, "done")
    BY <1>3, <2>1, <2>2 DEF IsWalk, StartOfWalk, WalkState
  <2>4. Without(client, 0, Entries, client) /\ Without(server, 0, Entries, server)
    <3>1. ASSUME NEW list \in Seq(Entries) PROVE Without(list, 0, Entries, list)
      <4>1. Len(list) \in Nat /\ \A j \in 1 .. Len(list) : j + 0 = j
        BY ElementsOf
      <4> QED BY <4>1 DEF Without
    <3> QED BY <3>1
  <2>5. FirstOfPrefix(none, client, server, 0)
    BY <2>1 DEF FirstOfPrefix
  <2>6. WalkedPrefix(walk[0], client, server, 0)
    BY <2>2, <2>3, <2>4, <2>5 DEF WalkedPrefix
  <2> QED BY <1>2, <2>6
<1>5. ASSUME NEW k \in 1 .. n, k - 1 \in T PROVE k \in T
  <2>1. PICK w : w = walk[k - 1]
    OBVIOUS
  <2>2. walk[k] = BuildStep(w, live)
    BY <1>1, <1>3, <2>1 DEF IsWalk
  <2>3. WalkedPrefix(BuildStep(w, live), client, server, k)
    BY <1>1, <1>5, <2>1, PrefixOneTurn
  <2> QED BY <1>5, <2>2, <2>3
<1>6. n \in T
  <2>1. n \in 0 .. n
    BY <1>2
  <2> HIDE DEF T
  <2> QED BY <1>2, <1>4, <1>5, <2>1, CountUp
<1>7. PICK c, s, shared, m, end :
        /\ walk[n] = WalkState(c, s, shared, m, end) /\ shared = FALSE
        /\ end = "done" => /\ Without(client, n, Entries, c) /\ Without(server, n, Entries, s)
                           /\ FirstOfPrefix(m, client, server, n)
  BY <1>6 DEF WalkedPrefix
<1>8. walk[n].commit = m /\ walk[n].server = s /\ walk[n].end = end
  BY <1>7 DEF WalkState
<1>9. end = "done"
  BY <1>3, <1>8
<1>10. s = <<>>
  <2>1. s \in Seq(Entries) /\ Len(s) = 0
    BY <1>1, <1>2, <1>7, <1>9 DEF Without
  <2> QED BY <2>1
<1>11. FirstOfPrefix(m, client, server, n) /\ m \in Seq(Changes)
  BY <1>7, <1>9 DEF FirstOfPrefix
<1>12. m \o Deleted(s) = m
  <2>1. s \in Seq(Entries)
    BY <1>7, <1>9 DEF Without
  <2>2. PICK d : d = Deleted(s)
    OBVIOUS
  <2>3. d \in Seq(Changes) /\ Len(d) = Len(s)
    BY <2>1, <2>2, DeletedChanges
  <2>4. d = <<>>
    BY <1>10, <2>3
  <2> QED BY <1>11, <2>2, <2>4
<1> QED BY <1>1, <1>3, <1>8, <1>11, <1>12
=============================================================================
