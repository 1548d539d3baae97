----------------------- MODULE WtfServerFiles_proofs -----------------------
(***************************************************************************)
(* Theorems about the files that WtfServer keeps, for any handlers,        *)
(* projects, requests and bounds: every project directory keeps its shape, *)
(* no pending commit is older than the latest version, and no published    *)
(* version or received commit is written over.                             *)
(*                                                                         *)
(* None of them is inductive but the first.  Files adds what a handler     *)
(* knows about the directory it has locked (Knows), which stays true       *)
(* because nobody else is inside that project (LockInv, of                 *)
(* WtfServer_proofs), and that the pushes and commits under way find a     *)
(* number in bounds (Room).                                                *)
(***************************************************************************)
EXTENDS WtfServer_proofs, FiniteSetTheorems, WellFoundedInduction

-----------------------------------------------------------------------------
(* A project directory and its highest numbers.                            *)

Directories == [dir : BOOLEAN, history : BOOLEAN,
                versions : UNION {[S -> Stages] : S \in SUBSET Versions},
                pending : UNION {[S -> Texts] : S \in SUBSET (1 .. MaxPending)}]

\* A directory that is gone holds nothing.
Sane(r) == r \in Directories /\ (r.dir \/ Empty(r))

\* No commit in the directory is older than its latest version.
Current(r) == \A n \in DOMAIN r.pending :
                r.pending[n] = Broken \/ r.pending[n] >= findLatestVersion(r)

LEMMA NewestIsHighest ==
  ASSUME NEW bound \in Nat, NEW S \in SUBSET (0 .. bound), S # {}
  PROVE  Newest(S) \in S /\ \A k \in S : k <= Newest(S)
<1> DEFINE Below == {n \in Nat : n <= bound /\ bound - n \in S}
<1>1. Below # {} /\ Below \in SUBSET Nat
  <2>1. PICK k \in S : TRUE
    OBVIOUS
  <2>2. k \in Nat /\ k <= bound
    OBVIOUS
  <2>3. bound - k \in Nat /\ bound - k <= bound /\ bound - (bound - k) = k
    BY <2>2
  <2>4. bound - k \in Below
    BY <2>1, <2>3
  <2> QED BY <2>4
<1>2. PICK n \in Below : \A m \in Below : ~ (<<m, n>> \in OpToRel(<, Nat))
  <2>1. IsWellFoundedOn(OpToRel(<, Nat), Nat)
    BY NatLessThanWellFounded
  <2> HIDE DEF Below
  <2> QED BY <1>1, <2>1, WFMin
<1>3. ASSUME NEW k \in S PROVE k <= bound - n
  <2>1. bound - k \in Below
    <3>1. k \in Nat /\ k <= bound
      OBVIOUS
    <3>2. bound - k \in Nat /\ bound - k <= bound /\ bound - (bound - k) = k
      BY <3>1
    <3> QED BY <3>2
  <2>2. /\ bound - k \in Nat /\ n \in Nat
        /\ ~ (<<bound - k, n>> \in {ss \in Nat \X Nat : ss[1] < ss[2]})
    BY <1>2, <2>1 DEF OpToRel
  <2>3. ~ (bound - k < n)
    <3> SUFFICES ASSUME bound - k < n PROVE FALSE
      OBVIOUS
    <3>1. <<bound - k, n>> \in Nat \X Nat /\ <<bound - k, n>>[1] < <<bound - k, n>>[2]
      BY <2>2
    <3> QED BY <2>2, <3>1
  <2>4. k \in Int
    OBVIOUS
  <2> HIDE DEF Below
  <2> QED BY <2>2, <2>3, <2>4
<1>4. \E x \in S : \A k \in S : k <= x
  BY <1>2, <1>3
<1> QED BY <1>4 DEF Newest

LEMMA LatestIsHighest ==
  ASSUME NEW r \in Directories
  PROVE  /\ findLatestVersion(r) \in Versions
         /\ \A v \in DOMAIN r.versions : v <= findLatestVersion(r)
         /\ DOMAIN r.versions # {} => findLatestVersion(r) \in DOMAIN r.versions
<1>1. DOMAIN r.versions \in SUBSET (0 .. MaxVersion) /\ MaxVersion \in Nat
  BY BoundsAssumption DEF Directories, Versions
<1>2. CASE DOMAIN r.versions = {}
  BY <1>1, <1>2 DEF findLatestVersion, Versions
<1>3. CASE DOMAIN r.versions # {}
  BY <1>1, <1>3, NewestIsHighest DEF findLatestVersion, Versions
<1> QED BY <1>2, <1>3

\* Versions that go do not raise the latest one.
LEMMA LatestFalls ==
  ASSUME NEW r \in Directories, NEW q \in Directories,
         DOMAIN q.versions \subseteq DOMAIN r.versions
  PROVE  findLatestVersion(q) <= findLatestVersion(r)
<1>1. findLatestVersion(r) \in Nat
  BY LatestIsHighest, BoundsAssumption DEF Versions
<1>2. CASE DOMAIN q.versions = {}
  BY <1>1, <1>2 DEF findLatestVersion
<1>3. CASE DOMAIN q.versions # {}
  BY <1>3, LatestIsHighest
<1> QED BY <1>2, <1>3

\* A version from the latest one on becomes the latest one.
LEMMA LatestRises ==
  ASSUME NEW r \in Directories, NEW q \in Directories, NEW v \in Versions,
         DOMAIN q.versions = DOMAIN r.versions \cup {v}, findLatestVersion(r) <= v
  PROVE  findLatestVersion(q) = v
<1>1. /\ findLatestVersion(q) \in DOMAIN q.versions
      /\ \A w \in DOMAIN q.versions : w <= findLatestVersion(q)
      /\ findLatestVersion(q) \in Nat /\ findLatestVersion(r) \in Nat /\ v \in Nat
  BY LatestIsHighest, BoundsAssumption DEF Versions
<1>2. \A w \in DOMAIN q.versions : w <= v
  BY <1>1, LatestIsHighest, BoundsAssumption DEF Versions
<1> QED BY <1>1, <1>2

LEMMA PendingIsNext ==
  ASSUME NEW r \in Directories
  PROVE  /\ pendingCommitNum(r) \in Nat \ {0}
         /\ \A n \in DOMAIN r.pending : n < pendingCommitNum(r)
         /\ pendingCommitNum(r) # 1 => pendingCommitNum(r) - 1 \in DOMAIN r.pending
<1>1. /\ DOMAIN r.pending \in SUBSET (0 .. MaxPending) /\ MaxPending \in Nat
      /\ \A n \in DOMAIN r.pending : n \in Nat
  <2>1. DOMAIN r.pending \in SUBSET (1 .. MaxPending) /\ MaxPending \in Nat
    BY BoundsAssumption DEF Directories
  <2> QED BY <2>1
<1>2. CASE DOMAIN r.pending = {}
  BY <1>2 DEF pendingCommitNum
<1>3. CASE DOMAIN r.pending # {}
  <2>1. /\ Newest(DOMAIN r.pending) \in DOMAIN r.pending
        /\ \A n \in DOMAIN r.pending : n <= Newest(DOMAIN r.pending)
    BY <1>1, <1>3, NewestIsHighest
  <2>2. pendingCommitNum(r) = Newest(DOMAIN r.pending) + 1
    BY <1>3 DEF pendingCommitNum
  <2> QED BY <1>1, <2>1, <2>2
<1> QED BY <1>2, <1>3

\* Pending commits that go do not raise the next number.
LEMMA PendingFalls ==
  ASSUME NEW r \in Directories, NEW q \in Directories,
         DOMAIN q.pending \subseteq DOMAIN r.pending
  PROVE  pendingCommitNum(q) <= pendingCommitNum(r)
<1>1. /\ pendingCommitNum(q) \in Nat \ {0} /\ pendingCommitNum(r) \in Nat \ {0}
      /\ pendingCommitNum(q) # 1 => pendingCommitNum(q) - 1 \in DOMAIN r.pending
  BY PendingIsNext
<1>2. CASE pendingCommitNum(q) = 1
  BY <1>1, <1>2
<1>3. CASE pendingCommitNum(q) # 1
  BY <1>1, <1>3, PendingIsNext
<1> QED BY <1>2, <1>3

LEMMA PendingRises ==
  ASSUME NEW r \in Directories, NEW q \in Directories,
         DOMAIN q.pending = DOMAIN r.pending \cup {pendingCommitNum(r)}
  PROVE  pendingCommitNum(q) = pendingCommitNum(r) + 1
<1>1. /\ pendingCommitNum(q) \in Nat \ {0} /\ pendingCommitNum(r) \in Nat \ {0}
      /\ \A n \in DOMAIN r.pending : n < pendingCommitNum(r)
      /\ \A n \in DOMAIN q.pending : n < pendingCommitNum(q)
      /\ pendingCommitNum(q) # 1 => pendingCommitNum(q) - 1 \in DOMAIN q.pending
  BY PendingIsNext
<1> QED BY <1>1

-----------------------------------------------------------------------------
(* The invariant.                                                          *)

JobSet == [op : Operations \cup {None}, project : Projects \cup {None},
           arg : Texts \cup {NoNumber}, num : Nat \cup {NoNumber},
           lock : Locks \cup {None}]

\* The steps of a push before its version, and of a commit before its file.
PushSteps == {"check", "getlock", "search", "newhead", "append", "lock",
              "receive", "diff", "expire", "mknext"}
CommitSteps == {"check", "getlock", "search", "newhead", "append", "lock",
                "send", "recv"}

Pushing(p) == {h \in Handlers : job[h].op = "push" /\ job[h].project = p /\ pc[h] \in PushSteps}
Committing(p) == {h \in Handlers : job[h].op = "commit" /\ job[h].project = p /\ pc[h] \in CommitSteps}

\* The versions and pending files that are still to come have a number in bounds.
Room(p) ==
  /\ findLatestVersion(repo[p]) + Cardinality(Pushing(p)) <= MaxVersion
  /\ pendingCommitNum(repo[p]) + Cardinality(Committing(p)) <= MaxPending + 1

\* The steps of a push from its version's directory to its publication.
PublishSteps == {"copy", "update", "files", "finish"}

\* What a handler relies on: a commit's version is still the latest one and its file
\* has no text yet; a push has expired everything when it makes its version, which
\* nobody publishes before it.
Knows(h, r) ==
  /\ pc[h] \in {"recv", "text"} =>
       job[h].arg \in Versions /\ job[h].arg >= findLatestVersion(r) /\ r.dir
  /\ pc[h] = "text" /\ job[h].num \in DOMAIN r.pending => r.pending[job[h].num] = Broken
  /\ pc[h] = "mknext" => DOMAIN r.pending = {}
  /\ pc[h] \in PublishSteps /\ job[h].num \in DOMAIN r.versions
       => r.versions[job[h].num] # "published"

Named(h) ==
  /\ pc[h] \notin {"free", "spin", "reply"} => job[h].project \in Projects
  /\ pc[h] \in {"receive", "diff", "expire", "mknext"} => job[h].op = "push"
  /\ pc[h] \in {"send", "recv"} => job[h].op = "commit"

Files ==
  /\ server \in {"up", "killed", "exited"}
  /\ mutexHandlerLock \in Handlers \cup {None}
  /\ pc \in [Handlers -> Steps] /\ job \in [Handlers -> JobSet]
  /\ repo \in [Projects -> Directories]
  /\ \A p \in Projects : Sane(repo[p]) /\ Current(repo[p]) /\ Room(p)
  /\ \A h \in Handlers : Named(h) /\ (job[h].project \in Projects => Knows(h, Directory(h)))

\* Fewer handlers on their way to a version or file: the numbers are still in bounds.
LEMMA RoomStays ==
  ASSUME NEW p \in Projects, Room(p),
         repo[p] \in Directories, repo'[p] \in Directories,
         findLatestVersion(repo'[p]) <= findLatestVersion(repo[p]),
         pendingCommitNum(repo'[p]) <= pendingCommitNum(repo[p]),
         Pushing(p)' \subseteq Pushing(p), Committing(p)' \subseteq Committing(p)
  PROVE  Room(p)'
<1>1. IsFiniteSet(Pushing(p)) /\ IsFiniteSet(Committing(p))
  <2>1. Pushing(p) \in SUBSET Handlers /\ Committing(p) \in SUBSET Handlers
    BY DEF Pushing, Committing
  <2> QED BY <2>1, FS_Subset, NamesAssumption
<1>2. /\ Cardinality(Pushing(p)') <= Cardinality(Pushing(p))
      /\ Cardinality(Committing(p)') <= Cardinality(Committing(p))
      /\ Cardinality(Pushing(p)') \in Nat /\ Cardinality(Pushing(p)) \in Nat
      /\ Cardinality(Committing(p)') \in Nat /\ Cardinality(Committing(p)) \in Nat
  BY <1>1, FS_Subset, FS_CardinalityType
<1>3. /\ findLatestVersion(repo[p]) \in Nat /\ findLatestVersion(repo'[p]) \in Nat
      /\ pendingCommitNum(repo[p]) \in Nat /\ pendingCommitNum(repo'[p]) \in Nat
      /\ MaxVersion \in Nat /\ MaxPending \in Nat
  BY LatestIsHighest, PendingIsNext, BoundsAssumption DEF Versions
<1> QED BY <1>2, <1>3 DEF Room

LEMMA NoProjectShape ==
  /\ NoProject \in Directories /\ Sane(NoProject)
  /\ DOMAIN NoProject.versions = {} /\ DOMAIN NoProject.pending = {}
<1>1. NoProject.versions = [x \in {} |-> "bare"] /\ NoProject.pending = [x \in {} |-> Broken]
  BY DEF NoProject
<1>2. NoProject.versions \in [{} -> Stages] /\ NoProject.pending \in [{} -> Texts]
  BY <1>1
<1>3. /\ NoProject.versions \in UNION {[S -> Stages] : S \in SUBSET Versions}
      /\ NoProject.pending \in UNION {[S -> Texts] : S \in SUBSET (1 .. MaxPending)}
  BY <1>2
<1>4. NoProject \in Directories
  BY <1>3 DEF Directories, NoProject
<1>5. DOMAIN NoProject.versions = {} /\ DOMAIN NoProject.pending = {}
  BY <1>1
<1> QED BY <1>4, <1>5 DEF Sane, Empty, NoProject

LEMMA InitFiles == Init => Files
<1> SUFFICES ASSUME Init PROVE Files
  OBVIOUS
<1> USE DEF Init, FreePc, NoJobs
<1>1. pc \in [Handlers -> Steps] /\ job \in [Handlers -> JobSet]
  <2>1. NoJob \in JobSet
    BY DEF NoJob, Request, JobSet
  <2> QED BY <2>1 DEF Steps
<1>2. \A p \in Projects : repo[p] = NoProject
  OBVIOUS
<1>3. /\ NoProject \in Directories /\ Sane(NoProject) /\ Current(NoProject)
      /\ findLatestVersion(NoProject) = 0 /\ pendingCommitNum(NoProject) = 1
  BY NoProjectShape DEF Current, findLatestVersion, pendingCommitNum
<1>4. \A p \in Projects : Room(p)
  <2> SUFFICES ASSUME NEW p \in Projects PROVE Room(p)
    OBVIOUS
  <2>1. Pushing(p) = {} /\ Committing(p) = {}
    BY DEF Pushing, Committing, PushSteps, CommitSteps
  <2> QED BY <1>2, <1>3, <2>1, FS_EmptySet, BoundsAssumption DEF Room
<1>5. repo \in [Projects -> Directories]
  BY <1>2, <1>3
<1>6. \A h \in Handlers : Named(h) /\ job[h].project \notin Projects
  BY NamesAssumption DEF Named, NoJob, Request
<1> QED BY <1>1, <1>2, <1>3, <1>4, <1>5, <1>6 DEF Files

\* The process ends and its files stay.
LEMMA StopFiles == ASSUME Files, NEW how \in {"killed", "exited"}, Stop(how) PROVE Files'
<1> USE DEF Stop, FreePc, NoJobs
<1>1. pc' \in [Handlers -> Steps] /\ job' \in [Handlers -> JobSet]
  <2>1. NoJob \in JobSet
    BY DEF NoJob, Request, JobSet
  <2> QED BY <2>1 DEF Steps
<1>2. \A p \in Projects : Sane(repo'[p]) /\ Current(repo'[p])
  BY DEF Files
<1>3. \A p \in Projects : Room(p)'
  <2> SUFFICES ASSUME NEW p \in Projects PROVE Room(p)'
    OBVIOUS
  <2>1. Pushing(p)' = {} /\ Committing(p)' = {}
    BY DEF Pushing, Committing, PushSteps, CommitSteps
  <2>2. /\ findLatestVersion(repo[p]) \in Nat /\ pendingCommitNum(repo[p]) \in Nat
        /\ repo'[p] = repo[p]
    BY LatestIsHighest, PendingIsNext, BoundsAssumption DEF Files, Versions
  <2> QED BY <2>1, <2>2, RoomStays DEF Files
<1>4. \A h \in Handlers : Named(h)' /\ job'[h].project \notin Projects
  BY NamesAssumption DEF Named, NoJob, Request
<1>5. repo' \in [Projects -> Directories]
  BY DEF Files
<1>6. server' \in {"up", "killed", "exited"} /\ mutexHandlerLock' \in Handlers \cup {None}
  OBVIOUS
<1> QED BY <1>1, <1>2, <1>3, <1>4, <1>5, <1>6 DEF Files

-----------------------------------------------------------------------------
(* One handler's step.                                                     *)

\* h goes on at step with the request j.
Moves(h, step, j) ==
  /\ pc' = [pc EXCEPT ![h] = step] /\ job' = [job EXCEPT ![h] = j]
  /\ server' \in {"up", "killed", "exited"} /\ mutexHandlerLock' \in Handlers \cup {None}

\* h is not newly on its way to a version or file.
NoNewNumber(h, step, j) ==
  /\ j.op = "push" /\ step \in PushSteps => h \in Pushing(j.project)
  /\ j.op = "commit" /\ step \in CommitSteps => h \in Committing(j.project)

LEMMA FewerUnderWay ==
  ASSUME Files, NEW h \in Handlers, NEW step \in Steps, NEW j \in JobSet, Moves(h, step, j),
         NoNewNumber(h, step, j), NEW p \in Projects
  PROVE  Pushing(p)' \subseteq Pushing(p) /\ Committing(p)' \subseteq Committing(p)
<1>1. /\ \A g \in Handlers \ {h} : pc'[g] = pc[g] /\ job'[g] = job[g]
      /\ pc'[h] = step /\ job'[h] = j
  BY DEF Moves, Files
<1> QED BY <1>1 DEF NoNewNumber, Pushing, Committing

\* The steps that rely on something in the files.
Relying == {"recv", "text", "mknext"} \cup PublishSteps

USE DEF Relying, PublishSteps

\* A step that leaves the files alone, to a step that relies on nothing in them.
LEMMA RequestStep ==
  ASSUME Files, NEW h \in Handlers, NEW step \in Steps \ Relying,
         NEW j \in JobSet, Moves(h, step, j), UNCHANGED repo, Named(h)',
         \A p \in Projects : Room(p)'
  PROVE  Files'
<1>1. /\ \A g \in Handlers \ {h} : pc'[g] = pc[g] /\ job'[g] = job[g]
      /\ pc'[h] = step /\ job'[h] = j
      /\ pc' \in [Handlers -> Steps] /\ job' \in [Handlers -> JobSet]
  BY DEF Moves, Files
<1>2. \A g \in Handlers : Named(g)'
  BY <1>1 DEF Files, Named
<1>3. \A g \in Handlers : job'[g].project \in Projects => Knows(g, Directory(g))'
  BY <1>1 DEF Files, Knows, Directory
<1>4. \A p \in Projects : Sane(repo'[p]) /\ Current(repo'[p]) /\ repo' \in [Projects -> Directories]
  BY DEF Files
<1>5. repo' \in [Projects -> Directories]
  BY DEF Files
<1> QED BY <1>1, <1>2, <1>3, <1>4, <1>5 DEF Files, Moves

LEMMA RoomUnchanged ==
  ASSUME Files, NEW h \in Handlers, NEW step \in Steps, NEW j \in JobSet, Moves(h, step, j),
         NoNewNumber(h, step, j), UNCHANGED repo, NEW p \in Projects
  PROVE  Room(p)'
<1>1. Pushing(p)' \subseteq Pushing(p) /\ Committing(p)' \subseteq Committing(p)
  BY FewerUnderWay
<1>2. /\ repo[p] \in Directories /\ repo'[p] = repo[p]
      /\ findLatestVersion(repo[p]) \in Nat /\ pendingCommitNum(repo[p]) \in Nat
  BY LatestIsHighest, PendingIsNext, BoundsAssumption DEF Files, Versions
<1> QED BY <1>1, <1>2, RoomStays DEF Files

\* Under the lock of its project h writes r there. The others' knowledge is about other
\* projects, since nobody else is inside this one.
LEMMA WriteStep ==
  ASSUME LockInv, Files, NEW h \in Handlers, NEW step \in LockedSteps, NEW j \in JobSet,
         Moves(h, step, j), pc[h] \in LockedSteps,
         NEW P \in Projects, job[h].project = P, j.project = P,
         NEW r \in Directories, Write(h, r), Sane(r), Current(r),
         Room(P)', NoNewNumber(h, step, j), Named(h)', Knows(h, r)'
  PROVE  Files'
<1>1. /\ \A g \in Handlers \ {h} : pc'[g] = pc[g] /\ job'[g] = job[g]
      /\ pc'[h] = step /\ job'[h] = j
      /\ pc' \in [Handlers -> Steps] /\ job' \in [Handlers -> JobSet]
  BY DEF Moves, Files, Steps
<1>2. /\ repo' \in [Projects -> Directories] /\ repo'[P] = r
      /\ \A p \in Projects \ {P} : repo'[p] = repo[p]
  BY DEF Write, Files
<1>3. \A p \in Projects : Sane(repo'[p]) /\ Current(repo'[p])
  BY <1>2 DEF Files
<1>4. \A p \in Projects : Room(p)'
  <2>1. ASSUME NEW p \in Projects \ {P} PROVE Room(p)'
    <3>1. Pushing(p)' \subseteq Pushing(p) /\ Committing(p)' \subseteq Committing(p)
      BY FewerUnderWay DEF Steps
    <3>2. /\ repo[p] \in Directories /\ repo'[p] = repo[p]
          /\ findLatestVersion(repo[p]) \in Nat /\ pendingCommitNum(repo[p]) \in Nat
      BY <1>2, LatestIsHighest, PendingIsNext, BoundsAssumption DEF Files, Versions
    <3> QED BY <3>1, <3>2, RoomStays DEF Files
  <2> QED BY <2>1
<1>5. \A g \in Handlers : Named(g)'
  BY <1>1 DEF Files, Named
<1>6. ASSUME NEW g \in Handlers, job'[g].project \in Projects PROVE Knows(g, Directory(g))'
  <2>1. CASE g = h
    BY <1>1, <1>2, <2>1 DEF Knows, Directory
  <2>2. CASE g # h /\ pc[g] \in LockedSteps
    <3>1. job[g].project # P
      BY <2>2, LockInvExcludes DEF ProjectExclusive, Inside
    <3> QED BY <1>1, <1>2, <1>6, <2>2, <3>1 DEF Files, Knows, Directory
  <2>3. CASE g # h /\ pc[g] \notin LockedSteps
    BY <1>1, <2>3 DEF Knows, LockedSteps
  <2> QED BY <2>1, <2>2, <2>3
<1> QED BY <1>1, <1>2, <1>3, <1>4, <1>5, <1>6 DEF Files, Moves

\* The written directory has no new version and no new pending file.
LEMMA LesserStep ==
  ASSUME LockInv, Files, NEW h \in Handlers, NEW step \in LockedSteps, NEW j \in JobSet,
         Moves(h, step, j), pc[h] \in LockedSteps,
         NEW P \in Projects, job[h].project = P, j.project = P,
         NEW r \in Directories, Write(h, r), Sane(r), Current(r),
         findLatestVersion(r) <= findLatestVersion(Directory(h)),
         pendingCommitNum(r) <= pendingCommitNum(Directory(h)),
         NoNewNumber(h, step, j), Named(h)', Knows(h, r)'
  PROVE  Files'
<1>2. repo'[P] = r /\ repo[P] = Directory(h) /\ repo[P] \in Directories /\ Room(P)
  BY DEF Write, Files, Directory
<1>3. Pushing(P)' \subseteq Pushing(P) /\ Committing(P)' \subseteq Committing(P)
  BY FewerUnderWay DEF Steps
<1>4. Room(P)'
  BY <1>2, <1>3, RoomStays
<1> QED BY <1>4, WriteStep

LEMMA QuietStep ==
  ASSUME Files, NEW h \in Handlers, NEW step \in Steps \ Relying,
         NEW j \in JobSet, Moves(h, step, j), NoNewNumber(h, step, j), UNCHANGED repo,
         Named(h)'
  PROVE  Files'
BY RoomUnchanged, RequestStep

-----------------------------------------------------------------------------
(* Requests, and the way to the project's lock.                            *)

LEMMA OneMore ==
  ASSUME NEW S, IsFiniteSet(S), NEW x
  PROVE  IsFiniteSet(S \cup {x}) /\ Cardinality(S \cup {x}) <= Cardinality(S) + 1
<1>1. Cardinality(S) \in Nat
  BY FS_CardinalityType
<1>2. CASE x \in S
  <2> DEFINE T == S \cup {x}
  <2>1. T = S
    BY <1>2
  <2> HIDE DEF T
  <2>2. IsFiniteSet(T) /\ Cardinality(T) <= Cardinality(S) + 1
    BY <1>1, <2>1
  <2> QED BY <2>2 DEF T
<1>3. CASE x \notin S
  <2>1. IsFiniteSet(S \cup {x}) /\ Cardinality(S \cup {x}) = Cardinality(S) + 1
    BY <1>3, FS_AddElement
  <2> QED BY <1>1, <2>1
<1> QED BY <1>2, <1>3

\* A push or commit that starts is the one more that InBounds has left room for.
LEMMA HandleRequestFiles ==
  ASSUME LockInv, Files, NEW h \in Handlers, handleRequest(h)
  PROVE  Files'
<1>1. /\ pc[h] = "free" /\ job[h].lock = None /\ UNCHANGED repo
      /\ server' \in {"up", "killed", "exited"} /\ mutexHandlerLock' \in Handlers \cup {None}
  BY DEF handleRequest, At, LockInv, PointsToItsNode, Outside, Files
<1>2. PICK op \in Operations, p \in Projects :
        /\ InBounds(op, p)
        /\ \/ /\ job' = [job EXCEPT ![h] = Request(op, p)]
              /\ Goto(h, IF op = "rollback" THEN "getlock" ELSE "check")
           \/ Spin(h)
  BY DEF handleRequest
<1>3. CASE Spin(h)
  <2>1. NoJob \in JobSet /\ NoJob.op = None
    BY DEF NoJob, Request, JobSet
  <2>2. Moves(h, "spin", NoJob)
    BY <1>1, <1>3 DEF Moves, Spin, Goto, Files
  <2>3. NoNewNumber(h, "spin", NoJob) /\ Named(h)'
    BY <2>2 DEF NoNewNumber, PushSteps, CommitSteps, Named, Moves, Files
  <2> QED BY <1>1, <2>1, <2>2, <2>3, QuietStep DEF Steps
<1>4. CASE /\ job' = [job EXCEPT ![h] = Request(op, p)]
           /\ Goto(h, IF op = "rollback" THEN "getlock" ELSE "check")
  <2>1. PICK step \in {"check", "getlock"} : Moves(h, step, Request(op, p))
    BY <1>1, <1>4 DEF Moves, Goto
  <2>2. /\ Request(op, p) \in JobSet
        /\ Request(op, p).op = op /\ Request(op, p).project = p
    BY DEF Request, JobSet
  <2>3. /\ \A g \in Handlers \ {h} : pc'[g] = pc[g] /\ job'[g] = job[g]
        /\ pc'[h] = step /\ job'[h] = Request(op, p)
    BY <2>1 DEF Moves, Files
  <2>4. Named(h)'
    BY <2>2, <2>3 DEF Named
  <2>5. ASSUME NEW q \in Projects PROVE Room(q)'
    <3>1. /\ findLatestVersion(repo[q]) \in Nat /\ pendingCommitNum(repo[q]) \in Nat
          /\ repo'[q] = repo[q] /\ MaxVersion \in Nat /\ MaxPending \in Nat
      BY <1>1, LatestIsHighest, PendingIsNext, BoundsAssumption DEF Files, Versions
    <3>2. /\ Pushing(q)' \subseteq Pushing(q) \cup {h}
          /\ Committing(q)' \subseteq Committing(q) \cup {h}
      BY <2>3 DEF Pushing, Committing
    <3>3. /\ op # "push" \/ p # q => Pushing(q)' \subseteq Pushing(q)
          /\ op # "commit" \/ p # q => Committing(q)' \subseteq Committing(q)
      BY <2>2, <2>3 DEF Pushing, Committing
    <3>4. /\ Pushing(q) \subseteq Serving("push", q) /\ Committing(q) \subseteq Serving("commit", q)
          /\ Serving("push", q) \subseteq Handlers /\ Serving("commit", q) \subseteq Handlers
      BY DEF Pushing, Committing, Serving
    <3>5. /\ IsFiniteSet(Serving("push", q)) /\ IsFiniteSet(Serving("commit", q))
          /\ IsFiniteSet(Pushing(q)) /\ IsFiniteSet(Committing(q))
          /\ Cardinality(Pushing(q)) <= Cardinality(Serving("push", q))
          /\ Cardinality(Committing(q)) <= Cardinality(Serving("commit", q))
      BY <3>4, FS_Subset, NamesAssumption
    <3>6. /\ IsFiniteSet(Pushing(q) \cup {h}) /\ IsFiniteSet(Committing(q) \cup {h})
          /\ Cardinality(Pushing(q) \cup {h}) <= Cardinality(Pushing(q)) + 1
          /\ Cardinality(Committing(q) \cup {h}) <= Cardinality(Committing(q)) + 1
          /\ Cardinality(Pushing(q)) \in Nat /\ Cardinality(Committing(q)) \in Nat
          /\ Cardinality(Serving("push", q)) \in Nat /\ Cardinality(Serving("commit", q)) \in Nat
      <4>1. /\ Cardinality(Pushing(q)) \in Nat /\ Cardinality(Committing(q)) \in Nat
            /\ Cardinality(Serving("push", q)) \in Nat
            /\ Cardinality(Serving("commit", q)) \in Nat
        BY <3>5, FS_CardinalityType
      <4> QED BY <4>1, <3>5, OneMore
    <3>7. /\ IsFiniteSet(Pushing(q)') /\ IsFiniteSet(Committing(q)')
          /\ Cardinality(Pushing(q)') <= Cardinality(Pushing(q) \cup {h})
          /\ Cardinality(Committing(q)') <= Cardinality(Committing(q) \cup {h})
      BY <3>2, <3>6, FS_Subset
    <3>8. /\ op # "push" \/ p # q => Cardinality(Pushing(q)') <= Cardinality(Pushing(q))
          /\ op # "commit" \/ p # q => Cardinality(Committing(q)') <= Cardinality(Committing(q))
      BY <3>3, <3>5, FS_Subset
    <3>9. /\ Cardinality(Pushing(q)') \in Nat /\ Cardinality(Committing(q)') \in Nat
          /\ Cardinality(Pushing(q) \cup {h}) \in Nat /\ Cardinality(Committing(q) \cup {h}) \in Nat
      BY <3>6, <3>7, FS_CardinalityType
    <3>10. Room(q)
      BY DEF Files
    <3>11. findLatestVersion(repo[q]) + Cardinality(Pushing(q)') <= MaxVersion
      <4>1. CASE op = "push" /\ p = q
        <5>1. findLatestVersion(repo[q]) \in DOMAIN repo[q].versions \cup {0}
          BY LatestIsHighest DEF Files, findLatestVersion
        <5>2. findLatestVersion(repo[q]) + Cardinality(Serving("push", q)) < MaxVersion
          BY <1>2, <4>1, <5>1 DEF InBounds
        <5> QED BY <4>1, <5>2, <3>1, <3>5, <3>6, <3>7, <3>9
      <4>2. CASE op # "push" \/ p # q
        BY <4>2, <3>1, <3>6, <3>8, <3>9, <3>10 DEF Room
      <4> QED BY <4>1, <4>2
    <3>12. pendingCommitNum(repo[q]) + Cardinality(Committing(q)') <= MaxPending + 1
      <4>1. CASE op = "commit" /\ p = q
        BY <1>2, <4>1, <3>1, <3>5, <3>6, <3>7, <3>9 DEF InBounds
      <4>2. CASE op # "commit" \/ p # q
        BY <4>2, <3>1, <3>6, <3>8, <3>9, <3>10 DEF Room
      <4> QED BY <4>1, <4>2
    <3> QED BY <3>1, <3>11, <3>12 DEF Room
  <2> QED BY <1>1, <2>1, <2>2, <2>4, <2>5, RequestStep DEF Steps
<1> QED BY <1>2, <1>3, <1>4

\* The steps of a request before and after its lock change at most its lock.
LEMMA OutsideFiles ==
  ASSUME Files, NEW h \in Handlers, UNCHANGED <<server, repo>>,
         mutexHandlerLock' \in {mutexHandlerLock, h, None},
         NEW step \in {"free", "getlock", "search", "newhead", "append", "nolock", "lock",
                      "reply", "inithistory"},
         Goto(h, step), pc[h] \notin {"free", "reply", "spin"},
         step \in PushSteps => pc[h] \in {"check", "getlock", "search", "newhead", "append"},
         NEW j \in JobSet, job' = [job EXCEPT ![h] = j],
         j = NoJob \/ (j.op = job[h].op /\ j.project = job[h].project),
         j = NoJob => step \in {"free", "reply"}
  PROVE  Files'
<1>1. /\ Moves(h, step, j) /\ step \in Steps \ Relying
      /\ NoJob.op = None
  BY DEF Moves, Goto, Files, Steps, ListSteps, LockedSteps, NoJob, Request
<1>2. pc'[h] = step /\ job'[h] = j
  BY DEF Goto, Files
<1>3. NoNewNumber(h, step, j)
  BY <1>1 DEF NoNewNumber, Pushing, Committing, PushSteps, CommitSteps, Files
<1>4. Named(h)'
  BY <1>2 DEF Named, Files
<1> QED BY <1>1, <1>3, <1>4, QuietStep

LEMMA SameJobFiles ==
  ASSUME Files, NEW h \in Handlers, UNCHANGED <<server, job, repo>>,
         mutexHandlerLock' \in {mutexHandlerLock, h, None},
         NEW step \in {"getlock", "search", "newhead", "append", "nolock", "inithistory"},
         Goto(h, step), pc[h] \in {"check", "getlock", "search", "newhead", "append"}
  PROVE  Files'
<1>1. job[h] \in JobSet /\ Moves(h, step, job[h])
  BY DEF Files, Moves, Goto
<1>2. pc'[h] = step /\ job'[h] = job[h] /\ step \in Steps \ Relying
  BY DEF Files, Goto, Steps, ListSteps, LockedSteps
<1>3. NoNewNumber(h, step, job[h])
  BY DEF NoNewNumber, Pushing, Committing, PushSteps, CommitSteps
<1>4. Named(h)'
  BY <1>2 DEF Named, Files
<1> QED BY <1>1, <1>2, <1>3, <1>4, QuietStep

LEMMA WaySteps ==
  ASSUME LockInv, Files, NEW h \in Handlers,
         \/ Check(h) \/ getLock(h) \/ SearchList(h) \/ NewHead(h) \/ AppendNode(h)
         \/ Unlock(h) \/ Reply(h)
  PROVE  Files'
<1> USE DEF At
<1>1. /\ NoJob \in JobSet /\ NoJob.op = None /\ job[h] \in JobSet
      /\ job \in [Handlers -> JobSet]
      /\ UNCHANGED job => job' = [job EXCEPT ![h] = job[h]]
  BY DEF NoJob, Request, JobSet, Files
<1>2. CASE Check(h)
  <2>1. /\ pc[h] = "check" /\ UNCHANGED <<server, mutexHandlerLock, repo>>
        /\ \/ Goto(h, "getlock") /\ UNCHANGED job
           \/ Goto(h, "inithistory") /\ UNCHANGED job
           \/ Goto(h, "free") /\ job' = [job EXCEPT ![h] = NoJob]
    BY <1>2 DEF Check, Done
  <2>2. CASE (Goto(h, "getlock") \/ Goto(h, "inithistory")) /\ UNCHANGED job
    BY <2>1, <2>2, SameJobFiles
  <2>3. CASE Goto(h, "free") /\ job' = [job EXCEPT ![h] = NoJob]
    BY <1>1, <2>1, <2>3, OutsideFiles DEF PushSteps
  <2> QED BY <2>1, <2>2, <2>3
<1>3. CASE getLock(h)
  BY <1>3, SameJobFiles DEF getLock
<1>4. ASSUME NEW l \in Locks, GotLock(h, l), pc[h] \in {"search", "newhead"},
             UNCHANGED <<server, repo>>
      PROVE  Files'
  <2>1. /\ job' = [job EXCEPT ![h] = [job[h] EXCEPT !.lock = l]]
        /\ [job[h] EXCEPT !.lock = l] \in JobSet
        /\ [job[h] EXCEPT !.lock = l].op = job[h].op
        /\ [job[h] EXCEPT !.lock = l].project = job[h].project
        /\ NoJob.lock = None
    BY <1>1, <1>4 DEF GotLock, JobSet, NoJob, Request
  <2>2. [job[h] EXCEPT !.lock = l] # NoJob
    <3>1. [job[h] EXCEPT !.lock = l].lock = l
      BY <1>1 DEF JobSet
    <3> QED BY <2>1, <3>1, NamesAssumption
  <2>3. mutexHandlerLock' = None /\ Goto(h, "lock")
    BY <1>4 DEF GotLock
  <2> DEFINE j == [job[h] EXCEPT !.lock = l]
  <2>4. j \in JobSet /\ j # NoJob /\ job' = [job EXCEPT ![h] = j]
        /\ j.op = job[h].op /\ j.project = job[h].project
    BY <2>1, <2>2
  <2> HIDE DEF j
  <2> QED BY <1>4, <2>3, <2>4, OutsideFiles DEF PushSteps
<1>5. CASE SearchList(h)
  <2>1. ASSUME NEW l \in mutexList, GotLock(h, l) PROVE Files'
    BY <1>4, <1>5, <2>1 DEF SearchList, LockInv, MemoryType
  <2>2. ASSUME UNCHANGED job, mutexHandlerLock' = mutexHandlerLock,
               Goto(h, "newhead") \/ Goto(h, "append")
        PROVE  Files'
    BY <1>5, <2>2, SameJobFiles DEF SearchList
  <2> QED BY <1>5, <2>1, <2>2 DEF SearchList
<1>6. CASE NewHead(h)
  <2> DEFINE l == [project |-> job[h].project, by |-> h]
  <2>1. l \in Locks /\ GotLock(h, l) /\ pc[h] = "newhead" /\ UNCHANGED <<server, repo>>
    BY <1>6 DEF NewHead, Files, Named, Locks
  <2> HIDE DEF l
  <2> QED BY <1>4, <2>1
<1>7. CASE AppendNode(h)
  <2>1. CASE Stop("exited")
    BY <2>1, StopFiles
  <2>2. CASE ~ Stop("exited")
    BY <1>7, <2>2, SameJobFiles DEF AppendNode
  <2> QED BY <2>1, <2>2
<1>8. CASE Unlock(h)
  <2>1. CASE job' = [job EXCEPT ![h] = NoJob] /\ Goto(h, "reply")
    BY <1>1, <1>8, <2>1, OutsideFiles DEF Unlock, PushSteps
  <2>2. CASE job' = [job EXCEPT ![h] = Request(@.op, @.project)] /\ Goto(h, "inithistory")
    <3> DEFINE j == Request(job[h].op, job[h].project)
    <3>1. j \in JobSet /\ j.op = job[h].op /\ j.project = job[h].project
      BY <1>1 DEF JobSet, Request
    <3>2. j.project \in Projects /\ NoJob.project \notin Projects
      BY <1>8, <3>1, NamesAssumption DEF Unlock, Files, Named, NoJob, Request
    <3>3. job' = [job EXCEPT ![h] = j]
      BY <2>2
    <3> HIDE DEF j
    <3> QED BY <1>8, <2>2, <3>1, <3>2, <3>3, OutsideFiles DEF Unlock, PushSteps
  <2> QED BY <1>8, <2>1, <2>2 DEF Unlock
<1>9. CASE Reply(h)
  <2>1. /\ pc[h] = "reply" /\ UNCHANGED <<server, mutexHandlerLock, repo>>
        /\ Goto(h, "free") /\ job' = [job EXCEPT ![h] = NoJob]
    BY <1>9 DEF Reply, Done
  <2>2. Moves(h, "free", NoJob) /\ NoNewNumber(h, "free", NoJob)
    BY <1>1, <2>1 DEF Moves, Goto, NoNewNumber, Files, PushSteps, CommitSteps
  <2>3. Named(h)'
    BY <2>2 DEF Named, Moves, Files
  <2> QED BY <1>1, <2>1, <2>2, <2>3, QuietStep DEF Steps
<1> QED BY <1>2, <1>3, <1>5, <1>6, <1>7, <1>8, <1>9

LEMMA LockFiles ==
  ASSUME LockInv, Files, NEW h \in Handlers, Lock(h)
  PROVE  Files'
<1> DEFINE step == Entry[job[h].op]
<1>1. /\ pc[h] = "lock" /\ UNCHANGED <<server, job, mutexHandlerLock, repo>> /\ Goto(h, step)
      /\ job[h].op \in Operations
  BY DEF Lock, At, LockInv, MemoryType
<1>2. /\ step \in LockedSteps \ Relying
      /\ step \in {"receive", "diff", "expire", "mknext"} => job[h].op = "push"
      /\ step \in {"send", "recv"} => job[h].op = "commit"
  BY <1>1 DEF Entry, Operations, LockedSteps
<1> HIDE DEF step
<1>3. job[h] \in JobSet /\ Moves(h, step, job[h])
  BY <1>1 DEF Files, Moves, Goto
<1>4. pc'[h] = step /\ job'[h] = job[h] /\ step \in Steps \ Relying
  BY <1>1, <1>2 DEF Files, Goto, Steps
<1>5. NoNewNumber(h, step, job[h])
  BY <1>1 DEF NoNewNumber, Pushing, Committing, PushSteps, CommitSteps
<1>6. Named(h)'
  BY <1>1, <1>2, <1>4 DEF Named, Files
<1> QED BY <1>1, <1>3, <1>4, <1>5, <1>6, QuietStep

LEMMA ClientLeavesFiles ==
  ASSUME LockInv, Files, NEW h \in Handlers, ClientLeaves(h)
  PROVE  Files'
<1>1. /\ pc[h] \in LockedSteps /\ job[h].lock # None /\ Goto(h, "spin")
      /\ UNCHANGED <<server, mutexHandlerLock, repo>>
  BY DEF ClientLeaves, Receiving, LockedSteps, Spin, LockInv, PointsToItsNode
<1> DEFINE j == [job[h] EXCEPT !.arg = NoNumber, !.num = NoNumber]
<1>2. job' = [job EXCEPT ![h] = j]
  BY <1>1 DEF ClientLeaves, Spin
<1>3. job[h] \in JobSet
  BY DEF Files
<1>4. j \in JobSet /\ j.op = job[h].op /\ j.project = job[h].project
  BY <1>3 DEF JobSet
<1> HIDE DEF j
<1>5. Moves(h, "spin", j) /\ NoNewNumber(h, "spin", j)
  BY <1>1, <1>2 DEF Moves, Goto, Files, NoNewNumber, PushSteps, CommitSteps
<1>6. Named(h)'
  BY <1>5 DEF Named, Moves, Files
<1> QED BY <1>1, <1>4, <1>5, <1>6, QuietStep DEF Steps

\* Without the lock create writes .history, on which no other handler relies.
LEMMA CreateHistoryFiles ==
  ASSUME LockInv, Files, NEW h \in Handlers, CreateHistory(h)
  PROVE  Files'
<1>1. /\ pc[h] = "inithistory" /\ UNCHANGED <<server, mutexHandlerLock>>
      /\ Goto(h, "free") /\ job' = [job EXCEPT ![h] = NoJob]
  BY DEF CreateHistory, At, Done
<1>2. NoJob \in JobSet /\ NoJob.op = None /\ NoJob.project = None
  BY DEF NoJob, Request, JobSet
<1>3. Moves(h, "free", NoJob) /\ NoNewNumber(h, "free", NoJob)
  BY <1>1, <1>2 DEF Moves, Goto, NoNewNumber, Files, PushSteps, CommitSteps
<1>4. Named(h)'
  BY <1>3 DEF Named, Moves, Files
<1>5. CASE UNCHANGED repo
  BY <1>2, <1>3, <1>4, <1>5, QuietStep DEF Steps
<1>6. CASE ~ UNCHANGED repo
  <2> DEFINE P == job[h].project
             r == [repo[P] EXCEPT !.history = TRUE]
  <2>1. P \in Projects /\ repo[P].dir /\ repo' = [repo EXCEPT ![P] = r]
    BY <1>1, <1>6 DEF CreateHistory, Directory, Write, Files, Named
  <2>2. /\ r \in Directories /\ r.versions = repo[P].versions /\ r.pending = repo[P].pending
        /\ r.dir = repo[P].dir
    <3>1. repo[P] \in Directories
      BY <2>1 DEF Files
    <3> QED BY <3>1 DEF Directories
  <2>3. /\ findLatestVersion(r) = findLatestVersion(repo[P])
        /\ pendingCommitNum(r) = pendingCommitNum(repo[P])
    BY <2>2 DEF findLatestVersion, pendingCommitNum
  <2>4. /\ repo' \in [Projects -> Directories] /\ repo'[P] = r
        /\ \A p \in Projects \ {P} : repo'[p] = repo[p]
    BY <2>1, <2>2 DEF Files
  <2>5. Sane(r) /\ Current(r)
    BY <2>1, <2>2, <2>3 DEF Files, Sane, Current
  <2>6. \A g \in Handlers \ {h} : pc'[g] = pc[g] /\ job'[g] = job[g]
    BY <1>3 DEF Moves, Files
  <2>7. pc'[h] = "free" /\ job'[h] = NoJob
    BY <1>3 DEF Moves, Files
  <2> HIDE DEF P, r
  <2>8. ASSUME NEW p \in Projects PROVE Room(p)'
    <3>1. Pushing(p)' \subseteq Pushing(p) /\ Committing(p)' \subseteq Committing(p)
      BY <1>2, <1>3, FewerUnderWay DEF Steps
    <3>2. /\ findLatestVersion(repo[p]) \in Nat /\ pendingCommitNum(repo[p]) \in Nat
          /\ repo[p] \in Directories /\ repo'[p] \in Directories
      BY <2>4, LatestIsHighest, PendingIsNext, BoundsAssumption DEF Files, Versions
    <3>3. /\ findLatestVersion(repo'[p]) <= findLatestVersion(repo[p])
          /\ pendingCommitNum(repo'[p]) <= pendingCommitNum(repo[p])
      BY <2>3, <2>4, <3>2
    <3> QED BY <3>1, <3>2, <3>3, RoomStays DEF Files
  <2>9. \A g \in Handlers : Named(g)'
    BY <1>4, <2>6 DEF Files, Named
  <2>10. ASSUME NEW g \in Handlers, job'[g].project \in Projects PROVE Knows(g, Directory(g))'
    <3>1. g # h /\ job[g].project \in Projects /\ Knows(g, repo[job[g].project])
      BY <1>2, <2>6, <2>7, <2>10, NamesAssumption DEF Files, Directory
    <3>2. /\ findLatestVersion(repo'[job[g].project]) = findLatestVersion(repo[job[g].project])
          /\ repo'[job[g].project].pending = repo[job[g].project].pending
          /\ repo'[job[g].project].versions = repo[job[g].project].versions
          /\ repo'[job[g].project].dir = repo[job[g].project].dir
      <4>1. CASE job[g].project = P
        BY <2>2, <2>3, <2>4, <4>1 DEF r
      <4>2. CASE job[g].project # P
        BY <2>4, <3>1, <4>2
      <4> QED BY <4>1, <4>2
    <3> QED BY <2>6, <3>1, <3>2 DEF Knows, Directory
  <2>11. /\ pc' \in [Handlers -> Steps] /\ job' \in [Handlers -> JobSet]
         /\ \A p \in Projects : Sane(repo'[p]) /\ Current(repo'[p])
    BY <1>2, <1>3, <2>4, <2>5 DEF Files, Moves, Steps
  <2> QED BY <1>1, <2>4, <2>8, <2>9, <2>10, <2>11 DEF Files
<1> QED BY <1>5, <1>6

-----------------------------------------------------------------------------
(* What is written under the lock.                                         *)

Lesser(q, r) == /\ findLatestVersion(q) <= findLatestVersion(r)
                /\ pendingCommitNum(q) <= pendingCommitNum(r)

\* The step goes on with the same operation, and what it relies on holds of r.
Fits(h, step, j, r) ==
  /\ step \in {"receive", "diff", "expire", "mknext"}
       => pc[h] \in {"receive", "diff", "expire", "mknext"}
  /\ step \in {"send", "recv"} => pc[h] = "send"
  /\ step \in {"recv", "text"} =>
       j.arg \in Versions /\ j.arg >= findLatestVersion(r) /\ r.dir
  /\ step = "text" /\ j.num \in DOMAIN r.pending => r.pending[j.num] = Broken
  /\ step = "mknext" => DOMAIN r.pending = {}
  /\ step \in PublishSteps /\ j.num \in DOMAIN r.versions => r.versions[j.num] # "published"

LEMMA HeldFacts ==
  ASSUME LockInv, Files, NEW h \in Handlers, NEW step \in LockedSteps,
         pc[h] \in LockedSteps, Goto(h, step), UNCHANGED <<server, mutexHandlerLock>>,
         NEW j \in JobSet, job' = [job EXCEPT ![h] = j],
         j.op = job[h].op, j.project = job[h].project,
         NEW r, Fits(h, step, j, r)
  PROVE  /\ Moves(h, step, j) /\ NoNewNumber(h, step, j)
         /\ Named(h)' /\ Knows(h, r)'
         /\ job[h].project \in Projects
<1>1. Moves(h, step, j) /\ pc'[h] = step /\ job'[h] = j
  BY DEF Moves, Goto, Files
<1>2. job[h].project \in Projects
  BY DEF Files, Named, LockedSteps
<1>3. NoNewNumber(h, step, j)
  BY DEF NoNewNumber, Pushing, Committing, PushSteps, CommitSteps, Fits, LockedSteps
<1>4. Named(h)'
  BY <1>1, <1>2 DEF Named, Files, Fits
<1>5. Knows(h, r)'
  BY <1>1 DEF Knows, Fits
<1> QED BY <1>1, <1>2, <1>3, <1>4, <1>5

LEMMA HeldFiles ==
  ASSUME LockInv, Files, NEW h \in Handlers, NEW step \in LockedSteps,
         pc[h] \in LockedSteps, Goto(h, step), UNCHANGED <<server, mutexHandlerLock>>,
         NEW j \in JobSet, job' = [job EXCEPT ![h] = j],
         j.op = job[h].op, j.project = job[h].project,
         NEW r \in Directories, Write(h, r), Sane(r), Current(r), Lesser(r, Directory(h)),
         Fits(h, step, j, r)
  PROVE  Files'
<1>1. /\ Moves(h, step, j) /\ NoNewNumber(h, step, j)
      /\ Named(h)' /\ Knows(h, r)' /\ job[h].project \in Projects
  BY HeldFacts
<1>2. PICK P \in Projects : job[h].project = P
  BY <1>1
<1> QED BY <1>1, <1>2, LesserStep DEF Lesser

LEMMA WorkFiles ==
  ASSUME LockInv, Files, NEW h \in Handlers, NEW step \in LockedSteps,
         pc[h] \in LockedSteps, NEW r \in Directories, Work(h, r, step),
         Sane(r), Current(r), Lesser(r, Directory(h)), Fits(h, step, job[h], r)
  PROVE  Files'
<1> DEFINE j == job[h]
<1>1. j \in JobSet /\ job' = [job EXCEPT ![h] = j] /\ j.op = job[h].op /\ j.project = job[h].project
  BY DEF Work, Files
<1>2. Fits(h, step, j, r)
  OBVIOUS
<1> HIDE DEF j
<1> QED BY <1>1, <1>2, HeldFiles DEF Work

LEMMA NumberFiles ==
  ASSUME LockInv, Files, NEW h \in Handlers, NEW step \in LockedSteps \ Relying,
         pc[h] \in LockedSteps, NEW n \in Nat, NEW r \in Directories, Number(h, n, r, step),
         Sane(r), Current(r), Lesser(r, Directory(h)), Fits(h, step, job[h], r)
  PROVE  Files'
<1> DEFINE j == [job[h] EXCEPT !.num = n]
<1>1. job[h] \in JobSet /\ job' = [job EXCEPT ![h] = j]
  BY DEF Number, Files
<1>2. j \in JobSet /\ j.op = job[h].op /\ j.project = job[h].project
  BY <1>1 DEF JobSet
<1>3. Fits(h, step, j, r)
  BY DEF Fits
<1> HIDE DEF j
<1> QED BY <1>1, <1>2, <1>3, HeldFiles DEF Number

LEMMA ChooseFiles ==
  ASSUME LockInv, Files, NEW h \in Handlers, NEW step \in LockedSteps,
         pc[h] \in LockedSteps, NEW arg \in Texts, NEW r \in Directories,
         Choose(h, arg, r, step),
         Sane(r), Current(r), Lesser(r, Directory(h)),
         Fits(h, step, [job[h] EXCEPT !.arg = arg], r)
  PROVE  Files'
<1> DEFINE j == [job[h] EXCEPT !.arg = arg]
<1>1. job[h] \in JobSet /\ job' = [job EXCEPT ![h] = j]
  BY DEF Choose, Files
<1>2. j \in JobSet /\ j.op = job[h].op /\ j.project = job[h].project
  BY <1>1 DEF JobSet
<1>3. Fits(h, step, j, r)
  OBVIOUS
<1> HIDE DEF j
<1> QED BY <1>1, <1>2, <1>3, HeldFiles DEF Choose

LEMMA LockedDirectory ==
  ASSUME Files, NEW h \in Handlers, pc[h] \in LockedSteps
  PROVE  LET r == Directory(h)
         IN  /\ r \in Directories /\ Sane(r) /\ Current(r) /\ Lesser(r, r)
             /\ job[h].project \in Projects /\ Knows(h, r)
<1>1. job[h].project \in Projects
  BY DEF Files, Named, LockedSteps
<1>2. Directory(h) \in Directories
  BY <1>1 DEF Files, Directory
<1>3. Lesser(Directory(h), Directory(h))
  BY <1>2, LatestIsHighest, PendingIsNext, BoundsAssumption DEF Lesser, Versions
<1> QED BY <1>1, <1>2, <1>3 DEF Files, Directory

\* A directory with fewer versions and pending commits is current if it was.
LEMMA Shrinks ==
  ASSUME NEW r \in Directories, NEW q \in Directories, Current(r),
         DOMAIN q.versions \subseteq DOMAIN r.versions,
         DOMAIN q.pending \subseteq DOMAIN r.pending,
         \A n \in DOMAIN q.pending : q.pending[n] \in {r.pending[n], Broken}
  PROVE  Current(q) /\ Lesser(q, r)
<1>1. Lesser(q, r)
  BY LatestFalls, PendingFalls DEF Lesser
<1>2. /\ findLatestVersion(r) \in Int /\ findLatestVersion(q) \in Int
      /\ \A n \in DOMAIN r.pending : r.pending[n] \in Int
  <2>1. r.pending \in [DOMAIN r.pending -> Texts]
    BY DEF Directories
  <2>2. \A x \in Texts : x \in Int
    BY BoundsAssumption DEF Texts, Versions, Broken
  <2> QED BY <2>1, <2>2, LatestIsHighest, BoundsAssumption DEF Versions
<1>3. Current(q)
  BY <1>1, <1>2 DEF Current, Lesser
<1> QED BY <1>1, <1>3

\* A version directory is written: the numbers stay.
LEMMA VersionWritten ==
  ASSUME NEW r \in Directories, Sane(r), Current(r), NEW v, NEW stage \in Stages
  PROVE  LET q == [r EXCEPT !.versions[v] = stage]
         IN  q \in Directories /\ Sane(q) /\ Current(q) /\ Lesser(q, r)
<1> DEFINE q == [r EXCEPT !.versions[v] = stage]
<1>1. PICK S \in SUBSET Versions : r.versions \in [S -> Stages]
  BY DEF Directories
<1>2. q.versions \in [S -> Stages] /\ DOMAIN q.versions = DOMAIN r.versions
  BY <1>1 DEF Directories
<1>3. q \in Directories /\ q.pending = r.pending /\ q.dir = r.dir /\ q.history = r.history
  BY <1>2 DEF Directories
<1> HIDE DEF q
<1>4. Current(q) /\ Lesser(q, r)
  BY <1>2, <1>3, Shrinks
<1>5. Sane(q)
  BY <1>2, <1>3 DEF Sane, Empty
<1> QED BY <1>3, <1>4, <1>5 DEF q

\* A turn of the deletion of a version.
LEMMA VersionDeleted ==
  ASSUME NEW r \in Directories, Sane(r), Current(r), NEW v \in DOMAIN r.versions,
         NEW left \in DeleteVersion(r, v)
  PROVE  left \in Directories /\ Sane(left) /\ Current(left) /\ Lesser(left, r)
<1>1. CASE r.versions[v] # "bare"
  <2>1. PICK stage \in Stages : left = [r EXCEPT !.versions[v] = stage]
    BY <1>1 DEF DeleteVersion, Stages
  <2> QED BY <2>1, VersionWritten
<1>2. CASE r.versions[v] = "bare"
  <2> DEFINE q == [r EXCEPT !.versions = Without(@, v)]
  <2>1. PICK S \in SUBSET Versions : r.versions \in [S -> Stages]
    BY DEF Directories
  <2>2. Without(r.versions, v) \in [S \ {v} -> Stages] /\ S \ {v} \in SUBSET Versions
    BY <2>1 DEF Without
  <2>3. Without(r.versions, v) \in UNION {[T -> Stages] : T \in SUBSET Versions}
    BY <2>2
  <2>4. /\ q \in Directories /\ q.pending = r.pending /\ q.dir = r.dir /\ q.history = r.history
        /\ q.versions = Without(r.versions, v)
    BY <2>3 DEF Directories
  <2> HIDE DEF q
  <2>5. DOMAIN q.versions \subseteq DOMAIN r.versions
    BY <2>1, <2>2, <2>4
  <2>6. Current(q) /\ Lesser(q, r)
    BY <2>4, <2>5, Shrinks
  <2>7. Sane(q)
    BY <2>4 DEF Sane, Empty
  <2>8. left = q
    BY <1>2 DEF DeleteVersion, q
  <2> QED BY <2>4, <2>6, <2>7, <2>8
<1> QED BY <1>1, <1>2

\* A pending commit goes.
LEMMA PendingDeleted ==
  ASSUME NEW r \in Directories, Sane(r), Current(r), NEW n \in DOMAIN r.pending
  PROVE  LET q == [r EXCEPT !.pending = Without(@, n)]
         IN  q \in Directories /\ Sane(q) /\ Current(q) /\ Lesser(q, r)
<1> DEFINE q == [r EXCEPT !.pending = Without(@, n)]
<1>1. PICK S \in SUBSET (1 .. MaxPending) : r.pending \in [S -> Texts]
  BY DEF Directories
<1>2. Without(r.pending, n) \in [S \ {n} -> Texts] /\ S \ {n} \in SUBSET (1 .. MaxPending)
  BY <1>1 DEF Without
<1>3. Without(r.pending, n) \in UNION {[T -> Texts] : T \in SUBSET (1 .. MaxPending)}
  BY <1>2
<1>4. /\ q \in Directories /\ q.versions = r.versions /\ q.dir = r.dir /\ q.history = r.history
      /\ q.pending = Without(r.pending, n)
  BY <1>3 DEF Directories
<1> HIDE DEF q
<1>5. /\ DOMAIN q.pending \subseteq DOMAIN r.pending
      /\ \A k \in DOMAIN q.pending : q.pending[k] = r.pending[k]
  BY <1>1, <1>4 DEF Without
<1>6. Current(q) /\ Lesser(q, r)
  BY <1>4, <1>5, Shrinks
<1>7. Sane(q)
  <2>1. r.dir
    BY DEF Sane, Empty
  <2> QED BY <1>4, <2>1 DEF Sane
<1> QED BY <1>4, <1>6, <1>7 DEF q

\* The other fields do not matter to the numbers.
LEMMA FlagWritten ==
  ASSUME NEW r \in Directories, Current(r), NEW q \in Directories,
         q.versions = r.versions, q.pending = r.pending
  PROVE  Current(q) /\ Lesser(q, r)
BY Shrinks

\* mkdir of the version v: nothing, or one more key.
LEMMA DirectoryMade ==
  ASSUME NEW r \in Directories, r.dir, NEW v \in Versions
  PROVE  LET q == MakeDirectory(r, v)
         IN  /\ q \in Directories /\ Sane(q)
             /\ DOMAIN q.versions = DOMAIN r.versions \cup {v}
             /\ q.pending = r.pending
             /\ v \notin DOMAIN r.versions => q.versions[v] = "bare"
             /\ \A w \in DOMAIN r.versions : q.versions[w] = r.versions[w]
<1>1. CASE v \in DOMAIN r.versions
  <2>1. DOMAIN r.versions = DOMAIN r.versions \cup {v}
    BY <1>1
  <2> QED BY <1>1, <2>1 DEF MakeDirectory, Sane
<1>2. CASE v \notin DOMAIN r.versions
  <2> DEFINE q == [r EXCEPT !.versions = Put(@, v, "bare")]
  <2>1. PICK S \in SUBSET Versions : r.versions \in [S -> Stages]
    BY DEF Directories
  <2>2. /\ Put(r.versions, v, "bare") \in [S \cup {v} -> Stages] /\ S \cup {v} \in SUBSET Versions
        /\ DOMAIN r.versions = S /\ Put(r.versions, v, "bare")[v] = "bare"
        /\ \A w \in S \ {v} : Put(r.versions, v, "bare")[w] = r.versions[w]
    BY <2>1 DEF Put, Stages
  <2>3. Put(r.versions, v, "bare") \in UNION {[T -> Stages] : T \in SUBSET Versions}
    BY <2>2
  <2>4. q \in Directories /\ q.pending = r.pending /\ q.dir /\ q.versions = Put(r.versions, v, "bare")
    BY <2>3 DEF Directories
  <2>5. /\ DOMAIN q.versions = DOMAIN r.versions \cup {v} /\ q.versions[v] = "bare"
        /\ \A w \in DOMAIN r.versions : q.versions[w] = r.versions[w]
    BY <1>2, <2>2, <2>4
  <2> HIDE DEF q
  <2> QED BY <1>2, <2>4, <2>5 DEF MakeDirectory, Sane, q
<1> QED BY <1>1, <1>2

LEMMA CreateFiles ==
  ASSUME LockInv, Files, NEW h \in Handlers,
         CreateProject(h) \/ CreateVersion(h) \/ CreateManifest(h)
  PROVE  Files'
<1> USE DEF At
<1> DEFINE r == Directory(h)
<1>1. pc[h] \in {"mkdir", "mkversion", "manifest"}
  BY DEF CreateProject, CreateVersion, CreateManifest
<1>2. /\ r \in Directories /\ Sane(r) /\ Current(r) /\ pc[h] \in LockedSteps
  BY <1>1, LockedDirectory DEF LockedSteps
<1>3. ASSUME NEW step \in {"mkversion", "manifest", "unlock"}, NEW q
      PROVE  step \in LockedSteps \ Relying /\ Fits(h, step, job[h], q)
  BY DEF Fits, LockedSteps
<1>4. CASE CreateProject(h)
  <2> DEFINE q == [r EXCEPT !.dir = TRUE]
  <2>1. /\ q \in Directories /\ q.dir /\ q.versions = r.versions /\ q.pending = r.pending
        /\ Work(h, q, "mkversion")
    BY <1>2, <1>4 DEF Directories, CreateProject
  <2> HIDE DEF q, r
  <2>2. Current(q) /\ Lesser(q, r) /\ Sane(q)
    BY <1>2, <2>1, FlagWritten DEF Sane
  <2> QED BY <1>2, <1>3, <2>1, <2>2, WorkFiles DEF r
<1>5. CASE CreateManifest(h)
  <2> DEFINE q == [r EXCEPT !.versions[job[h].num] = "initial"]
  <2>1. q \in Directories /\ Sane(q) /\ Current(q) /\ Lesser(q, r) /\ Work(h, q, "unlock")
    BY <1>2, <1>5, VersionWritten DEF Stages, CreateManifest
  <2> HIDE DEF q, r
  <2> QED BY <1>2, <1>3, <2>1, WorkFiles DEF r
<1>6. CASE CreateVersion(h)
  <2> DEFINE v == findLatestVersion(r)
             q == MakeDirectory(r, v)
  <2>1. CASE Stop("exited")
    BY <2>1, StopFiles
  <2>2. CASE r.dir /\ Number(h, v, q, "manifest")
    <3>1. v \in Versions /\ v \in Nat /\ v <= v
      BY <1>2, LatestIsHighest, BoundsAssumption DEF Versions
    <3> HIDE DEF r
    <3>2. /\ q \in Directories /\ Sane(q) /\ q.pending = r.pending
          /\ DOMAIN q.versions = DOMAIN r.versions \cup {v}
      BY <1>2, <2>2, <3>1, DirectoryMade
    <3> HIDE DEF q
    <3>3. findLatestVersion(q) = findLatestVersion(r)
      BY <1>2, <3>1, <3>2, LatestRises
    <3>4. pendingCommitNum(q) = pendingCommitNum(r) /\ pendingCommitNum(r) \in Nat
      BY <1>2, <3>2, PendingIsNext DEF pendingCommitNum
    <3>5. Current(q) /\ Lesser(q, r)
      BY <1>2, <3>1, <3>2, <3>3, <3>4 DEF Current, Lesser
    <3> HIDE DEF v
    <3> QED BY <1>2, <1>3, <2>2, <3>1, <3>2, <3>5, NumberFiles DEF r
  <2> QED BY <1>6, <2>1, <2>2 DEF CreateVersion, VersionFound
<1> QED BY <1>4, <1>5, <1>6

\* A turn of deleteDirectory is one of a version's deletion or takes a pending commit.
LEMMA DeletionKinds ==
  ASSUME NEW r, NEW left \in Deletions(r)
  PROVE  \/ \E v \in DOMAIN r.versions : left \in DeleteVersion(r, v)
         \/ \E n \in DOMAIN r.pending : left = [r EXCEPT !.pending = Without(@, n)]
<1>1. \/ left \in UNION {DeleteVersion(r, v) : v \in DOMAIN r.versions}
      \/ left \in {[r EXCEPT !.pending = Without(@, n)] : n \in DOMAIN r.pending}
  BY Zenon DEF Deletions
<1>2. ASSUME left \in UNION {DeleteVersion(r, v) : v \in DOMAIN r.versions}
      PROVE  \E v \in DOMAIN r.versions : left \in DeleteVersion(r, v)
  BY <1>2, Zenon
<1>3. ASSUME left \in {[r EXCEPT !.pending = Without(@, n)] : n \in DOMAIN r.pending}
      PROVE  \E n \in DOMAIN r.pending : left = [r EXCEPT !.pending = Without(@, n)]
  BY <1>3, Zenon
<1> QED BY <1>1, <1>2, <1>3

LEMMA DestroyFiles ==
  ASSUME LockInv, Files, NEW h \in Handlers, deleteDirectory(h) \/ RemoveProject(h)
  PROVE  Files'
<1> USE DEF At
<1> DEFINE r == Directory(h)
<1>1. pc[h] \in {"delete", "rmdir"}
  BY DEF deleteDirectory, RemoveProject
<1>2. /\ r \in Directories /\ Sane(r) /\ Current(r) /\ Lesser(r, r) /\ pc[h] \in LockedSteps
  BY <1>1, LockedDirectory DEF LockedSteps
<1>3. ASSUME NEW step \in {"delete", "rmdir", "unlock"}, NEW q
      PROVE  step \in LockedSteps \ Relying /\ Fits(h, step, job[h], q)
  BY DEF Fits, LockedSteps
<1>4. ASSUME NEW left \in Deletions(r), Work(h, left, "delete") PROVE Files'
  <2>1. left \in Directories /\ Sane(left) /\ Current(left) /\ Lesser(left, r)
    <3>1. CASE \E v \in DOMAIN r.versions : left \in DeleteVersion(r, v)
      BY <1>2, <3>1, VersionDeleted
    <3>2. CASE \E n \in DOMAIN r.pending : left = [r EXCEPT !.pending = Without(@, n)]
      BY <1>2, <3>2, PendingDeleted
    <3> QED BY <1>4, <3>1, <3>2, DeletionKinds
  <2> QED BY <1>2, <1>3, <1>4, <2>1, WorkFiles
<1>5. ASSUME r.history, Number(h, 0, [r EXCEPT !.history = FALSE], "delete") PROVE Files'
  <2> DEFINE q == [r EXCEPT !.history = FALSE]
  <2>1. /\ q \in Directories /\ q.dir = r.dir /\ q.versions = r.versions /\ q.pending = r.pending
    BY <1>2 DEF Directories
  <2>2. Number(h, 0, q, "delete") /\ 0 \in Nat /\ r.dir
    BY <1>2, <1>5 DEF Sane, Empty
  <2> HIDE DEF q, r
  <2>3. Current(q) /\ Lesser(q, r) /\ Sane(q)
    BY <1>2, <2>1, <2>2, FlagWritten DEF Sane
  <2> QED BY <1>2, <1>3, <2>1, <2>2, <2>3, NumberFiles DEF r
<1>6. ASSUME Work(h, r, "rmdir") PROVE Files'
  BY <1>2, <1>3, <1>6, WorkFiles
<1>7. CASE deleteDirectory(h)
  BY <1>4, <1>5, <1>6, <1>7, StopFiles DEF deleteDirectory
<1>8. CASE RemoveProject(h)
  <2> DEFINE q == Rmdir(r)
  <2>1. Work(h, q, "unlock")
    BY <1>8 DEF RemoveProject
  <2>2. q \in Directories /\ Sane(q) /\ Current(q) /\ Lesser(q, r)
    <3>1. CASE ~ Empty(r)
      BY <1>2, <3>1 DEF Rmdir
    <3>2. CASE Empty(r)
      <4>1. DOMAIN r.versions = {} /\ DOMAIN r.pending = {} /\ r \in Directories
        BY <1>2, <3>2 DEF Empty
      <4>2. NoProject \in Directories /\ Sane(NoProject)
        BY NoProjectShape
      <4>3. DOMAIN NoProject.versions = {} /\ DOMAIN NoProject.pending = {}
        BY NoProjectShape
      <4>4. Current(NoProject) /\ Lesser(NoProject, r)
        BY <1>2, <4>1, <4>2, <4>3, Shrinks
      <4> QED BY <3>2, <4>2, <4>4 DEF Rmdir
    <3> QED BY <3>1, <3>2
  <2> HIDE DEF q
  <2> QED BY <1>2, <1>3, <2>1, <2>2, WorkFiles
<1> QED BY <1>7, <1>8

\* A step that keeps the directory, to a step that relies on nothing new.
LEMMA SameFiles ==
  ASSUME LockInv, Files, NEW h \in Handlers, pc[h] \in LockedSteps,
         NEW step \in LockedSteps \ {"recv", "text", "mknext"}, Work(h, Directory(h), step),
         step \in PublishSteps => pc[h] \in PublishSteps,
         step \in {"receive", "diff", "expire"} => pc[h] \in {"receive", "diff", "expire"},
         step # "send"
  PROVE  Files'
<1>1. Knows(h, Directory(h))
  BY LockedDirectory
<1>2. Fits(h, step, job[h], Directory(h))
  BY <1>1 DEF Fits, Knows
<1> QED BY <1>2, LockedDirectory, WorkFiles

LEMMA RollbackFiles ==
  ASSUME LockInv, Files, NEW h \in Handlers, CheckTarget(h) \/ rollback(h)
  PROVE  Files'
<1> USE DEF At
<1> DEFINE r == Directory(h)
<1>1. pc[h] \in {"target", "rollback"} /\ pc[h] \in LockedSteps
  BY DEF CheckTarget, rollback, LockedSteps
<1>2. /\ r \in Directories /\ Sane(r) /\ Current(r) /\ Lesser(r, r)
  BY <1>1, LockedDirectory
<1>3. \A step \in {"rollback", "unlock"} : step \in LockedSteps
  BY DEF LockedSteps
<1>4. ASSUME NEW v \in Versions, Choose(h, v, r, "rollback") PROVE Files'
  <2>1. v \in Texts
    BY DEF Texts
  <2>2. Fits(h, "rollback", [job[h] EXCEPT !.arg = v], r)
    BY DEF Fits
  <2> QED BY <1>1, <1>2, <1>3, <1>4, <2>1, <2>2, ChooseFiles
<1>5. ASSUME NEW v \in DOMAIN r.versions, NEW q \in DeleteVersion(r, v),
             Work(h, q, "rollback")
      PROVE  Files'
  <2>1. q \in Directories /\ Sane(q) /\ Current(q) /\ Lesser(q, r)
    BY <1>2, VersionDeleted
  <2>2. Fits(h, "rollback", job[h], q)
    BY DEF Fits
  <2> QED BY <1>1, <1>3, <1>5, <2>1, <2>2, WorkFiles
<1>6. ASSUME Work(h, r, "unlock") PROVE Files'
  BY <1>1, <1>3, <1>6, SameFiles
<1>7. CASE CheckTarget(h)
  BY <1>4, <1>6, <1>7, StopFiles DEF CheckTarget
<1>8. CASE rollback(h)
  BY <1>5, <1>6, <1>8 DEF rollback
<1> QED BY <1>7, <1>8

\* The commit is made against the latest version, which stays the latest until the
\* handler gives the lock back.
LEMMA CommitFiles ==
  ASSUME LockInv, Files, NEW h \in Handlers, SendManifest(h) \/ WritePending(h)
  PROVE  Files'
<1> USE DEF At
<1> DEFINE r == Directory(h)
<1>1. pc[h] \in {"send", "text"} /\ pc[h] \in LockedSteps
  BY DEF SendManifest, WritePending, LockedSteps
<1>2. /\ r \in Directories /\ Sane(r) /\ Current(r) /\ Lesser(r, r) /\ Knows(h, r)
  BY <1>1, LockedDirectory
<1>3. "recv" \in LockedSteps /\ "unlock" \in LockedSteps
  BY DEF LockedSteps
<1>4. findLatestVersion(r) \in Versions /\ findLatestVersion(r) \in Int
  BY <1>2, LatestIsHighest, BoundsAssumption DEF Versions
<1>5. CASE SendManifest(h)
  <2>1. CASE Stop("exited")
    BY <2>1, StopFiles
  <2>2. CASE r.dir /\ Choose(h, findLatestVersion(r), r, "recv")
    <3>1. pc[h] = "send" /\ findLatestVersion(r) \in Texts
      BY <1>4, <1>5 DEF SendManifest, Texts
    <3>2. [job[h] EXCEPT !.arg = findLatestVersion(r)].arg = findLatestVersion(r)
      BY DEF Files, JobSet
    <3>3. Fits(h, "recv", [job[h] EXCEPT !.arg = findLatestVersion(r)], r)
      BY <1>4, <2>2, <3>1, <3>2 DEF Fits
    <3> HIDE DEF r
    <3> QED BY <1>1, <1>2, <1>3, <2>2, <3>1, <3>3, ChooseFiles DEF r
  <2> QED BY <1>5, <2>1, <2>2 DEF SendManifest, VersionFound
<1>6. CASE WritePending(h)
  <2>1. PICK text \in {job[h].arg, Broken} :
          Work(h, [r EXCEPT !.pending[job[h].num] = text], "unlock")
    BY <1>6 DEF WritePending
  <2>2. /\ job[h].arg \in Versions /\ job[h].arg >= findLatestVersion(r)
        /\ r.dir
    BY <1>2, <1>6 DEF Knows, WritePending
  <2> DEFINE q == [r EXCEPT !.pending[job[h].num] = text]
  <2>3. text \in Texts /\ (text = Broken \/ text >= findLatestVersion(r))
    BY <2>2 DEF Texts
  <2>4. PICK S \in SUBSET (1 .. MaxPending) : r.pending \in [S -> Texts]
    BY <1>2 DEF Directories
  <2>5. /\ q.pending \in [S -> Texts] /\ DOMAIN q.pending = DOMAIN r.pending
        /\ \A n \in DOMAIN q.pending : q.pending[n] = r.pending[n] \/ q.pending[n] = text
    BY <1>2, <2>3, <2>4 DEF Directories
  <2>6. q \in Directories /\ q.versions = r.versions /\ q.dir
    BY <1>2, <2>2, <2>5 DEF Directories
  <2> HIDE DEF q, r
  <2>7. /\ findLatestVersion(q) = findLatestVersion(r)
        /\ pendingCommitNum(q) = pendingCommitNum(r) /\ pendingCommitNum(r) \in Nat
    BY <1>2, <2>5, <2>6, PendingIsNext DEF findLatestVersion, pendingCommitNum
  <2>8. Current(q)
    BY <1>2, <2>3, <2>5, <2>7 DEF Current
  <2>9. Lesser(q, r) /\ Sane(q)
    BY <1>4, <2>6, <2>7 DEF Lesser, Sane
  <2>10. Fits(h, "unlock", job[h], q)
    BY DEF Fits
  <2>11. Work(h, q, "unlock")
    BY <2>1 DEF q
  <2> QED BY <1>1, <1>3, <2>6, <2>8, <2>9, <2>10, <2>11, WorkFiles DEF r
<1> QED BY <1>5, <1>6

LEMMA PushFiles ==
  ASSUME LockInv, Files, NEW h \in Handlers,
         \/ ReceiveCommit(h) \/ DiffCommit(h) \/ expirePending(h)
         \/ CopyVersion(h) \/ UpdateManifest(h) \/ ReceiveFiles(h) \/ FinishPush(h)
         \/ DeletePushCommit(h)
  PROVE  Files'
<1> USE DEF At
<1> DEFINE r == Directory(h)
<1>1. /\ pc[h] \in {"receive", "diff", "expire", "copy", "update", "files", "finish", "cleanup"}
      /\ pc[h] \in LockedSteps
  BY DEF ReceiveCommit, DiffCommit, expirePending, CopyVersion, UpdateManifest,
         ReceiveFiles, FinishPush, DeletePushCommit, LockedSteps
<1>2. /\ r \in Directories /\ Sane(r) /\ Current(r) /\ Lesser(r, r)
  BY <1>1, LockedDirectory
<1>3. \A step \in {"diff", "expire", "mknext", "update", "files", "finish", "cleanup", "unlock"} :
        step \in LockedSteps
  BY DEF LockedSteps
<1>4. ASSUME NEW v, NEW stage \in Stages, NEW step \in {"update", "files", "cleanup"},
             v = job[h].num, stage # "published" \/ step = "cleanup",
             Work(h, [r EXCEPT !.versions[v] = stage], step)
      PROVE  Files'
  <2> DEFINE q == [r EXCEPT !.versions[v] = stage]
  <2>1. q \in Directories /\ Sane(q) /\ Current(q) /\ Lesser(q, r)
    BY <1>2, VersionWritten
  <2>2. Fits(h, step, job[h], q)
    <3>1. v \in DOMAIN q.versions => q.versions[v] = stage
      BY <1>2 DEF Directories
    <3> HIDE DEF q
    <3> QED BY <1>4, <3>1 DEF Fits
  <2>3. Work(h, q, step)
    BY <1>4
  <2> HIDE DEF q
  <2> QED BY <1>1, <1>3, <2>1, <2>2, <2>3, WorkFiles
<1>5. ASSUME NEW step \in {"update", "finish", "cleanup", "unlock"}, Work(h, r, step),
             pc[h] \in PublishSteps \/ step \in {"cleanup", "unlock"}
      PROVE  Files'
  BY <1>1, <1>3, <1>5, SameFiles
<1>6. CASE ReceiveCommit(h)
  <2>1. PICK text \in Texts : Choose(h, text, r, "diff")
    BY <1>6 DEF ReceiveCommit
  <2>2. Fits(h, "diff", [job[h] EXCEPT !.arg = text], r)
    BY <1>6 DEF Fits, ReceiveCommit
  <2> HIDE DEF r
  <2> QED BY <1>1, <1>2, <1>3, <2>1, <2>2, ChooseFiles DEF r
<1>7. CASE DiffCommit(h)
  <2>1. CASE Stop("exited")
    BY <2>1, StopFiles
  <2>2. CASE Work(h, r, "expire")
    BY <1>1, <1>3, <1>7, <2>2, SameFiles DEF DiffCommit
  <2>3. CASE Work(h, r, "cleanup")
    BY <1>5, <2>3
  <2> QED BY <1>7, <2>1, <2>2, <2>3 DEF DiffCommit
<1>8. CASE expirePending(h)
  <2>1. CASE DOMAIN r.pending = {} /\ Work(h, r, "mknext")
    <3>1. Fits(h, "mknext", job[h], r)
      BY <1>8, <2>1 DEF Fits, expirePending
    <3> QED BY <1>1, <1>2, <1>3, <2>1, <3>1, WorkFiles
  <2>2. ASSUME NEW n \in DOMAIN r.pending,
               Work(h, [r EXCEPT !.pending = Without(@, n)], "expire")
        PROVE  Files'
    <3> DEFINE q == [r EXCEPT !.pending = Without(@, n)]
    <3>1. q \in Directories /\ Sane(q) /\ Current(q) /\ Lesser(q, r)
      BY <1>2, PendingDeleted
    <3>2. Fits(h, "expire", job[h], q)
      BY <1>8 DEF Fits, expirePending
    <3>3. Work(h, q, "expire")
      BY <2>2
    <3> HIDE DEF q
    <3> QED BY <1>1, <1>3, <3>1, <3>2, <3>3, WorkFiles
  <2> QED BY <1>8, <2>1, <2>2 DEF expirePending
<1>9. CASE CopyVersion(h)
  BY <1>4, <1>5, <1>9 DEF CopyVersion, Stages
<1>10. CASE UpdateManifest(h)
  BY <1>4, <1>10, StopFiles DEF UpdateManifest, Stages
<1>11. CASE ReceiveFiles(h) \/ DeletePushCommit(h)
  BY <1>5, <1>11 DEF ReceiveFiles, DeletePushCommit
<1>12. CASE FinishPush(h)
  BY <1>4, <1>12, StopFiles DEF FinishPush, Stages
<1> QED BY <1>6, <1>7, <1>8, <1>9, <1>10, <1>11, <1>12

LEMMA OneLess ==
  ASSUME NEW S, IsFiniteSet(S), NEW x \in S, NEW T, T \subseteq S \ {x}
  PROVE  /\ Cardinality(S) \in Nat /\ Cardinality(T) \in Nat
         /\ Cardinality(T) + 1 <= Cardinality(S)
<1>1. IsFiniteSet(S \ {x}) /\ Cardinality(S \ {x}) = Cardinality(S) - 1
  BY FS_RemoveElement
<1>2. IsFiniteSet(T) /\ Cardinality(T) <= Cardinality(S \ {x})
  BY <1>1, FS_Subset
<1>3. Cardinality(S) \in Nat /\ Cardinality(T) \in Nat
  BY <1>2, FS_CardinalityType
<1> QED BY <1>1, <1>2, <1>3

LEMMA UnderWayFinite ==
  ASSUME NEW p
  PROVE  /\ IsFiniteSet(Pushing(p)) /\ IsFiniteSet(Committing(p))
         /\ Cardinality(Pushing(p)) \in Nat /\ Cardinality(Committing(p)) \in Nat
<1>1. Pushing(p) \in SUBSET Handlers /\ Committing(p) \in SUBSET Handlers
  BY DEF Pushing, Committing
<1>2. IsFiniteSet(Pushing(p)) /\ IsFiniteSet(Committing(p))
  BY <1>1, FS_Subset, NamesAssumption
<1> QED BY <1>2, FS_CardinalityType

\* The version that a push makes is in bounds, since the push was counted. No pending
\* commit is left to be older than it.
LEMMA MakeVersionFiles ==
  ASSUME LockInv, Files, NEW h \in Handlers, MakeVersion(h)
  PROVE  Files'
<1> USE DEF At
<1> DEFINE r == Directory(h)
           v == findLatestVersion(r) + 1
<1>1. pc[h] = "mknext" /\ pc[h] \in LockedSteps /\ job[h].op = "push"
  BY DEF MakeVersion, LockedSteps, Files, Named
<1>2. /\ r \in Directories /\ Sane(r) /\ Current(r) /\ DOMAIN r.pending = {}
      /\ job[h].project \in Projects
  BY <1>1, LockedDirectory DEF Knows
<1>3. CASE Stop("exited")
  BY <1>3, StopFiles
<1>4. CASE DOMAIN r.versions # {} /\ Number(h, v, MakeDirectory(r, v), "copy")
  <2>1. PICK P \in Projects : job[h].project = P
    BY <1>2
  <2>2. r = repo[P] /\ h \in Pushing(P) /\ Room(P)
    BY <1>1, <2>1 DEF Directory, Pushing, PushSteps, Files
  <2>3. findLatestVersion(r) \in Nat /\ MaxVersion \in Nat
    BY <1>2, LatestIsHighest, BoundsAssumption DEF Versions
  <2>4. /\ Cardinality(Pushing(P)) \in Nat
        /\ \A T : T \subseteq Pushing(P) \ {h} =>
             Cardinality(T) \in Nat /\ Cardinality(T) + 1 <= Cardinality(Pushing(P))
    BY <2>2, UnderWayFinite, OneLess
  <2>5. Cardinality(Pushing(P)) >= 1
    <3>1. Cardinality({}) \in Nat /\ Cardinality({}) + 1 <= Cardinality(Pushing(P))
      BY <2>4
    <3> QED BY <2>4, <3>1
  <2>6. v \in Versions /\ v \in Nat /\ findLatestVersion(r) <= v
    BY <2>2, <2>3, <2>4, <2>5 DEF Room, Versions
  <2>7. Number(h, v, MakeDirectory(r, v), "copy") /\ r.dir
    BY <1>2, <1>4 DEF Sane, Empty
  <2> HIDE DEF r
  <2>8. PICK q \in Directories : /\ q = MakeDirectory(r, v)
                                 /\ Sane(q) /\ q.pending = r.pending
                                 /\ v \notin DOMAIN r.versions => q.versions[v] = "bare"
                                 /\ DOMAIN q.versions = DOMAIN r.versions \cup {v}
    BY <1>2, <2>6, <2>7, DirectoryMade
  <2>9. findLatestVersion(q) = v
    BY <1>2, <2>6, <2>8, LatestRises
  <2>10. pendingCommitNum(q) = pendingCommitNum(r) /\ pendingCommitNum(r) \in Nat
    BY <1>2, <2>8, PendingIsNext DEF pendingCommitNum
  <2>11. Current(q)
    BY <1>2, <2>8 DEF Current
  <2> DEFINE j == [job[h] EXCEPT !.num = v]
  <2>12. job[h] \in JobSet /\ job' = [job EXCEPT ![h] = j]
    BY <2>7 DEF Number, Files
  <2>13. j \in JobSet /\ j.op = job[h].op /\ j.project = job[h].project
    BY <2>6, <2>12 DEF JobSet
  <2>14. Fits(h, "copy", j, q) /\ "copy" \in LockedSteps
    <3>1. v \notin DOMAIN r.versions /\ j.num = v
      BY <1>2, <2>3, <2>12, LatestIsHighest DEF JobSet, j
    <3> QED BY <2>8, <3>1 DEF Fits, LockedSteps
  <2> HIDE DEF j
  <2>15. Goto(h, "copy") /\ Write(h, q) /\ UNCHANGED <<server, mutexHandlerLock>>
    BY <2>7, <2>8 DEF Number
  <2>16. /\ Moves(h, "copy", j) /\ NoNewNumber(h, "copy", j) /\ Named(h)' /\ Knows(h, q)'
    BY <1>1, <2>12, <2>13, <2>14, <2>15, HeldFacts
  <2>17. repo'[P] = q
    BY <2>1, <2>15 DEF Write, Files
  <2>18. Pushing(P)' \subseteq Pushing(P) \ {h} /\ Committing(P)' \subseteq Committing(P)
    <3>1. Pushing(P)' \subseteq Pushing(P) /\ Committing(P)' \subseteq Committing(P)
      BY <2>13, <2>16, FewerUnderWay DEF Steps, LockedSteps
    <3>2. h \notin Pushing(P)'
      BY <2>16 DEF Pushing, PushSteps, Moves, Files
    <3> QED BY <3>1, <3>2
  <2>19. Room(P)'
    <3>1. /\ Cardinality(Pushing(P)') \in Nat
          /\ Cardinality(Pushing(P)') + 1 <= Cardinality(Pushing(P))
      BY <2>4, <2>18
    <3>2. /\ Cardinality(Committing(P)) \in Nat /\ Cardinality(Committing(P)') \in Nat
          /\ Cardinality(Committing(P)') <= Cardinality(Committing(P))
      BY <2>18, UnderWayFinite, FS_Subset, FS_CardinalityType
    <3>3. findLatestVersion(repo'[P]) + Cardinality(Pushing(P)') <= MaxVersion
      BY <2>2, <2>3, <2>4, <2>9, <2>17, <3>1 DEF Room
    <3>4. pendingCommitNum(repo'[P]) + Cardinality(Committing(P)') <= MaxPending + 1
      BY <2>2, <2>10, <2>17, <3>2, BoundsAssumption DEF Room
    <3> QED BY <3>3, <3>4 DEF Room
  <2> QED BY <1>1, <2>1, <2>8, <2>11, <2>13, <2>14, <2>15, <2>16, <2>19, WriteStep
<1> QED BY <1>3, <1>4 DEF MakeVersion

\* The file of a commit is a new one, in bounds, and still without text.
LEMMA CreatePendingFiles ==
  ASSUME LockInv, Files, NEW h \in Handlers, CreatePending(h)
  PROVE  Files'
<1> USE DEF At
<1> DEFINE r == Directory(h)
           n == pendingCommitNum(r)
           with == [r EXCEPT !.pending = Put(@, n, Broken)]
<1>1. /\ pc[h] = "recv" /\ pc[h] \in LockedSteps /\ job[h].op = "commit"
      /\ Number(h, n, with, "text")
  BY DEF CreatePending, LockedSteps, Files, Named
<1>2. /\ r \in Directories /\ Sane(r) /\ Current(r) /\ Knows(h, r)
      /\ job[h].project \in Projects
  BY <1>1, LockedDirectory
<1>3. PICK P \in Projects : job[h].project = P
  BY <1>2
<1>4. r = repo[P] /\ h \in Committing(P) /\ Room(P)
  BY <1>1, <1>3 DEF Directory, Committing, CommitSteps, Files
<1>5. n \in Nat \ {0} /\ MaxPending \in Nat
  BY <1>2, PendingIsNext, BoundsAssumption
<1>6. /\ Cardinality(Committing(P)) \in Nat
      /\ \A T : T \subseteq Committing(P) \ {h} =>
           Cardinality(T) \in Nat /\ Cardinality(T) + 1 <= Cardinality(Committing(P))
  BY <1>4, UnderWayFinite, OneLess
<1>7. n \in 1 .. MaxPending
  <2>1. Cardinality({}) \in Nat /\ Cardinality({}) + 1 <= Cardinality(Committing(P))
    BY <1>6
  <2> QED BY <1>4, <1>5, <1>6, <2>1 DEF Room
<1>8. PICK S \in SUBSET (1 .. MaxPending) : r.pending \in [S -> Texts]
  BY <1>2 DEF Directories
<1>9. /\ Put(r.pending, n, Broken) \in [S \cup {n} -> Texts]
      /\ S \cup {n} \in SUBSET (1 .. MaxPending) /\ DOMAIN r.pending = S
      /\ \A k \in S : k = n \/ Put(r.pending, n, Broken)[k] = r.pending[k]
      /\ Put(r.pending, n, Broken)[n] = Broken
  BY <1>7, <1>8 DEF Put, Texts
<1>10. Put(r.pending, n, Broken) \in UNION {[T -> Texts] : T \in SUBSET (1 .. MaxPending)}
  BY <1>9
<1>11. PICK q \in Directories :
         /\ q = with /\ q.versions = r.versions /\ q.dir = r.dir
         /\ q.pending = Put(r.pending, n, Broken)
  <2>1. /\ with \in Directories /\ with.versions = r.versions /\ with.dir = r.dir
        /\ with.pending = Put(r.pending, n, Broken)
    BY <1>2, <1>10 DEF Directories
  <2> HIDE DEF with
  <2> QED BY <2>1
<1>12. /\ job[h].arg \in Versions /\ job[h].arg >= findLatestVersion(r) /\ r.dir
  BY <1>1, <1>2 DEF Knows
<1> HIDE DEF r, with
<1>13. DOMAIN q.pending = DOMAIN r.pending \cup {pendingCommitNum(r)}
  BY <1>9, <1>11
<1>14. pendingCommitNum(q) = n + 1 /\ findLatestVersion(q) = findLatestVersion(r)
  BY <1>2, <1>11, <1>13, PendingRises DEF findLatestVersion
<1>15. Current(q) /\ Sane(q)
  BY <1>2, <1>9, <1>11, <1>12, <1>14 DEF Current, Sane
<1> HIDE DEF n
<1> DEFINE j == [job[h] EXCEPT !.num = n]
<1>16. job[h] \in JobSet /\ job' = [job EXCEPT ![h] = j]
  BY <1>1 DEF Number, Files
<1>17. /\ j \in JobSet /\ j.op = job[h].op /\ j.project = job[h].project
       /\ j.arg = job[h].arg /\ j.num = n
  BY <1>5, <1>16 DEF JobSet
<1>18. Fits(h, "text", j, q) /\ "text" \in LockedSteps
  BY <1>9, <1>11, <1>12, <1>14, <1>17 DEF Fits, LockedSteps
<1> HIDE DEF j
<1>19. Goto(h, "text") /\ Write(h, q) /\ UNCHANGED <<server, mutexHandlerLock>>
  BY <1>1, <1>11 DEF Number
<1>20. /\ Moves(h, "text", j) /\ NoNewNumber(h, "text", j) /\ Named(h)' /\ Knows(h, q)'
  BY <1>1, <1>16, <1>17, <1>18, <1>19, HeldFacts
<1>21. repo'[P] = q
  BY <1>3, <1>19 DEF Write, Files
<1>22. Committing(P)' \subseteq Committing(P) \ {h} /\ Pushing(P)' \subseteq Pushing(P)
  <2>1. Pushing(P)' \subseteq Pushing(P) /\ Committing(P)' \subseteq Committing(P)
    BY <1>17, <1>20, FewerUnderWay DEF Steps, LockedSteps
  <2>2. h \notin Committing(P)'
    BY <1>20 DEF Committing, CommitSteps, Moves, Files
  <2> QED BY <2>1, <2>2
<1>23. Room(P)'
  <2>1. /\ Cardinality(Committing(P)') \in Nat
        /\ Cardinality(Committing(P)') + 1 <= Cardinality(Committing(P))
    BY <1>6, <1>22
  <2>2. /\ Cardinality(Pushing(P)) \in Nat /\ Cardinality(Pushing(P)') \in Nat
        /\ Cardinality(Pushing(P)') <= Cardinality(Pushing(P))
    BY <1>22, UnderWayFinite, FS_Subset, FS_CardinalityType
  <2>3. findLatestVersion(r) \in Nat /\ MaxVersion \in Nat
    BY <1>2, LatestIsHighest, BoundsAssumption DEF Versions
  <2>4. findLatestVersion(repo'[P]) + Cardinality(Pushing(P)') <= MaxVersion
    BY <1>4, <1>14, <1>21, <2>2, <2>3 DEF Room
  <2>5. pendingCommitNum(repo'[P]) + Cardinality(Committing(P)') <= MaxPending + 1
    BY <1>4, <1>5, <1>6, <1>14, <1>21, <2>1 DEF Room, n
  <2> QED BY <2>4, <2>5 DEF Room
<1> QED BY <1>1, <1>3, <1>11, <1>15, <1>17, <1>18, <1>19, <1>20, <1>23, WriteStep

-----------------------------------------------------------------------------
LEMMA NextFiles == LockInv /\ Files /\ [Next]_vars => Files'
<1> SUFFICES ASSUME LockInv, Files, [Next]_vars PROVE Files'
  OBVIOUS
<1>1. CASE UNCHANGED vars
  BY <1>1 DEF vars, memory, Files, Named, Knows, Directory, Room, Pushing, Committing
<1>2. CASE Kill
  BY <1>2, StopFiles DEF Kill
<1>3. CASE Restart
  BY <1>3 DEF Restart, memory, Files, Named, Knows, Directory, Room, Pushing, Committing
<1>4. ASSUME NEW h \in Handlers,
             \/ handleRequest(h) \/ HandlerStep(h)
             \/ ClientLeaves(h) \/ ClientKillsServer(h)
      PROVE  Files'
  <2>1. CASE handleRequest(h) \/ ClientLeaves(h)
    BY <2>1, HandleRequestFiles, ClientLeavesFiles
  <2>2. CASE ClientKillsServer(h) \/ DereferenceNull(h)
    BY <2>2, StopFiles DEF ClientKillsServer, DereferenceNull
  <2>3. CASE \/ Check(h) \/ getLock(h) \/ SearchList(h) \/ NewHead(h) \/ AppendNode(h)
             \/ Unlock(h) \/ Reply(h)
    BY <2>3, WaySteps
  <2>4. CASE Lock(h) \/ CreateHistory(h)
    BY <2>4, LockFiles, CreateHistoryFiles
  <2>5. CASE \/ CreateProject(h) \/ CreateVersion(h) \/ CreateManifest(h)
             \/ deleteDirectory(h) \/ RemoveProject(h)
    BY <2>5, CreateFiles, DestroyFiles
  <2>6. CASE \/ CheckTarget(h) \/ rollback(h) \/ SendManifest(h) \/ WritePending(h)
    BY <2>6, RollbackFiles, CommitFiles
  <2>7. CASE CreatePending(h) \/ MakeVersion(h)
    BY <2>7, CreatePendingFiles, MakeVersionFiles
  <2>8. CASE \/ ReceiveCommit(h) \/ DiffCommit(h) \/ expirePending(h)
             \/ CopyVersion(h) \/ UpdateManifest(h) \/ ReceiveFiles(h) \/ FinishPush(h)
             \/ DeletePushCommit(h)
    BY <2>8, PushFiles
  <2>9. CASE Read(h)
    <3>1. pc[h] \in LockedSteps /\ "unlock" \in LockedSteps
      BY <2>9 DEF Read, At, LockedSteps
    <3> QED BY <2>9, <3>1, SameFiles, StopFiles DEF Read
  <2> QED BY <1>4, <2>1, <2>2, <2>3, <2>4, <2>5, <2>6, <2>7, <2>8, <2>9 DEF HandlerStep
<1> QED BY <1>1, <1>2, <1>3, <1>4 DEF Next

\* The invariant the theorems below come from: each directory keeps its shape, and
\* what a handler read under its project's lock is still so when it acts on it.
THEOREM FilesInvariant == Spec => [](LockInv /\ Files)
<1>1. Init => LockInv /\ Files
  BY InitLockInv, InitFiles
<1>2. LockInv /\ Files /\ [Next]_vars => (LockInv /\ Files)'
  BY NextLockInv, NextFiles
<1> QED BY <1>1, <1>2, PTL DEF Spec

\* For any handlers, projects and bounds, across crashes: versions and pending commits
\* are numbered within bounds, every file has a state the functions of
\* directoryFunctions.c leave, and a directory that is gone holds nothing.
THEOREM TypeCorrect == Spec => []TypeOK
<1>1. LockInv /\ Files => TypeOK
  <2> SUFFICES ASSUME LockInv, Files PROVE TypeOK
    OBVIOUS
  <2>1. mutexList \in SUBSET Locks /\ owner \in [Locks -> Handlers \cup {None}]
    BY DEF LockInv, MemoryType
  <2>2. ASSUME NEW p \in Projects
        PROVE  LET r == repo[p]
               IN  /\ DOMAIN r.versions \subseteq Versions
                   /\ \A v \in DOMAIN r.versions : r.versions[v] \in Stages
                   /\ DOMAIN r.pending \subseteq 1 .. MaxPending
                   /\ \A n \in DOMAIN r.pending : r.pending[n] \in Texts
                   /\ {r.dir, r.history} \subseteq BOOLEAN
                   /\ r.dir \/ Empty(r)
    BY DEF Files, Directories, Sane
  <2> QED BY <2>1, <2>2 DEF TypeOK, Files, JobSet
<1> QED BY <1>1, FilesInvariant, PTL

\* expirePendingCommits before makeNewVersion, under one lock: however requests, kills
\* and restarts interleave, no complete pending commit is older than the latest version.
THEOREM NoPendingOlderThanLatestHolds == Spec => []NoPendingOlderThanLatest
<1>1. Files => NoPendingOlderThanLatest
  BY DEF Files, Current, NoPendingOlderThanLatest
<1> QED BY <1>1, FilesInvariant, PTL

-----------------------------------------------------------------------------
(* What is published or received stays.                                    *)

\* The bodies of PublishedStays and PendingStays.
PublishedKept ==
  \A p \in Projects : \A v \in DOMAIN repo[p].versions :
    repo[p].versions[v] = "published" /\ ~Truncating(p, v) /\ ~Deleting(p, v)
      => v \in DOMAIN repo'[p].versions /\ repo'[p].versions[v] = "published"
PendingKept ==
  \A p \in Projects : \A n \in DOMAIN repo[p].pending \cap DOMAIN repo'[p].pending :
    repo[p].pending[n] # Broken => repo'[p].pending[n] = repo[p].pending[n]

\* h truncates or deletes the version v of its project.
GivesUp(h, v) == \/ pc[h] = "manifest" /\ job[h].num = v
                 \/ pc[h] = "delete"
                 \/ pc[h] = "rollback" /\ v > job[h].arg

\* The same of one directory, before and after a step of h.
Kept(h, r, q) ==
  /\ \A v \in DOMAIN r.versions :
       r.versions[v] = "published" /\ ~GivesUp(h, v)
         => v \in DOMAIN q.versions /\ q.versions[v] = "published"
  /\ \A n \in DOMAIN r.pending \cap DOMAIN q.pending :
       r.pending[n] # Broken => q.pending[n] = r.pending[n]

LEMMA WriteKept ==
  ASSUME Files, NEW h \in Handlers, NEW q, Write(h, q), Kept(h, Directory(h), q)
  PROVE  PublishedKept /\ PendingKept
<1>1. \A p \in Projects \ {job[h].project} : repo'[p] = repo[p]
  BY DEF Write, Files
<1>2. job[h].project \in Projects => repo'[job[h].project] = q
  BY DEF Write, Files
<1>3. PublishedKept
  <2> SUFFICES ASSUME NEW p \in Projects,
                      NEW v \in DOMAIN repo[p].versions,
                      repo[p].versions[v] = "published", ~Truncating(p, v), ~Deleting(p, v)
               PROVE  v \in DOMAIN repo'[p].versions /\ repo'[p].versions[v] = "published"
    BY DEF PublishedKept
  <2>1. CASE p # job[h].project
    BY <1>1, <2>1
  <2>2. CASE p = job[h].project
    <3>1. ~GivesUp(h, v)
      BY <2>2 DEF GivesUp, Truncating, Deleting
    <3> QED BY <1>2, <2>2, <3>1 DEF Kept, Directory
  <2> QED BY <2>1, <2>2
<1>4. PendingKept
  <2> SUFFICES ASSUME NEW p \in Projects,
                      NEW n \in DOMAIN repo[p].pending \cap DOMAIN repo'[p].pending,
                      repo[p].pending[n] # Broken
               PROVE  repo'[p].pending[n] = repo[p].pending[n]
    BY DEF PendingKept
  <2>1. CASE p # job[h].project
    BY <1>1, <2>1
  <2>2. CASE p = job[h].project
    BY <1>2, <2>2 DEF Kept, Directory
  <2> QED BY <2>1, <2>2
<1> QED BY <1>3, <1>4

LEMMA UnchangedKept == ASSUME UNCHANGED repo PROVE PublishedKept /\ PendingKept
BY DEF PublishedKept, PendingKept

LEMMA StopKept == ASSUME NEW how, Stop(how) PROVE PublishedKept /\ PendingKept
BY UnchangedKept DEF Stop

LEMMA SameKept ==
  ASSUME NEW h, NEW r, NEW q, q.versions = r.versions, q.pending = r.pending
  PROVE  Kept(h, r, q)
BY DEF Kept

LEMMA WorkKept ==
  ASSUME Files, NEW h \in Handlers, NEW q, NEW step, Kept(h, Directory(h), q),
         \/ Work(h, q, step) \/ (\E n : Number(h, n, q, step)) \/ (\E a : Choose(h, a, q, step))
  PROVE  PublishedKept /\ PendingKept
BY WriteKept DEF Work, Number, Choose

\* A version's directory is written that is not published, or as published, or by one
\* that gives it up.
LEMMA VersionKept ==
  ASSUME NEW h, NEW r \in Directories, NEW v, NEW stage,
         \/ v \in DOMAIN r.versions => r.versions[v] # "published"
         \/ stage = "published"
         \/ GivesUp(h, v)
  PROVE  Kept(h, r, [r EXCEPT !.versions[v] = stage])
<1> DEFINE q == [r EXCEPT !.versions[v] = stage]
<1>1. PICK S \in SUBSET Versions : r.versions \in [S -> Stages]
  BY DEF Directories
<1>2. /\ q.pending = r.pending /\ DOMAIN q.versions = DOMAIN r.versions
      /\ \A w \in DOMAIN r.versions : q.versions[w] = IF w = v THEN stage ELSE r.versions[w]
  BY <1>1 DEF Directories
<1> HIDE DEF q
<1>3. Kept(h, r, q)
  BY <1>2 DEF Kept
<1> QED BY <1>3 DEF q

LEMMA DeletedKept ==
  ASSUME NEW h, NEW r \in Directories
  PROVE  /\ \A v \in DOMAIN r.versions : GivesUp(h, v) =>
              \A left \in DeleteVersion(r, v) : Kept(h, r, left)
         /\ \A n : Kept(h, r, [r EXCEPT !.pending = Without(@, n)])
<1>1. ASSUME NEW v \in DOMAIN r.versions, GivesUp(h, v), NEW left \in DeleteVersion(r, v)
      PROVE  Kept(h, r, left)
  <2>1. CASE r.versions[v] # "bare"
    <3>1. PICK stage : left = [r EXCEPT !.versions[v] = stage]
      BY <2>1 DEF DeleteVersion
    <3> QED BY <1>1, <3>1, VersionKept
  <2>2. CASE r.versions[v] = "bare"
    <3>1. left = [r EXCEPT !.versions = Without(@, v)]
      BY <2>2 DEF DeleteVersion
    <3>2. left.versions = Without(r.versions, v) /\ left.pending = r.pending
      BY <3>1 DEF Directories
    <3> QED BY <1>1, <2>2, <3>2 DEF Kept, Without
  <2> QED BY <2>1, <2>2
<1>2. ASSUME NEW n PROVE Kept(h, r, [r EXCEPT !.pending = Without(@, n)])
  <2> DEFINE q == [r EXCEPT !.pending = Without(@, n)]
  <2>1. q.versions = r.versions /\ q.pending = Without(r.pending, n)
    BY DEF Directories
  <2> HIDE DEF q
  <2>2. Kept(h, r, q)
    BY <2>1 DEF Kept, Without
  <2> QED BY <2>2 DEF q
<1> QED BY <1>1, <1>2

LEMMA CreateDestroyKept ==
  ASSUME LockInv, Files, NEW h \in Handlers,
         \/ CreateProject(h) \/ CreateVersion(h) \/ CreateManifest(h) \/ CreateHistory(h)
         \/ deleteDirectory(h) \/ RemoveProject(h)
  PROVE  PublishedKept /\ PendingKept
<1> USE DEF At
<1> DEFINE r == Directory(h)
<1>1. r \in Directories /\ Sane(r)
  <2>1. job[h].project \in Projects
    BY DEF Files, Named, CreateProject, CreateVersion, CreateManifest, CreateHistory,
           deleteDirectory, RemoveProject
  <2> QED BY <2>1 DEF Files, Directory
<1>2. ASSUME NEW q, q \in {[r EXCEPT !.dir = TRUE], [r EXCEPT !.history = TRUE],
                           [r EXCEPT !.history = FALSE], r}
      PROVE  Kept(h, r, q)
  <2>1. q.versions = r.versions /\ q.pending = r.pending
    BY <1>1, <1>2 DEF Directories
  <2> QED BY <2>1, SameKept
<1>3. CASE CreateProject(h)
  BY <1>2, <1>3, WorkKept DEF CreateProject
<1>4. CASE CreateHistory(h)
  BY <1>2, <1>4, WriteKept, UnchangedKept DEF CreateHistory
<1>5. CASE CreateManifest(h)
  <2>1. Kept(h, r, [r EXCEPT !.versions[job[h].num] = "initial"])
    BY <1>1, <1>5, VersionKept DEF CreateManifest, GivesUp
  <2> QED BY <1>5, <2>1, WorkKept DEF CreateManifest
<1>6. CASE CreateVersion(h)
  <2> DEFINE v == findLatestVersion(r)
             q == MakeDirectory(r, v)
  <2>1. CASE Stop("exited")
    BY <2>1, StopKept
  <2>2. CASE r.dir /\ Number(h, v, q, "manifest")
    <3>1. v \in Versions
      BY <1>1, LatestIsHighest
    <3> HIDE DEF r
    <3>2. /\ q.pending = r.pending /\ DOMAIN q.versions = DOMAIN r.versions \cup {v}
          /\ \A w \in DOMAIN r.versions : q.versions[w] = r.versions[w]
      BY <1>1, <2>2, <3>1, DirectoryMade
    <3> HIDE DEF q
    <3>3. Kept(h, r, q)
      BY <3>2 DEF Kept
    <3> HIDE DEF v
    <3> QED BY <2>2, <3>3, WorkKept DEF r
  <2> QED BY <1>6, <2>1, <2>2 DEF CreateVersion, VersionFound
<1>7. CASE deleteDirectory(h)
  <2>1. ASSUME NEW left \in Deletions(r), Work(h, left, "delete")
        PROVE  PublishedKept /\ PendingKept
    <3>0. \A v : GivesUp(h, v)
      BY <1>7 DEF deleteDirectory, GivesUp
    <3>1. Kept(h, r, left)
      <4>1. CASE \E v \in DOMAIN r.versions : left \in DeleteVersion(r, v)
        BY <1>1, <3>0, <4>1, DeletedKept
      <4>2. CASE \E n \in DOMAIN r.pending : left = [r EXCEPT !.pending = Without(@, n)]
        BY <1>1, <4>2, DeletedKept
      <4> QED BY <2>1, <4>1, <4>2, DeletionKinds
    <3> QED BY <2>1, <3>1, WorkKept
  <2>2. ASSUME Number(h, 0, [r EXCEPT !.history = FALSE], "delete")
        PROVE  PublishedKept /\ PendingKept
    BY <1>2, <2>2, WorkKept
  <2>3. ASSUME Work(h, r, "rmdir") PROVE PublishedKept /\ PendingKept
    BY <1>2, <2>3, WorkKept
  <2> QED BY <1>7, <2>1, <2>2, <2>3, StopKept DEF deleteDirectory
<1>8. CASE RemoveProject(h)
  <2>1. Kept(h, r, Rmdir(r))
    <3>1. CASE Empty(r)
      BY <3>1 DEF Rmdir, Kept, Empty
    <3>2. CASE ~ Empty(r)
      BY <1>2, <3>2 DEF Rmdir
    <3> QED BY <3>1, <3>2
  <2> QED BY <1>8, <2>1, WorkKept DEF RemoveProject
<1> QED BY <1>3, <1>4, <1>5, <1>6, <1>7, <1>8

LEMMA RollbackCommitKept ==
  ASSUME LockInv, Files, NEW h \in Handlers,
         \/ CheckTarget(h) \/ rollback(h)
         \/ SendManifest(h) \/ CreatePending(h) \/ WritePending(h)
  PROVE  PublishedKept /\ PendingKept
<1> USE DEF At
<1> DEFINE r == Directory(h)
<1>1. r \in Directories /\ Knows(h, r) /\ Kept(h, r, r)
  <2>1. pc[h] \in LockedSteps
    BY DEF CheckTarget, rollback, SendManifest, CreatePending, WritePending, LockedSteps
  <2> QED BY <2>1, LockedDirectory, SameKept
<1>2. CASE CheckTarget(h)
  BY <1>1, <1>2, StopKept, WorkKept DEF CheckTarget
<1>3. CASE rollback(h)
  <2>1. ASSUME NEW v \in DOMAIN r.versions, v > job[h].arg, NEW left \in DeleteVersion(r, v),
               Work(h, left, "rollback")
        PROVE  PublishedKept /\ PendingKept
    <3>1. GivesUp(h, v)
      BY <1>3, <2>1 DEF rollback, GivesUp
    <3> QED BY <1>1, <2>1, <3>1, DeletedKept, WorkKept
  <2> QED BY <1>1, <1>3, <2>1, WorkKept DEF rollback
<1>4. CASE SendManifest(h)
  BY <1>1, <1>4, StopKept, WorkKept DEF SendManifest
<1>5. CASE CreatePending(h)
  <2> DEFINE n == pendingCommitNum(r)
             q == [r EXCEPT !.pending = Put(@, n, Broken)]
  <2>1. q.versions = r.versions /\ q.pending = Put(r.pending, n, Broken)
    BY <1>1 DEF Directories
  <2>2. n \notin DOMAIN r.pending
    <3>1. \A k \in DOMAIN r.pending : k < n /\ n \in Nat
      BY <1>1, PendingIsNext
    <3> QED BY <3>1
  <2>3. Number(h, n, q, "text")
    BY <1>5 DEF CreatePending
  <2> HIDE DEF q, n, r
  <2>4. Kept(h, r, q)
    BY <2>1, <2>2 DEF Kept, Put
  <2> QED BY <2>3, <2>4, WorkKept DEF r
<1>6. CASE WritePending(h)
  <2>1. PICK text : Work(h, [r EXCEPT !.pending[job[h].num] = text], "unlock")
    BY <1>6 DEF WritePending
  <2> DEFINE q == [r EXCEPT !.pending[job[h].num] = text]
  <2>2. PICK S \in SUBSET (1 .. MaxPending) : r.pending \in [S -> Texts]
    BY <1>1 DEF Directories
  <2>3. /\ q.versions = r.versions /\ DOMAIN q.pending = DOMAIN r.pending
        /\ \A n \in DOMAIN r.pending : n # job[h].num => q.pending[n] = r.pending[n]
    BY <1>1, <2>2 DEF Directories
  <2>4. job[h].num \in DOMAIN r.pending => r.pending[job[h].num] = Broken
    BY <1>1, <1>6 DEF Knows, WritePending
  <2>5. Work(h, q, "unlock")
    BY <2>1
  <2> HIDE DEF q, r
  <2>6. Kept(h, r, q)
    BY <2>3, <2>4 DEF Kept
  <2> QED BY <2>5, <2>6, WorkKept DEF r
<1> QED BY <1>2, <1>3, <1>4, <1>5, <1>6

LEMMA PushReadKept ==
  ASSUME LockInv, Files, NEW h \in Handlers,
         \/ ReceiveCommit(h) \/ DiffCommit(h) \/ expirePending(h) \/ MakeVersion(h)
         \/ CopyVersion(h) \/ UpdateManifest(h) \/ ReceiveFiles(h) \/ FinishPush(h)
         \/ DeletePushCommit(h) \/ Read(h)
  PROVE  PublishedKept /\ PendingKept
<1> USE DEF At
<1> DEFINE r == Directory(h)
<1>1. r \in Directories /\ Sane(r) /\ Knows(h, r) /\ Kept(h, r, r)
  <2>1. pc[h] \in LockedSteps
    BY DEF ReceiveCommit, DiffCommit, expirePending, MakeVersion, CopyVersion,
           UpdateManifest, ReceiveFiles, FinishPush, DeletePushCommit, Read, LockedSteps
  <2> QED BY <2>1, LockedDirectory, SameKept
<1>2. ASSUME pc[h] \in PublishSteps, NEW stage
      PROVE  Kept(h, r, [r EXCEPT !.versions[job[h].num] = stage])
  <2>1. job[h].num \in DOMAIN r.versions => r.versions[job[h].num] # "published"
    BY <1>1, <1>2 DEF Knows
  <2> QED BY <1>1, <2>1, VersionKept
<1>3. CASE ReceiveCommit(h) \/ DiffCommit(h)
  BY <1>1, <1>3, StopKept, WorkKept DEF ReceiveCommit, DiffCommit
<1>4. CASE expirePending(h)
  <2>1. ASSUME NEW n, Work(h, [r EXCEPT !.pending = Without(@, n)], "expire")
        PROVE  PublishedKept /\ PendingKept
    BY <1>1, <2>1, DeletedKept, WorkKept
  <2> QED BY <1>1, <1>4, <2>1, WorkKept DEF expirePending
<1>5. CASE MakeVersion(h)
  <2> DEFINE v == findLatestVersion(r) + 1
             q == MakeDirectory(r, v)
  <2>1. CASE Stop("exited")
    BY <2>1, StopKept
  <2>2. CASE Number(h, v, q, "copy")
    <3>1. /\ q.pending = r.pending
          /\ \A w \in DOMAIN r.versions :
               w \in DOMAIN q.versions /\ q.versions[w] = r.versions[w]
      BY <1>1 DEF MakeDirectory, Put, Directories
    <3> HIDE DEF q, r
    <3>2. Kept(h, r, q)
      BY <3>1 DEF Kept
    <3> HIDE DEF v
    <3> QED BY <2>2, <3>2, WorkKept DEF r
  <2> QED BY <1>5, <2>1, <2>2 DEF MakeVersion
<1>6. CASE CopyVersion(h)
  BY <1>1, <1>2, <1>6, WorkKept DEF CopyVersion
<1>7. CASE UpdateManifest(h)
  BY <1>2, <1>7, StopKept, WorkKept DEF UpdateManifest
<1>8. CASE FinishPush(h)
  BY <1>2, <1>8, StopKept, WorkKept DEF FinishPush
<1>9. CASE ReceiveFiles(h) \/ DeletePushCommit(h) \/ Read(h)
  BY <1>1, <1>9, StopKept, WorkKept DEF ReceiveFiles, DeletePushCommit, Read
<1> QED BY <1>3, <1>4, <1>5, <1>6, <1>7, <1>8, <1>9

LEMMA NextKept == LockInv /\ Files /\ Next => PublishedKept /\ PendingKept
<1> SUFFICES ASSUME LockInv, Files, Next PROVE PublishedKept /\ PendingKept
  OBVIOUS
<1>1. CASE Kill \/ Restart
  BY <1>1, StopKept, UnchangedKept DEF Kill, Restart
<1>2. ASSUME NEW h \in Handlers,
             \/ handleRequest(h) \/ HandlerStep(h)
             \/ ClientLeaves(h) \/ ClientKillsServer(h)
      PROVE  PublishedKept /\ PendingKept
  <2>1. CASE \/ handleRequest(h) \/ ClientLeaves(h) \/ ClientKillsServer(h)
             \/ Check(h) \/ getLock(h) \/ SearchList(h) \/ NewHead(h) \/ AppendNode(h)
             \/ DereferenceNull(h) \/ Lock(h) \/ Unlock(h) \/ Reply(h)
    BY <2>1, UnchangedKept, StopKept
       DEF handleRequest, ClientLeaves, ClientKillsServer, Check, getLock, SearchList,
           NewHead, AppendNode, DereferenceNull, Lock, Unlock, Reply
  <2>2. CASE \/ CreateProject(h) \/ CreateVersion(h) \/ CreateManifest(h) \/ CreateHistory(h)
             \/ deleteDirectory(h) \/ RemoveProject(h)
    BY <2>2, CreateDestroyKept
  <2>3. CASE \/ CheckTarget(h) \/ rollback(h)
             \/ SendManifest(h) \/ CreatePending(h) \/ WritePending(h)
    BY <2>3, RollbackCommitKept
  <2>4. CASE \/ ReceiveCommit(h) \/ DiffCommit(h) \/ expirePending(h) \/ MakeVersion(h)
             \/ CopyVersion(h) \/ UpdateManifest(h) \/ ReceiveFiles(h) \/ FinishPush(h)
             \/ DeletePushCommit(h) \/ Read(h)
    BY <2>4, PushReadKept
  <2> QED BY <1>2, <2>1, <2>2, <2>3, <2>4 DEF HandlerStep
<1> QED BY <1>1, <1>2 DEF Next

\* No request writes a published version again except a create that was let in: a push
\* makes the version it writes under the lock, and only deletions empty one.
THEOREM PublishedStaysHolds == Spec => PublishedStays
<1>1. LockInv /\ Files /\ [Next]_vars => [PublishedKept]_vars
  BY NextKept
<1> QED BY <1>1, FilesInvariant, PTL DEF Spec, PublishedStays, PublishedKept

\* pendingCommitNum, asked under the lock, never gives a file a number that another
\* commit's text has.
THEOREM PendingStaysHolds == Spec => PendingStays
<1>1. LockInv /\ Files /\ [Next]_vars => [PendingKept]_vars
  BY NextKept
<1> QED BY <1>1, FilesInvariant, PTL DEF Spec, PendingStays, PendingKept
=============================================================================
