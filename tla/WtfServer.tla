------------------------------ MODULE WtfServer ------------------------------
(***************************************************************************)
(* The WTF version control server: a thread per connection runs one        *)
(* request; a list of mutexes, itself behind mutexHandlerLock, gives each  *)
(* project its lock.  The process may be killed anywhere and started again *)
(* on the files it left; every exit of a handler is an exit of the server. *)
(***************************************************************************)
EXTENDS WtfRepository, FiniteSets

CONSTANTS Handlers, \* the threads that can serve requests at one time
          Projects, \* project names in requests
          Requests, \* the pairs <<command, project>> that clients send
          None

\* "checkout" stands for checkout, update and current version: they send from the
\* latest version.
Operations == {"create", "destroy", "rollback", "commit", "push",
               "checkout", "upgrade", "history"}

\* A MutexNode: the project and the thread that allocated it.
Locks == [project : Projects, by : Handlers]

ASSUME NamesAssumption ==
  /\ IsFiniteSet(Handlers)
  /\ None \notin Handlers \cup Projects \cup Operations \cup Locks
  /\ Requests \subseteq Operations \X Projects

VARIABLES server,           \* up, killed, or exited by itself
          pc, job,          \* per handler: its step and its request
          mutexHandlerLock, \* its holder
          mutexList,        \* the nodes reachable from mutexHead
          owner,            \* per MutexNode: the handler that holds its lock
          repo              \* per project: its directory

memory == <<pc, job, mutexHandlerLock, mutexList, owner>>
vars == <<server, memory, repo>>

\* arg is the version a rollback goes to, or the text of a commit or push; num the
\* version or file number the handler writes. Both are kept while they are used.
Request(op, p) == [op |-> op, project |-> p, arg |-> NoNumber, num |-> NoNumber,
                   lock |-> None]
NoJob == Request(None, None)

ListSteps == {"search", "newhead", "append"}
LockedSteps == {"mkdir", "mkversion", "manifest", "delete", "rmdir", "target",
                "rollback", "send", "recv", "text", "receive", "diff", "expire",
                "mknext", "copy", "update", "files", "finish", "cleanup", "read",
                "unlock"}
Steps == {"free", "check", "getlock", "nolock", "lock", "inithistory", "reply", "spin"}
           \cup ListSteps \cup LockedSteps

\* The first step of each request under the lock.
Entry == [create |-> "mkdir", destroy |-> "delete", rollback |-> "target",
          commit |-> "send", push |-> "receive", checkout |-> "read",
          upgrade |-> "read", history |-> "read"]

FreePc == [h \in Handlers |-> "free"]
NoJobs == [h \in Handlers |-> NoJob]
NoOwners == [l \in Locks |-> None]

Init == /\ server = "up"
        /\ pc = FreePc /\ job = NoJobs
        /\ mutexHandlerLock = None /\ mutexList = {}
        /\ owner = NoOwners
        /\ repo = [p \in Projects |-> NoProject]

-----------------------------------------------------------------------------
At(h, step) == server = "up" /\ pc[h] = step
Goto(h, step) == pc' = [pc EXCEPT ![h] = step]

\* handleRequest closes the socket and its thread ends.
Done(h) == Goto(h, "free") /\ job' = [job EXCEPT ![h] = NoJob]

Directory(h) == repo[job[h].project]
Write(h, r) == repo' = [repo EXCEPT ![job[h].project] = r]

\* A loop over recv does not end; of the request, only the lock it holds matters.
Spin(h) == /\ Goto(h, "spin")
           /\ job' = [job EXCEPT ![h] = IF @.lock = None THEN NoJob
                                        ELSE [@ EXCEPT !.arg = NoNumber, !.num = NoNumber]]

\* The process ends: its threads and locks are gone, its files remain.
Stop(how) == /\ server' = how
             /\ pc' = FreePc /\ job' = NoJobs
             /\ mutexHandlerLock' = None /\ mutexList' = {}
             /\ owner' = NoOwners
             /\ UNCHANGED repo

\* A step of h under the lock that writes r and goes on at step; Number also keeps
\* the version or file number it has chosen, Choose what has arrived.
Work(h, r, step) ==
  /\ Write(h, r) /\ Goto(h, step)
  /\ UNCHANGED <<server, job, mutexHandlerLock, mutexList, owner>>
Number(h, n, r, step) ==
  /\ Write(h, r) /\ Goto(h, step)
  /\ job' = [job EXCEPT ![h].num = n]
  /\ UNCHANGED <<server, mutexHandlerLock, mutexList, owner>>
Choose(h, arg, r, step) ==
  /\ Write(h, r) /\ Goto(h, step)
  /\ job' = [job EXCEPT ![h].arg = arg]
  /\ UNCHANGED <<server, mutexHandlerLock, mutexList, owner>>

\* mkdir of a version directory that exists changes nothing.
MakeDirectory(r, v) == IF v \in DOMAIN r.versions THEN r
                       ELSE [r EXCEPT !.versions = Put(@, v, "bare")]

-----------------------------------------------------------------------------
(* Requests and the project's lock.                                        *)

\* Bounds: a push needs a version number, and a commit a file number, in range.
Serving(op, p) == {h \in Handlers : job[h].op = op /\ job[h].project = p}
InBounds(op, p) ==
  /\ op = "push" =>
       \A v \in DOMAIN repo[p].versions \cup {0} :
         v + Cardinality(Serving("push", p)) < MaxVersion
  /\ op = "commit" =>
       pendingCommitNum(repo[p]) + Cardinality(Serving("commit", p)) <= MaxPending

\* A connection: the command and the project's name arrive, or never do.
handleRequest(h) ==
  /\ At(h, "free")
  /\ \E op \in Operations, p \in Projects :
       /\ <<op, p>> \in Requests
       /\ InBounds(op, p)
       /\ \/ /\ job' = [job EXCEPT ![h] = Request(op, p)]
             /\ Goto(h, IF op = "rollback" THEN "getlock" ELSE "check")
          \/ Spin(h)
  /\ UNCHANGED <<server, mutexHandlerLock, mutexList, owner, repo>>

\* Whether the project exists, asked before its lock is taken.  create goes on to
\* its last lines even when it has refused the request.
Check(h) ==
  /\ At(h, "check")
  /\ \E exists \in checkDirectory(Directory(h)) :
       IF job[h].op = "create"
       THEN Goto(h, IF exists THEN "inithistory" ELSE "getlock") /\ UNCHANGED job
       ELSE IF exists THEN Goto(h, "getlock") /\ UNCHANGED job ELSE Done(h)
  /\ UNCHANGED <<server, mutexHandlerLock, mutexList, owner, repo>>

\* Mutant: getLock does not take mutexHandlerLock.
getLockOpen(h) ==
  /\ At(h, "getlock")
  /\ Goto(h, "search")
  /\ UNCHANGED <<server, job, mutexHandlerLock, mutexList, owner, repo>>

getLock(h) ==
  /\ At(h, "getlock") /\ mutexHandlerLock = None
  /\ mutexHandlerLock' = h
  /\ Goto(h, "search")
  /\ UNCHANGED <<server, job, mutexList, owner, repo>>

\* With the lock of its project, h gives mutexHandlerLock back.
GotLock(h, l) ==
  /\ job' = [job EXCEPT ![h].lock = l]
  /\ mutexHandlerLock' = None
  /\ Goto(h, "lock")

SearchList(h) ==
  /\ At(h, "search")
  /\ \/ \E l \in mutexList : l.project = job[h].project /\ GotLock(h, l)
     \/ /\ \A l \in mutexList : l.project # job[h].project
        /\ Goto(h, IF mutexList = {} THEN "newhead" ELSE "append")
        /\ UNCHANGED <<job, mutexHandlerLock>>
  /\ UNCHANGED <<server, mutexList, owner, repo>>

NewHead(h) ==
  /\ At(h, "newhead")
  /\ LET l == [project |-> job[h].project, by |-> h]
     IN  mutexList' = {l} /\ GotLock(h, l)
  /\ UNCHANGED <<server, owner, repo>>

\* newMutexNode leaves next uninitialised: the walk ends there, or in no memory.
\* Appending leaves aNode NULL.
AppendNode(h) ==
  \/ /\ At(h, "append")
     /\ mutexList' = mutexList \cup {[project |-> job[h].project, by |-> h]}
     /\ mutexHandlerLock' = None
     /\ Goto(h, "nolock")
     /\ UNCHANGED <<server, job, owner, repo>>
  \/ At(h, "append") /\ Stop("exited")

\* return aNode->lock.
DereferenceNull(h) == At(h, "nolock") /\ Stop("exited")

Lock(h) ==
  /\ At(h, "lock") /\ owner[job[h].lock] = None
  /\ owner' = [owner EXCEPT ![job[h].lock] = h]
  /\ Goto(h, Entry[job[h].op])
  /\ UNCHANGED <<server, job, mutexHandlerLock, mutexList, repo>>

\* create still has its unlocked history step to do; the others answer.
Unlock(h) ==
  /\ At(h, "unlock")
  /\ owner' = [owner EXCEPT ![job[h].lock] = None]
  /\ IF job[h].op = "create"
     THEN /\ job' = [job EXCEPT ![h] = Request(@.op, @.project)]
          /\ Goto(h, "inithistory")
     ELSE job' = [job EXCEPT ![h] = NoJob] /\ Goto(h, "reply")
  /\ UNCHANGED <<server, mutexHandlerLock, mutexList, repo>>

Reply(h) ==
  /\ At(h, "reply") /\ Done(h)
  /\ UNCHANGED <<server, mutexHandlerLock, mutexList, owner, repo>>

-----------------------------------------------------------------------------
(* create and destroy.                                                     *)

\* mkdir of a directory that exists changes nothing.
CreateProject(h) ==
  At(h, "mkdir") /\ Work(h, [Directory(h) EXCEPT !.dir = TRUE], "mkversion")

CreateVersion(h) ==
  LET r == Directory(h)
      v == findLatestVersion(r)
  IN  /\ At(h, "mkversion")
      /\ IF ~VersionFound(r) THEN Stop("exited")
         ELSE Number(h, v, MakeDirectory(r, v), "manifest")

\* The manifest is truncated, written and sent.
CreateManifest(h) ==
  /\ At(h, "manifest")
  /\ Work(h, [Directory(h) EXCEPT !.versions[job[h].num] = "initial"], "unlock")

\* Without the lock: the history file is created or truncated, if there is a directory.
CreateHistory(h) ==
  /\ At(h, "inithistory")
  /\ IF Directory(h).dir THEN Write(h, [Directory(h) EXCEPT !.history = TRUE])
     ELSE UNCHANGED repo
  /\ Done(h)
  /\ UNCHANGED <<server, mutexHandlerLock, mutexList, owner>>

\* One entry after the other, in the order readdir finds them. A .history that is made
\* again behind the reader is not found twice: num remembers that it was deleted.
deleteDirectory(h) ==
  LET r == Directory(h)
      passed == job[h].num # NoNumber
  IN  /\ At(h, "delete")
      /\ \/ ~r.dir /\ Stop("exited")
         \/ \E left \in Deletions(r) : Work(h, left, "delete")
         \/ r.history /\ ~passed /\ Number(h, 0, [r EXCEPT !.history = FALSE], "delete")
         \/ /\ r.dir /\ Deletions(r) = {} /\ (r.history => passed)
            /\ Work(h, r, "rmdir")

RemoveProject(h) == At(h, "rmdir") /\ Work(h, Rmdir(Directory(h)), "unlock")

-----------------------------------------------------------------------------
(* rollback and commit.                                                    *)

\* Mutant: the refusal of a missing project returns with the lock held.
CheckTargetKeepsLock(h) ==
  LET r == Directory(h)
  IN  /\ At(h, "target")
      /\ \/ FALSE \in checkDirectory(r) /\ Work(h, r, "reply")
         \/ ~r.dir /\ Stop("exited")
         \/ r.dir /\ \E v \in Versions : IF v \in DOMAIN r.versions
                                       THEN Choose(h, v, r, "rollback")
                                       ELSE Work(h, r, "unlock")

\* The version number has arrived; a missing project or version is refused.
CheckTarget(h) ==
  LET r == Directory(h)
  IN  /\ At(h, "target")
      /\ \/ FALSE \in checkDirectory(r) /\ Work(h, r, "unlock")
         \/ ~r.dir /\ Stop("exited")
         \/ r.dir /\ \E v \in Versions : IF v \in DOMAIN r.versions
                                       THEN Choose(h, v, r, "rollback")
                                       ELSE Work(h, r, "unlock")

\* The later versions are deleted in any order; pending commits are left alone.
rollback(h) ==
  LET r == Directory(h)
      later == {v \in DOMAIN r.versions : v > job[h].arg}
  IN  /\ At(h, "rollback")
      /\ IF later = {} THEN Work(h, r, "unlock")
         ELSE \E v \in later : \E left \in DeleteVersion(r, v) : Work(h, left, "rollback")

\* The client gets the latest manifest, and makes its commit against that version.
SendManifest(h) ==
  LET r == Directory(h)
  IN  /\ At(h, "send")
      /\ IF ~VersionFound(r) \/ ~ManifestFound(r) THEN Stop("exited")
         ELSE Choose(h, findLatestVersion(r), r, "recv")

\* The size of the commit arrives: its file is created, empty.
CreatePending(h) ==
  LET r == Directory(h)
      n == pendingCommitNum(r)
  IN  /\ At(h, "recv")
      /\ Number(h, n, [r EXCEPT !.pending = Put(@, n, Broken)], "text")

\* The text arrives, or less than announced.
WritePending(h) ==
  /\ At(h, "text")
  /\ \E text \in {job[h].arg, Broken} :
       Work(h, [Directory(h) EXCEPT !.pending[job[h].num] = text], "unlock")

-----------------------------------------------------------------------------
(* push.                                                                   *)

\* .pushcommit is written with the text of some commit, or less. (Nothing reads the
\* file that an earlier push may have left.)
ReceiveCommit(h) ==
  /\ At(h, "receive")
  /\ \E text \in Texts :
       Choose(h, text, Directory(h), "diff")

DiffCommit(h) ==
  LET r == Directory(h)
  IN  /\ At(h, "diff")
      /\ IF ~r.dir THEN Stop("exited")
         ELSE \E found \in diffFiles(r, job[h].arg) :
                Work(h, r, IF found THEN "expire" ELSE "cleanup")

\* Mutant: stops at the first pending commit it has deleted.
expirePendingStops(h) ==
  LET r == Directory(h)
  IN  /\ At(h, "expire")
      /\ IF DOMAIN r.pending = {} THEN Work(h, r, "mknext")
         ELSE \E n \in DOMAIN r.pending :
                Work(h, [r EXCEPT !.pending = Without(@, n)], "mknext")

\* All pending commits are deleted, one after the other.
expirePending(h) ==
  LET r == Directory(h)
  IN  /\ At(h, "expire")
      /\ IF DOMAIN r.pending = {} THEN Work(h, r, "mknext")
         ELSE \E n \in DOMAIN r.pending :
                Work(h, [r EXCEPT !.pending = Without(@, n)], "expire")

\* The directory of the next version. With .pushcommit in it the project is not empty,
\* and without a version findLatestVersion returns NULL.
MakeVersion(h) ==
  LET r == Directory(h)
      v == findLatestVersion(r) + 1
  IN  /\ At(h, "mknext")
      /\ IF DOMAIN r.versions = {} THEN Stop("exited")
         ELSE Number(h, v, MakeDirectory(r, v), "copy")

\* Everything of the previous version is copied, its manifest included.
CopyVersion(h) ==
  LET r == Directory(h)
      v == job[h].num
  IN  /\ At(h, "copy")
      /\ Work(h, IF r.versions[v - 1] = "bare" THEN r
                 ELSE [r EXCEPT !.versions[v] = "partial"], "update")

\* The manifest of the new version is the old one with the commit applied. A commit
\* without text crashes in setFilePathServer, one that deletes every file in
\* writeManifest.
UpdateManifest(h) ==
  LET r == Directory(h)
      v == job[h].num
  IN  /\ At(h, "update")
      /\ \/ /\ r.versions[v - 1] # "bare" /\ job[h].arg # Broken
            /\ Work(h, [r EXCEPT !.versions[v] = "partial"], "files")
         \/ Stop("exited")

\* The files of the client, until its terminating NUL.
ReceiveFiles(h) == At(h, "files") /\ Work(h, Directory(h), "finish")

\* The commit is kept with the version and appended to the history, which must exist.
FinishPush(h) ==
  LET r == Directory(h)
      v == job[h].num
  IN  /\ At(h, "finish")
      /\ IF ~r.history THEN Stop("exited")
         ELSE Work(h, [r EXCEPT !.versions[v] = "published"], "cleanup")

\* .pushcommit is deleted, whether the push was accepted or refused.
DeletePushCommit(h) ==
  At(h, "cleanup") /\ Work(h, Directory(h), "unlock")

-----------------------------------------------------------------------------
(* checkout, update, current version; upgrade; history.                    *)

\* What a request must find on disk.
Readable(op, r) ==
  CASE op = "history" -> r.history
    [] op = "upgrade" -> VersionFound(r)
    [] OTHER -> VersionFound(r) /\ ManifestFound(r)

\* A file that an upgrade names may be gone, one that the manifest of an unfinished
\* push lists may never have come.
MayMiss(op, r) ==
  \/ op = "upgrade"
  \/ op = "checkout" /\ ManifestFound(r) /\ r.versions[findLatestVersion(r)] = "partial"

\* A file that is not found ends the server.
Read(h) ==
  LET op == job[h].op
      r == Directory(h)
  IN  /\ At(h, "read")
      /\ \/ Readable(op, r) /\ Work(h, r, "unlock")
         \/ (~Readable(op, r) \/ MayMiss(op, r)) /\ Stop("exited")

-----------------------------------------------------------------------------
(* Clients that leave, crashes, restarts.                                  *)

\* Steps that wait in getBytesToRead, getVersionFromSocket or getSourceFiles, and
\* steps that send.
Receiving(h) == \/ pc[h] \in {"target", "recv", "receive", "files"}
                \/ pc[h] = "read" /\ job[h].op = "upgrade"
Sending(h) == \/ pc[h] \in {"check", "manifest", "send", "finish", "cleanup", "reply"}
              \/ pc[h] = "read"

\* After the client has closed, recv returns 0 for ever and the loops go on.
ClientLeaves(h) ==
  /\ server = "up" /\ Receiving(h)
  /\ Spin(h)
  /\ UNCHANGED <<server, mutexHandlerLock, mutexList, owner, repo>>

\* A spinning handler has used up the memory, or a send to a closed socket raises
\* SIGPIPE.
ClientKillsServer(h) ==
  /\ server = "up" /\ (pc[h] = "spin" \/ Sending(h))
  /\ Stop("exited")

Kill == server = "up" /\ Stop("killed")

Restart == server # "up" /\ server' = "up" /\ UNCHANGED <<memory, repo>>

HandlerStep(h) ==
  \/ Check(h) \/ getLock(h) \/ SearchList(h) \/ NewHead(h) \/ AppendNode(h)
  \/ DereferenceNull(h) \/ Lock(h) \/ Unlock(h) \/ Reply(h)
  \/ CreateProject(h) \/ CreateVersion(h) \/ CreateManifest(h) \/ CreateHistory(h)
  \/ deleteDirectory(h) \/ RemoveProject(h)
  \/ CheckTarget(h) \/ rollback(h)
  \/ SendManifest(h) \/ CreatePending(h) \/ WritePending(h)
  \/ ReceiveCommit(h) \/ DiffCommit(h) \/ expirePending(h) \/ MakeVersion(h)
  \/ CopyVersion(h) \/ UpdateManifest(h) \/ ReceiveFiles(h) \/ FinishPush(h)
  \/ DeletePushCommit(h) \/ Read(h)

Next == \/ \E h \in Handlers : \/ handleRequest(h) \/ HandlerStep(h)
                               \/ ClientLeaves(h) \/ ClientKillsServer(h)
        \/ Kill
        \/ Restart

\* A handler at a recv that its client has not satisfied, or at a send of more than a
\* socket buffers.
WaitsForClient(h) == Receiving(h) \/ pc[h] \in {"text", "manifest", "send", "read"}

\* The kernel runs every thread that can take a step. A client owes nothing: it may
\* stay connected and neither send nor read, and recv and send have no timeout. Locks
\* are granted in no particular order.
Spec == Init /\ [][Next]_vars
             /\ \A h \in Handlers : WF_vars(~WaitsForClient(h) /\ HandlerStep(h))

-----------------------------------------------------------------------------
(* Properties.                                                             *)

\* Every variable keeps its type; a directory that is gone holds nothing.
TypeOK ==
  /\ server \in {"up", "killed", "exited"}
  /\ pc \in [Handlers -> Steps]
  /\ job \in [Handlers -> [op : Operations \cup {None}, project : Projects \cup {None},
                           arg : Texts \cup {NoNumber}, num : Nat \cup {NoNumber},
                           lock : Locks \cup {None}]]
  /\ mutexHandlerLock \in Handlers \cup {None}
  /\ mutexList \in SUBSET Locks
  /\ owner \in [Locks -> Handlers \cup {None}]
  /\ \A p \in Projects :
       LET r == repo[p]
       IN  /\ DOMAIN r.versions \subseteq Versions
           /\ \A v \in DOMAIN r.versions : r.versions[v] \in Stages
           /\ DOMAIN r.pending \subseteq 1 .. MaxPending
           /\ \A n \in DOMAIN r.pending : r.pending[n] \in Texts
           /\ {r.dir, r.history} \subseteq BOOLEAN
           /\ r.dir \/ Empty(r)

\* A handler between pthread_mutex_lock and pthread_mutex_unlock of its project.
Inside(h) == \/ pc[h] \in LockedSteps
             \/ pc[h] = "spin" /\ job[h].lock # None

\* No two requests work on one project at a time: getLock hands out one mutex per
\* project however the requests race for the list.
ProjectExclusive ==
  \A g, h \in Handlers : Inside(g) /\ Inside(h) /\ job[g].project = job[h].project => g = h

\* A push expires every pending commit before its version appears: in no state, across
\* crashes, kills and rollbacks, is a commit that was received completely, and is still
\* pending, older than the latest version. (A Broken one has no version; an empty file
\* equals every push whatever was pushed.)
NoPendingOlderThanLatest ==
  \A p \in Projects : \A n \in DOMAIN repo[p].pending :
    repo[p].pending[n] = Broken \/ repo[p].pending[n] >= findLatestVersion(repo[p])

\* A second create that was let in truncates v, or a rollback below v or a destroy
\* deletes it.
Truncating(p, v) == \E h \in Handlers :
  pc[h] = "manifest" /\ job[h].project = p /\ job[h].num = v
Deleting(p, v) == \E h \in Handlers :
  /\ job[h].project = p
  /\ pc[h] = "delete" \/ (pc[h] = "rollback" /\ v > job[h].arg)

\* A version that a push has completed stays as it is: no later push, whatever was
\* rolled back, deleted or left behind by a kill before, makes or writes it again.
PublishedStays ==
  [][\A p \in Projects : \A v \in DOMAIN repo[p].versions :
       repo[p].versions[v] = "published" /\ ~Truncating(p, v) /\ ~Deleting(p, v)
         => v \in DOMAIN repo'[p].versions /\ repo'[p].versions[v] = "published"]_vars

\* A commit that has been received completely is not overwritten by a later one.
PendingStays ==
  [][\A p \in Projects : \A n \in DOMAIN repo[p].pending \cap DOMAIN repo'[p].pending :
       repo[p].pending[n] # Broken => repo'[p].pending[n] = repo[p].pending[n]]_vars

\* Only a client can keep a project's lock from coming back: a handler that holds one
\* for ever waits for ever for its client, or spins after the client has left. Every
\* other way through a request that locks also unlocks. (When the server ends all
\* locks go.)
LocksComeBack ==
  \A l \in Locks, h \in Handlers :
    <>[](owner[l] = h) => <>[](WaitsForClient(h) \/ pc[h] = "spin")

-----------------------------------------------------------------------------
(* What comments and messages of the server say, and it does not do.       *)

\* "Fail! Project must not exist." (doCreate.c:41), "If no directory is found, create
\* new directory and manifest." (doCreate.c:48): a create changes no project that has
\* a published version.
CreateKeepsPublished ==
  [][\A p \in Projects : (\E v \in DOMAIN repo[p].versions : repo[p].versions[v] = "published")
       => \A h \in Handlers : job[h].op = "create" /\ job[h].project = p /\ pc'[h] # pc[h]
            => repo'[p] = repo[p] \/ server' # "up"]_vars
=============================================================================
