------------------------------ MODULE WtfClient ------------------------------
(***************************************************************************)
(* Clients of one project and the server, seen through the files they keep *)
(* between commands.  The server works on one request of a project at a    *)
(* time, so a command is one step, whose outcomes include what a death of  *)
(* either side in it leaves of these files.  A file that was written or    *)
(* copied in part is one of its first lines, or one that cannot be read,   *)
(* or, if it is a user's, absent.  A command that is refused, or never     *)
(* ends and is killed, and changes no file that is ever read again is no   *)
(* step.  Users edit, make and delete their own files at any time, so that *)
(* a command finds them with any content.                                  *)
(***************************************************************************)
EXTENDS WtfManifest, FiniteSets

CONSTANTS Clients,
          MaxVersion, MaxPending, MaxFiles \* bounds: versions, pending commits, lines

ASSUME ClientBounds == {MaxVersion, MaxPending, MaxFiles} \subseteq Nat

VARIABLES history,  \* the server's versions, from v0 on
          pending,  \* the texts of its .commitPending files
          manifest, \* per client: its .manifest,
          commit,   \*   and its .commit
          mishap    \* what has happened that no part of the program prevents

server == <<history, pending>>
vars == <<server, manifest, commit, mishap>>

Mishaps == {"rollback",    \* went back while a commit was pending
            "mismatch",    \* a push was accepted although its commit was not pending
            "cut",         \* the first lines of a commit are pending
            "edited",      \* a file changed between its commit and its push
            "garbled",     \* the server stored other files than were sent
            "repeated"}    \* a commit was pushed that lists a file twice

NoFiles == [p \in Paths |-> Absent]
FirstManifest == [version |-> 0, files |-> <<>>]

\* A version directory: its .manifest, its files, and whether its pusher has been told
\* and no rollback has begun to delete it.
Version(m, files, acked) == [manifest |-> m, files |-> files, acked |-> acked]

\* A number below the latest version's without a directory.
Missing == Version([version |-> -2, files |-> <<>>], NoFiles, FALSE)
Latest == Last(history)

Init == /\ history = <<>> /\ pending = {}
        /\ manifest = [c \in Clients |-> NoManifest]
        /\ commit = [c \in Clients |-> NoText]
        /\ mishap = {}

-----------------------------------------------------------------------------
(* doAdd needs no server.                                                  *)

\* Whether the manifest has the file already is not asked.
doAdd(c, p) ==
  LET m == manifest[c]
      list == readManifest(m)
      line == IF list = <<>> THEN 0 ELSE Head(list).projectVersion
  IN  /\ Readable(m) /\ Len(m.files) < MaxFiles
      /\ \E content \in Contents :
           LET new == writeManifest(
                 Append(list, Node([path |-> p, fileVersion |-> 0, hash |-> content], line)))
           IN  \E written \in {new} \cup CutManifest(new) :
                 manifest' = [manifest EXCEPT ![c] = written]
      /\ UNCHANGED <<server, commit, mishap>>

-----------------------------------------------------------------------------
(* create, rollback, checkout.                                             *)

doCreate(c) ==
  /\ history = <<>>
  /\ history' = <<Version(FirstManifest, NoFiles, TRUE)>>
  /\ \E written \in {FirstManifest, NoManifest} : manifest' = [manifest EXCEPT ![c] = written]
  /\ UNCHANGED <<pending, commit, mishap>>

\* Some of the files of version v, with a manifest.
PartOf(v, m, some) ==
  Version(m, [p \in Paths |-> IF p \in some THEN v.files[p] ELSE Absent], FALSE)
PartsOf(v, manifests) == {PartOf(v, m, some) : m \in manifests, some \in SUBSET Paths}

\* A version without readable manifest. (Its files are never sent or used again.)
Unlisted == Version(NoManifest, NoFiles, FALSE)

\* Pending commits stay.
GoBack == /\ mishap' = mishap \cup (IF pending = {} THEN {} ELSE {"rollback"})
          /\ UNCHANGED <<pending, manifest, commit>>

\* To version n - 1.
doRollback(n) ==
  /\ n \in 1 .. Len(history) - 1 /\ history[n] # Missing
  /\ history' = SubSeq(history, 1, n)
  /\ GoBack

\* The server dies in it: of the later versions, which go in the order of the directory,
\* top is the highest one left, others are gone, and of one some files are gone.
RollbackStops(n) ==
  /\ n \in 1 .. Len(history) - 1 /\ history[n] # Missing
  /\ \E top \in n + 1 .. Len(history) :
       \E at \in n + 1 .. top, gone \in SUBSET (n + 1 .. top - 1) :
         /\ history[top] # Missing /\ history[at] # Missing
         /\ \E v \in {history[at], Unlisted} \cup PartsOf(history[at], {history[at].manifest}) :
              history' = [k \in 1 .. top |-> IF k = at THEN v
                                            ELSE IF k \in gone THEN Missing ELSE history[k]]
  /\ history' # history
  /\ GoBack

\* The manifest arrives first; the files after it replace the user's.
checkout(c) ==
  /\ history # <<>> /\ Latest.manifest.files # <<>>
  /\ \E written \in {Latest.manifest} \cup CutManifest(Latest.manifest) :
       manifest' = [manifest EXCEPT ![c] = written]
  /\ UNCHANGED <<server, commit, mishap>>

-----------------------------------------------------------------------------
(* commit.                                                                 *)

\* The client's list must not be empty, the versions must agree.
VersionsMatch(m, s) ==
  /\ m.files # <<>>
  /\ m.version = (IF s.files = <<>> THEN 0 ELSE s.version)

Save(c, text) == commit' = [commit EXCEPT ![c] = text]

\* The text is saved and sent, and what arrives of it is pending; or the client dies in
\* saving it or before it sends anything.
SendCommit(c, live) ==
  LET m == manifest[c]
      built == buildCommit(m.files, Latest.manifest.files, live)
      text == [version |-> m.version + 1, files |-> built.files]
  IN  /\ Readable(Latest.manifest) /\ VersionsMatch(m, Latest.manifest)
      /\ built.end = "done"
      /\ \/ /\ Save(c, text)
            /\ \E arrived \in {text} \cup CutText(text) :
                 /\ pending' = pending \cup {arrived}
                 /\ mishap' = mishap \cup (IF arrived # text /\ Readable(arrived) THEN {"cut"} ELSE {})
         \/ /\ \E saved \in {text} \cup CutText(text) : Save(c, saved)
            /\ UNCHANGED <<pending, mishap>>

\* writeCommitFile truncates .commit and gets NULL for the list.
OutdatedCommit(c, live) ==
  LET m == manifest[c]
  IN  /\ Readable(Latest.manifest) /\ VersionsMatch(m, Latest.manifest)
      /\ buildCommit(m.files, Latest.manifest.files, live).end = "outdated"
      /\ Save(c, NoText)
      /\ UNCHANGED <<pending, mishap>>

\* readManifest returns one node, whose version is uninitialised. If that agrees, the
\* node is left as a deletion without hash, at which the writing of .commit dies.
UnreadableCommit(c) ==
  /\ ~Readable(Latest.manifest)
  /\ manifest[c].files # <<>>
  /\ Save(c, TornText)
  /\ UNCHANGED <<pending, mishap>>

doCommitClient(c) ==
  /\ history # <<>>
  /\ Cardinality(pending) < MaxPending /\ manifest[c].version < MaxVersion
  /\ \/ \E live \in [Listed(manifest[c].files) -> Contents \cup {Absent}] :
          SendCommit(c, live) \/ OutdatedCommit(c, live)
     \/ UnreadableCommit(c)
  /\ UNCHANGED <<history, manifest>>

-----------------------------------------------------------------------------
(* push.                                                                   *)

\* An empty file equals any other.
Accepts(text) == \/ text \in pending
                 \/ pending # {} /\ NoText \in pending \cup {text}

\* What a push leaves that stops before it writes the new manifest: a copy of part of
\* the version before.
CopyOf(base) == {Unlisted} \cup
  PartsOf(base, {base.manifest} \cup {FirstLines(base.manifest, k) : k \in 0 .. Len(base.manifest.files) - 1})

\* Mutant: only added files are sent.
SentAdded(text) == {text.files[i].path : i \in {j \in DOMAIN text.files : text.files[j].op = "A"}}

\* The changes whose files the client sends: up to the first deletion.
Sent(text) == {text.files[i].path : i \in
  {j \in DOMAIN text.files : \A k \in 1 .. j : text.files[k].op # "D"}}
Finishes(text) == \A i \in DOMAIN text.files : text.files[i].op # "D"

\* The copied files, without those that deleteFile finds, with those of the client.
Received(base, gone, sent) ==
  [p \in Paths |-> IF p \in DOMAIN sent THEN sent[p] ELSE IF p \in gone THEN Absent
                   ELSE base.files[p]]

\* A file that is listed twice is sent twice, with one content.
Causes(text, sent) ==
  LET edited == \E i \in DOMAIN text.files :
        text.files[i].path \in DOMAIN sent /\ sent[text.files[i].path] # text.files[i].hash
  IN  (IF text \in pending THEN {} ELSE {"mismatch"})
        \cup (IF edited THEN {"edited"} ELSE {})
        \cup (IF Once(text.files) THEN {} ELSE {"repeated"})

\* The next version.
Publish(v, causes) == history' = Append(history, v) /\ mishap' = mishap \cup causes

Applicable(text) == Readable(text) /\ Readable(Latest.manifest)

\* The push of a text ends early: in copying, in writing the new manifest, or later, when
\* the files are any, as those that arrive in part or garbled are. deleteFile looks for
\* a path that has been freed: any of the freed nodes' files may go.
PushStops(text) ==
  \/ \E v \in CopyOf(Latest) : Publish(v, Causes(text, <<>>))
  \/ LET new == updateManifest(readManifest(Latest.manifest), text)
         m == writeManifest(new.list)
     IN  /\ Applicable(text) /\ new.list # <<>>
         /\ \/ \E part \in {m} \cup CutManifest(m), gone \in SUBSET new.freed :
                 Publish(Version(part, Received(Latest, gone, <<>>), FALSE), Causes(text, <<>>))
            \/ Sent(text) # {} /\ \E files \in [Paths -> Contents \cup {Absent}] :
                 Publish(Version(m, files, FALSE), Causes(text, <<>>))

\* The files the client sends arrive. Or writeFileFromSocket stores others: it writes
\* strlen bytes of each chunk, which is less than came if there is a NUL, and stale bytes
\* behind a full chunk or a short one; after a short one the rest of the file is taken
\* for the name of another.
PushArrives(text, m, freed) ==
  \/ \E gone \in SUBSET freed, sent \in [Sent(text) -> Contents] :
       Publish(Version(m, Received(Latest, gone, sent), TRUE), Causes(text, sent))
  \/ \E files \in [Paths -> Contents \cup {Absent}] :
       Publish(Version(m, files, TRUE), Causes(text, <<>>) \cup {"garbled"})

\* The server has the files and answers; the client updates its manifest and deletes
\* .commit, or dies before.
PushSucceeds(c) ==
  LET text == commit[c]
      new == updateManifest(readManifest(Latest.manifest), text)
      mine == writeManifest(updateManifestPush(readManifest(manifest[c]), text))
  IN  /\ Applicable(text) /\ new.list # <<>> /\ Finishes(text)
      /\ PushArrives(text, writeManifest(new.list), new.freed)
      /\ \/ /\ mine # NoManifest
            /\ manifest' = [manifest EXCEPT ![c] = mine]
            /\ Save(c, NoText)
         \/ /\ \E written \in {manifest[c], mine} \cup CutManifest(mine) :
                 manifest' = [manifest EXCEPT ![c] = written]
            /\ UNCHANGED commit

\* The text of .commit, or what arrives of it.
Pushed(c, text) ==
  /\ Len(history) \in 1 .. MaxVersion
  /\ Accepts(text)
  /\ \/ text = commit[c] /\ PushSucceeds(c)
     \/ PushStops(text) /\ UNCHANGED <<manifest, commit>>

\* Mutant: the pending commits of others stay.
doPushKeepsPending(c) ==
  \E text \in {commit[c]} \cup CutText(commit[c]) : Pushed(c, text) /\ pending' = pending \ {text}

\* The server has found the commit and expires all of them, before anything else.
doPushClient(c) ==
  \E text \in {commit[c]} \cup CutText(commit[c]) : Pushed(c, text) /\ pending' = {}

-----------------------------------------------------------------------------
ClientCommand(c) ==
  \/ \E p \in Paths : doAdd(c, p)
  \/ doCreate(c) \/ checkout(c) \/ doCommitClient(c) \/ doPushClient(c)

Next == \/ \E c \in Clients : ClientCommand(c)
        \/ \E n \in 1 .. MaxVersion : doRollback(n) \/ RollbackStops(n)

Spec == Init /\ [][Next]_vars

-----------------------------------------------------------------------------
(* Properties.                                                             *)

Calm(causes) == mishap \cap causes = {}

\* Mishaps after which a commit may be pushed that was not made for the latest version.
Astray == {"rollback", "mismatch", "cut"}

\* Every variable keeps its type.
Manifests == [version : -2 .. MaxVersion, files : Seq(Entries)]
CommitTexts == [version : -2 .. MaxVersion, files : Seq(Changes)]
Versions == [manifest : Manifests, files : [Paths -> Contents \cup {Absent}], acked : BOOLEAN]
TypeOK ==
  /\ history \in Seq(Versions) /\ pending \subseteq CommitTexts
  /\ manifest \in [Clients -> Manifests] /\ commit \in [Clients -> CommitTexts]
  /\ mishap \subseteq Mishaps

\* No manifest of the server ever lists a file twice, whatever clients add, commit, go
\* back to or leave unfinished: updateManifest appends only what it has not found.
OneEntryPerPath == \A n \in DOMAIN history : Once(history[n].manifest.files)

\* A commit made for a manifest: it names every file of it, has the next version, and
\* where it first names one of its files, that file's node is removed, or gets another
\* content and the next file version.
MadeFor(text, m) ==
  /\ Listed(m.files) \subseteq Listed(text.files)
  /\ text.version = 1 + (IF m.files = <<>> THEN 0 ELSE m.version)
  /\ \A i \in DOMAIN text.files :
       LET x == text.files[i]
       IN  (\A k \in 1 .. i - 1 : text.files[k].path # x.path) =>
             \A e \in ToSet(m.files) : e.path = x.path =>
               \/ x.op = "D"
               \/ x.op = "M" /\ x.fileVersion = e.fileVersion + 1 /\ x.hash # e.hash

\* Whatever commits were pushed, stopped or left behind: those that are pending were
\* made for the latest version, if it can be read at all.
PendingForLatest ==
  Calm(Astray) /\ history # <<>> /\ Readable(Latest.manifest) =>
    \A t \in pending : Readable(t) => MadeFor(t, Latest.manifest)

\* The version the client was told "00" for has every file its manifest lists, with the
\* content it lists, even on top of versions that a push or a rollback left unfinished,
\* and as long as no rollback begins to delete it. Files that arrive garbled are
\* acknowledged too, and excepted.
AcknowledgedIsWhole ==
  Calm(Astray \cup {"edited", "garbled"}) =>
    \A n \in DOMAIN history : history[n].acked =>
      \A i \in DOMAIN history[n].manifest.files :
        LET e == history[n].manifest.files[i]
        IN  history[n].files[e.path] = e.hash

\* The version line that writeManifest takes from the first node is the version's own
\* number, if neither a push nor a rollback left an unfinished one up to there.
LineIsNumber ==
  Calm(Astray) =>
    \A n \in DOMAIN history :
      (\A k \in 1 .. n : history[k].acked) => history[n].manifest.version = n - 1

\* The client lists what the server lists, each file once, then what it has added.
InStep(m, s) == /\ s.files # <<>> => m.version = s.version
                /\ IsPrefix(s.files, m.files)
                /\ Once(m.files)

\* The files of a commit still are the first ones of the manifest.
StillListed(m, text) == /\ Len(text.files) <= Len(m.files)
                        /\ \A i \in DOMAIN text.files : text.files[i].path = m.files[i].path

\* A client that was in step is in step again when it has finished its push, although
\* the two sides apply the commit by two different functions.
PusherInStep ==
  [][\A c \in Clients :
       /\ Len(history') > Len(history) /\ commit'[c] # commit[c]
       /\ history # <<>> /\ InStep(manifest[c], Latest.manifest)
       /\ StillListed(manifest[c], commit[c])
       /\ Calm(Astray)'
       => InStep(manifest'[c], Latest'.manifest)]_vars

\* What a client in step commits and sends is the difference: applied to the server's list it
\* gives the client's files, each with the next version, and frees no node.
Different(m, s, text) ==
  LET new == updateManifest(readManifest(s), text)
  IN  /\ new.freed = {}
      /\ Len(new.list) = Len(m.files)
      /\ \A i \in DOMAIN m.files :
           /\ new.list[i].path = m.files[i].path
           /\ new.list[i].fileVersion = m.files[i].fileVersion + 1
           /\ i <= Len(s.files) => new.list[i].hash # s.files[i].hash

CommitIsTheDifference ==
  [][\A c \in Clients :
       /\ commit'[c] # commit[c] /\ Readable(commit'[c])
       /\ pending' # pending
       /\ InStep(manifest[c], Latest.manifest)
       => Different(manifest[c], Latest.manifest, commit'[c])]_vars

\* The repository that users see in the manifests.
Repository == INSTANCE VersionedRepository WITH
  versions <- [n \in DOMAIN history |-> ToSet(history[n].manifest.files)],
  disturbed <- ~Calm(Astray \cup {"repeated"})

\* Commits, pushes and rollbacks of all clients, and deaths in them, make a sequence of
\* versions in which a file's version counts its changes, until a commit outlives a
\* rollback or is pending in part, a push is accepted without its pending commit, or a
\* commit lists a file twice: of a file that is added three times the second change takes
\* the node out of the manifest and the third puts it back with the version of a new file.
ImplementsVersionedRepository == Repository!Spec

-----------------------------------------------------------------------------
(* What a comment of the server says, and it does not do.                  *)

=============================================================================
