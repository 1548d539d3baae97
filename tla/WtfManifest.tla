----------------------------- MODULE WtfManifest -----------------------------
(***************************************************************************)
(* What .manifest and .commit files say, and the list surgery that makes   *)
(* one from another: the client's buildCommit, the server's updateManifest *)
(* and the client's updateManifestPush.  A file's hash is its content.     *)
(***************************************************************************)
EXTENDS Integers, SequencesExt

CONSTANTS Paths, Contents,
          Absent \* no such file

ASSUME AbsentAssumption == Absent \notin Contents

\* A line of a .manifest, and of a .commit, which has the operator too.
Entries == [path : Paths, fileVersion : Nat, hash : Contents]
Changes == [op : {"A", "M", "D"}, path : Paths, fileVersion : Nat, hash : Contents]

\* A .manifest is missing, or its last line has no end: what readManifest returns is
\* not a list of its lines.
NoManifest == [version |-> -1, files |-> <<>>]

\* A .commit is missing or empty; or it ends within a line or after the version line.
NoText == [version |-> -1, files |-> <<>>]
TornText == [version |-> -2, files |-> <<>>]
Readable(file) == file.version >= 0

\* The first k lines of a file.
FirstLines(file, k) == [version |-> file.version, files |-> SubSeq(file.files, 1, k)]

\* What is there of a .manifest or a .commit that was not written to its end.
CutManifest(m) == {NoManifest} \cup {FirstLines(m, k) : k \in 0 .. Len(m.files) - 1}
CutText(t) == {NoText, TornText} \cup {FirstLines(t, k) : k \in 1 .. Len(t.files) - 1}

\* A FileNode that readManifest or readCommit makes of a line.
Node(e, projectVersion) ==
  [path |-> e.path, fileVersion |-> e.fileVersion, hash |-> e.hash,
   projectVersion |-> projectVersion]

\* The list of a file's nodes: without lines, its project version is lost.
readManifest(m) == [i \in DOMAIN m.files |-> Node(m.files[i], m.version)]

\* The version line is that of the first node. Without a node the file has been
\* truncated when the process dies.
writeManifest(list) ==
  IF list = <<>> THEN NoManifest
  ELSE [version |-> Head(list).projectVersion,
        files |-> [i \in DOMAIN list |-> [path |-> list[i].path,
                                          fileVersion |-> list[i].fileVersion,
                                          hash |-> list[i].hash]]]

\* Where a path first occurs; 0 if it does not.
Find(list, path) == SelectInSeq(list, LAMBDA e : e.path = path)

Listed(list) == {list[i].path : i \in DOMAIN list}

\* No path occurs twice.
Once(list) == \A i, j \in DOMAIN list : list[i].path = list[j].path => i = j

-----------------------------------------------------------------------------
(* The client compares its manifest, the server's and its files.           *)

\* Mutant: the version is not raised.
ChangeUncounted(op, e, live) ==
  [op |-> op, path |-> e.path, fileVersion |-> e.fileVersion, hash |-> live[e.path]]

\* The node of file e with its live content and a raised version.
Change(op, e, live) ==
  [op |-> op, path |-> e.path, fileVersion |-> e.fileVersion + 1, hash |-> live[e.path]]

\* The walk's state: what is left of both lists, the changes found, and how it ended.
\* shared: the rest of the client's list also hangs on the end of the server's.
StartOfWalk(client, server) ==
  [client |-> client, server |-> server, shared |-> FALSE, commit |-> <<>>, end |-> "done"]

\* A file the server does not list. Its node is unlinked through prevNode, the last
\* node of the server's list if there is one, which from then on has the client's.
Added(walk, live) ==
  LET x == Head(walk.client)
  IN  [walk EXCEPT !.client = Tail(@),
                   !.commit = Append(@, Change("A", x, live)),
                   !.server = IF @ = <<>> THEN @ ELSE @ \o Tail(walk.client),
                   !.shared = walk.server # <<>>]

\* Mutant: the server's node stays in its list.
ModifiedKept(walk, i, live) ==
  [walk EXCEPT !.client = Tail(@), !.commit = Append(@, Change("M", walk.server[i], live))]

\* The server's node leaves its list. If it is the client's own node, its next
\* pointer is gone and the walk with it.
Modified(walk, i, live) ==
  LET own == walk.shared /\ i = Len(walk.server) - Len(walk.client) + 1
  IN  [walk EXCEPT !.client = IF own THEN <<>> ELSE Tail(@),
                   !.commit = Append(@, Change("M", walk.server[i], live)),
                   !.server = RemoveAt(@, i)]

\* A file the server has too: only a change of the version both have goes on; for a
\* file without a change, and for one whose listed content differs but is not older,
\* the search never moves from the server's node.
Compared(walk, i, live) ==
  LET x == Head(walk.client)
      s == walk.server[i]
  IN  IF x.hash # s.hash
      THEN [walk EXCEPT !.end = IF x.fileVersion < s.fileVersion THEN "outdated" ELSE "endless"]
      ELSE IF live[x.path] = x.hash THEN [walk EXCEPT !.end = "endless"]
      ELSE Modified(walk, i, live)

\* Mutant: getFileHash goes on without the file.
BuildStepUnchecked(walk, live) ==
  IF walk.end # "done" \/ walk.client = <<>> THEN walk
  ELSE LET i == Find(walk.server, Head(walk.client).path)
       IN  IF i = 0 THEN Added(walk, live) ELSE Compared(walk, i, live)

\* One turn of the loop over the client's nodes; getFileHash exits without the file.
BuildStep(walk, live) ==
  IF walk.end # "done" \/ walk.client = <<>> THEN walk
  ELSE LET path == Head(walk.client).path
           i == Find(walk.server, path)
       IN  IF live[path] = Absent THEN [walk EXCEPT !.end = "missing"]
           ELSE IF i = 0 THEN Added(walk, live)
           ELSE Compared(walk, i, live)

\* Nodes left in the server's list are deletions.
Deleted(list) ==
  [i \in DOMAIN list |-> [op |-> "D", path |-> list[i].path,
                          fileVersion |-> list[i].fileVersion, hash |-> list[i].hash]]

\* The commit's lines, and how the walk ended.
buildCommit(client, server, live) ==
  LET walk[n \in 0 .. Len(client)] ==
        IF n = 0 THEN StartOfWalk(client, server) ELSE BuildStep(walk[n - 1], live)
      last == walk[Len(client)]
  IN  [files |-> last.commit \o Deleted(last.server), end |-> last.end]

-----------------------------------------------------------------------------
(* A manifest with a commit applied: the server's list and the paths whose *)
(* nodes were freed, and the client's list.                                *)

\* Mutants: every change is appended; a modified node keeps its project version.
AppliedBehind(state, change, version) ==
  [state EXCEPT !.list = Append(@, Node(change, version))]

AppliedInPlace(state, change, version) ==
  LET i == Find(state.list, change.path)
  IN  IF i = 0 THEN AppliedBehind(state, change, version)
      ELSE IF change.op = "M"
      THEN [state EXCEPT !.list[i] = Node(change, state.list[i].projectVersion)]
      ELSE [list |-> RemoveAt(state.list, i), freed |-> state.freed \cup {change.path}]

Applied(state, change, version) ==
  LET i == Find(state.list, change.path)
  IN  IF i = 0 THEN [state EXCEPT !.list = Append(@, Node(change, version))]
      ELSE IF change.op = "M" THEN [state EXCEPT !.list[i] = Node(change, version)]
      ELSE [list |-> RemoveAt(state.list, i), freed |-> state.freed \cup {change.path}]

updateManifest(list, text) ==
  LET state[n \in 0 .. Len(text.files)] ==
        IF n = 0 THEN [list |-> list, freed |-> {}]
        ELSE Applied(state[n - 1], text.files[n], text.version)
  IN  state[Len(text.files)]

\* Mutant: only modified files are updated.
TakenModified(list, change, version) ==
  LET i == Find(list, change.path)
  IN  IF i = 0 \/ change.op # "M" THEN list ELSE [list EXCEPT ![i] = Node(change, version)]

\* The client updates the nodes it has, whatever the operator.
Taken(list, change, version) ==
  LET i == Find(list, change.path)
  IN  IF i = 0 THEN list ELSE [list EXCEPT ![i] = Node(change, version)]

updateManifestPush(list, text) ==
  LET state[n \in 0 .. Len(text.files)] ==
        IF n = 0 THEN list ELSE Taken(state[n - 1], text.files[n], text.version)
  IN  state[Len(text.files)]
=============================================================================
