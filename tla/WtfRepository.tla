--------------------------- MODULE WtfRepository ---------------------------
(***************************************************************************)
(* One project directory of the WTF server on disk, and what the functions *)
(* of directoryFunctions.c and doPush.c compute from it.  A version is     *)
(* known by its number and by how far its directory was written, a commit  *)
(* by the version it was made against.                                     *)
(***************************************************************************)
EXTENDS Integers

CONSTANTS MaxVersion, MaxPending

ASSUME BoundsAssumption == MaxVersion \in Nat /\ MaxPending \in Nat \ {0}

Versions == 0 .. MaxVersion
NoNumber == -1

\* The text of a .commitPending or .pushcommit file: the version the commit was made
\* against, or Broken: empty, or the stale bytes writeFileFromSocket writes when
\* the client leaves before its data.
Broken == -2
Texts == Versions \cup {Broken}

\* How far a version directory is: without .manifest, with the .manifest of create, with
\* a .manifest but not all of its own files, or complete.
Stages == {"bare", "initial", "partial", "published"}

\* dir and history say whether the directory and its .history exist.
NoProject == [dir |-> FALSE, history |-> FALSE, versions |-> <<>>, pending |-> <<>>]

Put(f, x, v) == [y \in DOMAIN f \cup {x} |-> IF y = x THEN v ELSE f[y]]
Without(f, x) == [y \in DOMAIN f \ {x} |-> f[y]]
Newest(S) == CHOOSE n \in S : \A k \in S : k <= n

Empty(r) == ~r.history /\ DOMAIN r.versions = {} /\ DOMAIN r.pending = {}

-----------------------------------------------------------------------------
\* Mutant: takes the oldest version for the latest.
findOldestVersion(r) ==
  IF DOMAIN r.versions = {} THEN 0
  ELSE CHOOSE v \in DOMAIN r.versions : \A w \in DOMAIN r.versions : v <= w

\* The highest version directory; an empty project directory stands for v0.
findLatestVersion(r) ==
  IF DOMAIN r.versions = {} THEN 0 ELSE Newest(DOMAIN r.versions)

\* Without the directory findLatestVersion exits; with entries but no version among
\* them it returns NULL, which getVersionDir passes to strlen.
VersionFound(r) == r.dir /\ (DOMAIN r.versions # {} \/ Empty(r))

ManifestFound(r) ==
  /\ findLatestVersion(r) \in DOMAIN r.versions
  /\ r.versions[findLatestVersion(r)] # "bare"

\* stat of a missing path leaves st_mode uninitialised: either answer is possible.
checkDirectory(r) == IF r.dir THEN {TRUE} ELSE BOOLEAN

\* Mutant: the highest number in use.
pendingCommitLast(r) ==
  IF DOMAIN r.pending = {} THEN 1 ELSE Newest(DOMAIN r.pending)

\* One more than the highest number in use.
pendingCommitNum(r) ==
  IF DOMAIN r.pending = {} THEN 1 ELSE Newest(DOMAIN r.pending) + 1

\* Whether a pending commit equal to text is found: an empty file equals every other
\* one, stale bytes equal none.
diffFiles(r, text) ==
  LET equal == \E n \in DOMAIN r.pending : text # Broken /\ r.pending[n] = text
      maybe == \E n \in DOMAIN r.pending : Broken \in {text, r.pending[n]}
  IN  (IF equal THEN {TRUE} ELSE {FALSE}) \cup (IF maybe THEN {TRUE} ELSE {})

\* deleteDirectory of a version unlinks its files in the order of the directory, the
\* .manifest somewhere among them, and removes it when it is empty.
DeleteVersion(r, v) ==
  CASE r.versions[v] = "bare" -> {[r EXCEPT !.versions = Without(@, v)]}
    [] r.versions[v] = "published" -> {[r EXCEPT !.versions[v] = "partial"],
                                       [r EXCEPT !.versions[v] = "bare"]}
    [] OTHER -> {[r EXCEPT !.versions[v] = "bare"]}

\* What one turn of deleteDirectory may do to the versions and pending commits.
Deletions(r) == (UNION {DeleteVersion(r, v) : v \in DOMAIN r.versions})
                  \cup {[r EXCEPT !.pending = Without(@, n)] : n \in DOMAIN r.pending}

\* Mutant: removes the directory with what is left in it.
RmdirAlways(r) == [r EXCEPT !.dir = FALSE]

\* rmdir fails on a directory that is not empty.
Rmdir(r) == IF Empty(r) THEN NoProject ELSE r
=============================================================================
