------------------------- MODULE VersionedRepository -------------------------
(***************************************************************************)
(* What a version repository promises its users: a sequence of versions,   *)
(* each made from the latest one; a file whose content changes gets the    *)
(* next file version, and no other does.                                   *)
(***************************************************************************)
EXTENDS Integers, Sequences, SequencesExt

VARIABLES versions, \* per version: the set of its files, [path, fileVersion, hash]
          disturbed \* whether the promise has been given up

Init == versions = <<>> /\ disturbed = FALSE

\* Between two versions a file stays as it is, or has a new content and the next
\* file version. Files also come and go.
Follows(old, new) == \A e \in old, f \in new :
  e.path = f.path /\ e # f => f.hash # e.hash /\ f.fileVersion = e.fileVersion + 1

Distinct(files) == \A e, f \in files : e.path = f.path => e = f

Create == versions = <<>> /\ versions' = << {} >>

Publish ==
  /\ versions # <<>>
  /\ Len(versions') = Len(versions) + 1
  /\ IsPrefix(versions, versions')
  /\ Distinct(Last(versions'))
  /\ Follows(Last(versions), Last(versions'))

\* Later versions go. Of a rollback that is stopped some may stay, whole or empty, with
\* empty ones where others were.
Rollback ==
  /\ versions # <<>> /\ Len(versions') \in 1 .. Len(versions)
  /\ versions'[1] = versions[1]
  /\ \A n \in 2 .. Len(versions') : versions'[n] \in {versions[n], {}}

Next == \/ disturbed'
        \/ (Create \/ Publish \/ Rollback) /\ UNCHANGED disturbed

Spec == Init /\ [][Next]_<<versions, disturbed>>
=============================================================================
