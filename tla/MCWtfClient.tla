----------------------------- MODULE MCWtfClient -----------------------------
EXTENDS WtfClient, TLC

Symmetric == Permutations(Clients) \cup Permutations(Contents) \cup Permutations(Paths)

\* What goes wrong: mishaps, pending files of commits that were cut, clients that list a
\* file twice or keep a commit that is no longer pending, numbers without a version.
Torn == pending \cap {NoText, TornText}
Repeats == {c \in Clients : "repeated" \in mishap \/ ~Once(manifest[c].files)}
Leftover == {c \in Clients : commit[c] \notin pending \cup {NoText}}
Gaps == {n \in DOMAIN history : history[n] = Missing}
Unfinished == {n \in DOMAIN history : ~history[n].acked} \ Gaps
Trouble == Cardinality(mishap \ {"repeated"}) + Cardinality(Torn) + Cardinality(Leftover)
           + Cardinality(Gaps) + (IF Repeats = {} THEN 0 ELSE 1)

\* Bound: of these there is one at a time, and one version that is unfinished, below
\* version MaxVersion; mishaps only below that and without an unfinished version.
OneTrouble == /\ Trouble <= 1 /\ Cardinality(Unfinished) <= 1
              /\ Unfinished = {} \/ Len(history) <= MaxVersion
              /\ mishap = {} \/ (Len(history) < MaxVersion /\ Unfinished = {})

\* Bound: a manifest without lines is that of version 0; one client has several lines.
Short == /\ \A n \in DOMAIN history : history[n].manifest.version > 0 => history[n].manifest.files # <<>>
         /\ \A c \in Clients : manifest[c].version > 0 => manifest[c].files # <<>>
         /\ \E c \in Clients : \A d \in Clients \ {c} : Len(manifest[d].files) <= 1

Texts == pending \cup {commit[c] : c \in Clients}
PathsUsed == UNION {Listed(history[n].manifest.files) : n \in DOMAIN history}
             \cup UNION {Listed(manifest[c].files) : c \in Clients}
             \cup UNION {Listed(t.files) : t \in Texts}
OnePath == /\ Cardinality(PathsUsed) <= 1
           /\ \A n \in Unfinished, p \in Paths \ PathsUsed : history[n].files[p] = Absent

\* Bound: with two paths there are no versions beyond MaxVersion - 1, nor commits for it,
\* one commit, of trouble only a commit that is no longer pending, and in an unfinished
\* version no file.
Idle(c) == manifest[c] = NoManifest /\ commit[c] = NoText
Alone == \E c \in Clients : \A d \in Clients \ {c} : Idle(d)
TwoPaths == /\ Len(history) < MaxVersion /\ \A t \in Texts : t.version < MaxVersion
            /\ Cardinality(Texts \ {NoText}) <= 1
            /\ Trouble = Cardinality(Leftover)
            /\ \A n \in Unfinished : history[n].files = NoFiles

\* Bound: a manifest of MaxFiles lines, which all name one path, is there below version
\* MaxVersion, while no other client has anything.
LongOrMany == (\E c \in Clients : Len(manifest[c].files) = MaxFiles) =>
                Len(history) < MaxVersion /\ Alone /\ OnePath

Bounded == OneTrouble /\ Short /\ (OnePath \/ TwoPaths) /\ LongOrMany
=============================================================================
