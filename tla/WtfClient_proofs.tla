-------------------------- MODULE WtfClient_proofs --------------------------
(***************************************************************************)
(* Theorems about WtfClient, for any clients, files, contents and bounds.  *)
(***************************************************************************)
EXTENDS WtfClient, WtfManifest_proofs, FiniteSetTheorems

-----------------------------------------------------------------------------
(* Types, and lists without repetition.                                    *)

\* TypeOK is inductive only with OneEntryPerPath: of a list that names a path twice a
\* change would update one node and leave the other.
Lists == TypeOK /\ OneEntryPerPath

LEMMA ManifestsHave ==
  ASSUME NEW m \in Manifests
  PROVE  /\ m.files \in Seq(Entries) /\ m.version \in -2 .. MaxVersion /\ m.version \in Int
         /\ m = [version |-> m.version, files |-> m.files]
BY DEF Manifests

LEMMA TextsHave ==
  ASSUME NEW t \in CommitTexts
  PROVE  /\ t.files \in Seq(Changes) /\ t.version \in -2 .. MaxVersion /\ t.version \in Int
BY DEF CommitTexts

LEMMA ManifestsAre ==
  ASSUME NEW v \in -2 .. MaxVersion, NEW f \in Seq(Entries)
  PROVE  [version |-> v, files |-> f] \in Manifests
BY DEF Manifests

LEMMA TextsAre ==
  ASSUME NEW v \in -2 .. MaxVersion, NEW f \in Seq(Changes)
  PROVE  [version |-> v, files |-> f] \in CommitTexts
BY DEF CommitTexts

LEMMA Bounds == MaxVersion \in Nat /\ MaxPending \in Nat /\ MaxFiles \in Nat
BY ClientBounds

LEMMA FixedFiles ==
  /\ NoManifest \in Manifests /\ FirstManifest \in Manifests
  /\ NoText \in CommitTexts /\ TornText \in CommitTexts
  /\ Once(NoManifest.files) /\ Once(FirstManifest.files)
  /\ NoFiles \in [Paths -> Contents \cup {Absent}]
  /\ ~ Readable(NoManifest) /\ ~ Readable(NoText) /\ ~ Readable(TornText)
<1>1. <<>> \in Seq(Entries) /\ <<>> \in Seq(Changes)
  OBVIOUS
<1>2. -1 \in -2 .. MaxVersion /\ 0 \in -2 .. MaxVersion /\ -2 \in -2 .. MaxVersion
  BY Bounds
<1>3. /\ NoManifest \in Manifests /\ FirstManifest \in Manifests
      /\ NoText \in CommitTexts /\ TornText \in CommitTexts
  BY <1>1, <1>2, ManifestsAre, TextsAre DEF NoManifest, FirstManifest, NoText, TornText
<1>4. Once(NoManifest.files) /\ Once(FirstManifest.files)
  BY DEF Once, NoManifest, FirstManifest
<1>5. NoFiles \in [Paths -> Contents \cup {Absent}]
  BY DEF NoFiles
<1>6. ~ Readable(NoManifest) /\ ~ Readable(NoText) /\ ~ Readable(TornText)
  BY DEF Readable, NoManifest, NoText, TornText
<1> QED BY <1>3, <1>4, <1>5, <1>6

\* The first lines of a file.
LEMMA FirstLinesOf ==
  ASSUME NEW S, NEW file, file.files \in Seq(S), NEW k \in 0 .. Len(file.files)
  PROVE  /\ FirstLines(file, k).version = file.version
         /\ FirstLines(file, k).files \in Seq(S)
         /\ ToSet(FirstLines(file, k).files) \subseteq ToSet(file.files)
         /\ Once(file.files) => Once(FirstLines(file, k).files)
<1>1. PICK f, g : f = file.files /\ g = SubSeq(f, 1, k)
  OBVIOUS
<1>2. f \in Seq(S) /\ Len(f) \in Nat /\ DOMAIN f = 1 .. Len(f) /\ k \in 0 .. Len(f)
  BY <1>1, ElementsOf
<1>3. \A i \in 1 .. k : i \in DOMAIN f
  BY <1>2
<1>4. g \in Seq(S) /\ Len(g) = k /\ \A i \in 1 .. k : g[i] = f[i]
  <2>1. \A i \in 1 .. k : f[i] \in S
    BY <1>2, <1>3, ElementsOf
  <2>2. k \in Int /\ 1 \in Int
    BY <1>2
  <2>3. /\ g \in Seq(S) /\ Len(g) = IF 1 <= k THEN k - 1 + 1 ELSE 0
        /\ \A i \in 1 .. k - 1 + 1 : g[i] = f[1 + i - 1]
    BY <1>1, <2>1, <2>2, SubSeqProperties
  <2>4. Len(g) = k
    BY <1>2, <2>3
  <2>5. \A i \in 1 .. k : i \in 1 .. k - 1 + 1 /\ 1 + i - 1 = i
    BY <1>2
  <2> QED BY <2>3, <2>4, <2>5
<1>5. DOMAIN g = 1 .. k
  BY <1>4, ElementsOf
<1>6. ToSet(g) \subseteq ToSet(f)
  BY <1>3, <1>4, <1>5 DEF ToSet
<1>7. Once(f) => Once(g)
  BY <1>3, <1>4, <1>5 DEF Once
<1> QED BY <1>1, <1>4, <1>6, <1>7 DEF FirstLines

\* What a death leaves of a manifest lists some of its lines, and nothing else.
LEMMA CutManifests ==
  ASSUME NEW m \in Manifests,
         NEW w, w = m \/ w \in CutManifest(m) \/ \E k \in 0 .. Len(m.files) - 1 : w = FirstLines(m, k)
  PROVE  /\ w \in Manifests /\ ToSet(w.files) \subseteq ToSet(m.files)
         /\ Once(m.files) => Once(w.files)
<1>1. m.files \in Seq(Entries) /\ m.version \in -2 .. MaxVersion /\ Len(m.files) \in Nat
  BY ManifestsHave, ElementsOf
<1>2. CASE w = m
  BY <1>2
<1>3. CASE w = NoManifest
  BY <1>3, FixedFiles DEF NoManifest, ToSet
<1>4. ASSUME NEW k \in 0 .. Len(m.files) - 1, w = FirstLines(m, k)
      PROVE  /\ w \in Manifests /\ ToSet(w.files) \subseteq ToSet(m.files)
             /\ Once(m.files) => Once(w.files)
  <2>1. k \in 0 .. Len(m.files)
    BY <1>1
  <2>2. /\ w.version = m.version /\ w.files \in Seq(Entries)
        /\ ToSet(w.files) \subseteq ToSet(m.files) /\ (Once(m.files) => Once(w.files))
    BY <1>1, <1>4, <2>1, FirstLinesOf
  <2>3. w = [version |-> w.version, files |-> w.files]
    BY <1>4 DEF FirstLines
  <2>4. PICK v, f : v = w.version /\ f = w.files
    OBVIOUS
  <2> QED BY <1>1, <2>2, <2>3, <2>4, ManifestsAre
<1>5. w = m \/ w = NoManifest \/ \E k \in 0 .. Len(m.files) - 1 : w = FirstLines(m, k)
  BY DEF CutManifest
<1> QED BY <1>2, <1>3, <1>4, <1>5

LEMMA CutTexts ==
  ASSUME NEW t \in CommitTexts, NEW w, w = t \/ w \in CutText(t)
  PROVE  w \in CommitTexts
<1>1. t.files \in Seq(Changes) /\ t.version \in -2 .. MaxVersion /\ Len(t.files) \in Nat
  BY TextsHave, ElementsOf
<1>2. CASE w \in {t, NoText, TornText}
  BY <1>2, FixedFiles
<1>3. ASSUME NEW k \in 1 .. Len(t.files) - 1, w = FirstLines(t, k)
      PROVE  w \in CommitTexts
  <2>1. k \in 0 .. Len(t.files)
    BY <1>1
  <2>2. w.version = t.version /\ w.files \in Seq(Changes)
    BY <1>1, <1>3, <2>1, FirstLinesOf
  <2>3. w = [version |-> w.version, files |-> w.files]
    BY <1>3 DEF FirstLines
  <2>4. PICK v, f : v = w.version /\ f = w.files
    OBVIOUS
  <2> QED BY <1>1, <2>2, <2>3, <2>4, TextsAre
<1>4. w \in {t, NoText, TornText} \/ \E k \in 1 .. Len(t.files) - 1 : w = FirstLines(t, k)
  BY DEF CutText
<1> QED BY <1>2, <1>3, <1>4

\* The latest version is one of the history.
LEMMA LatestIn ==
  ASSUME Lists, history # <<>>
  PROVE  /\ Len(history) \in Nat \ {0} /\ DOMAIN history = 1 .. Len(history)
         /\ Latest = history[Len(history)] /\ Latest \in Versions
         /\ Latest.manifest \in Manifests /\ Once(Latest.manifest.files)
         /\ Latest.files \in [Paths -> Contents \cup {Absent}]
<1>1. history \in Seq(Versions)
  BY DEF Lists, TypeOK
<1>2. Len(history) \in Nat \ {0} /\ DOMAIN history = 1 .. Len(history)
  BY <1>1, EmptySeq, ElementsOf
<1>3. Latest = history[Len(history)] /\ Latest \in Versions
  BY <1>1, <1>2, ElementsOf DEF Latest, Last
<1>4. Once(Latest.manifest.files)
  BY <1>2, <1>3 DEF Lists, OneEntryPerPath
<1> QED BY <1>2, <1>3, <1>4 DEF Versions

\* A manifest that is written from a list whose nodes all have a version in bounds.
LEMMA WrittenManifest ==
  ASSUME NEW list \in Seq(Nodes), NEW V, V \subseteq -2 .. MaxVersion,
         \A i \in 1 .. Len(list) : list[i].projectVersion \in V
  PROVE  writeManifest(list) \in Manifests
<1>1. CASE list = <<>>
  BY <1>1, FixedFiles DEF writeManifest
<1>2. CASE list # <<>>
  <2>1. /\ writeManifest(list) = [version |-> list[1].projectVersion,
                                  files |-> writeManifest(list).files]
        /\ writeManifest(list).files \in Seq(Entries) /\ Len(list) # 0
    BY <1>2, WriteManifestLines
  <2>2. list[1].projectVersion \in -2 .. MaxVersion
    <3>1. Len(list) \in Nat
      BY ElementsOf
    <3>2. 1 \in 1 .. Len(list)
      BY <2>1, <3>1
    <3> QED BY <3>2
  <2>3. PICK v, f : v = list[1].projectVersion /\ f = writeManifest(list).files
    OBVIOUS
  <2> QED BY <2>1, <2>2, <2>3, ManifestsAre
<1> QED BY <1>1, <1>2

LEMMA InitLists == Init => Lists
BY FixedFiles DEF Init, Lists, TypeOK, OneEntryPerPath, Mishaps

\* A change of one client's manifest or commit.
LEMMA ListsOfClient ==
  ASSUME Lists, history' = history, mishap' \subseteq Mishaps, pending' \subseteq CommitTexts,
         NEW c \in Clients, NEW m \in Manifests, NEW t \in CommitTexts,
         manifest' = manifest \/ manifest' = [manifest EXCEPT ![c] = m],
         commit' = commit \/ commit' = [commit EXCEPT ![c] = t]
  PROVE  Lists'
BY DEF Lists, TypeOK, OneEntryPerPath

LEMMA DoAddLists ==
  ASSUME Lists, NEW c \in Clients, NEW p \in Paths, doAdd(c, p)
  PROVE  Lists'
<1> DEFINE list == readManifest(manifest[c])
           line == IF list = <<>> THEN 0 ELSE Head(list).projectVersion
           n(content) == Node([path |-> p, fileVersion |-> 0, hash |-> content], line)
<1>1. /\ manifest[c] \in Manifests /\ commit[c] \in CommitTexts
      /\ pending \subseteq CommitTexts
  BY DEF Lists, TypeOK
<1>2. PICK content \in Contents :
        \E w \in {writeManifest(Append(list, n(content)))}
                 \cup CutManifest(writeManifest(Append(list, n(content)))) :
          manifest' = [manifest EXCEPT ![c] = w]
  BY DEF doAdd
<1>3. /\ list \in Seq(Nodes)
      /\ \A i \in 1 .. Len(list) : list[i].projectVersion = manifest[c].version
  <2>1. /\ list \in Seq(Nodes) /\ Len(list) = Len(manifest[c].files)
        /\ \A i \in 1 .. Len(list) : list[i] = Node(manifest[c].files[i], manifest[c].version)
    BY <1>1, ManifestsHave, ReadManifestNodes
  <2>2. \A e, v : Node(e, v).projectVersion = v
    BY DEF Node
  <2> QED BY <2>1, <2>2
<1> HIDE DEF list
<1>4. line \in -2 .. MaxVersion
  <2>1. CASE list = <<>>
    BY <2>1, Bounds
  <2>2. CASE list # <<>>
    <3>1. Head(list) = list[1] /\ 1 \in 1 .. Len(list)
      BY <1>3, <2>2
    <3> QED BY <1>1, <1>3, <2>2, <3>1, ManifestsHave
  <2> QED BY <2>1, <2>2
<1> HIDE DEF line
<1>5. n(content) \in Nodes /\ n(content).projectVersion = line
  BY <1>4 DEF Node, Nodes
<1> HIDE DEF n
<1>6. writeManifest(Append(list, n(content))) \in Manifests
  <2> DEFINE new == Append(list, n(content))
  <2>1. /\ new \in Seq(Nodes) /\ Len(new) = Len(list) + 1 /\ new[Len(list) + 1] = n(content)
        /\ \A j \in 1 .. Len(list) : new[j] = list[j]
    BY <1>3, <1>5, AppendProperties
  <2> HIDE DEF new
  <2>2. \A i \in 1 .. Len(new) : new[i].projectVersion \in -2 .. MaxVersion
    <3>1. Len(list) \in Nat
      BY <1>3, ElementsOf
    <3>2. \A i \in 1 .. Len(new) : i \in 1 .. Len(list) \/ i = Len(list) + 1
      BY <2>1, <3>1
    <3>3. manifest[c].version \in -2 .. MaxVersion
      BY <1>1, ManifestsHave
    <3> QED BY <1>3, <1>4, <1>5, <2>1, <3>2, <3>3
  <2>3. writeManifest(new) \in Manifests
    BY <2>1, <2>2, WrittenManifest
  <2> QED BY <2>3 DEF new
<1>7. history' = history /\ pending' = pending /\ commit' = commit /\ mishap' \subseteq Mishaps
  BY DEF doAdd, server, Lists, TypeOK
<1>8. PICK w \in Manifests : manifest' = [manifest EXCEPT ![c] = w]
  <2>1. PICK new : new = writeManifest(Append(list, n(content)))
    OBVIOUS
  <2>2. PICK w : (w = new \/ w \in CutManifest(new)) /\ manifest' = [manifest EXCEPT ![c] = w]
    BY <1>2, <2>1
  <2> QED BY <1>6, <2>1, <2>2, CutManifests
<1> QED BY <1>1, <1>7, <1>8, ListsOfClient

LEMMA DoCreateLists ==
  ASSUME Lists, NEW c \in Clients, doCreate(c)
  PROVE  Lists'
<1> DEFINE v == Version(FirstManifest, NoFiles, TRUE)
<1>1. v \in Versions /\ Once(v.manifest.files)
  BY FixedFiles DEF Version, Versions
<1>2. PICK h : h = <<v>>
  OBVIOUS
<1> HIDE DEF v
<1>3. h \in Seq(Versions) /\ DOMAIN h = {1} /\ h[1] = v
  BY <1>1, <1>2
<1>4. history' = h
  BY <1>2 DEF doCreate, v
<1>5. OneEntryPerPath'
  BY <1>1, <1>3, <1>4 DEF OneEntryPerPath
<1>6. TypeOK'
  <2>1. manifest' \in [Clients -> Manifests]
    <3>1. PICK w \in {FirstManifest, NoManifest} : manifest' = [manifest EXCEPT ![c] = w]
      BY DEF doCreate
    <3> QED BY <3>1, FixedFiles DEF Lists, TypeOK
  <2> QED BY <1>3, <1>4, <2>1 DEF Lists, TypeOK, doCreate
<1> QED BY <1>5, <1>6 DEF Lists

\* A version of which a rollback left something: its manifest, or no readable one.
Remains(v, old) ==
  /\ v \in Versions /\ ~ v.acked /\ Once(v.manifest.files)
  /\ v.manifest = old.manifest \/ v.manifest.files = <<>>

\* A rollback to version n - 1, finished or not.
WentBack(n) ==
  /\ n \in 1 .. Len(history) - 1 /\ Len(history) \in Nat
  /\ history' \in Seq(Versions) /\ Len(history') \in n .. Len(history)
  /\ \A k \in 1 .. Len(history') :
       history'[k] = history[k] \/ (k > n /\ Remains(history'[k], history[k]))
  /\ GoBack

LEMMA DoRollbackGoes ==
  ASSUME Lists, NEW n \in 1 .. MaxVersion, doRollback(n)
  PROVE  WentBack(n)
<1>1. history \in Seq(Versions) /\ Len(history) \in Nat /\ n \in 1 .. Len(history) - 1
  <2>1. history \in Seq(Versions) /\ n \in 1 .. Len(history) - 1
    BY DEF Lists, TypeOK, doRollback
  <2> QED BY <2>1, ElementsOf
<1>2. PICK h : h = SubSeq(history, 1, n)
  OBVIOUS
<1>3. h \in Seq(Versions) /\ Len(h) = n /\ \A k \in 1 .. n : h[k] = history[k]
  <2>1. \A i \in 1 .. n : history[i] \in Versions
    <3>1. \A i \in 1 .. n : i \in 1 .. Len(history)
      BY <1>1
    <3> QED BY <1>1, <3>1, ElementsOf
  <2>2. n \in Int /\ 1 \in Int
    OBVIOUS
  <2>3. /\ h \in Seq(Versions)
        /\ Len(h) = IF 1 <= n THEN n - 1 + 1 ELSE 0
        /\ \A i \in 1 .. n - 1 + 1 : h[i] = history[1 + i - 1]
    BY <1>2, <2>1, <2>2, SubSeqProperties
  <2> QED BY <2>2, <2>3
<1>4. history' = h /\ GoBack
  BY <1>2 DEF doRollback
<1>5. n \in n .. Len(history)
  BY <1>1
<1> QED BY <1>1, <1>3, <1>4, <1>5 DEF WentBack

LEMMA FewerFiles ==
  ASSUME NEW old \in Versions, Once(old.manifest.files),
         NEW v, v \in {Unlisted} \cup PartsOf(old, {old.manifest})
  PROVE  Remains(v, old)
<1>1. old.manifest \in Manifests /\ old.files \in [Paths -> Contents \cup {Absent}]
  BY DEF Versions
<1>2. CASE v = Unlisted
  <2>1. v.manifest.files = <<>>
    BY <1>2 DEF Unlisted, Version, NoManifest
  <2> QED BY <1>2, <2>1, FixedFiles DEF Remains, Unlisted, Version, Versions
<1>3. ASSUME NEW some, v = PartOf(old, old.manifest, some)
      PROVE  Remains(v, old)
  BY <1>1, <1>3 DEF Remains, PartOf, Version, Versions
<1>4. v = Unlisted \/ v \in PartsOf(old, {old.manifest})
  OBVIOUS
<1>5. v \in PartsOf(old, {old.manifest}) => \E some : v = PartOf(old, old.manifest, some)
  BY DEF PartsOf
<1> QED BY <1>2, <1>3, <1>4, <1>5

LEMMA MissingRemains ==
  ASSUME NEW old
  PROVE  Remains(Missing, old)
<1>1. PICK m : m = [version |-> -2, files |-> <<>>]
  OBVIOUS
<1>2. m \in Manifests
  <2>1. <<>> \in Seq(Entries) /\ -2 \in -2 .. MaxVersion
    BY Bounds
  <2> QED BY <1>1, <2>1, ManifestsAre
<1>3. m.files = <<>> /\ Once(m.files)
  BY <1>1 DEF Once
<1> QED BY <1>1, <1>2, <1>3, FixedFiles DEF Remains, Missing, Version, Versions

LEMMA RollbackStopsGoes ==
  ASSUME Lists, NEW n \in 1 .. MaxVersion, RollbackStops(n)
  PROVE  WentBack(n)
<1>1. /\ history \in Seq(Versions) /\ Len(history) \in Nat /\ n \in 1 .. Len(history) - 1
      /\ DOMAIN history = 1 .. Len(history) /\ GoBack
  <2>1. history \in Seq(Versions) /\ n \in 1 .. Len(history) - 1 /\ GoBack
    BY DEF Lists, TypeOK, RollbackStops
  <2> QED BY <2>1, ElementsOf
<1>2. PICK top \in n + 1 .. Len(history) :
        \E at \in n + 1 .. top, gone \in SUBSET (n + 1 .. top - 1) :
          \E v \in {history[at], Unlisted} \cup PartsOf(history[at], {history[at].manifest}) :
            history' = [k \in 1 .. top |-> IF k = at THEN v
                                          ELSE IF k \in gone THEN Missing ELSE history[k]]
  BY DEF RollbackStops
<1>3. PICK at \in n + 1 .. top, gone \in SUBSET (n + 1 .. top - 1) :
        \E v \in {history[at], Unlisted} \cup PartsOf(history[at], {history[at].manifest}) :
          history' = [k \in 1 .. top |-> IF k = at THEN v
                                        ELSE IF k \in gone THEN Missing ELSE history[k]]
  BY <1>2
<1>4. PICK v, h :
          /\ v \in {history[at], Unlisted} \cup PartsOf(history[at], {history[at].manifest})
          /\ history' = h
          /\ h = [k \in 1 .. top |-> IF k = at THEN v
                                    ELSE IF k \in gone THEN Missing ELSE history[k]]
  BY <1>3
<1>5. /\ top \in Nat /\ top \in n .. Len(history) /\ at \in 1 .. Len(history) /\ at > n
      /\ \A k \in gone : k > n
      /\ \A k \in 1 .. top : k \in 1 .. Len(history)
  BY <1>1, <1>2, <1>3
<1>6. history[at] \in Versions /\ Once(history[at].manifest.files)
      /\ \A k \in 1 .. top : history[k] \in Versions
  BY <1>1, <1>5, ElementsOf DEF Lists, OneEntryPerPath
<1>7. v = history[at] \/ Remains(v, history[at])
  BY <1>4, <1>6, FewerFiles
<1>8. \A k \in 1 .. top : h[k] = history[k] \/ (k > n /\ Remains(h[k], history[k]))
  BY <1>4, <1>5, <1>7, MissingRemains
<1>9. \A k \in 1 .. top : h[k] \in Versions
  BY <1>6, <1>8 DEF Remains
<1>10. h \in [1 .. top -> Versions]
  BY <1>4, <1>9
<1>11. h \in Seq(Versions) /\ Len(h) = top
  BY <1>5, <1>10, FunctionIsSeq
<1> QED BY <1>1, <1>4, <1>5, <1>8, <1>11 DEF WentBack

LEMMA WentBackLists ==
  ASSUME Lists, NEW n, WentBack(n)
  PROVE  /\ Lists' /\ DOMAIN history = 1 .. Len(history) /\ DOMAIN history' = 1 .. Len(history')
         /\ \A k \in 1 .. Len(history') : k \in DOMAIN history
<1>1. /\ history \in Seq(Versions) /\ history' \in Seq(Versions)
      /\ Len(history) \in Nat /\ Len(history') \in n .. Len(history)
  BY DEF Lists, TypeOK, WentBack
<1>2. DOMAIN history = 1 .. Len(history) /\ DOMAIN history' = 1 .. Len(history')
  BY <1>1, ElementsOf
<1>3. \A k \in 1 .. Len(history') : k \in DOMAIN history
  BY <1>1, <1>2
<1>4. OneEntryPerPath'
  <2>1. PICK h : h = history'
    OBVIOUS
  <2>2. ASSUME NEW k \in 1 .. Len(h) PROVE Once(h[k].manifest.files)
    BY <1>3, <2>1, <2>2 DEF WentBack, Remains, Lists, OneEntryPerPath
  <2> QED BY <1>2, <2>1, <2>2 DEF OneEntryPerPath
<1>5. TypeOK'
  BY <1>1 DEF Lists, TypeOK, WentBack, GoBack, Mishaps
<1> QED BY <1>2, <1>3, <1>4, <1>5 DEF Lists

LEMMA CheckoutLists ==
  ASSUME Lists, NEW c \in Clients, checkout(c)
  PROVE  Lists'
<1>1. Latest.manifest \in Manifests /\ commit[c] \in CommitTexts /\ pending \subseteq CommitTexts
  BY LatestIn DEF checkout, Lists, TypeOK
<1>2. PICK w \in Manifests : manifest' = [manifest EXCEPT ![c] = w]
  <2>1. PICK w : /\ w = Latest.manifest \/ w \in CutManifest(Latest.manifest)
                 /\ manifest' = [manifest EXCEPT ![c] = w]
    BY DEF checkout
  <2> QED BY <1>1, <2>1, CutManifests
<1>3. history' = history /\ pending' = pending /\ commit' = commit /\ mishap' \subseteq Mishaps
  BY DEF checkout, server, Lists, TypeOK
<1> QED BY <1>1, <1>2, <1>3, ListsOfClient

-----------------------------------------------------------------------------
(* commit.                                                                 *)

\* The text of a commit that goes through.
LEMMA BuiltText ==
  ASSUME NEW m \in Manifests, NEW s \in Manifests, Once(s.files), m.version < MaxVersion,
         Readable(s), VersionsMatch(m, s),
         NEW live \in [Listed(m.files) -> Contents \cup {Absent}],
         NEW text, text = [version |-> m.version + 1, files |-> buildCommit(m.files, s.files, live).files]
  PROVE  text \in CommitTexts /\ MadeFor(text, s)
<1>1. /\ m.files \in Seq(Entries) /\ s.files \in Seq(Entries)
      /\ m.version \in -2 .. MaxVersion /\ s.version \in -2 .. MaxVersion
  BY ManifestsHave
<1>2. PICK files : files = buildCommit(m.files, s.files, live).files
  OBVIOUS
<1>3. \A p \in Listed(m.files) : live[p] \in Contents \cup {Absent}
  OBVIOUS
<1>4. files \in Seq(Changes) /\ Listed(s.files) \subseteq Listed(files) /\ FirstChanges(files, s.files)
  BY <1>1, <1>2, <1>3, CommitChanges
<1>5. m.version + 1 \in -2 .. MaxVersion
  BY <1>1, Bounds
<1>6. text \in CommitTexts /\ text.files = files /\ text.version = m.version + 1
  BY <1>2, <1>4, <1>5, TextsAre
<1>7. text.version = 1 + (IF s.files = <<>> THEN 0 ELSE s.version)
  BY <1>1, <1>6 DEF VersionsMatch
<1>8. MadeFor(text, s)
  BY <1>4, <1>6, <1>7 DEF MadeFor, FirstChanges
<1> QED BY <1>6, <1>8

\* A commit may make a text pending; a readable one was made for the latest version, or
\* is only the first lines of such a one.
Committed ==
  /\ UNCHANGED <<history, manifest>> /\ history # <<>>
  /\ mishap \subseteq mishap' /\ mishap' \subseteq mishap \cup {"cut"}
  /\ \/ pending' = pending
     \/ \E t \in CommitTexts :
          /\ pending' = pending \cup {t}
          /\ \/ ~ Readable(t) \/ "cut" \in mishap'
             \/ Readable(Latest.manifest) /\ MadeFor(t, Latest.manifest)

LEMMA DoCommitLists ==
  ASSUME Lists, NEW c \in Clients, doCommitClient(c)
  PROVE  Lists' /\ Committed
<1>1. history # <<>> /\ manifest[c].version < MaxVersion /\ UNCHANGED <<history, manifest>>
  BY DEF doCommitClient
<1>2. /\ manifest[c] \in Manifests /\ Latest.manifest \in Manifests
      /\ Once(Latest.manifest.files) /\ pending \subseteq CommitTexts /\ mishap \subseteq Mishaps
  BY <1>1, LatestIn DEF Lists, TypeOK
<1>3. CASE UnreadableCommit(c)
  <2>1. pending' = pending /\ mishap' = mishap /\ commit' = [commit EXCEPT ![c] = TornText]
    BY <1>3 DEF UnreadableCommit, Save
  <2>2. Lists'
    BY <1>1, <1>2, <2>1, FixedFiles, ListsOfClient
  <2> QED BY <1>1, <2>1, <2>2 DEF Committed
<1>4. ASSUME NEW live \in [Listed(manifest[c].files) -> Contents \cup {Absent}],
             OutdatedCommit(c, live)
      PROVE  Lists' /\ Committed
  <2>1. pending' = pending /\ mishap' = mishap /\ commit' = [commit EXCEPT ![c] = NoText]
    BY <1>4 DEF OutdatedCommit, Save
  <2>2. Lists'
    BY <1>1, <1>2, <2>1, FixedFiles, ListsOfClient
  <2> QED BY <1>1, <2>1, <2>2 DEF Committed
<1>5. ASSUME NEW live \in [Listed(manifest[c].files) -> Contents \cup {Absent}],
             SendCommit(c, live)
      PROVE  Lists' /\ Committed
  <2> DEFINE m == manifest[c]
             s == Latest.manifest
  <2>1. PICK text : text = [version |-> m.version + 1, files |-> buildCommit(m.files, s.files, live).files]
    OBVIOUS
  <2>2. /\ Readable(s) /\ VersionsMatch(m, s)
        /\ \/ /\ Save(c, text)
              /\ \E arrived \in {text} \cup CutText(text) :
                   /\ pending' = pending \cup {arrived}
                   /\ mishap' = mishap \cup (IF arrived # text /\ Readable(arrived) THEN {"cut"} ELSE {})
           \/ /\ \E saved \in {text} \cup CutText(text) : Save(c, saved)
              /\ UNCHANGED <<pending, mishap>>
    BY <1>5, <2>1 DEF SendCommit
  <2>3. text \in CommitTexts /\ MadeFor(text, s)
    BY <1>1, <1>2, <2>1, <2>2, BuiltText
  <2>4. CASE /\ Save(c, text)
             /\ \E arrived \in {text} \cup CutText(text) :
                  /\ pending' = pending \cup {arrived}
                  /\ mishap' = mishap \cup (IF arrived # text /\ Readable(arrived) THEN {"cut"} ELSE {})
    <3>1. PICK arrived \in {text} \cup CutText(text) :
                  /\ pending' = pending \cup {arrived}
                  /\ mishap' = mishap \cup (IF arrived # text /\ Readable(arrived) THEN {"cut"} ELSE {})
      BY <2>4
    <3>2. arrived \in CommitTexts /\ commit' = [commit EXCEPT ![c] = text]
      BY <2>3, <2>4, <3>1, CutTexts DEF Save
    <3>3. ~ Readable(arrived) \/ "cut" \in mishap' \/ (Readable(s) /\ MadeFor(arrived, s))
      BY <2>2, <2>3, <3>1
    <3>4. mishap \subseteq mishap' /\ mishap' \subseteq mishap \cup {"cut"}
      BY <3>1
    <3>5. pending' \subseteq CommitTexts /\ mishap' \subseteq Mishaps
      BY <1>2, <3>1, <3>2, <3>4 DEF Mishaps
    <3>6. Lists'
      BY <1>1, <1>2, <2>3, <3>2, <3>5, ListsOfClient
    <3> QED BY <1>1, <3>1, <3>2, <3>3, <3>4, <3>6 DEF Committed
  <2>5. CASE /\ \E saved \in {text} \cup CutText(text) : Save(c, saved)
             /\ UNCHANGED <<pending, mishap>>
    <3>1. PICK saved \in CommitTexts : commit' = [commit EXCEPT ![c] = saved]
      <4>1. PICK saved \in {text} \cup CutText(text) : Save(c, saved)
        BY <2>5
      <4> QED BY <2>3, <4>1, CutTexts DEF Save
    <3>2. Lists'
      BY <1>1, <1>2, <2>5, <3>1, ListsOfClient
    <3> QED BY <1>1, <2>5, <3>2 DEF Committed
  <2> QED BY <2>2, <2>4, <2>5
<1> QED BY <1>3, <1>4, <1>5 DEF doCommitClient

-----------------------------------------------------------------------------
(* push.                                                                   *)

\* The files of an acknowledged version: those of the one before, and what the client
\* has sent for each change, unless it arrived garbled.
Complete(files, base, text) ==
  "garbled" \in mishap' \/
  \E gone \in SUBSET Listed(text.files), sent \in [Sent(text) -> Contents] :
    /\ files = Received(base, gone, sent)
    /\ "edited" \in mishap' \/ \A i \in DOMAIN text.files :
         text.files[i].path \in DOMAIN sent => sent[text.files[i].path] = text.files[i].hash

\* Version v lists nothing but lines of the version before, or nothing but lines that
\* the text makes of them; all of these if it is acknowledged.
MadeOf(text, v) ==
  \/ ~ v.acked /\ ToSet(v.manifest.files) \subseteq ToSet(Latest.manifest.files)
  \/ /\ Readable(text) /\ Readable(Latest.manifest)
     /\ \E w \in Manifests :
          /\ Published(w, Latest.manifest, text)
          /\ ToSet(v.manifest.files) \subseteq ToSet(w.files)
          /\ v.acked => v.manifest = w /\ Finishes(text) /\ Complete(v.files, Latest, text)

\* The version v that the push of a text makes.
PushOf(text, v) ==
  /\ history # <<>> /\ history' = Append(history, v) /\ pending' = {}
  /\ v \in Versions /\ Once(v.manifest.files) /\ text \in CommitTexts
  /\ mishap \subseteq mishap' /\ mishap' \subseteq Mishaps
  /\ text \in pending \/ "mismatch" \in mishap'
  /\ Once(text.files) \/ "repeated" \in mishap'
  /\ MadeOf(text, v)

LEMMA PushCauses ==
  ASSUME mishap \subseteq Mishaps, NEW text, NEW sent, NEW others, others \subseteq Mishaps,
         mishap' = mishap \cup (Causes(text, sent) \cup others)
  PROVE  /\ mishap \subseteq mishap' /\ mishap' \subseteq Mishaps /\ others \subseteq mishap'
         /\ text \in pending \/ "mismatch" \in mishap'
         /\ Once(text.files) \/ "repeated" \in mishap'
         /\ "edited" \in mishap' \/ \A i \in DOMAIN text.files :
              text.files[i].path \in DOMAIN sent => sent[text.files[i].path] = text.files[i].hash
BY DEF Causes, Mishaps

LEMMA ReceivedFiles ==
  ASSUME NEW base, base.files \in [Paths -> Contents \cup {Absent}], NEW gone,
         NEW some, NEW sent \in [some -> Contents]
  PROVE  Received(base, gone, sent) \in [Paths -> Contents \cup {Absent}]
BY DEF Received

\* Without files from the client.
LEMMA NothingReceived ==
  ASSUME NEW base, base.files \in [Paths -> Contents \cup {Absent}], NEW gone
  PROVE  Received(base, gone, <<>>) \in [Paths -> Contents \cup {Absent}]
<1>1. DOMAIN <<>> = {}
  OBVIOUS
<1> QED BY <1>1 DEF Received

LEMMA CopiedVersion ==
  ASSUME NEW base \in Versions, Once(base.manifest.files), NEW v \in CopyOf(base)
  PROVE  /\ v \in Versions /\ ~ v.acked /\ Once(v.manifest.files)
         /\ ToSet(v.manifest.files) \subseteq ToSet(base.manifest.files)
<1>1. base.manifest \in Manifests /\ base.files \in [Paths -> Contents \cup {Absent}]
  BY DEF Versions
<1>2. CASE v = Unlisted
  <2>1. v.manifest = NoManifest /\ v = Version(NoManifest, NoFiles, FALSE)
    BY <1>2 DEF Unlisted, Version
  <2>2. ToSet(NoManifest.files) = {}
    BY DEF NoManifest, ToSet
  <2> QED BY <2>1, <2>2, FixedFiles DEF Version, Versions
<1>3. CASE v # Unlisted
  <2>1. PICK w, some :
          /\ w = base.manifest \/ \E k \in 0 .. Len(base.manifest.files) - 1 : w = FirstLines(base.manifest, k)
          /\ v = PartOf(base, w, some)
    BY <1>3 DEF CopyOf, PartsOf
  <2>2. PICK m : m = base.manifest
    OBVIOUS
  <2>3. w \in Manifests /\ ToSet(w.files) \subseteq ToSet(m.files) /\ Once(w.files)
    BY <1>1, <2>1, <2>2, CutManifests
  <2>4. PICK f : f = [p \in Paths |-> IF p \in some THEN base.files[p] ELSE Absent]
    OBVIOUS
  <2>5. f \in [Paths -> Contents \cup {Absent}]
    BY <1>1, <2>4
  <2>6. v = Version(w, f, FALSE)
    BY <2>1, <2>4 DEF PartOf
  <2> QED BY <2>2, <2>3, <2>5, <2>6 DEF Version, Versions
<1> QED BY <1>2, <1>3

\* The new manifest of a push.
LEMMA AppliedManifest ==
  ASSUME Lists, history # <<>>, NEW text \in CommitTexts, Applicable(text),
         NEW new, new = updateManifest(readManifest(Latest.manifest), text), new.list # <<>>,
         NEW w, w = writeManifest(new.list)
  PROVE  /\ Readable(text) /\ Readable(Latest.manifest)
         /\ w \in Manifests /\ Published(w, Latest.manifest, text)
         /\ new.freed \subseteq Listed(text.files)
<1> DEFINE m == Latest.manifest
<1>1. m \in Manifests /\ Once(m.files)
  BY LatestIn
<1>2. /\ m.files \in Seq(Entries) /\ m.version \in Int /\ m.version \in -2 .. MaxVersion
      /\ text.files \in Seq(Changes) /\ text.version \in Int /\ text.version \in -2 .. MaxVersion
  BY <1>1, ManifestsHave, TextsHave
<1> HIDE DEF m
<1>3. Published(w, m, text)
  BY <1>1, <1>2, UpdatedManifest DEF m
<1>4. Readable(text) /\ Readable(m)
  BY DEF Applicable, m
<1>5. w \in Manifests
  <2>1. /\ w = [version |-> w.version, files |-> w.files]
        /\ w.files \in Seq(Entries) /\ w.version \in {m.version, text.version}
    BY <1>3 DEF Published
  <2>2. w.version \in -2 .. MaxVersion
    BY <1>2, <2>1
  <2>3. PICK v, f : v = w.version /\ f = w.files
    OBVIOUS
  <2> QED BY <2>1, <2>2, <2>3, ManifestsAre
<1>6. new.freed \subseteq Listed(text.files)
  <2>1. readManifest(m) \in Seq(Nodes) /\ Once(readManifest(m))
    BY <1>1, <1>2, ReadManifestNodes
  <2> QED BY <1>2, <2>1, UpdateManifestElements DEF m
<1> QED BY <1>3, <1>4, <1>5, <1>6 DEF m

\* The version a push makes that applies the text.
LEMMA AppliedPush ==
  ASSUME Lists, history # <<>>, NEW text \in CommitTexts, pending' = {}, Applicable(text),
         NEW w \in Manifests, Published(w, Latest.manifest, text),
         NEW part, part = w \/ part \in CutManifest(w),
         NEW files \in [Paths -> Contents \cup {Absent}], NEW acked \in BOOLEAN,
         acked => part = w /\ Finishes(text) /\ Complete(files, Latest, text),
         NEW sent, NEW others, others \subseteq Mishaps,
         mishap' = mishap \cup (Causes(text, sent) \cup others),
         NEW v, v = Version(part, files, acked), history' = Append(history, v)
  PROVE  PushOf(text, v)
<1>1. mishap \subseteq Mishaps
  BY DEF Lists, TypeOK
<1>2. /\ mishap \subseteq mishap' /\ mishap' \subseteq Mishaps
      /\ text \in pending \/ "mismatch" \in mishap'
      /\ Once(text.files) \/ "repeated" \in mishap'
  BY <1>1, PushCauses
<1>3. Once(w.files)
  BY DEF Published
<1>4. part \in Manifests /\ Once(part.files) /\ ToSet(part.files) \subseteq ToSet(w.files)
  BY <1>3, CutManifests
<1>5. v \in Versions /\ v.manifest = part /\ v.files = files /\ v.acked = acked
  BY <1>4 DEF Version, Versions
<1>6. Readable(text) /\ Readable(Latest.manifest)
  BY DEF Applicable
<1>7. MadeOf(text, v)
  BY <1>4, <1>5, <1>6 DEF MadeOf
<1> QED BY <1>2, <1>4, <1>5, <1>7 DEF PushOf

LEMMA StoppedMakes ==
  ASSUME Lists, history # <<>>, pending' = {}, NEW text \in CommitTexts, PushStops(text)
  PROVE  \E v : PushOf(text, v)
<1> DEFINE new == updateManifest(readManifest(Latest.manifest), text)
           m == writeManifest(new.list)
<1>1. /\ Latest \in Versions /\ Once(Latest.manifest.files) /\ mishap \subseteq Mishaps
      /\ Latest.files \in [Paths -> Contents \cup {Absent}]
  BY LatestIn DEF Lists, TypeOK
<1>2. PICK none : none = <<>>
  OBVIOUS
<1>3. ASSUME NEW v \in CopyOf(Latest), Publish(v, Causes(text, <<>>))
      PROVE  PushOf(text, v)
  <2>1. mishap' = mishap \cup (Causes(text, none) \cup {})
    BY <1>2, <1>3 DEF Publish
  <2>2. /\ mishap \subseteq mishap' /\ mishap' \subseteq Mishaps
        /\ text \in pending \/ "mismatch" \in mishap'
        /\ Once(text.files) \/ "repeated" \in mishap'
    BY <1>1, <2>1, PushCauses
  <2>3. /\ v \in Versions /\ ~ v.acked /\ Once(v.manifest.files)
        /\ ToSet(v.manifest.files) \subseteq ToSet(Latest.manifest.files)
    BY <1>1, <1>3, CopiedVersion
  <2> QED BY <1>3, <2>2, <2>3 DEF PushOf, MadeOf, Publish
<1>4. ASSUME Applicable(text), new.list # <<>>,
             NEW part, part = m \/ part \in CutManifest(m),
             NEW files \in [Paths -> Contents \cup {Absent}],
             NEW v, v = Version(part, files, FALSE), Publish(v, Causes(text, <<>>))
      PROVE  PushOf(text, v)
  <2>1. m \in Manifests /\ Published(m, Latest.manifest, text)
    BY <1>4, AppliedManifest
  <2> HIDE DEF m
  <2>2. mishap' = mishap \cup (Causes(text, none) \cup {}) /\ history' = Append(history, v)
    BY <1>2, <1>4 DEF Publish
  <2>3. PICK acked, others : acked = FALSE /\ others = {}
    OBVIOUS
  <2>4. acked \in BOOLEAN /\ ~ acked /\ others \subseteq Mishaps /\ v = Version(part, files, acked)
        /\ mishap' = mishap \cup (Causes(text, none) \cup others)
    BY <1>4, <2>2, <2>3
  <2> QED BY <1>4, <2>1, <2>2, <2>4, AppliedPush
<1>5. CASE \E v \in CopyOf(Latest) : Publish(v, Causes(text, <<>>))
  BY <1>3, <1>5
<1>6. ASSUME Applicable(text), new.list # <<>>,
             NEW part \in {m} \cup CutManifest(m), NEW gone \in SUBSET new.freed,
             Publish(Version(part, Received(Latest, gone, <<>>), FALSE), Causes(text, <<>>))
      PROVE  \E v : PushOf(text, v)
  <2>1. PICK files, v : files = Received(Latest, gone, <<>>) /\ v = Version(part, files, FALSE)
    OBVIOUS
  <2>2. files \in [Paths -> Contents \cup {Absent}]
    BY <1>1, <2>1, NothingReceived
  <2> HIDE DEF m, new
  <2>3. part = m \/ part \in CutManifest(m)
    BY <1>6
  <2>4. Publish(v, Causes(text, <<>>))
    BY <1>6, <2>1
  <2> QED BY <1>4, <1>6, <2>1, <2>2, <2>3, <2>4
<1>7. ASSUME Applicable(text), new.list # <<>>,
             NEW files \in [Paths -> Contents \cup {Absent}],
             Publish(Version(m, files, FALSE), Causes(text, <<>>))
      PROVE  \E v : PushOf(text, v)
  <2>1. PICK v : v = Version(m, files, FALSE)
    OBVIOUS
  <2> HIDE DEF m, new
  <2> QED BY <1>4, <1>7, <2>1
<1> QED BY <1>5, <1>6, <1>7 DEF PushStops

LEMMA SucceededMakes ==
  ASSUME Lists, history # <<>>, pending' = {}, NEW c \in Clients, PushSucceeds(c)
  PROVE  \E v : PushOf(commit[c], v)
<1> DEFINE new == updateManifest(readManifest(Latest.manifest), commit[c])
           m == writeManifest(new.list)
<1>1. PICK text : text = commit[c]
  OBVIOUS
<1>2. /\ text \in CommitTexts /\ Latest.files \in [Paths -> Contents \cup {Absent}]
      /\ Applicable(text) /\ Finishes(text) /\ new.list # <<>>
      /\ PushArrives(text, m, new.freed)
  BY <1>1, LatestIn DEF Lists, TypeOK, PushSucceeds
<1>3. m \in Manifests /\ Published(m, Latest.manifest, text) /\ new.freed \subseteq Listed(text.files)
  BY <1>1, <1>2, AppliedManifest
<1> HIDE DEF m, new
<1>4. CASE \E gone \in SUBSET new.freed, sent \in [Sent(text) -> Contents] :
             Publish(Version(m, Received(Latest, gone, sent), TRUE), Causes(text, sent))
  <2>1. PICK gone \in SUBSET new.freed, sent \in [Sent(text) -> Contents] :
             Publish(Version(m, Received(Latest, gone, sent), TRUE), Causes(text, sent))
    BY <1>4
  <2>2. PICK files, v, acked : /\ files = Received(Latest, gone, sent) /\ acked = TRUE
                               /\ v = Version(m, files, acked)
    OBVIOUS
  <2>3. files \in [Paths -> Contents \cup {Absent}]
    BY <1>2, <2>2, ReceivedFiles
  <2>3a. PICK others : others = {}
    OBVIOUS
  <2>4. mishap' = mishap \cup (Causes(text, sent) \cup others) /\ history' = Append(history, v)
        /\ others \subseteq Mishaps /\ acked \in BOOLEAN
    BY <2>1, <2>2, <2>3a DEF Publish
  <2>5. mishap \subseteq Mishaps
    BY DEF Lists, TypeOK
  <2>6. "edited" \in mishap' \/ \A i \in DOMAIN text.files :
          text.files[i].path \in DOMAIN sent => sent[text.files[i].path] = text.files[i].hash
    BY <2>4, <2>5, PushCauses
  <2>7. Complete(files, Latest, text)
    BY <1>3, <2>1, <2>2, <2>6 DEF Complete
  <2>8. PushOf(text, v)
    BY <1>2, <1>3, <2>2, <2>3, <2>4, <2>7, AppliedPush
  <2> QED BY <1>1, <2>8
<1>5. CASE \E files \in [Paths -> Contents \cup {Absent}] :
             Publish(Version(m, files, TRUE), Causes(text, <<>>) \cup {"garbled"})
  <2>1. PICK files \in [Paths -> Contents \cup {Absent}] :
             Publish(Version(m, files, TRUE), Causes(text, <<>>) \cup {"garbled"})
    BY <1>5
  <2>2. PICK v, none, acked : none = <<>> /\ acked = TRUE /\ v = Version(m, files, acked)
    OBVIOUS
  <2>3. mishap' = mishap \cup (Causes(text, none) \cup {"garbled"}) /\ history' = Append(history, v)
    BY <2>1, <2>2 DEF Publish
  <2>4. Complete(files, Latest, text) /\ {"garbled"} \subseteq Mishaps
    BY <2>3 DEF Complete, Mishaps
  <2>5. PushOf(text, v)
    BY <1>2, <1>3, <2>2, <2>3, <2>4, AppliedPush
  <2> QED BY <1>1, <2>5
<1> QED BY <1>2, <1>4, <1>5 DEF PushArrives

LEMMA PushMakes ==
  ASSUME Lists, NEW c \in Clients, doPushClient(c)
  PROVE  \E text, v : PushOf(text, v)
<1>1. PICK text \in {commit[c]} \cup CutText(commit[c]) : Pushed(c, text) /\ pending' = {}
  BY DEF doPushClient
<1>2. text \in CommitTexts
  BY <1>1, CutTexts DEF Lists, TypeOK
<1>3. history # <<>>
  <2>1. Len(history) # 0
    BY <1>1 DEF Pushed
  <2> QED BY <2>1
<1>4. CASE text = commit[c] /\ PushSucceeds(c)
  BY <1>1, <1>3, <1>4, SucceededMakes
<1>5. CASE PushStops(text) /\ UNCHANGED <<manifest, commit>>
  BY <1>1, <1>2, <1>3, <1>5, StoppedMakes
<1> QED BY <1>1, <1>4, <1>5 DEF Pushed

\* The pusher's files after a push.
LEMMA PusherFiles ==
  ASSUME Lists, NEW c \in Clients, doPushClient(c)
  PROVE  manifest' \in [Clients -> Manifests] /\ commit' \in [Clients -> CommitTexts]
<1> DEFINE m == manifest[c]
           text == commit[c]
           list == readManifest(m)
           new == updateManifestPush(list, text)
           mine == writeManifest(new)
<1>1. /\ m \in Manifests /\ text \in CommitTexts
      /\ manifest \in [Clients -> Manifests] /\ commit \in [Clients -> CommitTexts]
  BY DEF Lists, TypeOK
<1>2. mine \in Manifests
  <2>1. /\ m.files \in Seq(Entries) /\ m.version \in Int /\ m.version \in -2 .. MaxVersion
        /\ text.files \in Seq(Changes) /\ text.version \in Int /\ text.version \in -2 .. MaxVersion
    BY <1>1, ManifestsHave, TextsHave
  <2> HIDE DEF m, text
  <2>2. /\ list \in Seq(Nodes) /\ Len(list) = Len(m.files)
        /\ \A i \in 1 .. Len(list) : list[i] = Node(m.files[i], m.version)
    BY <2>1, ReadManifestNodes
  <2>3. \A e, v : Node(e, v).projectVersion = v
    BY DEF Node
  <2> HIDE DEF list
  <2>4. TakenFrom(new, list, text.version)
    BY <2>1, <2>2, UpdateManifestPushElements
  <2> HIDE DEF new
  <2>5. new \in Seq(Nodes) /\ \A i \in 1 .. Len(new) : new[i].projectVersion \in {m.version, text.version}
    BY <2>2, <2>3, <2>4 DEF TakenFrom
  <2>6. {m.version, text.version} \subseteq -2 .. MaxVersion
    BY <2>1
  <2> QED BY <2>5, <2>6, WrittenManifest
<1> HIDE DEF mine
<1>3. ASSUME NEW w, w = m \/ w = mine \/ w \in CutManifest(mine),
             manifest' = [manifest EXCEPT ![c] = w], commit' = commit \/ Save(c, NoText)
      PROVE  manifest' \in [Clients -> Manifests] /\ commit' \in [Clients -> CommitTexts]
  <2>1. w \in Manifests
    BY <1>1, <1>2, <1>3, CutManifests
  <2> QED BY <1>1, <1>3, <2>1, FixedFiles DEF Save
<1>4. CASE UNCHANGED <<manifest, commit>>
  BY <1>1, <1>4
<1>5. CASE PushSucceeds(c)
  <2>1. \/ manifest' = [manifest EXCEPT ![c] = mine] /\ Save(c, NoText)
        \/ /\ \E w \in {m, mine} \cup CutManifest(mine) : manifest' = [manifest EXCEPT ![c] = w]
           /\ commit' = commit
    BY <1>5 DEF PushSucceeds, mine
  <2> QED BY <1>3, <2>1
<1>6. PushSucceeds(c) \/ UNCHANGED <<manifest, commit>>
  BY DEF doPushClient, Pushed
<1> QED BY <1>4, <1>5, <1>6

LEMMA DoPushLists ==
  ASSUME Lists, NEW c \in Clients, doPushClient(c)
  PROVE  Lists'
<1>1. PICK text, v : PushOf(text, v)
  BY PushMakes
<1>2. PICK h : h = Append(history, v)
  OBVIOUS
<1>3. history \in Seq(Versions) /\ v \in Versions /\ history' = h
  BY <1>1, <1>2 DEF Lists, TypeOK, PushOf
<1>4. /\ h \in Seq(Versions) /\ Len(h) = Len(history) + 1 /\ h[Len(history) + 1] = v
      /\ \A k \in 1 .. Len(history) : h[k] = history[k]
  BY <1>2, <1>3, AppendProperties
<1>5. /\ DOMAIN h = 1 .. Len(history) + 1 /\ DOMAIN history = 1 .. Len(history)
      /\ Len(history) \in Nat
  BY <1>3, <1>4, ElementsOf
<1>6. OneEntryPerPath'
  <2>1. Once(v.manifest.files) /\ \A k \in 1 .. Len(history) : Once(history[k].manifest.files)
    BY <1>1, <1>5 DEF PushOf, Lists, OneEntryPerPath
  <2>2. \A k \in DOMAIN h : k \in 1 .. Len(history) \/ k = Len(history) + 1
    BY <1>5
  <2>3. \A k \in DOMAIN h : Once(h[k].manifest.files)
    BY <1>4, <2>1, <2>2
  <2> QED BY <1>3, <2>3 DEF OneEntryPerPath
<1>7. pending' = {} /\ mishap' \subseteq Mishaps
  BY <1>1 DEF PushOf
<1>8. TypeOK'
  BY <1>3, <1>4, <1>7, PusherFiles DEF TypeOK, Mishaps
<1> QED BY <1>6, <1>8 DEF Lists

-----------------------------------------------------------------------------
(* The server's versions.                                                  *)

\* Before the project exists there is nothing to commit to.
NothingPending == history = <<>> => pending = {}

\* A push that was acknowledged has published some file.
AcknowledgedLists ==
  \A n \in DOMAIN history : history[n].acked /\ n > 1 => history[n].manifest.files # <<>>

\* The inductive invariant. PendingForLatest is what carries the rest: the version that a
\* push publishes is known from what its text says of the version before.
ClientInv ==
  /\ Lists /\ NothingPending /\ PendingForLatest
  /\ AcknowledgedIsWhole /\ AcknowledgedLists /\ LineIsNumber

LEMMA InitClientInv == Init => ClientInv
BY InitLists DEF Init, ClientInv, NothingPending, PendingForLatest,
  AcknowledgedIsWhole, AcknowledgedLists, LineIsNumber

LEMMA CalmBefore ==
  ASSUME mishap \subseteq mishap', NEW causes, Calm(causes)'
  PROVE  Calm(causes)
BY DEF Calm

\* A push of a text that was made for the latest version.
LEMMA PushedForLatest ==
  ASSUME ClientInv, NEW text, NEW v, PushOf(text, v), Calm(Astray)',
         Readable(text), Readable(Latest.manifest)
  PROVE  /\ Calm(Astray) /\ text \in pending /\ text \in CommitTexts
         /\ MadeFor(text, Latest.manifest)
<1>1. Calm(Astray)
  BY CalmBefore DEF PushOf
<1>2. text \in pending
  BY DEF PushOf, Calm, Astray
<1>3. text \in CommitTexts
  BY <1>2 DEF ClientInv, Lists, TypeOK
<1>4. MadeFor(text, Latest.manifest)
  BY <1>1, <1>2 DEF ClientInv, PendingForLatest, PushOf
<1> QED BY <1>1, <1>2, <1>3, <1>4

\* What it publishes: every line is one of the text's, and so is the version.
LEMMA PublishedForLatest ==
  ASSUME ClientInv, NEW text, NEW v, PushOf(text, v), Calm(Astray)', v.acked
  PROVE  /\ text \in CommitTexts /\ Finishes(text) /\ Complete(v.files, Latest, text)
         /\ v.manifest.files # <<>>
         /\ v.manifest.version =
              1 + (IF Latest.manifest.files = <<>> THEN 0 ELSE Latest.manifest.version)
         /\ \A e \in ToSet(v.manifest.files) : \E i \in DOMAIN text.files : e = Line(text.files[i])
<1>1. /\ Readable(text) /\ Readable(Latest.manifest)
      /\ Published(v.manifest, Latest.manifest, text)
      /\ Finishes(text) /\ Complete(v.files, Latest, text) /\ history # <<>>
  BY DEF PushOf, MadeOf
<1>2. text \in CommitTexts /\ MadeFor(text, Latest.manifest)
  BY <1>1, PushedForLatest
<1>3. /\ Listed(Latest.manifest.files) \subseteq Listed(text.files)
      /\ text.version = 1 + (IF Latest.manifest.files = <<>> THEN 0 ELSE Latest.manifest.version)
  BY <1>2 DEF MadeFor
<1>4. v.manifest.version = text.version /\ Len(v.manifest.files) # 0
  BY <1>1, <1>3 DEF Published
<1>5. ASSUME NEW e \in ToSet(v.manifest.files)
      PROVE  \E i \in DOMAIN text.files : e = Line(text.files[i])
  <2>1. e \in ToSet(Latest.manifest.files) => e.path \in Listed(Latest.manifest.files)
    BY DEF ToSet, Listed
  <2> QED BY <1>1, <1>3, <2>1 DEF Published
<1>6. v.manifest.files # <<>>
  BY <1>4
<1> QED BY <1>1, <1>2, <1>3, <1>4, <1>5, <1>6

\* Its files have the contents that it lists, if none was edited since the commit.
LEMMA PublishedIsWhole ==
  ASSUME ClientInv, NEW text, NEW v, PushOf(text, v), v.acked,
         Calm(Astray \cup {"edited", "garbled"})'
  PROVE  \A i \in DOMAIN v.manifest.files :
           v.files[v.manifest.files[i].path] = v.manifest.files[i].hash
<1>1. Calm(Astray)' /\ "edited" \notin mishap' /\ "garbled" \notin mishap'
  BY DEF Calm
<1>2. /\ text \in CommitTexts /\ Finishes(text) /\ Complete(v.files, Latest, text)
      /\ \A e \in ToSet(v.manifest.files) : \E i \in DOMAIN text.files : e = Line(text.files[i])
  BY <1>1, PublishedForLatest
<1>3. PICK gone \in SUBSET Listed(text.files), sent \in [Sent(text) -> Contents] :
        /\ v.files = Received(Latest, gone, sent)
        /\ \A i \in DOMAIN text.files :
             text.files[i].path \in DOMAIN sent => sent[text.files[i].path] = text.files[i].hash
  BY <1>1, <1>2 DEF Complete
<1>4. /\ DOMAIN text.files = 1 .. Len(text.files) /\ Len(text.files) \in Nat
      /\ \A i \in DOMAIN text.files : text.files[i] \in Changes
  BY <1>2, TextsHave, ElementsOf
<1>5. ASSUME NEW i \in DOMAIN text.files
      PROVE  text.files[i].path \in Sent(text) /\ text.files[i].path \in Paths
  <2>1. \A k \in 1 .. i : k \in DOMAIN text.files
    BY <1>4
  <2>2. \A k \in 1 .. i : text.files[k].op # "D"
    BY <1>2, <2>1 DEF Finishes
  <2>3. text.files[i].path \in Sent(text)
    BY <2>2 DEF Sent
  <2>4. text.files[i].path \in Paths
    BY <1>4 DEF Changes
  <2> QED BY <2>3, <2>4
<1>6. ASSUME NEW e \in ToSet(v.manifest.files) PROVE v.files[e.path] = e.hash
  <2>1. PICK i \in DOMAIN text.files : e = Line(text.files[i])
    BY <1>2
  <2>2. e.path = text.files[i].path /\ e.hash = text.files[i].hash
    BY <2>1 DEF Line
  <2>3. sent[e.path] = e.hash
    BY <1>3, <1>5, <2>2
  <2>4. v.files[e.path] = sent[e.path]
    BY <1>3, <1>5, <2>2 DEF Received
  <2> QED BY <2>3, <2>4
<1> QED BY <1>6 DEF ToSet

LEMMA DoPushInv ==
  ASSUME ClientInv, NEW c \in Clients, doPushClient(c)
  PROVE  ClientInv'
<1>1. PICK text, v : PushOf(text, v)
  BY PushMakes DEF ClientInv
<1>3. PICK n : n = Len(history)
  OBVIOUS
<1>4. Lists' /\ pending' = {} /\ PushOf(text, v)
  BY <1>1, DoPushLists DEF ClientInv, PushOf
<1>5. PICK h : h = Append(history, v)
  OBVIOUS
<1>6. /\ history' = h /\ n \in Nat \ {0} /\ DOMAIN history = 1 .. n /\ DOMAIN h = 1 .. n + 1
      /\ h[n + 1] = v /\ (\A k \in 1 .. n : h[k] = history[k]) /\ Latest = history[n]
  <2>1. history # <<>> /\ v \in Versions /\ history' = h
    BY <1>4, <1>5 DEF PushOf
  <2>2. /\ n \in Nat \ {0} /\ DOMAIN history = 1 .. n /\ Latest = history[n]
        /\ history \in Seq(Versions)
    BY <1>3, <2>1, LatestIn DEF ClientInv, Lists, TypeOK
  <2>3. /\ h \in Seq(Versions) /\ Len(h) = n + 1 /\ h[n + 1] = v
        /\ \A k \in 1 .. n : h[k] = history[k]
    BY <1>3, <1>5, <2>1, <2>2, AppendProperties
  <2> QED BY <2>1, <2>2, <2>3, ElementsOf
<1>7. \A k \in 1 .. n + 1 : k \in 1 .. n \/ k = n + 1
  BY <1>6
<1>8. NothingPending' /\ PendingForLatest'
  BY <1>4 DEF NothingPending, PendingForLatest
<1>9. AcknowledgedIsWhole'
  <2> SUFFICES ASSUME Calm(Astray \cup {"edited", "garbled"})', NEW k \in 1 .. n + 1, h[k].acked
               PROVE  \A i \in DOMAIN h[k].manifest.files :
                        h[k].files[h[k].manifest.files[i].path] = h[k].manifest.files[i].hash
    BY <1>6 DEF AcknowledgedIsWhole
  <2>1. CASE k = n + 1
    <3>1. h[k] = v /\ v.acked
      BY <1>6, <2>1
    <3>2. \A i \in DOMAIN v.manifest.files :
            v.files[v.manifest.files[i].path] = v.manifest.files[i].hash
      BY <1>4, <3>1, PublishedIsWhole
    <3> QED BY <3>1, <3>2
  <2>2. CASE k \in 1 .. n
    <3>1. Calm(Astray \cup {"edited", "garbled"})
      BY <1>4, CalmBefore DEF PushOf
    <3>2. h[k] = history[k] /\ k \in DOMAIN history
      BY <1>6, <2>2
    <3> QED BY <3>1, <3>2 DEF ClientInv, AcknowledgedIsWhole
  <2> QED BY <1>7, <2>1, <2>2
<1>10. AcknowledgedLists'
  <2> SUFFICES ASSUME NEW k \in 1 .. n + 1, h[k].acked, k > 1
               PROVE  h[k].manifest.files # <<>>
    BY <1>6 DEF AcknowledgedLists
  <2>1. CASE k = n + 1
    <3>1. Published(v.manifest, Latest.manifest, text)
      BY <1>4, <1>6, <2>1 DEF PushOf, MadeOf
    <3>2. Len(v.manifest.files) # 0
      BY <3>1 DEF Published
    <3> QED BY <1>6, <2>1, <3>2
  <2>2. CASE k \in 1 .. n
    BY <1>6, <2>2 DEF ClientInv, AcknowledgedLists
  <2> QED BY <1>7, <2>1, <2>2
<1>11. LineIsNumber'
  <2> SUFFICES ASSUME Calm(Astray)', NEW k \in 1 .. n + 1,
                      \A j \in 1 .. k : h[j].acked
               PROVE  h[k].manifest.version = k - 1
    BY <1>6 DEF LineIsNumber
  <2>1. Calm(Astray)
    BY <1>4, CalmBefore DEF PushOf
  <2>2. ASSUME NEW j \in 1 .. n, \A i \in 1 .. j : history[i].acked
        PROVE  history[j].manifest.version = j - 1
    BY <1>6, <2>1, <2>2 DEF ClientInv, LineIsNumber
  <2>3. CASE k \in 1 .. n
    <3>1. \A j \in 1 .. k : j \in 1 .. n
      BY <1>6, <2>3
    <3> QED BY <1>6, <2>2, <2>3, <3>1
  <2>4. CASE k = n + 1
    <3>1. \A j \in 1 .. n : history[j].acked
      BY <1>6, <2>4
    <3>2. n \in 1 .. n /\ k \in 1 .. k
      BY <1>6, <2>4
    <3>3. Latest.manifest.version = n - 1 /\ Latest.acked
      BY <1>6, <2>2, <3>1, <3>2
    <3>4. n > 1 => Latest.manifest.files # <<>>
      BY <1>6, <3>2, <3>3 DEF ClientInv, AcknowledgedLists
    <3>5. v.acked
      BY <1>6, <2>4, <3>2
    <3>6. v.manifest.version =
            1 + (IF Latest.manifest.files = <<>> THEN 0 ELSE Latest.manifest.version)
      BY <1>4, <3>5, PublishedForLatest
    <3>7. v.manifest.version = n
      <4>1. CASE n = 1
        BY <3>3, <3>6, <4>1
      <4>2. CASE n > 1
        BY <1>6, <3>3, <3>4, <3>6, <4>2
      <4> QED BY <1>6, <4>1, <4>2
    <3> QED BY <1>6, <2>4, <3>7
  <2> QED BY <1>7, <2>3, <2>4
<1> QED BY <1>4, <1>8, <1>9, <1>10, <1>11 DEF ClientInv

LEMMA WentBackInv ==
  ASSUME ClientInv, NEW n, WentBack(n)
  PROVE  ClientInv'
<1>1. PICK h : h = history'
  OBVIOUS
<1>2. /\ Lists' /\ DOMAIN history = 1 .. Len(history) /\ DOMAIN h = 1 .. Len(h)
      /\ \A k \in 1 .. Len(h) : k \in DOMAIN history
  BY <1>1, WentBackLists DEF ClientInv
<1>3. /\ n \in 1 .. Len(history) - 1 /\ Len(history) \in Nat /\ Len(h) \in n .. Len(history)
      /\ \A k \in 1 .. Len(h) : h[k].acked => h[k] = history[k]
  BY <1>1 DEF WentBack, Remains
<1>4. mishap \subseteq mishap' /\ pending' = pending /\ (pending = {} \/ ~ Calm(Astray)')
  BY DEF WentBack, GoBack, Calm, Astray
<1>5. NothingPending' /\ PendingForLatest'
  <2>1. history' # <<>>
    BY <1>1, <1>3
  <2>2. NothingPending'
    BY <2>1 DEF NothingPending
  <2>3. PendingForLatest'
    BY <1>4 DEF PendingForLatest
  <2> QED BY <2>2, <2>3
<1>6. AcknowledgedIsWhole'
  <2> SUFFICES ASSUME Calm(Astray \cup {"edited", "garbled"})', NEW k \in 1 .. Len(h), h[k].acked
               PROVE  \A i \in DOMAIN h[k].manifest.files :
                        h[k].files[h[k].manifest.files[i].path] = h[k].manifest.files[i].hash
    BY <1>1, <1>2 DEF AcknowledgedIsWhole
  <2>1. Calm(Astray \cup {"edited", "garbled"})
    BY <1>4, CalmBefore
  <2>2. h[k] = history[k] /\ k \in DOMAIN history
    BY <1>2, <1>3
  <2> QED BY <2>1, <2>2 DEF ClientInv, AcknowledgedIsWhole
<1>7. AcknowledgedLists'
  BY <1>1, <1>2, <1>3 DEF ClientInv, AcknowledgedLists
<1>8. LineIsNumber'
  <2> SUFFICES ASSUME Calm(Astray)', NEW k \in 1 .. Len(h), \A j \in 1 .. k : h[j].acked
               PROVE  h[k].manifest.version = k - 1
    BY <1>1, <1>2 DEF LineIsNumber
  <2>1. Calm(Astray)
    BY <1>4, CalmBefore
  <2>2. \A j \in 1 .. k : j \in 1 .. Len(h)
    BY <1>3
  <2>3. \A j \in 1 .. k : h[j] = history[j]
    BY <1>3, <2>2
  <2>4. k \in 1 .. k
    BY <1>3
  <2>5. h[k] = history[k] /\ k \in DOMAIN history /\ \A j \in 1 .. k : history[j].acked
    BY <1>2, <2>3, <2>4
  <2> QED BY <2>1, <2>5 DEF ClientInv, LineIsNumber
<1> QED BY <1>2, <1>5, <1>6, <1>7, <1>8 DEF ClientInv

LEMMA DoCreateInv ==
  ASSUME ClientInv, NEW c \in Clients, doCreate(c)
  PROVE  ClientInv'
<1> DEFINE v == Version(FirstManifest, NoFiles, TRUE)
<1>1. PICK h : h = <<v>>
  OBVIOUS
<1>2. v.manifest.files = <<>> /\ v.manifest.version = 0
  BY DEF Version, FirstManifest
<1> HIDE DEF v
<1>3. DOMAIN h = {1} /\ h[1] = v /\ h # <<>>
  BY <1>1
<1>4. history' = h /\ pending' = pending /\ history = <<>>
  BY <1>1 DEF doCreate, v
<1>5. pending' = {}
  BY <1>4 DEF ClientInv, NothingPending
<1>6. Lists'
  BY DoCreateLists DEF ClientInv
<1>7. AcknowledgedIsWhole'
  BY <1>2, <1>3, <1>4 DEF AcknowledgedIsWhole
<1>8. AcknowledgedLists'
  BY <1>3, <1>4 DEF AcknowledgedLists
<1>9. LineIsNumber'
  BY <1>2, <1>3, <1>4 DEF LineIsNumber
<1>10. NothingPending' /\ PendingForLatest'
  BY <1>5 DEF NothingPending, PendingForLatest
<1> QED BY <1>6, <1>7, <1>8, <1>9, <1>10 DEF ClientInv

\* Steps that leave the history.
LEMMA SameHistoryInv ==
  ASSUME ClientInv, Lists', history' = history, mishap \subseteq mishap',
         NothingPending', PendingForLatest'
  PROVE  ClientInv'
<1>1. \A causes : Calm(causes)' => Calm(causes)
  BY CalmBefore
<1>2. AcknowledgedIsWhole' /\ LineIsNumber'
  BY <1>1 DEF ClientInv, AcknowledgedIsWhole, LineIsNumber
<1> QED BY <1>2 DEF ClientInv, AcknowledgedLists

LEMMA DoCommitInv ==
  ASSUME ClientInv, NEW c \in Clients, doCommitClient(c)
  PROVE  ClientInv'
<1>1. Lists' /\ Committed
  BY DoCommitLists DEF ClientInv
<1>2. history' = history /\ mishap \subseteq mishap' /\ history # <<>>
  BY <1>1 DEF Committed
<1>3. Latest' = Latest
  BY <1>2 DEF Latest
<1>4. PendingForLatest'
  <2> SUFFICES ASSUME Calm(Astray)', Readable(Latest.manifest), NEW t \in pending', Readable(t)
               PROVE  MadeFor(t, Latest.manifest)
    BY <1>2, <1>3 DEF PendingForLatest
  <2>1. Calm(Astray) /\ "cut" \notin mishap'
    BY <1>2, CalmBefore DEF Calm, Astray
  <2>2. CASE t \in pending
    BY <1>2, <2>1, <2>2 DEF ClientInv, PendingForLatest
  <2>3. CASE t \notin pending
    BY <1>1, <2>1, <2>3 DEF Committed
  <2> QED BY <2>2, <2>3
<1>5. NothingPending'
  BY <1>2 DEF NothingPending
<1> QED BY <1>1, <1>2, <1>4, <1>5, SameHistoryInv

LEMMA ClientInvStep == ClientInv /\ [Next]_vars => ClientInv'
<1> SUFFICES ASSUME ClientInv, [Next]_vars PROVE ClientInv'
  OBVIOUS
<1>0. ASSUME UNCHANGED server, mishap' = mishap, Lists' PROVE ClientInv'
  <2>1. history' = history /\ mishap \subseteq mishap' /\ Latest' = Latest
    BY <1>0 DEF server, Latest
  <2>2. NothingPending' /\ PendingForLatest'
    BY <1>0, <2>1 DEF ClientInv, NothingPending, PendingForLatest, server, Calm
  <2> QED BY <1>0, <2>1, <2>2, SameHistoryInv
<1>1. ASSUME NEW c \in Clients, NEW p \in Paths, doAdd(c, p) PROVE ClientInv'
  <2>1. Lists'
    BY <1>1, DoAddLists DEF ClientInv
  <2> QED BY <1>0, <1>1, <2>1 DEF doAdd
<1>2. ASSUME NEW c \in Clients, checkout(c) PROVE ClientInv'
  <2>1. Lists'
    BY <1>2, CheckoutLists DEF ClientInv
  <2> QED BY <1>0, <1>2, <2>1 DEF checkout
<1>3. CASE UNCHANGED vars
  <2>1. Lists'
    BY <1>3 DEF vars, server, ClientInv, Lists, TypeOK, OneEntryPerPath
  <2> QED BY <1>0, <1>3, <2>1 DEF vars
<1>4. ASSUME NEW n \in 1 .. MaxVersion, doRollback(n) \/ RollbackStops(n) PROVE ClientInv'
  <2>1. WentBack(n)
    BY <1>4, DoRollbackGoes, RollbackStopsGoes DEF ClientInv
  <2> QED BY <2>1, WentBackInv
<1> QED BY <1>1, <1>2, <1>3, <1>4, DoCreateInv, DoCommitInv, DoPushInv DEF Next, ClientCommand

\* The inductive invariant of the clients and the server.
THEOREM ClientInvariant == Spec => []ClientInv
<1>1. Init => ClientInv
  BY InitClientInv
<1>2. ClientInv /\ [Next]_vars => ClientInv'
  BY ClientInvStep
<1> QED BY <1>1, <1>2, PTL DEF Spec

\* Every variable keeps its type.
THEOREM TypeCorrect == Spec => []TypeOK
<1>1. ClientInv => TypeOK
  BY DEF ClientInv, Lists
<1> QED BY <1>1, ClientInvariant, PTL

\* No version lists a file twice, however often clients add it and whatever they commit.
THEOREM OneEntryPerPathHolds == Spec => []OneEntryPerPath
<1>1. ClientInv => OneEntryPerPath
  BY DEF ClientInv, Lists
<1> QED BY <1>1, ClientInvariant, PTL

\* Pending commits were made for the latest version.
THEOREM PendingForLatestHolds == Spec => []PendingForLatest
<1>1. ClientInv => PendingForLatest
  BY DEF ClientInv
<1> QED BY <1>1, ClientInvariant, PTL

\* An acknowledged version has its files.
THEOREM AcknowledgedIsWholeHolds == Spec => []AcknowledgedIsWhole
<1>1. ClientInv => AcknowledgedIsWhole
  BY DEF ClientInv
<1> QED BY <1>1, ClientInvariant, PTL

\* The version line is the version's number.
THEOREM LineIsNumberHolds == Spec => []LineIsNumber
<1>1. ClientInv => LineIsNumber
  BY DEF ClientInv
<1> QED BY <1>1, ClientInvariant, PTL
-----------------------------------------------------------------------------
(* The versions as users see them: a step of the program is a step of the  *)
(* repository that VersionedRepository describes, or changes no version.   *)

\* The files of a version, and of all versions.
Seen(v) == ToSet(v.manifest.files)
SeenVersions(h) == [n \in DOMAIN h |-> Seen(h[n])]

LEMMA SeenSequence ==
  ASSUME NEW h \in Seq(Versions)
  PROVE  /\ SeenVersions(h) \in Seq(SUBSET Entries) /\ Len(SeenVersions(h)) = Len(h)
         /\ \A k \in 1 .. Len(h) : SeenVersions(h)[k] = Seen(h[k])
<1>1. DOMAIN h = 1 .. Len(h) /\ Len(h) \in Nat /\ \A k \in 1 .. Len(h) : h[k] \in Versions
  BY ElementsOf
<1>2. \A k \in 1 .. Len(h) : Seen(h[k]) \in SUBSET Entries
  BY <1>1, ElementsOf DEF Seen, Versions, Manifests
<1>3. SeenVersions(h) \in [1 .. Len(h) -> SUBSET Entries]
  BY <1>1, <1>2 DEF SeenVersions
<1>4. \A k \in 1 .. Len(h) : SeenVersions(h)[k] = Seen(h[k])
  BY <1>1 DEF SeenVersions
<1> QED BY <1>1, <1>3, <1>4, FunctionIsSeq

\* Sequences that agree as far as the shorter one goes.
LEMMA PrefixOf ==
  ASSUME NEW S, NEW s \in Seq(S), NEW t \in Seq(S), Len(s) <= Len(t),
         \A k \in 1 .. Len(s) : s[k] = t[k]
  PROVE  IsPrefix(s, t) /\ Repository!IsPrefix(s, t)
<1>1. Len(s) \in Nat /\ Len(t) \in Nat
  OBVIOUS
<1>2. PICK a, b : a = SubSeq(s, 1, Len(s)) /\ b = SubSeq(t, 1, Len(s))
  OBVIOUS
<1>3. a \in Seq(S) /\ Len(a) = Len(s) /\ \A k \in 1 .. Len(s) : a[k] = s[k]
  <2>1. \A k \in 1 .. Len(s) : s[k] \in S
    BY ElementsOf
  <2> QED BY <1>1, <1>2, <2>1, SubSeqProperties
<1>4. b \in Seq(S) /\ Len(b) = Len(s) /\ \A k \in 1 .. Len(s) : b[k] = t[k]
  <2>1. \A k \in 1 .. Len(s) : t[k] \in S
    <3>1. \A k \in 1 .. Len(s) : k \in 1 .. Len(t)
      BY <1>1
    <3> QED BY <3>1, ElementsOf
  <2> QED BY <1>1, <1>2, <2>1, SubSeqProperties
<1>5. a = b
  BY <1>3, <1>4, SeqEqual
<1> QED BY <1>2, <1>5 DEF IsPrefix, Repository!IsPrefix

\* A change in the text of a push, and what it makes of the file.
LEMMA PublishedFollows ==
  ASSUME ClientInv, NEW text, NEW v, PushOf(text, v), Calm(Astray \cup {"repeated"})'
  PROVE  Repository!Distinct(Seen(v)) /\ Repository!Follows(Seen(Latest), Seen(v))
<1> DEFINE m == Latest.manifest
           w == v.manifest
<1>1. /\ m.files \in Seq(Entries) /\ Once(m.files) /\ w.files \in Seq(Entries) /\ Once(w.files)
      /\ \/ ToSet(w.files) \subseteq ToSet(m.files)
         \/ /\ Readable(text) /\ Readable(m)
            /\ \E x : Published(x, m, text) /\ ToSet(w.files) \subseteq ToSet(x.files)
  <2>1. history # <<>> /\ v \in Versions /\ Once(w.files)
    BY DEF PushOf
  <2>2. m \in Manifests /\ Once(m.files)
    BY <2>1, LatestIn DEF ClientInv
  <2>3. \/ ToSet(w.files) \subseteq ToSet(m.files)
        \/ /\ Readable(text) /\ Readable(m)
           /\ \E x : Published(x, m, text) /\ ToSet(w.files) \subseteq ToSet(x.files)
    BY DEF PushOf, MadeOf
  <2> HIDE DEF m
  <2> QED BY <2>1, <2>2, <2>3 DEF Versions, Manifests
<1>2. ASSUME NEW f \in Seq(Entries), Once(f), NEW a \in ToSet(f), NEW b \in ToSet(f), a.path = b.path
      PROVE  a = b
  <2>1. PICK i \in DOMAIN f, j \in DOMAIN f : a = f[i] /\ b = f[j]
    BY DEF ToSet
  <2> QED BY <1>2, <2>1 DEF Once
<1>3. Repository!Distinct(Seen(v))
  BY <1>1, <1>2 DEF Repository!Distinct, Seen
<1>4. ASSUME NEW e \in ToSet(m.files), NEW f \in ToSet(w.files), e.path = f.path, e # f
      PROVE  f.hash # e.hash /\ f.fileVersion = e.fileVersion + 1
  <2>1. ~ (ToSet(w.files) \subseteq ToSet(m.files))
    BY <1>1, <1>2, <1>4
  <2>2. Readable(text) /\ Readable(m)
    BY <1>1, <2>1
  <2>3. PICK x : Published(x, m, text) /\ f \in ToSet(x.files)
    BY <1>1, <1>4, <2>1
  <2>4. Once(text.files) /\ Calm(Astray)'
    BY DEF PushOf, Calm
  <2>5. text \in CommitTexts /\ MadeFor(text, m)
    BY <2>2, <2>4, PushedForLatest
  <2>6. PICK i \in DOMAIN text.files : text.files[i].op = "M" /\ f = Line(text.files[i])
    BY <1>4, <2>3, <2>4 DEF Published
  <2>7. DOMAIN text.files = 1 .. Len(text.files) /\ Len(text.files) \in Nat
    BY <2>5, TextsHave, ElementsOf
  <2>8. \A k \in 1 .. i - 1 : text.files[k].path # text.files[i].path
    <3>1. \A k \in 1 .. i - 1 : k \in DOMAIN text.files /\ k # i
      BY <2>7
    <3> QED BY <2>4, <3>1 DEF Once
  <2>9. f.path = text.files[i].path /\ f.fileVersion = text.files[i].fileVersion
        /\ f.hash = text.files[i].hash
    BY <2>6 DEF Line
  <2> HIDE DEF m
  <2> QED BY <1>4, <2>5, <2>6, <2>8, <2>9 DEF MadeFor
<1>5. Repository!Follows(Seen(Latest), Seen(v))
  BY <1>4 DEF Repository!Follows, Seen
<1> QED BY <1>3, <1>5

\* A push.
LEMMA PushImplements ==
  ASSUME ClientInv, NEW c \in Clients, doPushClient(c), Calm(Astray \cup {"repeated"})'
  PROVE  Repository!Publish /\ Calm(Astray \cup {"repeated"})
<1>1. PICK text, v : PushOf(text, v)
  BY PushMakes DEF ClientInv
<1>2. PICK h : h = Append(history, v)
  OBVIOUS
<1>3. /\ history \in Seq(Versions) /\ history # <<>> /\ v \in Versions /\ history' = h
      /\ mishap \subseteq mishap'
  BY <1>1, <1>2 DEF PushOf, ClientInv, Lists, TypeOK
<1>4. PICK n : n = Len(history)
  OBVIOUS
<1>5. n \in Nat \ {0} /\ Latest = history[n]
  BY <1>3, <1>4, LatestIn DEF ClientInv
<1>6. /\ h \in Seq(Versions) /\ Len(h) = n + 1 /\ h[n + 1] = v
      /\ \A k \in 1 .. n : h[k] = history[k]
  BY <1>2, <1>3, <1>4, AppendProperties
<1>7. PICK old, new : old = SeenVersions(history) /\ new = SeenVersions(h)
  OBVIOUS
<1>8. /\ old \in Seq(SUBSET Entries) /\ Len(old) = n /\ \A k \in 1 .. n : old[k] = Seen(history[k])
      /\ new \in Seq(SUBSET Entries) /\ Len(new) = n + 1 /\ \A k \in 1 .. n + 1 : new[k] = Seen(h[k])
  BY <1>3, <1>4, <1>6, <1>7, SeenSequence
<1>9. Repository!IsPrefix(old, new)
  <2>1. n <= n + 1 /\ \A k \in 1 .. n : k \in 1 .. n + 1
    BY <1>5
  <2>2. \A k \in 1 .. n : old[k] = new[k]
    BY <1>6, <1>8, <2>1
  <2> QED BY <1>8, <2>1, <2>2, PrefixOf
<1>10. old # <<>> /\ Repository!Last(old) = Seen(Latest) /\ Repository!Last(new) = Seen(v)
  <2>1. n \in 1 .. n /\ n + 1 \in 1 .. n + 1
    BY <1>5
  <2>2. Len(old) # 0
    BY <1>5, <1>8
  <2> QED BY <1>5, <1>6, <1>8, <2>1, <2>2 DEF Repository!Last
<1>11. Repository!Distinct(Repository!Last(new))
       /\ Repository!Follows(Repository!Last(old), Repository!Last(new))
  BY <1>1, <1>10, PublishedFollows
<1>12. Calm(Astray \cup {"repeated"})
  BY <1>3, CalmBefore
<1>13. SeenVersions(history)' = new
  <2>1. SeenVersions(history)' = SeenVersions(history')
    BY DEF SeenVersions, Seen
  <2> QED BY <1>3, <1>7, <2>1
<1>14. Repository!Publish
  BY <1>7, <1>8, <1>9, <1>10, <1>11, <1>13 DEF Repository!Publish, SeenVersions, Seen
<1> QED BY <1>12, <1>14

\* What a rollback leaves, finished or not.
LEMMA RollbackImplements ==
  ASSUME ClientInv, NEW n, WentBack(n)
  PROVE  Repository!Rollback
<1>1. PICK h, l : h = history' /\ l = Len(h)
  OBVIOUS
<1>2. /\ Lists' /\ n \in 1 .. Len(history) - 1 /\ Len(history) \in Nat
      /\ history \in Seq(Versions) /\ h \in Seq(Versions) /\ l \in n .. Len(history)
      /\ \A k \in 1 .. l : h[k] = history[k] \/ (k > n /\ Remains(h[k], history[k]))
  BY <1>1, WentBackLists DEF ClientInv, Lists, TypeOK, WentBack
<1>3. PICK old, new : old = SeenVersions(history) /\ new = SeenVersions(h)
  OBVIOUS
<1>4. /\ old \in Seq(SUBSET Entries) /\ Len(old) = Len(history)
      /\ \A k \in 1 .. Len(history) : old[k] = Seen(history[k])
      /\ new \in Seq(SUBSET Entries) /\ Len(new) = l /\ \A k \in 1 .. l : new[k] = Seen(h[k])
  BY <1>1, <1>2, <1>3, SeenSequence
<1>5. l \in 1 .. Len(old) /\ \A k \in 1 .. l : k \in 1 .. Len(history)
  BY <1>2, <1>4
<1>6. ASSUME NEW k \in 1 .. l PROVE new[k] = old[k] \/ (k > n /\ new[k] = {})
  <2>1. CASE h[k] = history[k]
    BY <1>4, <1>5, <2>1
  <2>2. CASE k > n /\ Remains(h[k], history[k])
    <3>1. Seen(h[k]) = Seen(history[k]) \/ Seen(h[k]) = {}
      BY <2>2 DEF Remains, Seen, ToSet
    <3> QED BY <1>4, <1>5, <2>2, <3>1
  <2> QED BY <1>2, <2>1, <2>2
<1>7. new[1] = old[1]
  <2>1. 1 \in 1 .. l /\ ~ (1 > n)
    BY <1>2
  <2> QED BY <1>6, <2>1
<1>8. \A k \in 2 .. Len(new) : new[k] \in {old[k], {}}
  <2>1. \A k \in 2 .. Len(new) : k \in 1 .. l
    BY <1>4
  <2> QED BY <1>6, <2>1
<1>9. old # <<>> /\ Len(new) \in 1 .. Len(old)
  BY <1>4, <1>5
<1>10. SeenVersions(history)' = new
  <2>1. SeenVersions(history)' = SeenVersions(history')
    BY DEF SeenVersions, Seen
  <2> QED BY <1>1, <1>3, <2>1
<1> QED BY <1>3, <1>7, <1>8, <1>9, <1>10 DEF Repository!Rollback, SeenVersions, Seen

LEMMA CreateImplements ==
  ASSUME NEW c \in Clients, doCreate(c)
  PROVE  Repository!Create
<1> DEFINE v == Version(FirstManifest, NoFiles, TRUE)
<1>1. PICK h : h = <<v>>
  OBVIOUS
<1>2. Seen(v) = {}
  BY DEF Version, FirstManifest, Seen, ToSet
<1> HIDE DEF v
<1>3. DOMAIN h = {1} /\ h[1] = v
  BY <1>1
<1>4. history' = h /\ history = <<>>
  BY <1>1 DEF doCreate, v
<1>5. SeenVersions(h) = << {} >>
  <2>1. SeenVersions(h) = [n \in {1} |-> {}]
    BY <1>2, <1>3 DEF SeenVersions
  <2> QED BY <2>1
<1>6. SeenVersions(history) = <<>>
  BY <1>4 DEF SeenVersions
<1>7. SeenVersions(history)' = << {} >>
  <2>1. SeenVersions(history)' = SeenVersions(history')
    BY DEF SeenVersions, Seen
  <2> QED BY <1>4, <1>5, <2>1
<1> QED BY <1>6, <1>7 DEF Repository!Create, SeenVersions, Seen

\* Steps that leave the history and the mishaps.
LEMMA StutterImplements ==
  ASSUME UNCHANGED <<history, mishap>>
  PROVE  /\ UNCHANGED [n \in DOMAIN history |-> ToSet(history[n].manifest.files)]
         /\ UNCHANGED ~Calm(Astray \cup {"repeated"})
<1>1. UNCHANGED [n \in DOMAIN history |-> ToSet(history[n].manifest.files)]
  OBVIOUS
<1>2. UNCHANGED ~Calm(Astray \cup {"repeated"})
  BY DEF Calm
<1> QED BY <1>1, <1>2

\* The versions that the manifests show, whatever clients commit and push, wherever they
\* die and whatever is rolled back: each follows from the one before, until a mishap.
THEOREM ClientsImplementRepository == Spec => ImplementsVersionedRepository
<1> DEFINE seen == [n \in DOMAIN history |-> ToSet(history[n].manifest.files)]
           calm == Calm(Astray \cup {"repeated"})
<1>1. Init => Repository!Init
  BY DEF Init, Repository!Init, Calm
<1>2. ClientInv /\ [Next]_vars => [Repository!Next]_<<seen, ~ calm>>
  <2> SUFFICES ASSUME ClientInv, [Next]_vars, ~ UNCHANGED <<seen, ~ calm>>, calm'
               PROVE  Repository!Next
    BY DEF Repository!Next
  <2>0. ~ UNCHANGED <<history, mishap>>
    BY StutterImplements
  <2>1. ASSUME calm, Repository!Create \/ Repository!Publish \/ Repository!Rollback
        PROVE  Repository!Next
    BY <2>1 DEF Repository!Next
  <2> HIDE DEF seen
  <2>2. ASSUME NEW c \in Clients, doCreate(c) PROVE Repository!Next
    <3>1. Repository!Create /\ mishap' = mishap
      BY <2>2, CreateImplements DEF doCreate
    <3>2. calm
      BY <3>1 DEF Calm
    <3> QED BY <2>1, <3>1, <3>2
  <2>3. ASSUME NEW c \in Clients, doPushClient(c) PROVE Repository!Next
    <3>1. Repository!Publish /\ calm
      BY <2>3, PushImplements
    <3> QED BY <2>1, <3>1
  <2>4. ASSUME NEW n \in 1 .. MaxVersion, doRollback(n) \/ RollbackStops(n) PROVE Repository!Next
    <3>0. WentBack(n)
      BY <2>4, DoRollbackGoes, RollbackStopsGoes DEF ClientInv
    <3>1. Repository!Rollback /\ mishap \subseteq mishap'
      BY <3>0, RollbackImplements DEF WentBack, GoBack
    <3>2. calm
      BY <3>1, CalmBefore
    <3> QED BY <2>1, <3>1, <3>2
  <2>5. ASSUME NEW c \in Clients, (\E p \in Paths : doAdd(c, p)) \/ checkout(c) \/ doCommitClient(c)
        PROVE  FALSE
    <3>1. CASE (\E p \in Paths : doAdd(c, p)) \/ checkout(c)
      BY <2>0, <3>1 DEF doAdd, checkout, server
    <3>2. CASE doCommitClient(c)
      <4>1. history' = history /\ mishap \subseteq mishap' /\ mishap' \subseteq mishap \cup {"cut"}
        BY <3>2, DoCommitLists DEF ClientInv, Committed
      <4>2. "cut" \notin mishap'
        BY DEF Calm, Astray
      <4> QED BY <2>0, <4>1, <4>2
    <3> QED BY <2>5, <3>1, <3>2
  <2>6. ~ UNCHANGED vars
    BY <2>0 DEF vars, server
  <2> QED BY <2>2, <2>3, <2>4, <2>5, <2>6 DEF Next, ClientCommand
<1> QED BY <1>1, <1>2, ClientInvariant, PTL DEF Spec, ImplementsVersionedRepository, Repository!Spec
-----------------------------------------------------------------------------
(* Clients in step with the server.                                        *)

LEMMA InStepHas ==
  ASSUME NEW m \in Manifests, NEW s \in Manifests, InStep(m, s)
  PROVE  /\ Len(s.files) <= Len(m.files) /\ Once(m.files)
         /\ \A i \in 1 .. Len(s.files) : s.files[i] = m.files[i]
         /\ s.files # <<>> => m.version = s.version
<1>1. m.files \in Seq(Entries) /\ s.files \in Seq(Entries)
  BY ManifestsHave
<1>2. PICK l, a, b : l = Len(s.files) /\ a = SubSeq(s.files, 1, l) /\ b = SubSeq(m.files, 1, l)
  OBVIOUS
<1>3. l <= Len(m.files) /\ a = b
  BY <1>2 DEF InStep, IsPrefix
<1>4. l \in Nat /\ Len(m.files) \in Nat
  BY <1>1, <1>2, ElementsOf
<1>5. \A k \in 1 .. l : a[k] = s.files[k]
  <2>1. \A k \in 1 .. l : s.files[k] \in Entries
    BY <1>1, <1>2, ElementsOf
  <2> QED BY <1>2, <1>4, <2>1, SubSeqProperties
<1>6. \A k \in 1 .. l : b[k] = m.files[k]
  <2>1. \A k \in 1 .. l : k \in 1 .. Len(m.files)
    BY <1>3, <1>4
  <2>2. \A k \in 1 .. l : m.files[k] \in Entries
    BY <1>1, <2>1, ElementsOf
  <2> QED BY <1>2, <1>4, <2>2, SubSeqProperties
<1>7. \A k \in 1 .. l : s.files[k] = m.files[k]
  BY <1>3, <1>5, <1>6
<1> QED BY <1>2, <1>3, <1>7 DEF InStep

LEMMA OnceOfPaths ==
  ASSUME NEW a, NEW b, Once(a), DOMAIN b \subseteq DOMAIN a, \A i \in DOMAIN b : b[i].path = a[i].path
  PROVE  Once(b)
BY DEF Once

\* What a client in step commits is the difference.
LEMMA DifferenceInStep ==
  ASSUME NEW m \in Manifests, NEW s \in Manifests, InStep(m, s), m.version < MaxVersion,
         NEW live \in [Listed(m.files) -> Contents \cup {Absent}],
         buildCommit(m.files, s.files, live).end = "done",
         NEW text, text = [version |-> m.version + 1, files |-> buildCommit(m.files, s.files, live).files]
  PROVE  Different(m, s, text)
<1> DEFINE n == Len(m.files)
           list == readManifest(s)
           new == updateManifest(list, text).list
<1>1. /\ m.files \in Seq(Entries) /\ s.files \in Seq(Entries) /\ m.version \in Int /\ s.version \in Int
      /\ n \in Nat /\ Len(s.files) \in Nat /\ DOMAIN m.files = 1 .. n
  BY ManifestsHave, ElementsOf
<1>2. /\ Len(s.files) <= n /\ Once(m.files)
      /\ \A i \in 1 .. Len(s.files) : s.files[i] = m.files[i]
  BY InStepHas
<1>3. /\ \A i \in 1 .. Len(s.files) : i \in 1 .. n
      /\ \A p \in Listed(m.files) : live[p] \in Contents \cup {Absent}
  BY <1>1, <1>2
<1>4. FirstOfPrefix(text.files, m.files, s.files, n)
  <2>1. FirstOfPrefix(buildCommit(m.files, s.files, live).files, m.files, s.files, n)
    BY <1>1, <1>2, <1>3, CommitOfPrefix
  <2> QED BY <2>1
<1>5. /\ text.files \in Seq(Changes) /\ Len(text.files) = n /\ text.version \in Int
      /\ DOMAIN text.files = 1 .. n
      /\ \A i \in 1 .. n : text.files[i] \in Changes
      /\ \A i \in 1 .. n : text.files[i].path = m.files[i].path
                           /\ text.files[i].fileVersion = m.files[i].fileVersion + 1
      /\ \A i \in 1 .. n : i <= Len(s.files) => text.files[i].op = "M" /\ text.files[i].hash # s.files[i].hash
  <2>1. text.files \in Seq(Changes) /\ Len(text.files) = n
    BY <1>4 DEF FirstOfPrefix
  <2>2. DOMAIN text.files = 1 .. n /\ \A i \in 1 .. n : text.files[i] \in Changes
    BY <2>1, ElementsOf
  <2> QED BY <1>1, <1>4, <2>1, <2>2 DEF FirstOfPrefix
<1>6. Once(text.files) /\ Once(s.files)
  <2>1. Once(text.files)
    <3>1. DOMAIN text.files \subseteq DOMAIN m.files
      BY <1>1, <1>5
    <3>2. \A i \in DOMAIN text.files : text.files[i].path = m.files[i].path
      BY <1>5
    <3>3. PICK a, b : a = m.files /\ b = text.files
      OBVIOUS
    <3> QED BY <1>2, <3>1, <3>2, <3>3, OnceOfPaths
  <2>2. DOMAIN s.files = 1 .. Len(s.files)
    BY <1>1, ElementsOf
  <2> QED BY <1>1, <1>2, <1>3, <2>1, <2>2 DEF Once
<1>7. /\ list \in Seq(Nodes) /\ Len(list) = Len(s.files) /\ Once(list)
      /\ \A i \in 1 .. Len(list) : list[i].path = m.files[i].path
  <2>1. /\ list \in Seq(Nodes) /\ Len(list) = Len(s.files) /\ Once(list)
        /\ \A i \in 1 .. Len(list) : list[i] = Node(s.files[i], s.version)
    BY <1>1, <1>6, ReadManifestNodes
  <2>2. \A e, v : Node(e, v).path = e.path
    BY DEF Node
  <2> QED BY <1>2, <2>1, <2>2
<1> HIDE DEF list
<1>8. InOrder(list, text)
  BY <1>3, <1>5, <1>7 DEF InOrder
<1>9. \A i \in 1 .. Len(text.files) : i <= Len(list) => text.files[i].op = "M"
  BY <1>5, <1>7
<1>10. updateManifest(list, text).freed = {} /\ InPlace(new, list, text, n)
  BY <1>5, <1>6, <1>7, <1>8, <1>9, UpdateManifestInPlace
<1> HIDE DEF new
<1>11. Len(new) = n /\ \A i \in 1 .. n : new[i] = Node(text.files[i], text.version)
  <2>1. Len(new) = IF n <= Len(list) THEN Len(list) ELSE n
    BY <1>10 DEF InPlace
  <2> QED BY <1>1, <1>2, <1>7, <1>10, <2>1 DEF InPlace
<1>12. ASSUME NEW i \in 1 .. n
       PROVE  /\ new[i].path = m.files[i].path
              /\ new[i].fileVersion = m.files[i].fileVersion + 1
              /\ i <= Len(s.files) => new[i].hash # s.files[i].hash
  BY <1>5, <1>11, NodeType
<1> QED BY <1>1, <1>10, <1>11, <1>12 DEF Different, new, list

LEMMA CommitDifferent ==
  ASSUME Lists, NEW d \in Clients, doCommitClient(d), NEW c \in Clients,
         commit'[c] # commit[c], Readable(commit'[c]), pending' # pending,
         InStep(manifest[c], Latest.manifest)
  PROVE  Different(manifest[c], Latest.manifest, commit'[c])
<1>1. /\ history # <<>> /\ manifest[d].version < MaxVersion
      /\ manifest[d] \in Manifests /\ Latest.manifest \in Manifests
      /\ commit \in [Clients -> CommitTexts]
  BY LatestIn DEF doCommitClient, Lists, TypeOK
<1>2. ASSUME NEW t, Save(d, t) PROVE c = d /\ commit'[c] = t
  BY <1>1, <1>2 DEF Save
<1>3. ~ UnreadableCommit(d)
  BY <1>2, FixedFiles DEF UnreadableCommit
<1>4. \A live : ~ OutdatedCommit(d, live)
  BY <1>2, FixedFiles DEF OutdatedCommit
<1>5. PICK live \in [Listed(manifest[d].files) -> Contents \cup {Absent}] : SendCommit(d, live)
  BY <1>3, <1>4 DEF doCommitClient
<1>6. PICK text : text = [version |-> manifest[d].version + 1,
                          files |-> buildCommit(manifest[d].files, Latest.manifest.files, live).files]
  OBVIOUS
<1>7. /\ buildCommit(manifest[d].files, Latest.manifest.files, live).end = "done"
      /\ Save(d, text) \/ UNCHANGED <<pending, mishap>>
  BY <1>5, <1>6 DEF SendCommit
<1>8. c = d /\ commit'[c] = text
  BY <1>2, <1>7
<1>9. Different(manifest[d], Latest.manifest, text)
  BY <1>1, <1>6, <1>7, <1>8, DifferenceInStep
<1> QED BY <1>8, <1>9

\* What a client in step commits is what it has changed: the server, which applies the
\* commit with updateManifest, will list exactly the client's files.
THEOREM CommitIsTheDifferenceHolds == Spec => CommitIsTheDifference
<1>1. ClientInv /\ [Next]_vars =>
        [\A c \in Clients :
           /\ commit'[c] # commit[c] /\ Readable(commit'[c])
           /\ pending' # pending
           /\ InStep(manifest[c], Latest.manifest)
           => Different(manifest[c], Latest.manifest, commit'[c])]_vars
  <2> SUFFICES ASSUME ClientInv, Next, NEW c \in Clients, commit'[c] # commit[c],
                      Readable(commit'[c]), pending' # pending,
                      InStep(manifest[c], Latest.manifest)
               PROVE  Different(manifest[c], Latest.manifest, commit'[c])
    OBVIOUS
  <2>1. commit \in [Clients -> CommitTexts] /\ Lists
    BY DEF ClientInv, Lists, TypeOK
  <2>2. ASSUME NEW d \in Clients, doPushClient(d) PROVE FALSE
    <3>1. commit' = commit \/ commit' = [commit EXCEPT ![d] = NoText]
      BY <2>2 DEF doPushClient, Pushed, PushSucceeds, Save
    <3>2. commit'[c] = NoText
      BY <2>1, <3>1
    <3> QED BY <3>2, FixedFiles
  <2>3. ASSUME NEW d \in Clients, doCommitClient(d)
        PROVE  Different(manifest[c], Latest.manifest, commit'[c])
    BY <2>1, <2>3, CommitDifferent
  <2>4. ASSUME NEW d \in Clients, (\E p \in Paths : doAdd(d, p)) \/ doCreate(d) \/ checkout(d)
        PROVE  FALSE
    BY <2>4 DEF doAdd, doCreate, checkout
  <2>5. ASSUME NEW n \in 1 .. MaxVersion, doRollback(n) \/ RollbackStops(n) PROVE FALSE
    BY <2>5 DEF doRollback, RollbackStops, GoBack
  <2> QED BY <2>2, <2>3, <2>4, <2>5 DEF Next, ClientCommand
<1> QED BY <1>1, ClientInvariant, PTL DEF Spec, CommitIsTheDifference
\* A list whose first nodes are those of a text has the text's paths, and then its own.
LEMMA PathsInPlace ==
  ASSUME NEW list \in Seq(Nodes), Once(list), NEW text, text.files \in Seq(Changes),
         text.version \in Int, Len(text.files) <= Len(list), InOrder(list, text),
         NEW new, InPlace(new, list, text, Len(text.files))
  PROVE  Once(new)
<1>1. PICK n, l : n = Len(text.files) /\ l = Len(list)
  OBVIOUS
<1>2. /\ n \in Nat /\ l \in Nat /\ n <= l /\ DOMAIN list = 1 .. l
      /\ \A i \in 1 .. n : text.files[i] \in Changes
  BY <1>1, ElementsOf
<1>3. /\ new \in Seq(Nodes) /\ Len(new) = (IF n <= l THEN l ELSE n)
      /\ \A i \in 1 .. n : new[i] = Node(text.files[i], text.version)
      /\ \A i \in n + 1 .. l : new[i] = list[i]
  BY <1>1 DEF InPlace
<1>4. DOMAIN new = 1 .. l
  BY <1>2, <1>3, ElementsOf
<1>5. ASSUME NEW i \in 1 .. l PROVE new[i].path = list[i].path
  <2>1. CASE i \in 1 .. n
    <3>1. text.files[i].path = list[i].path
      BY <1>1, <1>2, <1>5, <2>1 DEF InOrder
    <3> QED BY <1>2, <1>3, <2>1, <3>1, NodeType
  <2>2. CASE i \in n + 1 .. l
    BY <1>3, <2>2
  <2> QED BY <1>2, <2>1, <2>2
<1> QED BY <1>2, <1>4, <1>5, OnceOfPaths

\* The two sides apply a commit that was made for the server's version.
LEMMA BothInStep ==
  ASSUME NEW m \in Manifests, NEW s \in Manifests, InStep(m, s), Once(s.files),
         NEW text \in CommitTexts, Finishes(text), MadeFor(text, s), StillListed(m, text),
         updateManifest(readManifest(s), text).list # <<>>
  PROVE  InStep(writeManifest(updateManifestPush(readManifest(m), text)),
                writeManifest(updateManifest(readManifest(s), text).list))
<1> DEFINE n == Len(text.files)
           mlist == readManifest(m)
           slist == readManifest(s)
           mnew == updateManifestPush(mlist, text)
           snew == updateManifest(slist, text).list
<1>1. /\ m.files \in Seq(Entries) /\ s.files \in Seq(Entries) /\ m.version \in Int /\ s.version \in Int
      /\ text.files \in Seq(Changes) /\ text.version \in Int
  BY ManifestsHave, TextsHave
<1>2. /\ n \in Nat /\ Len(s.files) \in Nat /\ Len(m.files) \in Nat /\ DOMAIN m.files = 1 .. Len(m.files)
      /\ DOMAIN text.files = 1 .. n /\ \A i \in 1 .. n : text.files[i] \in Changes
  BY <1>1, ElementsOf
<1>3. /\ Len(s.files) <= Len(m.files) /\ Once(m.files)
      /\ \A i \in 1 .. Len(s.files) : s.files[i] = m.files[i]
      /\ n <= Len(m.files) /\ \A i \in 1 .. n : text.files[i].path = m.files[i].path
  <2>1. n <= Len(m.files) /\ \A i \in 1 .. n : text.files[i].path = m.files[i].path
    BY <1>2 DEF StillListed
  <2> QED BY <2>1, InStepHas
<1>4. Once(text.files)
  <2>1. DOMAIN text.files \subseteq DOMAIN m.files
    BY <1>2, <1>3
  <2>2. \A i \in DOMAIN text.files : text.files[i].path = m.files[i].path
    BY <1>2, <1>3
  <2>3. PICK a, b : a = m.files /\ b = text.files
    OBVIOUS
  <2> QED BY <1>3, <2>1, <2>2, <2>3, OnceOfPaths
<1>5. Len(s.files) <= n
  <2> SUFFICES ASSUME ~ (Len(s.files) <= n) PROVE FALSE
    OBVIOUS
  <2>1. n + 1 \in 1 .. Len(s.files) /\ n + 1 \in 1 .. Len(m.files)
    BY <1>2, <1>3
  <2>2. s.files[n + 1].path \in Listed(text.files)
    BY <1>1, <2>1, ListedOf DEF MadeFor
  <2>3. PICK i \in 1 .. n : s.files[n + 1].path = text.files[i].path
    BY <1>1, <2>2, ListedOf
  <2>4. m.files[n + 1].path = m.files[i].path /\ i \in 1 .. Len(m.files) /\ i # n + 1
    BY <1>2, <1>3, <2>1, <2>3
  <2> QED BY <1>2, <1>3, <2>1, <2>4 DEF Once
<1>6. ASSUME NEW i \in 1 .. n, i <= Len(s.files) PROVE text.files[i].op = "M"
  <2>1. i \in 1 .. Len(s.files) /\ i \in DOMAIN text.files
    BY <1>2, <1>6
  <2>2. s.files[i] \in ToSet(s.files) /\ s.files[i].path = text.files[i].path
    BY <1>1, <1>3, <2>1, ElementsOf
  <2>3. \A k \in 1 .. i - 1 : text.files[k].path # text.files[i].path
    <3>1. \A k \in 1 .. i - 1 : k \in DOMAIN text.files /\ k # i
      BY <1>2
    <3> QED BY <1>4, <2>1, <3>1 DEF Once
  <2>4. text.files[i].op # "D"
    BY <2>1 DEF Finishes
  <2> QED BY <2>1, <2>2, <2>3, <2>4 DEF MadeFor
<1>7. /\ slist \in Seq(Nodes) /\ Len(slist) = Len(s.files) /\ Once(slist)
      /\ \A i \in 1 .. Len(slist) : slist[i] = Node(s.files[i], s.version)
  BY <1>1, ReadManifestNodes
<1>8. /\ mlist \in Seq(Nodes) /\ Len(mlist) = Len(m.files) /\ Once(mlist)
      /\ \A i \in 1 .. Len(mlist) : mlist[i] = Node(m.files[i], m.version)
  BY <1>1, <1>3, ReadManifestNodes
<1>9. \A e, v : Node(e, v).path = e.path /\ Node(e, v).projectVersion = v /\ Line(Node(e, v)) = Line(e)
  BY DEF Node, Line
<1> HIDE DEF mlist, slist
<1>10. InOrder(slist, text) /\ InOrder(mlist, text)
  <2>1. InOrder(mlist, text)
    BY <1>2, <1>3, <1>8, <1>9 DEF InOrder
  <2>2. InOrder(slist, text)
    BY <1>2, <1>3, <1>7, <1>9 DEF InOrder
  <2> QED BY <2>1, <2>2
<1>11. InPlace(snew, slist, text, n)
  <2>1. \A i \in 1 .. Len(text.files) : i <= Len(slist) => text.files[i].op = "M"
    BY <1>6, <1>7
  <2> QED BY <1>1, <1>4, <1>7, <1>10, <2>1, UpdateManifestInPlace
<1>12. InPlace(mnew, mlist, text, n)
  BY <1>1, <1>3, <1>4, <1>8, <1>10, UpdateManifestPushInPlace
<1>13. Once(mnew)
  BY <1>1, <1>3, <1>8, <1>10, <1>12, PathsInPlace
<1>14. snew # <<>>
  BY DEF slist
<1> HIDE DEF mnew, snew
<1>15. /\ snew \in Seq(Nodes) /\ Len(snew) = n
       /\ \A i \in 1 .. n : snew[i] = Node(text.files[i], text.version)
  <2>1. Len(snew) = IF n <= Len(slist) THEN Len(slist) ELSE n
    BY <1>11 DEF InPlace
  <2> QED BY <1>2, <1>5, <1>7, <1>11, <2>1 DEF InPlace
<1>16. /\ mnew \in Seq(Nodes) /\ Len(mnew) = Len(m.files)
       /\ \A i \in 1 .. n : mnew[i] = Node(text.files[i], text.version)
  <2>1. Len(mnew) = IF n <= Len(mlist) THEN Len(mlist) ELSE n
    BY <1>12 DEF InPlace
  <2> QED BY <1>2, <1>3, <1>8, <1>12, <2>1 DEF InPlace
<1>17. n # 0 /\ 1 \in 1 .. n /\ mnew # <<>>
  BY <1>2, <1>3, <1>14, <1>15, <1>16
<1>18. PICK wm, ws : wm = writeManifest(mnew) /\ ws = writeManifest(snew)
  OBVIOUS
<1>19. /\ wm = [version |-> mnew[1].projectVersion, files |-> wm.files]
       /\ wm.files \in Seq(Entries) /\ Len(wm.files) = Len(m.files) /\ Once(wm.files)
       /\ \A i \in 1 .. Len(m.files) : wm.files[i] = Line(mnew[i])
  BY <1>13, <1>16, <1>17, <1>18, WriteManifestLines
<1>20. /\ ws = [version |-> snew[1].projectVersion, files |-> ws.files]
       /\ ws.files \in Seq(Entries) /\ Len(ws.files) = n
       /\ \A i \in 1 .. n : ws.files[i] = Line(snew[i])
  BY <1>14, <1>15, <1>18, WriteManifestLines
<1>21. wm.version = ws.version
  <2>1. mnew[1] = snew[1]
    BY <1>15, <1>16, <1>17
  <2> QED BY <1>19, <1>20, <2>1
<1>22. IsPrefix(ws.files, wm.files)
  <2>1. \A i \in 1 .. n : i \in 1 .. Len(m.files)
    BY <1>2, <1>3
  <2>2. \A i \in 1 .. n : ws.files[i] = wm.files[i]
    BY <1>15, <1>16, <1>19, <1>20, <2>1
  <2> QED BY <1>3, <1>19, <1>20, <2>2, PrefixOf
<1> QED BY <1>18, <1>19, <1>21, <1>22 DEF InStep, mnew, snew, mlist, slist

\* A client that was in step with the server is in step again when its push has been
\* acknowledged: updateManifest and updateManifestPush agree on the text of its commit.
THEOREM PusherInStepHolds == Spec => PusherInStep
<1>1. ClientInv /\ [Next]_vars =>
        [\A c \in Clients :
           /\ Len(history') > Len(history) /\ commit'[c] # commit[c]
           /\ history # <<>> /\ InStep(manifest[c], Latest.manifest)
           /\ StillListed(manifest[c], commit[c])
           /\ Calm(Astray)'
           => InStep(manifest'[c], Latest'.manifest)]_vars
  <2> SUFFICES ASSUME ClientInv, Next, NEW c \in Clients, Len(history') > Len(history),
                      commit'[c] # commit[c], history # <<>>,
                      InStep(manifest[c], Latest.manifest),
                      StillListed(manifest[c], commit[c]), Calm(Astray)'
               PROVE  InStep(manifest'[c], Latest'.manifest)
    OBVIOUS
  <2>1. /\ manifest \in [Clients -> Manifests] /\ commit[c] \in CommitTexts /\ Lists
        /\ Latest.manifest \in Manifests /\ Once(Latest.manifest.files)
        /\ Len(history) \in Nat /\ history \in Seq(Versions)
    BY LatestIn DEF ClientInv, Lists, TypeOK
  <2>0. commit \in [Clients -> CommitTexts]
    BY DEF ClientInv, Lists, TypeOK
  <2>2. ASSUME NEW d \in Clients, doPushClient(d) PROVE InStep(manifest'[c], Latest'.manifest)
    <3> DEFINE text == commit[c]
               s == Latest.manifest
               snew == updateManifest(readManifest(s), text).list
               ws == writeManifest(snew)
               wm == writeManifest(updateManifestPush(readManifest(manifest[c]), text))
    <3>1. PushSucceeds(d) /\ pending' = {} /\ commit' # commit
      BY <2>2 DEF doPushClient, Pushed
    <3>2. d = c
      BY <2>0, <3>1 DEF PushSucceeds, Save
    <3>3. manifest' = [manifest EXCEPT ![c] = wm]
      BY <3>1, <3>2 DEF PushSucceeds
    <3>4. /\ Applicable(text) /\ snew # <<>> /\ Finishes(text)
          /\ \E files : history' = Append(history, Version(ws, files, TRUE))
      BY <3>1, <3>2 DEF PushSucceeds, PushArrives, Publish
    <3>5. PICK v : PushOf(text, v)
      BY <2>1, <3>1, <3>2, SucceededMakes
    <3>6. MadeFor(text, s)
      BY <3>4, <3>5, PushedForLatest DEF Applicable
    <3>7. InStep(wm, ws)
      BY <2>1, <3>4, <3>6, BothInStep
    <3> HIDE DEF wm, ws
    <3>8. manifest'[c] = wm
      BY <2>1, <3>3
    <3>9. Latest'.manifest = ws
      <4>1. PICK h, l : h = history' /\ l = Len(history)
        OBVIOUS
      <4>2. PICK files : h = Append(history, Version(ws, files, TRUE))
        BY <3>4, <4>1
      <4>3. h = Append(history, v) /\ v \in Versions
        BY <3>5, <4>1 DEF PushOf
      <4>4. Len(h) = l + 1 /\ h[l + 1] = v
        BY <2>1, <4>1, <4>3, AppendProperties
      <4>5. h[l + 1] = Version(ws, files, TRUE)
        <5>1. PICK x, S : x = Version(ws, files, TRUE) /\ S = Versions \cup {x}
          OBVIOUS
        <5>2. x \in S /\ Versions \subseteq S
          BY <5>1
        <5>3. history \in Seq(S)
          <6>1. \A i \in 1 .. l : history[i] \in S
            BY <2>1, <4>1, <5>2, ElementsOf
          <6> QED BY <2>1, <4>1, <6>1
        <5>4. Append(history, x)[Len(history) + 1] = x
          BY <5>2, <5>3, AppendProperties
        <5> QED BY <4>1, <4>2, <5>1, <5>4
      <4>6. Latest' = h[Len(h)]
        BY <4>1 DEF Latest, Last
      <4> QED BY <4>4, <4>5, <4>6 DEF Version
    <3> QED BY <3>7, <3>8, <3>9
  <2>3. ASSUME NEW d \in Clients,
               (\E p \in Paths : doAdd(d, p)) \/ doCreate(d) \/ checkout(d) \/ doCommitClient(d)
        PROVE  FALSE
    <3>1. history' = history
      BY <2>3 DEF doAdd, doCreate, checkout, doCommitClient, server
    <3> QED BY <2>1, <3>1
  <2>4. ASSUME NEW n \in 1 .. MaxVersion, doRollback(n) \/ RollbackStops(n) PROVE FALSE
    BY <2>4 DEF doRollback, RollbackStops, GoBack
  <2> QED BY <2>2, <2>3, <2>4 DEF Next, ClientCommand
<1> QED BY <1>1, ClientInvariant, PTL DEF Spec, PusherInStep
=============================================================================
