------------------------ MODULE SourceSnapshotProofs ------------------------
(***************************************************************************)
(* Proofs about SourceSnapshot, for any paths and manifests and any number *)
(* of changes by the author.                                               *)
(***************************************************************************)
EXTENDS SourceSnapshot, FiniteSetTheorems, SequenceTheorems, TLAPS

(* What holds of the files of a snapshot once it was validated: one for    *)
(* every entry, in their order, with the content of its source, under      *)
(* distinct targets, which are their own where targets are not sources.    *)
Accepted(m, fs) ==
    /\ ~EntriesRefused(m) /\ ~Excludes(m)
    /\ Len(fs) = Len(ManifestIncludeEntries(m))
    /\ \A i \in 1..Len(fs) :
         fs[i].path \in Targets(m) /\ fs[i].from = ManifestIncludeEntries(m)[i].source
    /\ \A i, j \in 1..Len(fs) : i # j => fs[i].path # fs[j].path
    /\ Unchained(m) =>
         \A i \in 1..Len(fs) : fs[i].path = ManifestIncludeEntries(m)[i].target

(* What was read so far is the beginning of the entries. *)
ReadInv ==
    fetch.phase = "reading" =>
        /\ Len(fetch.files) <= Len(Entries)
        /\ \A i \in 1..Len(fetch.files) : fetch.files[i] = FileOf(Entries[i])

AcceptedInv ==
    fetch.phase \in {"fetched", "planned"} => Accepted(fetch.manifest, fetch.files)

IInv == TypeOK /\ ReadInv /\ AcceptedInv

LEMMA EntriesType ==
    ASSUME NEW m \in Manifests
    PROVE  /\ ManifestIncludeEntries(m) \in Seq(Entry)
           /\ Len(ManifestIncludeEntries(m)) \in Nat
           /\ \A i \in 1..Len(ManifestIncludeEntries(m)) : ManifestIncludeEntries(m)[i] \in Entry
<1> DEFINE plain == [i \in 1..Len(m.include) |-> [source |-> m.include[i], target |-> m.include[i]]]
<1>1. m.include \in Seq(Paths) /\ m.mappings \in Seq(Entry)
  BY ManifestsAssumption DEF ManifestSet
<1>2. Len(m.include) \in Nat /\ \A i \in 1..Len(m.include) : m.include[i] \in Paths
  BY <1>1, LenProperties, ElementOfSeq
<1>3. \A i \in 1..Len(m.include) : [source |-> m.include[i], target |-> m.include[i]] \in Entry
  BY <1>2 DEF Entry
<1>4. plain \in Seq(Entry)
  BY <1>2, <1>3
<1>5. ManifestIncludeEntries(m) \in Seq(Entry)
  <2> HIDE DEF plain
  <2>1. plain \o m.mappings \in Seq(Entry)
    BY <1>1, <1>4, ConcatProperties
  <2> QED
    BY <2>1 DEF ManifestIncludeEntries, plain
<1>6. Len(ManifestIncludeEntries(m)) \in Nat
  BY <1>5, LenProperties
<1>7. \A i \in 1..Len(ManifestIncludeEntries(m)) : ManifestIncludeEntries(m)[i] \in Entry
  BY <1>5, ElementOfSeq
<1> QED
  BY <1>5, <1>6, <1>7

LEMMA TargetsType ==
    ASSUME NEW m \in Manifests
    PROVE  Targets(m) \subseteq Paths
  BY EntriesType DEF Targets, Entry

(* Where targets are not sources, a target is renamed to itself. *)
LEMMA TargetsStay ==
    ASSUME NEW m \in Manifests, Unchained(m), NEW i \in 1..Len(ManifestIncludeEntries(m))
    PROVE  Renamed(m, ManifestIncludeEntries(m)[i].target) = ManifestIncludeEntries(m)[i].target
<1> DEFINE es == ManifestIncludeEntries(m)
           n == Len(es)
           p == es[i].target
           Last(k) == es[k].source = p /\ \A j \in (k + 1)..n : es[j].source # p
<1>1. n \in Nat
  BY EntriesType
<1>2. \A k \in 1..n : es[k].source = p => k = i
  BY DEF Unchained
<1>3. CASE es[i].source = p
  <2>1. \A k \in 1..n : Last(k) => k = i
    BY <1>2
  <2>2. Last(i)
    <3>1. \A j \in (i + 1)..n : j \in 1..n /\ j # i
      BY <1>1
    <3> QED
      BY <1>2, <1>3, <3>1
  <2>3. (CHOOSE k \in 1..n : Last(k)) = i
    <3>1. (CHOOSE k \in 1..n : Last(k)) \in 1..n /\ Last(CHOOSE k \in 1..n : Last(k))
      BY <2>2
    <3> QED
      BY <2>1, <3>1
  <2> QED
    BY <1>3, <2>3 DEF Renamed
<1>4. CASE es[i].source # p
  <2>1. ~\E k \in 1..n : es[k].source = p
    BY <1>2, <1>4
  <2> QED
    BY <2>1 DEF Renamed
<1> QED
  BY <1>3, <1>4

(* A validation that accepts leaves such files. *)
LEMMA ValidAccepts ==
    ASSUME NEW m \in Manifests, NEW fs \in Seq(File), Valid(m, fs),
           Len(fs) = Len(ManifestIncludeEntries(m)),
           \A i \in 1..Len(fs) : fs[i].from = ManifestIncludeEntries(m)[i].source,
           Unchained(m) =>
               \A i \in 1..Len(fs) : fs[i].path = ManifestIncludeEntries(m)[i].target
    PROVE  RenameAll(m, fs) \in Seq(File) /\ Accepted(m, RenameAll(m, fs))
<1> DEFINE n == Len(fs)
           gs == RenameAll(m, fs)
<1>1. n \in Nat /\ \A i \in 1..n : fs[i] \in File
  BY LenProperties, ElementOfSeq
<1>2. /\ DOMAIN gs = 1..n
      /\ \A i \in 1..n : gs[i] = [fs[i] EXCEPT !.path = Renamed(m, fs[i].path)]
  BY DEF RenameAll
<1>3. \A i \in 1..n : gs[i].path \in Targets(m) /\ gs[i].path = Renamed(m, fs[i].path)
  <2>1. \A i \in 1..n : gs[i].path = Renamed(m, fs[i].path)
    BY <1>1, <1>2 DEF File
  <2> QED
    BY <2>1 DEF Valid
<1>4. \A i \in 1..n : gs[i].from = fs[i].from
  BY <1>1, <1>2 DEF File
<1>5. \A i \in 1..n : gs[i] \in File
  <2> SUFFICES ASSUME NEW i \in 1..n PROVE gs[i] \in File
    OBVIOUS
  <2>1. gs[i].path \in Paths
    BY <1>3, TargetsType
  <2> QED
    BY <1>1, <1>2, <1>3, <2>1 DEF File
<1>6. gs \in Seq(File) /\ Len(gs) = n
  <2>1. gs = [i \in 1..n |-> gs[i]]
    BY DEF RenameAll
  <2>2. gs \in [1..n -> File]
    BY <1>2, <1>5, <2>1
  <2>3. gs \in Seq(File)
    BY <1>1, <2>2
  <2> QED
    BY <1>1, <1>2, <2>3, LenProperties
<1>7. ASSUME Unchained(m) PROVE \A i \in 1..n : gs[i].path = ManifestIncludeEntries(m)[i].target
  BY <1>3, <1>7, TargetsStay
<1>8. \A i, j \in 1..n : i # j => gs[i].path # gs[j].path
  BY DEF Valid
<1>9. ~EntriesRefused(m) /\ ~Excludes(m)
  BY DEF Valid
<1> HIDE DEF gs, n
<1>10. \A i \in 1..Len(gs) :
         gs[i].path \in Targets(m) /\ gs[i].from = ManifestIncludeEntries(m)[i].source
  BY <1>3, <1>4, <1>6 DEF n
<1>11. Accepted(m, gs)
  BY <1>6, <1>7, <1>8, <1>9, <1>10 DEF Accepted, n
<1> QED
  BY <1>6, <1>11 DEF gs

LEMMA InitIInv == Init => IInv
<1> SUFFICES ASSUME Init PROVE IInv
  OBVIOUS
<1>1. PICK m \in Manifests :
        fetch = [phase |-> "idle", manifest |-> m, archive |-> {}, local |-> TRUE, files |-> <<>>]
  BY DEF Init
<1>2. fetch \in Fetches
  BY <1>1, EmptySeq DEF Fetches
<1> QED
  BY <1>1, <1>2 DEF Init, IInv, TypeOK, ReadInv, AcceptedInv

LEMMA RefuseIInv ==
    ASSUME IInv, Refuse
    PROVE  IInv'
<1>1. fetch \in Fetches
  BY DEF IInv, TypeOK
<1>2. fetch' \in Fetches /\ fetch'.phase = "refused"
  BY <1>1, EmptySeq DEF Refuse, Become, Fetches
<1> QED
  BY <1>2 DEF IInv, TypeOK, ReadInv, AcceptedInv, Refuse, Become

LEMMA StartIInv ==
    ASSUME IInv, Start
    PROVE  IInv'
<1>1. fetch \in Fetches /\ tree \subseteq Paths /\ edits \in Nat
  BY DEF IInv, TypeOK
<1>2. PICK local \in BOOLEAN :
        Become([fetch EXCEPT
             !.phase = IF EntriesRefused(fetch.manifest) THEN "refused" ELSE "reading",
             !.archive = IF local THEN {} ELSE tree,
             !.local = local, !.files = <<>>])
  BY DEF Start
<1>3. fetch' \in Fetches /\ fetch'.files = <<>> /\ fetch'.phase \in {"refused", "reading"}
      /\ fetch'.manifest = fetch.manifest
  BY <1>1, <1>2, EmptySeq, Zenon DEF Become, Fetches
<1>4. TypeOK'
  BY <1>1, <1>2, <1>3 DEF TypeOK, Become
<1>5. ReadInv'
  <2>1. Len(fetch'.files) = 0
    BY <1>3, EmptySeq
  <2>2. fetch.manifest \in Manifests
    BY <1>1 DEF Fetches
  <2>3. Len(ManifestIncludeEntries(fetch'.manifest)) \in Nat
    BY <1>3, <2>2, EntriesType
  <2> QED
    BY <2>1, <2>3 DEF ReadInv, Entries
<1>6. AcceptedInv'
  BY <1>3 DEF AcceptedInv
<1> QED
  BY <1>4, <1>5, <1>6 DEF IInv

LEMMA ReadFileIInv ==
    ASSUME IInv, ReadFile
    PROVE  IInv'
<1> DEFINE n == Len(fetch.files)
           e == Entries[n + 1]
<1>1. fetch \in Fetches /\ fetch.phase = "reading" /\ n < Len(Entries)
  BY DEF IInv, TypeOK, ReadFile
<1>2. fetch.manifest \in Manifests /\ fetch.files \in Seq(File)
  BY <1>1 DEF Fetches
<1>3. n \in Nat /\ Len(Entries) \in Nat /\ n + 1 \in 1..Len(Entries)
  <2>1. n \in Nat /\ Len(Entries) \in Nat
    BY <1>2, LenProperties, EntriesType DEF Entries
  <2> QED
    BY <1>1, <2>1
<1>4. e \in Entry
  BY <1>2, <1>3, EntriesType DEF Entries
<1>5. CASE e.source \notin Readable
  BY <1>5, RefuseIInv DEF ReadFile
<1>6. CASE e.source \in Readable
  <2>1. Become([fetch EXCEPT !.files = Append(@, FileOf(e))])
    BY <1>6 DEF ReadFile
  <2>2. FileOf(e) \in File
    BY <1>4 DEF FileOf, File, Entry
  <2> DEFINE gs == Append(fetch.files, FileOf(e))
  <2>3. /\ gs \in Seq(File) /\ Len(gs) = n + 1
        /\ \A i \in 1..n : gs[i] = fetch.files[i]
        /\ gs[n + 1] = FileOf(e)
    BY <1>2, <2>2, AppendProperties
  <2>4. fetch' = [fetch EXCEPT !.files = gs] /\ UNCHANGED <<tree, edits>>
    BY <2>1 DEF Become
  <2> HIDE DEF gs
  <2>5. fetch' \in Fetches /\ fetch'.files = gs /\ fetch'.phase = "reading"
        /\ fetch'.manifest = fetch.manifest
    BY <1>1, <2>3, <2>4 DEF Fetches
  <2>6. TypeOK'
    BY <2>4, <2>5 DEF IInv, TypeOK
  <2>7. ReadInv'
    <3>1. Entries' = Entries
      BY <2>5 DEF Entries
    <3>2. \A i \in 1..n : fetch.files[i] = FileOf(Entries[i])
      BY <1>1 DEF IInv, ReadInv
    <3>3. \A i \in 1..(n + 1) : i \in 1..n \/ i = n + 1
      BY <1>3
    <3>4. \A i \in 1..(n + 1) : gs[i] = FileOf(Entries[i])
      BY <2>3, <3>2, <3>3
    <3>5. Len(gs) <= Len(Entries)
      BY <1>3, <2>3
    <3> HIDE DEF n, e
    <3> QED
      BY <2>3, <2>5, <3>1, <3>4, <3>5 DEF ReadInv, FileOf
  <2>8. AcceptedInv'
    BY <2>5 DEF AcceptedInv
  <2> QED
    BY <2>6, <2>7, <2>8 DEF IInv
<1> QED
  BY <1>5, <1>6

(* Either validation: of the entries' files, or of accepted ones. *)
LEMMA ValidateIInv ==
    ASSUME IInv, NEW next \in {"fetched", "planned"}, Validate(next),
           Len(fetch.files) = Len(Entries),
           \A i \in 1..Len(fetch.files) : fetch.files[i].from = Entries[i].source,
           Unchained(fetch.manifest) =>
               \A i \in 1..Len(fetch.files) : fetch.files[i].path = Entries[i].target
    PROVE  IInv'
<1>1. fetch \in Fetches
  BY DEF IInv, TypeOK
<1>2. fetch.manifest \in Manifests /\ fetch.files \in Seq(File)
  BY <1>1 DEF Fetches
<1>3. CASE ~Valid(fetch.manifest, fetch.files)
  BY <1>3, RefuseIInv DEF Validate
<1>4. CASE Valid(fetch.manifest, fetch.files)
  <2> DEFINE gs == RenameAll(fetch.manifest, fetch.files)
  <2>1. gs \in Seq(File) /\ Accepted(fetch.manifest, gs)
    BY <1>2, <1>4, ValidAccepts DEF Entries
  <2>2. fetch' = [fetch EXCEPT !.phase = next, !.files = gs] /\ UNCHANGED <<tree, edits>>
    BY <1>4 DEF Validate, Become
  <2> HIDE DEF gs
  <2>3. fetch' \in Fetches /\ fetch'.files = gs /\ fetch'.phase = next
        /\ fetch'.manifest = fetch.manifest
    BY <1>1, <2>1, <2>2 DEF Fetches
  <2>4. TypeOK'
    BY <2>2, <2>3 DEF IInv, TypeOK
  <2>5. ReadInv' /\ AcceptedInv'
    BY <2>1, <2>3 DEF ReadInv, AcceptedInv
  <2> QED
    BY <2>4, <2>5 DEF IInv
<1> QED
  BY <1>3, <1>4

LEMMA ReturnSnapshotIInv ==
    ASSUME IInv, ReturnSnapshot
    PROVE  IInv'
<1>1. \A i \in 1..Len(fetch.files) : fetch.files[i] = FileOf(Entries[i])
  BY DEF IInv, ReadInv, ReturnSnapshot
<1>2. \A i \in 1..Len(fetch.files) :
        fetch.files[i].from = Entries[i].source /\ fetch.files[i].path = Entries[i].target
  <2> SUFFICES ASSUME NEW i \in 1..Len(fetch.files)
               PROVE  /\ fetch.files[i].from = Entries[i].source
                      /\ fetch.files[i].path = Entries[i].target
    OBVIOUS
  <2>1. fetch.files[i] = [path |-> Entries[i].target, from |-> Entries[i].source]
    BY <1>1 DEF FileOf
  <2> QED
    BY <2>1
<1> QED
  BY <1>2, ValidateIInv DEF ReturnSnapshot

LEMMA BuildPlanIInv ==
    ASSUME IInv, BuildPlan
    PROVE  IInv'
<1>1. Accepted(fetch.manifest, fetch.files)
  BY DEF IInv, AcceptedInv, BuildPlan
<1> QED
  BY <1>1, ValidateIInv DEF BuildPlan, Accepted, Entries

LEMMA NextIInv ==
    ASSUME IInv, [Next]_vars
    PROVE  IInv'
<1>1. CASE Start
  BY <1>1, StartIInv
<1>2. CASE ReadFile
  BY <1>2, ReadFileIInv
<1>3. CASE Cancel
  BY <1>3, RefuseIInv DEF Cancel
<1>4. CASE ReturnSnapshot
  BY <1>4, ReturnSnapshotIInv
<1>5. CASE BuildPlan
  BY <1>5, BuildPlanIInv
<1>6. CASE EditTree
  <2>1. PICK p \in Paths : tree' = IF p \in tree THEN tree \ {p} ELSE tree \union {p}
    BY <1>6 DEF EditTree
  <2>2. fetch' = fetch /\ edits' = edits + 1
    BY <1>6 DEF EditTree
  <2>3. TypeOK'
    BY <2>1, <2>2 DEF IInv, TypeOK
  <2> QED
    BY <2>2, <2>3 DEF IInv, ReadInv, AcceptedInv, Entries
<1>7. CASE UNCHANGED vars
  BY <1>7 DEF vars, IInv, TypeOK, ReadInv, AcceptedInv, Entries
<1> QED
  BY <1>1, <1>2, <1>3, <1>4, <1>5, <1>6, <1>7 DEF Next

LEMMA IInvAlways == Spec => []IInv
  BY InitIInv, NextIInv, PTL DEF Spec

(* Every state is well typed. *)
THEOREM TypeCorrect == Spec => []TypeOK
<1>1. IInv => TypeOK
  BY DEF IInv
<1> QED
  BY <1>1, IInvAlways, PTL

(* As many distinct targets as there are entries are all the targets. *)
LEMMA AcceptedDeclared ==
    ASSUME NEW m \in Manifests, NEW fs \in Seq(File), Accepted(m, fs)
    PROVE  {fs[i].path : i \in 1..Len(fs)} = Targets(m)
<1> DEFINE es == ManifestIncludeEntries(m)
           n == Len(es)
           f == [i \in 1..n |-> fs[i].path]
           g == [i \in 1..n |-> es[i].target]
<1>1. n \in Nat /\ Len(fs) = n
  BY EntriesType DEF Accepted
<1>2. IsFiniteSet(1..n)
  BY <1>1, FS_Interval
<1>3. f \in Injection(1..n, Targets(m))
  <2>1. f \in [1..n -> Targets(m)]
    BY <1>1 DEF Accepted
  <2>2. \A i, j \in 1..n : f[i] = f[j] => i = j
    BY <1>1 DEF Accepted
  <2> QED
    BY <2>1, <2>2 DEF Injection, IsInjective
<1>4. g \in Surjection(1..n, Targets(m))
  <2>1. g \in [1..n -> Targets(m)] /\ \A t \in Targets(m) : \E i \in 1..n : g[i] = t
    BY DEF Targets
  <2> QED
    BY <2>1 DEF Surjection
<1>5. g \in Injection(1..n, Targets(m))
  <2>1. g \in [1..n -> Targets(m)]
    BY DEF Targets
  <2>2. \A i, j \in 1..n : g[i] = g[j] => i = j
    BY DEF Accepted, EntriesRefused
  <2> QED
    BY <2>1, <2>2 DEF Injection, IsInjective
<1>6. IsFiniteSet(Targets(m)) /\ Cardinality(Targets(m)) = Cardinality(1..n)
  BY <1>2, <1>4, <1>5, FS_Surjection
<1>7. f \in Surjection(1..n, Targets(m))
  BY <1>3, <1>6, FS_Injection
<1>8. \A t \in Targets(m) : \E i \in 1..n : f[i] = t
  BY <1>7 DEF Surjection
<1> QED
  BY <1>1, <1>8 DEF Accepted

(* A plan has the targets the manifest declares, each once, whatever the   *)
(* mappings and whatever changed while a local template was read.          *)
THEOREM DeclaredPayloadPlanned == Spec => []PlansDeclaredPayload
<1>1. IInv => PlansDeclaredPayload
  <2> SUFFICES ASSUME IInv, fetch.phase = "planned" PROVE PlansDeclaredPayload
    BY DEF PlansDeclaredPayload
  <2>1. fetch.manifest \in Manifests /\ fetch.files \in Seq(File)
    BY DEF IInv, TypeOK, Fetches
  <2>2. Accepted(fetch.manifest, fetch.files)
    BY DEF IInv, AcceptedInv
  <2>3. {fetch.files[i].path : i \in 1..Len(fetch.files)} = Targets(fetch.manifest)
    BY <2>1, <2>2, AcceptedDeclared
  <2> QED
    BY <2>2, <2>3 DEF Accepted, PlansDeclaredPayload
<1> QED
  BY <1>1, IInvAlways, PTL

(* Where no target is another entry's source, every target is planned with *)
(* the bytes of its source.                                                *)
THEOREM BytesFromSource == Spec => []BytesComeFromSource
<1>1. IInv => BytesComeFromSource
  <2> SUFFICES ASSUME IInv, fetch.phase = "planned", Unchained(fetch.manifest),
                      NEW i \in 1..Len(Entries)
               PROVE  \E k \in 1..Len(fetch.files) :
                        fetch.files[k] = [path |-> Entries[i].target, from |-> Entries[i].source]
    BY DEF BytesComeFromSource
  <2>1. fetch.files \in Seq(File)
    BY DEF IInv, TypeOK, Fetches
  <2>2. Accepted(fetch.manifest, fetch.files)
    BY DEF IInv, AcceptedInv
  <2>3. i \in 1..Len(fetch.files) /\ fetch.files[i].path = Entries[i].target
        /\ fetch.files[i].from = Entries[i].source
    BY <2>2 DEF Accepted, Entries
  <2>4. fetch.files[i] \in File
    BY <2>1, <2>3, ElementOfSeq
  <2>5. fetch.files[i] = [path |-> Entries[i].target, from |-> Entries[i].source]
    BY <2>3, <2>4 DEF File
  <2> QED
    BY <2>3, <2>5
<1> QED
  BY <1>1, IInvAlways, PTL

(* Nothing private or excluded is planned under any name. *)
THEOREM ExcludedStaysOut == Spec => []NothingExcludedEnters
<1>1. IInv => NothingExcludedEnters
  <2> SUFFICES ASSUME IInv, fetch.phase = "planned", NEW i \in 1..Len(fetch.files)
               PROVE  {fetch.files[i].path, fetch.files[i].from}
                          \intersect (Private \union fetch.manifest.exclude) = {}
    BY DEF NothingExcludedEnters
  <2> DEFINE es == ManifestIncludeEntries(fetch.manifest)
  <2>1. Accepted(fetch.manifest, fetch.files)
    BY DEF IInv, AcceptedInv
  <2>2. PICK k \in 1..Len(es) : fetch.files[i].path = es[k].target
    BY <2>1 DEF Accepted, Targets
  <2>3. i \in 1..Len(es) /\ fetch.files[i].from = es[i].source
    BY <2>1 DEF Accepted
  <2>4. \A j \in 1..Len(es) : {es[j].source, es[j].target}
            \intersect (Private \union fetch.manifest.exclude) = {}
    BY <2>1 DEF Accepted, EntriesRefused, Excludes
  <2> QED
    BY <2>2, <2>3, <2>4
<1> QED
  BY <1>1, IInvAlways, PTL
=============================================================================
