-------------------------- MODULE HarvestWalkProofs --------------------------
(* Proofs about the dependency harvester, for any set of paths, any allowlist *)
(* and any page and stylesheets: cyclic, repeated and relative references     *)
(* included.                                                                  *)
EXTENDS HarvestWalk, FiniteSetTheorems, TLAPS

\* The entries of a queue.
Entries(q) == {q[i] : i \in DOMAIN q}

QueueRefs == [form : Forms, path : Paths \cup {NoPath}, css : BOOLEAN]

\* The walk takes the head of its queue.
LEMMA HeadAndTail ==
    ASSUME NEW q \in Seq(QueueRefs), q # <<>>
    PROVE  /\ Head(q) \in QueueRefs /\ Tail(q) \in Seq(QueueRefs)
           /\ Entries(q) = {Head(q)} \cup Entries(Tail(q))
<1>1. Head(q) \in QueueRefs /\ Tail(q) \in Seq(QueueRefs) /\ Len(q) \in Nat \ {0} /\ Len(Tail(q)) = Len(q) - 1
  OBVIOUS
<1>2. /\ q[1] = Head(q) /\ DOMAIN q = 1..Len(q) /\ DOMAIN Tail(q) = 1..Len(Tail(q))
      /\ \A i \in 1..(Len(q) - 1) : Tail(q)[i] = q[i + 1]
  OBVIOUS
<1>3. ASSUME NEW i \in DOMAIN q PROVE q[i] \in {Head(q)} \cup Entries(Tail(q))
  <2>1. CASE i = 1
    BY <1>2, <2>1
  <2>2. CASE i # 1
    <3>1. i - 1 \in DOMAIN Tail(q) /\ Tail(q)[i - 1] = q[i]
      BY <1>1, <1>2, <2>2
    <3> QED BY <3>1 DEF Entries
  <2> QED BY <2>1, <2>2
<1>4. ASSUME NEW i \in DOMAIN Tail(q) PROVE Tail(q)[i] \in Entries(q)
  <2>1. i + 1 \in DOMAIN q /\ Tail(q)[i] = q[i + 1]
    BY <1>1, <1>2
  <2> QED BY <2>1 DEF Entries
<1>5. Head(q) \in Entries(q)
  BY <1>1, <1>2 DEF Entries
<1> QED BY <1>1, <1>3, <1>4, <1>5 DEF Entries

\* Append adds one entry.
LEMMA EntriesAppend ==
    ASSUME NEW q \in Seq(QueueRefs), NEW r \in QueueRefs
    PROVE  /\ Append(q, r) \in Seq(QueueRefs)
           /\ Entries(Append(q, r)) = Entries(q) \cup {r}
<1>1. /\ Append(q, r) \in Seq(QueueRefs) /\ Len(q) \in Nat
      /\ DOMAIN q = 1..Len(q) /\ DOMAIN Append(q, r) = 1..(Len(q) + 1)
      /\ \A i \in 1..Len(q) : Append(q, r)[i] = q[i]
      /\ Append(q, r)[Len(q) + 1] = r
  OBVIOUS
<1>2. Entries(Append(q, r)) \subseteq Entries(q) \cup {r}
  BY <1>1 DEF Entries
<1>3. Entries(q) \cup {r} \subseteq Entries(Append(q, r))
  BY <1>1 DEF Entries
<1> QED BY <1>1, <1>2, <1>3

\* Concatenation joins the entries.
LEMMA EntriesConcat ==
    ASSUME NEW q \in Seq(QueueRefs), NEW s \in Seq(QueueRefs)
    PROVE  /\ q \o s \in Seq(QueueRefs)
           /\ Entries(q \o s) = Entries(q) \cup Entries(s)
<1>1. /\ q \o s \in Seq(QueueRefs) /\ Len(q) \in Nat /\ Len(s) \in Nat
      /\ DOMAIN q = 1..Len(q) /\ DOMAIN s = 1..Len(s)
      /\ DOMAIN (q \o s) = 1..(Len(q) + Len(s))
      /\ \A i \in 1..Len(q) : (q \o s)[i] = q[i]
      /\ \A i \in (Len(q) + 1)..(Len(q) + Len(s)) : (q \o s)[i] = s[i - Len(q)]
  OBVIOUS
<1>2. ASSUME NEW i \in DOMAIN (q \o s) PROVE (q \o s)[i] \in Entries(q) \cup Entries(s)
  <2>1. CASE i \in 1..Len(q)
    BY <1>1, <2>1 DEF Entries
  <2>2. CASE i \notin 1..Len(q)
    <3>1. i - Len(q) \in DOMAIN s /\ (q \o s)[i] = s[i - Len(q)]
      BY <1>1, <2>2
    <3> QED BY <3>1 DEF Entries
  <2> QED BY <2>1, <2>2
<1>3. ASSUME NEW i \in DOMAIN q PROVE q[i] \in Entries(q \o s)
  BY <1>1 DEF Entries
<1>4. ASSUME NEW i \in DOMAIN s PROVE s[i] \in Entries(q \o s)
  <2>1. Len(q) + i \in DOMAIN (q \o s) /\ (q \o s)[Len(q) + i] = s[i]
    BY <1>1
  <2> QED BY <2>1 DEF Entries
<1> QED BY <1>1, <1>2, <1>3, <1>4 DEF Entries

\* Extract lists the references of a body, each with the mark of its origin.
LEMMA ExtractEntries ==
    ASSUME NEW body \in Seq(Refs), NEW css \in BOOLEAN
    PROVE  /\ Extract(body, css) \in Seq(QueueRefs)
           /\ \A r \in Entries(Extract(body, css)) :
                 /\ r.css = css
                 /\ \E i \in DOMAIN body : body[i].form = r.form /\ body[i].path = r.path
           /\ \A i \in DOMAIN body : \E r \in Entries(Extract(body, css)) :
                 r.css = css /\ r.form = body[i].form /\ r.path = body[i].path
<1>1. /\ DOMAIN body = 1..Len(body) /\ Len(body) \in Nat
      /\ \A i \in DOMAIN body : body[i] \in Refs
  OBVIOUS
<1>2. \A i \in DOMAIN body : [form |-> body[i].form, path |-> body[i].path, css |-> css] \in QueueRefs
  BY <1>1 DEF Refs, QueueRefs
<1>3. Extract(body, css) \in Seq(QueueRefs)
  BY <1>1, <1>2 DEF Extract
<1> QED BY <1>3 DEF Extract, Entries

-----------------------------------------------------------------------------
(* Type correctness *)

\* What a step of the walk looks at.
LEMMA LookingAt ==
    ASSUME WalkTypeOK, Looking
    PROVE  /\ phase = "walk"
           /\ Current \in QueueRefs /\ Tail(queue) \in Seq(QueueRefs)
           /\ Entries(queue) = {Current} \cup Entries(Tail(queue))
  BY HeadAndTail DEF WalkTypeOK, Looking, Current, QueueRefs

\* The bodies are sequences of references.
LEMMA BodyType ==
    ASSUME WalkTypeOK
    PROVE  page \in Seq(Refs) /\ \A p \in Paths : Body(p) \in Seq(Refs)
<1>1. page \in Seq(Refs) /\ \A p \in CSS : sheet[p] \in Seq(Refs)
  BY BodiesType DEF WalkTypeOK
<1>2. <<>> \in Seq(Refs)
  OBVIOUS
<1> QED BY <1>1, <1>2 DEF Body

\* appendFile adds one file, and the walk goes on with the rest or fails.
LEMMA AppendFileType ==
    ASSUME WalkTypeOK, phase = "walk", NEW p \in Paths, NEW source \in {"origin", "external"},
           NEW rest \in Seq(QueueRefs), AppendFile(p, source, rest)
    PROVE  /\ UNCHANGED <<page, sheet>>
           /\ files' = files \cup {[path |-> p, src |-> source]}
           /\ files' \subseteq [path : Paths, src : {"origin", "external"}]
           /\ total' = total + Size[p] /\ total' \in Nat
           /\ queue' \in Seq(QueueRefs)
           /\ \/ phase' = "walk" /\ err' = NoErr /\ queue' = rest /\ ~Exceeds(total')
              \/ phase' = "failed" /\ err' = "VALIDATION_FAILED"
<1>1. Size[p] \in Nat /\ total \in Nat
  BY SizesType DEF WalkTypeOK
<1>2. [path |-> p, src |-> source] \in [path : Paths, src : {"origin", "external"}]
  OBVIOUS
<1>3. /\ files' = files \cup {[path |-> p, src |-> source]}
      /\ total' = total + Size[p]
  BY DEF AppendFile
<1>4. /\ UNCHANGED <<page, sheet>>
      /\ \/ phase' = "walk" /\ err' = NoErr /\ queue' = rest /\ ~Exceeds(total + Size[p])
         \/ phase' = "failed" /\ err' = "VALIDATION_FAILED" /\ queue' = queue
  BY DEF AppendFile, FailWith, WalkTypeOK
<1>5. Exceeds(total + Size[p]) <=> Exceeds(total')
  BY <1>3
<1> QED BY <1>1, <1>2, <1>3, <1>4, <1>5 DEF WalkTypeOK, QueueRefs

\* Every step of the walk keeps the types.
LEMMA WalkTypeStep == WalkTypeOK /\ [Next]_vars => WalkTypeOK'
<1> SUFFICES ASSUME WalkTypeOK, [Next]_vars PROVE WalkTypeOK'
  OBVIOUS
<1>0. /\ \A c \in HarvestCodes \cup RenderCodes : c # NoErr
      /\ {"UNRESOLVED_ASSET_REF", "UNSUPPORTED_DYNAMIC_IMAGE_OPTIMIZER",
          "PATH_TRAVERSAL_DETECTED", "VALIDATION_FAILED"} \subseteq HarvestCodes
  BY DEF HarvestCodes, RenderCodes, NoErr
<1>1. CASE GuardPage
  <2>1. Extract(page, FALSE) \in Seq(QueueRefs)
    BY BodyType, ExtractEntries
  <2>2. queue' \in Seq(QueueRefs)
    BY <1>1, <2>1 DEF GuardPage, WalkTypeOK, QueueRefs
  <2> QED BY <1>0, <1>1, <2>2 DEF GuardPage, FailWith, WalkTypeOK, QueueRefs
<1>2. CASE Skip
  BY <1>2, LookingAt DEF Skip, WalkTypeOK, QueueRefs
<1>3. CASE Resolve
  <2>1. [form |-> "same", path |-> Current.path, css |-> FALSE] \in QueueRefs
    BY <1>3, LookingAt DEF Resolve, QueueRefs, Forms
  <2>2. queue' \in Seq(QueueRefs)
    BY <1>3, <2>1, LookingAt, EntriesAppend DEF Resolve
  <2> QED BY <1>3, <2>2 DEF Resolve, WalkTypeOK, QueueRefs
<1>4. CASE Reject
  BY <1>0, <1>4 DEF Reject, FailWith, WalkTypeOK
<1>5. CASE HarvestSameOrigin
  <2> DEFINE p == Current.path
  <2>1. p \in Paths /\ phase = "walk" /\ Looking /\ visited' = visited \cup {p}
    BY <1>5, PathsType DEF HarvestSameOrigin, Fresh, Looking
  <2>2. CASE Has(Body(p), "asset")
    BY <1>0, <1>5, <2>1, <2>2 DEF HarvestSameOrigin, FailWith, WalkTypeOK
  <2>3. CASE ~Has(Body(p), "asset")
    <3>1. Extract(Body(p), TRUE) \in Seq(QueueRefs)
      BY <2>1, BodyType, ExtractEntries
    <3>2. Tail(queue) \o Extract(Body(p), TRUE) \in Seq(QueueRefs)
      BY <2>1, <3>1, LookingAt, EntriesConcat
    <3>3. AppendFile(p, "origin", Tail(queue) \o Extract(Body(p), TRUE))
      BY <1>5, <2>3 DEF HarvestSameOrigin
    <3> HIDE DEF p
    <3> QED BY <1>0, <2>1, <3>2, <3>3, AppendFileType DEF WalkTypeOK, QueueRefs
  <2> QED BY <2>2, <2>3
<1>6. CASE HarvestExternal
  <2> DEFINE p == Current.path
  <2>1. p \in Paths \cup {NoPath} /\ Looking /\ phase = "walk"
    BY <1>6, LookingAt DEF HarvestExternal, QueueRefs
  <2>2. CASE p = NoPath
    BY <1>0, <1>6, <2>2 DEF HarvestExternal, FailWith, WalkTypeOK
  <2>3. CASE p # NoPath /\ p \in visited
    BY <1>6, <2>1, <2>3, LookingAt DEF HarvestExternal, WalkTypeOK, QueueRefs
  <2>4. CASE p # NoPath /\ p \notin visited
    <3>1. AppendFile(p, "external", Tail(queue)) /\ visited' = visited \cup {p}
      BY <1>6, <2>4 DEF HarvestExternal
    <3>2. p \in Paths /\ Tail(queue) \in Seq(QueueRefs)
      BY <2>1, <2>4, LookingAt
    <3> HIDE DEF p
    <3> QED BY <1>0, <2>1, <3>1, <3>2, AppendFileType DEF WalkTypeOK, QueueRefs
  <2> QED BY <2>2, <2>3, <2>4
<1>7. CASE FetchFails
  BY <1>0, <1>7, PathsType DEF FetchFails, FailWith, Fresh, WalkTypeOK
<1>8. CASE Finish
  BY <1>8 DEF Finish, WalkTypeOK
<1>9. CASE UNCHANGED vars
  BY <1>9 DEF vars, WalkTypeOK
<1> QED BY <1>1, <1>2, <1>3, <1>4, <1>5, <1>6, <1>7, <1>8, <1>9 DEF Next

\* Type correctness of the walk: a path that was rejected is never fetched, and
\* an error ends the walk (harvest.go Run).
THEOREM WalkTypeCorrect == Spec => []WalkTypeOK
<1>1. Init => WalkTypeOK
  BY SizesType DEF Init, WalkTypeOK, NoErr
<1> QED BY <1>1, WalkTypeStep, PTL DEF Spec

-----------------------------------------------------------------------------
(* One file per path *)

\* The path of every file was marked.
FilesVisited == \A f \in files : f.path \in visited

\* What a step does to the result: nothing, or one file at a fresh path.
LEMMA FilesStep ==
    ASSUME WalkTypeOK, [Next]_vars
    PROVE  /\ UNCHANGED <<page, sheet>> /\ visited \subseteq visited'
           /\ \/ files' = files
              \/ \E p \in Paths \ visited, source \in {"origin", "external"} :
                    /\ files' = files \cup {[path |-> p, src |-> source]}
                    /\ visited' = visited \cup {p}
<1>1. CASE HarvestSameOrigin
  <2> DEFINE p == Current.path
  <2>1. /\ p \in Paths \ visited /\ phase = "walk" /\ Looking /\ visited' = visited \cup {p}
    BY <1>1, PathsType DEF HarvestSameOrigin, Fresh, Looking
  <2>2. \/ UNCHANGED <<page, sheet, files>>
        \/ AppendFile(p, "origin", Tail(queue) \o Extract(Body(p), TRUE))
    BY <1>1 DEF HarvestSameOrigin, FailWith
  <2>3. UNCHANGED <<page, sheet>> /\ files' \in {files, files \cup {[path |-> p, src |-> "origin"]}}
    BY <2>2 DEF AppendFile, FailWith
  <2> QED BY <2>1, <2>3
<1>2. CASE HarvestExternal
  <2> DEFINE p == Current.path
  <2>1. p \in Paths \cup {NoPath}
    BY <1>2, LookingAt DEF HarvestExternal, QueueRefs
  <2>2. CASE p = NoPath \/ p \in visited
    BY <1>2, <2>2 DEF HarvestExternal, FailWith
  <2>3. CASE p # NoPath /\ p \notin visited
    <3>1. AppendFile(p, "external", Tail(queue)) /\ visited' = visited \cup {p}
      BY <1>2, <2>3 DEF HarvestExternal
    <3>2. UNCHANGED <<page, sheet>> /\ files' = files \cup {[path |-> p, src |-> "external"]}
      BY <3>1 DEF AppendFile, FailWith
    <3> QED BY <2>1, <2>3, <3>1, <3>2
  <2> QED BY <2>2, <2>3
<1>3. CASE GuardPage \/ Skip \/ Resolve \/ Reject \/ FetchFails \/ Finish \/ UNCHANGED vars
  BY <1>3 DEF GuardPage, Skip, Resolve, Reject, FetchFails, Finish, FailWith, vars
<1> QED BY <1>1, <1>2, <1>3 DEF Next

\* No step publishes a file whose path is not visited, or two under one path.
LEMMA FilesVisitedStep ==
    WalkTypeOK /\ FilesVisited /\ OnePathOneFile /\ [Next]_vars => FilesVisited' /\ OnePathOneFile'
<1> SUFFICES ASSUME WalkTypeOK, FilesVisited, OnePathOneFile, [Next]_vars
             PROVE  FilesVisited' /\ OnePathOneFile'
  OBVIOUS
<1>1. CASE files' = files
  BY <1>1, FilesStep DEF FilesVisited, OnePathOneFile
<1>2. ASSUME NEW p \in Paths \ visited, NEW source \in {"origin", "external"},
             files' = files \cup {[path |-> p, src |-> source]},
             visited' = visited \cup {p}
      PROVE  FilesVisited' /\ OnePathOneFile'
  BY <1>2 DEF FilesVisited, OnePathOneFile
<1> QED BY <1>1, <1>2, FilesStep

\* No two harvested files have the same path, whatever the page and its
\* stylesheets refer to (the visited set of Run).
THEOREM PathsAreDistinct == Spec => []OnePathOneFile
<1>1. Init => FilesVisited /\ OnePathOneFile
  BY DEF Init, FilesVisited, OnePathOneFile
<1> QED BY <1>1, WalkTypeCorrect, FilesVisitedStep, PTL DEF Spec

-----------------------------------------------------------------------------
(* The walk finds exactly the dependencies *)

\* Dependencies is closed, and within every closed set.
LEMMA DependenciesLeast ==
    /\ Dependencies \subseteq Allowed
    /\ Closed(Dependencies)
    /\ \A S \in SUBSET Allowed : Closed(S) => Dependencies \subseteq S
<1>1. Dependencies \subseteq Allowed /\ \A S \in SUBSET Allowed : Closed(S) => Dependencies \subseteq S
  BY DEF Dependencies
<1>2. PageNames \subseteq Dependencies
  BY DEF Dependencies, Closed, PageNames
<1>3. ASSUME NEW p \in Dependencies PROVE SheetNames(p) \subseteq Dependencies
  BY DEF Dependencies, Closed, SheetNames
<1> QED BY <1>1, <1>2, <1>3 DEF Closed

\* A queue entry that names a same-origin path.
NamesPath(r) == r.form = "same" \/ (r.form = "relative" /\ r.css)

\* Only dependencies are queued and harvested: nothing else is taken.
OnlyDependencies ==
    /\ \A r \in Entries(queue) :
          /\ NamesPath(r) /\ r.path \in Allowed => r.path \in Dependencies
          /\ r.form = "external" /\ r.path # NoPath => r.path \in Mirrors
    /\ \A f \in files : IF f.src = "origin" THEN f.path \in Dependencies ELSE f.path \in Mirrors

\* A same-origin path the walk has visited or will look at.
Reached(p) == p \in visited \/ \E r \in Entries(queue) : NamesPath(r) /\ r.path = p

\* The same for the path of a mirrored URL.
MirrorReached(p) == p \in visited \/ \E r \in Entries(queue) : r.form = "external" /\ r.path = p

\* Nothing that was read is forgotten: while the walk goes on, every name of the
\* page and of a harvested stylesheet was visited or is queued.
NothingForgotten ==
    phase \in {"walk", "done"} =>
        /\ \A p \in PageNames : Reached(p)
        /\ \A f \in files : f.src = "origin" => \A p \in SheetNames(f.path) : Reached(p)
        /\ \A p \in Named(page, {"external"}) \ {NoPath} : MirrorReached(p)
        /\ \A f \in files : f.src = "origin" =>
              \A p \in Named(Body(f.path), {"external"}) \ {NoPath} : MirrorReached(p)

\* Every path that was marked has its file.
VisitedHasFile ==
    phase \in {"walk", "done"} => \A p \in visited : \E f \in files : f.path = p

\* The queue is empty at the end, and there are no files before the walk.
PhaseOfQueue ==
    /\ phase = "start" => queue = <<>> /\ files = {} /\ visited = {}
    /\ phase = "done" => queue = <<>>

WalkInv == OnlyDependencies /\ NothingForgotten /\ VisitedHasFile /\ PhaseOfQueue

\* The end of the walk: the same-origin files form a closed set of
\* dependencies, hence all of them, and the mirrored ones are the rest.
LEMMA WalkInvSuffices ==
    ASSUME WalkTypeOK, WalkInv PROVE HarvestExact
<1> SUFFICES ASSUME phase = "done", ~Collides
             PROVE  files = {[path |-> p, src |-> "origin"] : p \in Dependencies}
                              \cup {[path |-> p, src |-> "external"] : p \in Mirrors}
  BY DEF HarvestExact
<1> DEFINE O == {p \in Paths : [path |-> p, src |-> "origin"] \in files}
           E == {p \in Paths : [path |-> p, src |-> "external"] \in files}
<1>1. \A f \in files : /\ f.path \in Paths
                       /\ f = [path |-> f.path, src |-> f.src]
                       /\ f.src \in {"origin", "external"}
  BY DEF WalkTypeOK
<1>2. Entries(queue) = {}
  BY DEF WalkInv, PhaseOfQueue, Entries
<1>3. \A p \in visited : p \in O \cup E
  BY <1>1 DEF WalkInv, VisitedHasFile
<1>4. O \subseteq Dependencies /\ E \subseteq Mirrors
  BY DEF WalkInv, OnlyDependencies
<1>5. /\ PageNames \subseteq visited
      /\ \A p \in O : SheetNames(p) \subseteq visited
      /\ Named(page, {"external"}) \ {NoPath} \subseteq visited
      /\ \A p \in O : Named(Body(p), {"external"}) \ {NoPath} \subseteq visited
  BY <1>2 DEF WalkInv, NothingForgotten, Reached, MirrorReached
<1>6. \A p \in visited : p \in Dependencies => p \in O
  BY <1>3, <1>4 DEF Collides
<1>7. Closed(O)
  <2>1. PageNames \subseteq O
    BY <1>5, <1>6, DependenciesLeast DEF Closed
  <2>2. ASSUME NEW p \in O PROVE SheetNames(p) \subseteq O
    <3>1. SheetNames(p) \subseteq Dependencies
      BY <1>4, DependenciesLeast DEF Closed
    <3> QED BY <1>5, <1>6, <3>1
  <2> QED BY <2>1, <2>2 DEF Closed
<1>8. O = Dependencies
  <2>1. O \in SUBSET Allowed
    BY <1>4, DependenciesLeast
  <2> HIDE DEF O
  <2> QED BY <1>4, <1>7, <2>1, DependenciesLeast
<1>9. E = Mirrors
  <2>1. ASSUME NEW p \in Mirrors PROVE p \in E
    <3>1. p \in visited
      BY <1>5, <1>8 DEF Mirrors
    <3>2. p \notin O
      BY <1>8 DEF Collides
    <3> QED BY <1>3, <3>1, <3>2
  <2> QED BY <1>4, <2>1
<1>10. files = {[path |-> p, src |-> "origin"] : p \in O} \cup {[path |-> p, src |-> "external"] : p \in E}
  BY <1>1
<1> QED BY <1>8, <1>9, <1>10

\* The bodies never change, and so neither does what they depend on.
LEMMA BodiesStay ==
    ASSUME UNCHANGED <<page, sheet>>
    PROVE  /\ PageNames' = PageNames /\ \A p : SheetNames(p)' = SheetNames(p) /\ Body(p)' = Body(p)
           /\ Dependencies' = Dependencies /\ Mirrors' = Mirrors
<1>1. \A p : Body(p)' = Body(p)
  BY DEF Body
<1>2. PageNames' = PageNames /\ \A p : SheetNames(p)' = SheetNames(p)
  BY <1>1 DEF PageNames, SheetNames
<1>3. \A S : Closed(S)' <=> Closed(S)
  BY <1>2 DEF Closed
<1>4. Dependencies' = Dependencies
  BY <1>3 DEF Dependencies
<1>5. Mirrors' = Mirrors
  BY <1>1, <1>4 DEF Mirrors
<1> QED BY <1>1, <1>2, <1>4, <1>5

\* A step that takes an entry off the queue, visits no path and loses only
\* what was visited or need not be.
LEMMA WalkInvFrame ==
    ASSUME WalkTypeOK, WalkInv, phase = "walk", phase' = "walk",
           UNCHANGED <<page, sheet, visited, files>>,
           \A r \in Entries(queue') : \/ r \in Entries(queue)
                                     \/ /\ r.form = "same"
                                        /\ \E s \in Entries(queue) : NamesPath(s) /\ s.path = r.path,
           \A r \in Entries(queue) :
               \/ r \in Entries(queue') \/ r.path \in visited
               \/ ~NamesPath(r) /\ r.form # "external"
               \/ NamesPath(r) /\ \E s \in Entries(queue') : NamesPath(s) /\ s.path = r.path
               \/ NamesPath(r) /\ r.path \notin Allowed
    PROVE  WalkInv'
<1>1. /\ PageNames' = PageNames /\ \A p : SheetNames(p)' = SheetNames(p) /\ Body(p)' = Body(p)
      /\ Dependencies' = Dependencies /\ Mirrors' = Mirrors
  BY BodiesStay
<1>2. OnlyDependencies'
  BY <1>1 DEF WalkInv, OnlyDependencies, NamesPath
<1>3. \A p \in Allowed : Reached(p) => Reached(p)'
  BY DEF Reached
<1>4. \A p : MirrorReached(p) => MirrorReached(p)'
  BY DEF MirrorReached, NamesPath
<1>5. NothingForgotten'
  BY <1>1, <1>3, <1>4 DEF WalkInv, NothingForgotten, PageNames, SheetNames
<1>6. VisitedHasFile' /\ PhaseOfQueue'
  BY DEF WalkInv, VisitedHasFile, PhaseOfQueue
<1> QED BY <1>2, <1>5, <1>6 DEF WalkInv

\* A walk that failed promises nothing but what it has taken.
LEMMA WalkInvFailed ==
    ASSUME WalkInv, phase' = "failed", UNCHANGED <<page, sheet>>,
           Entries(queue') \subseteq Entries(queue),
           \A f \in files' : f \in files \/ (IF f.src = "origin" THEN f.path \in Dependencies ELSE f.path \in Mirrors)
    PROVE  WalkInv'
  BY BodiesStay DEF WalkInv, OnlyDependencies, NothingForgotten, VisitedHasFile, PhaseOfQueue

\* The references of the page are queued.
LEMMA WalkInvGuard ==
    ASSUME WalkTypeOK, WalkInv, GuardPage PROVE WalkInv'
<1>1. UNCHANGED <<page, sheet, visited, files, total>> /\ phase = "start" /\ files = {} /\ visited = {}
  BY DEF GuardPage, FailWith, WalkInv, PhaseOfQueue
<1>2. CASE phase' = "failed"
  <2>1. queue' = queue
    BY <1>2 DEF GuardPage, FailWith
  <2> QED BY <1>1, <1>2, <2>1, WalkInvFailed
<1>3. CASE phase' # "failed"
  <2>1. phase' = "walk" /\ queue' = Extract(page, FALSE)
    BY <1>3 DEF GuardPage, FailWith
  <2>2. page \in Seq(Refs)
    BY BodyType
  <2>3. /\ \A r \in Entries(queue') :
              /\ r.css = FALSE
              /\ \E i \in DOMAIN page : page[i].form = r.form /\ page[i].path = r.path
        /\ \A i \in DOMAIN page : \E r \in Entries(queue') :
              r.css = FALSE /\ r.form = page[i].form /\ r.path = page[i].path
    <3>1. /\ \A r \in Entries(Extract(page, FALSE)) :
              /\ r.css = FALSE
              /\ \E i \in DOMAIN page : page[i].form = r.form /\ page[i].path = r.path
          /\ \A i \in DOMAIN page : \E r \in Entries(Extract(page, FALSE)) :
              r.css = FALSE /\ r.form = page[i].form /\ r.path = page[i].path
      BY <2>2, ExtractEntries
    <3> QED BY <2>1, <3>1
  <2>4. \A r \in Entries(queue') : NamesPath(r) /\ r.path \in Allowed => r.path \in PageNames
    BY <2>3 DEF NamesPath, PageNames, Named
  <2>5. \A r \in Entries(queue') : r.form = "external" => r.path \in Named(page, {"external"})
    BY <2>3 DEF Named
  <2>6. OnlyDependencies'
    BY <1>1, <2>4, <2>5, BodiesStay, DependenciesLeast DEF OnlyDependencies, Closed, Mirrors
  <2>7. \A p \in PageNames : Reached(p)'
    BY <2>3 DEF PageNames, Named, Reached, NamesPath
  <2>8. \A p \in Named(page, {"external"}) : MirrorReached(p)'
    BY <2>3 DEF Named, MirrorReached
  <2>9. NothingForgotten'
    BY <1>1, <2>7, <2>8, BodiesStay DEF NothingForgotten
  <2> QED BY <1>1, <2>1, <2>6, <2>9 DEF WalkInv, VisitedHasFile, PhaseOfQueue
<1> QED BY <1>2, <1>3

\* A same-origin file is taken: the names of a stylesheet are queued with it.
LEMMA WalkInvSameOrigin ==
    ASSUME WalkTypeOK, WalkInv, HarvestSameOrigin PROVE WalkInv'
<1> PICK p : p = Current.path
  OBVIOUS
<1>1. /\ Looking /\ phase = "walk" /\ Current.form = "same" /\ p \in Allowed \ visited /\ p \in Paths
      /\ visited' = visited \cup {p}
  BY PathsType DEF HarvestSameOrigin, Fresh, Looking
<1>2. /\ Tail(queue) \in Seq(QueueRefs)
      /\ Entries(queue) = {Current} \cup Entries(Tail(queue))
  BY <1>1, LookingAt
<1>3. p \in Dependencies
  BY <1>1, <1>2 DEF WalkInv, OnlyDependencies, NamesPath
<1>4. CASE Has(Body(p), "asset")
  <2>1. phase' = "failed" /\ UNCHANGED <<page, sheet, queue, files>>
    BY <1>4 DEF HarvestSameOrigin, FailWith
  <2> QED BY <2>1, WalkInvFailed
<1>5. CASE ~Has(Body(p), "asset")
  <2>1. AppendFile(p, "origin", Tail(queue) \o Extract(Body(p), TRUE))
    BY <1>5 DEF HarvestSameOrigin
  <2>2. UNCHANGED <<page, sheet>> /\ files' = files \cup {[path |-> p, src |-> "origin"]}
    BY <2>1 DEF AppendFile, FailWith
  <2>3. CASE phase' = "failed"
    <3>1. queue' = queue
      BY <1>1, <2>1, <2>3 DEF AppendFile, FailWith
    <3> QED BY <1>3, <2>2, <2>3, <3>1, WalkInvFailed
  <2>4. CASE phase' # "failed"
    <3>1. phase' = "walk" /\ queue' = Tail(queue) \o Extract(Body(p), TRUE)
      BY <1>1, <2>1, <2>4 DEF AppendFile, FailWith
    <3>2. Body(p) \in Seq(Refs)
      BY <1>1, BodyType
    <3> DEFINE new == Entries(Extract(Body(p), TRUE))
    <3>3. /\ Extract(Body(p), TRUE) \in Seq(QueueRefs)
          /\ \A r \in new :
              /\ r.css = TRUE
              /\ \E i \in DOMAIN Body(p) : Body(p)[i].form = r.form /\ Body(p)[i].path = r.path
          /\ \A i \in DOMAIN Body(p) : \E r \in new :
              r.css = TRUE /\ r.form = Body(p)[i].form /\ r.path = Body(p)[i].path
      BY <3>2, ExtractEntries
    <3>4. Entries(queue') = Entries(Tail(queue)) \cup new
      BY <1>2, <3>1, <3>3, EntriesConcat
    <3> HIDE DEF new
    <3>5. \A r \in new : NamesPath(r) /\ r.path \in Allowed => r.path \in SheetNames(p)
      BY <3>3 DEF NamesPath, SheetNames, Named
    <3>6. \A r \in new : r.form = "external" => r.path \in Named(Body(p), {"external"})
      BY <3>3 DEF Named
    <3>7. OnlyDependencies'
      <4>1. SheetNames(p) \subseteq Dependencies /\ Named(Body(p), {"external"}) \ {NoPath} \subseteq Mirrors
        BY <1>3, DependenciesLeast DEF Closed, Mirrors
      <4>2. Dependencies' = Dependencies /\ Mirrors' = Mirrors
        BY <2>2, BodiesStay
      <4>3. \A r \in Entries(queue') :
               /\ NamesPath(r) /\ r.path \in Allowed => r.path \in Dependencies
               /\ r.form = "external" /\ r.path # NoPath => r.path \in Mirrors
        BY <1>2, <3>4, <3>5, <3>6, <4>1 DEF WalkInv, OnlyDependencies
      <4>4. \A f \in files' : IF f.src = "origin" THEN f.path \in Dependencies ELSE f.path \in Mirrors
        BY <1>3, <2>2 DEF WalkInv, OnlyDependencies
      <4> QED BY <4>2, <4>3, <4>4 DEF OnlyDependencies
    <3>8. \A q : Reached(q) => Reached(q)'
      BY <1>1, <1>2, <3>4 DEF Reached
    <3>9. \A q : MirrorReached(q) => MirrorReached(q)'
      BY <1>1, <1>2, <3>4 DEF MirrorReached
    <3>10. \A q \in SheetNames(p) : Reached(q)'
      BY <3>3, <3>4 DEF SheetNames, Named, Reached, NamesPath
    <3>11. \A q \in Named(Body(p), {"external"}) : MirrorReached(q)'
      BY <3>3, <3>4 DEF Named, MirrorReached
    <3>12. NothingForgotten'
      <4>1. PageNames' = PageNames /\ \A q : SheetNames(q)' = SheetNames(q) /\ Body(q)' = Body(q)
        BY <2>2, BodiesStay
      <4>2. \A f \in files' : f \in files \/ f.path = p
        BY <2>2
      <4> QED BY <1>1, <2>2, <3>8, <3>9, <3>10, <3>11, <4>1, <4>2 DEF WalkInv, NothingForgotten
    <3>13. VisitedHasFile' /\ PhaseOfQueue'
      <4>1. \E f \in files' : f.path = p
        <5>1. [path |-> p, src |-> "origin"] \in files' /\ [path |-> p, src |-> "origin"].path = p
          BY <2>2
        <5> QED BY <5>1
      <4> QED BY <1>1, <2>2, <3>1, <4>1 DEF WalkInv, VisitedHasFile, PhaseOfQueue
    <3> QED BY <3>7, <3>12, <3>13 DEF WalkInv
  <2> QED BY <2>3, <2>4
<1> QED BY <1>4, <1>5

\* A mirrored URL is taken, dropped when its path is taken, or rejected.
LEMMA WalkInvExternal ==
    ASSUME WalkTypeOK, WalkInv, HarvestExternal PROVE WalkInv'
<1> PICK p : p = Current.path
  OBVIOUS
<1>1. Looking /\ phase = "walk" /\ Current.form = "external" /\ p \in Paths \cup {NoPath}
  BY LookingAt DEF HarvestExternal, Looking, QueueRefs
<1>2. Entries(queue) = {Current} \cup Entries(Tail(queue))
  BY <1>1, LookingAt
<1>3. CASE p = NoPath
  <2>1. phase' = "failed" /\ UNCHANGED <<page, sheet, queue, files>>
    BY <1>3 DEF HarvestExternal, FailWith
  <2> QED BY <2>1, WalkInvFailed
<1>4. CASE p # NoPath /\ p \in visited
  <2>1. queue' = Tail(queue) /\ UNCHANGED <<page, sheet, visited, files, phase>>
    BY <1>4 DEF HarvestExternal
  <2> QED BY <1>1, <1>2, <1>4, <2>1, WalkInvFrame
<1>5. CASE p # NoPath /\ p \notin visited
  <2>1. AppendFile(p, "external", Tail(queue)) /\ visited' = visited \cup {p}
    BY <1>5 DEF HarvestExternal
  <2>2. UNCHANGED <<page, sheet>> /\ files' = files \cup {[path |-> p, src |-> "external"]}
    BY <2>1 DEF AppendFile, FailWith
  <2>3. p \in Mirrors
    BY <1>1, <1>2, <1>5 DEF WalkInv, OnlyDependencies
  <2>4. CASE phase' = "failed"
    <3>1. queue' = queue
      BY <1>1, <2>1, <2>4 DEF AppendFile, FailWith
    <3> QED BY <2>2, <2>3, <2>4, <3>1, WalkInvFailed
  <2>5. CASE phase' # "failed"
    <3>1. phase' = "walk" /\ queue' = Tail(queue)
      BY <1>1, <2>1, <2>5 DEF AppendFile, FailWith
    <3>2. PageNames' = PageNames /\ (\A q : SheetNames(q)' = SheetNames(q) /\ Body(q)' = Body(q))
          /\ Dependencies' = Dependencies /\ Mirrors' = Mirrors
      BY <2>2, BodiesStay
    <3>3. OnlyDependencies'
      BY <1>2, <2>2, <2>3, <3>1, <3>2 DEF WalkInv, OnlyDependencies
    <3>4. \A q : Reached(q) => Reached(q)'
      BY <1>1, <1>2, <2>1, <3>1 DEF Reached, NamesPath
    <3>5. \A q : MirrorReached(q) => MirrorReached(q)'
      BY <1>1, <1>2, <2>1, <3>1 DEF MirrorReached
    <3>6. \A f \in files' : f \in files \/ f.src # "origin"
      BY <2>2
    <3>7. NothingForgotten'
      BY <1>1, <2>2, <3>2, <3>4, <3>5, <3>6 DEF WalkInv, NothingForgotten
    <3>8. VisitedHasFile' /\ PhaseOfQueue'
      <4>1. \E f \in files' : f.path = p
        <5>1. [path |-> p, src |-> "external"] \in files' /\ [path |-> p, src |-> "external"].path = p
          BY <2>2
        <5> QED BY <5>1
      <4> QED BY <1>1, <2>1, <2>2, <3>1, <4>1 DEF WalkInv, VisitedHasFile, PhaseOfQueue
    <3> QED BY <3>3, <3>7, <3>8 DEF WalkInv
  <2> QED BY <2>4, <2>5
<1> QED BY <1>3, <1>4, <1>5

\* Every step of the walk keeps its invariant.
LEMMA WalkInvStep == WalkTypeOK /\ WalkInv /\ [Next]_vars => WalkInv'
<1> SUFFICES ASSUME WalkTypeOK, WalkInv, [Next]_vars PROVE WalkInv'
  OBVIOUS
<1>1. CASE Skip
  <2>1. Looking /\ phase = "walk" /\ Skips(Current) /\ queue' = Tail(queue)
        /\ UNCHANGED <<page, sheet, visited, files, phase>>
    BY <1>1 DEF Skip, Looking
  <2>2. Entries(queue) = {Current} \cup Entries(queue')
    BY <2>1, LookingAt
  <2> QED BY <2>1, <2>2, WalkInvFrame DEF Skips, NamesPath
<1>2. CASE Resolve
  <2> DEFINE r == [form |-> "same", path |-> Current.path, css |-> FALSE]
  <2>1. Looking /\ phase = "walk" /\ queue' = Append(Tail(queue), r)
        /\ UNCHANGED <<page, sheet, visited, files, phase>> /\ NamesPath(Current)
        /\ Current.form = "relative"
    BY <1>2 DEF Resolve, Looking, NamesPath
  <2>2. r \in QueueRefs /\ Tail(queue) \in Seq(QueueRefs)
        /\ Entries(queue) = {Current} \cup Entries(Tail(queue))
    BY <2>1, LookingAt DEF QueueRefs, Forms
  <2>3. Entries(queue') = Entries(Tail(queue)) \cup {r}
    BY <2>1, <2>2, EntriesAppend
  <2>4. NamesPath(r) /\ r.path = Current.path /\ r.form = "same"
    BY DEF NamesPath
  <2> HIDE DEF r
  <2> QED BY <2>1, <2>2, <2>3, <2>4, WalkInvFrame
<1>3. CASE Reject \/ FetchFails
  <2>1. phase' = "failed" /\ UNCHANGED <<page, sheet, queue, files>>
    BY <1>3 DEF Reject, FetchFails, FailWith
  <2> QED BY <2>1, WalkInvFailed
<1>4. CASE Finish
  <2>1. phase = "walk" /\ phase' = "done" /\ queue = <<>> /\ UNCHANGED <<page, sheet, queue, visited, files>>
    BY <1>4 DEF Finish
  <2>2. \A p : (Reached(p)' <=> Reached(p)) /\ (MirrorReached(p)' <=> MirrorReached(p))
    BY <2>1 DEF Reached, MirrorReached
  <2> QED BY <2>1, <2>2, BodiesStay
          DEF WalkInv, OnlyDependencies, NothingForgotten, VisitedHasFile, PhaseOfQueue
<1>5. CASE UNCHANGED vars
  <2>1. UNCHANGED <<page, sheet, queue, visited, files, phase>>
    BY <1>5 DEF vars
  <2>2. \A p : (Reached(p)' <=> Reached(p)) /\ (MirrorReached(p)' <=> MirrorReached(p))
    BY <2>1 DEF Reached, MirrorReached
  <2> QED BY <2>1, <2>2, BodiesStay
          DEF WalkInv, OnlyDependencies, NothingForgotten, VisitedHasFile, PhaseOfQueue
<1> QED BY <1>1, <1>2, <1>3, <1>4, <1>5, WalkInvGuard, WalkInvSameOrigin, WalkInvExternal DEF Next

\* A walk that succeeds returns exactly the dependencies of the page: the least
\* set that holds the page's allowlisted names and those of its stylesheets,
\* and the mirrored URLs they name, unless two of them have one path (Run).
THEOREM WalkIsExact == Spec => []HarvestExact
<1>1. Init => WalkInv
  BY DEF Init, WalkInv, OnlyDependencies, NothingForgotten, VisitedHasFile, PhaseOfQueue, Entries
<1>2. WalkTypeOK /\ WalkInv => HarvestExact
  BY WalkInvSuffices
<1> QED BY <1>1, <1>2, WalkTypeCorrect, WalkInvStep, PTL DEF Spec

-----------------------------------------------------------------------------
(* The byte limit *)

\* One more file adds its size.
LEMMA BytesOfOneMore ==
    ASSUME NEW S, NEW f, f \notin S, Size[f.path] \in Nat, IsFiniteSet(BytesOf(S))
    PROVE  /\ IsFiniteSet(BytesOf(S \cup {f}))
           /\ Cardinality(BytesOf(S \cup {f})) = Cardinality(BytesOf(S)) + Size[f.path]
<1> DEFINE B == BytesOf(S)
           N == {f} \X (1..Size[f.path])
<1>1. BytesOf(S \cup {f}) = B \cup N
  BY DEF BytesOf
<1>2. B \cap N = {}
  BY DEF BytesOf
<1>3. IsFiniteSet({f}) /\ Cardinality({f}) = 1
  BY FS_Singleton
<1>4. PICK n \in Nat : n = Size[f.path]
  OBVIOUS
<1>5. IsFiniteSet(N) /\ Cardinality(N) = n
  <2>1. n \in Int /\ 1 \in Int
    BY <1>4
  <2>2. IsFiniteSet(1..n) /\ Cardinality(1..n) = IF 1 > n THEN 0 ELSE n - 1 + 1
    BY <2>1, FS_Interval
  <2>3. Cardinality(1..n) = n
    BY <1>4, <2>2
  <2>4. IsFiniteSet({f} \X (1..n)) /\ Cardinality({f} \X (1..n)) = 1 * n
    BY <1>3, <2>2, <2>3, FS_Product
  <2>5. N = {f} \X (1..n) /\ 1 * n = n
    BY <1>4
  <2> QED BY <2>4, <2>5
<1> HIDE DEF B, N
<1>6. /\ IsFiniteSet(B \cup N)
      /\ Cardinality(B \cup N) = Cardinality(B) + Cardinality(N) - Cardinality(B \cap N)
  BY <1>5, FS_Union DEF B
<1>7. Cardinality(B) \in Nat /\ Cardinality({}) = 0
  BY FS_CardinalityType, FS_EmptySet DEF B
<1>8. Cardinality(B \cup N) = Cardinality(B) + Size[f.path]
  <2>1. Cardinality(B \cap N) = 0
    BY <1>2, <1>7
  <2> QED BY <1>4, <1>5, <1>6, <1>7, <2>1
<1> QED BY <1>1, <1>6, <1>8 DEF B

\* total counts every byte once, and is within the limit while the walk goes on.
Counted ==
    /\ IsFiniteSet(BytesOf(files)) /\ total = ArtifactBytes
    /\ phase \in {"start", "walk", "done"} /\ ~Exceeds(PageSize) => ~Exceeds(total)

\* Only appendFile counts, and it checks what it counted.
LEMMA TotalStep ==
    ASSUME WalkTypeOK, [Next]_vars
    PROVE  \/ /\ UNCHANGED <<files, total>>
              /\ phase' \in {"start", "walk", "done"} => phase \in {"start", "walk", "done"}
           \/ \E p \in Paths \ visited, source \in {"origin", "external"} :
                 /\ files' = files \cup {[path |-> p, src |-> source]}
                 /\ total' = total + Size[p]
                 /\ phase' = "failed" \/ ~Exceeds(total')
<1>1. CASE HarvestSameOrigin
  <2> DEFINE p == Current.path
  <2>1. /\ p \in Paths \ visited /\ phase = "walk" /\ Looking
    BY <1>1, PathsType DEF HarvestSameOrigin, Fresh, Looking
  <2>2. CASE Has(Body(p), "asset")
    BY <1>1, <2>1, <2>2 DEF HarvestSameOrigin, FailWith
  <2>3. CASE ~Has(Body(p), "asset")
    <3>1. AppendFile(p, "origin", Tail(queue) \o Extract(Body(p), TRUE))
      BY <1>1, <2>3 DEF HarvestSameOrigin
    <3>2. /\ files' = files \cup {[path |-> p, src |-> "origin"]}
          /\ total' = total + Size[p]
          /\ phase' = "failed" \/ ~Exceeds(total')
      BY <3>1 DEF AppendFile, FailWith
    <3> QED BY <2>1, <3>2
  <2> QED BY <2>2, <2>3
<1>2. CASE HarvestExternal
  <2> DEFINE p == Current.path
  <2>1. p \in Paths \cup {NoPath} /\ phase = "walk"
    BY <1>2, LookingAt DEF HarvestExternal, QueueRefs
  <2>2. CASE p = NoPath \/ p \in visited
    BY <1>2, <2>1, <2>2 DEF HarvestExternal, FailWith
  <2>3. CASE p # NoPath /\ p \notin visited
    <3>1. AppendFile(p, "external", Tail(queue))
      BY <1>2, <2>3 DEF HarvestExternal
    <3>2. /\ files' = files \cup {[path |-> p, src |-> "external"]}
          /\ total' = total + Size[p]
          /\ phase' = "failed" \/ ~Exceeds(total')
      BY <3>1 DEF AppendFile, FailWith
    <3> QED BY <2>1, <2>3, <3>2
  <2> QED BY <2>2, <2>3
<1>3. CASE GuardPage \/ Skip \/ Resolve \/ Reject \/ FetchFails \/ Finish \/ UNCHANGED vars
  BY <1>3 DEF GuardPage, Skip, Resolve, Reject, FetchFails, Finish, FailWith, Looking, vars
<1> QED BY <1>1, <1>2, <1>3 DEF Next

\* Every step keeps the byte count within the limit.
LEMMA CountedStep == WalkTypeOK /\ FilesVisited /\ Counted /\ [Next]_vars => Counted'
<1> SUFFICES ASSUME WalkTypeOK, FilesVisited, Counted, [Next]_vars PROVE Counted'
  OBVIOUS
<1>1. CASE /\ UNCHANGED <<files, total>>
           /\ phase' \in {"start", "walk", "done"} => phase \in {"start", "walk", "done"}
  BY <1>1 DEF Counted, ArtifactBytes, Exceeds
<1>2. ASSUME NEW p \in Paths \ visited, NEW source \in {"origin", "external"},
             files' = files \cup {[path |-> p, src |-> source]},
             total' = total + Size[p],
             phase' = "failed" \/ ~Exceeds(total')
      PROVE  Counted'
  <2> DEFINE f == [path |-> p, src |-> source]
  <2>1. f.path = p /\ f \notin files /\ Size[p] \in Nat /\ IsFiniteSet(BytesOf(files))
    BY SizesType DEF FilesVisited, Counted
  <2>2. /\ IsFiniteSet(BytesOf(files \cup {f}))
        /\ Cardinality(BytesOf(files \cup {f})) = Cardinality(BytesOf(files)) + Size[p]
    <3> HIDE DEF f
    <3> QED BY <2>1, BytesOfOneMore
  <2>3. Cardinality(BytesOf(files)) \in Nat
    BY <2>1, FS_CardinalityType
  <2>4. BytesOf(files)' = BytesOf(files \cup {f})
    BY <1>2 DEF BytesOf
  <2> HIDE DEF f
  <2>5. total' = ArtifactBytes'
    BY <1>2, <2>1, <2>2, <2>3, <2>4, SizesType DEF Counted, ArtifactBytes
  <2> QED BY <1>2, <2>2, <2>4, <2>5 DEF Counted
<1> QED BY <1>1, <1>2, TotalStep

\* An artifact that passed the walk is within MAX_TOTAL_ARTIFACT_BYTES together
\* with its page: total is the number of its bytes, and appendFile compares it
\* after every file.
THEOREM LimitHolds == Spec => []WithinLimit
<1>1. Init => FilesVisited /\ OnePathOneFile /\ Counted
  <2> SUFFICES ASSUME Init PROVE FilesVisited /\ OnePathOneFile /\ Counted
    OBVIOUS
  <2>1. BytesOf(files) = {}
    BY DEF Init, BytesOf
  <2>2. IsFiniteSet(BytesOf(files)) /\ Cardinality(BytesOf(files)) = 0
    BY <2>1, FS_EmptySet
  <2> QED BY <2>2, SizesType DEF Init, FilesVisited, OnePathOneFile, Counted, ArtifactBytes
<1>2. Counted => WithinLimit
  BY DEF Counted, WithinLimit
<1> QED BY <1>1, <1>2, WalkTypeCorrect, FilesVisitedStep, CountedStep, PTL DEF Spec
=============================================================================
