----------------------------- MODULE HarvestWalk -----------------------------
(***************************************************************************)
(* The dependency harvester (internal/harvest, Harvester.Run): a walk over *)
(* the references of a rendered page and of the stylesheets it finds, with *)
(* a queue of references and a set of visited paths, under the byte limit  *)
(* of the artifact.  Export (internal/export) adds the page to the result. *)
(*                                                                         *)
(* A body is the sequence of its references.  A reference is what the walk *)
(* makes of its text: the branch it takes (form) and the artifact path it  *)
(* names (path), NoPath when NormalizePath rejects that path.              *)
(***************************************************************************)
EXTENDS Naturals, Sequences, FiniteSets, ErrClass

CONSTANTS
    Paths,          \* artifact paths
    Allowed,        \* the paths DEPENDENCY_ALLOWLIST admits
    CSS,            \* the same-origin paths that serve a stylesheet (isCSS)
    Pages,          \* what a page may refer to: sequences of references
    Sheets,         \* what a stylesheet may refer to
    Size,           \* the size of the body at each path
    PageSize,       \* len(pageHTML)
    MaxTotalBytes   \* MAX_TOTAL_ARTIFACT_BYTES; 0 disables the limit

NoPath == "none"

\* inert: data:, blob:, mailto:, #, ..., an unparseable or not allowlisted
\* external URL.  asset: asset://; masked: the same, where a guard on the text
\* of the body does not see it (an HTML entity in it).  image: /_next/image.
\* same: a path with a leading slash.  relative: any other path; its path is
\* the one it names below the directory of the stylesheet (a relative way to
\* /_next/image is left out).  external: an allowlisted URL.
Forms == {"inert", "asset", "masked", "image", "same", "relative", "external"}
Refs  == [form : Forms, path : Paths \cup {NoPath}]

ASSUME PathsType == /\ Allowed \subseteq Paths /\ CSS \subseteq Paths
                    /\ NoPath \notin Paths
ASSUME BodiesType == Pages \subseteq Seq(Refs) /\ Sheets \subseteq Seq(Refs)
ASSUME SizesType == /\ Size \in [Paths -> Nat] /\ PageSize \in Nat
                    /\ MaxTotalBytes \in Nat

VARIABLES
    page,           \* the references of the page (never changes)
    sheet,          \* the references of each stylesheet (never changes)
    queue,          \* references still to look at; css: has it a baseDir
    visited,
    files,          \* the files harvested, src tells where a body came from
    total,          \* totalBytes
    phase,          \* start, walk, done, failed
    err             \* the code of the error returned

vars == <<page, sheet, queue, visited, files, total, phase, err>>

NoErr == "none"

WalkTypeOK ==
    /\ page \in Pages
    /\ sheet \in [CSS -> Sheets]
    /\ queue \in Seq([form : Forms, path : Paths \cup {NoPath}, css : BOOLEAN])
    /\ visited \subseteq Paths
    /\ files \subseteq [path : Paths, src : {"origin", "external"}]
    /\ total \in Nat
    /\ phase \in {"start", "walk", "done", "failed"}
    /\ err \in HarvestCodes \cup RenderCodes \cup {NoErr}
    /\ err # NoErr <=> phase = "failed"

Init ==
    /\ page \in Pages
    /\ sheet \in [CSS -> Sheets]
    /\ queue = <<>>
    /\ visited = {}
    /\ files = {}
    /\ total = PageSize
    /\ phase = "start"
    /\ err = NoErr

-----------------------------------------------------------------------------

Has(body, form) == \E i \in DOMAIN body : body[i].form = form

\* ExtractHTMLRefs, ExtractCSSURLs: the references of a body as queue entries.
Extract(body, css) ==
    [i \in DOMAIN body |-> [form |-> body[i].form, path |-> body[i].path, css |-> css]]

\* Slip: the error is noted and the walk goes on.
FailWithGoingOn(c) ==
    /\ phase' = "walk"
    /\ err' = c
    /\ UNCHANGED <<page, sheet>>

\* Run: return nil, err
FailWith(c) ==
    /\ phase' = "failed"
    /\ err' = c
    /\ UNCHANGED <<page, sheet>>

\* GuardHTML, then the references of the page in document order.
GuardPage ==
    /\ phase = "start"
    /\ \/ /\ Has(page, "asset")
          /\ FailWith("UNRESOLVED_ASSET_REF")
          /\ UNCHANGED queue
       \/ /\ ~Has(page, "asset") /\ Has(page, "image")
          /\ FailWith("UNSUPPORTED_DYNAMIC_IMAGE_OPTIMIZER")
          /\ UNCHANGED queue
       \/ /\ ~Has(page, "asset") /\ ~Has(page, "image")
          /\ queue' = Extract(page, FALSE)
          /\ phase' = "walk"
          /\ UNCHANGED <<page, sheet, err>>
    /\ UNCHANGED <<visited, files, total>>

Current == Head(queue)

\* The walk looks at the next reference.
Looking == phase = "walk" /\ queue # <<>>

\* Run: nothing to fetch, or a relative reference of the page.
Skips(r) ==
    \/ r.form = "inert"
    \/ r.form = "relative" /\ ~r.css
    \/ r.form = "same" /\ r.path # NoPath /\ (r.path \notin Allowed \/ r.path \in visited)

Skip ==
    /\ Looking
    /\ Skips(Current)
    /\ queue' = Tail(queue)
    /\ UNCHANGED <<page, sheet, visited, files, total, phase, err>>

\* Slip: the joined reference is still taken for a relative one.
ResolveNothing ==
    /\ Looking
    /\ Current.form = "relative" /\ Current.css
    /\ queue' = Append(Tail(queue), Current)
    /\ UNCHANGED <<page, sheet, visited, files, total, phase, err>>

\* Run: a reference relative to its stylesheet goes to the end of the queue as
\* an absolute one.
Resolve ==
    /\ Looking
    /\ Current.form = "relative" /\ Current.css
    /\ queue' = Append(Tail(queue), [form |-> "same", path |-> Current.path, css |-> FALSE])
    /\ UNCHANGED <<page, sheet, visited, files, total, phase, err>>

\* Run, harvestSameOrigin: references that end the walk.
Reject ==
    /\ Looking
    /\ \/ Current.form = "image" /\ FailWith("UNSUPPORTED_DYNAMIC_IMAGE_OPTIMIZER")
       \/ Current.form = "masked" /\ FailWith("UNRESOLVED_ASSET_REF")
       \/ /\ Current.form = "same" /\ Current.path = NoPath
          /\ FailWith("PATH_TRAVERSAL_DETECTED")
    /\ UNCHANGED <<queue, visited, files, total>>

Exceeds(bytes) == MaxTotalBytes > 0 /\ bytes > MaxTotalBytes

\* Slip: the limit is compared before the file is counted.
AppendFileLate(p, source, rest) ==
    /\ files' = files \cup {[path |-> p, src |-> source]}
    /\ total' = total + Size[p]
    /\ IF Exceeds(total)
       THEN FailWith("VALIDATION_FAILED") /\ UNCHANGED queue
       ELSE queue' = rest /\ UNCHANGED <<page, sheet, phase, err>>

\* Run, appendFile: the limit is checked after the file was counted; rest is
\* the queue when it is not exceeded.
AppendFile(p, source, rest) ==
    /\ files' = files \cup {[path |-> p, src |-> source]}
    /\ total' = total + Size[p]
    /\ IF Exceeds(total + Size[p])
       THEN FailWith("VALIDATION_FAILED") /\ UNCHANGED queue
       ELSE queue' = rest /\ UNCHANGED <<page, sheet, phase, err>>

\* harvestSameOrigin: an allowlisted path that was not visited yet.
Fresh(r) == r.form = "same" /\ r.path \in Allowed \ visited

\* The references of the body at p; only a stylesheet is looked into.
Body(p) == IF p \in CSS THEN sheet[p] ELSE <<>>

\* Slip: a stylesheet's references are not followed.
HarvestSameOriginFlat ==
    LET p == Current.path
    IN  /\ Looking
        /\ Fresh(Current)
        /\ visited' = visited \cup {p}
        /\ AppendFile(p, "origin", Tail(queue))

\* harvestSameOrigin: mark, fetch, guard and look into a stylesheet.
HarvestSameOrigin ==
    LET p == Current.path
    IN  /\ Looking
        /\ Fresh(Current)
        /\ visited' = visited \cup {p}
        /\ \/ /\ Has(Body(p), "asset")
              /\ FailWith("UNRESOLVED_ASSET_REF")
              /\ UNCHANGED <<queue, files, total>>
           \/ /\ ~Has(Body(p), "asset")
              /\ AppendFile(p, "origin", Tail(queue) \o Extract(Body(p), TRUE))

\* Slip: a mirrored file is kept whether or not its path is taken.
HarvestExternalTwice ==
    LET p == Current.path
    IN  /\ Looking
        /\ Current.form = "external" /\ p # NoPath
        /\ visited' = visited \cup {p}
        /\ AppendFile(p, "external", Tail(queue))

\* harvestExternal and its case in Run: the file is fetched first, and dropped
\* when its path is taken.  It is never looked into.
HarvestExternal ==
    LET p == Current.path
    IN  /\ Looking
        /\ Current.form = "external"
        /\ \/ /\ p = NoPath
              /\ FailWith("PATH_TRAVERSAL_DETECTED")
              /\ UNCHANGED <<queue, visited, files, total>>
           \/ /\ p # NoPath /\ p \in visited
              /\ queue' = Tail(queue)
              /\ UNCHANGED <<page, sheet, visited, files, total, phase, err>>
           \/ /\ p # NoPath /\ p \notin visited
              /\ visited' = visited \cup {p}
              /\ AppendFile(p, "external", Tail(queue))

\* The fetch of the current reference fails.
FetchFails ==
    /\ Looking
    /\ \/ /\ Fresh(Current)
          /\ visited' = visited \cup {Current.path}
          /\ \E c \in RenderCodes : FailWith(c)
       \/ /\ Current.form = "external"
          /\ UNCHANGED visited
          /\ FailWith("VALIDATION_FAILED")
    /\ UNCHANGED <<queue, files, total>>

\* Run returns the files.
Finish ==
    /\ phase = "walk"
    /\ queue = <<>>
    /\ phase' = "done"
    /\ UNCHANGED <<page, sheet, queue, visited, files, total, err>>

Next ==
    \/ GuardPage \/ Skip \/ Resolve \/ Reject
    \/ HarvestSameOrigin \/ HarvestExternal \/ FetchFails \/ Finish

Spec == Init /\ [][Next]_vars

\* Every fetch ends: the walk goes on.
FairSpec == Spec /\ WF_vars(Next)

\* The bytes of some files, each one a file and a position in it.
BytesOf(S) == UNION {{f} \X (1..Size[f.path]) : f \in S}

\* export.go Export: totalBytes over the page and the files.
ArtifactBytes == PageSize + Cardinality(BytesOf(files))

-----------------------------------------------------------------------------
(* The dependencies of a page, defined without a walk *)

Named(body, forms) == {body[i].path : i \in {j \in DOMAIN body : body[j].form \in forms}}

PageNames     == Named(page, {"same"}) \cap Allowed
SheetNames(p) == Named(Body(p), {"same", "relative"}) \cap Allowed

Closed(S) == PageNames \subseteq S /\ \A p \in S : SheetNames(p) \subseteq S

\* The allowlisted same-origin paths the page depends on: the least closed set.
Dependencies == {p \in Allowed : \A S \in SUBSET Allowed : Closed(S) => p \in S}

\* The mirrored external URLs the page depends on.
Mirrors ==
    (Named(page, {"external"})
        \cup UNION {Named(Body(p), {"external"}) : p \in Dependencies}) \ {NoPath}

\* A mirrored URL and a same-origin dependency have the same path.
Collides == Dependencies \cap Mirrors # {}

\* A walk that succeeds returns exactly the page's dependencies, in whatever
\* order stylesheets refer to each other: nothing is missed when references
\* are cyclic, repeated or relative, and nothing else is taken (Run).  A
\* mirrored URL with the path of a dependency is excepted: see
\* EveryDependencyHarvested.
HarvestExact ==
    phase = "done" /\ ~Collides =>
        files = {[path |-> p, src |-> "origin"] : p \in Dependencies}
                  \cup {[path |-> p, src |-> "external"] : p \in Mirrors}

\* No two files of a walk have the same path, so that no upload overwrites
\* another one (the visited set, shared by same-origin and mirrored files).
OnePathOneFile == \A f, g \in files : f.path = g.path => f = g

\* An artifact that passed the walk is within MAX_TOTAL_ARTIFACT_BYTES with its
\* page: the check Export makes after the walk never fires, and the walk never
\* holds more than one file beyond the limit (appendFile).
WithinLimit ==
    /\ phase = "done" /\ ~Exceeds(PageSize) => ~Exceeds(ArtifactBytes)
    /\ phase = "walk" /\ ~Exceeds(PageSize) => ~Exceeds(total)
    /\ total = ArtifactBytes

\* The walk ends, whatever cycles the stylesheets form (visited; each body is
\* looked into once).
WalkEnds == <>(phase \in {"done", "failed"})

\* harvest.go: Run "harvests every allowlisted dependency".  A mirrored URL
\* with the same path, met first, takes the path; the same-origin file is
\* skipped with all it refers to.
EveryDependencyHarvested ==
    phase = "done" => \A p \in Dependencies : [path |-> p, src |-> "origin"] \in files
=============================================================================
