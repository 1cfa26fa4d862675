------------------------------ MODULE PathRules ------------------------------
(***************************************************************************)
(* The path rules of an artifact: NormalizePath, MapSlug and StorageKey    *)
(* (internal/harvest paths.go), the external allowlist (harvest.go) and    *)
(* the request targets of the render client (render.go).                   *)
(*                                                                         *)
(* A text is a sequence of characters.  A character has a class c and the  *)
(* number d of percent-encodings around it: a slash is (slash, 0), "%2F"   *)
(* is (slash, 1), "%252F" is (slash, 2).  (pct, 0) is a percent sign that  *)
(* begins no encoding, "%25" is (pct, 1).                                  *)
(***************************************************************************)
EXTENDS Naturals, FiniteSets, SequencesExt

Classes ==
    { "slash", "dot", "x", "colon", "back", "ctl", "pct",
      "blank",      \* white space
      "tab",        \* white space that is a control character too
      "mark",       \* ? or #
      "index" }     \* the word index

Texts == Seq([c : Classes, d : Nat])

Char(class)  == [c |-> class, d |-> 0]
Is(k, class) == k = Char(class)

Slash     == Char("slash")
IndexHtml == <<Slash, Char("index"), Char("dot"), Char("x")>>

\* An error instead of a path.
Rejected == <<>>

-----------------------------------------------------------------------------
(* paths.go *)

\* k rounds of url.PathUnescape.
Decoded(t, k) == [i \in DOMAIN t |-> [t[i] EXCEPT !.d = IF @ > k THEN @ - k ELSE 0]]

\* url.PathUnescape fails.
Malformed(t) == \E i \in DOMAIN t : Is(t[i], "pct")

\* Slip: a single round.
RoundsOne == 1

\* The rounds NormalizePath decodes.
Rounds == 4

\* strings.Contains(t, "%")
HasPercent(t) == \E i \in DOMAIN t : t[i].d > 0 \/ t[i].c = "pct"

Has(t, class) == \E i \in DOMAIN t : Is(t[i], class)

Absolute(t) == t # <<>> /\ Head(t) = Slash

\* drivePrefixRe, with and without the leading slash.
DrivePrefix(t) ==
    \E i \in {1, 2} :
        /\ i = 2 => Absolute(t)
        /\ i + 1 \in DOMAIN t
        /\ Is(t[i], "x") /\ Is(t[i + 1], "colon")

\* Slip: the last segment is not looked at.
EmptySegmentInside(t) == \E i \in DOMAIN t : t[i] = Slash /\ i < Len(t) /\ t[i + 1] = Slash

\* A segment of an absolute text is empty.
EmptySegment(t) == \E i \in DOMAIN t : t[i] = Slash /\ (i = Len(t) \/ t[i + 1] = Slash)

\* A segment of an absolute text is "." or "..".
DotSegment(t) ==
    \E i, j \in 1..(Len(t) + 1) :
        /\ i + 1 < j /\ j <= i + 3
        /\ t[i] = Slash
        /\ j = Len(t) + 1 \/ t[j] = Slash
        /\ \A k \in (i + 1)..(j - 1) : Is(t[k], "dot")

\* NormalizePath: decode, then reject.
Violates(raw) ==
    LET t == Decoded(raw, Rounds)
    IN  \/ \E k \in 0..(Rounds - 1) : Malformed(Decoded(raw, k))
        \/ HasPercent(t)
        \/ Has(t, "ctl") \/ Has(t, "tab") \/ Has(t, "back")
        \/ DrivePrefix(t)
        \/ ~Absolute(t)
        \/ EmptySegment(t) \/ DotSegment(t)

NormalizePath(raw) == IF Violates(raw) THEN Rejected ELSE Decoded(raw, Rounds)

\* StorageKey: what it accepts it appends to the deployment's base path.
Storable(p) == Absolute(p) /\ ~Has(p, "back") /\ ~EmptySegment(p) /\ ~DotSegment(p)

\* strings.Trim(t, "/")
TrimSlashes(t) ==
    LET kept == {i \in DOMAIN t : t[i] # Slash}
    IN  IF kept = {} THEN <<>> ELSE SubSeq(t, Min(kept), Max(kept))

\* strings.TrimSpace(t)
TrimBlanks(t) ==
    LET kept == {i \in DOMAIN t : ~Is(t[i], "blank") /\ ~Is(t[i], "tab")}
    IN  IF kept = {} THEN <<>> ELSE SubSeq(t, Min(kept), Max(kept))

\* MapSlug: entry and route.
MapSlug(slug) ==
    LET trimmed == TrimBlanks(slug)
        p       == NormalizePath(<<Slash>> \o TrimSlashes(trimmed))
    IN  IF trimmed \in {<<>>, <<Slash>>, <<Char("index")>>}
        THEN [entry |-> IndexHtml, route |-> <<Slash>>]
        ELSE IF p = Rejected THEN [entry |-> Rejected, route |-> Rejected]
                             ELSE [entry |-> p \o IndexHtml, route |-> p]

-----------------------------------------------------------------------------
(* render.go and harvest.go *)

\* FetchPage, escapeSlug: every segment is escaped as it stands, blanks
\* included, so that the origin gets this text for its path.
PageTarget(slug) == <<Slash>> \o TrimSlashes(slug)

\* The part of a text before its first ? or #.
BeforeMark(t) ==
    LET marks == {i \in DOMAIN t : Is(t[i], "mark")}
    IN  IF marks = {} THEN t ELSE SubSeq(t, 1, Min(marks) - 1)

\* harvestSameOrigin: query and fragment are cut off before the path is decoded.
SameOriginPath(raw) == NormalizePath(BeforeMark(raw))

\* FetchAsset: the URL is the base URL with the path behind it.
AssetTarget(p) == BeforeMark(p)

\* The n-th smallest of some positions.
Nth(S, n) == CHOOSE i \in S : Cardinality({j \in S : j <= i}) = n

\* The slashes of an absolute text, and its end.
Cuts(t) == {i \in DOMAIN t : t[i] = Slash} \cup {Len(t) + 1}

\* strings.Split(t, "/") of a text with its leading slash removed.
Segments(t) ==
    [n \in 1..(Cardinality(Cuts(t)) - 1) |->
        SubSeq(t, Nth(Cuts(t), n) + 1, Nth(Cuts(t), n + 1) - 1)]

\* path.Clean on the segments of an absolute path: kept[n] is what the first n
\* of them leave.
CleanSegments(segs) ==
    LET kept[n \in 0..Len(segs)] ==
            IF n = 0 THEN <<>>
            ELSE IF segs[n] \in {<<>>, <<Char("dot")>>} THEN kept[n - 1]
            ELSE IF segs[n] = <<Char("dot"), Char("dot")>>
                 THEN IF kept[n - 1] = <<>> THEN <<>> ELSE Front(kept[n - 1])
                 ELSE Append(kept[n - 1], segs[n])
    IN  kept[Len(segs)]

Clean(t) == CleanSegments(Segments(t))

\* Slip: "/assetsX" is within "/assets".
WithinPrefixTextual(t, prefix) ==
    LET p == Clean(t) IN
    \/ IsPrefix(prefix, p)
    \/ Len(p) >= Len(prefix) /\ prefix # <<>> /\ IsPrefix(Front(prefix), p)
         /\ IsPrefix(Last(prefix), p[Len(prefix)])

\* pathWithinPrefix: whole segments are compared; prefix is cleaned segments.
PathWithinPrefix(t, prefix) == IsPrefix(prefix, Clean(t))

\* harvestExternal: the path a URL is mirrored under; raw is the URL behind its
\* host, which url.Parse splits and decodes once.
MirrorPath(raw, prefix) ==
    LET p == BeforeMark(raw)
    IN  IF Absolute(p) /\ ~Malformed(p) /\ PathWithinPrefix(p, prefix)
        THEN NormalizePath(Decoded(p, 1))
        ELSE Rejected

-----------------------------------------------------------------------------

\* Whatever NormalizePath or MapSlug lets pass StorageKey accepts: no export
\* gets as far as its uploads to fail on a path the harvest accepted.
NormalizedIsStorable(raw) ==
    /\ NormalizePath(raw) # Rejected => Storable(NormalizePath(raw))
    /\ MapSlug(raw).entry # Rejected => Storable(MapSlug(raw).entry)

\* Encoding makes no difference: a text encoded at most four times over, each
\* character differently, gets the verdict and the path of its plain text, so
\* that visited, allowlist and storage see one path for one file; normalizing
\* again changes nothing (NormalizePath "double-encoded traversal is still
\* traversal").
EncodingIrrelevant(raw) ==
    LET plain == [i \in DOMAIN raw |-> Char(raw[i].c)]
    IN  /\ (\A i \in DOMAIN raw : raw[i].d <= 4) => NormalizePath(raw) = NormalizePath(plain)
        /\ NormalizePath(raw) # Rejected =>
               NormalizePath(NormalizePath(raw)) = NormalizePath(raw)

\* What is fetched is what is published: the page of a slug is fetched under the
\* route it gets, a dependency under the path it is stored at.  The code does
\* not provide it: MapSlug decodes a percent sign in a slug, trims blanks and
\* maps "index" to "/", escapeSlug does none of these; NormalizePath decodes a
\* reference's encoded ? or #, and FetchAsset then asks for the part before it.
FetchedIsPublished(raw) ==
    /\ MapSlug(raw).route # Rejected => MapSlug(raw).route = PageTarget(raw)
    /\ SameOriginPath(raw) # Rejected => AssetTarget(SameOriginPath(raw)) = SameOriginPath(raw)

\* A mirrored file lies under the allowlisted prefix of its URL, encoded
\* slashes and dots or not (pathWithinPrefix "at a path-segment boundary").
MirroredBelowPrefix(raw, prefix) ==
    MirrorPath(raw, prefix) # Rejected => IsPrefix(prefix, Segments(MirrorPath(raw, prefix)))
=============================================================================
