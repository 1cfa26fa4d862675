----------------------------- MODULE PathInputs -----------------------------
(***************************************************************************)
(* The texts the rules of PathRules are applied to, as slugs, references   *)
(* and URLs: every text over an alphabet, one character at a time.         *)
(***************************************************************************)
EXTENDS PathRules

CONSTANTS
    Alphabet, Depths,   \* the characters and the encodings around them
    MaxLength           \* bounds the texts

ASSUME TextsType == Alphabet \subseteq Classes /\ Depths \subseteq Nat /\ MaxLength \in Nat

VARIABLE raw

PathInit == raw = <<>>

Grow ==
    /\ Len(raw) < MaxLength
    /\ \E c \in Alphabet, d \in Depths : raw' = Append(raw, [c |-> c, d |-> d])

PathSpec == PathInit /\ [][Grow]_raw

-----------------------------------------------------------------------------

\* An allowlist entry with the path "/x".
Prefix == <<<<Char("x")>>>>

\* NormalizedIsStorable of every text: NormalizePath and StorageKey agree.
AllStorable == NormalizedIsStorable(raw)

\* EncodingIrrelevant of every text: NormalizePath does not depend on how it is
\* encoded.
AllDecoded == EncodingIrrelevant(raw)

\* FetchedIsPublished of every text as a slug (FetchPage, MapSlug) and as a
\* reference (harvestSameOrigin, FetchAsset): refuted by FetchedElsewhere.cfg.
AllPublished == FetchedIsPublished(raw)

\* MirroredBelowPrefix of every text as the path of an allowlisted URL
\* (pathWithinPrefix, harvestExternal).
AllMirrored == MirroredBelowPrefix(raw, Prefix)
=============================================================================
