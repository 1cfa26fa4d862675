---------------------------- MODULE InputsProofs ----------------------------
(***************************************************************************)
(* The rules the worker applies to its inputs, for every input: the        *)
(* environment it is configured by, and the text of a path.                *)
(***************************************************************************)
EXTENDS WorkerConfig, PathInputs, FiniteSetTheorems, SequenceTheorems, TLAPS

-----------------------------------------------------------------------------
(* The configuration *)

\* What the machine can represent it keeps as it is.
LEMMA WrapExact ==
    ASSUME NEW n \in Low..High PROVE Wrap(n) = n
<1>1. Half \in Nat /\ Half > 0
  BY WidthType
<1>2. n - Low \in 0..(2 * Half - 1)
  BY <1>1 DEF Low, High
<1>3. (n - Low) % (2 * Half) = n - Low
  BY <1>1, <1>2
<1> QED BY <1>1, <1>3 DEF Wrap, Low, High

\* A timeout Load accepts is positive, and if it fits its Duration is exact.
LEMMA MillisExact ==
    ASSUME NEW v \in [is : {Unset, Bad, "number"}, n : Low..High],
           v.is = "number" => v.n > 0,
           NEW default \in 1..High,
           (IF v.is = "number" THEN v.n * Ms ELSE default) <= High
    PROVE  Millis(v, default) > 0 /\
           Millis(v, default) = (IF v.is = "number" THEN v.n * Ms ELSE default)
<1>1. Half \in Nat /\ Half > 0 /\ Ms \in Nat /\ Ms > 0
  BY WidthType
<1>2. CASE v.is = "number"
  <2>1. v.n \in Nat /\ v.n > 0
    BY <1>1, <1>2 DEF Low, High
  <2>2. v.n * Ms \in Nat /\ v.n * Ms > 0
    BY <1>1, <2>1
  <2>3. v.n * Ms \in Low..High
    BY <1>1, <1>2, <2>2 DEF Low, High
  <2> QED BY <1>2, <2>2, <2>3, WrapExact DEF Millis
<1>3. CASE v.is # "number"
  BY <1>1, <1>3 DEF Millis, High
<1> QED BY <1>2, <1>3

\* Load accepted this environment, and run() derived the Durations from it.
Loaded ==
    /\ env \in Env
    /\ phase = "accepted" =>
           /\ Problems(env) = {}
           /\ render = Millis(env.render, DefaultRender)
           /\ upload = Millis(env.upload, DefaultUpload)
           /\ ttl = TTLFor(render, upload)
           /\ minIdle = Wrap(ttl + Slack)

\* Loaded holds when Load begins and after it.
LEMMA LoadedAlways == Spec => []Loaded
<1>1. Init => Loaded
  BY DEF Init, Loaded
<1>2. Loaded /\ [Next]_vars => Loaded'
  BY DEF Loaded, Next, Refuse, Accept, vars, durations
<1> QED BY <1>1, <1>2, PTL DEF Spec

\* An accepted environment whose sum does not overflow gives exact Durations.
LEMMA LoadedCovers == Loaded => LeaseCoversJob
<1> SUFFICES ASSUME Loaded, phase = "accepted", NoOverflow(env)
             PROVE  /\ render > 0 /\ upload > 0
                    /\ render + upload + Margin <= ttl
                    /\ ttl + Slack <= minIdle
  BY DEF LeaseCoversJob
<1> DEFINE r == IF env.render.is = "number" THEN env.render.n * Ms ELSE DefaultRender
           u == IF env.upload.is = "number" THEN env.upload.n * Ms ELSE DefaultUpload
<1>1. /\ Half \in Nat /\ Half > 0 /\ Ms \in Nat /\ Ms > 0
      /\ Margin \in 1..High /\ Floor \in 1..High /\ Slack \in 1..High
      /\ DefaultRender \in 1..High /\ DefaultUpload \in 1..High
  BY WidthType, DurationsType
<1>2. /\ env.render \in [is : {Unset, Bad, "number"}, n : Low..High]
      /\ env.upload \in [is : {Unset, Bad, "number"}, n : Low..High]
  BY NumbersType DEF Loaded, Env
<1>3. "render" \notin Misnumbered(env) /\ "upload" \notin Misnumbered(env)
  BY DEF Loaded, Problems
<1>4. /\ env.render.is = "number" => env.render.n > 0
      /\ env.upload.is = "number" => env.upload.n > 0
  <2>1. env.render.n \in Int /\ env.upload.n \in Int
    BY <1>1, <1>2 DEF Low, High
  <2>2. /\ ~(env["render"].is = "number" /\ env["render"].n <= 0)
        /\ ~(env["upload"].is = "number" /\ env["upload"].n <= 0)
    BY <1>3 DEF Misnumbered
  <2> QED BY <2>1, <2>2
<1>5. r \in Nat /\ r > 0 /\ u \in Nat /\ u > 0
  <2>1. env.render.n \in Int /\ env.upload.n \in Int
    BY <1>1, <1>2 DEF Low, High
  <2>2. /\ env.render.is = "number" => env.render.n * Ms \in Nat /\ env.render.n * Ms > 0
        /\ env.upload.is = "number" => env.upload.n * Ms \in Nat /\ env.upload.n * Ms > 0
    BY <1>1, <1>4, <2>1
  <2>3. DefaultRender \in Nat /\ DefaultRender > 0 /\ DefaultUpload \in Nat /\ DefaultUpload > 0
    BY <1>1 DEF High
  <2> QED BY <2>2, <2>3
<1>6. r + u + Margin + Slack <= High
  BY DEF NoOverflow
<1>7. r <= High /\ u <= High
  <2> HIDE DEF r, u
  <2> QED BY <1>1, <1>5, <1>6 DEF High
<1>8. render = r /\ upload = u
  <2>1. Millis(env.render, DefaultRender) = r
    BY <1>1, <1>2, <1>4, <1>7, MillisExact
  <2>2. Millis(env.upload, DefaultUpload) = u
    BY <1>1, <1>2, <1>4, <1>7, MillisExact
  <2> QED BY <2>1, <2>2 DEF Loaded
<1> HIDE DEF r, u
<1>9. Wrap(r + u + Margin) = r + u + Margin
  <2>1. r + u + Margin \in Low..High
    BY <1>1, <1>5, <1>6 DEF Low, High
  <2> QED BY <2>1, WrapExact
<1>10. ttl = (IF r + u + Margin < Floor THEN Floor ELSE r + u + Margin)
  BY <1>8, <1>9 DEF Loaded, TTLFor
<1>11. minIdle = Wrap(ttl + Slack)
  BY DEF Loaded
<1>12. ttl \in Nat /\ r + u + Margin <= ttl /\ ttl + Slack <= High
  BY <1>1, <1>5, <1>6, <1>10, DurationsType DEF High
<1>13. ttl + Slack \in Low..High
  BY <1>1, <1>12 DEF Low, High
<1>14. minIdle = ttl + Slack
  BY <1>11, <1>13, WrapExact
<1> QED BY <1>1, <1>5, <1>8, <1>12, <1>14 DEF High

\* The lock outlives a job and minIdle outlives the lock: for every environment
\* Load accepts and every width of a Duration, unless the sum overflows (TTLFor,
\* main.go minIdle).
THEOREM LeaseAlwaysCoversJob == Spec => []LeaseCoversJob
  BY LoadedAlways, LoadedCovers, PTL

\* What Load accepts, run() can start with, and the strict rules hold in every
\* environment but the local ones (Load, demoGuard).
THEOREM AcceptedConfigIsSound == Spec => []AcceptedIsSound
<1>1. Loaded => AcceptedIsSound
  <2> SUFFICES ASSUME Loaded, phase = "accepted"
               PROVE  /\ env.queue = "redis" /\ env.redisURL # Unset /\ env.storage = "s3"
                      /\ env.others # Unset /\ env.origin \notin {Unset, Bad}
                      /\ env.concurrency.is # "number" \/ env.concurrency.n \in 1..64
                      /\ env.dryRun = "true" \/ env.origin \in {"apps/demo", "loopback"} =>
                             env.environment \in {"local", "development"}
    BY DEF AcceptedIsSound
  <2>1. /\ Missing(env) = {} /\ Misnumbered(env) = {} /\ Mischosen(env) = {}
        /\ DemoGuard(env) = {} /\ DryRunProblem(env) = {}
    BY DEF Loaded, Problems
  <2>2. \A key \in {"environment", "queue", "origin", "storage", "others"} : env[key] # Unset
    BY <2>1 DEF Missing
  <2>3. env.queue = "redis" /\ env.redisURL # Unset /\ env.storage = "s3"
    <3>1. env["queue"] \in {Unset, "redis"} /\ env["storage"] \in {Unset, "s3"}
      BY <2>1 DEF Mischosen
    <3>2. env["redisURL"] = Unset => env.queue # "redis"
      BY <2>1 DEF Mischosen
    <3> QED BY <2>2, <3>1, <3>2
  <2>4. /\ env["origin"] # Bad
        /\ env["origin"] \in {"apps/demo", "loopback"} => LocalDev(env)
    BY <2>1 DEF DemoGuard
  <2>5. env["dryRun"] = "true" => LocalDev(env)
    BY <2>1 DEF DryRunProblem
  <2>6. env.concurrency.is # "number" \/ env.concurrency.n \in 1..64
    <3>1. env.concurrency \in [is : {Unset, Bad, "number"}, n : Low..High]
      BY NumbersType DEF Loaded, Env
    <3>2. env.concurrency.n \in Int
      BY <3>1, WidthType DEF Low, High
    <3>3. ~(env["concurrency"].is = "number" /\ (env["concurrency"].n <= 0 \/ env["concurrency"].n > 64))
      BY <2>1 DEF Misnumbered
    <3> QED BY <3>2, <3>3
  <2> QED BY <2>2, <2>3, <2>4, <2>5, <2>6 DEF LocalDev
<1> QED BY <1>1, LoadedAlways, PTL

-----------------------------------------------------------------------------
(* Texts *)

\* A set of naturals that is not empty has a least element.
LEMMA LeastNatural ==
    ASSUME NEW S \in SUBSET Nat, S # {} PROVE \E n \in S : \A k \in S : n <= k
<1>1. PICK n \in S : \A k \in S : ~(<<k, n>> \in OpToRel(<, Nat))
  BY NatLessThanWellFounded, WFMin
<1>2. ASSUME NEW k \in S PROVE n <= k
  <2>1. n \in Nat /\ k \in Nat
    OBVIOUS
  <2>2. k < n => <<k, n>> \in OpToRel(<, Nat)
    BY <2>1 DEF OpToRel
  <2>3. ~(k < n)
    BY <1>1, <2>2, Zenon
  <2> QED BY <2>1, <2>3
<1> QED BY <1>1, <1>2

\* The first of some positions is one of them.
LEMMA MinPosition ==
    ASSUME NEW S \in SUBSET Nat, S # {}
    PROVE  Min(S) \in S /\ \A k \in S : Min(S) <= k
  BY LeastNatural DEF Min

\* The last of some positions is one of them.
LEMMA MaxPosition ==
    ASSUME NEW n \in Nat, NEW S \in SUBSET (1..n), S # {}
    PROVE  Max(S) \in S /\ \A k \in S : Max(S) >= k
<1> DEFINE D == {n - m : m \in S}
<1>1. \A m \in S : m \in Nat /\ n - m \in Nat
  OBVIOUS
<1>2. D \in SUBSET Nat /\ D # {}
  BY <1>1
<1>3. PICK d \in D : \A c \in D : d <= c
  <2> HIDE DEF D
  <2> QED BY <1>2, LeastNatural
<1>4. PICK m \in S : d = n - m
  BY <1>3
<1>5. ASSUME NEW k \in S PROVE m >= k
  <2>1. n - k \in D
    OBVIOUS
  <2>2. n - m <= n - k
    BY <1>3, <1>4, <2>1
  <2> QED BY <1>1, <2>2
<1>6. \E x \in S : \A y \in S : x >= y
  BY <1>5
<1> QED BY <1>6 DEF Max

\* A character of a text.
LEMMA Characters ==
    ASSUME NEW t \in Texts, NEW i \in 1..Len(t)
    PROVE  /\ t[i] \in [c : Classes, d : Nat]
           /\ t[i] = [c |-> t[i].c, d |-> t[i].d] /\ t[i].c \in Classes /\ t[i].d \in Nat
<1>1. t[i] \in [c : Classes, d : Nat]
  <2> DEFINE R == [c : Classes, d : Nat]
  <2>1. t \in Seq(R)
    BY DEF Texts
  <2> HIDE DEF R
  <2>2. t[i] \in R
    BY <2>1
  <2> QED BY <2>2 DEF R
<1>2. PICK k \in [c : Classes, d : Nat] : k = t[i]
  BY <1>1
<1>3. k = [c |-> k.c, d |-> k.d] /\ k.c \in Classes /\ k.d \in Nat
  OBVIOUS
<1> QED BY <1>1, <1>2, <1>3

\* Decoding keeps the length and the classes, and takes k from every depth.
LEMMA DecodedText ==
    ASSUME NEW t \in Texts, NEW k \in Nat
    PROVE  /\ Decoded(t, k) \in Texts
           /\ Len(Decoded(t, k)) = Len(t) /\ DOMAIN Decoded(t, k) = 1..Len(t)
           /\ \A i \in 1..Len(t) :
                Decoded(t, k)[i] = [c |-> t[i].c, d |-> IF t[i].d > k THEN t[i].d - k ELSE 0]
<1>1. t \in Seq([c : Classes, d : Nat]) /\ DOMAIN t = 1..Len(t) /\ Len(t) \in Nat
  BY DEF Texts
<1> DEFINE f == [i \in 1..Len(t) |-> [c |-> t[i].c, d |-> IF t[i].d > k THEN t[i].d - k ELSE 0]]
<1>2. \A i \in 1..Len(t) : [t[i] EXCEPT !.d = IF @ > k THEN @ - k ELSE 0]
                              = [c |-> t[i].c, d |-> IF t[i].d > k THEN t[i].d - k ELSE 0]
  <2> SUFFICES ASSUME NEW x \in [c : Classes, d : Nat]
               PROVE  [x EXCEPT !.d = IF @ > k THEN @ - k ELSE 0]
                        = [c |-> x.c, d |-> IF x.d > k THEN x.d - k ELSE 0]
    BY Characters
  <2> QED OBVIOUS
<1>3. Decoded(t, k) = f
  BY <1>1, <1>2 DEF Decoded
<1>4. \A i \in 1..Len(t) : f[i] \in [c : Classes, d : Nat]
  <2> SUFFICES ASSUME NEW i \in 1..Len(t) PROVE f[i] \in [c : Classes, d : Nat]
    OBVIOUS
  <2>1. t[i].c \in Classes /\ t[i].d \in Nat
    BY Characters
  <2> QED BY <2>1
<1>5. f \in Seq([c : Classes, d : Nat]) /\ Len(f) = Len(t)
  BY <1>1, <1>4
<1> QED BY <1>3, <1>5 DEF Texts

\* Two texts of the same characters are equal.
LEMMA SameText ==
    ASSUME NEW t \in Texts, NEW s \in Texts, Len(s) = Len(t),
           \A i \in 1..Len(t) : s[i] = t[i]
    PROVE  s = t
  BY DEF Texts

\* A text without encodings decodes to itself.
LEMMA PlainDecodes ==
    ASSUME NEW t \in Texts, NEW k \in Nat, \A i \in 1..Len(t) : t[i].d = 0
    PROVE  Decoded(t, k) = t
<1>1. ASSUME NEW i \in 1..Len(t) PROVE Decoded(t, k)[i] = t[i]
  <2>1. Decoded(t, k)[i] = [c |-> t[i].c, d |-> IF t[i].d > k THEN t[i].d - k ELSE 0]
    BY DecodedText
  <2>2. t[i] = [c |-> t[i].c, d |-> t[i].d]
    BY Characters
  <2> QED BY <2>1, <2>2
<1> QED BY <1>1, DecodedText, SameText

\* Whether a text has a character.
LEMMA HasPlain ==
    ASSUME NEW t \in Texts, NEW class
    PROVE  Has(t, class) <=> \E i \in 1..Len(t) : t[i].c = class /\ t[i].d = 0
<1>1. DOMAIN t = 1..Len(t)
  BY DEF Texts
<1> QED BY <1>1, Characters DEF Has, Is, Char

-----------------------------------------------------------------------------
(* The rules of a path *)

\* What NormalizePath returns when it does not reject.
LEMMA NormalizedForm ==
    ASSUME NEW t \in Texts
    PROVE  /\ NormalizePath(t) # Rejected <=> ~Violates(t)
           /\ ~Violates(t) => NormalizePath(t) = Decoded(t, 4) /\ Decoded(t, 4) \in Texts
<1>1. ~Violates(t) => Absolute(Decoded(t, 4))
  BY DEF Violates, Rounds
<1> QED BY <1>1, DecodedText DEF NormalizePath, Rejected, Rounds, Absolute

\* NormalizePath's own checks include those of StorageKey.
LEMMA NormalizedStorable ==
    ASSUME NEW t \in Texts, ~Violates(t) PROVE Storable(Decoded(t, 4))
  BY DEF Violates, Rounds, Storable

\* The characters of index.html, which MapSlug appends.
LEMMA IndexText ==
    /\ IndexHtml \in Texts /\ Len(IndexHtml) = 4
    /\ IndexHtml[1] = Slash /\ IndexHtml[2] = Char("index")
    /\ IndexHtml[3] = Char("dot") /\ IndexHtml[4] = Char("x")
<1>1. Slash \in [c : Classes, d : Nat] /\ Char("index") \in [c : Classes, d : Nat]
      /\ Char("dot") \in [c : Classes, d : Nat] /\ Char("x") \in [c : Classes, d : Nat]
  BY DEF Slash, Char, Classes
<1> HIDE DEF Slash, Char
<1> QED BY <1>1 DEF IndexHtml, Texts

\* The characters differ.
LEMMA Distinct ==
    /\ Char("index") # Slash /\ Char("dot") # Slash /\ Char("x") # Slash
    /\ Char("index") # Char("dot") /\ Slash # Char("dot")
    /\ Slash # Char("back") /\ Char("index") # Char("back") /\ Char("dot") # Char("back")
    /\ Char("x") # Char("back")
<1>1. \A a, b \in Classes : a # b => Char(a) # Char(b)
  BY DEF Char
<1>2. {"index", "slash", "dot", "x", "back"} \subseteq Classes
  BY DEF Classes
<1> QED BY <1>1, <1>2 DEF Slash

\* A page below a storable path is storable, and so is the index itself.
LEMMA IndexStorable ==
    ASSUME NEW p \in Texts, p = <<>> \/ Storable(p)
    PROVE  Storable(p \o IndexHtml)
<1> DEFINE q == p \o IndexHtml
<1>0. Len(p) \in Nat
  BY DEF Texts
<1>1. /\ q \in Texts /\ Len(q) = Len(p) + 4 /\ Len(p) \in Nat
      /\ DOMAIN q = 1..(Len(p) + 4) /\ DOMAIN p = 1..Len(p)
      /\ \A i \in 1..Len(p) : q[i] = p[i]
      /\ q[Len(p) + 1] = Slash /\ q[Len(p) + 2] = Char("index")
      /\ q[Len(p) + 3] = Char("dot") /\ q[Len(p) + 4] = Char("x")
  <2> DEFINE R == [c : Classes, d : Nat]
  <2>1. p \in Seq(R) /\ IndexHtml \in Seq(R)
    BY IndexText DEF Texts
  <2> HIDE DEF R
  <2>3. /\ q \in Seq(R) /\ Len(q) = Len(p) + Len(IndexHtml)
        /\ \A i \in 1..(Len(p) + Len(IndexHtml)) :
             q[i] = IF i <= Len(p) THEN p[i] ELSE IndexHtml[i - Len(p)]
    BY <2>1, ConcatProperties
  <2> HIDE DEF q
  <2>2. /\ q \in Seq(R) /\ Len(q) = Len(p) + 4 /\ Len(p) \in Nat
        /\ DOMAIN q = 1..(Len(p) + 4) /\ DOMAIN p = 1..Len(p)
        /\ \A i \in 1..(Len(p) + 4) : q[i] = IF i <= Len(p) THEN p[i] ELSE IndexHtml[i - Len(p)]
    BY <1>0, <2>1, <2>3, IndexText
  <2>4. /\ q[Len(p) + 1] = IndexHtml[1] /\ q[Len(p) + 2] = IndexHtml[2]
        /\ q[Len(p) + 3] = IndexHtml[3] /\ q[Len(p) + 4] = IndexHtml[4]
    BY <1>0, <2>2
  <2>5. \A i \in 1..Len(p) : q[i] = p[i]
    BY <1>0, <2>2
  <2> QED BY <2>2, <2>4, <2>5, IndexText DEF Texts, R
<1> HIDE DEF q
<1>2. Absolute(q)
  <2>1. q # <<>> /\ Head(q) = q[1]
    BY <1>1 DEF Texts
  <2>2. q[1] = Slash
    BY <1>1 DEF Storable, Absolute, Texts
  <2> QED BY <2>1, <2>2 DEF Absolute
<1>3. ~Has(q, "back")
  <2>1. ASSUME NEW i \in 1..Len(q) PROVE q[i] # Char("back")
    <3>1. CASE i \in 1..Len(p)
      BY <1>1, <3>1 DEF Storable, Has, Is
    <3>2. CASE i \in {Len(p) + 1, Len(p) + 2, Len(p) + 3, Len(p) + 4}
      BY <1>1, <3>2, Distinct
    <3> QED BY <1>1, <3>1, <3>2
  <2> QED BY <1>1, <2>1 DEF Has, Is
<1>4. ~EmptySegment(q)
  <2> SUFFICES ASSUME NEW i \in 1..Len(q), q[i] = Slash, i = Len(q) \/ q[i + 1] = Slash
               PROVE  FALSE
    BY <1>1 DEF EmptySegment
  <2>1. CASE i \in 1..Len(p)
    <3>1. p[i] = Slash /\ i # Len(q) /\ p # <<>>
      BY <1>1, <2>1
    <3>2. i = Len(p) \/ p[i + 1] = Slash
      <4> SUFFICES ASSUME i # Len(p) PROVE p[i + 1] = Slash
        OBVIOUS
      <4>1. i + 1 \in 1..Len(p)
        BY <1>0, <2>1
      <4>2. q[i + 1] = p[i + 1]
        BY <1>1, <4>1
      <4> QED BY <3>1, <4>2
    <3> QED BY <1>1, <2>1, <3>1, <3>2 DEF Storable, EmptySegment
  <2>2. CASE i \in {Len(p) + 1, Len(p) + 2, Len(p) + 3, Len(p) + 4}
    BY <1>1, <2>2, Distinct
  <2> QED BY <1>1, <2>1, <2>2
<1>5. ~DotSegment(q)
  <2> SUFFICES ASSUME NEW i \in 1..(Len(q) + 1), NEW j \in 1..(Len(q) + 1),
                      i + 1 < j, j <= i + 3, q[i] = Slash, j = Len(q) + 1 \/ q[j] = Slash,
                      \A k \in (i + 1)..(j - 1) : q[k] = Char("dot")
               PROVE  FALSE
    BY DEF DotSegment, Is
  <2>1. q[i + 1] = Char("dot")
    BY <1>1
  <2>2. CASE i \in 1..Len(p)
    <3>1. j <= Len(p) + 1
      <4> SUFFICES ASSUME j > Len(p) + 1 PROVE FALSE
        BY <1>1
      <4>1. Len(p) + 1 \in (i + 1)..(j - 1)
        BY <1>1, <2>2
      <4> QED BY <1>1, <4>1, Distinct
    <3>2. j = Len(p) + 1 \/ p[j] = Slash
      BY <1>1, <3>1
    <3>3. p[i] = Slash /\ p # <<>> /\ \A k \in (i + 1)..(j - 1) : p[k] = Char("dot")
      BY <1>1, <2>2, <3>1
    <3>4. i \in 1..(Len(p) + 1) /\ j \in 1..(Len(p) + 1)
      BY <1>1, <2>2, <3>1
    <3> QED BY <3>2, <3>3, <3>4 DEF Storable, DotSegment, Is
  <2>3. CASE i = Len(p) + 1
    BY <1>1, <2>1, <2>3, Distinct
  <2>4. CASE i \in {Len(p) + 2, Len(p) + 3, Len(p) + 4}
    BY <1>1, <2>4, Distinct
  <2> QED BY <1>1, <2>2, <2>3, <2>4
<1> QED BY <1>2, <1>3, <1>4, <1>5 DEF q, Storable

\* From one position of a text to another is a text.
LEMMA PartOfText ==
    ASSUME NEW t \in Texts, NEW kept, kept \in SUBSET (DOMAIN t)
    PROVE  (IF kept = {} THEN <<>> ELSE SubSeq(t, Min(kept), Max(kept))) \in Texts
<1> DEFINE R == [c : Classes, d : Nat]
<1>1. t \in Seq(R) /\ Len(t) \in Nat /\ DOMAIN t = 1..Len(t)
  BY DEF Texts
<1>2. CASE kept = {}
  BY <1>2 DEF Texts
<1>3. CASE kept # {}
  <2>1. kept \in SUBSET Nat /\ kept \in SUBSET (1..Len(t))
    BY <1>1
  <2>2. Min(kept) \in 1..Len(t) /\ Max(kept) \in 1..Len(t)
    BY <1>1, <1>3, <2>1, MinPosition, MaxPosition
  <2> HIDE DEF R
  <2>3. SubSeq(t, Min(kept), Max(kept)) \in Seq(R)
    BY <1>1, <2>2
  <2> QED BY <1>3, <2>3 DEF Texts, R
<1> QED BY <1>2, <1>3

\* What strings.Trim and strings.TrimSpace leave of a text is a text.
LEMMA TrimmedText ==
    ASSUME NEW t \in Texts PROVE TrimSlashes(t) \in Texts /\ TrimBlanks(t) \in Texts
<1>1. TrimSlashes(t) \in Texts
  <2> DEFINE kept == {i \in DOMAIN t : t[i] # Slash}
  <2>1. kept \in SUBSET (DOMAIN t) /\ TrimSlashes(t) = IF kept = {} THEN <<>> ELSE SubSeq(t, Min(kept), Max(kept))
    BY DEF TrimSlashes
  <2> HIDE DEF kept
  <2> QED BY <2>1, PartOfText
<1>2. TrimBlanks(t) \in Texts
  <2> DEFINE kept == {i \in DOMAIN t : ~Is(t[i], "blank") /\ ~Is(t[i], "tab")}
  <2>1. kept \in SUBSET (DOMAIN t) /\ TrimBlanks(t) = IF kept = {} THEN <<>> ELSE SubSeq(t, Min(kept), Max(kept))
    BY DEF TrimBlanks
  <2> HIDE DEF kept
  <2> QED BY <2>1, PartOfText
<1> QED BY <1>1, <1>2

\* A text with a slash in front of it.
LEMMA SlashText ==
    ASSUME NEW t \in Texts
    PROVE  /\ <<Slash>> \o t \in Texts /\ Len(<<Slash>> \o t) = Len(t) + 1
           /\ (<<Slash>> \o t)[1] = Slash
           /\ \A i \in 2..(Len(t) + 1) : (<<Slash>> \o t)[i] = t[i - 1]
<1> DEFINE R == [c : Classes, d : Nat]
<1>1. Slash \in R /\ t \in Seq(R)
  BY DEF Slash, Char, Classes, Texts
<1> HIDE DEF R
<1> QED BY <1>1 DEF Texts, R

-----------------------------------------------------------------------------
(* The theorems about texts *)

\* A text is a text, however it grows.
LEMMA TextAlways == PathSpec => [](raw \in Texts)
<1>1. PathInit => raw \in Texts
  BY DEF PathInit, Texts
<1>2. raw \in Texts /\ [Grow]_raw => (raw \in Texts)'
  <2> SUFFICES ASSUME raw \in Texts, Grow PROVE raw' \in Texts
    OBVIOUS
  <2> DEFINE R == [c : Classes, d : Nat]
  <2>1. PICK k \in R : raw' = Append(raw, k)
    BY TextsType DEF Grow
  <2>2. raw \in Seq(R)
    BY DEF Texts
  <2> HIDE DEF R
  <2>3. raw' \in Seq(R)
    BY <2>1, <2>2
  <2> QED BY <2>3 DEF Texts, R
<1> QED BY <1>1, <1>2, PTL DEF PathSpec

\* The entry of a slug is the index page of its normalized route.
LEMMA EntryForm ==
    ASSUME NEW t \in Texts, MapSlug(t).entry # Rejected
    PROVE  \E p \in Texts : (p = <<>> \/ Storable(p)) /\ MapSlug(t).entry = p \o IndexHtml
<1> DEFINE trimmed == TrimBlanks(t)
           s == <<Slash>> \o TrimSlashes(trimmed)
           p == NormalizePath(s)
<1>1. CASE trimmed \in {<<>>, <<Slash>>, <<Char("index")>>}
  <2>1. MapSlug(t).entry = IndexHtml
    BY <1>1 DEF MapSlug
  <2>2. <<>> \in Texts
    BY DEF Texts
  <2>3. <<>> \o IndexHtml = IndexHtml
    BY IndexText, ConcatEmptySeq DEF Texts
  <2> QED BY <2>1, <2>2, <2>3
<1>2. CASE trimmed \notin {<<>>, <<Slash>>, <<Char("index")>>}
  <2>1. s \in Texts
    BY TrimmedText, SlashText
  <2>2. p # Rejected /\ MapSlug(t).entry = p \o IndexHtml
    BY <1>2 DEF MapSlug
  <2> HIDE DEF s
  <2>3. p \in Texts /\ Storable(p)
    BY <2>1, <2>2, NormalizedForm, NormalizedStorable
  <2> QED BY <2>2, <2>3
<1> QED BY <1>1, <1>2

\* Whatever NormalizePath or MapSlug lets pass, StorageKey accepts: for every
\* text, of any length and any depth of encoding.
THEOREM EveryPathStorable == PathSpec => []AllStorable
<1>1. raw \in Texts => AllStorable
  <2> SUFFICES ASSUME raw \in Texts
               PROVE  /\ NormalizePath(raw) # Rejected => Storable(NormalizePath(raw))
                      /\ MapSlug(raw).entry # Rejected => Storable(MapSlug(raw).entry)
    BY DEF AllStorable, NormalizedIsStorable
  <2>1. NormalizePath(raw) # Rejected => Storable(NormalizePath(raw))
    BY NormalizedForm, NormalizedStorable
  <2>2. ASSUME MapSlug(raw).entry # Rejected PROVE Storable(MapSlug(raw).entry)
    BY <2>2, EntryForm, IndexStorable
  <2> QED BY <2>1, <2>2
<1> QED BY <1>1, TextAlways, PTL

\* A text that a few rounds decode completely is judged by its classes alone.
LEMMA VerdictOfPlain ==
    ASSUME NEW t \in Texts, \A i \in 1..Len(t) : t[i].d <= 4
    PROVE  /\ [i \in DOMAIN t |-> Char(t[i].c)] = Decoded(t, 4)
           /\ Violates(t) <=> Violates(Decoded(t, 4))
<1> DEFINE p == Decoded(t, 4)
<1>1. /\ p \in Texts /\ Len(p) = Len(t) /\ Len(t) \in Nat
      /\ DOMAIN p = 1..Len(t) /\ DOMAIN t = 1..Len(t)
  <2>1. p \in Texts /\ Len(p) = Len(t) /\ DOMAIN p = 1..Len(t)
    BY DecodedText
  <2>2. Len(t) \in Nat /\ DOMAIN t = 1..Len(t)
    BY DEF Texts
  <2> QED BY <2>1, <2>2
<1>2. ASSUME NEW i \in 1..Len(t) PROVE p[i] = [c |-> t[i].c, d |-> 0]
  <2>1. p[i] = [c |-> t[i].c, d |-> IF t[i].d > 4 THEN t[i].d - 4 ELSE 0]
    BY DecodedText
  <2>2. t[i].d \in Nat
    BY Characters
  <2> QED BY <2>1, <2>2
<1> HIDE DEF p
<1>3. [i \in DOMAIN t |-> Char(t[i].c)] = p
  <2>1. p = [i \in 1..Len(t) |-> p[i]]
    BY <1>1 DEF Texts
  <2> QED BY <1>1, <1>2, <2>1 DEF Char
<1>4. \A k \in Nat : Decoded(p, k) = p
  <2>1. \A i \in 1..Len(p) : p[i].d = 0
    BY <1>1, <1>2
  <2> QED BY <1>1, <2>1, PlainDecodes
<1>5. ASSUME NEW k \in 0..3, Malformed(Decoded(t, k)) PROVE HasPercent(p)
  <2>1. PICK i \in 1..Len(t) : Decoded(t, k)[i] = Char("pct")
    BY <1>5, DecodedText DEF Malformed, Is
  <2>2. Decoded(t, k)[i].c = t[i].c
    <3>1. k \in Nat
      OBVIOUS
    <3>2. Decoded(t, k)[i] = [c |-> t[i].c, d |-> IF t[i].d > k THEN t[i].d - k ELSE 0]
      BY <3>1, DecodedText
    <3> QED BY <3>2
  <2>3. p[i].c = "pct"
    BY <1>2, <2>1, <2>2 DEF Char
  <2> QED BY <1>1, <2>3 DEF HasPercent
<1>6. Violates(t) <=> \/ HasPercent(p) \/ Has(p, "ctl") \/ Has(p, "tab") \/ Has(p, "back")
                      \/ DrivePrefix(p) \/ ~Absolute(p) \/ EmptySegment(p) \/ DotSegment(p)
  <2>1. (\E k \in 0..(Rounds - 1) : Malformed(Decoded(t, k))) => HasPercent(p)
    BY <1>5 DEF Rounds
  <2> QED BY <2>1 DEF Violates, Rounds, p
<1>7. Malformed(p) => HasPercent(p)
  BY DEF Malformed, HasPercent, Is, Char
<1>8. Violates(p) <=> \/ HasPercent(p) \/ Has(p, "ctl") \/ Has(p, "tab") \/ Has(p, "back")
                      \/ DrivePrefix(p) \/ ~Absolute(p) \/ EmptySegment(p) \/ DotSegment(p)
  <2>1. Decoded(p, Rounds) = p /\ \A k \in 0..(Rounds - 1) : Decoded(p, k) = p
    BY <1>4 DEF Rounds
  <2> QED BY <1>7, <2>1 DEF Violates
<1> QED BY <1>3, <1>6, <1>8 DEF p

\* A text NormalizePath accepts is encoded at most four times over.
LEMMA AcceptedDepth ==
    ASSUME NEW t \in Texts, ~Violates(t), NEW i \in 1..Len(t)
    PROVE  t[i].d <= 4
<1>1. ~HasPercent(Decoded(t, 4))
  BY DEF Violates, Rounds
<1>2. ~(Decoded(t, 4)[i].d > 0)
  BY <1>1, DecodedText DEF HasPercent
<1>3. Decoded(t, 4)[i] = [c |-> t[i].c, d |-> IF t[i].d > 4 THEN t[i].d - 4 ELSE 0]
  BY DecodedText
<1>4. t[i].d \in Nat
  BY Characters
<1> QED BY <1>2, <1>3, <1>4

\* One path for one file: NormalizePath does not depend on how a text is
\* encoded, up to the four rounds it decodes, and is idempotent; for every text.
THEOREM EncodingNeverMatters == PathSpec => []AllDecoded
<1>1. raw \in Texts => AllDecoded
  <2> SUFFICES ASSUME raw \in Texts PROVE EncodingIrrelevant(raw)
    BY DEF AllDecoded
  <2> DEFINE plain == [i \in DOMAIN raw |-> Char(raw[i].c)]
  <2>0. DOMAIN raw = 1..Len(raw)
    BY DEF Texts
  <2>1. ASSUME \A i \in DOMAIN raw : raw[i].d <= 4
        PROVE  /\ NormalizePath(raw) = NormalizePath(plain)
               /\ NormalizePath(Decoded(raw, 4)) = NormalizePath(raw)
    <3>1. plain = Decoded(raw, 4) /\ (Violates(raw) <=> Violates(Decoded(raw, 4)))
      BY <2>0, <2>1, VerdictOfPlain
    <3>2. Decoded(Decoded(raw, 4), 4) = Decoded(raw, 4)
      <4>1. ASSUME NEW i \in 1..Len(raw) PROVE Decoded(raw, 4)[i].d = 0
        <5>1. Decoded(raw, 4)[i]
                = [c |-> raw[i].c, d |-> IF raw[i].d > 4 THEN raw[i].d - 4 ELSE 0]
          BY DecodedText
        <5>2. raw[i].d \in Nat /\ raw[i].d <= 4
          BY <2>0, <2>1, Characters
        <5> QED BY <5>1, <5>2
      <4> QED BY <4>1, DecodedText, PlainDecodes
    <3> QED BY <3>1, <3>2 DEF NormalizePath, Rounds
  <2>2. ASSUME NormalizePath(raw) # Rejected
        PROVE  NormalizePath(NormalizePath(raw)) = NormalizePath(raw)
    BY <2>0, <2>1, <2>2, NormalizedForm, AcceptedDepth
  <2> QED BY <2>1, <2>2 DEF EncodingIrrelevant
<1> QED BY <1>1, TextAlways, PTL

\* The part before the first mark holds none.
LEMMA BeforeMarkText ==
    ASSUME NEW t \in Texts
    PROVE  /\ BeforeMark(t) \in Texts
           /\ \A i \in 1..Len(BeforeMark(t)) : /\ i \in 1..Len(t) /\ BeforeMark(t)[i] = t[i]
                                               /\ t[i] # Char("mark")
<1> DEFINE marks == {i \in DOMAIN t : Is(t[i], "mark")}
           R == [c : Classes, d : Nat]
<1>1. t \in Seq(R) /\ Len(t) \in Nat /\ DOMAIN t = 1..Len(t)
  BY DEF Texts
<1>2. CASE marks = {}
  BY <1>1, <1>2 DEF BeforeMark, Is
<1>3. CASE marks # {}
  <2>1. Min(marks) \in marks /\ \A k \in marks : Min(marks) <= k
    <3>1. marks \in SUBSET Nat
      BY <1>1
    <3> HIDE DEF marks
    <3> QED BY <1>3, <3>1, MinPosition
  <2>2. PICK m \in 1..Len(t) : m = Min(marks)
    BY <1>1, <2>1
  <2>3. BeforeMark(t) = SubSeq(t, 1, m - 1)
    BY <1>3, <2>2 DEF BeforeMark
  <2> HIDE DEF R
  <2>4. /\ SubSeq(t, 1, m - 1) \in Seq(R) /\ Len(SubSeq(t, 1, m - 1)) = m - 1
        /\ \A i \in 1..(m - 1) : SubSeq(t, 1, m - 1)[i] = t[i]
    BY <1>1
  <2>5. ASSUME NEW i \in 1..(m - 1) PROVE i \in 1..Len(t) /\ t[i] # Char("mark")
    <3>1. i \in 1..Len(t) /\ ~(m <= i)
      BY <1>1
    <3>2. i \notin marks
      BY <2>1, <2>2, <3>1
    <3> QED BY <1>1, <3>1, <3>2 DEF Is
  <2> QED BY <2>3, <2>4, <2>5 DEF Texts, R
<1> QED BY <1>2, <1>3

-----------------------------------------------------------------------------
(* Segments.  Positions are counted by their rank among the cuts of a text. *)

Rank(S, i) == Cardinality({j \in S : j <= i})

\* Ranks lie between one and the number of positions, and grow with them.
LEMMA RankBounds ==
    ASSUME NEW m \in Nat, NEW S \in SUBSET (1..m)
    PROVE  /\ IsFiniteSet(S) /\ Cardinality(S) \in Nat
           /\ \A i \in S : Rank(S, i) \in 1..Cardinality(S)
           /\ \A i, k \in S : i < k => Rank(S, i) < Rank(S, k)
<1>1. IsFiniteSet(S) /\ Cardinality(S) \in Nat
  <2>1. IsFiniteSet(1..m)
    BY FS_Interval
  <2> QED BY <2>1, FS_Subset, FS_CardinalityType
<1>2. ASSUME NEW i \in S
      PROVE  /\ IsFiniteSet({j \in S : j <= i}) /\ Rank(S, i) \in Nat
             /\ Rank(S, i) <= Cardinality(S) /\ Rank(S, i) # 0
  <2> DEFINE B == {j \in S : j <= i}
  <2>1. B \in SUBSET S /\ i \in B
    OBVIOUS
  <2> HIDE DEF B
  <2>2. IsFiniteSet(B) /\ Cardinality(B) <= Cardinality(S) /\ Cardinality(B) \in Nat
    BY <1>1, <2>1, FS_Subset, FS_CardinalityType
  <2>3. Cardinality(B) # 0
    BY <2>1, <2>2, FS_EmptySet
  <2> QED BY <2>2, <2>3 DEF Rank, B
<1>3. ASSUME NEW i \in S, NEW k \in S, i < k PROVE Rank(S, i) < Rank(S, k)
  <2> DEFINE B == {j \in S : j <= i}
             C == {j \in S : j <= k}
  <2>0. i \in Nat /\ k \in Nat /\ \A j \in S : j \in Nat
    OBVIOUS
  <2>1. B \in SUBSET C /\ k \in C /\ k \notin B
    <3>1. ASSUME NEW j \in S, j <= i PROVE j <= k
      BY <1>3, <2>0, <3>1
    <3>2. ~(k <= i) /\ k <= k
      BY <1>3, <2>0
    <3> QED BY <3>1, <3>2
  <2>2. IsFiniteSet(C) /\ Cardinality(B) = Rank(S, i) /\ Cardinality(C) = Rank(S, k)
    BY <1>2 DEF Rank
  <2> HIDE DEF B, C
  <2>3. Cardinality(B) <= Cardinality(C) /\ Cardinality(C) # Cardinality(B)
    BY <2>1, <2>2, FS_Subset
  <2>4. Rank(S, i) \in Nat /\ Rank(S, k) \in Nat
    BY <1>2
  <2> QED BY <2>2, <2>3, <2>4
<1>4. ASSUME NEW i \in S PROVE Rank(S, i) \in 1..Cardinality(S)
  <2>1. Rank(S, i) \in Nat /\ Rank(S, i) <= Cardinality(S) /\ Rank(S, i) # 0
    BY <1>2
  <2> QED BY <1>1, <2>1
<1> QED BY <1>1, <1>3, <1>4

\* Every rank is taken, by one position.
LEMMA NthPosition ==
    ASSUME NEW m \in Nat, NEW S \in SUBSET (1..m), NEW n \in 1..Cardinality(S)
    PROVE  /\ Nth(S, n) \in S /\ Rank(S, Nth(S, n)) = n
           /\ \A i \in S : Rank(S, i) = n => i = Nth(S, n)
<1> DEFINE N == Cardinality(S)
           rank == [i \in S |-> Rank(S, i)]
<1>1. /\ IsFiniteSet(S) /\ N \in Nat
      /\ \A i \in S : Rank(S, i) \in 1..N
      /\ \A i, k \in S : i < k => Rank(S, i) < Rank(S, k)
  BY RankBounds
<1>2. \A i, k \in S : Rank(S, i) = Rank(S, k) => i = k
  <2> SUFFICES ASSUME NEW i \in S, NEW k \in S, Rank(S, i) = Rank(S, k) PROVE i = k
    OBVIOUS
  <2>1. i \in Nat /\ k \in Nat /\ Rank(S, i) \in Nat
    BY <1>1
  <2>2. ~(i < k) /\ ~(k < i)
    BY <1>1, <2>1
  <2> QED BY <2>1, <2>2
<1>3. rank \in [S -> 1..N] /\ \A i \in S : rank[i] = Rank(S, i)
  BY <1>1
<1>4. IsFiniteSet(1..N) /\ Cardinality(1..N) = N
  BY <1>1, FS_Interval
<1> HIDE DEF rank
<1>5. rank \in Injection(S, 1..N)
  BY <1>2, <1>3 DEF Injection, IsInjective
<1>6. rank \in Surjection(S, 1..N)
  BY <1>4, <1>5, FS_Injection
<1>7. \E i \in S : Rank(S, i) = n
  BY <1>3, <1>6 DEF Surjection
<1> QED BY <1>2, <1>7 DEF Nth, Rank

\* Successive ranks are neighbours.
LEMMA NthNeighbours ==
    ASSUME NEW m \in Nat, NEW S \in SUBSET (1..m), NEW n \in 1..(Cardinality(S) - 1)
    PROVE  /\ Nth(S, n) \in S /\ Nth(S, n + 1) \in S /\ Nth(S, n) < Nth(S, n + 1)
           /\ \A j \in S : ~(Nth(S, n) < j /\ j < Nth(S, n + 1))
<1>0. Cardinality(S) \in Nat /\ \A i, k \in S : i < k => Rank(S, i) < Rank(S, k)
  BY RankBounds
<1>1. n \in 1..Cardinality(S) /\ n + 1 \in 1..Cardinality(S) /\ n \in Nat
  BY <1>0
<1> DEFINE a == Nth(S, n)
           b == Nth(S, n + 1)
<1>2. a \in S /\ Rank(S, a) = n
  BY <1>1, NthPosition
<1>3. b \in S /\ Rank(S, b) = n + 1
  BY <1>1, NthPosition
<1> HIDE DEF a, b
<1>4. a < b
  <2>0. a \in Nat /\ b \in Nat
    BY <1>2, <1>3
  <2>1. ~(b < a) /\ a # b
    BY <1>0, <1>1, <1>2, <1>3
  <2> QED BY <2>0, <2>1
<1>5. ASSUME NEW j \in S, a < j, j < b PROVE FALSE
  <2>1. n < Rank(S, j) /\ Rank(S, j) < n + 1
    BY <1>0, <1>2, <1>3, <1>5
  <2>2. Rank(S, j) \in 1..Cardinality(S)
    BY RankBounds
  <2> QED BY <1>0, <1>1, <2>1, <2>2
<1> QED BY <1>2, <1>3, <1>4, <1>5 DEF a, b

\* The cuts of a text.
LEMMA CutsOfText ==
    ASSUME NEW t \in Texts
    PROVE  /\ Len(t) \in Nat /\ Cuts(t) \in SUBSET (1..(Len(t) + 1))
           /\ \A i \in 1..Len(t) : i \in Cuts(t) <=> t[i] = Slash
           /\ Len(t) + 1 \in Cuts(t)
           /\ Segments(t) \in Seq(Texts) /\ Len(Segments(t)) = Cardinality(Cuts(t)) - 1
<1>1. t \in Seq([c : Classes, d : Nat]) /\ Len(t) \in Nat /\ DOMAIN t = 1..Len(t)
  BY DEF Texts
<1>2. /\ Cuts(t) \in SUBSET (1..(Len(t) + 1))
      /\ \A i \in 1..Len(t) : i \in Cuts(t) <=> t[i] = Slash
      /\ Len(t) + 1 \in Cuts(t)
  BY <1>1 DEF Cuts
<1> DEFINE N == Cardinality(Cuts(t)) - 1
<1>3. N \in Nat
  <2>1. Len(t) + 1 \in Nat /\ Cuts(t) # {}
    BY <1>1, <1>2
  <2>2. IsFiniteSet(Cuts(t)) /\ Cardinality(Cuts(t)) \in Nat
    BY <1>2, <2>1, RankBounds
  <2>3. Cardinality(Cuts(t)) # 0
    BY <2>1, <2>2, FS_EmptySet
  <2> QED BY <2>2, <2>3
<1>4. ASSUME NEW n \in 1..N PROVE SubSeq(t, Nth(Cuts(t), n) + 1, Nth(Cuts(t), n + 1) - 1) \in Texts
  <2>0. Len(t) + 1 \in Nat
    BY <1>1
  <2>1. PICK a \in 1..(Len(t) + 1) : a = Nth(Cuts(t), n)
    BY <1>2, <2>0, NthNeighbours
  <2>2. PICK b \in 1..(Len(t) + 1) : b = Nth(Cuts(t), n + 1)
    BY <1>2, <2>0, NthNeighbours
  <2> DEFINE R == [c : Classes, d : Nat]
  <2>3. t \in Seq(R)
    BY <1>1
  <2> HIDE DEF R
  <2>4. \A i \in (a + 1)..(b - 1) : i \in 1..Len(t)
    BY <1>1
  <2>5. SubSeq(t, a + 1, b - 1) \in Seq(R)
    BY <2>3, <2>4
  <2> QED BY <2>1, <2>2, <2>5 DEF Texts, R
<1>5. Segments(t) = [n \in 1..N |-> SubSeq(t, Nth(Cuts(t), n) + 1, Nth(Cuts(t), n + 1) - 1)]
  BY DEF Segments
<1> HIDE DEF N
<1>6. Segments(t) \in Seq(Texts) /\ Len(Segments(t)) = N
  BY <1>3, <1>4, <1>5
<1> QED BY <1>1, <1>2, <1>6 DEF N

\* The characters between two positions.
LEMMA TextBetween ==
    ASSUME NEW t \in Texts, NEW a \in 1..Len(t), NEW b \in 1..(Len(t) + 1), a < b
    PROVE  /\ Len(SubSeq(t, a + 1, b - 1)) = b - a - 1
           /\ \A i \in (a + 1)..(b - 1) : SubSeq(t, a + 1, b - 1)[i - a] = t[i]
<1>0. Len(t) \in Nat /\ a \in Int /\ b \in Int /\ a + 1 \in Int /\ b - 1 \in Int
  BY DEF Texts
<1> DEFINE R == {t[i] : i \in (a + 1)..(b - 1)}
<1>1. \A i \in (a + 1)..(b - 1) : t[i] \in R
  OBVIOUS
<1> HIDE DEF R
<1>2. /\ Len(SubSeq(t, a + 1, b - 1)) = IF a + 1 <= b - 1 THEN (b - 1) - (a + 1) + 1 ELSE 0
      /\ \A k \in 1..((b - 1) - (a + 1) + 1) : SubSeq(t, a + 1, b - 1)[k] = t[(a + 1) + k - 1]
  BY <1>0, <1>1, SubSeqProperties
<1>3. ASSUME NEW i \in (a + 1)..(b - 1) PROVE SubSeq(t, a + 1, b - 1)[i - a] = t[i]
  <2>1. i - a \in 1..((b - 1) - (a + 1) + 1) /\ (a + 1) + (i - a) - 1 = i
    BY <1>0
  <2>2. SubSeq(t, a + 1, b - 1)[i - a] = t[(a + 1) + (i - a) - 1]
    BY <1>2, <2>1
  <2> QED BY <2>1, <2>2
<1> QED BY <1>0, <1>2, <1>3

\* Two functions that agree on an interval have the same subsequence there.
LEMMA SameBetween ==
    ASSUME NEW s, NEW t, NEW m \in Int, NEW n \in Int, \A i \in m..n : s[i] = t[i]
    PROVE  SubSeq(s, m, n) = SubSeq(t, m, n)
<1> DEFINE R == {t[i] : i \in m..n}
<1>1. \A i \in m..n : s[i] \in R /\ t[i] \in R
  OBVIOUS
<1> HIDE DEF R
<1>2. /\ SubSeq(s, m, n) \in Seq(R) /\ SubSeq(t, m, n) \in Seq(R)
      /\ Len(SubSeq(s, m, n)) = (IF m <= n THEN n - m + 1 ELSE 0)
      /\ Len(SubSeq(t, m, n)) = (IF m <= n THEN n - m + 1 ELSE 0)
      /\ \A i \in 1..(n - m + 1) : SubSeq(s, m, n)[i] = s[m + i - 1]
      /\ \A i \in 1..(n - m + 1) : SubSeq(t, m, n)[i] = t[m + i - 1]
  BY <1>1, SubSeqProperties
<1>3. ASSUME NEW i \in 1..Len(SubSeq(s, m, n)) PROVE SubSeq(s, m, n)[i] = SubSeq(t, m, n)[i]
  <2>1. i \in 1..(n - m + 1) /\ m + i - 1 \in m..n
    BY <1>2
  <2> QED BY <1>2, <2>1
<1> QED BY <1>2, <1>3

\* A segment lies between two neighbouring cuts.
LEMMA SegmentForm ==
    ASSUME NEW t \in Texts, NEW n \in 1..Len(Segments(t))
    PROVE  \E a, b : /\ a = Nth(Cuts(t), n) /\ b = Nth(Cuts(t), n + 1)
                     /\ a \in 1..Len(t) /\ b \in 1..(Len(t) + 1) /\ a < b /\ t[a] = Slash
                     /\ b = Len(t) + 1 \/ t[b] = Slash
                     /\ Segments(t)[n] = SubSeq(t, a + 1, b - 1)
                     /\ Len(Segments(t)[n]) = b - a - 1
                     /\ \A i \in (a + 1)..(b - 1) : /\ i \in 1..Len(t) /\ t[i] # Slash
                                                    /\ Segments(t)[n][i - a] = t[i]
<1>n. PICK a, b : a = Nth(Cuts(t), n) /\ b = Nth(Cuts(t), n + 1)
  OBVIOUS
<1>0. /\ Len(t) \in Nat /\ Len(t) + 1 \in Nat /\ Cuts(t) \in SUBSET (1..(Len(t) + 1))
      /\ \A i \in 1..Len(t) : i \in Cuts(t) <=> t[i] = Slash
      /\ n \in 1..(Cardinality(Cuts(t)) - 1)
  <2>1. /\ Len(t) \in Nat /\ Cuts(t) \in SUBSET (1..(Len(t) + 1))
        /\ \A i \in 1..Len(t) : i \in Cuts(t) <=> t[i] = Slash
        /\ Len(Segments(t)) = Cardinality(Cuts(t)) - 1
    BY CutsOfText
  <2>2. Len(t) + 1 \in Nat
    BY <2>1
  <2> QED BY <2>1, <2>2
<1>1. /\ a \in Cuts(t) /\ b \in Cuts(t) /\ a < b
      /\ \A j \in Cuts(t) : ~(a < j /\ j < b)
  BY <1>n, <1>0, NthNeighbours
<1>2. a \in 1..Len(t) /\ b \in 1..(Len(t) + 1)
  BY <1>0, <1>1
<1>3. t[a] = Slash /\ (b = Len(t) + 1 \/ t[b] = Slash)
  BY <1>0, <1>1, <1>2
<1>4. \A i \in (a + 1)..(b - 1) : i \in 1..Len(t) /\ t[i] # Slash
  <2> SUFFICES ASSUME NEW i \in (a + 1)..(b - 1) PROVE i \in 1..Len(t) /\ t[i] # Slash
    OBVIOUS
  <2>1. i \in 1..Len(t) /\ a < i /\ i < b
    BY <1>0, <1>2
  <2> QED BY <1>0, <1>1, <2>1
<1>5. Segments(t)[n] = SubSeq(t, a + 1, b - 1)
  BY <1>n, <1>0 DEF Segments
<1>6. /\ Len(SubSeq(t, a + 1, b - 1)) = b - a - 1
      /\ \A i \in (a + 1)..(b - 1) : SubSeq(t, a + 1, b - 1)[i - a] = t[i]
  BY <1>1, <1>2, TextBetween
<1>7. /\ Len(Segments(t)[n]) = b - a - 1
      /\ \A i \in (a + 1)..(b - 1) : /\ i \in 1..Len(t) /\ t[i] # Slash
                                     /\ Segments(t)[n][i - a] = t[i]
  BY <1>4, <1>5, <1>6
<1> WITNESS a, b
<1> QED BY <1>n, <1>1, <1>2, <1>3, <1>5, <1>7

\* path.Clean keeps a path whose segments are all names.
LEMMA CleanKeepsNames ==
    ASSUME NEW segs \in Seq(Texts),
           \A n \in 1..Len(segs) : segs[n] \notin {<<>>, <<Char("dot")>>, <<Char("dot"), Char("dot")>>}
    PROVE  CleanSegments(segs) = segs
<1> DEFINE N == Len(segs)
           Step(g) == [n \in 0..N |->
                         IF n = 0 THEN <<>>
                         ELSE IF segs[n] \in {<<>>, <<Char("dot")>>} THEN g[n - 1]
                         ELSE IF segs[n] = <<Char("dot"), Char("dot")>>
                              THEN IF g[n - 1] = <<>> THEN <<>> ELSE Front(g[n - 1])
                              ELSE Append(g[n - 1], segs[n])]
           kept == CHOOSE g : g = Step(g)
           whole == [n \in 0..N |-> SubSeq(segs, 1, n)]
<1>0. N \in Nat
  OBVIOUS
<1>1. CleanSegments(segs) = kept[N]
  BY DEF CleanSegments
<1>2. ASSUME NEW g PROVE \A n \in 0..N : Step(g)[n] = IF n = 0 THEN <<>> ELSE Append(g[n - 1], segs[n])
  <2> SUFFICES ASSUME NEW n \in 0..N
               PROVE  Step(g)[n] = IF n = 0 THEN <<>> ELSE Append(g[n - 1], segs[n])
    OBVIOUS
  <2>1. n # 0 => n \in 1..Len(segs)
    BY <1>0
  <2> QED BY <2>1
<1>3. \A n \in 1..N : /\ n - 1 \in 0..N
                      /\ Append(SubSeq(segs, 1, n - 1), segs[n]) = SubSeq(segs, 1, n)
  BY <1>0
<1>4. SubSeq(segs, 1, 0) = <<>>
  BY <1>0
<1>5. whole = Step(whole)
  <2>1. ASSUME NEW n \in 0..N PROVE Step(whole)[n] = SubSeq(segs, 1, n)
    <3>1. CASE n = 0
      BY <1>2, <1>4, <3>1
    <3>2. CASE n # 0
      <4>1. n \in 1..N
        BY <1>0, <3>2
      <4>2. whole[n - 1] = SubSeq(segs, 1, n - 1)
        BY <1>3, <4>1
      <4> HIDE DEF whole, Step
      <4>3. Step(whole)[n] = Append(whole[n - 1], segs[n])
        BY <1>2, <3>2
      <4> QED BY <1>3, <4>1, <4>2, <4>3
    <3> QED BY <3>1, <3>2
  <2>2. Step(whole) = [n \in 0..N |-> Step(whole)[n]]
    OBVIOUS
  <2> QED BY <2>1, <2>2
<1>6. kept = Step(kept)
  <2> HIDE DEF Step, whole
  <2> QED BY <1>5
<1> HIDE DEF kept, Step, N
<1> DEFINE Off == {n \in 0..N : kept[n] # SubSeq(segs, 1, n)}
<1>7. Off = {}
  <2> SUFFICES ASSUME Off # {} PROVE FALSE
    OBVIOUS
  <2>1. Off \in SUBSET Nat
    BY <1>0
  <2> HIDE DEF Off
  <2>2. PICK n \in Off : \A k \in Off : n <= k
    BY <2>1, LeastNatural
  <2>3. n \in 0..N /\ kept[n] # SubSeq(segs, 1, n)
    BY <2>2 DEF Off
  <2>4. n # 0
    BY <1>2, <1>4, <1>6, <2>3
  <2>5. n \in 1..N /\ n - 1 \in 0..N /\ ~(n <= n - 1)
    BY <1>0, <2>3, <2>4
  <2>6. kept[n - 1] = SubSeq(segs, 1, n - 1)
    BY <2>2, <2>5 DEF Off
  <2>7. kept[n] = Append(kept[n - 1], segs[n])
    BY <1>2, <1>6, <2>3, <2>4
  <2> QED BY <1>3, <2>3, <2>5, <2>6, <2>7
<1>8. kept[N] = SubSeq(segs, 1, N)
  BY <1>0, <1>7
<1> QED BY <1>1, <1>8 DEF N

\* q is p with some of its encodings taken off.
Unwraps(p, q) == Len(q) = Len(p) /\ \A i \in 1..Len(p) : p[i].d = 0 => q[i] = p[i]

\* A text whose decoded form has neither an empty segment nor a dot segment has
\* none itself.
LEMMA NamesOnly ==
    ASSUME NEW p \in Texts, NEW q \in Texts, Unwraps(p, q),
           ~EmptySegment(q), ~DotSegment(q), NEW n \in 1..Len(Segments(p))
    PROVE  Segments(p)[n] \notin {<<>>, <<Char("dot")>>, <<Char("dot"), Char("dot")>>}
<1> DEFINE seg == Segments(p)[n]
<1>1. PICK a, b :
        /\ a \in 1..Len(p) /\ b \in 1..(Len(p) + 1) /\ a < b /\ p[a] = Slash
        /\ b = Len(p) + 1 \/ p[b] = Slash
        /\ Len(seg) = b - a - 1
        /\ \A i \in (a + 1)..(b - 1) : i \in 1..Len(p) /\ seg[i - a] = p[i]
  BY SegmentForm
<1> HIDE DEF seg
<1>2. Len(q) = Len(p) /\ Len(p) \in Nat /\ DOMAIN q = 1..Len(p)
  BY DEF Unwraps, Texts
<1>3. ASSUME NEW i \in 1..Len(p), NEW class, p[i] = Char(class) PROVE q[i] = p[i]
  <2>1. p[i].d = 0
    BY <1>3 DEF Char
  <2> QED BY <2>1 DEF Unwraps
<1>4. q[a] = Slash /\ (b = Len(q) + 1 \/ q[b] = Slash)
  <2>1. q[a] = Slash
    BY <1>1, <1>3 DEF Slash
  <2>2. CASE b = Len(p) + 1
    BY <1>2, <2>1, <2>2
  <2>3. CASE b # Len(p) + 1
    <3>1. b \in 1..Len(p) /\ p[b] = Slash
      BY <1>1, <1>2, <2>3
    <3> QED BY <1>3, <2>1, <3>1 DEF Slash
  <2> QED BY <2>2, <2>3
<1>5. b # a + 1
  <2> SUFFICES ASSUME b = a + 1 PROVE EmptySegment(q)
    OBVIOUS
  <2>1. a \in DOMAIN q /\ a \in Nat /\ Len(q) \in Nat
    BY <1>1, <1>2
  <2>2. a = Len(q) \/ q[a + 1] = Slash
    BY <1>4, <2>1
  <2> QED BY <1>4, <2>1, <2>2 DEF EmptySegment
<1>6. ASSUME b <= a + 3, \A i \in (a + 1)..(b - 1) : p[i] = Char("dot") PROVE FALSE
  <2>1. a \in 1..(Len(q) + 1) /\ b \in 1..(Len(q) + 1) /\ a + 1 < b /\ b <= a + 3
    BY <1>1, <1>2, <1>5, <1>6
  <2>2. \A i \in (a + 1)..(b - 1) : Is(q[i], "dot")
    BY <1>1, <1>3, <1>6 DEF Is
  <2> QED BY <1>4, <2>1, <2>2 DEF DotSegment
<1>7. seg # <<>>
  BY <1>1, <1>2, <1>5
<1>8. ASSUME seg = <<Char("dot")>> \/ seg = <<Char("dot"), Char("dot")>> PROVE FALSE
  <2>1. Len(seg) \in {1, 2} /\ \A k \in 1..Len(seg) : seg[k] = Char("dot")
    BY <1>8
  <2>2. b <= a + 3
    BY <1>1, <1>2, <2>1
  <2>3. ASSUME NEW i \in (a + 1)..(b - 1) PROVE p[i] = Char("dot")
    <3>1. i - a \in 1..Len(seg)
      BY <1>1, <1>2
    <3> QED BY <1>1, <2>1, <3>1
  <2> QED BY <1>6, <2>2, <2>3
<1> QED BY <1>7, <1>8 DEF seg

\* The segments of an allowlist entry, without encodings.
PlainPrefix(prefix) ==
    /\ prefix \in Seq(Texts)
    /\ \A n \in 1..Len(prefix) : \A i \in 1..Len(prefix[n]) : prefix[n][i].d = 0

\* Up to the end of a plain prefix a path and its decoded form are the same.
LEMMA SameUpTo ==
    ASSUME NEW p \in Texts, NEW q \in Texts, Unwraps(p, q), Absolute(p),
           NEW prefix, PlainPrefix(prefix), IsPrefix(prefix, Segments(p)), prefix # <<>>,
           NEW m, m = Nth(Cuts(p), Len(prefix) + 1), NEW i \in 1..m, i <= Len(p)
    PROVE  q[i] = p[i]
<1> DEFINE S == Cuts(p)
<1>0. /\ Len(p) \in Nat /\ Len(p) + 1 \in Nat /\ S \in SUBSET (1..(Len(p) + 1))
      /\ \A k \in 1..Len(p) : k \in S <=> p[k] = Slash
      /\ Segments(p) \in Seq(Texts) /\ Len(Segments(p)) = Cardinality(S) - 1
  <2>1. /\ Len(p) \in Nat /\ S \in SUBSET (1..(Len(p) + 1))
        /\ \A k \in 1..Len(p) : k \in S <=> p[k] = Slash
        /\ Segments(p) \in Seq(Texts) /\ Len(Segments(p)) = Cardinality(S) - 1
    BY CutsOfText
  <2> QED BY <2>1
<1>1. /\ prefix \in Seq(Texts) /\ Len(prefix) \in Nat /\ Len(prefix) # 0
      /\ Len(prefix) <= Cardinality(S) - 1
  BY <1>0 DEF PlainPrefix, IsPrefix
<1>2. Cardinality(S) \in Nat /\ \A k \in S : Rank(S, k) \in 1..Cardinality(S)
  BY <1>0, RankBounds
<1>3. \A k, l \in S : k < l => Rank(S, k) < Rank(S, l)
  BY <1>0, RankBounds
<1>4. m \in S /\ Rank(S, m) = Len(prefix) + 1
  <2>1. Len(prefix) + 1 \in 1..Cardinality(S)
    BY <1>1, <1>2
  <2> QED BY <1>0, <2>1, NthPosition
<1>5. i \in 1..Len(p)
  BY <1>0, <1>4
<1>6. CASE p[i] = Slash
  <2>1. p[i].d = 0
    BY <1>6 DEF Slash, Char
  <2> QED BY <1>5, <2>1 DEF Unwraps
<1>7. CASE p[i] # Slash
  <2>1. i \notin S
    BY <1>0, <1>5, <1>7
  <2> DEFINE L == {k \in S : k < i}
  <2>2. 1 \in S
    BY <1>0, <1>5 DEF Absolute
  <2>3. L \in SUBSET (1..i) /\ L # {}
    <3>1. 1 < i
      BY <1>5, <2>1, <2>2
    <3>2. \A k \in S : k \in Nat /\ 1 <= k
      BY <1>0
    <3> QED BY <1>5, <2>2, <3>1, <3>2
  <2>4. PICK a \in L : \A k \in L : a >= k
    <3>1. i \in Nat
      BY <1>5
    <3> HIDE DEF L
    <3> QED BY <2>3, <3>1, MaxPosition
  <2>5. a \in S /\ a < i /\ i < m /\ a \in Nat /\ m \in Nat
    BY <1>0, <1>4, <1>5, <2>1
  <2>6. PICK n : n = Rank(S, a)
    OBVIOUS
  <2>7. n \in 1..Len(prefix) /\ n \in 1..Len(Segments(p)) /\ n + 1 \in 1..Cardinality(S)
        /\ n \in 1..Cardinality(S)
    <3>1. n < Len(prefix) + 1 /\ n \in 1..Cardinality(S)
      BY <1>2, <1>3, <1>4, <2>5, <2>6
    <3> QED BY <1>0, <1>1, <1>2, <3>1
  <2>8. a = Nth(S, n)
    BY <1>0, <2>5, <2>6, <2>7, NthPosition
  <2>9. PICK c, b :
          /\ c = Nth(Cuts(p), n) /\ b = Nth(Cuts(p), n + 1)
          /\ c \in 1..Len(p) /\ b \in 1..(Len(p) + 1) /\ c < b /\ p[c] = Slash
          /\ b = Len(p) + 1 \/ p[b] = Slash
          /\ Segments(p)[n] = SubSeq(p, c + 1, b - 1)
          /\ Len(Segments(p)[n]) = b - c - 1
          /\ \A k \in (c + 1)..(b - 1) : /\ k \in 1..Len(p) /\ p[k] # Slash
                                         /\ Segments(p)[n][k - c] = p[k]
    BY <2>7, SegmentForm, Zenon
  <2>10. /\ a \in 1..Len(p) /\ b \in 1..(Len(p) + 1) /\ a < b
         /\ Len(Segments(p)[n]) = b - a - 1
         /\ \A k \in (a + 1)..(b - 1) : Segments(p)[n][k - a] = p[k]
    BY <2>8, <2>9
  <2>11. b \in S
    BY <1>0, <2>7, <2>9, NthPosition
  <2>12. i < b
    <3>1. ~(b < i)
      BY <2>4, <2>10, <2>11
    <3> QED BY <1>5, <2>1, <2>10, <2>11, <3>1
  <2>13. i \in (a + 1)..(b - 1) /\ i - a \in 1..Len(Segments(p)[n])
    BY <1>5, <2>5, <2>10, <2>12
  <2>14. Segments(p)[n] = prefix[n]
    BY <1>0, <1>1, <2>7 DEF IsPrefix
  <2>15. p[i].d = 0
    <3>1. prefix[n][i - a].d = 0
      BY <2>7, <2>13, <2>14 DEF PlainPrefix
    <3> QED BY <2>10, <2>13, <2>14, <3>1
  <2> QED BY <1>5, <2>15 DEF Unwraps
<1> QED BY <1>6, <1>7

\* So the decoded path begins with the same segments.
LEMMA PrefixKept ==
    ASSUME NEW p \in Texts, NEW q \in Texts, Unwraps(p, q), Absolute(p),
           NEW prefix, PlainPrefix(prefix), IsPrefix(prefix, Segments(p))
    PROVE  IsPrefix(prefix, Segments(q))
<1> DEFINE S == Cuts(p)
           T == Cuts(q)
           N == Len(prefix)
           m == Nth(S, N + 1)
<1>0. Len(q) = Len(p) /\ Len(p) \in Nat /\ Len(p) + 1 \in Nat
  BY DEF Unwraps, Texts
<1>1. /\ S \in SUBSET (1..(Len(p) + 1)) /\ Len(p) + 1 \in S
      /\ \A k \in 1..Len(p) : k \in S <=> p[k] = Slash
      /\ Segments(p) \in Seq(Texts) /\ Len(Segments(p)) = Cardinality(S) - 1
  BY CutsOfText
<1>2. /\ T \in SUBSET (1..(Len(p) + 1)) /\ Len(p) + 1 \in T
      /\ \A k \in 1..Len(p) : k \in T <=> q[k] = Slash
      /\ Segments(q) \in Seq(Texts) /\ Len(Segments(q)) = Cardinality(T) - 1
  BY <1>0, CutsOfText
<1>3. /\ prefix \in Seq(Texts) /\ N \in Nat /\ N <= Cardinality(S) - 1
      /\ \A n \in 1..N : Segments(p)[n] = prefix[n]
  <2>1. prefix \in Seq(Texts) /\ N \in Nat /\ N <= Cardinality(S) - 1
    BY <1>1 DEF PlainPrefix, IsPrefix
  <2> QED BY <1>1, <2>1 DEF IsPrefix
<1>4. Cardinality(S) \in Nat /\ Cardinality(T) \in Nat /\ IsFiniteSet(T)
  BY <1>0, <1>1, <1>2, RankBounds
<1>5. CASE prefix = <<>>
  BY <1>2, <1>5 DEF IsPrefix
<1>6. CASE prefix # <<>>
  <2>0. N # 0
    BY <1>3, <1>6
  <2>1. N + 1 \in 1..Cardinality(S)
    BY <1>3, <1>4
  <2>2. m \in S /\ Rank(S, m) = N + 1
    BY <1>0, <1>1, <2>1, NthPosition
  <2>3. ASSUME NEW i \in 1..m PROVE (i \in S <=> i \in T) /\ (i <= Len(p) => q[i] = p[i])
    <3>1. i <= Len(p) => q[i] = p[i]
      BY <1>6, SameUpTo
    <3>2. i \in 1..(Len(p) + 1)
      BY <1>0, <1>1, <2>2
    <3>3. CASE i = Len(p) + 1
      BY <1>1, <1>2, <3>1, <3>3
    <3>4. CASE i # Len(p) + 1
      <4>1. i \in 1..Len(p)
        BY <1>0, <3>2, <3>4
      <4> QED BY <1>1, <1>2, <3>1, <4>1
    <3> QED BY <3>3, <3>4
  <2> HIDE DEF m
  <2>4. ASSUME NEW i \in S, i <= m PROVE i \in T /\ Rank(T, i) = Rank(S, i)
    <3>0. i \in Nat /\ m \in Nat /\ i \in 1..m
      BY <1>1, <2>2, <2>4
    <3>1. i \in T
      BY <2>3, <3>0
    <3>2. ASSUME NEW j \in Nat, 1 <= j, j <= i PROVE j \in S <=> j \in T
      <4>1. j \in 1..m
        BY <2>4, <3>0, <3>2
      <4> QED BY <2>3, <4>1
    <3>3. \A j \in S \cup T : j \in Nat /\ 1 <= j
      BY <1>1, <1>2
    <3>4. {j \in S : j <= i} = {j \in T : j <= i}
      BY <3>2, <3>3
    <3> QED BY <3>1, <3>4 DEF Rank
  <2>5. ASSUME NEW n \in 1..(N + 1)
        PROVE  /\ Nth(S, n) \in S /\ Nth(S, n) <= m
               /\ n \in 1..Cardinality(T) /\ Nth(T, n) = Nth(S, n)
    <3>1. n \in 1..Cardinality(S) /\ n \in Nat
      BY <1>3, <1>4, <2>1
    <3>2. Nth(S, n) \in S /\ Rank(S, Nth(S, n)) = n
      BY <1>0, <1>1, <3>1, NthPosition
    <3>3. Nth(S, n) <= m
      <4>1. \A k, l \in S : k < l => Rank(S, k) < Rank(S, l)
        BY <1>0, <1>1, RankBounds
      <4>2. ~(m < Nth(S, n))
        BY <1>3, <2>2, <3>1, <3>2, <4>1
      <4>3. m \in Nat /\ Nth(S, n) \in Nat
        BY <1>1, <2>2, <3>2
      <4> QED BY <4>2, <4>3
    <3>4. Nth(S, n) \in T /\ Rank(T, Nth(S, n)) = n
      BY <2>4, <3>2, <3>3
    <3>5. n \in 1..Cardinality(T)
      BY <1>0, <1>2, <3>4, RankBounds
    <3>6. \A i \in T : Rank(T, i) = n => i = Nth(T, n)
      BY <1>0, <1>2, <3>5, NthPosition
    <3> QED BY <3>2, <3>3, <3>4, <3>5, <3>6
  <2>6. N <= Len(Segments(q))
    <3>1. N + 1 \in 1..Cardinality(T)
      BY <1>3, <2>5
    <3> QED BY <1>2, <1>3, <1>4, <3>1
  <2>7. ASSUME NEW n \in 1..N PROVE Segments(q)[n] = prefix[n]
    <3>1. n \in 1..(N + 1) /\ n + 1 \in 1..(N + 1)
      BY <1>3
    <3>2. n \in 1..Len(Segments(p)) /\ n \in 1..Len(Segments(q))
      BY <1>1, <1>3, <1>4, <2>6, <1>2
    <3>3. PICK a, b :
            /\ a = Nth(Cuts(p), n) /\ b = Nth(Cuts(p), n + 1)
            /\ a \in 1..Len(p) /\ b \in 1..(Len(p) + 1) /\ a < b /\ p[a] = Slash
            /\ b = Len(p) + 1 \/ p[b] = Slash
            /\ Segments(p)[n] = SubSeq(p, a + 1, b - 1)
            /\ Len(Segments(p)[n]) = b - a - 1
            /\ \A i \in (a + 1)..(b - 1) : /\ i \in 1..Len(p) /\ p[i] # Slash
                                           /\ Segments(p)[n][i - a] = p[i]
      BY <3>2, SegmentForm, Zenon
    <3>4. a = Nth(T, n) /\ b = Nth(T, n + 1) /\ b <= m
      BY <2>5, <3>1, <3>3
    <3>5. Segments(q)[n] = SubSeq(q, a + 1, b - 1)
      <4>1. PICK c, e : c = Nth(T, n) /\ e = Nth(T, n + 1) /\ Segments(q)[n] = SubSeq(q, c + 1, e - 1)
        BY <3>2, SegmentForm
      <4> QED BY <3>4, <4>1
    <3>6. m \in Nat
      BY <1>1, <2>2
    <3>7. ASSUME NEW i \in (a + 1)..(b - 1) PROVE q[i] = p[i]
      <4>1. i \in 1..m /\ i <= Len(p)
        BY <1>0, <3>4, <3>3, <3>6
      <4> QED BY <2>3, <4>1
    <3>8. SubSeq(q, a + 1, b - 1) = SubSeq(p, a + 1, b - 1)
      <4>1. a \in 1..Len(p) /\ b \in 1..(Len(p) + 1)
        BY <3>3
      <4>2. a + 1 \in Int /\ b - 1 \in Int
        BY <1>0, <4>1
      <4> QED BY <3>7, <4>2, SameBetween
    <3>9. Segments(p)[n] = prefix[n]
      BY <1>3
    <3> QED BY <3>3, <3>5, <3>8, <3>9
  <2> HIDE DEF N
  <2>8. SubSeq(Segments(q), 1, N) = SubSeq(prefix, 1, N)
    <3>1. \A n \in 1..N : Segments(q)[n] = prefix[n]
      BY <2>7
    <3>2. 1 \in Int /\ N \in Int
      BY <1>3
    <3> QED BY <3>1, <3>2, SameBetween
  <2> QED BY <2>6, <2>8 DEF IsPrefix, N
<1> QED BY <1>5, <1>6

\* A mirrored file lies below every allowlisted prefix that admitted its URL,
\* for every URL and every prefix without encodings: path.Clean cannot be made
\* to see segments that NormalizePath then reads otherwise (pathWithinPrefix,
\* harvestExternal).
THEOREM MirroredBelowEveryPrefix ==
    ASSUME NEW t \in Texts, NEW prefix, PlainPrefix(prefix)
    PROVE  MirroredBelowPrefix(t, prefix)
<1> DEFINE p == BeforeMark(t)
           q == NormalizePath(Decoded(p, 1))
<1> SUFFICES ASSUME MirrorPath(t, prefix) # Rejected
             PROVE  IsPrefix(prefix, Segments(MirrorPath(t, prefix)))
  BY DEF MirroredBelowPrefix
<1>1. Absolute(p) /\ IsPrefix(prefix, Clean(p)) /\ MirrorPath(t, prefix) = q /\ q # Rejected
  BY DEF MirrorPath, PathWithinPrefix
<1>2. p \in Texts /\ Decoded(p, 1) \in Texts
  BY BeforeMarkText, DecodedText
<1> HIDE DEF p
<1>3. q = Decoded(Decoded(p, 1), 4) /\ q \in Texts /\ Storable(q)
  BY <1>1, <1>2, NormalizedForm, NormalizedStorable
<1> HIDE DEF q
<1>4. Unwraps(p, q)
  <2>1. Len(q) = Len(p)
    BY <1>2, <1>3, DecodedText
  <2>2. ASSUME NEW i \in 1..Len(p), p[i].d = 0 PROVE q[i] = p[i]
    <3>1. Decoded(p, 1)[i] = [c |-> p[i].c, d |-> 0]
      BY <1>2, <2>2, DecodedText
    <3>2. i \in 1..Len(Decoded(p, 1))
      BY <1>2, DecodedText
    <3>3. q[i] = [c |-> Decoded(p, 1)[i].c,
                  d |-> IF Decoded(p, 1)[i].d > 4 THEN Decoded(p, 1)[i].d - 4 ELSE 0]
      BY <1>2, <1>3, <3>2, DecodedText
    <3>4. p[i] = [c |-> p[i].c, d |-> p[i].d]
      BY <1>2, Characters
    <3> QED BY <2>2, <3>1, <3>3, <3>4
  <2> QED BY <2>1, <2>2 DEF Unwraps
<1>5. \A n \in 1..Len(Segments(p)) :
         Segments(p)[n] \notin {<<>>, <<Char("dot")>>, <<Char("dot"), Char("dot")>>}
  BY <1>2, <1>3, <1>4, NamesOnly DEF Storable
<1>6. Clean(p) = Segments(p)
  <2>1. Segments(p) \in Seq(Texts)
    BY <1>2, CutsOfText
  <2> QED BY <1>5, <2>1, CleanKeepsNames DEF Clean
<1> QED BY <1>1, <1>2, <1>3, <1>4, <1>6, PrefixKept

\* In particular below the prefix /x, whatever the text of the URL.
THEOREM EveryMirrorBelowPrefix == PathSpec => []AllMirrored
<1>1. PlainPrefix(Prefix)
  <2>1. Char("x") \in [c : Classes, d : Nat] /\ Char("x").d = 0
    BY DEF Char, Classes
  <2> DEFINE R == [c : Classes, d : Nat]
             x == Char("x")
  <2>2. x \in R /\ x.d = 0
    BY <2>1
  <2> HIDE DEF R, x
  <2>3. <<x>> \in Seq(R) /\ Len(<<x>>) = 1 /\ <<x>>[1] = x
    BY <2>2
  <2>4. <<x>> \in Texts
    BY <2>3 DEF Texts, R
  <2>5. <<<<x>>>> \in Seq(Texts) /\ Len(<<<<x>>>>) = 1 /\ <<<<x>>>>[1] = <<x>>
    BY <2>4
  <2>6. Prefix = <<<<x>>>>
    BY DEF Prefix, x
  <2> QED BY <2>2, <2>3, <2>5, <2>6 DEF PlainPrefix
<1>2. raw \in Texts => AllMirrored
  BY <1>1, MirroredBelowEveryPrefix DEF AllMirrored
<1> QED BY <1>2, TextAlways, PTL
=============================================================================
