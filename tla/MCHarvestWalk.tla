---------------------------- MODULE MCHarvestWalk ----------------------------
(* Two stylesheets that may refer to themselves, to each other and to a    *)
(* font; a script outside the allowlist; a mirrored URL of either path.    *)
EXTENDS HarvestWalk

FourPaths == {"a.css", "b.css", "font", "script"}
Listed    == {"a.css", "b.css", "font"}
TwoSheets == {"a.css", "b.css"}
SizeOf    == [p \in FourPaths |-> IF p = "font" THEN 4 ELSE 1]

Ref(f, p) == [form |-> f, path |-> p]

PageRefs ==
    {Ref("same", "a.css"), Ref("same", "b.css"), Ref("same", "script"),
     Ref("same", NoPath), Ref("relative", "font"), Ref("external", "font"),
     Ref("inert", NoPath), Ref("asset", NoPath), Ref("masked", NoPath),
     Ref("image", NoPath)}

SomePages == {<<r, s>> : r, s \in PageRefs}

SomeSheets ==
    {<<>>,
     <<Ref("same", "a.css"), Ref("relative", "b.css")>>,
     <<Ref("relative", "b.css"), Ref("relative", "font")>>,
     <<Ref("relative", "a.css"), Ref("external", "font")>>,
     <<Ref("external", "script"), Ref("same", "font")>>,
     <<Ref("relative", NoPath)>>,
     <<Ref("external", NoPath)>>,
     <<Ref("image", NoPath)>>,
     <<Ref("asset", NoPath)>>}
=============================================================================
