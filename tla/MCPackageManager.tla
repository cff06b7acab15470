-------------------------- MODULE MCPackageManager -------------------------
(* A library that two packages share, one from a repository and one from a directory. *)
EXTENDS PackageManager

V(minor, deps) == [version |-> <<1, minor, 0>>, deps |-> deps]
From(src, ref) == [src |-> src, ref |-> ref]

\* The branch of lib goes from l0, which needs a newer base, to l2; l1 is a tag
\* between them, l3 needs base, and l9 breaks compatibility.  The directory loop depends on
\* itself.
MCContent ==
  [c \in {"b1", "b2", "l0", "l1", "l2", "l3", "l9", "app", "loop"} |->
     CASE c = "b1"  -> V(0, "lib" :> From("lib.git", "v1"))
       [] c = "l0"  -> V(0, "base" :> From("base.git", "v2"))
       [] c = "l2"  -> V(2, <<>>)
       [] c = "l3"  -> V(3, "base" :> From("base.git", "v1"))
       [] c = "l9"  -> [version |-> <<2, 0, 0>>, deps |-> <<>>]
       [] c = "app" -> V(0, "lib" :> From("lib.git", "main"))
       [] c = "loop" -> V(1, "base" :> From("loop", "path"))
       [] OTHER     -> V(1, <<>>)]
MCFixed ==
  ("base.git" :> ("v1" :> "b1" @@ "v2" :> "b2")) @@
  ("lib.git" :> ("v1" :> "l1" @@ "v3" :> "l3" @@ "v9" :> "l9"))
MCHistory == ("base.git" :> <<"b1">>) @@ ("lib.git" :> <<"l0", "l2">>)

Base(ref) == "base" :> From("base.git", ref)
App == "app" :> From("app", "path")
Library(ref) == "lib" :> From("lib.git", ref)
MCNameOrder == <<"app", "base", "lib">>
MCManifests == {<<>>, App, Base("v1") @@ App, Library("main") @@ App}
MCAdditions ==
  {<<"lib", From("lib.git", ref)>> : ref \in {"v1", "v3", "v9", "gone"}} \cup
  {<<"base", From("loop", "path")>>}
=============================================================================
