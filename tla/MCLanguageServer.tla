-------------------------- MODULE MCLanguageServer -------------------------
(* A project of an entry file and a module, and its texts, for TLC. *)
EXTENDS LanguageServer, TLC

CONSTANTS main, a

\* main.phx imports the module or does not; the module exports what main needs, lacks
\* it, does not parse, imports the entry file, or imports a file that is not there.
MCTextsOf ==
  (main :> {"uses", "alone"}) @@ (a :> {"exports", "broken", "cyclic", "strays"})
MCText == UNION Range(MCTextsOf)
MCImports ==
  [t \in MCText |-> CASE t = "uses" -> {"a"}
                      [] t = "cyclic" -> {"main"}
                      [] t = "strays" -> {"nowhere"}
                      [] OTHER -> {}]
MCFileOf == ("entry" :> main) @@ ("main" :> main) @@ ("a" :> a)
MCDiskText == (main :> "uses") @@ (a :> "exports")
=============================================================================
