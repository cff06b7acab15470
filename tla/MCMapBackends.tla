--------------------------- MODULE MCMapBackends ---------------------------
(* Small instances of MapBackends for TLC. *)
EXTENDS MapBackends, TLC

CONSTANTS k1, k2, k3, k4, k5

\* Three keys share the last bucket of a 4-bucket table, so their walks wrap
\* around; of them, one parts in a table of 8.  The others have homes in the way.
MCHash == (k1 :> 3) @@ (k2 :> 3) @@ (k3 :> 7) @@ (k4 :> 0) @@ (k5 :> 1)

\* Another hash, in which other keys collide.
MCGcHash == (k1 :> 7) @@ (k2 :> 0) @@ (k3 :> 3) @@ (k4 :> 7) @@ (k5 :> 3)

\* The addresses of buffers are interchangeable; all properties are safety properties.
BufferSymmetry == Permutations(Buffer)
=============================================================================
