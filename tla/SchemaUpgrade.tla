--------------------------- MODULE SchemaUpgrade ---------------------------
(***************************************************************************)
(* What migrate.Apply promises to the rest of the server: the database is  *)
(* brought up by the numbered migrations, each applied once and in order,  *)
(* and a server serves requests only on a schema that has every migration  *)
(* it was built with, whichever other servers start, fail or crash.        *)
(***************************************************************************)
EXTENDS Naturals, Sequences

CONSTANTS
  Procs,      \* the server processes
  Version     \* how many migrations each process was built with

VARIABLES
  schema,     \* the migrations applied, in order
  serving     \* the processes whose Apply has returned without an error

Init == schema = <<>> /\ serving = {}

Upgrade == schema' = Append(schema, Len(schema) + 1) /\ UNCHANGED serving

Serve(p) ==
  /\ Version[p] <= Len(schema)
  /\ serving' = serving \cup {p}
  /\ UNCHANGED schema

Next == Upgrade \/ \E p \in Procs : Serve(p)

Spec == Init /\ [][Next]_<<schema, serving>>
=============================================================================
