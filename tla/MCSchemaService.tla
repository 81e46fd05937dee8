-------------------------- MODULE MCSchemaService --------------------------
(* Lists of operations that clash with each other, fail half-way on some   *)
(* structures, and between them use every kind.                            *)
EXTENDS SchemaService, TLC

AllChanges ==
  {<<"drop_primary", "add_index", "drop_column">>,
   <<"set_primary", "add_foreign_key">>,
   <<"drop_index", "alter_column">>,
   <<"rename_column", "add_commented_column">>,
   <<"drop_foreign_key", "set_column_comment", "add_column">>}

SomeDrifts == {{"column", "primary"}, {"column", "primary", "index"}}

Symmetry == Permutations(Reqs)
=============================================================================
