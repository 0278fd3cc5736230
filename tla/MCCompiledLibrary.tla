-------------------------- MODULE MCCompiledLibrary --------------------------
(***************************************************************************)
(* Small instance of CompiledLibrary: two entries, two primitive tables,   *)
(* the second entry broken under the second table.                         *)
(***************************************************************************)
EXTENDS CompiledLibrary

CONSTANTS e1, e2, t1, t2

MCEntries == {e1, e2}
MCTables == {t1, t2}
MCLibraries == {{e1, e2}, {e2}}
MCBroken == {<<e2, t2>>}

=============================================================================
