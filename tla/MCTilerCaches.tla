---------------------------- MODULE MCTilerCaches ----------------------------
(***************************************************************************)
(* Small instance of TilerCaches.  One composite; one single, DATA and the *)
(* hostname, so that a commit can fall in the middle of a build.  The      *)
(* single and the hostname are broken under the second table, so that a    *)
(* build can come out empty.                                               *)
(***************************************************************************)
EXTENDS TilerCaches

CONSTANTS x1, s1, t1, t2

MCComposites == {x1}
MCSingles == {s1}
MCEntries == MCComposites \cup MCSingles \cup {Data, Hostname}
MCLibraries == {{}}
MCTables == {t1, t2}
MCBroken == {<<s1, t2>>, <<Hostname, t2>>}

=============================================================================
