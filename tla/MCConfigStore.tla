---------------------------- MODULE MCConfigStore ----------------------------
(***************************************************************************)
(* Small instances of ConfigStore.  Entry e1 needs primitive "w" and e2    *)
(* needs nothing; p1 is "w".                                               *)
(***************************************************************************)
EXTENDS ConfigStore, TLC

CONSTANTS t1, t2, d1, e1, e2, p1

MCThreads == {t1, t2}
MCDirs == {d1}
MCEntries == {e1, e2}
OnePrimitive == {p1}

MCName == (e1 :> "one") @@ (e2 :> "two") @@ (p1 :> "w")
MCNeeds == (e1 :> {"w"}) @@ (e2 :> {}) @@ (p1 :> {})

MCEmbedded == [primitives |-> {p1}, patterns |-> {e1}]

\* One file that does not parse and one that was edited before; a missing file
\* is what a load that failed halfway leaves.
MCUserContents == [primitives |-> {Garbled}, patterns |-> {{e2}}]

\* Both files parse.
CleanContents == [primitives |-> {{p1}}, patterns |-> {{e2}}]

=============================================================================
