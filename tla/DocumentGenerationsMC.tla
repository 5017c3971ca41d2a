----------------------- MODULE DocumentGenerationsMC -----------------------
(***************************************************************************)
(* Instances of DocumentGenerations for TLC: one document in one directory  *)
(* and two commands that meet on it.                                        *)
(***************************************************************************)
EXTENDS DocumentGenerations, TLC

CONSTANTS o1, o2, dir, doc, v1, v2

TheParent == (dir :> NoDoc) @@ (doc :> dir)
TheLineage == (dir :> {dir}) @@ (doc :> {doc, dir})
TheSources == (o1 :> v1) @@ (o2 :> v2)

Cmd(k, x) == [kind |-> k, doc |-> x]
Pair(a, b) == (o1 :> a) @@ (o2 :> b)
ImportOfNew == Pair(Cmd("import", doc), Cmd("reindex", doc))
Pairs == {ImportOfNew,
          Pair(Cmd("import", doc), Cmd("delete", dir)),
          Pair(Cmd("import", doc), Cmd("deleteBase", dir)),
          Pair(Cmd("reindex", doc), Cmd("batchDelete", doc)),
          Pair(Cmd("delete", doc), Cmd("delete", dir))}

\* Two reindexes of one document, by reindex_document and reindex_base.
TwoReindexes == {Pair(Cmd("reindex", doc), Cmd("reindex", doc))}

\* Submit allocates the document of an import; a client may also have named one.
TheExisting ==
    [c \in Pairs \cup TwoReindexes |-> IF c = ImportOfNew THEN {{}} ELSE {{}, {doc}}]
=============================================================================
