--------------------------- MODULE SqliteWriterMC ---------------------------
(***************************************************************************)
(* The instance of SqliteWriter for TLC: a control request that can keep    *)
(* its queue busy for ever, and two normal ones that share a queue of one.  *)
(***************************************************************************)
EXTENDS SqliteWriter

Requests == {"c1", "n1", "n2"}
Priorities == [r \in Requests |-> CASE r = "c1" -> "control"
                                    [] r \in {"n1", "n2"} -> "normal"]

=============================================================================
