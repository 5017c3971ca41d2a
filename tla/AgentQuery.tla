----------------------------- MODULE AgentQuery -----------------------------
(* The queries of agents (internal/agentquery): one scope for every lane, and *)
(* a bounded walk over the relations of semantic memory.                      *)
(* What a lane finds in a base is abstracted to the base; the hits that start *)
(* a walk are given. Each call is one step: it reads each base once.          *)
EXTENDS Naturals, FiniteSets, Sequences, SequencesExt, Functions

CONSTANTS
    Base,
    Snapshots,   \* what the bases may have compiled, each Nothing, or units with
                 \* their status and relations in the order of their identifiers
    Scopes,      \* saved scopes: enabled, explicit, bases
    Asked,       \* bases a caller names
    Walks,       \* hits, direction, noConflicts, maxHops, maxNodes, fanOut
    Nothing

VARIABLES
    call,        \* what was asked; Nothing before
    answer

\* TemporalVersionVisible, for the policies "current" and "all".
Visible(c, policy) ==
    {u \in DOMAIN c.units : c.units[u] = "active" \/ (policy = "all" /\ c.units[u] = "superseded")}

-----------------------------------------------------------------------------
\* buildGraph: breadth first, with limits on hops, nodes and successors.

\* Relation i of c leads from u to v.
Leads(c, w, i, u, v) ==
    LET relation == c.relations[i]
    IN  /\ relation.live
        /\ w.noConflicts => ~relation.contradicts
        /\ \/ w.direction # "in" /\ relation.from = u /\ relation.to = v
           \/ w.direction # "out" /\ relation.to = u /\ relation.from = v

Steps(c, w, u) ==
    LET Other(i) == IF c.relations[i].from = u THEN c.relations[i].to ELSE c.relations[i].from
        indices == SelectSeq([i \in DOMAIN c.relations |-> i], LAMBDA i : Leads(c, w, i, u, Other(i)))
    IN  [k \in DOMAIN indices |-> [edge |-> indices[k], to |-> Other(indices[k])]]

Full(w, s) == Cardinality(DOMAIN s.hops) >= w.maxNodes

\* A candidate of u without the test that it is visible.
CandidateOfAnyVersion(w, visible, hop, u, s, step) == \* mutant
    IF s.stopped THEN s
    ELSE IF s.found >= w.fanOut THEN [s EXCEPT !.truncated = TRUE, !.stopped = TRUE]
    ELSE LET seen == [s EXCEPT !.edges = @ \cup {step.edge}]
         IN  IF step.to \in DOMAIN s.hops THEN seen
             ELSE IF Full(w, s) THEN [seen EXCEPT !.truncated = TRUE, !.stopped = TRUE]
             ELSE [seen EXCEPT !.hops = @ @@ (step.to :> hop),
                               !.parent = @ @@ (step.to :> [unit |-> u, edge |-> step.edge]),
                               !.next = Append(@, step.to), !.found = @ + 1]

\* One candidate of u: s.found counts what u has discovered.
Candidate(w, visible, hop, u, s, step) ==
    IF s.stopped THEN s
    ELSE IF s.found >= w.fanOut THEN [s EXCEPT !.truncated = TRUE, !.stopped = TRUE]
    ELSE IF step.to \notin visible THEN s
    ELSE LET seen == [s EXCEPT !.edges = @ \cup {step.edge}]
         IN  IF step.to \in DOMAIN s.hops THEN seen
             ELSE IF Full(w, s) THEN [seen EXCEPT !.truncated = TRUE, !.stopped = TRUE]
             ELSE [seen EXCEPT !.hops = @ @@ (step.to :> hop),
                               !.parent = @ @@ (step.to :> [unit |-> u, edge |-> step.edge]),
                               !.next = Append(@, step.to), !.found = @ + 1]

\* When the graph is full, the units of the frontier after u are not looked at.
Discover(c, w, visible, hop, s, u) ==
    IF s.full THEN s
    ELSE LET done == FoldLeft(LAMBDA t, step : Candidate(w, visible, hop, u, t, step),
                              [s EXCEPT !.found = 0, !.stopped = FALSE], Steps(c, w, u))
         IN  [done EXCEPT !.full = Full(w, done)]

Hop(c, w, visible, s, hop) ==
    FoldLeft(LAMBDA t, u : Discover(c, w, visible, hop, t, u),
             [s EXCEPT !.next = <<>>, !.full = FALSE], s.next)

buildGraph(c, w, hits, policy) ==
    LET visible == Visible(c, policy)
        candidates == SelectSeq(hits, LAMBDA u : u \in visible)
        seeds == SubSeq(candidates, 1, IF Len(candidates) < w.maxNodes THEN Len(candidates)
                                       ELSE w.maxNodes)
    IN  FoldLeft(LAMBDA s, hop : Hop(c, w, visible, s, hop),
                 [hops |-> [u \in ToSet(seeds) |-> 0], parent |-> <<>>, edges |-> {},
                  truncated |-> Len(seeds) < Len(candidates), next |-> seeds,
                  found |-> 0, stopped |-> FALSE, full |-> FALSE],
                 [hop \in 1 .. w.maxHops |-> hop])

\* The chain of relations from a seed to u.
RECURSIVE Path(_, _)
Path(g, u) == IF g.hops[u] = 0 THEN <<>>
              ELSE Append(Path(g, g.parent[u].unit), g.parent[u].edge)

-----------------------------------------------------------------------------

Refused(reason) == [error |-> reason]

\* Bases named by the caller must exist and be in the saved scope, if it has any.
resolveScope(saved, asked) ==
    CASE ~saved.enabled -> [bases |-> {}]
      [] saved.enabled /\ ~asked \subseteq Base -> Refused("base_not_found")
      [] saved.enabled /\ asked \subseteq Base /\ saved.bases # {} /\ ~asked \subseteq saved.bases ->
            Refused("permission_denied")
      [] OTHER -> [bases |-> IF asked # {} THEN asked
                             ELSE IF saved.explicit THEN saved.bases ELSE Base]

\* knowledge.Search resolves the scope it is given once more.
searchEvidence(saved, scope) ==
    IF ~saved.enabled \/ (saved.explicit /\ saved.bases = {}) THEN {} ELSE scope

Compiled(compiled, scope) == {b \in scope : compiled[b] # Nothing}

\* A call reads the saved scope and what each base has compiled.
Ask(op, Answer(_, _, _)) ==
    /\ call = Nothing
    /\ \E saved \in Scopes, asked \in Asked, compiled \in Snapshots :
        LET scope == resolveScope(saved, asked)
        IN  /\ call' = [op |-> op, saved |-> saved, asked |-> asked, compiled |-> compiled]
            /\ answer' = IF "error" \in DOMAIN scope THEN scope
                         ELSE Answer(saved, compiled, scope.bases)

\* degraded is what the last test leaves: an earlier remark that evidence does not
\* follow the version policy is overwritten.
SearchAnswer(mode, policy, saved, compiled, scope) ==
    LET semantic == IF mode = "evidence" THEN {} ELSE Compiled(compiled, scope)
    IN  IF mode = "semantic" /\ semantic = {} THEN Refused("semantic_not_ready")
        ELSE [evidence |-> IF mode = "semantic" THEN {} ELSE searchEvidence(saved, scope),
              semantic |-> semantic,
              diagnosed |-> IF mode = "evidence" THEN {} ELSE scope \ semantic,
              mode |-> IF mode # "auto" THEN mode ELSE IF semantic = {} THEN "evidence" ELSE "hybrid",
              degraded |-> IF mode = "evidence" THEN policy = "all"
                           ELSE mode = "hybrid" /\ semantic = {}]

Search ==
    \E mode \in {"evidence", "semantic", "hybrid", "auto"}, policy \in {"current", "all"} :
        Ask("search", LAMBDA saved, compiled, scope :
                          SearchAnswer(mode, policy, saved, compiled, scope))

Context ==
    Ask("context", LAMBDA saved, compiled, scope :
        [evidence |-> {}, semantic |-> Compiled(compiled, scope),
         diagnosed |-> scope \ Compiled(compiled, scope), mode |-> "semantic",
         degraded |-> ~scope \subseteq Compiled(compiled, scope)])

Graphs(w, policy, compiled, scope, bases) ==
    [walk |-> w, policy |-> policy,
     graphs |-> [b \in bases |-> buildGraph(compiled[b], w, w.hits, policy)],
     evidence |-> {}, semantic |-> bases, mode |-> "semantic",
     diagnosed |-> scope \ Compiled(compiled, scope),
     degraded |-> ~scope \subseteq Compiled(compiled, scope)]

Explore ==
    \E w \in Walks, policy \in {"current", "all"} :
        Ask("explore", LAMBDA saved, compiled, scope :
            IF Compiled(compiled, scope) = {} THEN Refused("semantic_not_ready")
            ELSE Graphs(w, policy, compiled, scope, Compiled(compiled, scope)))

\* Expand starts from one unit, which may be unknown or hidden by the policy.
Expand ==
    \E w \in Walks, policy \in {"current", "all"} :
        /\ Len(w.hits) = 1
        /\ Ask("expand", LAMBDA saved, compiled, scope :
            LET usable == Compiled(compiled, scope)
                showing == {b \in usable : w.hits[1] \in Visible(compiled[b], policy)}
            IN  IF usable = {} THEN Refused("semantic_not_ready")
                ELSE IF showing = {} THEN Refused("unit_not_found")
                ELSE Graphs(w, policy, compiled, scope, showing))

Init == call = Nothing /\ answer = Nothing

Next == Search \/ Context \/ Explore \/ Expand

-----------------------------------------------------------------------------

\* Units the walk could reach in at most n hops.
Reach(c, w, policy, n) ==
    LET visible == Visible(c, policy)
        reach[k \in 0 .. n] ==
            IF k = 0 THEN visible \cap ToSet(w.hits)
            ELSE reach[k - 1] \cup
                 {v \in visible : \E u \in reach[k - 1], i \in DOMAIN c.relations : Leads(c, w, i, u, v)}
    IN  reach[n]

\* explore.go: each node is reached from a hit by the relations of its path, in no
\* fewer hops than that takes; a graph that is not truncated and not full is all
\* there is within the hops, and only a truncated one has a relation into nowhere.
\* A full graph may miss nodes without being called truncated.
GraphIsSound(c, w, policy, g) ==
    LET nodes == DOMAIN g.hops
        Joins(i, u, v) == Leads(c, w, i, u, v) \/ Leads(c, w, i, v, u)
    IN  /\ Cardinality(nodes) <= w.maxNodes
        /\ \A u \in nodes : u \in Reach(c, w, policy, g.hops[u])
        /\ \A u \in nodes : LET path == Path(g, u) IN
            /\ Len(path) = g.hops[u]
            /\ ToSet(path) \subseteq g.edges
            /\ path # <<>> => \E v \in nodes : Leads(c, w, Last(path), v, u) /\ g.hops[v] = g.hops[u] - 1
        /\ \A i \in g.edges : \E u \in nodes, v \in Visible(c, policy) :
            Joins(i, u, v) /\ (v \in nodes \/ g.truncated)
        /\ ~g.truncated /\ ~Full(w, g) =>
            /\ nodes = Reach(c, w, policy, w.maxHops)
            /\ \A u \in nodes : g.hops[u] > 0 => u \notin Reach(c, w, policy, g.hops[u] - 1)
            /\ g.edges = {i \in DOMAIN c.relations :
                            \E u \in Reach(c, w, policy, w.maxHops - 1), v \in nodes : Leads(c, w, i, u, v)}

GraphsAreSound ==
    answer # Nothing /\ "graphs" \in DOMAIN answer =>
        \A b \in DOMAIN answer.graphs :
            GraphIsSound(call.compiled[b], answer.walk, answer.policy, answer.graphs[b])

\* service.go: an answer draws on bases in scope only, tells which of them had no
\* semantic generation, and a mode that promises two lanes has both or is degraded.
\* A caller who names bases while an empty scope is saved is served from them.
AnswersStayInScope ==
    answer # Nothing /\ "error" \notin DOMAIN answer =>
        LET used == answer.evidence \cup answer.semantic
            saved == call.saved
        IN  /\ used # {} => saved.enabled
            /\ saved.bases # {} => used \subseteq saved.bases
            /\ call.asked # {} => used \subseteq call.asked
            /\ answer.mode = "hybrid" => answer.semantic # {} \/ answer.degraded
            /\ answer.mode # "evidence" =>
                \A b \in answer.evidence : b \in answer.semantic \cup answer.diagnosed
=============================================================================
