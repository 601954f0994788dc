----------------------------- MODULE RuleGraph -----------------------------
(***************************************************************************)
(* The table dependency graph of a policy engine: a BagGraph that counts   *)
(* how often each node and edge was inserted, with the index of the tables *)
(* whose rows are actions, and a cache of the cycles found last.           *)
(* A rule is [head, body, neg, act]: its head table, the tables of its      *)
(* body, those that are negated in it, and whether the head is              *)
(* execute[head].  Edges run from head to body, labelled with negation.     *)
(***************************************************************************)
EXTENDS Naturals, FiniteSets, FiniteSetsExt, SequencesExt

CONSTANT Tables

ASSUME GraphAssumption == IsFiniteSet(Tables)

Labelled == Tables \X Tables \X BOOLEAN

(* nodes, edges, modal: reference counts; out: the edges that are followed  *)
(* (Graph.edges); cycles: "unknown" (None), "none" (empty) or "some".       *)
Graph == [nodes  : [Tables -> Nat],
          edges  : [Labelled -> Nat],
          out    : SUBSET Labelled,
          modal  : [Tables -> Nat],
          cycles : {"unknown", "none", "some"}]

EmptyGraph == [nodes  |-> [t \in Tables |-> 0],
               edges  |-> [e \in Labelled |-> 0],
               out    |-> {},
               modal  |-> [t \in Tables |-> 0],
               cycles |-> "unknown"]

(* BagGraph.add_node, add_edge: an edge adds both its nodes once more.      *)
AddNode(g, t) == [g EXCEPT !.nodes[t] = @ + 1]

(* Mutant: a new edge leaves the cached answer in place.                    *)
AddEdgeKeepingCache(g, e) ==
    [AddNode(AddNode(g, e[1]), e[2]) EXCEPT !.edges[e] = @ + 1, !.out = @ \union {e}]

AddEdge(g, e) ==
    [AddNode(AddNode(g, e[1]), e[2]) EXCEPT
        !.edges[e] = @ + 1, !.out = @ \union {e}, !.cycles = "unknown"]

(* BagGraph.delete_node: the last reference takes the node's edges along.   *)
DeleteNode(g, t) ==
    IF g.nodes[t] = 0 THEN g
    ELSE IF g.nodes[t] = 1 THEN [g EXCEPT !.nodes[t] = 0, !.out = {e \in @ : e[1] # t}]
    ELSE [g EXCEPT !.nodes[t] = @ - 1]

(* BagGraph.delete_edge: the nodes go first; if that removed the edge too,  *)
(* Graph.delete_edge finds nothing and leaves the cached cycles alone.      *)
DeleteEdge(g, e) ==
    LET h == DeleteNode(DeleteNode(g, e[1]), e[2])
    IN  IF g.edges[e] = 0 THEN g
        ELSE IF g.edges[e] > 1 THEN [h EXCEPT !.edges[e] = @ - 1]
        ELSE [h EXCEPT !.edges[e] = 0, !.out = @ \ {e},
                       !.cycles = IF e \in h.out THEN "unknown" ELSE @]

(* formula_nodes_edges.                                                     *)
Nodes(r) == {r.head} \union r.body \union r.neg
Edges(r) == ({r.head} \X r.body \X {FALSE}) \union ({r.head} \X r.neg \X {TRUE})

(* formula_update goes through the nodes and the edges of a rule.           *)
AddNodes(g, S)    == FoldSet(LAMBDA t, a : AddNode(a, t), g, S)
AddEdges(g, S)    == FoldSet(LAMBDA e, a : AddEdge(a, e), g, S)
DeleteNodes(g, S) == FoldSet(LAMBDA t, a : DeleteNode(a, t), g, S)
DeleteEdges(g, S) == FoldSet(LAMBDA e, a : DeleteEdge(a, e), g, S)

(* One event of formula_update: nodes, edges, then the index of actions.    *)
InsertRule(g, r) ==
    LET h == AddEdges(AddNodes(g, Nodes(r)), Edges(r))
    IN  IF r.act THEN [h EXCEPT !.modal[r.head] = @ + 1] ELSE h

DeleteRule(g, r) ==
    LET h == DeleteEdges(DeleteNodes(g, Nodes(r)), Edges(r))
    IN  IF r.act /\ h.modal[r.head] > 0 THEN [h EXCEPT !.modal[r.head] = @ - 1] ELSE h

(* RuleDependencyGraph.formula_update; an event is [rule, insert].          *)
FormulaUpdate(g, events) ==
    FoldLeft(LAMBDA a, v : IF v.insert THEN InsertRule(a, v.rule) ELSE DeleteRule(a, v.rule),
             g, events)

(* Mutant: what was deleted is not put back.                                *)
UndoInserts(g, events) ==
    FoldLeft(LAMBDA a, v : IF v.insert THEN DeleteRule(a, v.rule) ELSE a, g, events)

(* undo_changes: every change reversed, in the order they were made in.     *)
UndoChanges(g, events) ==
    FoldLeft(LAMBDA a, v : IF v.insert THEN DeleteRule(a, v.rule) ELSE InsertRule(a, v.rule),
             g, events)

-----------------------------------------------------------------------------
(* What is reached from t along k edges at most, t included.                *)
Reached(out, t) ==
    LET step[k \in 0 .. Cardinality(Tables)] ==
          IF k = 0 THEN {t}
          ELSE LET known == step[k - 1]
               IN  known \union {e[2] : e \in {d \in out : d[1] \in known}}
    IN  step[Cardinality(Tables)]

Cyclic(out) == \E e \in out : e[1] \in Reached(out, e[2])

(* has_cycle: answers from the cache when there is one, else fills it.      *)
HasCycle(g) == g.cycles = "some" \/ (g.cycles = "unknown" /\ Cyclic(g.out))
Cached(g)   == [g EXCEPT !.cycles = IF HasCycle(g) THEN "some" ELSE "none"]

(* dependencies, as the trigger registry uses it: the table alone if the    *)
(* graph does not know it.                                                  *)
Dependencies(g, t) == IF g.nodes[t] = 0 THEN {t} ELSE Reached(g.out, t)
=============================================================================
