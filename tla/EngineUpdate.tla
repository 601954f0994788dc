---------------------------- MODULE EngineUpdate ----------------------------
(***************************************************************************)
(* How a policy engine takes a batch of events: the dependency graph is    *)
(* changed first and undone if the rules became recursive; then triggers   *)
(* for actions are kept up to date, the batch is applied, and the triggers *)
(* whose tables gained rows execute their actions; then the subscriptions  *)
(* to datasource tables follow the bodies of the rules.                    *)
(* A table of a datasource holds one row or none.                          *)
(***************************************************************************)
EXTENDS RuleGraph

CONSTANTS Sources,     \* the tables of datasources
          Rules,       \* rules that users write
          MaxBatch,    \* bound: rules in one request
          MaxRefs      \* bound: references to a node when a rule is repeated

ASSUME EngineAssumption ==
    /\ Sources \subseteq Tables
    /\ Rules \subseteq [head : Tables \ Sources, body : SUBSET Tables, neg : SUBSET Tables, act : BOOLEAN]
    /\ IsFiniteSet(Rules)
    /\ MaxBatch \in Nat

VARIABLES theory,      \* the rules in force
          data,        \* datasource tables with a row
          graph,       \* global_dependency_graph
          registered,  \* TriggerRegistry.triggers
          execution,   \* execution_triggers
          index,       \* TriggerRegistry.index
          subscribed,  \* datasource tables the node is subscribed to
          missed,      \* those an aborted update_table_subscriptions did not get to
          ran,         \* triggers that executed actions in the last step
          verdict      \* what the last update answered

vars == <<theory, data, graph, registered, execution, index, subscribed, missed, ran, verdict>>
triggerVars == <<registered, execution, index>>

(* A trigger watches execute[table] and executes the table its callback     *)
(* names.                                                                   *)
Trigger == [table : Tables, calls : Tables]

-----------------------------------------------------------------------------
(* The tables with a row under rules T and data D, then the actions.  The   *)
(* rules are not recursive: a table is settled once those it reads are.     *)
Satisfied(r, known) == r.body \subseteq known /\ r.neg \intersect known = {}

Derived(T, D) ==
    LET step[k \in 0 .. Cardinality(Tables)] ==
          IF k = 0 THEN D
          ELSE D \union {r.head : r \in {s \in T : ~s.act /\ Satisfied(s, step[k - 1])}}
    IN  step[Cardinality(Tables)]

Actions(T, D) ==
    LET known == Derived(T, D)
    IN  {r.head : r \in {s \in T : s.act /\ Satisfied(s, known)}}

BodyTables(T) == UNION {r.body \union r.neg : r \in T}

(* _add_indexes for every trigger of R.                                     *)
IndexOf(R, g) == [t \in Tables |-> {r \in R : t \in Dependencies(g, r.table)}]

TablesOf(R) == {r.table : r \in R}

(* _actual_events: events that change nothing go; a rule that is new is     *)
(* kept as often as the batch names it.                                     *)
ActualEvents(events) ==
    FoldLeft(LAMBDA actual, v : IF v.insert # (v.rule \in theory) THEN Append(actual, v) ELSE actual,
             <<>>, events)

-----------------------------------------------------------------------------
(* _maintain_triggers with the new graph g.  The callbacks of all triggers  *)
(* made in one call share its local variables, so each executes the table   *)
(* the loop came to last.                                                   *)
Current(g) == {t \in Tables : g.modal[t] > 0}

Additions(g) ==
    LET new == Current(g) \ TablesOf(execution)
    IN  IF new = {} THEN {{}} ELSE {[table : new, calls : {last}] : last \in new}

Stale(g) == {r \in execution : r.table \notin Current(g)}

(* unregister finds no index for a table that was not in the graph before:  *)
(* KeyError, and the entry in execution_triggers stays.                     *)
Fails(g, added, r) ==
    \/ r \notin registered
    \/ \E t \in Dependencies(g, r.table) :
          index[t] = {} /\ \A u \in TablesOf(added) : t \notin Dependencies(g, u)

Maintain(g, added) ==
    /\ registered' = (registered \union added) \ Stale(g)
    /\ execution'  = (execution \union added) \ {r \in Stale(g) : ~Fails(g, added, r)}

(* The index the relevant triggers are looked up in: the old one, with the  *)
(* triggers just made and without the ones just removed.                    *)
OldIndex(g, added) ==
    [t \in Tables |->
        {r \in index[t] : ~(r \in Stale(g) /\ t \in Dependencies(g, r.table))}
          \union {r \in added : t \in Dependencies(g, r.table)}]

(* relevant_triggers: those indexed under a table that changes.             *)
Relevant(idx, changed) == UNION {idx[t] : t \in changed}

(* The relevant triggers whose table gained a row execute their action.     *)
Run(relevant, T, D) ==
    ran' = {r \in relevant : r.table \in Actions(T, D) \ Actions(theory, data)}

(* Mutant: the registry is not told of the changed graph.                   *)
UpdateIndexOfNew(g) ==
    index' = [t \in Tables |-> index[t] \union
                 {r \in registered' \ registered : t \in Dependencies(g, r.table)}]

(* TriggerRegistry.update_dependencies.                                     *)
UpdateDependencies(g) == index' = IndexOf(registered', g)

-----------------------------------------------------------------------------
(* _update_obj_datalog once the events are known to matter: g is the graph  *)
(* with them, changed the tables they are about, T and D what they lead to. *)
Refuse(g, events) ==
    /\ HasCycle(g)
    /\ graph' = UndoChanges(Cached(g), events)
    /\ verdict' = "refused"
    /\ ran' = {}
    /\ UNCHANGED <<theory, data, triggerVars>>

Commit(g, changed, T, D) ==
    /\ ~HasCycle(g)
    /\ graph' = Cached(g)
    /\ theory' = T /\ data' = D
    /\ verdict' = "done"
    /\ \E added \in Additions(g) :
         /\ Maintain(g, added)
         /\ Run(Relevant(OldIndex(g, added), changed), T, D)
    /\ UpdateDependencies(g)

(* Mutant: tables of the policy itself are not left out.                    *)
AllBodyTables(T) == BodyTables(T)

(* The tables of services that rules read.                                  *)
SourcesOf(T) == BodyTables(T) \intersect Sources

(* Mutant: the bodies of the rules that go away stay out of account.        *)
ResubscribeOld(T) ==
    /\ subscribed' = (subscribed \union SourcesOf(T)) \ SourcesOf(theory)
    /\ UNCHANGED missed

(* update_table_subscriptions, from the tables in the bodies of theory to   *)
(* those of T.  A call of subscribe() may raise after its own subscription  *)
(* was noted: the tables after it are not reached, and none is unsubscribed.*)
Resubscribe(T) ==
    LET add == SourcesOf(T) \ SourcesOf(theory)
        rem == SourcesOf(theory) \ SourcesOf(T)
    IN  \/ /\ subscribed' = (subscribed \union add) \ rem
           /\ missed' = missed \ (add \union rem)
        \/ \E late \in SUBSET add :
             /\ late # add
             /\ subscribed' = subscribed \union (add \ late)
             /\ missed' = (missed \ add) \union late

(* The updates of rules: what is actual of a batch is refused as a whole or *)
(* applied.                                                                 *)
Update(events) ==
    LET actual == ActualEvents(events)
        g == FormulaUpdate(graph, actual)
        ins == {v.rule : v \in {w \in Range(actual) : w.insert}}
        del == {v.rule : v \in {w \in Range(actual) : ~w.insert}}
    IN  /\ actual # <<>>
        /\ \/ Refuse(g, actual)
           \/ Commit(g, {r.head : r \in ins \union del}, (theory \union ins) \ del, data)

(* process_policy_update of the node.                                       *)
Process(events) == Update(events) /\ Resubscribe(theory')

Events(s, insert) == [i \in DOMAIN s |-> [rule |-> s[i], insert |-> insert]]

-----------------------------------------------------------------------------
(* persistent_insert_rules: a request with rules, which may name one twice. *)
InsertRules(s) ==
    /\ IsInjective(s) \/ \A t \in Tables : graph.nodes[t] < MaxRefs
    /\ Process(Events(s, TRUE))

(* persistent_delete_rule.                                                  *)
DeleteOne(r) == r \in theory /\ Process(Events(<<r>>, FALSE))

(* delete_policy empties the policy in one update(), past the subscriptions.*)
DeletePolicy ==
    /\ Update(Events(SetToSeq(theory), FALSE))
    /\ UNCHANGED <<subscribed, missed>>

(* synchronize_rules_nonlocking: insertions, then deletions.                *)
Synchronize(ins, del) ==
    /\ Process(Events(SetToSeq(ins), TRUE) \o Events(SetToSeq(del), FALSE))

(* receive_data_update: the row of table b comes or goes.                   *)
ReceiveUpdate(b) ==
    LET D == IF b \in data THEN data \ {b} ELSE data \union {b}
    IN  /\ b \in subscribed
        /\ Refuse(graph, <<>>) \/ Commit(graph, {b}, theory, D)
        /\ UNCHANGED <<subscribed, missed>>

(* receive_data_full and initialize_tables.                                 *)
ReceiveFull(b, D) ==
    /\ b \in subscribed
    /\ D \ {b} = data \ {b}
    /\ data' = D
    /\ Run(Relevant(index, {b}), theory, D)
    /\ verdict' = "done"
    /\ UNCHANGED <<theory, graph, triggerVars, subscribed, missed>>

Init ==
    /\ theory = {} /\ data = {}
    /\ graph = EmptyGraph
    /\ registered = {} /\ execution = {}
    /\ index = [t \in Tables |-> {}]
    /\ subscribed = {} /\ missed = {}
    /\ ran = {} /\ verdict = "done"

Next ==
    \/ \E s \in BoundedSeq(Rules, MaxBatch) : InsertRules(s)
    \/ \E r \in Rules : DeleteOne(r)
    \/ DeletePolicy
    \/ \E ins \in SUBSET (Rules \ theory), del \in SUBSET theory :
          Cardinality(ins \union del) <= MaxBatch /\ Synchronize(ins, del)
    \/ \E b \in Sources : ReceiveUpdate(b)
    \/ \E b \in Sources, D \in SUBSET Sources : ReceiveFull(b, D)

Spec == Init /\ [][Next]_vars

-----------------------------------------------------------------------------
TypeOK ==
    /\ theory \subseteq Rules /\ data \subseteq Sources
    /\ graph \in Graph
    /\ registered \subseteq Trigger /\ execution \subseteq Trigger
    /\ index \in [Tables -> SUBSET Trigger]
    /\ subscribed \subseteq Sources /\ missed \subseteq Sources
    /\ ran \subseteq Trigger
    /\ verdict \in {"done", "refused"}

(* Whatever was inserted twice, refused and undone, the graph has every     *)
(* dependency of the rules in force (formula_update, undo_changes).         *)
GraphCoversRules ==
    \A r \in theory :
        /\ Edges(r) \subseteq graph.out
        /\ \A t \in Nodes(r) : graph.nodes[t] > 0
        /\ r.act => graph.modal[r.head] > 0

(* The cache of cycles and the reference counts never let a recursive set   *)
(* of rules into force (_update_obj_datalog).                               *)
NeverRecursive == ~Cyclic(UNION {Edges(r) : r \in theory})

(* A refused update leaves the counts, edges and actions of the graph as    *)
(* they were, though it is undone in the order it was made (undo_changes).  *)
RefusalLeavesNoTrace ==
    [][verdict' = "refused" =>
         UNCHANGED <<graph.nodes, graph.edges, graph.out, graph.modal>>]_vars

(* Triggers fire exactly for the action tables that gain rows, whether a    *)
(* rule or a datasource caused it (relevant_triggers, update_dependencies). *)
FiresExactly ==
    [][TablesOf(ran') = Actions(theory', data') \ Actions(theory, data)]_vars

(* A table that rules read has a subscription, unless a call of subscribe() *)
(* raised before its turn (update_table_subscriptions).                     *)
SourcesSubscribed == SourcesOf(theory) \subseteq subscribed \union missed

(* "ensure there is a trigger registered to execute actions": a trigger     *)
(* executes the action it watches (_maintain_triggers).                     *)
RunsItsAction == \A r \in ran : r.calls = r.table
=============================================================================
