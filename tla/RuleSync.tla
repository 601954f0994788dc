------------------------------ MODULE RuleSync ------------------------------
(***************************************************************************)
(* Policies and rules live twice: in the database, which all nodes share,  *)
(* and in the policy engine of each node.  A user's request goes to one    *)
(* node, which changes its engine and the database; a periodic worker on   *)
(* every node makes its engine follow the database.  On a node, requests   *)
(* and worker take the locks 'congress_synchronize_policies' and           *)
(* 'congress_synchronize_rules'; inserts also lock the database's tables.  *)
(*                                                                         *)
(* Every blocking database call is a step boundary: other green threads of *)
(* the node, and other nodes, run in between.  A rule is a name; two rules *)
(* are the same rule when the names are equal, whatever the ids of their   *)
(* rows.  The tables' lock is MySQL's: reads of other sessions wait too.   *)
(***************************************************************************)
EXTENDS Naturals, FiniteSets

CONSTANTS Nodes,            \* the nodes that run a policy engine
          Threads,          \* green threads of a node that serve requests
          Worker,           \* the thread of a node's periodic tasks
          Policies,         \* names of policies
          DefaultPolicies,  \* those that exist from the start and stay
          Rules,            \* rules a user may write
          Facts,            \* the rules among them that have no body
          Recursive,        \* sets of [policy, rule] that together are recursive
          Operations,       \* what users ask for
          Replicated,       \* the option replicated_policy_engine
          DbFails,          \* whether writes to the database may fail
          MaxRequests,      \* bound: requests of users
          MaxCrashes,       \* bound: crashes of nodes
          None              \* no policy, no rule, no thread

ASSUME ConstantsAssumption ==
  /\ Worker \notin Threads /\ None \notin Threads \cup {Worker}
  /\ None \notin Nodes \X Threads
  /\ DefaultPolicies \subseteq Policies /\ Facts \subseteq Rules
  /\ Replicated \in BOOLEAN /\ DbFails \in BOOLEAN
  /\ MaxRequests \in Nat /\ MaxCrashes \in Nat

VARIABLES dbPolicies,   \* table policies
          dbRules,      \* table policy_rules
          tableLock,    \* who locked the tables
          policies,     \* the policies of each engine
          rules,        \* the rules of each engine
          policyLock,   \* lock 'congress_synchronize_policies' of each node
          ruleLock,     \* lock 'congress_synchronize_rules' of each node
          job,          \* what each thread of each node is doing
          requests, crashes

db     == <<dbPolicies, dbRules>>
engine == <<policies, rules>>
locks  == <<policyLock, ruleLock, tableLock>>
vars   == <<db, engine, locks, job, requests, crashes>>

-----------------------------------------------------------------------------
Id        == 0 .. MaxRequests                   \* a request's number is its uuid
PolicyRow == [name : Policies, id : Id]
RuleRow   == [policy : Policies, rule : Rules, id : Id]

\* Where a thread stands: an insert waits for its three locks, synchronizes,
\* changes the engine and saves; a deletion of a rule changes the engine, then
\* the database; after a change of policies one policy is synchronized.
Place == {"idle", "wantPolicies", "wantRules", "wantTables", "locked", "insert",
          "save", "delete", "unpersist", "wantOne", "one", "policies", "rules"}

\* A request's subject, and what its thread has read from the database.
Job  == [at : Place,
         row : [policy : Policies \cup {None}, rule : Rules \cup {None}, id : Id],
         sawPolicies : SUBSET PolicyRow, sawRules : SUBSET RuleRow]
Idle == [at |-> "idle", row |-> [policy |-> None, rule |-> None, id |-> 0],
         sawPolicies |-> {}, sawRules |-> {}]

Subject(p, r, i) == [policy |-> p, rule |-> r, id |-> i]
Names(P)  == {p.name : p \in P}
Pair(row) == [policy |-> row.policy, rule |-> row.rule]
Pairs(S)  == {Pair(row) : row \in S}

\* The synchronizer compares rules by text and id, facts by text alone.
Matches(a, b) == Pair(a) = Pair(b) /\ (a.rule \in Facts \/ a.id = b.id)

\* The dependency graph of the rules of an engine has a cycle.
HasCycle(S) == \E c \in Recursive : c \subseteq Pairs(S)

\* The rules that remain when an engine's policies change from P to Q: a policy
\* that is deleted, or replaced by one of another id, loses its rules.
Remaining(S, P, Q) == {row \in S : row.policy \in Names(P \cap Q)}

\* sync_one_policy: policy p of an engine becomes what the database says of it.
WithOne(P, p, seen) == {q \in P : q.name # p} \cup {q \in seen : q.name = p}

-----------------------------------------------------------------------------
(***************************************************************************)
(* synchronize_rules.  What the database has and the engine has not is     *)
(* inserted, what the engine has and the database has not is deleted, in   *)
(* one batch of events, insertions first.                                  *)
(***************************************************************************)
\* Mutant: facts are left out.
MissingRules(S, seen) == {row \in seen : row.rule \notin Facts /\ \A e \in S : ~Matches(row, e)}

Missing(S, seen)   == {row \in seen : \A e \in S : ~Matches(row, e)}
\* Mutant: nothing is ever removed from an engine.
NoSurplus(S, seen) == {row \in {} : TRUE}

Surplus(S, seen)   == {e \in S : \A row \in seen : ~Matches(row, e)}
\* An insertion of a rule the engine has under another id is not an actual event.
Inserted(S, seen)  == {row \in Missing(S, seen) : Pair(row) \notin Pairs(S)}

\* Of several insertions of one rule the first one counts: f says which id.
Firsts(I) == {f \in [{row.rule : row \in I} -> {row.id : row \in I}] :
                \A r \in DOMAIN f : \E row \in I : row.rule = r /\ row.id = f[r]}

\* Mutant: formulas lose their ids on the way into the engine.
BatchWithoutIds(S, I, D, f) ==
  S \cup {Subject(row.policy, row.rule, None) : row \in I}

\* Every policy that is the target of an event is given the events of all.
Batch(S, I, D, f) ==
  LET targets == {row.policy : row \in I \cup D}
      deleted == {row.rule : row \in D}
      new     == {Subject(p, r, f[r]) : p \in targets, r \in DOMAIN f}
  IN {row \in S \cup {n \in new : Pair(n) \notin Pairs(S)} :
        ~(row.policy \in targets /\ row.rule \in deleted)}

\* The batch is refused as a whole when a policy does not exist, or when the
\* rules would be recursive: the graph takes each event in its own policy, though
\* Batch then applies it in all.
RulesAfterSync(S, P, seen) ==
  LET I == Inserted(S, seen)
      D == Surplus(S, seen)
      refused == \/ \E row \in Missing(S, seen) : row.policy \notin Names(P)
                 \/ HasCycle((S \ D) \cup I)
  IN IF refused THEN {S} ELSE {Batch(S, I, D, f) : f \in Firsts(I)}

-----------------------------------------------------------------------------
\* Mutant: nobody waits for the tables.
TablesUnlocked == TRUE

TablesFree == tableLock = None

Init ==
  /\ dbPolicies = [name : DefaultPolicies, id : {0}]
  /\ dbRules = {}
  /\ tableLock = None
  /\ policies = [n \in Nodes |-> dbPolicies]
  /\ rules = [n \in Nodes |-> {}]
  /\ policyLock = [n \in Nodes |-> None]
  /\ ruleLock = [n \in Nodes |-> None]
  /\ job = [n \in Nodes |-> [t \in Threads \cup {Worker} |-> Idle]]
  /\ requests = 0
  /\ crashes = 0

At(n, t)    == job[n][t].at
Row(n, t)   == job[n][t].row
Become(n, t, j) == job' = [job EXCEPT ![n][t] = j]
Goto(n, t, p)   == Become(n, t, [job[n][t] EXCEPT !.at = p])
Finish(n, t)    == Become(n, t, Idle)

\* A new request of kind op reaches an idle thread of node n.
Request(op, n, t) ==
  /\ op \in Operations
  /\ At(n, t) = "idle"
  /\ requests < MaxRequests
  /\ requests' = requests + 1
  /\ UNCHANGED crashes

Proceed(n, t, p) == At(n, t) = p /\ UNCHANGED <<requests, crashes>>

-----------------------------------------------------------------------------
(***************************************************************************)
(* persistent_insert_rules, for one rule.                                  *)
(***************************************************************************)
RequestInsert(n, t) ==
  /\ Request("insert", n, t)
  /\ \E p \in Policies, r \in Rules :
        Become(n, t, [Idle EXCEPT !.at = "wantPolicies",
                                  !.row = Subject(p, r, requests')])
  /\ UNCHANGED <<db, engine, locks>>

LockPolicies(n, t) ==
  /\ Proceed(n, t, "wantPolicies")
  /\ policyLock[n] = None
  /\ policyLock' = [policyLock EXCEPT ![n] = t]
  /\ Goto(n, t, "wantRules")
  /\ UNCHANGED <<db, engine, ruleLock, tableLock>>

\* Mutant: the lock of the rules is not taken.
LockNoRules(n, t) ==
  /\ Proceed(n, t, "wantRules")
  /\ Goto(n, t, "wantTables")
  /\ UNCHANGED <<db, engine, locks>>

LockRules(n, t) ==
  /\ Proceed(n, t, "wantRules")
  /\ ruleLock[n] = None
  /\ ruleLock' = [ruleLock EXCEPT ![n] = t]
  /\ Goto(n, t, "wantTables")
  /\ UNCHANGED <<db, engine, policyLock, tableLock>>

\* Mutant: replicated engines do not synchronize first.
LockTablesOnly(n, t) ==
  /\ Proceed(n, t, "wantTables")
  /\ TablesFree
  /\ tableLock' = <<n, t>>
  /\ Goto(n, t, "insert")
  /\ UNCHANGED <<db, engine, policyLock, ruleLock>>

LockTables(n, t) ==
  /\ Proceed(n, t, "wantTables")
  /\ TablesFree
  /\ tableLock' = <<n, t>>
  /\ Goto(n, t, IF Replicated THEN "locked" ELSE "insert")
  /\ UNCHANGED <<db, engine, policyLock, ruleLock>>

\* Only with replicated engines: synchronize_rules_nonlocking.
SyncLocked(n, t) ==
  /\ Proceed(n, t, "locked")
  /\ \E S \in RulesAfterSync(rules[n], policies[n], dbRules) :
        rules' = [rules EXCEPT ![n] = S]
  /\ Goto(n, t, "insert")
  /\ UNCHANGED <<db, policies, locks>>

\* Mutant: one of the locks is kept.
ReleaseTwo(n) ==
  /\ policyLock' = [policyLock EXCEPT ![n] = None]
  /\ tableLock' = None
  /\ UNCHANGED ruleLock

\* The end of an insert, with commit or rollback: its locks are released.
Release(n) ==
  /\ policyLock' = [policyLock EXCEPT ![n] = None]
  /\ ruleLock' = [ruleLock EXCEPT ![n] = None]
  /\ tableLock' = None

\* Mutants: a rule that is there is taken again; recursion is not looked for.
AcceptedAgain(row, S)     == row.policy \in Names(dbPolicies) /\ ~HasCycle(S \cup {row})
AcceptedRecursive(row, S) == row.policy \in Names(dbPolicies) /\ Pair(row) \notin Pairs(S)

\* A rule is refused when its policy is not in the database, when the engine has
\* it already, or when it would make the rules recursive.
Accepted(row, S) ==
  /\ row.policy \in Names(dbPolicies)
  /\ Pair(row) \notin Pairs(S)
  /\ ~HasCycle(S \cup {row})

\* The policy is synchronized; then the rule is refused, or becomes part of the
\* engine.
Insert(n, t) ==
  LET row == Row(n, t)
      P   == WithOne(policies[n], row.policy, dbPolicies)
      S   == Remaining(rules[n], policies[n], P)
  IN /\ Proceed(n, t, "insert")
     /\ policies' = [policies EXCEPT ![n] = P]
     /\ \/ /\ Accepted(row, S)
           /\ rules' = [rules EXCEPT ![n] = S \cup {row}]
           /\ Goto(n, t, "save")
           /\ UNCHANGED locks
        \/ /\ ~Accepted(row, S)
           /\ rules' = [rules EXCEPT ![n] = S]
           /\ Finish(n, t)
           /\ Release(n)
     /\ UNCHANGED db

Save(n, t) ==
  /\ Proceed(n, t, "save")
  /\ dbRules' = dbRules \cup {Row(n, t)}
  /\ Finish(n, t)
  /\ Release(n)
  /\ UNCHANGED <<dbPolicies, engine>>

\* The database refuses the row, or the engine's subscriptions to the tables of
\* the rule fail: the transaction is rolled back.  uninsert_rules raises before
\* it has changed anything (it indexes a Rule like a dictionary).
SaveFails(n, t) ==
  /\ DbFails
  /\ Proceed(n, t, "save")
  /\ Finish(n, t)
  /\ Release(n)
  /\ UNCHANGED <<db, engine>>

-----------------------------------------------------------------------------
(***************************************************************************)
(* persistent_delete_rule takes no lock: it reads the row, deletes the     *)
(* rule from the engine and then from the database.                        *)
(***************************************************************************)
RequestDelete(n, t) ==
  /\ Request("delete", n, t)
  /\ TablesFree
  /\ \E row \in dbRules :
        /\ row.policy \in Names(policies[n])
        /\ Become(n, t, [Idle EXCEPT !.at = "delete", !.row = row])
  /\ UNCHANGED <<db, engine, locks>>

DeleteFromEngine(n, t) ==
  LET row == Row(n, t) IN
  /\ Proceed(n, t, "delete")
  /\ \/ /\ row.policy \in Names(policies[n])
        /\ rules' = [rules EXCEPT ![n] = {e \in @ : Pair(e) # Pair(row)}]
        /\ Goto(n, t, "unpersist")
     \/ /\ row.policy \notin Names(policies[n])
        /\ Finish(n, t)
        /\ UNCHANGED rules
  /\ UNCHANGED <<db, policies, locks>>

DeleteFromDb(n, t) ==
  /\ Proceed(n, t, "unpersist")
  /\ TablesFree
  /\ \/ dbRules' = {row \in dbRules : row.id # Row(n, t).id}
     \/ DbFails /\ UNCHANGED dbRules
  /\ Finish(n, t)
  /\ UNCHANGED <<dbPolicies, engine, locks>>

-----------------------------------------------------------------------------
(***************************************************************************)
(* persistent_create_policy and persistent_delete_policy change the        *)
(* database; then sync_one_policy makes the engine follow.                 *)
(***************************************************************************)
CreatePolicy(n, t) ==
  /\ Request("createPolicy", n, t)
  /\ TablesFree
  /\ \E p \in Policies \ Names(dbPolicies) :
        /\ dbPolicies' = dbPolicies \cup {[name |-> p, id |-> requests']}
        /\ Become(n, t, [Idle EXCEPT !.at = "wantOne", !.row = Subject(p, None, 0)])
  /\ UNCHANGED <<dbRules, engine, locks>>

DeletePolicy(n, t) ==
  /\ Request("deletePolicy", n, t)
  /\ TablesFree
  /\ \E p \in Names(dbPolicies) \ DefaultPolicies :
        /\ dbPolicies' = {q \in dbPolicies : q.name # p}
        /\ dbRules' = {row \in dbRules : row.policy # p}
        /\ Become(n, t, [Idle EXCEPT !.at = "wantOne", !.row = Subject(p, None, 0)])
  /\ UNCHANGED <<engine, locks>>

SyncOneRead(n, t) ==
  /\ Proceed(n, t, "wantOne")
  /\ policyLock[n] = None
  /\ TablesFree
  /\ policyLock' = [policyLock EXCEPT ![n] = t]
  /\ Become(n, t, [job[n][t] EXCEPT !.at = "one", !.sawPolicies = dbPolicies])
  /\ UNCHANGED <<db, engine, ruleLock, tableLock>>

\* The engine of n gets policies P, and loses the rules of those it had not.
SetPolicies(n, P) ==
  /\ policies' = [policies EXCEPT ![n] = P]
  /\ rules' = [rules EXCEPT ![n] = Remaining(@, policies[n], P)]

SyncOneApply(n, t) ==
  /\ Proceed(n, t, "one")
  /\ SetPolicies(n, WithOne(policies[n], Row(n, t).policy, job[n][t].sawPolicies))
  /\ policyLock' = [policyLock EXCEPT ![n] = None]
  /\ Finish(n, t)
  /\ UNCHANGED <<db, ruleLock, tableLock>>

-----------------------------------------------------------------------------
(***************************************************************************)
(* The periodic tasks, which run one at a time: each reads the database    *)
(* and then compares what it has read with the engine.                     *)
(***************************************************************************)
SyncPoliciesRead(n) ==
  /\ Proceed(n, Worker, "idle")
  /\ policyLock[n] = None
  /\ TablesFree
  /\ policyLock' = [policyLock EXCEPT ![n] = Worker]
  /\ Become(n, Worker, [Idle EXCEPT !.at = "policies", !.sawPolicies = dbPolicies])
  /\ UNCHANGED <<db, engine, ruleLock, tableLock>>

SyncPoliciesApply(n) ==
  /\ Proceed(n, Worker, "policies")
  /\ SetPolicies(n, job[n][Worker].sawPolicies)
  /\ policyLock' = [policyLock EXCEPT ![n] = None]
  /\ Finish(n, Worker)
  /\ UNCHANGED <<db, ruleLock, tableLock>>

\* Mutant: the lock of the rules is not taken.
SyncRulesReadUnlocked(n) ==
  /\ Proceed(n, Worker, "idle")
  /\ TablesFree
  /\ Become(n, Worker, [Idle EXCEPT !.at = "rules", !.sawRules = dbRules])
  /\ UNCHANGED <<db, engine, locks>>

SyncRulesRead(n) ==
  /\ Proceed(n, Worker, "idle")
  /\ ruleLock[n] = None
  /\ TablesFree
  /\ ruleLock' = [ruleLock EXCEPT ![n] = Worker]
  /\ Become(n, Worker, [Idle EXCEPT !.at = "rules", !.sawRules = dbRules])
  /\ UNCHANGED <<db, engine, policyLock, tableLock>>

SyncRulesApply(n) ==
  /\ Proceed(n, Worker, "rules")
  /\ \E S \in RulesAfterSync(rules[n], policies[n], job[n][Worker].sawRules) :
        rules' = [rules EXCEPT ![n] = S]
  /\ ruleLock' = [ruleLock EXCEPT ![n] = None]
  /\ Finish(n, Worker)
  /\ UNCHANGED <<db, policies, policyLock, tableLock>>

\* Node n crashes and starts again: its transaction is rolled back, and the new
\* engine loads the policies and then the rules, of which each loads once.  (A
\* node whose rules do not load does not come up.)
Restart(n) ==
  /\ crashes < MaxCrashes
  /\ tableLock = None \/ \E t \in Threads : tableLock = <<n, t>>
  /\ ~HasCycle(dbRules)
  /\ crashes' = crashes + 1
  /\ tableLock' = None
  /\ policyLock' = [policyLock EXCEPT ![n] = None]
  /\ ruleLock' = [ruleLock EXCEPT ![n] = None]
  /\ job' = [job EXCEPT ![n] = [t \in Threads \cup {Worker} |-> Idle]]
  /\ policies' = [policies EXCEPT ![n] = dbPolicies]
  /\ \E S \in SUBSET dbRules :
        /\ Pairs(S) = Pairs(dbRules)
        /\ \A a, b \in S : Pair(a) = Pair(b) => a = b
        /\ rules' = [rules EXCEPT ![n] = S]
  /\ UNCHANGED <<db, requests>>

-----------------------------------------------------------------------------
Work(n, t) ==
  \/ LockPolicies(n, t) \/ LockRules(n, t) \/ LockTables(n, t)
  \/ SyncLocked(n, t) \/ Insert(n, t) \/ Save(n, t) \/ SaveFails(n, t)
  \/ DeleteFromEngine(n, t) \/ DeleteFromDb(n, t)
  \/ SyncOneRead(n, t) \/ SyncOneApply(n, t)

UserRequest(n, t) ==
  RequestInsert(n, t) \/ RequestDelete(n, t) \/ CreatePolicy(n, t) \/ DeletePolicy(n, t)

Periodic(n) ==
  SyncPoliciesRead(n) \/ SyncPoliciesApply(n) \/ SyncRulesRead(n) \/ SyncRulesApply(n)

Next == \E n \in Nodes :
          \/ \E t \in Threads : UserRequest(n, t) \/ Work(n, t)
          \/ Periodic(n)
          \/ Restart(n)

\* Locks are handed over in the order of their waiters, the database answers,
\* and the periodic tasks run every datasource_sync_period seconds.
Fairness == \A n \in Nodes :
  /\ \A t \in Threads : SF_vars(Work(n, t))
  /\ SF_vars(SyncPoliciesRead(n)) /\ WF_vars(SyncPoliciesApply(n))
  /\ SF_vars(SyncRulesRead(n)) /\ WF_vars(SyncRulesApply(n))

Spec     == Init /\ [][Next]_vars
FairSpec == Spec /\ Fairness

-----------------------------------------------------------------------------
(***************************************************************************)
(* Properties.                                                             *)
(***************************************************************************)
\* Database, engines, locks and threads keep their shape.
TypeOK ==
  /\ dbPolicies \subseteq PolicyRow
  /\ dbRules \subseteq RuleRow
  /\ tableLock \in (Nodes \X Threads) \cup {None}
  /\ policies \in [Nodes -> SUBSET PolicyRow]
  /\ rules \in [Nodes -> SUBSET RuleRow]
  /\ policyLock \in [Nodes -> Threads \cup {Worker, None}]
  /\ ruleLock \in [Nodes -> Threads \cup {Worker, None}]
  /\ job \in [Nodes -> [Threads \cup {Worker} -> Job]]
  /\ requests \in 0 .. MaxRequests /\ crashes \in 0 .. MaxCrashes

\* A saved rule belongs to a saved policy, although inserts and deletions of
\* policies run on different nodes and persistent_delete_policy takes no lock:
\* the tables' lock of persistent_insert_rules is enough.  A node that restarts
\* with a rule whose policy is gone does not come up.
NoOrphans == \A row \in dbRules : row.policy \in Names(dbPolicies)

\* While an insert is between the engine and the database, nothing takes its rule
\* out of the engine but a user who deletes that very rule: "acquire lock to avoid
\* periodic sync from undoing insert before persisted".
Saving(n, t) == At(n, t) = "save" /\ Row(n, t) \in rules[n]
SyncKeepsInserts ==
  [][\A n \in Nodes : \A t \in Threads :
        Saving(n, t) /\ At(n, t)' = "save" /\ Row(n, t) \notin rules'[n]
          => \E u \in Threads : /\ At(n, u) = "delete" /\ At(n, u)' = "unpersist"
                                /\ Pair(Row(n, u)) = Pair(Row(n, t))]_vars

\* One engine, and users who delete policies but no single rules: what is saved is
\* in force, whatever the synchronizations, failures and restarts.
Enforced == \A n \in Nodes : Pairs(dbRules) \subseteq Pairs(rules[n])

\* No two saved rows hold the same rule: persistent_insert_rules refuses a rule
\* that was already there.
NoDuplicates == \A a, b \in dbRules : Pair(a) = Pair(b) => a = b

\* The saved rules are not recursive: the tables are locked "to prevent conflicting
\* rules insertion (say causing unsupported recursion)".
NoCycleSaved == ~HasCycle(dbRules)

\* When an insert on a replicated engine has synchronized under the tables' lock,
\* its engine has the rules of the database, no more and no less: "synchronize
\* policy rules to get latest state, locked state".
LatestState ==
  [][\A n \in Nodes : \A t \in Threads :
        At(n, t) = "locked" /\ At(n, t)' = "insert"
          => Pairs(rules'[n]) = Pairs(dbRules)]_vars

\* When users stop asking, every engine ends up with the policies and the rules of
\* the database, whatever failed or was read too early before.
Agree     == \A n \in Nodes : policies[n] = dbPolicies /\ Pairs(rules[n]) = Pairs(dbRules)
Converges == <>[]Agree

\* Every request comes to an end: no thread waits for ever for one of the three
\* locks of an insert or the one of a synchronization.
RequestsEnd == \A n \in Nodes : \A t \in Threads : At(n, t) # "idle" ~> At(n, t) = "idle"
=============================================================================
