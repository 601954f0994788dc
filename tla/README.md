# Congress: a TLA+ model

Congress is a policy service for clouds. Datasource drivers poll (or are pushed)
the state of cloud services and publish it as tables; a policy engine subscribes
to the tables its rules mention, evaluates Datalog policies over them, and
executes actions. Everything runs on eventlet green threads that switch only in
blocking calls (RPC, database, sleep), on several nodes joined by an
oslo.messaging bus and a shared database.

## 1. Inventory

| Component | Source (`src/congress/`) | State | Operations | Talks to | What is hard | What makes it correct |
|---|---|---|---|---|---|---|
| Sequenced pub/sub | `dse2/data_service.py` | numbers sent and received, rows published last, queues of early messages and their oldest receipt time | publish, subscribe, unsubscribe, receive_data_sequenced, check_resub_all, get_last_published_data_with_seqnum | peers over the bus | loss, reordering, late answers, restarts, threads inside receive_data | a copy under a number is the publisher's version; nothing ready is left waiting; copies catch up |
| DSE node | `dse2/dse_node.py` | services, subscriptions, tables with subscribers | register/unregister, subscribe_table, RPC invocation, forwarding of publications | control bus, services | services that leave while a message is forwarded | only subscribed services get a message |
| Control bus | `dse2/control_bus.py` | peers and their last heartbeat | heartbeat loop, accept_heartbeat, list_services | all nodes | peers are never forgotten; clocks | subscribers seen by heartbeats are told to the publisher |
| Execution leader | `datasources/datasource_driver.py` (ExecutionDriver) | the leader's node id | request_execute, _check_leader_heartbeat | policy engines of all nodes | heartbeat loss against late requests | at most one leader is obeyed at a time; a leader is found again |
| Datasource manager and synchronizer | `dse2/datasource_manager.py`, `synchronizer/datasource_synchronizer.py` | rows in the database, running services | add/delete_datasource, sync_datasource, synchronize_all_datasources | database, node | hand-made roll-back, periodic task against requests | services = database rows, in the end |
| Policy and rule synchronizer | `synchronizer/policy_rule_synchronizer.py` | two locks | sync_one_policy, synchronize_all_policies, synchronize_rules | database, engine | requests between the database read and the engine update | the engine = the database, in the end |
| Policy engine: persistence | `policy_engines/agnostic.py` | theories; rows in the database | persistent_insert_rules, persistent_delete_rule, create/delete policy | database, synchronizer | failure between engine and database; a delete that takes no lock | what was acknowledged is there, what failed is not |
| Policy engine: runtime | `policy_engines/agnostic.py` | theories, dependency graph, triggers, subscriptions | update, initialize_tables, receive_data, execute | pub/sub, drivers | callbacks that block in the middle of an update | every change of a table that is watched is seen once |
| Dependency graph | `datalog/utility.py`, `datalog/compile.py` | bags of nodes and edges, cached cycles, modal index | formula_update, undo_changes, has_cycle | runtime | undo after refusal, stale cache | refused updates leave no trace; has_cycle iff there is one |
| Evaluation | `datalog/topdown.py`, `materialized.py`, `database.py` ... | rules and facts | select, incremental update | runtime | incremental against full evaluation | both agree |
| Drivers | `datasources/` | state tables, poll thread, refresh queue | poll, poll_loop, request_refresh, update_entire_data | cloud services, pub/sub | refresh against periodic poll, lazy tables | a requested refresh happens |
| JSON ingester | `datasources/json_ingester/` | tables in a database schema | poll, webhook update | database, pub/sub | poll against webhook | published = stored |
| Everything else | `api/`, `db/`, `library_service/`, `cfg_validator/`, `z3/`, `server/`, `common/`, `harness.py` | | stateless translation, start-up, one transaction per call | | | |

The hazards, with the lines where they bite, are listed in `PROJECT.json`.

## 2. Plan

1. `DsePubSub` / `TableFeed`: sequenced publish/subscribe and what it promises
   (done; type correctness, the safety invariants and the refinement are proved).
2. `RuleSync`: policies and rules in the database and in the engines of several
   nodes (done; type correctness, what the locks protect, what one engine and what
   replicated engines guarantee are proved).
3. `RuleGraph`, `EngineUpdate`: the dependency graph with undo, and the update of
   an engine with its triggers and table subscriptions (done; type correctness and
   every property of `EngineUpdates` are proved).
4. `ActionLeader`: heartbeats, peers and the leader a driver obeys (done; type
   correctness and `OneIsObeyed` are proved).
5. `DatasourceSync`: datasource manager, its synchronizer and the policies of
   datasources (done; type correctness, `ServicesKept` and `PoliciesKept` are proved).
6. `PollingDriver`: poll loop, refresh requests and lazy tables (done; type
   correctness and `RestIsPublished` are proved).
7. Not begun: `MaterializedView` (incremental against full evaluation),
   `JsonIngester`, pushed datasources with their persisted tables, the publication
   of policy tables (`on_first_subs`).

The project keeps few runs, one for each question. A question that a theorem
answers for every instance needs no run of its own.

## 3. What is modelled

### DsePubSub: sequenced publish/subscribe

One table of one publisher; `Subscribers` are the subscribing data services.

| State | Code |
|---|---|
| `state`, `sseq`, `stored`, `lastPub` | the driver's `state[table]`, `sender_seqnums[table]`, whether and what `_last_published_data[table]` holds |
| `sub[s]` | membership of `s` in `node.subscriptions[publisher][table]` |
| `net[s]` | broadcasts of `handle_publish_sequenced` on their way to `s` |
| `waiting[s]`, `replies[s]` | threads inside the RPC of `subscribe_table` and the answers on their way |
| `rcv[s].recv, hasq, queue, armed` | `receiver_seqnums`, presence and contents of `msg_queues`, `oldest_queue_times is not None` |
| `rcv[s].drains` | threads that are inside `receive_data` and will call `process_queued_msg` |
| `rcv[s].data` | the rows the service holds (for the policy engine: its theory) |
| `inc`, `published`, `rcv[s].base`, `rcv[s].exact` | history: the publisher's run, its versions, where the rows come from |

| Action | Code |
|---|---|
| `UpdateState` | a poll or push changes the driver's state |
| `PublishNothing`, `PublishDiff`, `PublishSnapshot` | `publish` with an empty differential, a differential, `use_snapshot=True` |
| `ServeFirst`, `ServeLast` | `get_last_published_data_with_seqnum` |
| `Restart` | the publishing service is created anew |
| `Lose`, `Deliver` | the bus; `handle_publish_sequenced` and `receive_data_sequenced` |
| `Subscribe`, `SubscribeReturn`, `SubscribeFail` | `subscribe`, up to and after its blocking RPC, and its failure |
| `Unsubscribe`, `Resub` | `unsubscribe`, `check_resub_all` |
| `Drain` | a thread returns from `receive_data` and calls `process_queued_msg` |

An action is what one green thread does between two blocking calls. The
operator `Process` is the body of `receive_data_sequenced` for one message that
is not old; `ProcessQueued` pops from the queue, drops what is old (the code
recurses without blocking) and processes the first message that is not.

The differences to the code: a publication with no number (`seqnum is None`) is
left out, since only the unsequenced publish sends one; handlers of
`receive_data` do not raise; `get_snapshot` does not block; a broadcast is never
duplicated (the bus acknowledges before it delivers).

### TableFeed: what it promises

A log of versions and one view per subscriber. Views advance by one version,
start at any version, may be re-initialised by a first version, forgotten, or
become `Suspect` when a differential was applied to rows it was not made for.
`ImplementsFeed` is the refinement: `log` is `published`, a view is what
`View(rcv[s])` says.

### RuleSync: policies and rules in the database and in the engines

| State | Code |
|---|---|
| `dbPolicies`, `dbRules` | the rows of tables `policies` and `policy_rules` that are not deleted; a request's number stands for the uuid of the row it makes |
| `policies[n]`, `rules[n]` | node n's `engine.theory`: the policies with their ids, the rules with the ids they were inserted under |
| `policyLock[n]`, `ruleLock[n]` | the locks `congress_synchronize_policies` and `congress_synchronize_rules` of node n |
| `tableLock` | `LOCK TABLES policy_rules, policies, datasources WRITE` |
| `job[n][t]` | where thread t of node n stands, its subject, what it has read; `Worker` is the thread of the periodic tasks |

| Action | Code |
|---|---|
| `RequestInsert`, `LockPolicies`, `LockRules`, `LockTables`, `SyncLocked`, `Insert`, `Save`, `SaveFails` | `persistent_insert_rules`: its decorators, `lock_tables`, `synchronize_rules_nonlocking` (replicated engines only), the synchronization of the policy with `_safe_process_policy_update`, and commit or roll-back |
| `RequestDelete`, `DeleteFromEngine`, `DeleteFromDb` | `persistent_delete_rule` |
| `CreatePolicy`, `DeletePolicy`, `SyncOneRead`, `SyncOneApply` | `persistent_create_policy`, `persistent_delete_policy` and the `sync_one_policy` they end with |
| `SyncPoliciesRead/Apply`, `SyncRulesRead/Apply` | `synchronize_all_policies`, `synchronize_rules`: the query, then the comparison and update |
| `Restart` | a crash, and `initialize_policy_engine` |

Rules and policies are names. Two rules are the same rule when the names are
equal; the synchronizer tells them apart by id too (`Matches`), unless they are
facts, and that difference matters. `RulesAfterSync` is one batch of events
through `_update_obj` and `_update_obj_datalog`: refused as a whole when a policy
is missing or the rules would be recursive, and otherwise applied *to every policy
that is the target of an event* (`Batch`). The dependency graph takes each event in its
own policy (`formula_update`), so that is what the refusal looks at; the model has no
graph apart from the rules, and counts a rule that an earlier batch brought to another
policy as if the graph had it. Which sets of rules are recursive is
the constant `Recursive`: the verdict of the dependency graph, whose own faults
(a stale cache of cycles after the refusal of a rule that is recursive by itself)
are in `RuleGraph`.

Left out: requests with several rules and triggers (both in `EngineUpdate`),
`create_policy=True`, datasources (`DatasourceSync`), rules disabled because a
schema is missing. `SaveFails` stands for a refused row and for an exception of
`update_table_subscriptions`, which comes after the engine has changed. The lock
of the tables is MySQL's, where readers wait too; with PostgreSQL they would read
the state before the insert. `Restart` is one step: the engine of a node that
comes up serves nobody before it has loaded. A node whose saved rules are
recursive does not load them all, and is not restarted by the model.

### RuleGraph and EngineUpdate: the dependency graph and the updates of an engine

`RuleGraph` is a data structure and its operators: `nodes`, `edges` and `modal` are
the reference counts of `BagGraph` and `ModalIndex`, `out` the edges a search follows,
`cycles` the cached answer of `has_cycle`. `EngineUpdate` is the engine around it.
The nodes and the edges of a rule are taken one after the other by folds over sets,
in the order `CHOOSE` picks, as Python's sets have an order of their own; the proofs
hold for whatever that order is.

| State | Code |
|---|---|
| `theory`, `data` | rules in force in the policies of users; datasource tables with a row |
| `graph` | `global_dependency_graph` |
| `registered`, `index` | `trigger_registry.triggers` and `.index` |
| `execution` | `execution_triggers` |
| `subscribed`, `missed` | subscriptions of the node; tables that an exception kept it from subscribing |
| `ran`, `verdict` | what the last update executed and answered |

| Action | Code |
|---|---|
| `InsertRules`, `DeleteOne`, `Synchronize` | `persistent_insert_rules`, `persistent_delete_rule`, `synchronize_rules`, each through `process_policy_update` |
| `DeletePolicy` | `delete_policy`, which calls `update` and leaves the subscriptions alone |
| `ReceiveUpdate`, `ReceiveFull` | `receive_data_update`, `receive_data_full` |

`Update` is `_update_obj_datalog`: `_actual_events`, the change of the graph, `Refuse`
(the cycle test and `undo_changes`) or `Commit` (`_maintain_triggers`,
`relevant_triggers`, `update_dependencies`, the update, the triggers). What rules
derive is `Derived` and `Actions`: rules are ground and may
negate a literal, a table has one row or none; as the rules in force are not recursive,
`Derived` settles a table once those it reads are settled. Z3 is not installed (`Z3_AVAILABLE` is false), so every cycle is
refused. The users' rules are one policy (with two, a batch goes to both:
`RuleSync`). An update is one step: the green thread may switch inside a
trigger's RPC, after the rules changed and before the subscriptions do.

### ActionLeader: which engine a driver obeys

| State | Code |
|---|---|
| `local`, `up` | engines on the driver's node; nodes that run |
| `due`, `beats`, `hellos` | heartbeat loops that have not run this second; heartbeats on their way to the driver and to the engines |
| `heard[e]` | seconds since `peers[e]['last_hb_time']`; `Never` if there is no such peer |
| `known` | engines whose node lists the driver's service among its peers' |
| `leader`, `requests` | `_leader_node_id`; calls of `request_execute` on their way |
| `obeyed`, `missed`, `excused`, `faults` | history |

| Action | Code |
|---|---|
| `EngineBeat`, `DriverBeat` | `_heartbeat_loop`: the broadcast and the callbacks, with `_check_leader_heartbeat` |
| `HearEngine`, `HearDriver`, `LoseBeat` | `accept_heartbeat`; the bus |
| `Tick` | a second passes |
| `Fire`, `LoseRequest`, `RequestExecute` | `execute_action` and `_rpc`; the bus; `request_execute` |
| `Crash`, `Restart`, `CrashHome`, `RestartHome` | a node of an engine, or the driver's, goes down and comes back; `start` asks peers for heartbeats (`list_services`) |
| `RestartService` | the driver is created anew |

Time is counted in heartbeat intervals: a heartbeat arrives within its second or
is lost, and an engine has one request under way. `execute_action_retry` adds
nothing: what `rpc` raises on a time-out is not what `execute_retry` catches.

### DatasourceSync: datasources, their services and their policies

| State | Code |
|---|---|
| `rows` | the table `datasources`, by id |
| `services` | drivers registered with the manager's node |
| `policies[n]` | the engine's datasource policy n: whose schema it has |
| `directory` | services the engine's node knows from heartbeats |
| `local` | whether engine and manager share a node |
| `request`, `lock`, `seen`, `listed` | where each call of `add_datasource` and `delete_datasource` is; `congress_synchronize_datasources` and what its holder read |
| `policyLock`, `policySeen`, `todo` | `congress_synchronize_policies` and what its holder read |

| Action | Code |
|---|---|
| `Add`, `Delete` | the database part of `add_datasource`, `delete_datasource` |
| `SyncOneRead`, `SyncOne` | `sync_datasource`, `create_datasource_service`, `register_service`, `unregister_service` |
| `SyncPolicyRead`, `SyncPolicy` | `sync_one_policy` on an engine of the same node, and the roll-back of `add_datasource` |
| `SyncAllRead`, `SyncAll` | `synchronize_all_datasources` |
| `SyncPoliciesRead`, `RegisterNext`, `SyncPolicies` | `_sync_datasource_policies` |
| `Heartbeat`, `Restart` | the services a peer lists; a crash of the manager's node |

Constructors, schema calls and nodes fail at most `MaxFaults` times. Datasources are
enabled and their ids are used once. The lock of the database tables is left out.

### PollingDriver: poll loop, refresh requests, lazy tables

| State | Code |
|---|---|
| `source` | the rows of the cloud service |
| `registered`, `state`, `last`, `numbered` | `_table_deps`, `self.state`, `_last_published_data`, `sender_seqnums` |
| `poller`, `timed` | where `poll_loop` is; whether its `Timeout` is pending |
| `polled`, `failed` | `last_updated_time is not None`, `last_error is not None` |
| `iterated`, `todo`, `answer`, `lazyAnswer` | the iteration of the poll; calls of the service on their way back |
| `queued`, `inPut`, `asked` | `refresh_request_queue`; callers blocked in its `put`; a request no poll has begun after |

| Action | Code |
|---|---|
| `Loop`, `Refresh`, `TimedOut` | `poll_loop`, `block_unless_refresh_requested`, the `Timeout` |
| `Fetch`, `TakeAnswer`, `StartPublishing`, `Publish`, `FinishPoll`, `PollFails` | `poll`, `update_from_datasource`, `publish` |
| `Snapshot`, `FetchLazy`, `TakeLazyAnswer`, `LazyFails` | `get_last_published_data_with_seqnum` and `get_snapshot` |
| `RequestRefresh`, `PutReturns` | `request_refresh` |
| `Stop`, `Wait`, `Create` | `unregister_service`: `stop`, then `wait`; the driver created again |

A table has one row or none, and one root table per translator. The
`Timeout` is an exception that may come at any blocking call, since it spans the
poll that a refresh starts.

## 4. Runs

| Run | What it asks | Bounds |
|---|---|---|
| `PubSubRestart` | type correctness, the inductive invariant `CopyInv`, answers to late subscribers, the refinement of `TableFeed` | 1 subscriber with 2 threads that subscribe and 1 inside `receive_data`, 1 row, numbers 0..2, 2 runs of the publisher, lossy bus |
| `PubSubSnapshots` | `NothingReadyWaits` for a publisher of whole tables | numbers 0..3, 2 threads inside `receive_data`, lossy bus |
| `PubSubConverge` | liveness: copies catch up | numbers 0..5, no loss |
| `RuleSyncSingle` | one engine: `Enforced`, `NoCycleSaved` | 1 policy that comes and goes, 3 rules (1 fact, 2 recursive together), 2 threads, 4 requests, failing database, 1 restart |
| `RuleSyncReplicated` | two engines that insert: `NoCycleSaved`, `NoDuplicates`, `LatestState` | 1 policy that stays, 3 rules, 2 nodes with 2 threads, 3 requests, 1 restart |
| `RuleSyncConverge` | type correctness, `NoOrphans`, `SyncKeepsInserts`; liveness: engines and database agree in the end, requests end | 1 policy, 2 rules, 2 nodes with 1 thread, 3 requests of any kind, failing database |
| `RuleSyncEventual` | (violated) the same with two policies | 2 policies, 2 inserts |
| `EngineUpdates` | `GraphCoversRules`, `NeverRecursive`, `SourcesSubscribed`, `RefusalLeavesNoTrace`, `FiresExactly` | 2 datasource tables, 2 plain ones, 2 actions; 6 rules, two of them recursive together, one by itself, two with a negation (an action fires because a row goes); batches of 2 |
| `EngineActions` | (violated) a trigger executes the action it watches | the same |
| `ActionLeaders` | `OneIsObeyed`; liveness: a dead engine is not the leader in the end, the surviving one is obeyed | 2 engines on any nodes, a time-out of 2 heartbeats, 1 fault |
| `DatasourceSyncs` | `ServicesKept`, `PoliciesKept`; liveness: services and policies follow the rows | 2 datasources with names of their own, 2 faults |
| `Polls` | `RestIsPublished`; liveness: `Fresh`, `RefreshServed`, `RequestsReturn` | an eager and a lazy table, 1 caller blocked besides the queued request, 2 changes, 1 failed call |

The bounds of `DsePubSub`. `MaxSeq` caps the numbers a publisher uses, `MaxInc` its runs,
`MaxDrains` the threads of a subscriber inside `receive_data`. Three numbers are
what it takes for a message to be old, next and early at once; two runs for
numbers to repeat; six numbers let a subscriber fall behind, resubscribe and
fall behind again. Two threads that
subscribe have two answers under way, one of them old. Several threads inside `receive_data`
are in `PubSubSnapshots` only; `CopyInvariant` and `FeedIsImplemented` are for any number. One row distinguishes every two consecutive versions; with two,
a differential may add one row and delete the other.

The bounds of `RuleSync`. Three requests let two nodes race and a third request
meet the result; four let a policy be created, filled, deleted and created again.
Two threads per node compete with each other and with the worker for every lock;
two nodes for the tables. One crash is enough to lose everything a node has read
or holds. Permutations of nodes and of threads are a symmetry in the runs without
liveness.

The bounds of the other modules. `EngineUpdate`: two rules in a batch let one be
refused for the other, a rule be named twice and two actions appear at once;
`MaxRefs` stops the reference counts that a rule named twice leaks. `ActionLeader`:
a time-out of 2 distinguishes a heartbeat that is due, late and lost; the lost
heartbeats in a row are capped by the time-out itself. `DatasourceSync`: two
datasources let one synchronization fail at the first and not reach the second.
`PollingDriver`: two changes let a stale answer overtake a newer one; a failure in
an otherwise fresh driver is one.

Fairness of `DsePubSub` (`SteadySpec`). Messages are delivered, the publisher answers and the
periodic task runs (weak fairness: the bus and eventlet's scheduler are fair);
a call that is retried for ever is answered before its time-out at last (strong
fairness of `SubscribeReturn`). The subscriber keeps its subscription and the
publisher runs on. The liveness claim is deliberately small: it fails when the
last publication is lost (nothing tells the subscriber that there was one), when
a message with number 0 is still on its way (it resets an initialised
subscriber), and when two threads subscribe at once (the late answer of one, the
resubscription by the other and a failed second call leave rows that nobody
refreshes).

Fairness of `RuleSync` (`FairSpec`). A thread that is again and again able to go on
does so (strong fairness of `Work`): eventlet's semaphores, which `lockutils` uses
within a process, and the database's locks serve their waiters in turn. The
periodic tasks run every `datasource_sync_period` seconds and finish. No fairness
makes users ask or nodes crash.

Fairness of the others. `ActionLeader`: heartbeat loops run, messages arrive or are
lost, time passes, a driver's node is started again; nothing makes engines request
actions (`SurvivorObeyed` asks for it). `DatasourceSync`: requests get a lock that
is free again and again, the periodic tasks run, heartbeats keep coming.
`PollingDriver`: green threads run, the service answers, timers fire; `get()` on a
queue with an item does not wait (strong fairness of `Refresh`), and a blocked
`put()` takes its turn. `Polls` does not check deadlock: a driver that is stopped
with a caller blocked in `put()` really stops for ever (below).

### Findings

The violated runs are disagreements between the code and its own comments or
documents; `PROJECT.json` quotes both sides. `RuleSyncConverge` is drawn around
`RuleSyncEventual` (one policy only). `RunsItsAction` is left out of `EngineUpdates`,
whose `FiresExactly` says *that* the trigger of an action fires, not what it executes.

Further disagreements are in the models and have no run of their own. Each can be
seen by checking the formula given, or by changing the constants as said:

* `DsePubSub`: a queued message may lose its receipt time
  (`data_service.py:363`), so that `check_resub_all` never resubscribes:
  `rcv[s].queue # {} => rcv[s].armed`.
* `DsePubSub`: a publisher of whole tables answers late subscribers with old rows
  under the current number (`data_service.py:255`): `SnapshotIsCurrent` with
  `SnapshotPublisher = TRUE`.
* `DsePubSub`: a publisher's first publication may be a differential with number 0,
  which initialised subscribers apply as a re-initialisation
  (`data_service.py:390-394`): rows that the publisher no longer has stay. This is
  why `rcv[s].exact` exists, and `Suspect` in `TableFeed`.
* `RuleSync`: the synchronization before an insert is refused as a whole when the
  engine lacks the policy (`agnostic.py:405`); two engines then save rules that are
  recursive together: `NoCycleSaved` with two nodes, `DefaultPolicies = {}` and
  `Operations <- NoDeletions`.
* `RuleSync`: a rule that could not be saved stays in its engine under the id of its
  failed request. When another node saves the same rule, the synchronization before an
  insert takes it for surplus and deletes it (its insertion is no actual event), and
  the insert is checked against an engine that lacks a saved rule: two replicated
  engines save rules that are recursive together. `RuleSyncReplicated` with
  `DbFails = TRUE`, without `LatestState`.
* `RuleSync`: `LatestState` fails when rules are deleted singly: a rule that another
  node has deleted and inserted again has a new id, its insertion is no actual
  event, and the deletion of the old id takes it out of the engine until the next
  synchronization. `RuleSyncReplicated` therefore has inserts only.
* `RuleSync`: `uninsert_rules` (`agnostic.py:381-384`) indexes `Rule` objects like
  dictionaries and raises: after a failure of the database the rule stays in
  force, unsaved, until a synchronization removes it (`SaveFails`).
* `RuleGraph`: deleting the last rule of a recursive table deletes its node before
  its edge (`utility.py:396`), and the cached cycles survive: deletions and
  datasource updates are refused as recursive until an edge is added
  (`graph.cycles # "unknown" => (graph.cycles = "some" <=> Cyclic(graph.out))`).
* `EngineUpdate`: `delete_policy` leaves the engine subscribed to the tables of the
  rules it deletes (`subscribed \subseteq SourcesOf(theory)`), and a rule named
  twice in a request leaves reference counts behind.
* `EngineUpdate`: `FiresExactly` fails when a table heads both an action and a rule of
  another kind. With `Plain("a1", {"s2"})` and `Action("a1", {"s1"})`, a batch that
  replaces the action rule by the plain one makes `unregister` raise `KeyError`
  (`agnostic.py:162-169`, `2052-2065`; a TODO in `TriggerRegistry.register_table`
  is about the same); the entry of `execution_triggers` stays, inserting the action
  rule again makes no trigger, and the action never fires.
* `DatasourceSync`: when a name is used again, a datasource whose service is not up
  yet may lose its policy until the next synchronization. `PoliciesKept` is
  therefore about rows with a service.
* `DatasourceSync`: a datasource that is deleted and added again under its name
  while its old service is up: `synchronize_all_datasources` raises at the new row,
  every time, before it unregisters the old service (`datasource_synchronizer.py:106`).
  `Converges` with both ids under one name.
* `DatasourceSync`: a constructor that fails raises what `add_datasource` takes for
  "already created" (`datasource_manager.py:87`): the request succeeds, the
  periodic task tries again.
* `PollingDriver`: `request_refresh` blocks in `put()` where its comment expects `Full`
  (`datasource_driver.py:1479`). If the driver is stopped then, `unregister_service`
  waits for the blocked call for ever, holding the lock of the synchronizer: `Polls`
  with deadlock checking.
* `PollingDriver`: a lazy table that is fetched while a poll runs ends the poll
  (`datasource_driver.py:1436`) and may overwrite rows published meanwhile with
  older ones under the same number, until the next poll.

## 5. Proofs

`DsePubSub_proofs` proves, for any number of subscribers, threads, rows, numbers
and restarts:

* `TypeCorrect`: `Spec => []TypeOK`.
* `NothingReadyIsLeft`: `Spec => []NothingReadyWaits`. `TypeOK /\ NothingReadyWaits` is
  inductive: a message put in the queue is at least two ahead (`ProcessQuiet`), and
  `process_queued_msg` establishes the property whatever was in the queue
  (`ProcessQueuedQuiet`).
* `CopyInvariant`: `Spec => []CopyInv` for a publisher of differentials
  (`~SnapshotPublisher`). `FaithfulCopy` is not inductive: that a differential fits
  the rows it is applied to needs that the number before it names one version only
  (`NumbersNameVersions`) and that every message, on the bus or in a queue, was made
  by the publisher (`MessagesMade`). `CopyInv` is their conjunction, checked by
  `PubSubRestart`. `CopiesAreFaithful` and `SnapshotsAreCurrent` follow.

* `FeedIsImplemented`: `Spec => ImplementsFeed`, again for a publisher of
  differentials: every step of a subscriber is a move of its view that `TableFeed`
  allows (`ReceiveMoves`), every new number is a publication (`NumberPublishes`).

`RuleSync_proofs` proves, for any numbers of nodes, threads, policies, rules,
requests and crashes, and any set of recursive rules:

* `TypeCorrect`: `Spec => []TypeOK`. A subject of an insert or a deletion is a rule,
  not a stand-in, which is the added conjunct `Subjects`.
* `RulesHavePolicies`: `Spec => []NoOrphans`. The inductive invariant `SyncInv` says
  which locks a thread holds at each place of its job (`LocksHeld`) and that a rule
  about to be saved has a saved policy (`SavesRight`): a deletion of a policy
  waits for the tables, so that no thread is between its check and its commit.
* `InsertsAreKept`: `Spec => SyncKeepsInserts`. Of all steps that change an engine,
  those of the worker need a lock that the insert holds, and those of other
  inserts need all three; only a deletion of the same rule remains.

`RuleSyncEngines_proofs` proves for one engine and one policy whose rules are not
deleted singly (`OneEngine`), with any failures, restarts and threads:
`SavedRulesAreEnforced`, `SavedOnce` (`NoDuplicates`) and `NoRecursionSaved`. `Enforced` is not
inductive: a synchronization may act on an old reading of the database. `SingleInv`
adds that what a thread has read still includes all that is saved, since nobody can
save while it holds its lock (`Knows`), that the engine's own rules are unique and
not recursive (`Holds`), and that its policies include those of the saved rules
(`Covers`), so that no change of policies drops a saved rule (`PoliciesReplaced`).

For any number of replicated engines whose users insert rules into one policy, and a
database that takes every row (`Replicas`, of which `RuleSyncReplicated` is an instance),
it proves `StateIsLatest` (`Spec => LatestState`), `NoRecursionSavedTogether`
(`Spec => []NoCycleSaved`) and `SavedOnceTogether` (`Spec => []NoDuplicates`), with any
crashes. The invariant `ReplicaInv` says that an
engine has no rule that is not saved, but for the insert that holds the tables
(`Behind`); that between its synchronization and its commit an insert has an engine with
exactly the saved rules and its own (`Inserting`); and that a worker read no more than
what is saved (`Reading`). A stale reading may thus take rules out of an engine, and the
next insert brings them back (`SyncCatchesUp`). None of them holds without the
hypotheses (Findings).

`ActionLeader_proofs` proves, for any number of engines, any time-out and any number
of faults:

* `TypeCorrect`: `Spec => []TypeOK`.
* `OneEngineIsObeyed`: `Spec => []OneIsObeyed`. The inductive invariant `IInv` bounds
  the age of a heartbeat by the heartbeats lost since (`HeardInTime`), so that an
  engine found lost has lost `Timeout` in a row, is down, or was never heard
  (`LostIsExcused`); says that every engine obeyed before the leader is excused
  (`OthersExcused`) and a remote leader was heard or excused (`LeaderHeard`); and that
  a driver's node that is down has forgotten everything (`HomeDown`).

`DatasourceSync_proofs` proves, for any datasources, names and faults:

* `TypeCorrect`: `Spec => []TypeOK`.
* `ServicesAreKept`: `Spec => ServicesKept`. The one step that takes down the service of a
  datasource with a row is `Restart`; a synchronization that found no rows, and would leave
  no service at all, is no exception. What the holder of the lock has read includes
  every datasource that has a row and a service (`ServicesKnown`): an id comes once and
  goes once (`AddedOnce`, `DeletedIsGone`), so that a row that is missing in the reading is
  new, and nobody else gives it a service meanwhile (`LocksHeld`).
* `PoliciesAreKept`: `Spec => PoliciesKept`. The exception is a restart with the engine on
  the same node. The same argument for policies and their lock
  (`PoliciesKnown`), with `LocalRequests`: only an engine on the manager's node is
  synchronized by a request.
* `NamesAreServedOnce`: no two services have one name, though names are used again;
  `NamesInv` is its inductive invariant. The run gives every datasource a name of its own.

`PollingDriver_proofs` proves, for any tables, changes and failures, `TypeCorrect` and
`PublishedAtRest` (`Spec => []RestIsPublished`). The invariant says what a poll that is publishing
has left to do: a registered table that is not published is on its list (`Rest`); that
lists and answers are about registered tables only (`PollKnows`), even when a table is
registered meanwhile, which brings no rows with it (`NewTables`); and that nothing is
left of a poll whose green thread was killed (`Killed`).

`RuleGraph_proofs` is the theory of the dependency graph, lemmas for the next module.
`Represents(g, I)` says that g counts the finite set I of *instances* of rules, pairs of a
rule and a number: the same rule may be counted several times (a rule named twice
leaks a reference). Inserting a rule adds an instance, deleting one removes one
(`FormulaUpdateCounts`), and undoing the changes of a batch restores the counts it began
with (`UndoChangesCounts`, `AfterUndone`). `CacheSound` says that the cached `"none"` of
`has_cycle` is true: deletions never make a cycle, and every added edge drops the
answer. The converse is false (Findings). The last lemmas are about reachability, a
path followed through a set of edges that grows or shrinks.

`EngineUpdate_proofs` proves, for any finite sets of tables and rules and any size of a batch:

* `TypeCorrect`, `RulesStayAcyclic` (`NeverRecursive`), `RulesAreFed`
  (`SourcesSubscribed`), `GraphCovers` (`GraphCoversRules`), from the inductive invariant
  `Inv == TypeOK /\ Counted /\ NeverRecursive /\ SourcesSubscribed`. `Counted` says that the
  graph represents a set of instances, at least one of each rule in force (there may be
  more, leaked), and that its cache is sound. It quantifies over sets of instances, which TLC cannot
  enumerate; what TLC checks in its place is `GraphCoversRules`, its visible consequence,
  and the remaining conjuncts. Without it, no rule deleted could be shown to leave the
  nodes and edges that another rule still needs.
* `RefusalIsUndone`: `Spec => RefusalLeavesNoTrace`, from `Counted` and `AfterUndone`.
* `ActionsFireExactly`: `ActionsApart => (Spec => FiresExactly)`. `ActionsApart` (no table heads
  both an action and a rule of another kind) holds in `EngineUpdates`, and the theorem is
  false without it (Findings). The invariant `Triggers` says that the registered triggers
  are those of `execution_triggers`, that their tables are the action tables of the
  graph (`Current`), and that the index lists each trigger at every table its own
  depends on. A table from which no rule leads to an action cannot change what the
  action derives (`SameDerived`), so the trigger of an action that gains a row
  is found through the index of what has changed (`ChangeIsReached`).

The assumptions on constants are `PubSubAssumption` and `ViewAssumption` (stand-ins for
missing values are no values), `ConstantsAssumption` in `RuleSync`, `LeaderAssumption`,
`DatasourceAssumption` (a name for each datasource), `PollingAssumption` (a table is
eager or lazy), `GraphAssumption` and `EngineAssumption` (finitely many tables and rules,
whose heads are no datasource tables). TLC evaluates them in the runs.

Finite sets of instances, events and edges need induction, and the induction theorems of the
library take an operator as a parameter, which the provers cannot instantiate.
`RuleGraph_proofs` has induction over the subsets of a finite set and over intervals
with the *set* of the good subsets or numbers as the parameter (`SubsetInduction`,
`IntervalInduction`), and from them what folds over sets and sequences compute.

Only model-checked are: liveness (every `Converges`, `RequestsEnd`, `DeadLeaderVacated`,
`SurvivorObeyed`, `Fresh`, `RefreshServed`, `RequestsReturn`), which is temporal reasoning under
fairness that the prover does not do.

## 6. Not modelled

See the table of components in `PROJECT.json`: parts with status `not_modelled` or
`partly` name what is left out and why. Worth modelling and not begun: materialized
views (a rule's body may lose a derivation while the row has another, which
`propagate` does not look at), pushed datasources with their persisted tables, the
JSON ingester, the publication of policy tables. Out of scope for good are the
generated parsers, the translation to Z3, the field-by-field translations of the
concrete drivers, the library of builtins, start-up and the stateless HTTP layer.
