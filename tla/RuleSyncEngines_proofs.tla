------------------------ MODULE RuleSyncEngines_proofs ------------------------
(***************************************************************************)
(* What engines and database guarantee together.  One policy engine with   *)
(* one policy of users, whose rules are not deleted one by one: whatever   *)
(* fails, restarts or is synchronized, every saved rule is in force, is    *)
(* saved once, and the saved rules are not recursive.  Any number of       *)
(* replicated engines, whose users insert rules into one policy: an insert *)
(* is checked against the saved rules, and they are never recursive.  Runs *)
(* of RuleSync show that this is lost under weaker assumptions.            *)
(***************************************************************************)
EXTENDS RuleSync_proofs

OneEngine ==
  /\ Nodes # {} /\ \A m, n \in Nodes : m = n
  /\ \A p1, p2 \in Policies : p1 = p2
  /\ "delete" \notin Operations
  /\ {} \notin Recursive

UniquePairs(S) == \A a, b \in S : Pair(a) = Pair(b) => a = b

\* Engine n has the saved rules, each rule once, and no recursion.
Holds(n) == dbRules \subseteq rules[n] /\ UniquePairs(rules[n]) /\ ~HasCycle(rules[n])

\* The policies in P are those of the saved rules, as far as they exist.
Covers(P, S) == \A row \in S : \A pol \in dbPolicies : pol.name = row.policy => pol \in P

\* What thread t of node n has read or is about to save is still right.
Knows(n, t) ==
  /\ At(n, t) = "save" => Row(n, t) \in rules[n] /\ Covers(policies[n], {Row(n, t)})
  /\ At(n, t) \in {"one", "policies"} => Covers(job[n][t].sawPolicies, dbRules)
  /\ At(n, t) = "rules" => dbRules \subseteq job[n][t].sawRules
  /\ At(n, t) \notin {"delete", "unpersist"}

SingleInv ==
  /\ SyncInv
  /\ \A n \in Nodes : /\ Holds(n) /\ Covers(policies[n], dbRules)
                      /\ \A t \in AllThreads : Knows(n, t)
  /\ \A n \in Nodes : At(n, Worker) \in {"idle", "policies", "rules"}
  /\ \A n \in Nodes : \A t \in Threads : At(n, t) \notin {"policies", "rules"}

\* Fewer rules are no more recursive and no less unique.
LEMMA FewerRules ==
  ASSUME NEW S, NEW T \in SUBSET S
  PROVE  /\ UniquePairs(S) => UniquePairs(T)
         /\ ~HasCycle(S) => ~HasCycle(T)
         /\ Pairs(T) \subseteq Pairs(S)
BY DEF UniquePairs, HasCycle, Pairs

\* A synchronization that has seen all saved rules keeps them.
LEMMA SyncKeepsSaved ==
  ASSUME OneEngine, NEW S \in SUBSET RuleRow, NEW seen \in SUBSET RuleRow, NEW P,
         NEW R \in SUBSET RuleRow, R \subseteq S, R \subseteq seen,
         UniquePairs(S), ~HasCycle(S),
         NEW T \in RulesAfterSync(S, P, seen)
  PROVE  R \subseteq T /\ UniquePairs(T) /\ ~HasCycle(T)
<1> DEFINE I == Inserted(S, seen)
           D == Surplus(S, seen)
<1>1. T = S \/ (~HasCycle((S \ D) \cup I) /\ \E f \in Firsts(I) : T = Batch(S, I, D, f))
  BY DEF RulesAfterSync
<1>2. CASE T = S
  BY <1>2
<1>3. ASSUME NEW f \in Firsts(I), T = Batch(S, I, D, f)
      PROVE  R \subseteq T /\ UniquePairs(T) /\ Pairs(T) \subseteq Pairs((S \ D) \cup I)
  <2> DEFINE targets == {row.policy : row \in I \cup D}
             new == {Subject(p, r, f[r]) : p \in targets, r \in DOMAIN f}
  <2>1. T \subseteq S \cup {e \in new : Pair(e) \notin Pairs(S)}
    BY <1>3 DEF Batch
  <2>2. \A a, b \in new : Pair(a) = Pair(b) => a = b
    BY DEF Subject, Pair
  <2>3. \A a \in S : Pair(a) \in Pairs(S)
    BY DEF Pairs
  <2>4. UniquePairs(T)
    BY <2>1, <2>2, <2>3 DEF UniquePairs
  <2>5. ASSUME NEW row \in R
        PROVE  row \in T
    <3>1. ASSUME NEW e \in D, e.rule = row.rule
          PROVE  FALSE
      <4>1. e \in S /\ row \in S /\ e.policy = row.policy
        BY DEF Surplus, OneEngine, RuleRow
      <4>2. e = row
        BY <3>1, <4>1 DEF UniquePairs, Pair
      <4> QED
        BY <4>2 DEF Surplus, Matches
    <3> QED
      BY <1>3, <3>1 DEF Batch
  <2>6. ASSUME NEW row \in T
        PROVE  \E e \in (S \ D) \cup I : Pair(e) = Pair(row)
    <3>1. CASE row \in S
      <4>1. row \notin D
        BY <1>3, <3>1 DEF Batch
      <4> QED
        BY <3>1, <4>1
    <3>2. CASE row \in new
      <4>1. PICK p \in targets, r \in DOMAIN f : row = Subject(p, r, f[r])
        BY <3>2
      <4>2. PICK e \in I : e.rule = r
        BY DEF Firsts
      <4>3. e \in RuleRow /\ \A g \in I \cup D : g \in RuleRow
        BY DEF Inserted, Missing, Surplus
      <4>4. e.policy = p
        BY <4>3 DEF OneEngine, RuleRow
      <4> QED
        BY <4>1, <4>2, <4>4 DEF Pair, Subject
    <3> QED
      BY <2>1, <3>1, <3>2
  <2> QED
    BY <2>4, <2>5, <2>6 DEF Pairs
<1>4. ASSUME ~HasCycle((S \ D) \cup I), Pairs(T) \subseteq Pairs((S \ D) \cup I)
      PROVE  ~HasCycle(T)
  BY <1>4 DEF HasCycle
<1> QED
  BY <1>1, <1>2, <1>3, <1>4

LEMMA SingleInit == OneEngine /\ Init => SingleInv
<1> SUFFICES ASSUME OneEngine, Init PROVE SingleInv
  OBVIOUS
<1>1. \A n \in Nodes : \A t \in AllThreads : At(n, t) = "idle"
  BY IdleIsAJob DEF Init, At, AllThreads
<1>2. \A n \in Nodes : Holds(n) /\ Covers(policies[n], dbRules)
  BY DEF Init, Holds, Covers, UniquePairs, HasCycle, Pairs, OneEngine
<1> QED
  BY <1>1, <1>2, SyncInit DEF SingleInv, Knows, AllThreads

\* The database gets no rules, and no policies that saved rules belong to.
DbShrinks == /\ dbRules' \subseteq dbRules
             /\ \A row \in dbRules' : \A pol \in dbPolicies' :
                   pol.name = row.policy => pol \in dbPolicies

\* What a thread does that saves nothing, when it changes nothing or nobody else is
\* about to save.
LEMMA SingleKept ==
  ASSUME SingleInv, OneEngine, SyncInv',
         NEW n \in Nodes, NEW t \in AllThreads, NEW j \in Job, Become(n, t, j), DbShrinks,
         UNCHANGED <<db, engine>> \/ \A u \in Threads : u # t => At(n, u) # "save",
         Holds(n)', Covers(policies[n], dbRules)', Knows(n, t)',
         t = Worker => j.at \in {"idle", "policies", "rules"},
         t \in Threads => j.at \notin {"policies", "rules"}
  PROVE  SingleInv'
<1> USE ConstantsAssumption
<1>1. \A m \in Nodes : m = n
  BY DEF OneEngine
<1>2. job'[n][t] = j /\ \A u \in AllThreads : u # t => job'[n][u] = job[n][u]
  BY OneThread DEF SingleInv, SyncInv
<1>3. ASSUME NEW u \in AllThreads, u # t
      PROVE  Knows(n, u)'
  <2>1. Knows(n, u) /\ job'[n][u] = job[n][u]
    BY <1>2, <1>3 DEF SingleInv
  <2>2. At(n, u) = "save" => UNCHANGED <<db, engine>>
    BY <1>3 DEF SingleInv, AllThreads
  <2>3. At(n, u) = "save" => Row(n, u)' \in rules'[n] /\ Covers(policies[n], {Row(n, u)})'
    BY <2>1, <2>2 DEF Knows, Covers, Row, db, engine
  <2>4. At(n, u) \in {"one", "policies"} => Covers(job[n][u].sawPolicies, dbRules)'
    BY <2>1 DEF Knows, Covers, DbShrinks
  <2>5. At(n, u) = "rules" => dbRules' \subseteq job'[n][u].sawRules
    BY <2>1 DEF Knows, DbShrinks
  <2> QED
    BY <2>1, <2>3, <2>4, <2>5 DEF Knows, At
<1>4. At(n, Worker)' \in {"idle", "policies", "rules"}
  BY <1>2 DEF SingleInv, At, AllThreads
<1>5. \A u \in Threads : At(n, u)' \notin {"policies", "rules"}
  BY <1>2 DEF SingleInv, At, AllThreads
<1> QED
  BY <1>1, <1>3, <1>4, <1>5 DEF SingleInv

\* The same for a thread whose step leaves database and engine alone.
LEMMA NothingChanged ==
  ASSUME SingleInv, OneEngine, SyncInv', UNCHANGED <<db, engine>>,
         NEW n \in Nodes, NEW t \in AllThreads, NEW j \in Job, Become(n, t, j),
         j.at \notin {"save", "one", "policies", "rules", "delete", "unpersist"},
         t = Worker => j.at = "idle"
  PROVE  SingleInv'
<1>1. Holds(n)' /\ Covers(policies[n], dbRules)' /\ DbShrinks
  BY DEF SingleInv, Holds, Covers, DbShrinks, db, engine
<1>2. job'[n][t] = j
  BY OneThread DEF SingleInv, SyncInv
<1>3. Knows(n, t)'
  BY <1>2 DEF Knows, At
<1> QED
  BY <1>1, <1>3, SingleKept

\* While a thread holds the policies' or the rules' lock, nobody else saves.
LEMMA HolderIsAlone ==
  ASSUME SyncInv, NEW n \in Nodes, NEW t \in AllThreads,
         policyLock[n] = t \/ ruleLock[n] = t
  PROVE  \A u \in Threads : u # t => At(n, u) # "save"
BY DEF SyncInv, LocksHeld, HoldsOf, WithPolicies, WithRules

\* An engine whose policies change to Q, where Q covers the saved rules, keeps them.
LEMMA PoliciesReplaced ==
  ASSUME SingleInv, NEW n \in Nodes, NEW Q, Covers(Q, dbRules)
  PROVE  LET S == Remaining(rules[n], policies[n], Q)
         IN  dbRules \subseteq S /\ UniquePairs(S) /\ ~HasCycle(S)
<1> DEFINE S == Remaining(rules[n], policies[n], Q)
<1>1. Holds(n) /\ Covers(policies[n], dbRules) /\ NoOrphans
  BY DEF SingleInv, SyncInv
<1>2. ASSUME NEW row \in dbRules PROVE row \in S
  <2>1. PICK pol \in dbPolicies : pol.name = row.policy
    BY <1>1 DEF NoOrphans, Names
  <2>2. pol \in policies[n] \cap Q
    BY <1>1, <2>1 DEF Covers
  <2> QED
    BY <1>1, <2>1, <2>2 DEF Remaining, Names, Holds
<1>3. S \subseteq rules[n]
  BY DEF Remaining
<1> QED
  BY <1>1, <1>2, <1>3, FewerRules DEF Holds

LEMMA SingleRequests ==
  ASSUME SingleInv, OneEngine, SyncInv', NEW n \in Nodes, NEW t \in Threads, UserRequest(n, t)
  PROVE  SingleInv'
<1> USE ConstantsAssumption
<1>1. t \in AllThreads /\ t # Worker /\ SyncInv /\ TypeInv'
  BY DEF AllThreads, SingleInv, SyncInv
<1>2. ASSUME NEW at \in {"wantPolicies", "wantOne"}, NEW row,
             NEW j, j = [Idle EXCEPT !.at = at, !.row = row], Become(n, t, j)
      PROVE  j \in Job /\ j.at = at /\ job'[n][t] = j
  <2>1. job \in [Nodes -> [AllThreads -> Job]] /\ job' \in [Nodes -> [AllThreads -> Job]]
    BY <1>1 DEF SyncInv, TypeInv, TypeOK, AllThreads
  <2>2. job'[n][t] = j
    BY <1>1, <1>2, <2>1 DEF Become
  <2>3. j \in Job
    BY <1>1, <2>1, <2>2
  <2>4. j.at = at
    BY <1>2 DEF Idle
  <2> QED
    BY <2>2, <2>3, <2>4
<1>3. CASE RequestInsert(n, t)
  <2>1. PICK p \in Policies, r \in Rules :
           Become(n, t, [Idle EXCEPT !.at = "wantPolicies", !.row = Subject(p, r, requests')])
    BY <1>3 DEF RequestInsert
  <2> DEFINE j == [Idle EXCEPT !.at = "wantPolicies", !.row = Subject(p, r, requests')]
  <2>2. j \in Job /\ j.at = "wantPolicies"
    BY <1>2, <2>1
  <2> QED
    BY <1>1, <1>3, <2>1, <2>2, NothingChanged DEF RequestInsert
<1>4. CASE RequestDelete(n, t)
  BY <1>4 DEF RequestDelete, Request, OneEngine
<1>5. ASSUME TablesFree, UNCHANGED engine, DbShrinks, NEW p,
             Become(n, t, [Idle EXCEPT !.at = "wantOne", !.row = Subject(p, None, 0)])
      PROVE  SingleInv'
  <2> DEFINE j == [Idle EXCEPT !.at = "wantOne", !.row = Subject(p, None, 0)]
  <2>1. j \in Job /\ j.at = "wantOne" /\ job'[n][t] = j
    BY <1>2, <1>5
  <2>2. \A u \in Threads : At(n, u) # "save"
    BY <1>1, <1>5, NobodySaves
  <2>3. Holds(n)' /\ Covers(policies[n], dbRules)'
    BY <1>5 DEF SingleInv, Holds, Covers, DbShrinks, engine
  <2>4. Knows(n, t)'
    BY <2>1 DEF Knows, At
  <2> QED
    BY <1>1, <1>5, <2>1, <2>2, <2>3, <2>4, SingleKept
<1>6. CASE CreatePolicy(n, t)
  <2>1. PICK p \in Policies \ Names(dbPolicies) :
           /\ dbPolicies' = dbPolicies \cup {[name |-> p, id |-> requests']}
           /\ Become(n, t, [Idle EXCEPT !.at = "wantOne", !.row = Subject(p, None, 0)])
    BY <1>6 DEF CreatePolicy
  <2>2. DbShrinks
    BY <1>1, <1>6, <2>1 DEF CreatePolicy, DbShrinks, SyncInv, NoOrphans, Names
  <2> QED
    BY <1>5, <1>6, <2>1, <2>2 DEF CreatePolicy
<1>7. CASE DeletePolicy(n, t)
  <2>1. PICK p \in Names(dbPolicies) \ DefaultPolicies :
           /\ dbPolicies' = {q \in dbPolicies : q.name # p}
           /\ dbRules' = {row \in dbRules : row.policy # p}
           /\ Become(n, t, [Idle EXCEPT !.at = "wantOne", !.row = Subject(p, None, 0)])
    BY <1>7 DEF DeletePolicy
  <2>2. DbShrinks
    BY <2>1 DEF DbShrinks
  <2> QED
    BY <1>5, <1>7, <2>1, <2>2 DEF DeletePolicy
<1> QED
  BY <1>3, <1>4, <1>6, <1>7 DEF UserRequest

LEMMA SingleInsert ==
  ASSUME SingleInv, OneEngine, SyncInv', NEW n \in Nodes, NEW t \in Threads, Insert(n, t)
  PROVE  SingleInv'
<1> USE ConstantsAssumption
<1> DEFINE row == Row(n, t)
           P == WithOne(policies[n], row.policy, dbPolicies)
           S == Remaining(rules[n], policies[n], P)
<1>1. /\ t \in AllThreads /\ t # Worker /\ SyncInv /\ job[n][t] \in Job /\ row \in RuleRow
      /\ At(n, t) = "insert" /\ Covers(policies[n], dbRules)
      /\ policies \in [Nodes -> SUBSET PolicyRow] /\ rules \in [Nodes -> SUBSET RuleRow]
  <2>1. At(n, t) = "insert" /\ "insert" \in RulePlaces
    BY DEF Insert, Proceed, RulePlaces
  <2>2. t \in AllThreads /\ t # Worker /\ SyncInv /\ Covers(policies[n], dbRules)
    BY DEF AllThreads, SingleInv
  <2>3. /\ job[n][t] \in Job
        /\ policies \in [Nodes -> SUBSET PolicyRow] /\ rules \in [Nodes -> SUBSET RuleRow]
    BY <2>2 DEF SyncInv, TypeInv, TypeOK
  <2>4. row \in RuleRow
    BY <2>1, <2>2 DEF SyncInv, TypeInv, Subjects
  <2> QED
    BY <2>1, <2>2, <2>3, <2>4
<1>2. policyLock[n] = t
  BY <1>1 DEF SyncInv, LocksHeld, HoldsOf, WithPolicies
<1>3. \A u \in Threads : u # t => At(n, u) # "save"
  BY <1>1, <1>2, HolderIsAlone
<1>4. policies'[n] = P /\ UNCHANGED db
  BY <1>1 DEF Insert
<1>5. Covers(P, dbRules) /\ Covers(P, {row})
  BY <1>1 DEF Covers, WithOne
<1>6. dbRules \subseteq S /\ UniquePairs(S) /\ ~HasCycle(S)
  BY <1>5, PoliciesReplaced
<1>7. Covers(policies[n], dbRules)' /\ DbShrinks
  BY <1>4, <1>5 DEF Covers, DbShrinks, db
<1>8. CASE /\ Accepted(row, S) /\ rules' = [rules EXCEPT ![n] = S \cup {row}]
           /\ Goto(n, t, "save")
  <2> DEFINE j == [job[n][t] EXCEPT !.at = "save"]
  <2>1. j \in Job /\ j.at = "save" /\ j.row = row
    <3>1. "save" \in Place
      BY DEF Place
    <3> QED
      BY <1>1, <3>1, TypeOfJob DEF SyncInv
  <2>2. rules'[n] = S \cup {row}
    BY <1>1, <1>8
  <2>3. Holds(n)'
    BY <1>4, <1>6, <1>8, <2>2 DEF Accepted, Holds, UniquePairs, Pairs, db
  <2>4. job'[n][t] = j
    BY <1>1, <1>8, <2>1, OneThread DEF Goto, SyncInv
  <2>5. Knows(n, t)'
    BY <1>4, <1>5, <2>1, <2>2, <2>4 DEF Knows, At, Row, Covers, db
  <2> QED
    BY <1>1, <1>3, <1>7, <1>8, <2>1, <2>3, <2>5, SingleKept DEF Goto
<1>9. CASE rules' = [rules EXCEPT ![n] = S] /\ Finish(n, t)
  <2>1. Holds(n)'
    BY <1>1, <1>4, <1>6, <1>9 DEF Holds, UniquePairs, HasCycle, Pairs, db
  <2>2. job'[n][t] = Idle
    BY <1>1, <1>9, IdleIsAJob, OneThread DEF Finish, SyncInv
  <2>3. Knows(n, t)'
    BY <2>2, IdleIsAJob DEF Knows, At
  <2> QED
    BY <1>1, <1>3, <1>7, <1>9, <2>1, <2>3, IdleIsAJob, SingleKept DEF Finish
<1> QED
  BY <1>8, <1>9 DEF Insert

\* A synchronization of rules by a thread that holds one of the locks, after which
\* its place is that of j.
LEMMA SingleSync ==
  ASSUME SingleInv, OneEngine, SyncInv', NEW n \in Nodes, NEW t \in AllThreads,
         NEW j \in Job, Become(n, t, j), j.at \in {"insert", "idle"},
         t = Worker => j.at = "idle",
         policyLock[n] = t \/ ruleLock[n] = t,
         NEW seen \in SUBSET RuleRow, dbRules \subseteq seen,
         NEW S \in RulesAfterSync(rules[n], policies[n], seen),
         rules' = [rules EXCEPT ![n] = S], UNCHANGED <<db, policies>>
  PROVE  SingleInv'
<1>1. /\ SyncInv /\ Holds(n) /\ Covers(policies[n], dbRules)
      /\ rules \in [Nodes -> SUBSET RuleRow] /\ dbRules \in SUBSET RuleRow
  BY DEF SingleInv, SyncInv, TypeInv, TypeOK
<1>2. dbRules \subseteq S /\ UniquePairs(S) /\ ~HasCycle(S)
  BY <1>1, SyncKeepsSaved DEF Holds
<1>3. rules'[n] = S
  BY <1>1
<1>4. Holds(n)'
  BY <1>2, <1>3 DEF Holds, UniquePairs, HasCycle, Pairs, db
<1>5. Covers(policies[n], dbRules)' /\ DbShrinks
  BY <1>1 DEF Covers, DbShrinks, db
<1>6. job'[n][t] = j
  BY <1>1, OneThread DEF SyncInv
<1>7. Knows(n, t)'
  BY <1>6 DEF Knows, At
<1>8. \A u \in Threads : u # t => At(n, u) # "save"
  BY <1>1, HolderIsAlone
<1> QED
  BY <1>4, <1>5, <1>7, <1>8, SingleKept

\* A synchronization of policies by the holder of the policies' lock.
LEMMA SinglePolicies ==
  ASSUME SingleInv, OneEngine, SyncInv', NEW n \in Nodes, NEW t \in AllThreads,
         Finish(n, t), policyLock[n] = t, NEW Q, Covers(Q, dbRules),
         SetPolicies(n, Q), UNCHANGED db
  PROVE  SingleInv'
<1> DEFINE S == Remaining(rules[n], policies[n], Q)
<1>1. /\ SyncInv /\ policies \in [Nodes -> SUBSET PolicyRow]
      /\ rules \in [Nodes -> SUBSET RuleRow]
  BY DEF SingleInv, SyncInv, TypeInv, TypeOK
<1>2. dbRules \subseteq S /\ UniquePairs(S) /\ ~HasCycle(S)
  BY PoliciesReplaced
<1>3. rules'[n] = S /\ policies'[n] = Q
  BY <1>1 DEF SetPolicies
<1>4. Holds(n)'
  BY <1>2, <1>3 DEF Holds, UniquePairs, HasCycle, Pairs, db
<1>5. Covers(policies[n], dbRules)' /\ DbShrinks
  BY <1>3 DEF Covers, DbShrinks, db
<1>6. job'[n][t] = Idle /\ Idle \in Job /\ Idle.at = "idle"
  BY <1>1, IdleIsAJob, OneThread DEF Finish, SyncInv
<1>7. Knows(n, t)'
  BY <1>6 DEF Knows, At
<1>8. \A u \in Threads : u # t => At(n, u) # "save"
  BY <1>1, HolderIsAlone
<1> QED
  BY <1>4, <1>5, <1>6, <1>7, <1>8, SingleKept DEF Finish

LEMMA SingleSave ==
  ASSUME SingleInv, OneEngine, SyncInv', NEW n \in Nodes, NEW t \in Threads, Save(n, t)
  PROVE  SingleInv'
<1> USE ConstantsAssumption
<1>1. /\ t \in AllThreads /\ SyncInv /\ At(n, t) = "save" /\ Knows(n, t)
      /\ Holds(n) /\ Covers(policies[n], dbRules) /\ \A m \in Nodes : m = n
  BY DEF AllThreads, SingleInv, Save, Proceed, OneEngine
<1>2. policyLock[n] = t /\ ruleLock[n] = t
  BY <1>1 DEF SyncInv, LocksHeld, HoldsOf, WithPolicies, WithRules
<1>3. /\ dbRules' = dbRules \cup {Row(n, t)} /\ dbPolicies' = dbPolicies
      /\ rules' = rules /\ policies' = policies
  BY DEF Save, engine
<1>4. Holds(n)' /\ Covers(policies[n], dbRules)'
  BY <1>1, <1>3 DEF Holds, Covers, Knows, UniquePairs, HasCycle, Pairs
<1>5. job'[n][t] = Idle /\ Idle.at = "idle"
      /\ \A u \in AllThreads : u # t => job'[n][u] = job[n][u]
  BY <1>1, IdleIsAJob, OneThread DEF Save, Finish, SyncInv
<1>6. ASSUME NEW u \in AllThreads, u # t
      PROVE  At(n, u) \notin {"save", "one", "policies", "rules", "delete", "unpersist"}
  <2>1. u \in Threads => At(n, u) \notin WithPolicies \cup {"policies", "rules"}
    BY <1>2, <1>6 DEF SingleInv, SyncInv, LocksHeld, HoldsOf
  <2>2. u = Worker => At(n, u) = "idle"
    BY <1>2, <1>6 DEF SingleInv, SyncInv, LocksHeld, WorkerHolds
  <2>3. At(n, u) \notin {"delete", "unpersist"}
    BY DEF SingleInv, Knows
  <2> QED
    BY <2>1, <2>2, <2>3 DEF AllThreads, WithPolicies
<1>7. \A u \in AllThreads : Knows(n, u)'
  BY <1>5, <1>6 DEF Knows, At
<1>8. At(n, Worker)' \in {"idle", "policies", "rules"}
      /\ \A u \in Threads : At(n, u)' \notin {"policies", "rules"}
  BY <1>1, <1>5 DEF SingleInv, At, AllThreads
<1> QED
  BY <1>1, <1>4, <1>7, <1>8 DEF SingleInv

\* A thread that waits for a lock, or finishes, without touching database and engine.
LEMMA SingleMoves ==
  ASSUME SingleInv, OneEngine, SyncInv', NEW n \in Nodes, NEW t \in Threads,
         \/ LockPolicies(n, t) \/ LockRules(n, t) \/ LockTables(n, t) \/ SaveFails(n, t)
  PROVE  SingleInv'
<1>1. t \in AllThreads /\ TypeInv
  BY DEF AllThreads, SingleInv, SyncInv
<1>2. t # Worker
  BY ConstantsAssumption
<1>3. UNCHANGED <<db, engine>>
  BY DEF LockPolicies, LockRules, LockTables, SaveFails
<1>4. CASE Finish(n, t)
  BY <1>1, <1>2, <1>3, <1>4, IdleIsAJob, NothingChanged DEF Finish
<1>5. ASSUME NEW p \in {"wantRules", "wantTables", "locked", "insert"}, Goto(n, t, p)
      PROVE  SingleInv'
  <2> DEFINE j == [job[n][t] EXCEPT !.at = p]
  <2>1. p \in Place
    BY DEF Place
  <2>2. j \in Job /\ j.at = p
    BY <1>1, <2>1, TypeOfJob
  <2>3. Become(n, t, j)
    BY <1>5 DEF Goto
  <2> HIDE DEF j
  <2> QED
    BY <1>1, <1>2, <1>3, <2>2, <2>3, NothingChanged
<1> QED
  BY <1>4, <1>5 DEF LockPolicies, LockRules, LockTables, SaveFails

LEMMA SingleWork ==
  ASSUME SingleInv, OneEngine, SyncInv', NEW n \in Nodes, NEW t \in Threads, Work(n, t)
  PROVE  SingleInv'
<1> USE ConstantsAssumption
<1>1. t \in AllThreads /\ t # Worker /\ SyncInv /\ TypeInv /\ Knows(n, t)
      /\ Holds(n) /\ Covers(policies[n], dbRules)
  BY DEF AllThreads, SingleInv, SyncInv
<1>2. CASE SyncLocked(n, t)
  <2>1. PICK S \in RulesAfterSync(rules[n], policies[n], dbRules) :
           rules' = [rules EXCEPT ![n] = S]
    BY <1>2 DEF SyncLocked
  <2> DEFINE j == [job[n][t] EXCEPT !.at = "insert"]
  <2>2. "insert" \in Place
    BY DEF Place
  <2>3. j \in Job /\ j.at = "insert"
    BY <1>1, <2>2, TypeOfJob
  <2>4. Become(n, t, j) /\ UNCHANGED <<db, policies>> /\ At(n, t) = "locked"
    BY <1>2 DEF SyncLocked, Goto, Proceed
  <2>5. policyLock[n] = t
    BY <1>1, <2>4 DEF SyncInv, LocksHeld, HoldsOf, WithPolicies
  <2>6. dbRules \in SUBSET RuleRow
    BY <1>1 DEF TypeInv, TypeOK
  <2> HIDE DEF j
  <2> QED
    BY <1>1, <2>1, <2>3, <2>4, <2>5, <2>6, SingleSync
<1>3. ~DeleteFromEngine(n, t) /\ ~DeleteFromDb(n, t)
  BY <1>1 DEF Knows, DeleteFromEngine, DeleteFromDb, Proceed
<1>4. CASE SyncOneRead(n, t)
  <2> DEFINE j == [job[n][t] EXCEPT !.at = "one", !.sawPolicies = dbPolicies]
  <2>1. job[n][t] \in Job /\ dbPolicies \subseteq PolicyRow
    BY <1>1 DEF TypeInv, TypeOK, AllThreads
  <2>2. j \in Job /\ j.at = "one" /\ j.sawPolicies = dbPolicies
    BY <2>1 DEF Job, Place
  <2>3. Become(n, t, j) /\ UNCHANGED <<db, engine>>
    BY <1>4 DEF SyncOneRead
  <2>4. job'[n][t] = j
    BY <1>1, <2>2, <2>3, OneThread
  <2>5. Holds(n)' /\ Covers(policies[n], dbRules)' /\ DbShrinks
    BY <1>1, <2>3 DEF Holds, Covers, DbShrinks, db, engine
  <2>6. Knows(n, t)'
    BY <2>2, <2>3, <2>4 DEF Knows, At, Covers, db
  <2> HIDE DEF j
  <2> QED
    BY <1>1, <2>2, <2>3, <2>5, <2>6, SingleKept
<1>5. CASE SyncOneApply(n, t)
  <2> DEFINE Q == WithOne(policies[n], Row(n, t).policy, job[n][t].sawPolicies)
  <2>1. At(n, t) = "one" /\ Finish(n, t) /\ SetPolicies(n, Q) /\ UNCHANGED db
    BY <1>5 DEF SyncOneApply, Proceed
  <2>2. policyLock[n] = t
    BY <1>1, <2>1 DEF SyncInv, LocksHeld, HoldsOf, WithPolicies
  <2>3. Covers(job[n][t].sawPolicies, dbRules)
    BY <1>1, <2>1 DEF Knows
  <2>4. Covers(Q, dbRules)
    BY <1>1, <2>3 DEF Covers, WithOne
  <2> HIDE DEF Q
  <2> QED
    BY <1>1, <2>1, <2>2, <2>4, SinglePolicies
<1>6. CASE Insert(n, t)
  BY <1>6, SingleInsert
<1>7. CASE Save(n, t)
  BY <1>7, SingleSave
<1> QED
  BY <1>2, <1>3, <1>4, <1>5, <1>6, <1>7, SingleMoves DEF Work

LEMMA SinglePeriodic ==
  ASSUME SingleInv, OneEngine, SyncInv', NEW n \in Nodes, Periodic(n)
  PROVE  SingleInv'
<1> USE ConstantsAssumption
<1>1. Worker \in AllThreads /\ Worker \notin Threads /\ SyncInv /\ TypeInv
      /\ Knows(n, Worker) /\ Holds(n) /\ Covers(policies[n], dbRules)
  BY DEF AllThreads, SingleInv, SyncInv
<1>2. ASSUME NEW j \in Job, Become(n, Worker, j), UNCHANGED <<db, engine>>,
             \/ j.at = "policies" /\ j.sawPolicies = dbPolicies
             \/ j.at = "rules" /\ j.sawRules = dbRules
      PROVE  SingleInv'
  <2>1. job'[n][Worker] = j
    BY <1>1, <1>2, OneThread
  <2>2. Holds(n)' /\ Covers(policies[n], dbRules)' /\ DbShrinks
    BY <1>1, <1>2 DEF Holds, Covers, DbShrinks, db, engine
  <2>3. Knows(n, Worker)'
    BY <1>2, <2>1 DEF Knows, At, Covers, db
  <2> QED
    BY <1>1, <1>2, <2>2, <2>3, SingleKept
<1>3. CASE SyncPoliciesRead(n)
  <2> DEFINE j == [Idle EXCEPT !.at = "policies", !.sawPolicies = dbPolicies]
  <2>1. j \in Job /\ j.at = "policies" /\ j.sawPolicies = dbPolicies
    BY <1>1, IdleIsAJob DEF Idle, Job, Place, TypeInv, TypeOK
  <2>2. Become(n, Worker, j) /\ UNCHANGED <<db, engine>>
    BY <1>3 DEF SyncPoliciesRead
  <2> HIDE DEF j
  <2> QED
    BY <1>2, <2>1, <2>2
<1>4. CASE SyncRulesRead(n)
  <2> DEFINE j == [Idle EXCEPT !.at = "rules", !.sawRules = dbRules]
  <2>1. j \in Job /\ j.at = "rules" /\ j.sawRules = dbRules
    BY <1>1, IdleIsAJob DEF Idle, Job, Place, TypeInv, TypeOK
  <2>2. Become(n, Worker, j) /\ UNCHANGED <<db, engine>>
    BY <1>4 DEF SyncRulesRead
  <2> HIDE DEF j
  <2> QED
    BY <1>2, <2>1, <2>2
<1>5. CASE SyncPoliciesApply(n)
  <2> DEFINE Q == job[n][Worker].sawPolicies
  <2>1. At(n, Worker) = "policies" /\ Finish(n, Worker) /\ SetPolicies(n, Q) /\ UNCHANGED db
    BY <1>5 DEF SyncPoliciesApply, Proceed
  <2>2. policyLock[n] = Worker /\ Covers(Q, dbRules)
    BY <1>1, <2>1 DEF SyncInv, LocksHeld, WorkerHolds, Knows
  <2> HIDE DEF Q
  <2> QED
    BY <1>1, <2>1, <2>2, SinglePolicies
<1>6. CASE SyncRulesApply(n)
  <2> DEFINE seen == job[n][Worker].sawRules
  <2>1. PICK S \in RulesAfterSync(rules[n], policies[n], seen) : rules' = [rules EXCEPT ![n] = S]
    BY <1>6 DEF SyncRulesApply
  <2>2. At(n, Worker) = "rules" /\ Become(n, Worker, Idle) /\ UNCHANGED <<db, policies>>
    BY <1>6 DEF SyncRulesApply, Proceed, Finish
  <2>3. ruleLock[n] = Worker /\ dbRules \subseteq seen
    BY <1>1, <2>2 DEF SyncInv, LocksHeld, WorkerHolds, Knows
  <2>4. seen \in SUBSET RuleRow
    BY <1>1, TypeOfJob DEF Place
  <2> HIDE DEF seen
  <2> QED
    BY <1>1, <2>1, <2>2, <2>3, <2>4, IdleIsAJob, SingleSync
<1> QED
  BY <1>3, <1>4, <1>5, <1>6 DEF Periodic

\* The database of one engine has no two rows for one rule: a restart loads them all.
LEMMA SingleRestart ==
  ASSUME SingleInv, OneEngine, SyncInv', NEW n \in Nodes, Restart(n)
  PROVE  SingleInv'
<1>1. SyncInv /\ TypeInv /\ Holds(n) /\ \A m \in Nodes : m = n
  BY DEF SingleInv, SyncInv, OneEngine
<1>2. PICK S \in SUBSET dbRules :
         /\ Pairs(S) = Pairs(dbRules)
         /\ \A a, b \in S : Pair(a) = Pair(b) => a = b
         /\ rules' = [rules EXCEPT ![n] = S]
  BY DEF Restart
<1>3. UniquePairs(dbRules) /\ ~HasCycle(dbRules)
  BY <1>1, FewerRules DEF Holds
<1>4. S = dbRules
  BY <1>2, <1>3 DEF UniquePairs, Pairs
<1>5. rules'[n] = dbRules /\ policies'[n] = dbPolicies /\ dbRules' = dbRules
      /\ dbPolicies' = dbPolicies
  BY <1>1, <1>2, <1>4 DEF Restart, TypeInv, TypeOK, db
<1>6. Holds(n)' /\ Covers(policies[n], dbRules)'
  BY <1>3, <1>5 DEF Holds, Covers, UniquePairs, HasCycle, Pairs
<1>7. \A t \in AllThreads : job'[n][t] = Idle
  BY <1>1 DEF Restart, TypeInv, TypeOK, AllThreads
<1>8. \A t \in AllThreads : Knows(n, t)' /\ At(n, t)' = "idle"
  BY <1>7, IdleIsAJob DEF Knows, At
<1> QED
  BY <1>1, <1>6, <1>8 DEF SingleInv, AllThreads

LEMMA SingleStep == OneEngine /\ SingleInv /\ [Next]_vars => SingleInv'
<1> SUFFICES ASSUME OneEngine, SingleInv, [Next]_vars PROVE SingleInv'
  OBVIOUS
<1>1. SyncInv'
  BY SyncStep DEF SingleInv
<1>2. CASE UNCHANGED vars
  BY <1>1, <1>2 DEF vars, db, engine, SingleInv, Holds, Covers, Knows, UniquePairs,
                    HasCycle, Pairs, At, Row
<1> QED
  BY <1>1, <1>2, SingleRequests, SingleWork, SinglePeriodic, SingleRestart DEF Next

-----------------------------------------------------------------------------
LEMMA SingleInvariant == OneEngine /\ Spec => []SingleInv
<1>1. OneEngine /\ Init => SingleInv
  BY SingleInit
<1>2. OneEngine /\ SingleInv /\ [Next]_vars => SingleInv'
  BY SingleStep
<1>3. ASSUME OneEngine PROVE Spec => []SingleInv
  BY <1>1, <1>2, <1>3, PTL DEF Spec
<1> QED
  BY <1>3

\* Enforced always holds with one engine: whatever interleaving of requests,
\* synchronizations, failures of the database and restarts, every saved rule is in
\* the engine.
THEOREM SavedRulesAreEnforced == ASSUME OneEngine PROVE Spec => []Enforced
<1>1. SingleInv => Enforced
  BY DEF SingleInv, Enforced, Holds, Pairs
<1> QED
  BY <1>1, SingleInvariant, PTL

\* NoDuplicates always holds with one engine.
THEOREM SavedOnce == ASSUME OneEngine PROVE Spec => []NoDuplicates
<1>1. SingleInv => NoDuplicates
  BY DEF SingleInv, NoDuplicates, OneEngine, Holds, UniquePairs
<1> QED
  BY <1>1, SingleInvariant, PTL

\* NoCycleSaved always holds with one engine: no two inserts, each of them harmless,
\* save rules that are recursive together.
THEOREM NoRecursionSaved == ASSUME OneEngine PROVE Spec => []NoCycleSaved
<1>1. SingleInv => NoCycleSaved
  BY FewerRules DEF SingleInv, NoCycleSaved, OneEngine, Holds
<1> QED
  BY <1>1, SingleInvariant, PTL

-----------------------------------------------------------------------------
(***************************************************************************)
(* Replicated engines, on any number of nodes, whose users insert rules    *)
(* into one policy, and a database that takes what it is given.  Each of   *)
(* these is needed: with failures, deletions, a second policy or one that  *)
(* comes and goes, an engine that checks a new rule may not have exactly   *)
(* the saved ones.                                                         *)
(***************************************************************************)
Replicas ==
  /\ Replicated /\ ~DbFails
  /\ Operations \subseteq {"insert"}
  /\ \A p1, p2 \in Policies : p1 = p2
  /\ {} \notin Recursive

\* Between its synchronization and its commit, an insert has an engine with exactly
\* the saved rules, and then its own; nobody deletes.
Inserting(n, t) ==
  /\ At(n, t) = "insert" => rules[n] = dbRules
  /\ At(n, t) = "save" => /\ rules[n] = dbRules \cup {Row(n, t)}
                          /\ UniquePairs(rules[n]) /\ ~HasCycle(rules[n])
  /\ At(n, t) \in {"idle", "wantPolicies"} \cup WithRules \cup {"wantRules"}

\* The periodic worker has read what is saved still.
Reading(n) ==
  /\ At(n, Worker) \in {"idle", "policies", "rules"}
  /\ At(n, Worker) = "policies" => job[n][Worker].sawPolicies = dbPolicies
  /\ At(n, Worker) = "rules" => job[n][Worker].sawRules \subseteq dbRules

\* Only an insert that is about to commit has a rule that is not saved.
Behind(n) == (\A t \in Threads : At(n, t) # "save") => rules[n] \subseteq dbRules

ReplicaInv ==
  /\ SyncInv
  /\ UniquePairs(dbRules) /\ ~HasCycle(dbRules)
  /\ \A n \in Nodes : /\ policies[n] = dbPolicies /\ Behind(n) /\ Reading(n)
                      /\ \A t \in Threads : Inserting(n, t)

\* With one policy, a synchronization brings an engine no rule that is not saved.
LEMMA SyncAddsSaved ==
  ASSUME Replicas, NEW R \in SUBSET RuleRow, NEW S \in SUBSET R, NEW seen \in SUBSET R, NEW P,
         NEW T \in RulesAfterSync(S, P, seen)
  PROVE  T \subseteq R
<1> DEFINE I == Inserted(S, seen)
           D == Surplus(S, seen)
<1>1. T = S \/ \E f \in Firsts(I) : T = Batch(S, I, D, f)
  BY DEF RulesAfterSync
<1>2. I \subseteq R /\ D \subseteq R
  BY DEF Inserted, Missing, Surplus
<1>3. ASSUME NEW f \in Firsts(I), NEW p \in {row.policy : row \in I \cup D}, NEW r \in DOMAIN f
      PROVE  Subject(p, r, f[r]) \in R
  <2>1. PICK row \in I : row.rule = r /\ row.id = f[r]
    BY DEF Firsts
  <2>2. row.policy = p
    BY <1>2 DEF Replicas, RuleRow
  <2>3. row = Subject(p, r, f[r])
    BY <1>2, <2>1, <2>2 DEF Subject, RuleRow
  <2> QED
    BY <1>2, <2>1, <2>3
<1> HIDE DEF I, D
<1> QED
  BY <1>1, <1>3 DEF Batch

\* A synchronization with the saved rules, by an engine that has no others, ends
\* with the saved rules.
LEMMA SyncCatchesUp ==
  ASSUME Replicas, NEW R \in SUBSET RuleRow, NEW S \in SUBSET R, NEW P,
         UniquePairs(R), ~HasCycle(R), \A row \in R : row.policy \in Names(P),
         NEW T \in RulesAfterSync(S, P, R)
  PROVE  T = R
<1> DEFINE I == Inserted(S, R)
           D == Surplus(S, R)
<1>1. D = {}
  BY DEF Surplus, Matches
<1>2. I = R \ S
  <2>1. Missing(S, R) = R \ S
    BY DEF Missing, Matches, UniquePairs
  <2>2. \A row \in R \ S : Pair(row) \notin Pairs(S)
    BY DEF Pairs, UniquePairs
  <2> QED
    BY <2>1, <2>2 DEF Inserted
<1>3. ASSUME NEW f \in Firsts(I)
      PROVE  Batch(S, I, D, f) = R
  <2> DEFINE targets == {row.policy : row \in I \cup D}
             new == {Subject(p, r, f[r]) : p \in targets, r \in DOMAIN f}
  <2>1. Batch(S, I, D, f) = S \cup {e \in new : Pair(e) \notin Pairs(S)}
    BY <1>1 DEF Batch
  <2>2. new \subseteq R
    <3> SUFFICES ASSUME NEW p \in targets, NEW r \in DOMAIN f PROVE Subject(p, r, f[r]) \in R
      OBVIOUS
    <3>1. PICK row \in I : row.rule = r /\ row.id = f[r]
      BY DEF Firsts
    <3>2. row \in RuleRow /\ row.policy = p
      BY <1>1, <1>2 DEF Replicas, RuleRow
    <3>3. row = Subject(p, r, f[r])
      BY <3>1, <3>2 DEF Subject, RuleRow
    <3> QED
      BY <1>2, <3>1, <3>3
  <2>3. ASSUME NEW row \in R \ S
        PROVE  row \in new /\ Pair(row) \notin Pairs(S)
    <3>1. row.rule \in DOMAIN f /\ row.policy \in targets /\ row \in RuleRow
      BY <1>2 DEF Firsts
    <3>2. PICK other \in I : other.rule = row.rule /\ other.id = f[row.rule]
      BY <3>1 DEF Firsts
    <3>3. other = row
      <4>1. other \in R /\ other \in RuleRow
        BY <1>2
      <4>2. other.policy = row.policy
        BY <3>1, <4>1 DEF Replicas, RuleRow
      <4> QED
        BY <3>2, <4>1, <4>2 DEF UniquePairs, Pair
    <3>4. row = Subject(row.policy, row.rule, f[row.rule])
      BY <3>1, <3>2, <3>3 DEF Subject, RuleRow
    <3> QED
      BY <1>2, <3>1, <3>4 DEF Inserted
  <2> QED
    BY <2>1, <2>2, <2>3
<1>4. ~(\E row \in Missing(S, R) : row.policy \notin Names(P))
  BY DEF Missing
<1>5. ~HasCycle((S \ D) \cup I)
  <2>1. (S \ D) \cup I = R
    BY <1>1, <1>2
  <2> QED
    BY <2>1
<1>6. \E f \in Firsts(I) : T = Batch(S, I, D, f)
  BY <1>4, <1>5 DEF RulesAfterSync
<1> HIDE DEF I, D
<1> QED
  BY <1>3, <1>6

\* Who holds a lock is the only one to hold it: nobody else of the node is between
\* the locks, nobody at all between synchronization and commit.
LEMMA InsertsAlone ==
  ASSUME SyncInv, NEW n \in Nodes, NEW t \in Threads
  PROVE  /\ At(n, t) \in WithTables =>
               \A m \in Nodes : \A u \in Threads : m # n \/ u # t => At(m, u) \notin WithTables
         /\ At(n, t) \in WithTables => At(n, Worker) \notin {"policies", "rules"}
<1> USE ConstantsAssumption
<1>1. \A m \in Nodes : \A u \in Threads : HoldsOf(m, u)
  BY DEF SyncInv, LocksHeld
<1>2. WorkerHolds(n)
  BY DEF SyncInv, LocksHeld
<1>3. At(n, t) \in WithTables => policyLock[n] = t /\ ruleLock[n] = t /\ tableLock = <<n, t>>
  BY <1>1 DEF HoldsOf, WithPolicies, WithRules, WithTables
<1>4. \A m \in Nodes : \A u \in Threads : At(m, u) \in WithTables => tableLock = <<m, u>>
  BY <1>1 DEF HoldsOf
<1> QED
  BY <1>2, <1>3, <1>4 DEF WorkerHolds

LEMMA ReplicaInit == Replicas /\ Init => ReplicaInv
<1> SUFFICES ASSUME Replicas, Init PROVE ReplicaInv
  OBVIOUS
<1>1. \A n \in Nodes : \A t \in AllThreads : At(n, t) = "idle"
  BY IdleIsAJob DEF Init, At, AllThreads
<1>2. UniquePairs(dbRules) /\ ~HasCycle(dbRules)
  BY DEF Init, UniquePairs, HasCycle, Pairs, Replicas
<1>3. \A n \in Nodes : policies[n] = dbPolicies /\ Behind(n)
  BY DEF Init, Behind
<1>4. \A n \in Nodes : Reading(n) /\ \A t \in Threads : Inserting(n, t)
  BY <1>1 DEF Reading, Inserting, AllThreads
<1> QED
  BY <1>2, <1>3, <1>4, SyncInit DEF ReplicaInv

\* A step of a thread that changes neither engine nor database and is not in the
\* middle of an insert.
LEMMA ReplicaQuiet ==
  ASSUME Replicas, ReplicaInv, SyncInv', UNCHANGED <<db, engine>>,
         NEW n \in Nodes, NEW t \in AllThreads, NEW j \in Job, Become(n, t, j),
         At(n, t) # "save",
         t \in Threads => j.at \in {"idle", "wantPolicies", "wantRules", "wantTables", "locked"},
         t = Worker => /\ j.at \in {"idle", "policies", "rules"}
                       /\ j.at = "policies" => j.sawPolicies = dbPolicies
                       /\ j.at = "rules" => j.sawRules \subseteq dbRules
  PROVE  ReplicaInv'
<1> USE ConstantsAssumption
<1>1. job'[n][t] = j /\ \A m \in Nodes : \A u \in AllThreads : m # n \/ u # t => job'[m][u] = job[m][u]
  BY OneThread DEF ReplicaInv, SyncInv
<1>2. /\ dbRules' = dbRules /\ dbPolicies' = dbPolicies /\ rules' = rules /\ policies' = policies
  BY DEF db, engine
<1>3. UniquePairs(dbRules)' /\ ~HasCycle(dbRules)'
  BY <1>2 DEF ReplicaInv
<1>4. ASSUME NEW m \in Nodes
      PROVE  policies'[m] = dbPolicies' /\ Behind(m)' /\ Reading(m)' /\ \A u \in Threads : Inserting(m, u)'
  <2>1. policies[m] = dbPolicies /\ Behind(m) /\ Reading(m) /\ \A u \in Threads : Inserting(m, u)
    BY DEF ReplicaInv
  <2>2. ASSUME NEW u \in AllThreads
        PROVE  job'[m][u] = job[m][u] \/ (m = n /\ u = t /\ job'[m][u] = j)
    BY <1>1
  <2>3. Behind(m)'
    <3>1. \A u \in Threads : At(m, u) = "save" => At(m, u)' = "save"
      BY <2>2 DEF At, AllThreads
    <3> QED
      BY <1>2, <2>1, <3>1 DEF Behind
  <2>4. Reading(m)'
    BY <1>2, <2>1, <2>2 DEF Reading, At, AllThreads
  <2>5. ASSUME NEW u \in Threads PROVE Inserting(m, u)'
    <3>1. CASE job'[m][u] = job[m][u]
      BY <1>2, <2>1, <3>1 DEF Inserting, At, Row
    <3>2. CASE u = t /\ job'[m][u] = j
      BY <3>2 DEF Inserting, At, WithRules
    <3> QED
      BY <2>2, <3>1, <3>2 DEF AllThreads
  <2> QED
    BY <1>2, <2>1, <2>3, <2>4, <2>5
<1> QED
  BY <1>3, <1>4 DEF ReplicaInv

\* A step of a thread that changes the rules of its engine, and not the database,
\* while no other thread of the node is inserting.
LEMMA ReplicaEngine ==
  ASSUME Replicas, ReplicaInv, SyncInv', UNCHANGED <<db, policies>>,
         NEW n \in Nodes, NEW t \in AllThreads, NEW j \in Job, Become(n, t, j),
         NEW S, rules' = [rules EXCEPT ![n] = S],
         \A u \in Threads : u # t => At(n, u) \notin {"insert", "save"},
         j.at # "save" => S \subseteq dbRules,
         t = Worker => j.at = "idle",
         t \in Threads =>
           /\ j.at \in {"idle", "insert", "save"}
           /\ j.at = "insert" => S = dbRules
           /\ j.at = "save" => S = dbRules \cup {j.row} /\ UniquePairs(S) /\ ~HasCycle(S)
  PROVE  ReplicaInv'
<1> USE ConstantsAssumption
<1>1. job'[n][t] = j /\ \A m \in Nodes : \A u \in AllThreads : m # n \/ u # t => job'[m][u] = job[m][u]
  BY OneThread DEF ReplicaInv, SyncInv
<1>2. dbRules' = dbRules /\ dbPolicies' = dbPolicies /\ policies' = policies
  BY DEF db
<1>3. rules'[n] = S /\ \A m \in Nodes : m # n => rules'[m] = rules[m]
  BY DEF ReplicaInv, SyncInv, TypeInv, TypeOK
<1>4. UniquePairs(dbRules)' /\ ~HasCycle(dbRules)'
  BY <1>2 DEF ReplicaInv
<1>5. ASSUME NEW m \in Nodes
      PROVE  policies'[m] = dbPolicies' /\ Behind(m)' /\ Reading(m)' /\ \A u \in Threads : Inserting(m, u)'
  <2>1. policies[m] = dbPolicies /\ Behind(m) /\ Reading(m) /\ \A u \in Threads : Inserting(m, u)
    BY DEF ReplicaInv
  <2>2. Reading(m)'
    <3>1. Worker \in AllThreads /\ (job'[m][Worker] = job[m][Worker] \/ (t = Worker /\ job'[m][Worker] = j))
      BY <1>1 DEF AllThreads
    <3> QED
      BY <1>2, <2>1, <3>1 DEF Reading, At
  <2>3. CASE m # n
    <3>1. \A u \in Threads : job'[m][u] = job[m][u]
      BY <1>1, <2>3 DEF AllThreads
    <3>2. rules'[m] = rules[m]
      BY <1>3, <2>3
    <3>3. Behind(m)'
      BY <1>2, <2>1, <3>1, <3>2 DEF Behind, At
    <3>4. \A u \in Threads : Inserting(m, u)'
      BY <1>2, <2>1, <3>1, <3>2 DEF Inserting, At, Row
    <3> QED
      BY <1>2, <2>1, <2>2, <3>3, <3>4
  <2>4. CASE m = n
    <3>1. Behind(m)'
      BY <1>1, <1>2, <1>3, <2>1, <2>4 DEF Behind, At, AllThreads
    <3>2. ASSUME NEW u \in Threads PROVE Inserting(m, u)'
      <4>1. CASE u = t
        BY <1>1, <1>2, <1>3, <2>4, <4>1 DEF Inserting, At, Row, WithRules
      <4>2. CASE u # t
        <5>1. job'[n][u] = job[n][u]
          BY <1>1, <4>2 DEF AllThreads
        <5> QED
          BY <2>1, <2>4, <4>2, <5>1 DEF Inserting, At
      <4> QED
        BY <4>1, <4>2
    <3> QED
      BY <1>2, <2>1, <2>2, <3>1, <3>2
  <2> QED
    BY <2>3, <2>4
<1> QED
  BY <1>4, <1>5 DEF ReplicaInv

\* What the synchronization of an insert leaves in the engine.
LEMMA SyncedUnderLock ==
  ASSUME Replicas, ReplicaInv, NEW n \in Nodes, NEW t \in Threads, SyncLocked(n, t)
  PROVE  rules' = [rules EXCEPT ![n] = dbRules] /\ rules'[n] = dbRules
<1>1. At(n, t) = "locked" /\ SyncInv /\ policies[n] = dbPolicies /\ Behind(n)
  BY DEF SyncLocked, Proceed, ReplicaInv
<1>2. rules[n] \subseteq dbRules
  BY <1>1, InsertsAlone DEF Behind, WithTables
<1>3. PICK S \in RulesAfterSync(rules[n], policies[n], dbRules) : rules' = [rules EXCEPT ![n] = S]
  BY DEF SyncLocked
<1>4. dbRules \in SUBSET RuleRow /\ rules \in [Nodes -> SUBSET RuleRow]
  BY <1>1 DEF SyncInv, TypeInv, TypeOK
<1>5. S = dbRules
  BY <1>1, <1>2, <1>4, SyncCatchesUp DEF ReplicaInv, SyncInv, NoOrphans
<1> QED
  BY <1>3, <1>4, <1>5

LEMMA ReplicaSyncLocked ==
  ASSUME Replicas, ReplicaInv, SyncInv', NEW n \in Nodes, NEW t \in Threads, SyncLocked(n, t)
  PROVE  ReplicaInv'
<1> DEFINE j == [job[n][t] EXCEPT !.at = "insert"]
<1>1. At(n, t) = "locked" /\ SyncInv /\ t \in AllThreads /\ t # Worker
  BY ConstantsAssumption DEF SyncLocked, Proceed, ReplicaInv, AllThreads
<1>2. j \in Job /\ j.at = "insert"
  <2>1. "insert" \in Place
    BY DEF Place
  <2> QED
    BY <1>1, <2>1, TypeOfJob DEF SyncInv
<1>3. \A u \in Threads : u # t => At(n, u) \notin {"insert", "save"}
  BY <1>1, InsertsAlone DEF WithTables
<1>4. Become(n, t, j) /\ UNCHANGED <<db, policies>>
  BY DEF SyncLocked, Goto
<1> HIDE DEF j
<1> QED
  BY <1>1, <1>2, <1>3, <1>4, SyncedUnderLock, ReplicaEngine

LEMMA ReplicaInsert ==
  ASSUME Replicas, ReplicaInv, SyncInv', NEW n \in Nodes, NEW t \in Threads, Insert(n, t)
  PROVE  ReplicaInv'
<1> DEFINE row == Row(n, t)
           P == WithOne(policies[n], row.policy, dbPolicies)
           S == Remaining(rules[n], policies[n], P)
<1>1. At(n, t) = "insert" /\ SyncInv /\ t \in AllThreads /\ t # Worker
      /\ policies[n] = dbPolicies /\ rules[n] = dbRules
      /\ policies \in [Nodes -> SUBSET PolicyRow] /\ rules \in [Nodes -> SUBSET RuleRow]
  <2>1. At(n, t) = "insert" /\ SyncInv /\ t \in AllThreads /\ t # Worker
    BY ConstantsAssumption DEF Insert, Proceed, ReplicaInv, AllThreads
  <2>2. policies[n] = dbPolicies /\ rules[n] = dbRules
    BY <2>1 DEF ReplicaInv, Inserting
  <2> QED
    BY <2>1, <2>2 DEF SyncInv, TypeInv, TypeOK
<1>2. P = dbPolicies
  BY <1>1 DEF WithOne
<1>3. S = dbRules
  BY <1>1, <1>2 DEF Remaining, SyncInv, NoOrphans
<1>4. policies' = policies /\ UNCHANGED db
  BY <1>1, <1>2 DEF Insert
<1>5. \A u \in Threads : u # t => At(n, u) \notin {"insert", "save"}
  BY <1>1, InsertsAlone DEF WithTables
<1>6. CASE /\ Accepted(row, S) /\ rules' = [rules EXCEPT ![n] = S \cup {row}]
           /\ Goto(n, t, "save")
  <2> DEFINE j == [job[n][t] EXCEPT !.at = "save"]
             T == dbRules \cup {row}
  <2>1. j \in Job /\ j.at = "save" /\ j.row = row
    <3>1. "save" \in Place
      BY DEF Place
    <3> QED
      BY <1>1, <3>1, TypeOfJob DEF SyncInv
  <2>2. UniquePairs(T)
    BY <1>3, <1>6 DEF Accepted, UniquePairs, Pairs, ReplicaInv
  <2>3. ~HasCycle(T)
    BY <1>3, <1>6 DEF Accepted
  <2>4. Become(n, t, j) /\ rules' = [rules EXCEPT ![n] = T]
    BY <1>3, <1>6 DEF Goto
  <2>5. T = dbRules \cup {j.row}
    BY <2>1
  <2> HIDE DEF j, T
  <2> QED
    BY <1>1, <1>4, <1>5, <2>1, <2>2, <2>3, <2>4, <2>5, ReplicaEngine
<1>7. CASE rules' = [rules EXCEPT ![n] = S] /\ Finish(n, t)
  BY <1>1, <1>3, <1>4, <1>5, <1>7, IdleIsAJob, ReplicaEngine DEF Finish
<1> QED
  BY <1>6, <1>7 DEF Insert

LEMMA ReplicaSave ==
  ASSUME Replicas, ReplicaInv, SyncInv', NEW n \in Nodes, NEW t \in Threads, Save(n, t)
  PROVE  ReplicaInv'
<1> USE ConstantsAssumption
<1>1. At(n, t) = "save" /\ SyncInv /\ t \in AllThreads /\ t # Worker /\ Inserting(n, t)
  BY DEF Save, Proceed, ReplicaInv, AllThreads
<1>2. dbRules' = rules[n] /\ dbRules \subseteq dbRules' /\ dbPolicies' = dbPolicies
      /\ rules' = rules /\ policies' = policies
  BY <1>1 DEF Save, Inserting, engine
<1>3. UniquePairs(dbRules)' /\ ~HasCycle(dbRules)'
  BY <1>1, <1>2 DEF Inserting, UniquePairs, HasCycle
<1>4. job'[n][t] = Idle /\ Idle.at = "idle"
      /\ \A m \in Nodes : \A u \in AllThreads : m # n \/ u # t => job'[m][u] = job[m][u]
  BY <1>1, IdleIsAJob, OneThread DEF Save, Finish, SyncInv
<1>5. \A m \in Nodes : \A u \in Threads : m # n \/ u # t => At(m, u) \notin {"locked", "insert", "save"}
  BY <1>1, InsertsAlone DEF WithTables
<1>6. ASSUME NEW m \in Nodes
      PROVE  policies'[m] = dbPolicies' /\ Behind(m)' /\ Reading(m)' /\ \A u \in Threads : Inserting(m, u)'
  <2>1. policies[m] = dbPolicies /\ Behind(m) /\ Reading(m) /\ \A u \in Threads : Inserting(m, u)
    BY DEF ReplicaInv
  <2>2. Reading(m)'
    <3>1. Worker \in AllThreads /\ job'[m][Worker] = job[m][Worker]
      BY <1>1, <1>4 DEF AllThreads
    <3> QED
      BY <1>2, <2>1, <3>1 DEF Reading, At
  <2>3. Behind(m)'
    <3>1. CASE m = n
      BY <1>2, <3>1 DEF Behind
    <3>2. CASE m # n
      <4>1. rules[m] \subseteq dbRules
        BY <1>5, <2>1, <3>2 DEF Behind
      <4> QED
        BY <1>2, <4>1 DEF Behind
    <3> QED
      BY <3>1, <3>2
  <2>4. ASSUME NEW u \in Threads PROVE Inserting(m, u)'
    <3>1. CASE m = n /\ u = t
      BY <1>4, <3>1 DEF Inserting, At
    <3>2. CASE m # n \/ u # t
      <4>1. job'[m][u] = job[m][u]
        BY <1>4, <3>2 DEF AllThreads
      <4> QED
        BY <1>5, <2>1, <3>2, <4>1 DEF Inserting, At
    <3> QED
      BY <3>1, <3>2
  <2> QED
    BY <1>2, <2>1, <2>2, <2>3, <2>4
<1> QED
  BY <1>3, <1>6 DEF ReplicaInv

LEMMA ReplicaRequests ==
  ASSUME Replicas, ReplicaInv, SyncInv', NEW n \in Nodes, NEW t \in Threads, UserRequest(n, t)
  PROVE  ReplicaInv'
<1>1. RequestInsert(n, t)
  BY DEF UserRequest, RequestDelete, CreatePolicy, DeletePolicy, Request, Replicas
<1>2. PICK p \in Policies, r \in Rules :
         Become(n, t, [Idle EXCEPT !.at = "wantPolicies", !.row = Subject(p, r, requests')])
  BY <1>1 DEF RequestInsert
<1> DEFINE j == [Idle EXCEPT !.at = "wantPolicies", !.row = Subject(p, r, requests')]
<1>3. requests' \in Id
  BY <1>1, RequestType DEF RequestInsert, ReplicaInv, SyncInv
<1>4. j \in Job /\ j.at = "wantPolicies"
  BY <1>3, IdleIsAJob DEF Idle, Job, Place, Subject
<1>5. t \in AllThreads /\ t # Worker /\ At(n, t) = "idle" /\ UNCHANGED <<db, engine>>
  BY <1>1, ConstantsAssumption DEF AllThreads, RequestInsert, Request
<1>6. Become(n, t, j)
  BY <1>2
<1> HIDE DEF j
<1> QED
  BY <1>4, <1>5, <1>6, ReplicaQuiet

LEMMA ReplicaWork ==
  ASSUME Replicas, ReplicaInv, SyncInv', NEW n \in Nodes, NEW t \in Threads, Work(n, t)
  PROVE  ReplicaInv'
<1>1. t \in AllThreads /\ t # Worker /\ SyncInv /\ TypeInv /\ Inserting(n, t)
  BY ConstantsAssumption DEF AllThreads, ReplicaInv, SyncInv
<1>2. /\ ~SaveFails(n, t) /\ ~DeleteFromEngine(n, t) /\ ~DeleteFromDb(n, t)
      /\ ~SyncOneRead(n, t) /\ ~SyncOneApply(n, t)
  BY <1>1 DEF Replicas, Inserting, WithRules, SaveFails, DeleteFromEngine, DeleteFromDb, SyncOneRead,
              SyncOneApply, Proceed
<1>3. ASSUME NEW p \in {"wantRules", "wantTables", "locked"}, Goto(n, t, p), At(n, t) # "save",
             UNCHANGED <<db, engine>>
      PROVE  ReplicaInv'
  <2> DEFINE j == [job[n][t] EXCEPT !.at = p]
  <2>1. p \in Place
    BY DEF Place
  <2>2. j \in Job /\ j.at = p /\ Become(n, t, j)
    BY <1>1, <1>3, <2>1, TypeOfJob DEF Goto
  <2> HIDE DEF j
  <2> QED
    BY <1>1, <1>3, <2>2, ReplicaQuiet
<1>4. CASE LockPolicies(n, t) \/ LockRules(n, t) \/ LockTables(n, t)
  BY <1>3, <1>4 DEF LockPolicies, LockRules, LockTables, Proceed, Replicas
<1> QED
  BY <1>2, <1>4, ReplicaSyncLocked, ReplicaInsert, ReplicaSave DEF Work

LEMMA ReplicaPeriodic ==
  ASSUME Replicas, ReplicaInv, SyncInv', NEW n \in Nodes, Periodic(n)
  PROVE  ReplicaInv'
<1> USE ConstantsAssumption
<1>1. Worker \in AllThreads /\ Worker \notin Threads /\ SyncInv /\ TypeInv
      /\ policies[n] = dbPolicies /\ Behind(n) /\ Reading(n) /\ WorkerHolds(n)
  BY DEF AllThreads, ReplicaInv, SyncInv, LocksHeld
<1>2. /\ dbPolicies \in SUBSET PolicyRow /\ dbRules \in SUBSET RuleRow
      /\ policies \in [Nodes -> SUBSET PolicyRow] /\ rules \in [Nodes -> SUBSET RuleRow]
  BY <1>1 DEF TypeInv, TypeOK
<1>3. ASSUME At(n, Worker) \in {"policies", "rules"}
      PROVE  /\ \A u \in Threads : At(n, u) \notin {"insert", "save"}
             /\ rules[n] \subseteq dbRules
  BY <1>1, <1>3, InsertsAlone DEF WithTables, Behind
<1>4. CASE SyncPoliciesRead(n)
  <2> DEFINE j == [Idle EXCEPT !.at = "policies", !.sawPolicies = dbPolicies]
  <2>1. j \in Job /\ j.at = "policies" /\ j.sawPolicies = dbPolicies
    BY <1>2, IdleIsAJob DEF Idle, Job, Place
  <2>2. Become(n, Worker, j) /\ UNCHANGED <<db, engine>> /\ At(n, Worker) # "save"
    BY <1>4 DEF SyncPoliciesRead, Proceed
  <2> HIDE DEF j
  <2> QED
    BY <1>1, <2>1, <2>2, ReplicaQuiet
<1>5. CASE SyncRulesRead(n)
  <2> DEFINE j == [Idle EXCEPT !.at = "rules", !.sawRules = dbRules]
  <2>1. j \in Job /\ j.at = "rules" /\ j.sawRules \subseteq dbRules
    BY <1>2, IdleIsAJob DEF Idle, Job, Place
  <2>2. Become(n, Worker, j) /\ UNCHANGED <<db, engine>> /\ At(n, Worker) # "save"
    BY <1>5 DEF SyncRulesRead, Proceed
  <2> HIDE DEF j
  <2> QED
    BY <1>1, <2>1, <2>2, ReplicaQuiet
<1>6. CASE SyncPoliciesApply(n)
  <2>1. At(n, Worker) = "policies" /\ job[n][Worker].sawPolicies = dbPolicies
    BY <1>1, <1>6 DEF SyncPoliciesApply, Proceed, Reading
  <2>2. policies' = policies /\ UNCHANGED db
    BY <1>1, <1>2, <1>6, <2>1 DEF SyncPoliciesApply, SetPolicies
  <2> DEFINE S == Remaining(rules[n], policies[n], job[n][Worker].sawPolicies)
  <2>3. rules' = [rules EXCEPT ![n] = S] /\ S \subseteq rules[n]
    BY <1>6 DEF SyncPoliciesApply, SetPolicies, Remaining
  <2>4. S \subseteq dbRules
    BY <1>3, <2>1, <2>3
  <2>5. Become(n, Worker, Idle)
    BY <1>6 DEF SyncPoliciesApply, Finish
  <2> HIDE DEF S
  <2> QED
    BY <1>1, <1>3, <2>1, <2>2, <2>3, <2>4, <2>5, IdleIsAJob, ReplicaEngine
<1>7. CASE SyncRulesApply(n)
  <2>1. At(n, Worker) = "rules" /\ job[n][Worker].sawRules \subseteq dbRules
    BY <1>1, <1>7 DEF SyncRulesApply, Proceed, Reading
  <2>2. PICK S \in RulesAfterSync(rules[n], policies[n], job[n][Worker].sawRules) :
           rules' = [rules EXCEPT ![n] = S]
    BY <1>7 DEF SyncRulesApply
  <2>3. S \subseteq dbRules
    BY <1>2, <1>3, <2>1, SyncAddsSaved
  <2>4. Become(n, Worker, Idle) /\ UNCHANGED <<db, policies>>
    BY <1>7 DEF SyncRulesApply, Finish
  <2> QED
    BY <1>1, <1>3, <2>1, <2>2, <2>3, <2>4, IdleIsAJob, ReplicaEngine
<1> QED
  BY <1>4, <1>5, <1>6, <1>7 DEF Periodic

LEMMA ReplicaRestart ==
  ASSUME Replicas, ReplicaInv, SyncInv', NEW n \in Nodes, Restart(n)
  PROVE  ReplicaInv'
<1> USE ConstantsAssumption
<1>1. SyncInv /\ TypeInv
  BY DEF ReplicaInv, SyncInv
<1>2. PICK S \in SUBSET dbRules : rules' = [rules EXCEPT ![n] = S]
  BY DEF Restart
<1>3. ASSUME NEW m \in Nodes, NEW t \in AllThreads
      PROVE  job'[m][t] = IF m = n THEN Idle ELSE job[m][t]
  BY <1>1 DEF Restart, TypeInv, TypeOK, AllThreads
<1>4. /\ dbRules' = dbRules /\ dbPolicies' = dbPolicies
      /\ \A m \in Nodes : /\ policies'[m] = IF m = n THEN dbPolicies ELSE policies[m]
                          /\ rules'[m] = IF m = n THEN S ELSE rules[m]
  BY <1>1, <1>2 DEF Restart, TypeInv, TypeOK, db
<1>5. UniquePairs(dbRules)' /\ ~HasCycle(dbRules)'
  BY <1>4 DEF ReplicaInv
<1>6. ASSUME NEW m \in Nodes
      PROVE  policies'[m] = dbPolicies' /\ Behind(m)' /\ Reading(m)' /\ \A u \in Threads : Inserting(m, u)'
  <2>1. policies[m] = dbPolicies /\ Behind(m) /\ Reading(m) /\ \A u \in Threads : Inserting(m, u)
    BY DEF ReplicaInv
  <2>2. CASE m = n
    BY <1>3, <1>4, <2>2, IdleIsAJob DEF Behind, Reading, Inserting, At, AllThreads
  <2>3. CASE m # n
    <3>1. rules'[m] = rules[m] /\ policies'[m] = policies[m] /\ \A u \in AllThreads : job'[m][u] = job[m][u]
      BY <1>3, <1>4, <2>3
    <3>2. Behind(m)' /\ Reading(m)'
      BY <1>4, <2>1, <3>1 DEF Behind, Reading, At, AllThreads
    <3>3. \A u \in Threads : Inserting(m, u)'
      BY <1>4, <2>1, <3>1 DEF Inserting, At, Row, AllThreads
    <3> QED
      BY <1>4, <2>1, <3>1, <3>2, <3>3
  <2> QED
    BY <2>2, <2>3
<1> QED
  BY <1>5, <1>6 DEF ReplicaInv

LEMMA ReplicaStep == Replicas /\ ReplicaInv /\ [Next]_vars => ReplicaInv'
<1> SUFFICES ASSUME Replicas, ReplicaInv, [Next]_vars PROVE ReplicaInv'
  OBVIOUS
<1>1. SyncInv'
  BY SyncStep DEF ReplicaInv
<1>2. CASE UNCHANGED vars
  BY <1>1, <1>2 DEF vars, db, engine, ReplicaInv, Behind, Reading, Inserting, UniquePairs,
                    HasCycle, Pairs, At, Row
<1> QED
  BY <1>1, <1>2, ReplicaRequests, ReplicaWork, ReplicaPeriodic, ReplicaRestart DEF Next

LEMMA ReplicaInvariant == Replicas /\ Spec => []ReplicaInv
<1>1. ASSUME Replicas PROVE Spec => []ReplicaInv
  BY <1>1, ReplicaInit, ReplicaStep, PTL DEF Spec
<1> QED
  BY <1>1

\* NoCycleSaved holds with any number of replicated engines (see Replicas): two
\* nodes never save rules that are recursive together, though each checks a rule
\* against its own engine only.
THEOREM NoRecursionSavedTogether == ASSUME Replicas PROVE Spec => []NoCycleSaved
<1>1. ReplicaInv => NoCycleSaved
  BY DEF ReplicaInv, NoCycleSaved
<1> QED
  BY <1>1, ReplicaInvariant, PTL

\* NoDuplicates holds with any number of replicated engines (see Replicas): two
\* nodes that are asked for the same rule at once do not both save it.
THEOREM SavedOnceTogether == ASSUME Replicas PROVE Spec => []NoDuplicates
<1>1. ReplicaInv => NoDuplicates
  BY DEF ReplicaInv, NoDuplicates, UniquePairs
<1> QED
  BY <1>1, ReplicaInvariant, PTL

\* LatestState holds with any number of replicated engines (see Replicas): under the
\* tables' lock, an engine has exactly the saved rules, whatever stale reading its
\* worker had applied before.
THEOREM StateIsLatest == ASSUME Replicas PROVE Spec => LatestState
<1>1. ReplicaInv /\ [Next]_vars =>
        [\A n \in Nodes : \A t \in Threads :
            At(n, t) = "locked" /\ At(n, t)' = "insert"
              => Pairs(rules'[n]) = Pairs(dbRules)]_vars
  <2> SUFFICES ASSUME ReplicaInv, [Next]_vars, NEW n \in Nodes, NEW t \in Threads,
                      At(n, t) = "locked", At(n, t)' = "insert"
               PROVE  Pairs(rules'[n]) = Pairs(dbRules)
    BY DEF vars
  <2>1. SyncLocked(n, t)
    <3>1. t \in AllThreads /\ t # Worker /\ job \in [Nodes -> [AllThreads -> Job]] /\ job' # job
      BY ConstantsAssumption DEF ReplicaInv, SyncInv, TypeInv, TypeOK, AllThreads, At
    <3>2. ASSUME NEW m \in Nodes, NEW u \in AllThreads, NEW j, Become(m, u, j)
          PROVE  m = n /\ u = t
      BY <3>1, <3>2 DEF Become, At
    <3>3. ASSUME NEW m \in Nodes, Restart(m) PROVE FALSE
      <4>1. job'[n][t] = Idle \/ job'[n][t] = job[n][t]
        BY <3>1, <3>3 DEF Restart, AllThreads
      <4> QED
        BY <4>1, IdleIsAJob DEF At
    <3>4. ASSUME NEW m \in Nodes, NEW u \in Threads, UserRequest(m, u) PROVE FALSE
      <4>1. m = n /\ u = t
        BY <3>2, <3>4 DEF UserRequest, RequestInsert, RequestDelete, CreatePolicy, DeletePolicy, AllThreads
      <4> QED
        BY <3>4, <4>1
           DEF UserRequest, RequestInsert, RequestDelete, CreatePolicy, DeletePolicy, Request
    <3>5. ASSUME NEW m \in Nodes, Periodic(m) PROVE FALSE
      <4>1. Worker \in AllThreads
        BY DEF AllThreads
      <4> QED
        BY <3>1, <3>2, <3>5, <4>1
           DEF Periodic, SyncPoliciesRead, SyncPoliciesApply, SyncRulesRead, SyncRulesApply, Finish
    <3>6. ASSUME NEW m \in Nodes, NEW u \in Threads, Work(m, u) PROVE SyncLocked(n, t)
      <4>1. u \in AllThreads
        BY DEF AllThreads
      <4>2. m = n /\ u = t
        BY <3>2, <3>6, <4>1
           DEF Work, LockPolicies, LockRules, LockTables, SyncLocked, Insert, Save, SaveFails,
               DeleteFromEngine, DeleteFromDb, SyncOneRead, SyncOneApply, Goto, Finish
      <4> QED
        BY <3>6, <4>2
           DEF Work, LockPolicies, LockRules, LockTables, Insert, Save, SaveFails,
               DeleteFromEngine, DeleteFromDb, SyncOneRead, SyncOneApply, Proceed
    <3> QED
      BY <3>1, <3>3, <3>4, <3>5, <3>6 DEF Next, vars
  <2> QED
    BY <2>1, SyncedUnderLock
<1> QED
  BY <1>1, ReplicaInvariant, PTL DEF Spec, LatestState

=============================================================================
