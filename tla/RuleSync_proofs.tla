--------------------------- MODULE RuleSync_proofs ---------------------------
(***************************************************************************)
(* Proofs about RuleSync: its state keeps its shape; no saved rule loses   *)
(* its policy; synchronizations do not undo inserts; and one engine with   *)
(* one policy, whose rules are not deleted singly, has all saved rules.    *)
(***************************************************************************)
EXTENDS RuleSync, TLAPS

AllThreads == Threads \cup {Worker}

\* Inserts and deletions are about a rule.
RulePlaces == {"wantPolicies", "wantRules", "wantTables", "locked", "insert",
               "save", "delete", "unpersist"}
Subjects == \A n \in Nodes : \A t \in AllThreads :
              At(n, t) \in RulePlaces => Row(n, t) \in RuleRow

TypeInv == TypeOK /\ Subjects

\* A step of one thread leaves all others where they are.
LEMMA OneThread ==
  ASSUME TypeInv, NEW n \in Nodes, NEW t \in AllThreads, NEW j \in Job, Become(n, t, j)
  PROVE  /\ job' \in [Nodes -> [AllThreads -> Job]]
         /\ job'[n][t] = j
         /\ \A m \in Nodes : \A u \in AllThreads :
               m # n \/ u # t => job'[m][u] = job[m][u]
<1>1. job \in [Nodes -> [AllThreads -> Job]]
  BY DEF TypeInv, TypeOK, AllThreads
<1> QED
  BY <1>1 DEF Become

\* The subjects of the threads stay rules when one thread takes a job about a rule.
LEMMA SubjectsKept ==
  ASSUME TypeInv, NEW n \in Nodes, NEW t \in AllThreads, NEW j \in Job, Become(n, t, j),
         j.at \in RulePlaces => j.row \in RuleRow
  PROVE  job' \in [Nodes -> [Threads \cup {Worker} -> Job]] /\ Subjects'
<1>1. job' \in [Nodes -> [AllThreads -> Job]] /\ job'[n][t] = j
  BY OneThread
<1>2. ASSUME NEW m \in Nodes, NEW u \in AllThreads, job'[m][u].at \in RulePlaces
      PROVE  job'[m][u].row \in RuleRow
  <2>1. CASE m = n /\ u = t
    BY <1>1, <1>2, <2>1
  <2>2. CASE m # n \/ u # t
    <3>1. job'[m][u] = job[m][u]
      BY <2>2, OneThread
    <3> QED
      BY <3>1, <1>2 DEF TypeInv, Subjects, At, Row
  <2> QED
    BY <2>1, <2>2
<1> QED
  BY <1>1, <1>2 DEF Subjects, AllThreads, At, Row

LEMMA IdleIsAJob == Idle \in Job /\ Idle.at = "idle"
BY ConstantsAssumption DEF Idle, Job, Place, Id

\* What a synchronization makes of rules is a set of rules.
LEMMA SyncedRules ==
  ASSUME NEW S \in SUBSET RuleRow, NEW P, NEW seen \in SUBSET RuleRow,
         NEW T \in RulesAfterSync(S, P, seen)
  PROVE  T \in SUBSET RuleRow
<1> DEFINE I == Inserted(S, seen)
           D == Surplus(S, seen)
<1>1. I \in SUBSET RuleRow /\ D \in SUBSET RuleRow
  BY DEF Inserted, Missing, Surplus
<1>2. ASSUME NEW f \in Firsts(I)
      PROVE  Batch(S, I, D, f) \in SUBSET RuleRow
  <2>1. ASSUME NEW row \in I \cup D, NEW r \in DOMAIN f
        PROVE  Subject(row.policy, r, f[r]) \in RuleRow
    <3>1. row.policy \in Policies
      BY <1>1 DEF RuleRow
    <3>2. PICK e \in I : e.rule = r /\ e.id = f[r]
      BY DEF Firsts
    <3>3. r \in Rules /\ f[r] \in Id
      BY <3>2, <1>1 DEF RuleRow
    <3> QED
      BY <3>1, <3>3 DEF Subject, RuleRow
  <2> QED
    BY <2>1 DEF Batch
<1>3. T = S \/ \E f \in Firsts(I) : T = Batch(S, I, D, f)
  BY DEF RulesAfterSync
<1> QED
  BY <1>2, <1>3

LEMMA TypeInit == Init => TypeInv
<1> SUFFICES ASSUME Init PROVE TypeInv
  OBVIOUS
<1>1. dbPolicies \subseteq PolicyRow
  BY ConstantsAssumption DEF Init, PolicyRow, Id
<1>2. job \in [Nodes -> [Threads \cup {Worker} -> Job]] /\ Subjects
  BY IdleIsAJob DEF Init, Subjects, AllThreads, At, RulePlaces
<1> QED
  BY <1>1, <1>2, ConstantsAssumption DEF Init, TypeInv, TypeOK

\* A step of a thread that requests nothing and is about to be j.
LEMMA TypeOfJob ==
  ASSUME TypeInv, NEW n \in Nodes, NEW t \in AllThreads, NEW p \in Place
  PROVE  /\ job[n][t] \in Job
         /\ Row(n, t) \in [policy : Policies \cup {None}, rule : Rules \cup {None}, id : Id]
         /\ job[n][t].sawPolicies \subseteq PolicyRow
         /\ job[n][t].sawRules \subseteq RuleRow
         /\ At(n, t) \in RulePlaces => Row(n, t) \in RuleRow
         /\ [job[n][t] EXCEPT !.at = p] \in Job
         /\ [job[n][t] EXCEPT !.at = p].row = Row(n, t)
         /\ [job[n][t] EXCEPT !.at = p].at = p
<1>1. job[n][t] \in Job
  BY DEF TypeInv, TypeOK, AllThreads
<1> QED
  BY <1>1 DEF TypeInv, Subjects, Job, Row, At

\* A thread that goes on or finishes.
LEMMA GotoType ==
  ASSUME TypeInv, NEW n \in Nodes, NEW t \in AllThreads, NEW p \in Place, Goto(n, t, p),
         p \in RulePlaces => At(n, t) \in RulePlaces
  PROVE  job' \in [Nodes -> [Threads \cup {Worker} -> Job]] /\ Subjects'
<1> DEFINE j == [job[n][t] EXCEPT !.at = p]
<1>1. j \in Job /\ (j.at \in RulePlaces => j.row \in RuleRow)
  BY TypeOfJob
<1> QED
  BY <1>1, SubjectsKept DEF Goto

LEMMA FinishType ==
  ASSUME TypeInv, NEW n \in Nodes, NEW t \in AllThreads, Finish(n, t)
  PROVE  job' \in [Nodes -> [Threads \cup {Worker} -> Job]] /\ Subjects'
BY IdleIsAJob, SubjectsKept DEF Finish, RulePlaces

\* The locks of a node, taken or released.
LEMMA ReleaseType ==
  ASSUME TypeInv, NEW n \in Nodes, Release(n)
  PROVE  /\ policyLock' \in [Nodes -> Threads \cup {Worker, None}]
         /\ ruleLock' \in [Nodes -> Threads \cup {Worker, None}]
         /\ tableLock' \in (Nodes \X Threads) \cup {None}
BY DEF TypeInv, TypeOK, Release

LEMMA SetPoliciesType ==
  ASSUME TypeInv, NEW n \in Nodes, NEW P \in SUBSET PolicyRow, SetPolicies(n, P)
  PROVE  /\ policies' \in [Nodes -> SUBSET PolicyRow]
         /\ rules' \in [Nodes -> SUBSET RuleRow]
BY DEF TypeInv, TypeOK, SetPolicies, Remaining

LEMMA InsertStepType ==
  ASSUME TypeInv, NEW n \in Nodes, NEW t \in Threads, Insert(n, t)
  PROVE  TypeInv'
<1> DEFINE row == Row(n, t)
           P == WithOne(policies[n], row.policy, dbPolicies)
           S == Remaining(rules[n], policies[n], P)
<1>1. t \in AllThreads /\ "insert" \in Place /\ "save" \in Place
  BY DEF AllThreads, Place
<1>2. At(n, t) = "insert" /\ row \in RuleRow
  BY <1>1, TypeOfJob DEF Insert, Proceed, RulePlaces
<1>3. P \in SUBSET PolicyRow /\ S \in SUBSET RuleRow
  BY DEF TypeInv, TypeOK, WithOne, Remaining
<1>4. policies' \in [Nodes -> SUBSET PolicyRow] /\ rules' \in [Nodes -> SUBSET RuleRow]
  BY <1>2, <1>3 DEF Insert, TypeInv, TypeOK
<1>5. job' \in [Nodes -> [Threads \cup {Worker} -> Job]] /\ Subjects'
  BY <1>1, <1>2, GotoType, FinishType DEF Insert, RulePlaces
<1>6. /\ policyLock' \in [Nodes -> Threads \cup {Worker, None}]
      /\ ruleLock' \in [Nodes -> Threads \cup {Worker, None}]
      /\ tableLock' \in (Nodes \X Threads) \cup {None}
  BY ReleaseType DEF Insert, locks, TypeInv, TypeOK
<1> QED
  BY <1>4, <1>5, <1>6 DEF Insert, Proceed, db, TypeInv, TypeOK

LEMMA RequestType ==
  ASSUME TypeInv, NEW op, NEW n, NEW t, Request(op, n, t)
  PROVE  requests' \in Id /\ requests' \in 0 .. MaxRequests /\ crashes' \in 0 .. MaxCrashes
BY ConstantsAssumption DEF Request, TypeInv, TypeOK, Id

LEMMA TypeStep == TypeInv /\ [Next]_vars => TypeInv'
<1> SUFFICES ASSUME TypeInv, [Next]_vars PROVE TypeInv'
  OBVIOUS
<1> USE ConstantsAssumption
<1>1. CASE UNCHANGED vars
  BY <1>1 DEF TypeInv, TypeOK, Subjects, At, Row, vars, db, engine, locks
<1>2. ASSUME NEW n \in Nodes, NEW t \in Threads, UserRequest(n, t)
      PROVE  TypeInv'
  <2> t \in AllThreads
    BY DEF AllThreads
  <2>1. CASE RequestInsert(n, t)
    <3>1. PICK p \in Policies, r \in Rules :
             Become(n, t, [Idle EXCEPT !.at = "wantPolicies", !.row = Subject(p, r, requests')])
      BY <2>1 DEF RequestInsert
    <3> DEFINE j == [Idle EXCEPT !.at = "wantPolicies", !.row = Subject(p, r, requests')]
    <3>2. requests' \in Id /\ requests' \in 0 .. MaxRequests /\ crashes' \in 0 .. MaxCrashes
      BY <2>1, RequestType DEF RequestInsert
    <3>3. j \in Job /\ j.row \in RuleRow
      BY <3>2, IdleIsAJob DEF Idle, Job, Place, Subject, RuleRow
    <3>4. job' \in [Nodes -> [Threads \cup {Worker} -> Job]] /\ Subjects'
      BY <3>1, <3>3, SubjectsKept
    <3> QED
      BY <2>1, <3>2, <3>4 DEF RequestInsert, TypeInv, TypeOK, db, engine, locks
  <2>2. CASE RequestDelete(n, t)
    <3>1. PICK row \in dbRules : Become(n, t, [Idle EXCEPT !.at = "delete", !.row = row])
      BY <2>2 DEF RequestDelete
    <3> DEFINE j == [Idle EXCEPT !.at = "delete", !.row = row]
    <3>2. j \in Job /\ j.row \in RuleRow
      BY IdleIsAJob DEF Idle, Job, Place, RuleRow, TypeInv, TypeOK
    <3>3. job' \in [Nodes -> [Threads \cup {Worker} -> Job]] /\ Subjects'
      BY <3>1, <3>2, SubjectsKept
    <3> QED
      BY <2>2, <3>3, RequestType DEF RequestDelete, TypeInv, TypeOK, db, engine, locks
  <2>3. ASSUME NEW p \in Policies,
               Become(n, t, [Idle EXCEPT !.at = "wantOne", !.row = Subject(p, None, 0)])
        PROVE  job' \in [Nodes -> [Threads \cup {Worker} -> Job]] /\ Subjects'
    <3> DEFINE j == [Idle EXCEPT !.at = "wantOne", !.row = Subject(p, None, 0)]
    <3>1. j \in Job /\ j.at \notin RulePlaces
      BY IdleIsAJob DEF Idle, Job, Place, Subject, RulePlaces, Id
    <3> QED
      BY <2>3, <3>1, SubjectsKept
  <2>4. CASE CreatePolicy(n, t)
    <3>1. requests' \in Id /\ requests' \in 0 .. MaxRequests /\ crashes' \in 0 .. MaxCrashes
      BY <2>4, RequestType DEF CreatePolicy
    <3>2. PICK p \in Policies \ Names(dbPolicies) :
             /\ dbPolicies' = dbPolicies \cup {[name |-> p, id |-> requests']}
             /\ Become(n, t, [Idle EXCEPT !.at = "wantOne", !.row = Subject(p, None, 0)])
      BY <2>4 DEF CreatePolicy
    <3>3. job' \in [Nodes -> [Threads \cup {Worker} -> Job]] /\ Subjects'
      BY <2>3, <3>2
    <3>4. dbPolicies' \subseteq PolicyRow
      BY <3>1, <3>2 DEF TypeInv, TypeOK, PolicyRow
    <3> QED
      BY <2>4, <3>1, <3>3, <3>4 DEF CreatePolicy, TypeInv, TypeOK, engine, locks
  <2>5. CASE DeletePolicy(n, t)
    <3>1. PICK p \in Names(dbPolicies) \ DefaultPolicies :
             /\ dbPolicies' = {q \in dbPolicies : q.name # p}
             /\ dbRules' = {row \in dbRules : row.policy # p}
             /\ Become(n, t, [Idle EXCEPT !.at = "wantOne", !.row = Subject(p, None, 0)])
      BY <2>5 DEF DeletePolicy
    <3>2. p \in Policies
      BY DEF Names, TypeInv, TypeOK, PolicyRow
    <3>3. job' \in [Nodes -> [Threads \cup {Worker} -> Job]] /\ Subjects'
      BY <2>3, <3>1, <3>2
    <3> QED
      BY <2>5, <3>1, <3>3, RequestType DEF DeletePolicy, TypeInv, TypeOK, engine, locks
  <2> QED
    BY <1>2, <2>1, <2>2, <2>4, <2>5 DEF UserRequest
<1>3. ASSUME NEW n \in Nodes, NEW t \in Threads, Work(n, t)
      PROVE  TypeInv'
  <2> t \in AllThreads
    BY DEF AllThreads
  <2>1. CASE LockPolicies(n, t)
    <3>1. job' \in [Nodes -> [Threads \cup {Worker} -> Job]] /\ Subjects'
      BY <2>1, GotoType DEF LockPolicies, Proceed, Place, RulePlaces
    <3> QED
      BY <2>1, <3>1 DEF LockPolicies, Proceed, TypeInv, TypeOK, db, engine
  <2>2. CASE LockRules(n, t)
    <3>1. job' \in [Nodes -> [Threads \cup {Worker} -> Job]] /\ Subjects'
      BY <2>2, GotoType DEF LockRules, Proceed, Place, RulePlaces
    <3> QED
      BY <2>2, <3>1 DEF LockRules, Proceed, TypeInv, TypeOK, db, engine
  <2>3. CASE LockTables(n, t)
    <3>1. job' \in [Nodes -> [Threads \cup {Worker} -> Job]] /\ Subjects'
      <4>1. /\ Goto(n, t, "locked") \/ Goto(n, t, "insert")
            /\ At(n, t) = "wantTables"
        BY <2>3 DEF LockTables, Proceed
      <4>2. "locked" \in Place /\ "insert" \in Place /\ "wantTables" \in RulePlaces
        BY DEF Place, RulePlaces
      <4> QED
        BY <4>1, <4>2, GotoType
    <3> QED
      BY <2>3, <3>1 DEF LockTables, Proceed, TypeInv, TypeOK, db, engine
  <2>4. CASE SyncLocked(n, t)
    <3>1. job' \in [Nodes -> [Threads \cup {Worker} -> Job]] /\ Subjects'
      BY <2>4, GotoType DEF SyncLocked, Proceed, Place, RulePlaces
    <3>2. rules' \in [Nodes -> SUBSET RuleRow]
      BY <2>4, SyncedRules DEF SyncLocked, TypeInv, TypeOK
    <3> QED
      BY <2>4, <3>1, <3>2 DEF SyncLocked, Proceed, TypeInv, TypeOK, db, locks
  <2>5. CASE Insert(n, t)
    BY <2>5, InsertStepType
  <2>6. CASE Save(n, t)
    <3>1. job' \in [Nodes -> [Threads \cup {Worker} -> Job]] /\ Subjects'
      BY <2>6, FinishType DEF Save
    <3>2. Row(n, t) \in RuleRow
      BY <2>6 DEF Save, Proceed, TypeInv, Subjects, RulePlaces
    <3> QED
      BY <2>6, <3>1, <3>2, ReleaseType DEF Save, Proceed, TypeInv, TypeOK, engine
  <2>7. CASE SaveFails(n, t)
    <3>1. job' \in [Nodes -> [Threads \cup {Worker} -> Job]] /\ Subjects'
      BY <2>7, FinishType DEF SaveFails
    <3> QED
      BY <2>7, <3>1, ReleaseType DEF SaveFails, Proceed, TypeInv, TypeOK, db, engine
  <2>8. CASE DeleteFromEngine(n, t)
    <3>1. job' \in [Nodes -> [Threads \cup {Worker} -> Job]] /\ Subjects'
      BY <2>8, GotoType, FinishType DEF DeleteFromEngine, Proceed, Place, RulePlaces
    <3>2. rules' \in [Nodes -> SUBSET RuleRow]
      BY <2>8 DEF DeleteFromEngine, TypeInv, TypeOK
    <3> QED
      BY <2>8, <3>1, <3>2 DEF DeleteFromEngine, Proceed, TypeInv, TypeOK, db, locks
  <2>9. CASE DeleteFromDb(n, t)
    <3>1. job' \in [Nodes -> [Threads \cup {Worker} -> Job]] /\ Subjects'
      BY <2>9, FinishType DEF DeleteFromDb
    <3> QED
      BY <2>9, <3>1 DEF DeleteFromDb, Proceed, TypeInv, TypeOK, engine, locks
  <2>10. CASE SyncOneRead(n, t)
    <3> DEFINE j == [job[n][t] EXCEPT !.at = "one", !.sawPolicies = dbPolicies]
    <3>1. job[n][t] \in Job
      BY DEF TypeInv, TypeOK, AllThreads
    <3>2. j \in Job /\ j.at \notin RulePlaces
      BY <3>1 DEF Job, Place, RulePlaces, TypeInv, TypeOK
    <3>3. job' \in [Nodes -> [Threads \cup {Worker} -> Job]] /\ Subjects'
      BY <2>10, <3>2, SubjectsKept DEF SyncOneRead
    <3> QED
      BY <2>10, <3>3 DEF SyncOneRead, Proceed, TypeInv, TypeOK, db, engine
  <2>11. CASE SyncOneApply(n, t)
    <3>1. job' \in [Nodes -> [Threads \cup {Worker} -> Job]] /\ Subjects'
      BY <2>11, FinishType DEF SyncOneApply
    <3>2. job[n][t].sawPolicies \subseteq PolicyRow
      BY TypeOfJob DEF Place
    <3>3. WithOne(policies[n], Row(n, t).policy, job[n][t].sawPolicies) \in SUBSET PolicyRow
      BY <3>2 DEF WithOne, TypeInv, TypeOK
    <3> QED
      BY <2>11, <3>1, <3>3, SetPoliciesType
         DEF SyncOneApply, Proceed, TypeInv, TypeOK, db
  <2> QED
    BY <1>3, <2>1, <2>2, <2>3, <2>4, <2>5, <2>6, <2>7, <2>8, <2>9, <2>10, <2>11 DEF Work
<1>4. ASSUME NEW n \in Nodes, Periodic(n)
      PROVE  TypeInv'
  <2> Worker \in AllThreads
    BY DEF AllThreads
  <2>1. /\ job[n][Worker].sawPolicies \subseteq PolicyRow
        /\ job[n][Worker].sawRules \subseteq RuleRow
    BY TypeOfJob DEF Place
  <2>2. CASE SyncPoliciesRead(n)
    <3> DEFINE j == [Idle EXCEPT !.at = "policies", !.sawPolicies = dbPolicies]
    <3>1. j \in Job /\ j.at \notin RulePlaces
      BY IdleIsAJob DEF Idle, Job, Place, RulePlaces, TypeInv, TypeOK
    <3>2. job' \in [Nodes -> [Threads \cup {Worker} -> Job]] /\ Subjects'
      BY <2>2, <3>1, SubjectsKept DEF SyncPoliciesRead
    <3> QED
      BY <2>2, <3>2 DEF SyncPoliciesRead, Proceed, TypeInv, TypeOK, db, engine
  <2>3. CASE SyncPoliciesApply(n)
    <3>1. job' \in [Nodes -> [Threads \cup {Worker} -> Job]] /\ Subjects'
      BY <2>3, FinishType DEF SyncPoliciesApply
    <3> QED
      BY <2>1, <2>3, <3>1, SetPoliciesType
         DEF SyncPoliciesApply, Proceed, TypeInv, TypeOK, db
  <2>4. CASE SyncRulesRead(n)
    <3> DEFINE j == [Idle EXCEPT !.at = "rules", !.sawRules = dbRules]
    <3>1. j \in Job /\ j.at \notin RulePlaces
      BY IdleIsAJob DEF Idle, Job, Place, RulePlaces, TypeInv, TypeOK
    <3>2. job' \in [Nodes -> [Threads \cup {Worker} -> Job]] /\ Subjects'
      BY <2>4, <3>1, SubjectsKept DEF SyncRulesRead
    <3> QED
      BY <2>4, <3>2 DEF SyncRulesRead, Proceed, TypeInv, TypeOK, db, engine
  <2>5. CASE SyncRulesApply(n)
    <3>1. job' \in [Nodes -> [Threads \cup {Worker} -> Job]] /\ Subjects'
      BY <2>5, FinishType DEF SyncRulesApply
    <3>2. rules' \in [Nodes -> SUBSET RuleRow]
      BY <2>1, <2>5, SyncedRules DEF SyncRulesApply, TypeInv, TypeOK
    <3> QED
      BY <2>5, <3>1, <3>2 DEF SyncRulesApply, Proceed, TypeInv, TypeOK, db
  <2> QED
    BY <1>4, <2>2, <2>3, <2>4, <2>5 DEF Periodic
<1>5. ASSUME NEW n \in Nodes, Restart(n)
      PROVE  TypeInv'
  <2>1. job' \in [Nodes -> [Threads \cup {Worker} -> Job]]
    BY <1>5, IdleIsAJob DEF Restart, TypeInv, TypeOK
  <2>2. Subjects'
    <3>1. ASSUME NEW m \in Nodes, NEW t \in AllThreads
          PROVE  job'[m][t] = IF m = n THEN Idle ELSE job[m][t]
      BY <1>5 DEF Restart, TypeInv, TypeOK, AllThreads
    <3> QED
      BY <3>1, IdleIsAJob DEF Subjects, At, Row, RulePlaces, TypeInv
  <2>3. crashes' \in 0 .. MaxCrashes
    BY <1>5 DEF Restart, TypeInv, TypeOK
  <2> QED
    BY <1>5, <2>1, <2>2, <2>3 DEF Restart, TypeInv, TypeOK, db
<1> QED
  BY <1>1, <1>2, <1>3, <1>4, <1>5 DEF Next

\* TypeOK always holds: engines, database and threads only ever hold rows and
\* policies, and the locks only ever their holders.
THEOREM TypeCorrect == Spec => []TypeOK
<1>1. TypeInv => TypeOK
  BY DEF TypeInv
<1> QED
  BY <1>1, TypeInit, TypeStep, PTL DEF Spec

-----------------------------------------------------------------------------
\* Where a thread is while it holds the policies' lock, the rules' lock and the
\* tables' lock.
WithPolicies == {"wantRules", "wantTables", "locked", "insert", "save", "one"}
WithRules    == {"wantTables", "locked", "insert", "save"}
WithTables   == {"locked", "insert", "save"}

HoldsOf(n, t) ==
  /\ At(n, t) \in WithPolicies => policyLock[n] = t
  /\ At(n, t) \in WithRules => ruleLock[n] = t
  /\ At(n, t) \in WithTables => tableLock = <<n, t>>
WorkerHolds(n) ==
  /\ At(n, Worker) = "policies" => policyLock[n] = Worker
  /\ At(n, Worker) = "rules" => ruleLock[n] = Worker
LocksHeld == \A n \in Nodes : WorkerHolds(n) /\ \A t \in Threads : HoldsOf(n, t)

\* A rule that is about to be saved has a saved policy.
SavesRight == \A n \in Nodes : \A t \in Threads :
                At(n, t) = "save" => Row(n, t).policy \in Names(dbPolicies)

SyncInv == TypeInv /\ LocksHeld /\ NoOrphans /\ SavesRight

\* A lock of node n changes only when it is free or held by the thread that acts.
Allowed(lock, n, t) ==
  \/ lock' = lock
  \/ lock[n] \in {None, t} /\ \E v : lock' = [lock EXCEPT ![n] = v]

LEMMA LocksKept ==
  ASSUME SyncInv, NEW n \in Nodes, NEW t \in AllThreads, NEW j \in Job, Become(n, t, j),
         Allowed(policyLock, n, t), Allowed(ruleLock, n, t),
         tableLock' = tableLock \/ tableLock \in {None, <<n, t>>},
         t \in Threads => /\ j.at \in WithPolicies => policyLock'[n] = t
                          /\ j.at \in WithRules => ruleLock'[n] = t
                          /\ j.at \in WithTables => tableLock' = <<n, t>>,
         t = Worker => /\ j.at = "policies" => policyLock'[n] = Worker
                       /\ j.at = "rules" => ruleLock'[n] = Worker
  PROVE  LocksHeld'
<1> USE ConstantsAssumption
<1>1. /\ TypeInv
      /\ policyLock \in [Nodes -> Threads \cup {Worker, None}]
      /\ ruleLock \in [Nodes -> Threads \cup {Worker, None}]
  BY DEF SyncInv, TypeInv, TypeOK
<1>2. job'[n][t] = j
  BY <1>1, OneThread
<1>3. ASSUME NEW m \in Nodes, NEW u \in AllThreads, m # n \/ u # t
      PROVE  /\ job'[m][u] = job[m][u]
             /\ policyLock[m] = u => policyLock'[m] = u
             /\ ruleLock[m] = u => ruleLock'[m] = u
             /\ tableLock = <<m, u>> /\ u \in Threads => tableLock' = <<m, u>>
  <2>1. job'[m][u] = job[m][u]
    BY <1>1, <1>3, OneThread
  <2>2. u # None /\ <<m, u>> # <<n, t>> /\ (u \in Threads => <<m, u>> # None)
    BY <1>3 DEF AllThreads
  <2> QED
    BY <1>1, <1>3, <2>1, <2>2 DEF Allowed
<1>4. ASSUME NEW m \in Nodes
      PROVE  WorkerHolds(m)'
  <2>1. Worker \in AllThreads /\ WorkerHolds(m)
    BY DEF AllThreads, SyncInv, LocksHeld
  <2> QED
    BY <1>2, <1>3, <2>1 DEF WorkerHolds, At
<1>5. ASSUME NEW m \in Nodes, NEW u \in Threads
      PROVE  HoldsOf(m, u)'
  <2>1. u \in AllThreads /\ HoldsOf(m, u)
    BY DEF AllThreads, SyncInv, LocksHeld
  <2> QED
    BY <1>2, <1>3, <2>1 DEF HoldsOf, At
<1> QED
  BY <1>4, <1>5 DEF LocksHeld

\* Nothing is lost by a step that leaves the database alone and saves nothing new.
LEMMA PoliciesKept ==
  ASSUME SyncInv, NEW n \in Nodes, NEW t \in AllThreads, NEW j \in Job, Become(n, t, j),
         dbPolicies' = dbPolicies, dbRules' \subseteq dbRules,
         j.at = "save" => j.row.policy \in Names(dbPolicies)
  PROVE  NoOrphans' /\ SavesRight'
<1>1. NoOrphans'
  BY DEF SyncInv, NoOrphans, Names
<1>2. ASSUME NEW m \in Nodes, NEW u \in Threads, job'[m][u].at = "save"
      PROVE  job'[m][u].row.policy \in Names(dbPolicies)
  <2>1. job'[n][t] = j /\ (m # n \/ u # t => job'[m][u] = job[m][u])
    BY OneThread DEF SyncInv, AllThreads
  <2> QED
    BY <1>2, <2>1 DEF SyncInv, SavesRight, At, Row
<1> QED
  BY <1>1, <1>2 DEF SavesRight, At, Row, Names

\* No thread is about to save a rule while the tables are free.
LEMMA NobodySaves ==
  ASSUME SyncInv, TablesFree, NEW n \in Nodes, NEW t \in Threads
  PROVE  At(n, t) # "save"
BY ConstantsAssumption DEF SyncInv, LocksHeld, HoldsOf, WithTables, TablesFree

LEMMA SyncInit == Init => SyncInv
<1> SUFFICES ASSUME Init PROVE SyncInv
  OBVIOUS
<1>1. \A n \in Nodes : \A t \in AllThreads : At(n, t) = "idle"
  BY IdleIsAJob DEF Init, At, AllThreads
<1>2. LocksHeld /\ SavesRight
  BY <1>1 DEF LocksHeld, WorkerHolds, HoldsOf, SavesRight, AllThreads,
              WithPolicies, WithRules, WithTables
<1> QED
  BY <1>2, TypeInit DEF Init, SyncInv, NoOrphans

\* The places of an insert, for the steps below.
LEMMA PlacesOfInsert ==
  /\ \A p \in WithPolicies \cup {"wantPolicies", "delete", "unpersist", "wantOne", "idle"} : p \in Place
  /\ WithTables \subseteq WithRules /\ WithRules \subseteq WithPolicies
BY DEF WithPolicies, WithRules, WithTables, Place

\* An insert ends: it holds all three locks and may release them.
LEMMA InsertEnds ==
  ASSUME SyncInv, NEW n \in Nodes, NEW t \in Threads, At(n, t) \in WithTables,
         Finish(n, t), Release(n)
  PROVE  LocksHeld'
<1>1. policyLock[n] = t /\ ruleLock[n] = t /\ tableLock = <<n, t>>
  BY PlacesOfInsert DEF SyncInv, LocksHeld, HoldsOf
<1>2. Allowed(policyLock, n, t) /\ Allowed(ruleLock, n, t)
  BY <1>1 DEF Release, Allowed
<1>3. Idle.at \notin WithPolicies \cup WithRules \cup WithTables \cup {"policies", "rules"}
  BY IdleIsAJob DEF WithPolicies, WithRules, WithTables
<1> QED
  BY <1>1, <1>2, <1>3, IdleIsAJob, LocksKept DEF Release, Finish, AllThreads

\* An insert goes from one place to another and keeps its locks.
LEMMA InsertGoesOn ==
  ASSUME SyncInv, NEW n \in Nodes, NEW t \in Threads, NEW p \in WithTables,
         At(n, t) \in WithTables, Goto(n, t, p), UNCHANGED locks
  PROVE  LocksHeld'
<1>1. policyLock[n] = t /\ ruleLock[n] = t /\ tableLock = <<n, t>>
  BY PlacesOfInsert DEF SyncInv, LocksHeld, HoldsOf
<1> DEFINE j == [job[n][t] EXCEPT !.at = p]
<1>2. t \in AllThreads /\ p \in Place /\ t # Worker
  BY ConstantsAssumption, PlacesOfInsert DEF AllThreads
<1>3. j \in Job /\ j.at = p
  BY <1>2, TypeOfJob DEF SyncInv
<1> QED
  BY <1>1, <1>2, <1>3, LocksKept DEF Goto, Allowed, locks

\* A thread outside of the locks does what leaves the locks alone.
LEMMA OutsideOfLocks ==
  ASSUME SyncInv, NEW n \in Nodes, NEW t \in AllThreads, NEW j \in Job, Become(n, t, j),
         UNCHANGED locks,
         j.at \in {"idle", "wantPolicies", "delete", "unpersist", "wantOne"}
  PROVE  LocksHeld'
<1>1. j.at \notin WithPolicies \cup WithRules \cup WithTables \cup {"policies", "rules"}
  BY DEF WithPolicies, WithRules, WithTables
<1> QED
  BY <1>1, LocksKept DEF Allowed, locks

LEMMA RequestsKeepInv ==
  ASSUME SyncInv, TypeInv', NEW n \in Nodes, NEW t \in Threads, UserRequest(n, t)
  PROVE  SyncInv'
<1> t \in AllThreads
  BY DEF AllThreads
<1> USE ConstantsAssumption
<1>1. ASSUME NEW at \in {"wantPolicies", "delete", "wantOne"}, NEW row,
             NEW j, j = [Idle EXCEPT !.at = at, !.row = row], Become(n, t, j)
      PROVE  j \in Job /\ j.at = at
  <2>1. job \in [Nodes -> [AllThreads -> Job]] /\ job' \in [Nodes -> [AllThreads -> Job]]
    BY DEF SyncInv, TypeInv, TypeOK, AllThreads
  <2>2. job'[n][t] = j
    BY <1>1, <2>1 DEF Become
  <2>3. j \in Job
    BY <2>1, <2>2
  <2>4. j.at = at
    BY <1>1 DEF Idle
  <2> QED
    BY <2>3, <2>4
<1>2. CASE RequestInsert(n, t)
  <2>1. PICK p \in Policies, r \in Rules :
           Become(n, t, [Idle EXCEPT !.at = "wantPolicies", !.row = Subject(p, r, requests')])
    BY <1>2 DEF RequestInsert
  <2> QED
    BY <1>1, <1>2, <2>1, OutsideOfLocks, PoliciesKept DEF RequestInsert, db, SyncInv
<1>3. CASE RequestDelete(n, t)
  <2>1. PICK row \in dbRules : Become(n, t, [Idle EXCEPT !.at = "delete", !.row = row])
    BY <1>3 DEF RequestDelete
  <2> QED
    BY <1>1, <1>3, <2>1, OutsideOfLocks, PoliciesKept DEF RequestDelete, db, SyncInv
<1>4. ASSUME TablesFree, NEW p,
             Become(n, t, [Idle EXCEPT !.at = "wantOne", !.row = Subject(p, None, 0)])
      PROVE  SavesRight'
  <2>1. \A m \in Nodes : \A u \in Threads : At(m, u)' # "save"
    <3> DEFINE j == [Idle EXCEPT !.at = "wantOne", !.row = Subject(p, None, 0)]
    <3>1. j \in Job /\ j.at = "wantOne"
      BY <1>1, <1>4
    <3>2. ASSUME NEW m \in Nodes, NEW u \in Threads
          PROVE  job'[m][u] = j \/ job'[m][u] = job[m][u]
      BY <1>4, <3>1, OneThread DEF SyncInv, AllThreads
    <3> QED
      BY <1>4, <3>1, <3>2, NobodySaves DEF At
  <2> QED
    BY <2>1 DEF SavesRight
<1>5. CASE CreatePolicy(n, t)
  <2>1. PICK p \in Policies \ Names(dbPolicies) :
           /\ dbPolicies' = dbPolicies \cup {[name |-> p, id |-> requests']}
           /\ Become(n, t, [Idle EXCEPT !.at = "wantOne", !.row = Subject(p, None, 0)])
    BY <1>5 DEF CreatePolicy
  <2>2. LocksHeld' /\ SavesRight'
    BY <1>1, <1>4, <1>5, <2>1, OutsideOfLocks DEF CreatePolicy
  <2>3. NoOrphans'
    BY <1>5, <2>1 DEF CreatePolicy, SyncInv, NoOrphans, Names
  <2> QED
    BY <2>2, <2>3 DEF SyncInv
<1>6. CASE DeletePolicy(n, t)
  <2>1. PICK p \in Names(dbPolicies) \ DefaultPolicies :
           /\ dbPolicies' = {q \in dbPolicies : q.name # p}
           /\ dbRules' = {row \in dbRules : row.policy # p}
           /\ Become(n, t, [Idle EXCEPT !.at = "wantOne", !.row = Subject(p, None, 0)])
    BY <1>6 DEF DeletePolicy
  <2>2. LocksHeld' /\ SavesRight'
    BY <1>1, <1>4, <1>6, <2>1, OutsideOfLocks DEF DeletePolicy
  <2>3. NoOrphans'
    BY <2>1 DEF SyncInv, NoOrphans, Names
  <2> QED
    BY <2>2, <2>3 DEF SyncInv
<1> QED
  BY <1>2, <1>3, <1>5, <1>6 DEF UserRequest

LEMMA WorkKeepsInv ==
  ASSUME SyncInv, TypeInv', NEW n \in Nodes, NEW t \in Threads, Work(n, t)
  PROVE  SyncInv'
<1> USE ConstantsAssumption, PlacesOfInsert
<1>1. t \in AllThreads /\ t # Worker /\ job[n][t] \in Job /\ HoldsOf(n, t)
  BY DEF AllThreads, SyncInv, LocksHeld, TypeInv, TypeOK
<1>2. ASSUME NEW p \in Place
      PROVE  /\ [job[n][t] EXCEPT !.at = p] \in Job
             /\ [job[n][t] EXCEPT !.at = p].at = p
             /\ [job[n][t] EXCEPT !.at = p].row = Row(n, t)
  BY <1>1, TypeOfJob DEF SyncInv
<1>3. ASSUME NEW p \in Place, Goto(n, t, p), p # "save", UNCHANGED dbPolicies, dbRules' \subseteq dbRules
      PROVE  NoOrphans' /\ SavesRight'
  BY <1>1, <1>2, <1>3, PoliciesKept DEF Goto
<1>4. ASSUME Finish(n, t), UNCHANGED dbPolicies, dbRules' \subseteq dbRules
      PROVE  NoOrphans' /\ SavesRight'
  BY <1>1, <1>4, IdleIsAJob, PoliciesKept DEF Finish
<1>5. CASE LockPolicies(n, t)
  <2>1. LocksHeld'
    <3>1. policyLock' = [policyLock EXCEPT ![n] = t] /\ policyLock'[n] = t
      BY <1>5 DEF LockPolicies, SyncInv, TypeInv, TypeOK
    <3>2. "wantRules" \notin WithRules \cup WithTables /\ "wantRules" \in Place
      BY DEF WithRules, WithTables, Place
    <3> QED
      BY <1>1, <1>2, <1>5, <3>1, <3>2, LocksKept DEF LockPolicies, Goto, Allowed
  <2> QED
    BY <1>3, <1>5, <2>1 DEF LockPolicies, db, SyncInv, WithPolicies
<1>6. CASE LockRules(n, t)
  <2>1. LocksHeld'
    <3>1. ruleLock' = [ruleLock EXCEPT ![n] = t] /\ ruleLock'[n] = t /\ policyLock[n] = t
      BY <1>1, <1>6 DEF LockRules, Proceed, HoldsOf, WithPolicies, SyncInv, TypeInv, TypeOK
    <3>2. "wantTables" \notin WithTables
      BY DEF WithTables
    <3>3. "wantTables" \in Place
      BY DEF Place
    <3> QED
      BY <1>1, <1>2, <1>6, <3>1, <3>2, <3>3, LocksKept DEF LockRules, Goto, Allowed
  <2> QED
    BY <1>3, <1>6, <2>1 DEF LockRules, db, SyncInv, WithPolicies
<1>7. CASE LockTables(n, t)
  <2>1. PICK p \in {"locked", "insert"} : Goto(n, t, p)
    BY <1>7 DEF LockTables
  <2>2. p \in WithTables /\ p \in Place /\ p # "save"
    BY <2>1 DEF WithTables, Place
  <2>3. LocksHeld'
    <3>1. policyLock[n] = t /\ ruleLock[n] = t
      BY <1>1, <1>7 DEF LockTables, Proceed, HoldsOf, WithPolicies, WithRules
    <3> QED
      BY <1>1, <1>2, <1>7, <2>1, <2>2, <3>1, LocksKept
         DEF LockTables, TablesFree, Goto, Allowed
  <2> QED
    BY <1>3, <1>7, <2>1, <2>2, <2>3 DEF LockTables, db, SyncInv
<1>8. CASE SyncLocked(n, t)
  <2>1. LocksHeld'
    BY <1>8, InsertGoesOn DEF SyncLocked, Proceed, WithTables
  <2> QED
    BY <1>3, <1>8, <2>1 DEF SyncLocked, db, SyncInv, WithPolicies
<1>9. CASE Insert(n, t)
  <2>1. At(n, t) \in WithTables /\ "save" \in WithTables
    BY <1>9 DEF Insert, Proceed, WithTables
  <2>2. CASE Goto(n, t, "save") /\ UNCHANGED locks /\ Row(n, t).policy \in Names(dbPolicies)
    <3>1. LocksHeld'
      BY <2>1, <2>2, InsertGoesOn
    <3>2. NoOrphans' /\ SavesRight'
      BY <1>1, <1>2, <1>9, <2>1, <2>2, PoliciesKept DEF Goto, Insert, db
    <3> QED
      BY <3>1, <3>2 DEF SyncInv
  <2>3. CASE Finish(n, t) /\ Release(n)
    BY <1>4, <1>9, <2>1, <2>3, InsertEnds DEF Insert, db, SyncInv
  <2> QED
    BY <1>9, <2>2, <2>3 DEF Insert, Accepted
<1>10. CASE Save(n, t)
  <2>1. LocksHeld'
    BY <1>10, InsertEnds DEF Save, Proceed, WithTables
  <2>2. NoOrphans'
    BY <1>10 DEF Save, Proceed, SyncInv, NoOrphans, SavesRight
  <2>3. SavesRight'
    <3>1. job' \in [Nodes -> [AllThreads -> Job]] /\ job'[n][t] = Idle
      BY <1>1, <1>10, OneThread, IdleIsAJob DEF Save, Finish, SyncInv
    <3>2. ASSUME NEW m \in Nodes, NEW u \in Threads
          PROVE  job'[m][u] = Idle \/ job'[m][u] = job[m][u]
      BY <1>1, <1>10, <3>1, OneThread, IdleIsAJob DEF Save, Finish, SyncInv, AllThreads
    <3> QED
      BY <1>10, <3>2, IdleIsAJob DEF Save, SyncInv, SavesRight, At, Row
  <2> QED
    BY <2>1, <2>2, <2>3 DEF SyncInv
<1>11. CASE SaveFails(n, t)
  BY <1>4, <1>11, InsertEnds DEF SaveFails, Proceed, WithTables, db, SyncInv
<1>12. CASE DeleteFromEngine(n, t)
  <2>1. CASE Goto(n, t, "unpersist")
    BY <1>1, <1>2, <1>3, <1>12, <2>1, OutsideOfLocks DEF DeleteFromEngine, Goto, db, SyncInv
  <2>2. CASE Finish(n, t)
    BY <1>1, <1>4, <1>12, <2>2, IdleIsAJob, OutsideOfLocks
       DEF DeleteFromEngine, Finish, db, SyncInv
  <2> QED
    BY <1>12, <2>1, <2>2 DEF DeleteFromEngine
<1>13. CASE DeleteFromDb(n, t)
  <2>1. dbRules' \subseteq dbRules
    BY <1>13 DEF DeleteFromDb
  <2> QED
    BY <1>1, <1>4, <1>13, <2>1, IdleIsAJob, OutsideOfLocks DEF DeleteFromDb, Finish, SyncInv
<1>14. CASE SyncOneRead(n, t)
  <2> DEFINE j == [job[n][t] EXCEPT !.at = "one", !.sawPolicies = dbPolicies]
  <2>1. j \in Job /\ j.at = "one"
    BY <1>1 DEF Job, Place, SyncInv, TypeInv, TypeOK
  <2>2. "one" \notin WithRules \cup WithTables \cup {"save"}
    BY DEF WithRules, WithTables
  <2>3. policyLock' = [policyLock EXCEPT ![n] = t] /\ policyLock'[n] = t
    BY <1>14 DEF SyncOneRead, SyncInv, TypeInv, TypeOK
  <2>4. LocksHeld'
    BY <1>1, <1>14, <2>1, <2>2, <2>3, LocksKept DEF SyncOneRead, Allowed
  <2>5. NoOrphans' /\ SavesRight'
    BY <1>1, <1>14, <2>1, <2>2, PoliciesKept DEF SyncOneRead, db
  <2> QED
    BY <2>4, <2>5 DEF SyncInv
<1>15. CASE SyncOneApply(n, t)
  <2>1. policyLock[n] = t
    BY <1>1, <1>15 DEF SyncOneApply, Proceed, HoldsOf, WithPolicies
  <2>2. Idle.at \notin WithPolicies \cup WithRules \cup WithTables \cup {"policies", "rules"}
    BY IdleIsAJob DEF WithPolicies, WithRules, WithTables
  <2>3. LocksHeld'
    BY <1>1, <1>15, <2>1, <2>2, IdleIsAJob, LocksKept DEF SyncOneApply, Finish, Allowed
  <2> QED
    BY <1>4, <1>15, <2>3 DEF SyncOneApply, db, SyncInv
<1> QED
  BY <1>5, <1>6, <1>7, <1>8, <1>9, <1>10, <1>11, <1>12, <1>13, <1>14, <1>15 DEF Work

LEMMA PeriodicKeepsInv ==
  ASSUME SyncInv, TypeInv', NEW n \in Nodes, Periodic(n)
  PROVE  SyncInv'
<1> USE ConstantsAssumption
<1>1. Worker \in AllThreads /\ Worker \notin Threads /\ WorkerHolds(n)
  BY DEF AllThreads, SyncInv, LocksHeld
<1>2. Idle.at \notin {"policies", "rules", "save"}
  BY IdleIsAJob
<1>3. CASE SyncPoliciesRead(n)
  <2> DEFINE j == [Idle EXCEPT !.at = "policies", !.sawPolicies = dbPolicies]
  <2>1. j \in Job /\ j.at = "policies"
    BY IdleIsAJob DEF Idle, Job, Place, SyncInv, TypeInv, TypeOK
  <2>2. policyLock' = [policyLock EXCEPT ![n] = Worker] /\ policyLock'[n] = Worker
    BY <1>3 DEF SyncPoliciesRead, SyncInv, TypeInv, TypeOK
  <2>3. LocksHeld'
    BY <1>1, <1>3, <2>1, <2>2, LocksKept DEF SyncPoliciesRead, Allowed
  <2>4. NoOrphans' /\ SavesRight'
    BY <1>1, <1>3, <2>1, PoliciesKept DEF SyncPoliciesRead, db
  <2> QED
    BY <2>3, <2>4 DEF SyncInv
<1>4. CASE SyncPoliciesApply(n)
  <2>1. policyLock[n] = Worker
    BY <1>1, <1>4 DEF SyncPoliciesApply, Proceed, WorkerHolds
  <2>2. LocksHeld'
    BY <1>1, <1>2, <1>4, <2>1, IdleIsAJob, LocksKept DEF SyncPoliciesApply, Finish, Allowed
  <2>3. NoOrphans' /\ SavesRight'
    BY <1>1, <1>2, <1>4, IdleIsAJob, PoliciesKept DEF SyncPoliciesApply, Finish, db
  <2> QED
    BY <2>2, <2>3 DEF SyncInv
<1>5. CASE SyncRulesRead(n)
  <2> DEFINE j == [Idle EXCEPT !.at = "rules", !.sawRules = dbRules]
  <2>1. j \in Job /\ j.at = "rules"
    BY IdleIsAJob DEF Idle, Job, Place, SyncInv, TypeInv, TypeOK
  <2>2. ruleLock' = [ruleLock EXCEPT ![n] = Worker] /\ ruleLock'[n] = Worker
    BY <1>5 DEF SyncRulesRead, SyncInv, TypeInv, TypeOK
  <2>3. LocksHeld'
    BY <1>1, <1>5, <2>1, <2>2, LocksKept DEF SyncRulesRead, Allowed
  <2>4. NoOrphans' /\ SavesRight'
    BY <1>1, <1>5, <2>1, PoliciesKept DEF SyncRulesRead, db
  <2> QED
    BY <2>3, <2>4 DEF SyncInv
<1>6. CASE SyncRulesApply(n)
  <2>1. ruleLock[n] = Worker
    BY <1>1, <1>6 DEF SyncRulesApply, Proceed, WorkerHolds
  <2>2. LocksHeld'
    BY <1>1, <1>2, <1>6, <2>1, IdleIsAJob, LocksKept DEF SyncRulesApply, Finish, Allowed
  <2>3. NoOrphans' /\ SavesRight'
    BY <1>1, <1>2, <1>6, IdleIsAJob, PoliciesKept DEF SyncRulesApply, Finish, db
  <2> QED
    BY <2>2, <2>3 DEF SyncInv
<1> QED
  BY <1>3, <1>4, <1>5, <1>6 DEF Periodic

LEMMA RestartKeepsInv ==
  ASSUME SyncInv, TypeInv', NEW n \in Nodes, Restart(n)
  PROVE  SyncInv'
<1> USE ConstantsAssumption
<1>1. ASSUME NEW m \in Nodes, NEW t \in AllThreads
      PROVE  job'[m][t] = IF m = n THEN Idle ELSE job[m][t]
  BY DEF Restart, SyncInv, TypeInv, TypeOK, AllThreads
<1>2. ASSUME NEW m \in Nodes, m # n
      PROVE  /\ policyLock'[m] = policyLock[m] /\ ruleLock'[m] = ruleLock[m]
             /\ \A u \in Threads : tableLock # <<m, u>>
  BY <1>2 DEF Restart, SyncInv, TypeInv, TypeOK
<1>3. LocksHeld'
  <2>1. ASSUME NEW m \in Nodes PROVE WorkerHolds(m)'
    BY <1>1, <1>2, IdleIsAJob DEF WorkerHolds, At, AllThreads, SyncInv, LocksHeld
  <2>2. ASSUME NEW m \in Nodes, NEW u \in Threads PROVE HoldsOf(m, u)'
    BY <1>1, <1>2, IdleIsAJob
       DEF HoldsOf, At, AllThreads, SyncInv, LocksHeld, WithPolicies, WithRules, WithTables
  <2> QED
    BY <2>1, <2>2 DEF LocksHeld
<1>4. NoOrphans' /\ SavesRight'
  BY <1>1, IdleIsAJob DEF Restart, db, SyncInv, NoOrphans, SavesRight, At, Row, AllThreads
<1> QED
  BY <1>3, <1>4 DEF SyncInv

LEMMA SyncStep == SyncInv /\ [Next]_vars => SyncInv'
<1> SUFFICES ASSUME SyncInv, [Next]_vars PROVE SyncInv'
  OBVIOUS
<1>1. TypeInv'
  BY TypeStep DEF SyncInv
<1>2. CASE UNCHANGED vars
  BY <1>1, <1>2 DEF vars, db, engine, locks, SyncInv, LocksHeld, WorkerHolds, HoldsOf,
                    NoOrphans, SavesRight, At, Row
<1> QED
  BY <1>1, <1>2, RequestsKeepInv, WorkKeepsInv, PeriodicKeepsInv, RestartKeepsInv DEF Next

THEOREM SyncInvariant == Spec => []SyncInv
BY SyncInit, SyncStep, PTL DEF Spec

\* NoOrphans always holds: no interleaving of inserts, deletions of policies,
\* synchronizations and restarts, on any number of nodes, leaves a saved rule
\* without its policy.
THEOREM RulesHavePolicies == Spec => []NoOrphans
<1>1. SyncInv => NoOrphans
  BY DEF SyncInv
<1> QED
  BY <1>1, SyncInvariant, PTL

-----------------------------------------------------------------------------
\* Only a thread of the node that holds a lock, or a deletion, or a restart, takes
\* rules out of an engine.
LEMMA SavingIsSafe ==
  ASSUME SyncInv, [Next]_vars, NEW n \in Nodes, NEW t \in Threads,
         Saving(n, t), At(n, t)' = "save", Row(n, t) \notin rules'[n]
  PROVE  \E u \in Threads : /\ At(n, u) = "delete" /\ At(n, u)' = "unpersist"
                            /\ Pair(Row(n, u)) = Pair(Row(n, t))
<1> USE ConstantsAssumption
<1>1. /\ At(n, t) = "save" /\ Row(n, t) \in rules[n] /\ rules' # rules
      /\ job \in [Nodes -> [AllThreads -> Job]] /\ rules \in [Nodes -> SUBSET RuleRow]
  BY DEF Saving, SyncInv, TypeInv, TypeOK, AllThreads
<1>2. policyLock[n] = t /\ ruleLock[n] = t /\ tableLock = <<n, t>>
  BY <1>1 DEF SyncInv, LocksHeld, HoldsOf, WithPolicies, WithRules, WithTables
<1>3. ASSUME NEW u \in Threads, At(n, u) \in WithPolicies
      PROVE  u = t
  BY <1>2, <1>3 DEF SyncInv, LocksHeld, HoldsOf
<1>4. At(n, Worker) \notin {"policies", "rules"}
  BY <1>2 DEF SyncInv, LocksHeld, WorkerHolds
<1>5. ASSUME NEW m \in Nodes, NEW S, rules' = [rules EXCEPT ![m] = S]
      PROVE  m = n
  BY <1>1, <1>5
<1>6. ASSUME NEW m \in Nodes, NEW u \in Threads, UserRequest(m, u)
      PROVE  FALSE
  BY <1>1, <1>6 DEF UserRequest, RequestInsert, RequestDelete, CreatePolicy, DeletePolicy, engine
<1>7. ASSUME NEW m \in Nodes, Periodic(m)
      PROVE  FALSE
  <2>1. SyncPoliciesApply(m) \/ SyncRulesApply(m)
    BY <1>1, <1>7 DEF Periodic, SyncPoliciesRead, SyncRulesRead, engine
  <2> QED
    BY <1>4, <1>5, <2>1 DEF SyncPoliciesApply, SyncRulesApply, SetPolicies, Proceed
<1>8. ASSUME NEW m \in Nodes, Restart(m)
      PROVE  FALSE
  <2>1. m = n
    BY <1>5, <1>8 DEF Restart
  <2>2. job'[n][t] = Idle
    BY <1>1, <1>8, <2>1 DEF Restart
  <2> QED
    BY <2>2, IdleIsAJob DEF At
<1>9. ASSUME NEW m \in Nodes, NEW u \in Threads, Work(m, u)
      PROVE  \E v \in Threads : /\ At(n, v) = "delete" /\ At(n, v)' = "unpersist"
                                /\ Pair(Row(n, v)) = Pair(Row(n, t))
  <2>1. \/ SyncLocked(m, u) \/ Insert(m, u) \/ DeleteFromEngine(m, u) \/ SyncOneApply(m, u)
    BY <1>1, <1>9 DEF Work, LockPolicies, LockRules, LockTables, Save, SaveFails,
                      DeleteFromDb, SyncOneRead, engine
  <2>2. m = n
    <3>1. \E S : rules' = [rules EXCEPT ![m] = S]
      <4>1. CASE SyncLocked(m, u)
        BY <4>1 DEF SyncLocked
      <4>2. CASE Insert(m, u)
        BY <4>2 DEF Insert
      <4>3. CASE DeleteFromEngine(m, u)
        BY <1>1, <4>3 DEF DeleteFromEngine
      <4>4. CASE SyncOneApply(m, u)
        BY <4>4 DEF SyncOneApply, SetPolicies
      <4> QED
        BY <2>1, <4>1, <4>2, <4>3, <4>4
    <3> QED
      BY <1>5, <3>1
  <2>3. ~SyncLocked(m, u) /\ ~Insert(m, u) /\ ~SyncOneApply(m, u)
    BY <1>1, <1>3, <2>2 DEF SyncLocked, Insert, SyncOneApply, Proceed, WithPolicies
  <2>4. DeleteFromEngine(n, u) /\ At(n, u) = "delete"
    BY <2>1, <2>2, <2>3 DEF DeleteFromEngine, Proceed
  <2>5. /\ rules' = [rules EXCEPT ![n] = {e \in @ : Pair(e) # Pair(Row(n, u))}]
        /\ Goto(n, u, "unpersist")
    BY <1>1, <2>4 DEF DeleteFromEngine
  <2>6. Pair(Row(n, u)) = Pair(Row(n, t))
    BY <1>1, <2>5
  <2>7. At(n, u)' = "unpersist"
    BY <1>1, <2>5 DEF Goto, Become, At, AllThreads, Job
  <2> QED
    BY <2>4, <2>6, <2>7
<1> QED
  BY <1>1, <1>6, <1>7, <1>8, <1>9 DEF Next, vars, engine

\* SyncKeepsInserts always holds: neither the periodic worker nor the request of
\* another user, unless it deletes that very rule, takes a rule out of the engine
\* before it is saved.
THEOREM InsertsAreKept == Spec => SyncKeepsInserts
<1>1. SyncInv /\ [Next]_vars =>
        [\A n \in Nodes : \A t \in Threads :
            Saving(n, t) /\ At(n, t)' = "save" /\ Row(n, t) \notin rules'[n]
              => \E u \in Threads : /\ At(n, u) = "delete" /\ At(n, u)' = "unpersist"
                                    /\ Pair(Row(n, u)) = Pair(Row(n, t))]_vars
  BY SavingIsSafe
<1> QED
  BY <1>1, SyncInvariant, PTL DEF Spec, SyncKeepsInserts

=============================================================================
