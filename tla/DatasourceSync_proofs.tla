----------------------- MODULE DatasourceSync_proofs -----------------------
(***************************************************************************)
(* Synchronizations do not take back what a request has just made, for any *)
(* datasources, names that are used again included, and any number of      *)
(* faults.  The argument: what a synchronization read may be old, but      *)
(* whoever holds its lock knows of every datasource that is both in the    *)
(* database and served, since services and policies only come under the    *)
(* lock and a datasource added after the reading had neither.              *)
(***************************************************************************)
EXTENDS DatasourceSync, TLAPS

(* A datasource that left a trace anywhere was added before, and is not     *)
(* added again.                                                             *)
Traces == rows \union services \union seen \union listed \union {policies[n] : n \in Names}

AddedOnce == \A i \in Ids : i \in Traces => request[<<"add", i>>] # "none"

DeletedIsGone ==
    \A i \in Ids : request[<<"delete", i>>] # "none" => i \notin rows /\ request[<<"add", i>>] # "none"

(* The threads that are inside the locks hold them.                         *)
LocksHeld ==
    \A r \in Requests : /\ request[r] = "syncing" <=> lock = r
                        /\ request[r] = "registering" <=> policyLock = r

(* Only with the engine on its node does a request go on to policies.       *)
LocalRequests == ~local => \A r \in Requests : request[r] \notin {"synced", "registering"}

(* What the holder of congress_synchronize_datasources has read.            *)
ServicesKnown ==
    /\ lock \in Requests => \A i \in rows \intersect services : NameOf[i] = Name(lock) => i \in seen
    /\ lock = All => rows \intersect services \subseteq listed

(* What the holder of congress_synchronize_policies has read.               *)
PoliciesKnown ==
    /\ \A i \in rows :
          /\ policies[NameOf[i]] = i
          /\ policyLock = All \/ (policyLock \in Requests /\ NameOf[i] = Name(policyLock))
          => NameOf[i] \in policySeen
    /\ \A n \in todo : policies[n] = None

IInv == TypeOK /\ AddedOnce /\ DeletedIsGone /\ LocksHeld /\ LocalRequests
          /\ ServicesKnown /\ PoliciesKnown

-----------------------------------------------------------------------------
LEMMA TypeStep == IInv /\ [Next]_vars => TypeOK'
<1> SUFFICES ASSUME IInv, [Next]_vars PROVE TypeOK'
  OBVIOUS
<1> USE DatasourceAssumption DEF IInv, Requests, All, Free, NotListed, Steps, serviceVars, policyVars, TypeOK, LocksHeld, NamesOf, Named
<1>1. ASSUME NEW i \in Ids, Add(i) PROVE TypeOK'
  BY <1>1 DEF Add, Goes
<1>2. ASSUME NEW i \in Ids, Delete(i) PROVE TypeOK'
  BY <1>2 DEF Delete, Goes
<1>3. ASSUME NEW r \in Requests, SyncOneRead(r) PROVE TypeOK'
  BY <1>3 DEF SyncOneRead, Unlocked, Goes
<1>4. ASSUME NEW r \in Requests, SyncOne(r) PROVE TypeOK'
  BY <1>4 DEF SyncOne, SyncedServices, Goes, Ends, Fault, NoFault
<1>5. ASSUME NEW r \in Requests, SyncPolicyRead(r) PROVE TypeOK'
  BY <1>5 DEF SyncPolicyRead, Goes
<1>6. ASSUME NEW r \in Requests, SyncPolicy(r) PROVE TypeOK'
  BY <1>6 DEF SyncPolicy, WithSchemas, Ends, Fault, NoFault
<1>7. ASSUME NEW n \in Names, RegisterNext(n) PROVE TypeOK'
  BY <1>7 DEF RegisterNext, Fault, NoFault
<1>8. CASE SyncAllRead
  BY <1>8 DEF SyncAllRead, Unlocked
<1>9. CASE SyncAll
  BY <1>9 DEF SyncAll, Fault, NoFault
<1>10. CASE SyncPoliciesRead
  BY <1>10 DEF SyncPoliciesRead
<1>11. CASE SyncPolicies
  BY <1>11 DEF SyncPolicies, RemovedPolicies
<1>12. CASE Heartbeat
  BY <1>12 DEF Heartbeat
<1>13. CASE Restart
  BY <1>13 DEF Restart, Fault
<1>14. CASE UNCHANGED vars
  BY <1>14 DEF vars
<1> QED
  BY <1>1, <1>2, <1>3, <1>4, <1>5, <1>6, <1>7, <1>8, <1>9, <1>10, <1>11, <1>12, <1>13, <1>14 DEF Next

LEMMA AddedStep == IInv /\ [Next]_vars => AddedOnce'
<1> SUFFICES ASSUME IInv, [Next]_vars PROVE AddedOnce'
  OBVIOUS
<1> USE DatasourceAssumption DEF IInv, Requests, All, Free, NotListed, Steps, serviceVars, policyVars, TypeOK, AddedOnce, Traces, Named
<1>1. ASSUME NEW i \in Ids, Add(i) PROVE AddedOnce'
  BY <1>1 DEF Add, Goes
<1>2. ASSUME NEW i \in Ids, Delete(i) PROVE AddedOnce'
  BY <1>2 DEF Delete, Goes
<1>3. ASSUME NEW r \in Requests, SyncOneRead(r) PROVE AddedOnce'
  BY <1>3 DEF SyncOneRead, Unlocked, Goes
<1>4. ASSUME NEW r \in Requests, SyncOne(r) PROVE AddedOnce'
  BY <1>4 DEF SyncOne, SyncedServices, Goes, Ends, Fault, NoFault
<1>5. ASSUME NEW r \in Requests, SyncPolicyRead(r) PROVE AddedOnce'
  BY <1>5 DEF SyncPolicyRead, Goes
<1>6. ASSUME NEW r \in Requests, SyncPolicy(r) PROVE AddedOnce'
  BY <1>6 DEF SyncPolicy, WithSchemas, Ends, Fault, NoFault
<1>7. ASSUME NEW n \in Names, RegisterNext(n) PROVE AddedOnce'
  BY <1>7 DEF RegisterNext, Fault, NoFault
<1>8. CASE SyncAllRead
  BY <1>8 DEF SyncAllRead, Unlocked
<1>9. CASE SyncAll
  BY <1>9 DEF SyncAll, Fault, NoFault
<1>10. CASE SyncPoliciesRead
  BY <1>10 DEF SyncPoliciesRead
<1>11. CASE SyncPolicies
  BY <1>11 DEF SyncPolicies, RemovedPolicies
<1>12. CASE Heartbeat
  BY <1>12 DEF Heartbeat
<1>13. CASE Restart
  BY <1>13 DEF Restart, Fault
<1>14. CASE UNCHANGED vars
  BY <1>14 DEF vars
<1> QED
  BY <1>1, <1>2, <1>3, <1>4, <1>5, <1>6, <1>7, <1>8, <1>9, <1>10, <1>11, <1>12, <1>13, <1>14 DEF Next

LEMMA DeletedStep == IInv /\ [Next]_vars => DeletedIsGone'
<1> SUFFICES ASSUME IInv, [Next]_vars PROVE DeletedIsGone'
  OBVIOUS
<1> USE DatasourceAssumption DEF IInv, Requests, All, Free, NotListed, Steps, serviceVars, policyVars, TypeOK, AddedOnce, Traces, DeletedIsGone
<1>1. ASSUME NEW i \in Ids, Add(i) PROVE DeletedIsGone'
  BY <1>1 DEF Add, Goes
<1>2. ASSUME NEW i \in Ids, Delete(i) PROVE DeletedIsGone'
  BY <1>2 DEF Delete, Goes
<1>3. ASSUME NEW r \in Requests, SyncOneRead(r) PROVE DeletedIsGone'
  BY <1>3 DEF SyncOneRead, Unlocked, Goes
<1>4. ASSUME NEW r \in Requests, SyncOne(r) PROVE DeletedIsGone'
  BY <1>4 DEF SyncOne, SyncedServices, Goes, Ends, Fault, NoFault
<1>5. ASSUME NEW r \in Requests, SyncPolicyRead(r) PROVE DeletedIsGone'
  BY <1>5 DEF SyncPolicyRead, Goes
<1>6. ASSUME NEW r \in Requests, SyncPolicy(r) PROVE DeletedIsGone'
  BY <1>6 DEF SyncPolicy, WithSchemas, Ends, Fault, NoFault
<1>7. ASSUME NEW n \in Names, RegisterNext(n) PROVE DeletedIsGone'
  BY <1>7 DEF RegisterNext, Fault, NoFault
<1>8. CASE SyncAllRead
  BY <1>8 DEF SyncAllRead, Unlocked
<1>9. CASE SyncAll
  BY <1>9 DEF SyncAll, Fault, NoFault
<1>10. CASE SyncPoliciesRead
  BY <1>10 DEF SyncPoliciesRead
<1>11. CASE SyncPolicies
  BY <1>11 DEF SyncPolicies, RemovedPolicies
<1>12. CASE Heartbeat
  BY <1>12 DEF Heartbeat
<1>13. CASE Restart
  BY <1>13 DEF Restart, Fault
<1>14. CASE UNCHANGED vars
  BY <1>14 DEF vars
<1> QED
  BY <1>1, <1>2, <1>3, <1>4, <1>5, <1>6, <1>7, <1>8, <1>9, <1>10, <1>11, <1>12, <1>13, <1>14 DEF Next

LEMMA LocksStep == IInv /\ [Next]_vars => LocksHeld'
<1> SUFFICES ASSUME IInv, [Next]_vars PROVE LocksHeld'
  OBVIOUS
<1> USE DatasourceAssumption DEF IInv, Requests, All, Free, NotListed, Steps, serviceVars, policyVars, TypeOK, LocksHeld, LocalRequests, AddedOnce, DeletedIsGone, Traces
<1>1. ASSUME NEW i \in Ids, Add(i) PROVE LocksHeld'
  BY <1>1 DEF Add, Goes
<1>2. ASSUME NEW i \in Ids, Delete(i) PROVE LocksHeld'
  BY <1>2 DEF Delete, Goes
<1>3. ASSUME NEW r \in Requests, SyncOneRead(r) PROVE LocksHeld'
  BY <1>3 DEF SyncOneRead, Unlocked, Goes
<1>4. ASSUME NEW r \in Requests, SyncOne(r) PROVE LocksHeld'
  BY <1>4 DEF SyncOne, SyncedServices, Goes, Ends, Fault, NoFault
<1>5. ASSUME NEW r \in Requests, SyncPolicyRead(r) PROVE LocksHeld'
  BY <1>5 DEF SyncPolicyRead, Goes
<1>6. ASSUME NEW r \in Requests, SyncPolicy(r) PROVE LocksHeld'
  BY <1>6 DEF SyncPolicy, WithSchemas, Ends, Fault, NoFault
<1>7. ASSUME NEW n \in Names, RegisterNext(n) PROVE LocksHeld'
  BY <1>7 DEF RegisterNext, Fault, NoFault
<1>8. CASE SyncAllRead
  BY <1>8 DEF SyncAllRead, Unlocked
<1>9. CASE SyncAll
  BY <1>9 DEF SyncAll, Fault, NoFault
<1>10. CASE SyncPoliciesRead
  BY <1>10 DEF SyncPoliciesRead
<1>11. CASE SyncPolicies
  BY <1>11 DEF SyncPolicies, RemovedPolicies
<1>12. CASE Heartbeat
  BY <1>12 DEF Heartbeat
<1>13. CASE Restart
  BY <1>13 DEF Restart, Fault
<1>14. CASE UNCHANGED vars
  BY <1>14 DEF vars
<1> QED
  BY <1>1, <1>2, <1>3, <1>4, <1>5, <1>6, <1>7, <1>8, <1>9, <1>10, <1>11, <1>12, <1>13, <1>14 DEF Next

LEMMA LocalStep == IInv /\ [Next]_vars => LocalRequests'
<1> SUFFICES ASSUME IInv, [Next]_vars PROVE LocalRequests'
  OBVIOUS
<1> USE DatasourceAssumption DEF IInv, Requests, All, Free, NotListed, Steps, serviceVars, policyVars, TypeOK, LocalRequests
<1>1. ASSUME NEW i \in Ids, Add(i) PROVE LocalRequests'
  BY <1>1 DEF Add, Goes
<1>2. ASSUME NEW i \in Ids, Delete(i) PROVE LocalRequests'
  BY <1>2 DEF Delete, Goes
<1>3. ASSUME NEW r \in Requests, SyncOneRead(r) PROVE LocalRequests'
  BY <1>3 DEF SyncOneRead, Unlocked, Goes
<1>4. ASSUME NEW r \in Requests, SyncOne(r) PROVE LocalRequests'
  BY <1>4 DEF SyncOne, SyncedServices, Goes, Ends, Fault, NoFault
<1>5. ASSUME NEW r \in Requests, SyncPolicyRead(r) PROVE LocalRequests'
  BY <1>5 DEF SyncPolicyRead, Goes
<1>6. ASSUME NEW r \in Requests, SyncPolicy(r) PROVE LocalRequests'
  BY <1>6 DEF SyncPolicy, WithSchemas, Ends, Fault, NoFault
<1>7. ASSUME NEW n \in Names, RegisterNext(n) PROVE LocalRequests'
  BY <1>7 DEF RegisterNext, Fault, NoFault
<1>8. CASE SyncAllRead
  BY <1>8 DEF SyncAllRead, Unlocked
<1>9. CASE SyncAll
  BY <1>9 DEF SyncAll, Fault, NoFault
<1>10. CASE SyncPoliciesRead
  BY <1>10 DEF SyncPoliciesRead
<1>11. CASE SyncPolicies
  BY <1>11 DEF SyncPolicies, RemovedPolicies
<1>12. CASE Heartbeat
  BY <1>12 DEF Heartbeat
<1>13. CASE Restart
  BY <1>13 DEF Restart, Fault
<1>14. CASE UNCHANGED vars
  BY <1>14 DEF vars
<1> QED
  BY <1>1, <1>2, <1>3, <1>4, <1>5, <1>6, <1>7, <1>8, <1>9, <1>10, <1>11, <1>12, <1>13, <1>14 DEF Next

LEMMA ServicesStep == IInv /\ [Next]_vars => ServicesKnown'
<1> SUFFICES ASSUME IInv, [Next]_vars PROVE ServicesKnown'
  OBVIOUS
<1> USE DatasourceAssumption DEF IInv, Requests, All, Free, NotListed, Steps, serviceVars, policyVars, TypeOK, LocksHeld, AddedOnce, Traces, ServicesKnown, Named, Name
<1>1. ASSUME NEW i \in Ids, Add(i) PROVE ServicesKnown'
  BY <1>1 DEF Add, Goes
<1>2. ASSUME NEW i \in Ids, Delete(i) PROVE ServicesKnown'
  BY <1>2 DEF Delete, Goes
<1>3. ASSUME NEW r \in Requests, SyncOneRead(r) PROVE ServicesKnown'
  BY <1>3 DEF SyncOneRead, Unlocked, Goes
<1>4. ASSUME NEW r \in Requests, SyncOne(r) PROVE ServicesKnown'
  BY <1>4 DEF SyncOne, SyncedServices, Goes, Ends, Fault, NoFault
<1>5. ASSUME NEW r \in Requests, SyncPolicyRead(r) PROVE ServicesKnown'
  BY <1>5 DEF SyncPolicyRead, Goes
<1>6. ASSUME NEW r \in Requests, SyncPolicy(r) PROVE ServicesKnown'
  BY <1>6 DEF SyncPolicy, WithSchemas, Ends, Fault, NoFault
<1>7. ASSUME NEW n \in Names, RegisterNext(n) PROVE ServicesKnown'
  BY <1>7 DEF RegisterNext, Fault, NoFault
<1>8. CASE SyncAllRead
  BY <1>8 DEF SyncAllRead, Unlocked
<1>9. CASE SyncAll
  BY <1>9 DEF SyncAll, Fault, NoFault
<1>10. CASE SyncPoliciesRead
  BY <1>10 DEF SyncPoliciesRead
<1>11. CASE SyncPolicies
  BY <1>11 DEF SyncPolicies, RemovedPolicies
<1>12. CASE Heartbeat
  BY <1>12 DEF Heartbeat
<1>13. CASE Restart
  BY <1>13 DEF Restart, Fault
<1>14. CASE UNCHANGED vars
  BY <1>14 DEF vars
<1> QED
  BY <1>1, <1>2, <1>3, <1>4, <1>5, <1>6, <1>7, <1>8, <1>9, <1>10, <1>11, <1>12, <1>13, <1>14 DEF Next

LEMMA PoliciesStep == IInv /\ [Next]_vars => PoliciesKnown'
<1> SUFFICES ASSUME IInv, [Next]_vars PROVE PoliciesKnown'
  OBVIOUS
<1> USE DatasourceAssumption DEF IInv, Requests, All, Free, NotListed, Steps, serviceVars, policyVars, TypeOK, LocksHeld, AddedOnce, Traces, PoliciesKnown, NamesOf, Named, Name
<1>1. ASSUME NEW i \in Ids, Add(i) PROVE PoliciesKnown'
  BY <1>1 DEF Add, Goes
<1>2. ASSUME NEW i \in Ids, Delete(i) PROVE PoliciesKnown'
  BY <1>2 DEF Delete, Goes
<1>3. ASSUME NEW r \in Requests, SyncOneRead(r) PROVE PoliciesKnown'
  BY <1>3 DEF SyncOneRead, Unlocked, Goes
<1>4. ASSUME NEW r \in Requests, SyncOne(r) PROVE PoliciesKnown'
  BY <1>4 DEF SyncOne, SyncedServices, Goes, Ends, Fault, NoFault
<1>5. ASSUME NEW r \in Requests, SyncPolicyRead(r) PROVE PoliciesKnown'
  BY <1>5 DEF SyncPolicyRead, Goes
<1>6. ASSUME NEW r \in Requests, SyncPolicy(r) PROVE PoliciesKnown'
  BY <1>6 DEF SyncPolicy, WithSchemas, Ends, Fault, NoFault
<1>7. ASSUME NEW n \in Names, RegisterNext(n) PROVE PoliciesKnown'
  BY <1>7 DEF RegisterNext, Fault, NoFault
<1>8. CASE SyncAllRead
  BY <1>8 DEF SyncAllRead, Unlocked
<1>9. CASE SyncAll
  BY <1>9 DEF SyncAll, Fault, NoFault
<1>10. CASE SyncPoliciesRead
  BY <1>10 DEF SyncPoliciesRead
<1>11. CASE SyncPolicies
  BY <1>11 DEF SyncPolicies, RemovedPolicies
<1>12. CASE Heartbeat
  BY <1>12 DEF Heartbeat
<1>13. CASE Restart
  BY <1>13 DEF Restart, Fault
<1>14. CASE UNCHANGED vars
  BY <1>14 DEF vars
<1> QED
  BY <1>1, <1>2, <1>3, <1>4, <1>5, <1>6, <1>7, <1>8, <1>9, <1>10, <1>11, <1>12, <1>13, <1>14 DEF Next

LEMMA InitHolds == Init => IInv
  BY DatasourceAssumption
     DEF Init, IInv, TypeOK, AddedOnce, Traces, DeletedIsGone, LocksHeld, LocalRequests, ServicesKnown,
         PoliciesKnown, Requests, All, Free, NotListed, Steps

LEMMA Invariance == Spec => []IInv
<1>1. IInv /\ [Next]_vars => IInv'
  BY TypeStep, AddedStep, DeletedStep, LocksStep, LocalStep, ServicesStep, PoliciesStep DEF IInv
<1> QED
  BY InitHolds, <1>1, PTL DEF Spec

(* The locks, requests and readings have their shape in every reachable     *)
(* state, and congress_synchronize_datasources is held by the periodic task *)
(* exactly while it has a list.                                             *)
THEOREM TypeCorrect == Spec => []TypeOK
<1>1. IInv => TypeOK
  BY DEF IInv
<1> QED
  BY Invariance, <1>1, PTL

-----------------------------------------------------------------------------
(* What the steps that unregister services or drop policies may not touch.  *)
LEMMA ServicesLast ==
    IInv /\ [Next]_vars => \A i \in rows \intersect services : i \in services' \/ Restart
<1> SUFFICES ASSUME IInv, [Next]_vars, NEW i \in rows \intersect services
             PROVE  i \in services' \/ Restart
  OBVIOUS
<1> USE DatasourceAssumption
    DEF IInv, TypeOK, LocksHeld, ServicesKnown, Requests, All, Free, NotListed, Name, Named
<1>1. ASSUME NEW r \in Requests, SyncOne(r) PROVE i \in services'
  BY <1>1 DEF SyncOne, SyncedServices
<1>2. CASE SyncAll
  BY <1>2 DEF SyncAll
<1>3. CASE Restart
  BY <1>3
<1>4. CASE UNCHANGED services
  BY <1>4
<1> QED
  BY <1>1, <1>2, <1>3, <1>4
     DEF Next, Add, Delete, SyncOneRead, SyncPolicyRead, SyncPolicy, SyncAllRead, SyncPoliciesRead,
         SyncPolicies, RegisterNext, Heartbeat, vars, serviceVars, policyVars

(* Only a restart takes away the service of a datasource whose row is in    *)
(* the database: no synchronization does, the one that read the rows before *)
(* the datasource was added and the one that finds no rows included.        *)
THEOREM ServicesAreKept == Spec => ServicesKept
<1>1. IInv /\ [Next]_vars =>
        [\A i \in rows \intersect services : i \in services' \/ Restart]_services
  BY ServicesLast
<1> QED
  BY Invariance, <1>1, PTL DEF Spec, ServicesKept

LEMMA PoliciesLast ==
    IInv /\ [Next]_vars => \A i \in rows \intersect services :
        policies[NameOf[i]] = i => policies'[NameOf[i]] = i \/ (local /\ Restart)
<1> SUFFICES ASSUME IInv, [Next]_vars, NEW i \in rows \intersect services, policies[NameOf[i]] = i
             PROVE  policies'[NameOf[i]] = i \/ (local /\ Restart)
  OBVIOUS
<1> USE DatasourceAssumption
    DEF IInv, TypeOK, LocksHeld, PoliciesKnown, Requests, All, Free, Name
<1>1. ASSUME NEW r \in Requests, SyncPolicy(r) PROVE policies'[NameOf[i]] = i
  BY <1>1 DEF SyncPolicy, WithSchemas
<1>2. ASSUME NEW n \in Names, RegisterNext(n) PROVE policies'[NameOf[i]] = i
  BY <1>2 DEF RegisterNext
<1>3. CASE SyncPolicies
  BY <1>3 DEF SyncPolicies, RemovedPolicies
<1>4. CASE Restart
  BY <1>4 DEF Restart, policyVars
<1>5. CASE UNCHANGED policies
  BY <1>5
<1> QED
  BY <1>1, <1>2, <1>3, <1>4, <1>5
     DEF Next, Add, Delete, SyncOneRead, SyncOne, SyncPolicyRead, SyncAllRead, SyncAll,
         SyncPoliciesRead, Heartbeat, vars, serviceVars, policyVars

(* Only a restart of an engine on the manager's node takes away the policy  *)
(* that holds the schema of a datasource that is in the database and served.*)
THEOREM PoliciesAreKept == Spec => PoliciesKept
<1>1. IInv /\ [Next]_vars =>
        [\A i \in rows \intersect services :
            policies[NameOf[i]] = i => policies'[NameOf[i]] = i \/ (local /\ Restart)]_vars
  BY PoliciesLast
<1> QED
  BY Invariance, <1>1, PTL DEF Spec, PoliciesKept
-----------------------------------------------------------------------------
(* Names that are used again: a name has one row, and the services that a   *)
(* synchronization makes are of names that have none.                       *)
OnePerName(S) == \A i, j \in S : NameOf[i] = NameOf[j] => i = j

NamesInv ==
    /\ OnePerName(rows) /\ OnePerName(services)
    /\ lock = All => OnePerName(listed)
    /\ lock \in Requests => seen \subseteq Named(seen, Name(lock)) /\ OnePerName(seen)

LEMMA NamesStep == IInv /\ NamesInv /\ [Next]_vars => NamesInv'
<1> SUFFICES ASSUME IInv, NamesInv, [Next]_vars PROVE NamesInv'
  OBVIOUS
<1> USE DatasourceAssumption
    DEF IInv, TypeOK, LocksHeld, NamesInv, OnePerName, Named, Name, Requests, All, Free, NotListed
<1>1. ASSUME NEW i \in Ids, Add(i) PROVE NamesInv'
  BY <1>1 DEF Add
<1>2. ASSUME NEW i \in Ids, Delete(i) PROVE NamesInv'
  BY <1>2 DEF Delete
<1>3. ASSUME NEW r \in Requests, SyncOneRead(r) PROVE NamesInv'
  BY <1>3 DEF SyncOneRead, Unlocked
<1>4. ASSUME NEW r \in Requests, SyncOne(r) PROVE NamesInv'
  BY <1>4 DEF SyncOne, SyncedServices
<1>5. CASE SyncAllRead
  BY <1>5 DEF SyncAllRead, Unlocked
<1>6. CASE SyncAll
  BY <1>6 DEF SyncAll
<1>7. ASSUME NEW r \in Requests, SyncPolicy(r) PROVE NamesInv'
  BY <1>7 DEF SyncPolicy
<1>8. CASE Restart
  BY <1>8 DEF Restart
<1>9. CASE UNCHANGED <<rows, services, lock, listed, seen>>
  BY <1>9
<1> QED
  BY <1>1, <1>2, <1>3, <1>4, <1>5, <1>6, <1>7, <1>8, <1>9
     DEF Next, SyncPolicyRead, SyncPoliciesRead, SyncPolicies, RegisterNext, Heartbeat, vars, serviceVars,
         policyVars

(* A name is never served twice, which register_service would refuse, when  *)
(* requests and the periodic task create services of datasources that are   *)
(* deleted and added again under their names.                               *)
THEOREM NamesAreServedOnce == Spec => []OnePerName(services)
<1>1. Init => NamesInv
  BY DEF Init, NamesInv, OnePerName, Requests, All, Free
<1>2. NamesInv => OnePerName(services)
  BY DEF NamesInv
<1> QED
  BY Invariance, NamesStep, <1>1, <1>2, PTL DEF Spec
=============================================================================
