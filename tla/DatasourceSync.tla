--------------------------- MODULE DatasourceSync ---------------------------
(***************************************************************************)
(* The datasources that users add and delete: rows of the database, data   *)
(* services on the node of the datasource manager, and policies of the     *)
(* policy engine that hold their schemas.  Requests and two periodic tasks *)
(* bring the services and the policies in line with the rows; the engine   *)
(* is on the manager's node or on another that learns of services from     *)
(* heartbeats.                                                             *)
(***************************************************************************)
EXTENDS Naturals

CONSTANTS Ids,         \* datasources, each added and deleted at most once
          Names,
          NameOf,      \* function from Ids to Names
          None,
          MaxFaults    \* bound: crashes, calls and constructors that fail

ASSUME DatasourceAssumption ==
    /\ NameOf \in [Ids -> Names]
    /\ None \notin Ids /\ MaxFaults \in Nat

VARIABLES rows,        \* the table datasources
          services,    \* datasources with a service on the node
          policies,    \* datasource policies: whose schema, by name
          directory,   \* names of services in the peers of the engine's node
          local,       \* the engine is on the manager's node (fixed)
          request,     \* progress of add_datasource and delete_datasource
          lock,        \* congress_synchronize_datasources
          seen,        \* the row sync_datasource read
          listed,      \* the rows synchronize_all_datasources read, or NotListed
          policyLock,  \* congress_synchronize_policies
          policySeen,  \* what its holder read: names in the database
          todo,        \* and those that had no policy
          faults

serviceVars == <<rows, services, request, lock, seen, listed>>
policyVars == <<policies, policyLock, policySeen, todo>>
vars == <<serviceVars, policyVars, directory, local, faults>>

Requests == {"add", "delete"} \X Ids
All == <<"all", None>>
Free == <<"free", None>>
NotListed == {None}
Steps == {"none", "stored", "syncing", "synced", "registering", "done"}

NamesOf(S) == {NameOf[i] : i \in S}
Named(S, n) == {i \in S : NameOf[i] = n}
Name(r) == NameOf[r[2]]

(* The node's view of services: its own, and its peers' heartbeats.         *)
IsValidService(n) == n \in IF local THEN NamesOf(services) ELSE directory

Fault == faults < MaxFaults /\ faults' = faults + 1
NoFault == UNCHANGED faults

(* The end of a request; a datasource is added only once.                   *)
Ends(r) == request' = [request EXCEPT ![r] = IF r[1] = "add" THEN "done" ELSE "none"]

Goes(r, step) == request' = [request EXCEPT ![r] = step]

-----------------------------------------------------------------------------
(* add_datasource: the row; a name in use is an error.                      *)
Add(i) ==
    /\ request[<<"add", i>>] = "none"
    /\ Named(rows, NameOf[i]) = {}
    /\ rows' = rows \union {i}
    /\ Goes(<<"add", i>>, "stored")
    /\ UNCHANGED <<services, lock, seen, listed, policyVars, directory, local, faults>>

(* delete_datasource: the row and its data.                                 *)
Delete(i) ==
    /\ i \in rows
    /\ rows' = rows \ {i}
    /\ Goes(<<"delete", i>>, "stored")
    /\ UNCHANGED <<services, lock, seen, listed, policyVars, directory, local, faults>>

(* Mutant: requests do not wait for the periodic task, nor it for them.     *)
Anytime == TRUE

Unlocked == lock = Free

(* sync_datasource: the row of that name is read under the lock ...         *)
SyncOneRead(r) ==
    /\ request[r] = "stored"
    /\ Unlocked /\ lock' = r
    /\ seen' = Named(rows, Name(r))
    /\ Goes(r, "syncing")
    /\ UNCHANGED <<rows, services, listed, policyVars, directory, local, faults>>

SyncedServices(r) ==
    LET active == Named(services, Name(r))
    IN  IF active = {} THEN services \union seen
        ELSE IF seen = {} THEN services \ active ELSE services

(* ... and a service is created or unregistered.  A constructor that raises *)
(* is a DataServiceError: "already created" to add_datasource.              *)
SyncOne(r) ==
    LET active == Named(services, Name(r))
    IN  /\ request[r] = "syncing"
        /\ lock' = Free /\ seen' = {}
        /\ \/ /\ services' = SyncedServices(r)
              /\ IF local THEN Goes(r, "synced") ELSE Ends(r)
              /\ NoFault
           \/ /\ active = {} /\ seen # {} /\ Fault
              /\ Ends(r)
              /\ UNCHANGED services
        /\ UNCHANGED <<rows, listed, policyVars, directory, local>>

(* An engine on the same node is synchronized at once: sync_one_policy.     *)
SyncPolicyRead(r) ==
    /\ request[r] = "synced"
    /\ policyLock = Free /\ policyLock' = r
    /\ policySeen' = NamesOf(rows) \intersect {Name(r)}
    /\ todo' = policySeen' \ {n \in Names : policies[n] # None}
    /\ Goes(r, "registering")
    /\ UNCHANGED <<rows, services, lock, seen, listed, policies, directory, local, faults>>

(* _register_datasource_with_pe for what is left to do: a name without a    *)
(* service is passed over, a service that does not answer is an exception.  *)
WithSchemas ==
    [n \in Names |-> IF n \in todo /\ Named(services, n) # {}
                     THEN CHOOSE i \in services : NameOf[i] = n ELSE policies[n]]

SyncPolicy(r) ==
    /\ request[r] = "registering"
    /\ policyLock' = Free /\ policySeen' = {} /\ todo' = {}
    /\ \/ /\ policies' = IF policySeen = {} THEN [policies EXCEPT ![Name(r)] = None]
                         ELSE WithSchemas
          /\ NoFault /\ UNCHANGED rows
       \/ /\ todo # {} /\ IsValidService(Name(r)) /\ Fault
          /\ rows' = IF r[1] = "add" THEN rows \ {r[2]} ELSE rows
          /\ UNCHANGED policies
    /\ Ends(r)
    /\ UNCHANGED <<services, lock, seen, listed, directory, local>>

-----------------------------------------------------------------------------
(* synchronize_all_datasources: the rows are read, then missing services    *)
(* are created one by one; an exception ends it before any is unregistered. *)
SyncAllRead ==
    /\ Unlocked /\ lock' = All
    /\ listed' = rows
    /\ UNCHANGED <<rows, services, request, seen, policyVars, directory, local, faults>>

SyncAll ==
    LET missing == listed \ services
        inUse == {i \in missing : Named(services, NameOf[i]) # {}}
    IN  /\ listed # NotListed /\ listed' = NotListed
        /\ lock' = Free
        /\ \/ /\ inUse = {} /\ NoFault
              /\ services' = listed
           \/ /\ inUse # {} /\ NoFault
              /\ \E created \in SUBSET (missing \ inUse) : services' = services \union created
           \/ /\ Fault
              /\ \E created \in SUBSET (missing \ inUse) : services' = services \union created
        /\ UNCHANGED <<rows, request, seen, policyVars, directory, local>>

(* synchronize_all_policies, _sync_datasource_policies.                     *)
SyncPoliciesRead ==
    /\ policyLock = Free /\ policyLock' = All
    /\ policySeen' = NamesOf(rows)
    /\ todo' = {n \in NamesOf(rows) : policies[n] = None}
    /\ UNCHANGED <<serviceVars, policies, directory, local, faults>>

(* One name after the other; a call that fails ends the task.               *)
RegisterNext(n) ==
    /\ policyLock = All /\ n \in todo
    /\ \/ /\ IsValidService(n) => Named(services, n) # {}
          /\ policies' = [policies EXCEPT ![n] =
                 IF IsValidService(n) THEN CHOOSE i \in services : NameOf[i] = n ELSE None]
          /\ todo' = todo \ {n}
          /\ NoFault /\ UNCHANGED <<policyLock, policySeen>>
       \/ /\ IsValidService(n)
          /\ IF Named(services, n) = {} THEN NoFault ELSE Fault
          /\ policyLock' = Free /\ policySeen' = {} /\ todo' = {}
          /\ UNCHANGED policies
    /\ UNCHANGED <<serviceVars, directory, local>>

(* Mutant: no policy is taken back.                                         *)
KeepPolicies == policies

(* Mutant: the policy of a service that is not heard of goes.               *)
HeardPolicies ==
    [n \in Names |-> IF n \in policySeen /\ IsValidService(n) THEN policies[n] ELSE None]

RemovedPolicies == [n \in Names |-> IF n \in policySeen THEN policies[n] ELSE None]

SyncPolicies ==
    /\ policyLock = All /\ todo = {}
    /\ policyLock' = Free /\ policySeen' = {}
    /\ policies' = RemovedPolicies
    /\ UNCHANGED <<serviceVars, todo, directory, local, faults>>

-----------------------------------------------------------------------------
(* A heartbeat of the manager's node reaches the engine's.                  *)
Heartbeat ==
    /\ ~local /\ directory' = NamesOf(services)
    /\ UNCHANGED <<serviceVars, policyVars, local, faults>>

(* The manager's node crashes and starts again: requests go unanswered; an  *)
(* engine on it starts anew too.                                            *)
Restart ==
    /\ Fault
    /\ services' = {} /\ lock' = Free /\ seen' = {} /\ listed' = NotListed
    /\ request' = [r \in Requests |-> IF r[1] = "add" /\ request[r] # "none" THEN "done" ELSE "none"]
    /\ IF local THEN /\ policies' = [n \in Names |-> None]
                     /\ policyLock' = Free /\ policySeen' = {} /\ todo' = {}
                ELSE UNCHANGED policyVars
    /\ UNCHANGED <<rows, directory, local>>

Init ==
    /\ rows = {} /\ services = {} /\ directory = {}
    /\ policies = [n \in Names |-> None]
    /\ local \in BOOLEAN
    /\ request = [r \in Requests |-> "none"]
    /\ lock = Free /\ seen = {} /\ listed = NotListed
    /\ policyLock = Free /\ policySeen = {} /\ todo = {}
    /\ faults = 0

Next ==
    \/ \E i \in Ids : Add(i) \/ Delete(i)
    \/ \E r \in Requests : \/ SyncOneRead(r) \/ SyncOne(r) \/ SyncPolicyRead(r) \/ SyncPolicy(r)
    \/ SyncAllRead \/ SyncAll \/ SyncPoliciesRead \/ SyncPolicies
    \/ \E n \in Names : RegisterNext(n)
    \/ Heartbeat \/ Restart

Spec == Init /\ [][Next]_vars

(* Green threads that can run do run; requests get a lock that is free again*)
(* and again; heartbeats keep coming.                                       *)
Fairness ==
    /\ SF_vars(\E r \in Requests : SyncOneRead(r))
    /\ SF_vars(\E r \in Requests : SyncPolicyRead(r))
    /\ WF_vars(\E r \in Requests : SyncOne(r) \/ SyncPolicy(r))
    /\ WF_vars(SyncAllRead) /\ WF_vars(SyncAll)
    /\ WF_vars(SyncPoliciesRead) /\ WF_vars(SyncPolicies)
    /\ WF_vars(\E n \in Names : RegisterNext(n))
    /\ WF_vars(Heartbeat)

FairSpec == Spec /\ Fairness

-----------------------------------------------------------------------------
TypeOK ==
    /\ rows \subseteq Ids /\ services \subseteq Ids /\ seen \subseteq Ids
    /\ listed \in (SUBSET Ids) \union {NotListed}
    /\ policies \in [Names -> Ids \union {None}]
    /\ directory \subseteq Names /\ local \in BOOLEAN
    /\ request \in [Requests -> Steps]
    /\ lock \in Requests \union {All, Free} /\ policyLock \in Requests \union {All, Free}
    /\ lock = All <=> listed # NotListed
    /\ policySeen \subseteq Names /\ todo \subseteq policySeen
    /\ faults \in 0 .. MaxFaults

(* A synchronization that read the rows before a datasource was added does  *)
(* not take its service away, not the only one either: only a restart does  *)
(* (congress_synchronize_datasources).                                      *)
ServicesKept == [][\A i \in rows \intersect services : i \in services' \/ Restart]_services

(* Nor the policy that holds its schema, which goes when the engine on that *)
(* node restarts with it (congress_synchronize_policies).                   *)
PoliciesKept ==
    [][\A i \in rows \intersect services :
          policies[NameOf[i]] = i => policies'[NameOf[i]] = i \/ (local /\ Restart)]_vars

(* Requests over, the services are those of the rows and the policies those *)
(* of the services, whatever failed meanwhile (the periodic tasks).         *)
Converges ==
    <>[](services = rows /\ \A n \in Names :
           {policies[n]} \ {None} = Named(rows, n))
=============================================================================
