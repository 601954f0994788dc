---------------------------- MODULE ActionLeader ----------------------------
(***************************************************************************)
(* Which policy engine a datasource driver obeys.  Every engine requests   *)
(* every action; the driver obeys the first engine it hears a request of,  *)
(* its leader, until its node has not heard the leader's node for          *)
(* LEADER_TIMEOUT seconds.  The nodes' control buses send heartbeats every *)
(* second, answer a node that starts, and list the services of their peers.*)
(***************************************************************************)
EXTENDS Naturals, FiniteSets

CONSTANTS Engines,     \* nodes with a policy engine
          Timeout,     \* LEADER_TIMEOUT, in heartbeat intervals
          MaxFaults,   \* bound: crashes and restarts
          None, Driver \* no engine; the node of the driver

ASSUME LeaderAssumption ==
    /\ Timeout \in Nat \ {0} /\ MaxFaults \in Nat
    /\ None \notin Engines /\ Driver \notin Engines

VARIABLES local,       \* engines on the driver's own node (fixed)
          up,          \* nodes that run
          known,       \* engines whose node has seen the driver's service
          due,         \* nodes whose heartbeat loop has not run this second
          beats,       \* engines whose heartbeat is on its way to the driver
          hellos,      \* engines the driver's heartbeat is on its way to
          heard,       \* age of peers[e]['last_hb_time'], Never if no peer
          leader,      \* _leader_node_id
          requests,    \* engines whose request_execute is on its way
          obeyed,      \* history: engines whose request was executed
          missed,      \* history: heartbeats lost in a row
          excused,     \* history: engines that gave reason to be dropped
          faults       \* crashes and restarts so far

busVars == <<known, due, beats, hellos, heard, missed>>
vars == <<local, up, busVars, leader, requests, obeyed, excused, faults>>

Never == Timeout + 2
Nodes == Engines \union {Driver}
Remote == Engines \ local
Home == local \union {Driver}

-----------------------------------------------------------------------------
(* Mutant: a node takes its own heartbeat for a peer's.                     *)
KeepEchos(sent) == sent

(* drop_cast_echos: the heartbeats that count are those of other nodes.     *)
DropEchos(sent) == sent \ local

(* _heartbeat_loop of an engine's node.                                     *)
EngineBeat(e) ==
    /\ e \in up \intersect due
    /\ due' = due \ {e}
    /\ beats' = beats \union DropEchos({e})
    /\ UNCHANGED <<local, up, known, hellos, heard, missed, leader, requests, obeyed, excused, faults>>

(* Mutant: a heartbeat that is due but not late counts as lost.             *)
LostEarly(e) == e \in Remote /\ heard[e] >= Timeout

(* Mutant: an engine that never was a peer is not lost.                     *)
LostPeer(e) == e \in Remote /\ heard[e] > Timeout /\ heard[e] # Never

(* _check_leader_heartbeat.                                                 *)
Lost(e) == e \in Remote /\ heard[e] > Timeout

(* _heartbeat_loop of the driver's node, with the callback check_leader.    *)
DriverBeat ==
    /\ Driver \in up \intersect due
    /\ due' = due \ {Driver}
    /\ hellos' = Remote \intersect up
    /\ known' = known \union local
    /\ leader' = IF leader # None /\ Lost(leader) THEN None ELSE leader
    /\ UNCHANGED <<local, up, beats, heard, missed, requests, obeyed, excused, faults>>

(* accept_heartbeat, at the driver's node and at an engine's.               *)
HearEngine(e) ==
    /\ e \in beats /\ beats' = beats \ {e}
    /\ heard' = [heard EXCEPT ![e] = 0]
    /\ missed' = [missed EXCEPT ![e] = 0]
    /\ UNCHANGED <<local, up, known, due, hellos, leader, requests, obeyed, excused, faults>>

HearDriver(e) ==
    /\ e \in hellos /\ hellos' = hellos \ {e}
    /\ known' = known \union {e}
    /\ UNCHANGED <<local, up, due, beats, heard, missed, leader, requests, obeyed, excused, faults>>

(* The bus loses a heartbeat.                                               *)
LoseBeat(e) ==
    /\ e \in beats /\ beats' = beats \ {e}
    /\ missed[e] < Timeout
    /\ missed' = [missed EXCEPT ![e] = @ + 1]
    /\ excused' = IF missed[e] + 1 = Timeout THEN excused \union {e} ELSE excused
    /\ UNCHANGED <<local, up, known, due, hellos, heard, leader, requests, obeyed, faults>>

(* A second passes: every loop ran, every heartbeat came or was lost.       *)
Tick ==
    /\ due \intersect up = {} /\ beats = {} /\ hellos = {}
    /\ due' = up
    /\ heard' = [e \in Engines |-> IF heard[e] > Timeout THEN heard[e] ELSE heard[e] + 1]
    /\ UNCHANGED <<local, up, known, beats, hellos, missed, leader, requests, obeyed, excused, faults>>

-----------------------------------------------------------------------------
(* execute_action and _rpc of the engine; an engine that does not know of   *)
(* the service drops the action.                                            *)
Fire(e) ==
    /\ e \in up \intersect known
    /\ requests' = requests \union {e}
    /\ UNCHANGED <<local, up, busVars, leader, obeyed, excused, faults>>

LoseRequest(e) ==
    /\ e \in requests /\ requests' = requests \ {e}
    /\ UNCHANGED <<local, up, busVars, leader, obeyed, excused, faults>>

(* Mutant: a leader is never without a successor.                           *)
ObeysLeader(e) == leader = e

(* request_execute: the leader is obeyed, or the first without a leader.    *)
Obeys(e) == leader \in {e, None}

RequestExecute(e) ==
    /\ Driver \in up
    /\ e \in requests /\ requests' = requests \ {e}
    /\ IF Obeys(e)
       THEN /\ leader' = e
            /\ obeyed' = obeyed \union {e}
            /\ excused' = IF e \in Remote /\ heard[e] = Never THEN excused \union {e} ELSE excused
       ELSE UNCHANGED <<leader, obeyed, excused>>
    /\ UNCHANGED <<local, up, busVars, faults>>

-----------------------------------------------------------------------------
Fault == faults < MaxFaults /\ faults' = faults + 1

Crash(e) ==
    /\ Fault
    /\ e \in Remote \intersect up
    /\ up' = up \ {e}
    /\ known' = known \ {e} /\ hellos' = hellos \ {e}
    /\ excused' = excused \union {e}
    /\ UNCHANGED <<local, due, beats, heard, missed, leader, requests, obeyed>>

(* start() asks the peers for their heartbeats.                             *)
Restart(e) ==
    /\ e \in Remote \ up
    /\ up' = up \union {e} /\ due' = due \union {e}
    /\ hellos' = IF Driver \in up THEN hellos \union {e} ELSE hellos
    /\ UNCHANGED <<local, known, beats, heard, missed, leader, requests, obeyed, excused, faults>>

CrashHome ==
    /\ Fault
    /\ Driver \in up
    /\ up' = up \ Home
    /\ beats' = {} /\ known' = known \ local
    /\ leader' = None
    /\ heard' = [e \in Engines |-> Never]
    /\ excused' = Engines
    /\ UNCHANGED <<local, due, hellos, missed, requests, obeyed>>

RestartHome ==
    /\ Driver \notin up
    /\ up' = up \union Home /\ due' = due \union Home
    /\ beats' = Remote \intersect up
    /\ UNCHANGED <<local, known, hellos, heard, missed, leader, requests, obeyed, excused, faults>>

(* The datasource is deleted and created again on its node.                 *)
RestartService ==
    /\ Fault
    /\ Driver \in up
    /\ leader' = None
    /\ excused' = Engines
    /\ UNCHANGED <<local, up, busVars, requests, obeyed>>

Init ==
    /\ local \in SUBSET Engines
    /\ up = Nodes /\ due = Nodes
    /\ known = {} /\ beats = {} /\ hellos = {} /\ requests = {}
    /\ heard = [e \in Engines |-> Never]
    /\ missed = [e \in Engines |-> 0]
    /\ leader = None
    /\ obeyed = {} /\ excused = {} /\ faults = 0

Next ==
    \/ \E e \in Engines :
         \/ EngineBeat(e) \/ HearEngine(e) \/ HearDriver(e) \/ LoseBeat(e)
         \/ Fire(e) \/ LoseRequest(e) \/ RequestExecute(e)
         \/ Crash(e) \/ Restart(e)
    \/ DriverBeat \/ Tick \/ CrashHome \/ RestartHome \/ RestartService

Spec == Init /\ [][Next]_vars

(* The loops run for ever on nodes that are up, the bus delivers or loses,  *)
(* time passes and a driver's node is started again.                        *)
Fairness ==
    /\ \A e \in Engines : /\ WF_vars(EngineBeat(e)) /\ WF_vars(RequestExecute(e))
                          /\ WF_vars(HearEngine(e) \/ LoseBeat(e)) /\ WF_vars(HearDriver(e))
    /\ WF_vars(DriverBeat) /\ WF_vars(Tick) /\ WF_vars(RestartHome)

FairSpec == Spec /\ Fairness

-----------------------------------------------------------------------------
TypeOK ==
    /\ local \subseteq Engines
    /\ up \subseteq Nodes /\ due \subseteq Nodes
    /\ known \subseteq Engines /\ beats \subseteq Remote /\ hellos \subseteq Remote
    /\ heard \in [Engines -> 0 .. Never]
    /\ leader \in Engines \union {None}
    /\ requests \subseteq Engines /\ obeyed \subseteq Engines /\ excused \subseteq Engines
    /\ missed \in [Engines -> 0 .. Timeout]
    /\ faults \in 0 .. MaxFaults

(* "The DSD ignores execution requests initiated by all other PE instances":*)
(* actions of two engines are executed only if one of them crashed, lost    *)
(* Timeout heartbeats in a row or was obeyed before it was heard, or the    *)
(* driver started again (request_execute, _check_leader_heartbeat).         *)
OneIsObeyed ==
    \A d, e \in obeyed : d = e \/ d \in excused \/ e \in excused

(* An engine that went down for good is not the leader in the end, whatever *)
(* of its requests was still on its way (_check_leader_heartbeat).          *)
DeadLeaderVacated ==
    \A e \in Engines : <>[](e \notin up) => <>[](leader # e)

(* When only one engine is left, its requests are obeyed again (vacating by *)
(* the driver, election by request_execute).                                *)
SurvivorObeyed ==
    \A e \in Engines :
        <>[](up \intersect Engines = {e} /\ Driver \in up) 
                /\ []<><<RequestExecute(e)>>_vars
          => []<>(leader = e)
=============================================================================
