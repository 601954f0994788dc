------------------------- MODULE ActionLeader_proofs -------------------------
(***************************************************************************)
(* Actions are obeyed from one engine as long as no engine gave reason to  *)
(* be dropped, for any number of engines and any LEADER_TIMEOUT.  The      *)
(* argument: a remote engine without such a reason is up and missed fewer  *)
(* than Timeout heartbeats in a row, so that the age of its last one stays *)
(* within Timeout, and the leader is vacated only beyond that.             *)
(***************************************************************************)
EXTENDS ActionLeader, TLAPS

(* One second is owed for a heartbeat that is due or on its way.            *)
Owed(e) == IF e \in due \union beats THEN 1 ELSE 0

(* A remote engine that is not excused runs and was heard of in time.       *)
HeardInTime ==
    \A e \in Remote \ excused :
        /\ e \in up
        /\ missed[e] < Timeout
        /\ heard[e] # Never => heard[e] <= missed[e] + Owed(e)

(* Whoever was obeyed is excused or still the leader, and the leader was    *)
(* heard of when it was elected.                                            *)
OthersExcused == \A e \in obeyed : e \in excused \/ e = leader

LeaderHeard == leader \in Remote \ excused => heard[leader] # Never

HomeDown == Driver \notin up => excused = Engines

IInv == TypeOK /\ HeardInTime /\ OthersExcused /\ LeaderHeard /\ HomeDown

-----------------------------------------------------------------------------
(* The state keeps its shape (every handler of the control bus and of the   *)
(* execution driver).                                                       *)
LEMMA TypeStep == TypeOK /\ [Next]_vars => TypeOK'
<1> SUFFICES ASSUME TypeOK, [Next]_vars PROVE TypeOK'
  OBVIOUS
<1> USE LeaderAssumption DEF TypeOK, Never, Nodes, Remote, Home
<1>1. ASSUME NEW e \in Engines, EngineBeat(e) PROVE TypeOK'
  BY <1>1 DEF EngineBeat, DropEchos
<1>2. ASSUME NEW e \in Engines, HearEngine(e) PROVE TypeOK'
  BY <1>2 DEF HearEngine
<1>3. ASSUME NEW e \in Engines, HearDriver(e) PROVE TypeOK'
  BY <1>3 DEF HearDriver
<1>4. ASSUME NEW e \in Engines, LoseBeat(e) PROVE TypeOK'
  BY <1>4 DEF LoseBeat
<1>5. ASSUME NEW e \in Engines, Fire(e) PROVE TypeOK'
  BY <1>5 DEF Fire, busVars
<1>6. ASSUME NEW e \in Engines, LoseRequest(e) PROVE TypeOK'
  BY <1>6 DEF LoseRequest, busVars
<1>7. ASSUME NEW e \in Engines, RequestExecute(e) PROVE TypeOK'
  BY <1>7 DEF RequestExecute, busVars
<1>8. ASSUME NEW e \in Engines, Crash(e) PROVE TypeOK'
  BY <1>8 DEF Crash, Fault
<1>9. ASSUME NEW e \in Engines, Restart(e) PROVE TypeOK'
  BY <1>9 DEF Restart
<1>10. CASE DriverBeat
  BY <1>10 DEF DriverBeat
<1>11. CASE Tick
  BY <1>11 DEF Tick
<1>12. CASE CrashHome
  BY <1>12 DEF CrashHome, Fault
<1>13. CASE RestartHome
  BY <1>13 DEF RestartHome
<1>14. CASE RestartService
  BY <1>14 DEF RestartService, Fault, busVars
<1>15. CASE UNCHANGED vars
  BY <1>15 DEF vars, busVars
<1> QED
  BY <1>1, <1>2, <1>3, <1>4, <1>5, <1>6, <1>7, <1>8, <1>9, <1>10, <1>11, <1>12, <1>13,
     <1>14, <1>15 DEF Next

LEMMA InitHolds == Init => IInv
  BY LeaderAssumption DEF Init, IInv, TypeOK, HeardInTime, OthersExcused, LeaderHeard, HomeDown,
     Never, Nodes, Remote

-----------------------------------------------------------------------------
(* A leader that is dropped for its age has given a reason.                 *)
LEMMA LostIsExcused ==
    ASSUME IInv, NEW e \in Engines, Lost(e), heard[e] # Never
    PROVE  e \in excused
<1> SUFFICES ASSUME e \notin excused PROVE FALSE
  OBVIOUS
<1>1. missed[e] < Timeout /\ heard[e] <= missed[e] + Owed(e)
  BY DEF IInv, HeardInTime, Lost, Remote
<1>2. heard[e] \in Nat /\ missed[e] \in Nat
  BY LeaderAssumption DEF IInv, TypeOK, Never
<1>3. Owed(e) \in {0, 1}
  BY DEF Owed
<1> QED
  BY <1>1, <1>2, <1>3, LeaderAssumption DEF Lost

(* Nobody who was heard in time is late after a step.                       *)
LEMMA HeardStep == IInv /\ [Next]_vars => HeardInTime'
<1> SUFFICES ASSUME IInv, [Next]_vars PROVE HeardInTime'
  OBVIOUS
<1> USE LeaderAssumption DEF IInv, HeardInTime, Owed, Remote, TypeOK, Never
<1>1. ASSUME NEW e \in Engines, EngineBeat(e) PROVE HeardInTime'
  BY <1>1 DEF EngineBeat, DropEchos
<1>2. ASSUME NEW e \in Engines, HearEngine(e) PROVE HeardInTime'
  BY <1>2 DEF HearEngine
<1>3. ASSUME NEW e \in Engines, HearDriver(e) PROVE HeardInTime'
  BY <1>3 DEF HearDriver
<1>4. ASSUME NEW e \in Engines, LoseBeat(e) PROVE HeardInTime'
  BY <1>4 DEF LoseBeat
<1>5. ASSUME NEW e \in Engines, Fire(e) PROVE HeardInTime'
  BY <1>5 DEF Fire, busVars
<1>6. ASSUME NEW e \in Engines, LoseRequest(e) PROVE HeardInTime'
  BY <1>6 DEF LoseRequest, busVars
<1>7. ASSUME NEW e \in Engines, RequestExecute(e) PROVE HeardInTime'
  BY <1>7 DEF RequestExecute, busVars
<1>8. ASSUME NEW e \in Engines, Crash(e) PROVE HeardInTime'
  BY <1>8 DEF Crash
<1>9. ASSUME NEW e \in Engines, Restart(e) PROVE HeardInTime'
  BY <1>9 DEF Restart
<1>10. CASE DriverBeat
  BY <1>10 DEF DriverBeat
<1>11. CASE Tick
  <2> SUFFICES ASSUME NEW e \in Remote \ excused
               PROVE  /\ e \in up' /\ missed'[e] < Timeout
                      /\ heard'[e] # Never => heard'[e] <= missed'[e] + Owed(e)'
    BY <1>11 DEF Tick
  <2>1. e \in up /\ e \notin due \union beats /\ e \in due'
    BY <1>11 DEF Tick
  <2>2. heard'[e] = IF heard[e] > Timeout THEN heard[e] ELSE heard[e] + 1
    BY <1>11 DEF Tick
  <2> QED
    BY <1>11, <2>1, <2>2 DEF Tick
<1>12. CASE CrashHome
  BY <1>12 DEF CrashHome
<1>13. CASE RestartHome
  BY <1>13 DEF RestartHome, HomeDown
<1>14. CASE RestartService
  BY <1>14 DEF RestartService
<1>15. CASE UNCHANGED vars
  BY <1>15 DEF vars, busVars
<1> QED
  BY <1>1, <1>2, <1>3, <1>4, <1>5, <1>6, <1>7, <1>8, <1>9, <1>10, <1>11, <1>12, <1>13,
     <1>14, <1>15 DEF Next

(* Election and vacating keep the record of who was obeyed.                 *)
LEMMA LeaderStep ==
    IInv /\ [Next]_vars => (OthersExcused /\ LeaderHeard /\ HomeDown)'
<1> SUFFICES ASSUME IInv, [Next]_vars PROVE (OthersExcused /\ LeaderHeard /\ HomeDown)'
  OBVIOUS
<1> DEFINE Goal == OthersExcused /\ LeaderHeard /\ HomeDown
<1> USE LeaderAssumption DEF IInv, OthersExcused, LeaderHeard, HomeDown, Remote, TypeOK, Never, Home
<1>1. ASSUME NEW e \in Engines, EngineBeat(e) PROVE Goal'
  BY <1>1 DEF EngineBeat
<1>2. ASSUME NEW e \in Engines, HearEngine(e) PROVE Goal'
  BY <1>2 DEF HearEngine
<1>3. ASSUME NEW e \in Engines, HearDriver(e) PROVE Goal'
  BY <1>3 DEF HearDriver
<1>4. ASSUME NEW e \in Engines, LoseBeat(e) PROVE Goal'
  BY <1>4 DEF LoseBeat
<1>5. ASSUME NEW e \in Engines, Fire(e) PROVE Goal'
  BY <1>5 DEF Fire, busVars
<1>6. ASSUME NEW e \in Engines, LoseRequest(e) PROVE Goal'
  BY <1>6 DEF LoseRequest, busVars
<1>7. ASSUME NEW e \in Engines, RequestExecute(e) PROVE Goal'
  BY <1>7 DEF RequestExecute, Obeys, busVars
<1>8. ASSUME NEW e \in Engines, Crash(e) PROVE Goal'
  BY <1>8 DEF Crash
<1>9. ASSUME NEW e \in Engines, Restart(e) PROVE Goal'
  BY <1>9 DEF Restart
<1>10. CASE DriverBeat
  <2>1. CASE leader # None /\ Lost(leader)
    <3>1. leader \in Engines /\ (heard[leader] # Never => leader \in excused)
      BY <2>1, LostIsExcused
    <3>2. leader \in excused
      BY <2>1, <3>1 DEF Lost
    <3> QED
      BY <1>10, <2>1, <3>2 DEF DriverBeat
  <2>2. CASE ~(leader # None /\ Lost(leader))
    BY <1>10, <2>2 DEF DriverBeat
  <2> QED
    BY <2>1, <2>2
<1>11. CASE Tick
  BY <1>11 DEF Tick
<1>12. CASE CrashHome
  BY <1>12 DEF CrashHome
<1>13. CASE RestartHome
  BY <1>13 DEF RestartHome
<1>14. CASE RestartService
  BY <1>14 DEF RestartService
<1>15. CASE UNCHANGED vars
  BY <1>15 DEF vars, busVars
<1> QED
  BY <1>1, <1>2, <1>3, <1>4, <1>5, <1>6, <1>7, <1>8, <1>9, <1>10, <1>11, <1>12, <1>13,
     <1>14, <1>15 DEF Next

-----------------------------------------------------------------------------
LEMMA IInvHolds == Spec => []IInv
<1>1. IInv /\ [Next]_vars => IInv'
  BY TypeStep, HeardStep, LeaderStep DEF IInv
<1> QED
  BY InitHolds, <1>1, PTL DEF Spec

(* The state of driver, bus and engines keeps its shape.                    *)
THEOREM TypeCorrect == Spec => []TypeOK
<1>1. IInv => TypeOK
  BY DEF IInv
<1> QED
  BY IInvHolds, <1>1, PTL

(* Actions of two engines are executed only if one of them gave reason to   *)
(* be dropped (request_execute, _check_leader_heartbeat).                   *)
THEOREM OneEngineIsObeyed == Spec => []OneIsObeyed
<1>1. IInv => OneIsObeyed
  BY DEF IInv, OthersExcused, OneIsObeyed
<1> QED
  BY IInvHolds, <1>1, PTL
=============================================================================
