------------------------ MODULE PollingDriver_proofs ------------------------
(***************************************************************************)
(* What a driver has fetched is published when its poller rests, for any   *)
(* tables, callers, changes and errors.  The argument: while a poll        *)
(* publishes, the tables it is done with are published; a lazy table that  *)
(* is registered meanwhile has nothing to publish, or its answer counts as *)
(* published at once.                                                      *)
(***************************************************************************)
EXTENDS PollingDriver, TLAPS

(* Polls and calls of get_snapshot work on tables that are registered.      *)
PollKnows ==
    /\ iterated \subseteq registered /\ todo \subseteq registered
    /\ answer # NotYet => answer[1] \in registered
    /\ \A t \in Lazy : lazyAnswer[t] # NotYet => t \in registered

(* Nothing of a poll is left when the poller was killed, nothing of a call  *)
(* when the service is gone.                                                *)
Killed ==
    /\ poller = "killed" => ~timed /\ iterated = {} /\ todo = {} /\ answer = NotYet
    /\ service = "gone" => \A t \in Lazy : lazyAnswer[t] = NotYet

(* Tables that were never asked for.                                        *)
NewTables == \A t \in Tables \ registered : last[t] = NotYet /\ state[t] = FALSE

Published(t) == last[t] = state[t] \/ (last[t] = NotYet /\ ~state[t])

(* What is published between polls, and what a poll has published so far.   *)
Rest ==
    /\ poller \in {"loop", "get"} /\ ~failed => \A t \in registered : Published(t)
    /\ poller = "publish" => \A t \in registered \ todo : Published(t)

IInv == TypeOK /\ PollKnows /\ Killed /\ NewTables /\ Rest

-----------------------------------------------------------------------------
LEMMA TypeStep == IInv /\ [Next]_vars => TypeOK'
<1> SUFFICES ASSUME IInv, [Next]_vars PROVE TypeOK'
  OBVIOUS
<1> USE PollingAssumption DEF IInv, Tables, pollVars, requestVars, tableVars, TypeOK, PollKnows, Killed
<1>1. ASSUME NEW t \in Tables, Fetch(t) PROVE TypeOK'
  BY <1>1 DEF Fetch
<1>2. ASSUME NEW t \in Tables, Publish(t) PROVE TypeOK'
  BY <1>2 DEF Publish
<1>3. ASSUME NEW t \in Tables, Snapshot(t) PROVE TypeOK'
  BY <1>3 DEF Snapshot
<1>4. ASSUME NEW t \in Tables, Change(t) PROVE TypeOK'
  BY <1>4 DEF Change
<1>5. ASSUME NEW t \in Lazy, FetchLazy(t) PROVE TypeOK'
  BY <1>5 DEF FetchLazy
<1>6. ASSUME NEW t \in Lazy, TakeLazyAnswer(t) PROVE TypeOK'
  BY <1>6 DEF TakeLazyAnswer
<1>7. ASSUME NEW t \in Lazy, LazyFails(t) PROVE TypeOK'
  BY <1>7 DEF LazyFails
<1>8. ASSUME NEW c \in Callers, RequestRefresh(c) PROVE TypeOK'
  BY <1>8 DEF RequestRefresh
<1>9. ASSUME NEW c \in Callers, PutReturns(c) PROVE TypeOK'
  BY <1>9 DEF PutReturns
<1>10. CASE Loop
  BY <1>10 DEF Loop, FirstPoll, StartPoll
<1>11. CASE Refresh
  BY <1>11 DEF Refresh, Take, StartPoll
<1>12. CASE TimedOut
  BY <1>12 DEF TimedOut, PollAgain, StartPoll
<1>13. CASE TakeAnswer
  BY <1>13 DEF TakeAnswer
<1>14. CASE PollFails
  BY <1>14 DEF PollFails, CatchError, EndPoll
<1>15. CASE StartPublishing
  BY <1>15 DEF StartPublishing
<1>16. CASE FinishPoll
  BY <1>16 DEF FinishPoll, EndPoll, KeepRequests
<1>17. CASE Stop
  BY <1>17 DEF Stop
<1>18. CASE Wait
  BY <1>18 DEF Wait
<1>19. CASE Create
  BY <1>19 DEF Create
<1>20. CASE UNCHANGED vars
  BY <1>20 DEF vars
<1> QED
  BY <1>1, <1>2, <1>3, <1>4, <1>5, <1>6, <1>7, <1>8, <1>9, <1>10, <1>11, <1>12, <1>13, <1>14, <1>15, <1>16, <1>17, <1>18, <1>19, <1>20 DEF Next

LEMMA KnowsStep == IInv /\ [Next]_vars => PollKnows'
<1> SUFFICES ASSUME IInv, [Next]_vars PROVE PollKnows'
  OBVIOUS
<1> USE PollingAssumption DEF IInv, Tables, pollVars, requestVars, tableVars, TypeOK, PollKnows, Killed
<1>1. ASSUME NEW t \in Tables, Fetch(t) PROVE PollKnows'
  BY <1>1 DEF Fetch
<1>2. ASSUME NEW t \in Tables, Publish(t) PROVE PollKnows'
  BY <1>2 DEF Publish
<1>3. ASSUME NEW t \in Tables, Snapshot(t) PROVE PollKnows'
  BY <1>3 DEF Snapshot
<1>4. ASSUME NEW t \in Tables, Change(t) PROVE PollKnows'
  BY <1>4 DEF Change
<1>5. ASSUME NEW t \in Lazy, FetchLazy(t) PROVE PollKnows'
  BY <1>5 DEF FetchLazy
<1>6. ASSUME NEW t \in Lazy, TakeLazyAnswer(t) PROVE PollKnows'
  BY <1>6 DEF TakeLazyAnswer
<1>7. ASSUME NEW t \in Lazy, LazyFails(t) PROVE PollKnows'
  BY <1>7 DEF LazyFails
<1>8. ASSUME NEW c \in Callers, RequestRefresh(c) PROVE PollKnows'
  BY <1>8 DEF RequestRefresh
<1>9. ASSUME NEW c \in Callers, PutReturns(c) PROVE PollKnows'
  BY <1>9 DEF PutReturns
<1>10. CASE Loop
  BY <1>10 DEF Loop, FirstPoll, StartPoll
<1>11. CASE Refresh
  BY <1>11 DEF Refresh, Take, StartPoll
<1>12. CASE TimedOut
  BY <1>12 DEF TimedOut, PollAgain, StartPoll
<1>13. CASE TakeAnswer
  BY <1>13 DEF TakeAnswer
<1>14. CASE PollFails
  BY <1>14 DEF PollFails, CatchError, EndPoll
<1>15. CASE StartPublishing
  BY <1>15 DEF StartPublishing
<1>16. CASE FinishPoll
  BY <1>16 DEF FinishPoll, EndPoll, KeepRequests
<1>17. CASE Stop
  BY <1>17 DEF Stop
<1>18. CASE Wait
  BY <1>18 DEF Wait
<1>19. CASE Create
  BY <1>19 DEF Create
<1>20. CASE UNCHANGED vars
  BY <1>20 DEF vars
<1> QED
  BY <1>1, <1>2, <1>3, <1>4, <1>5, <1>6, <1>7, <1>8, <1>9, <1>10, <1>11, <1>12, <1>13, <1>14, <1>15, <1>16, <1>17, <1>18, <1>19, <1>20 DEF Next

LEMMA KilledStep == IInv /\ [Next]_vars => Killed'
<1> SUFFICES ASSUME IInv, [Next]_vars PROVE Killed'
  OBVIOUS
<1> USE PollingAssumption DEF IInv, Tables, pollVars, requestVars, tableVars, TypeOK, Killed
<1>1. ASSUME NEW t \in Tables, Fetch(t) PROVE Killed'
  BY <1>1 DEF Fetch
<1>2. ASSUME NEW t \in Tables, Publish(t) PROVE Killed'
  BY <1>2 DEF Publish
<1>3. ASSUME NEW t \in Tables, Snapshot(t) PROVE Killed'
  BY <1>3 DEF Snapshot
<1>4. ASSUME NEW t \in Tables, Change(t) PROVE Killed'
  BY <1>4 DEF Change
<1>5. ASSUME NEW t \in Lazy, FetchLazy(t) PROVE Killed'
  BY <1>5 DEF FetchLazy
<1>6. ASSUME NEW t \in Lazy, TakeLazyAnswer(t) PROVE Killed'
  BY <1>6 DEF TakeLazyAnswer
<1>7. ASSUME NEW t \in Lazy, LazyFails(t) PROVE Killed'
  BY <1>7 DEF LazyFails
<1>8. ASSUME NEW c \in Callers, RequestRefresh(c) PROVE Killed'
  BY <1>8 DEF RequestRefresh
<1>9. ASSUME NEW c \in Callers, PutReturns(c) PROVE Killed'
  BY <1>9 DEF PutReturns
<1>10. CASE Loop
  BY <1>10 DEF Loop, FirstPoll, StartPoll
<1>11. CASE Refresh
  BY <1>11 DEF Refresh, Take, StartPoll
<1>12. CASE TimedOut
  BY <1>12 DEF TimedOut, PollAgain, StartPoll
<1>13. CASE TakeAnswer
  BY <1>13 DEF TakeAnswer
<1>14. CASE PollFails
  BY <1>14 DEF PollFails, CatchError, EndPoll
<1>15. CASE StartPublishing
  BY <1>15 DEF StartPublishing
<1>16. CASE FinishPoll
  BY <1>16 DEF FinishPoll, EndPoll, KeepRequests
<1>17. CASE Stop
  BY <1>17 DEF Stop
<1>18. CASE Wait
  BY <1>18 DEF Wait
<1>19. CASE Create
  BY <1>19 DEF Create
<1>20. CASE UNCHANGED vars
  BY <1>20 DEF vars
<1> QED
  BY <1>1, <1>2, <1>3, <1>4, <1>5, <1>6, <1>7, <1>8, <1>9, <1>10, <1>11, <1>12, <1>13, <1>14, <1>15, <1>16, <1>17, <1>18, <1>19, <1>20 DEF Next

LEMMA FreshStep == IInv /\ [Next]_vars => NewTables'
<1> SUFFICES ASSUME IInv, [Next]_vars PROVE NewTables'
  OBVIOUS
<1> USE PollingAssumption DEF IInv, Tables, pollVars, requestVars, tableVars, TypeOK, PollKnows, Killed, NewTables
<1>1. ASSUME NEW t \in Tables, Fetch(t) PROVE NewTables'
  BY <1>1 DEF Fetch
<1>2. ASSUME NEW t \in Tables, Publish(t) PROVE NewTables'
  BY <1>2 DEF Publish
<1>3. ASSUME NEW t \in Tables, Snapshot(t) PROVE NewTables'
  BY <1>3 DEF Snapshot
<1>4. ASSUME NEW t \in Tables, Change(t) PROVE NewTables'
  BY <1>4 DEF Change
<1>5. ASSUME NEW t \in Lazy, FetchLazy(t) PROVE NewTables'
  BY <1>5 DEF FetchLazy
<1>6. ASSUME NEW t \in Lazy, TakeLazyAnswer(t) PROVE NewTables'
  BY <1>6 DEF TakeLazyAnswer
<1>7. ASSUME NEW t \in Lazy, LazyFails(t) PROVE NewTables'
  BY <1>7 DEF LazyFails
<1>8. ASSUME NEW c \in Callers, RequestRefresh(c) PROVE NewTables'
  BY <1>8 DEF RequestRefresh
<1>9. ASSUME NEW c \in Callers, PutReturns(c) PROVE NewTables'
  BY <1>9 DEF PutReturns
<1>10. CASE Loop
  BY <1>10 DEF Loop, FirstPoll, StartPoll
<1>11. CASE Refresh
  BY <1>11 DEF Refresh, Take, StartPoll
<1>12. CASE TimedOut
  BY <1>12 DEF TimedOut, PollAgain, StartPoll
<1>13. CASE TakeAnswer
  BY <1>13 DEF TakeAnswer
<1>14. CASE PollFails
  BY <1>14 DEF PollFails, CatchError, EndPoll
<1>15. CASE StartPublishing
  BY <1>15 DEF StartPublishing
<1>16. CASE FinishPoll
  BY <1>16 DEF FinishPoll, EndPoll, KeepRequests
<1>17. CASE Stop
  BY <1>17 DEF Stop
<1>18. CASE Wait
  BY <1>18 DEF Wait
<1>19. CASE Create
  BY <1>19 DEF Create
<1>20. CASE UNCHANGED vars
  BY <1>20 DEF vars
<1> QED
  BY <1>1, <1>2, <1>3, <1>4, <1>5, <1>6, <1>7, <1>8, <1>9, <1>10, <1>11, <1>12, <1>13, <1>14, <1>15, <1>16, <1>17, <1>18, <1>19, <1>20 DEF Next

LEMMA RestStep == IInv /\ [Next]_vars => Rest'
<1> SUFFICES ASSUME IInv, [Next]_vars PROVE Rest'
  OBVIOUS
<1> USE PollingAssumption DEF IInv, Tables, pollVars, requestVars, tableVars, TypeOK, PollKnows, Killed, NewTables, Rest, Published
<1>1. ASSUME NEW t \in Tables, Fetch(t) PROVE Rest'
  BY <1>1 DEF Fetch
<1>2. ASSUME NEW t \in Tables, Publish(t) PROVE Rest'
  BY <1>2 DEF Publish
<1>3. ASSUME NEW t \in Tables, Snapshot(t) PROVE Rest'
  BY <1>3 DEF Snapshot
<1>4. ASSUME NEW t \in Tables, Change(t) PROVE Rest'
  BY <1>4 DEF Change
<1>5. ASSUME NEW t \in Lazy, FetchLazy(t) PROVE Rest'
  BY <1>5 DEF FetchLazy
<1>6. ASSUME NEW t \in Lazy, TakeLazyAnswer(t) PROVE Rest'
  BY <1>6 DEF TakeLazyAnswer
<1>7. ASSUME NEW t \in Lazy, LazyFails(t) PROVE Rest'
  BY <1>7 DEF LazyFails
<1>8. ASSUME NEW c \in Callers, RequestRefresh(c) PROVE Rest'
  BY <1>8 DEF RequestRefresh
<1>9. ASSUME NEW c \in Callers, PutReturns(c) PROVE Rest'
  BY <1>9 DEF PutReturns
<1>10. CASE Loop
  BY <1>10 DEF Loop, FirstPoll, StartPoll
<1>11. CASE Refresh
  BY <1>11 DEF Refresh, Take, StartPoll
<1>12. CASE TimedOut
  BY <1>12 DEF TimedOut, PollAgain, StartPoll
<1>13. CASE TakeAnswer
  BY <1>13 DEF TakeAnswer
<1>14. CASE PollFails
  BY <1>14 DEF PollFails, CatchError, EndPoll
<1>15. CASE StartPublishing
  BY <1>15 DEF StartPublishing
<1>16. CASE FinishPoll
  BY <1>16 DEF FinishPoll, EndPoll, KeepRequests
<1>17. CASE Stop
  BY <1>17 DEF Stop
<1>18. CASE Wait
  BY <1>18 DEF Wait
<1>19. CASE Create
  BY <1>19 DEF Create
<1>20. CASE UNCHANGED vars
  BY <1>20 DEF vars
<1> QED
  BY <1>1, <1>2, <1>3, <1>4, <1>5, <1>6, <1>7, <1>8, <1>9, <1>10, <1>11, <1>12, <1>13, <1>14, <1>15, <1>16, <1>17, <1>18, <1>19, <1>20 DEF Next

LEMMA InitHolds == Init => IInv
  BY PollingAssumption DEF Init, IInv, TypeOK, Tables, PollKnows, Killed, NewTables, Rest, Published

LEMMA Invariance == Spec => []IInv
<1>1. IInv /\ [Next]_vars => IInv'
  BY TypeStep, KnowsStep, KilledStep, FreshStep, RestStep DEF IInv
<1> QED
  BY InitHolds, <1>1, PTL DEF Spec

(* The poller runs exactly while its service does, a Timeout is pending     *)
(* only for a periodic poller, and only registered tables have numbers.     *)
THEOREM TypeCorrect == Spec => []TypeOK
<1>1. IInv => TypeOK
  BY DEF IInv
<1> QED
  BY Invariance, <1>1, PTL

(* Between two polls, everything that was fetched is published, unless the  *)
(* last poll failed.                                                        *)
THEOREM PublishedAtRest == Spec => []RestIsPublished
<1>1. IInv => RestIsPublished
  BY DEF IInv, Rest, Published, RestIsPublished
<1> QED
  BY Invariance, <1>1, PTL
=============================================================================
