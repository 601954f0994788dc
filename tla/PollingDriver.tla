---------------------------- MODULE PollingDriver ----------------------------
(***************************************************************************)
(* The poller of a datasource driver: a green thread that polls every      *)
(* poll_time seconds and whenever a refresh is requested through a queue   *)
(* of size one.  A poll fetches every registered table and publishes what  *)
(* changed; a Timeout may cut it short.  A lazy table is registered and    *)
(* fetched by the call of its first subscriber, while the poller runs on.  *)
(* A table holds one row or none.                                          *)
(***************************************************************************)
EXTENDS Naturals, FiniteSets

CONSTANTS Eager, Lazy,   \* root tables, and those named in lazy_tables
          Callers,       \* who may be inside request_refresh at once
          NotYet,        \* no row was ever published, or is on its way
          MaxChanges,    \* bound: changes of the service's rows
          MaxErrors      \* bound: calls of the service that fail

ASSUME PollingAssumption ==
    /\ Eager \intersect Lazy = {}
    /\ NotYet \notin BOOLEAN
    /\ MaxChanges \in Nat /\ MaxErrors \in Nat

VARIABLES periodic,      \* poll_time is not zero (fixed)
          source,        \* which tables of the service have a row
          service,       \* the DataService: "runs", "stopped" or "gone"
          registered,    \* _table_deps
          state,         \* self.state: which tables have a row
          last,          \* _last_published_data
          numbered,      \* tables in sender_seqnums
          poller,        \* where poll_loop is
          timed,         \* a Timeout is pending
          polled,        \* last_updated_time is set
          failed,        \* last_error
          iterated,      \* _table_deps when update_from_datasource began
          todo,          \* tables to fetch or to publish in this poll
          answer,        \* the answer to the poller's fetch, and
          lazyAnswer,    \* to those of get_snapshot, on their way
          queued,        \* an item in refresh_request_queue
          inPut,         \* callers blocked in put()
          asked,         \* history: a request no poll has begun after
          changes, errors

pollVars == <<poller, timed, polled, failed, iterated, todo, answer>>
requestVars == <<queued, inPut, asked>>
tableVars == <<registered, state, last, numbered, lazyAnswer>>
vars == <<periodic, source, service, tableVars, pollVars, requestVars, changes, errors>>

Tables == Eager \union Lazy

-----------------------------------------------------------------------------
(* A new service object: registered tables are empty before the first poll. *)
Init ==
    /\ periodic \in BOOLEAN
    /\ source \in [Tables -> BOOLEAN]
    /\ service = "runs"
    /\ registered = Eager
    /\ state = [t \in Tables |-> FALSE]
    /\ last = [t \in Tables |-> NotYet] /\ numbered = {}
    /\ lazyAnswer = [t \in Lazy |-> NotYet]
    /\ poller = "loop" /\ timed = FALSE /\ polled = FALSE /\ failed = FALSE
    /\ iterated = {} /\ todo = {} /\ answer = NotYet
    /\ queued = FALSE /\ inPut = {} /\ asked = FALSE
    /\ changes = 0 /\ errors = 0

(* poll() up to its first fetch.                                            *)
StartPoll ==
    /\ poller' = "update" /\ failed' = FALSE /\ asked' = FALSE
    /\ iterated' = registered /\ todo' = registered /\ answer' = NotYet

(* The end of poll(), in error or not.                                      *)
EndPoll ==
    /\ poller' = "loop" /\ timed' = FALSE /\ polled' = TRUE
    /\ iterated' = {} /\ todo' = {} /\ answer' = NotYet

(* Mutant: the first poll has a Timeout like the others.                    *)
FirstPollTimed == StartPoll /\ timed' = TRUE

(* poll_loop: the first poll is not waited for; without poll_time every     *)
(* poll is.                                                                 *)
FirstPoll == StartPoll /\ UNCHANGED timed

Loop ==
    /\ poller = "loop"
    /\ IF periodic /\ ~polled
       THEN FirstPoll
       ELSE /\ poller' = "get" /\ timed' = periodic
            /\ UNCHANGED <<failed, iterated, todo, answer, asked>>
    /\ UNCHANGED <<periodic, source, service, tableVars, polled, queued, inPut, changes, errors>>

(* Mutant: the item stays in the queue.                                     *)
TakeNothing == UNCHANGED queued

(* get() makes room for a caller that is blocked in put().                  *)
Take == queued' = FALSE

(* block_unless_refresh_requested.                                          *)
Refresh ==
    /\ poller = "get" /\ queued
    /\ Take
    /\ StartPoll
    /\ UNCHANGED <<periodic, source, service, tableVars, timed, polled, inPut, changes, errors>>

(* Mutant: a poll that was cut short is left at that.                       *)
WaitAgain == EndPoll /\ UNCHANGED <<failed, asked>>

(* The except clause of poll_loop: another poll, without a Timeout.         *)
PollAgain == StartPoll /\ timed' = FALSE /\ UNCHANGED polled

(* The Timeout is raised wherever the poller waits.                         *)
TimedOut ==
    /\ timed
    /\ PollAgain
    /\ UNCHANGED <<periodic, source, service, tableVars, queued, inPut, changes, errors>>

-----------------------------------------------------------------------------
(* update_from_datasource: the service answers with its row of the moment,  *)
(* and the answer is taken later.                                           *)
Fetch(t) ==
    /\ poller = "update" /\ answer = NotYet
    /\ t \in todo /\ registered = iterated
    /\ answer' = <<t, source[t]>>
    /\ UNCHANGED <<periodic, source, service, tableVars, poller, timed, polled, failed, iterated, todo,
                   requestVars, changes, errors>>

TakeAnswer ==
    /\ poller = "update" /\ answer # NotYet
    /\ state' = [state EXCEPT ![answer[1]] = answer[2]]
    /\ todo' = todo \ {answer[1]} /\ answer' = NotYet
    /\ UNCHANGED <<periodic, source, service, registered, last, numbered, lazyAnswer, poller, timed,
                   polled, failed, iterated, requestVars, changes, errors>>

(* Mutant: the exception ends the poller.                                   *)
DieOfError ==
    /\ poller' = "update" /\ timed' = FALSE /\ failed' = TRUE /\ UNCHANGED polled
    /\ iterated' = {} /\ todo' = {} /\ answer' = NotYet

CatchError == EndPoll /\ failed' = TRUE

(* A call of the service or of the bus raises, or the iteration finds that  *)
(* get_snapshot registered a table: the poll ends there.                    *)
PollFails ==
    /\ \/ /\ poller = "update" /\ answer = NotYet /\ registered # iterated
          /\ UNCHANGED errors
       \/ /\ poller = "publish" \/ answer # NotYet
          /\ errors < MaxErrors /\ errors' = errors + 1
    /\ CatchError
    /\ UNCHANGED <<periodic, source, service, tableVars, requestVars, changes>>

StartPublishing ==
    /\ poller = "update" /\ todo = {} /\ answer = NotYet
    /\ registered = iterated
    /\ poller' = "publish" /\ todo' = registered
    /\ UNCHANGED <<periodic, source, service, tableVars, timed, polled, failed, iterated, answer,
                   requestVars, changes, errors>>

(* publish(): what was published last becomes the state, under a number if  *)
(* that is a difference; the bus lets other threads run.                    *)
Publish(t) ==
    /\ poller = "publish" /\ t \in todo
    /\ last' = [last EXCEPT ![t] = state[t]]
    /\ numbered' = IF state[t] = (last[t] = TRUE) THEN numbered ELSE numbered \union {t}
    /\ todo' = todo \ {t}
    /\ UNCHANGED <<periodic, source, service, registered, state, lazyAnswer, poller, timed, polled,
                   failed, iterated, answer, requestVars, changes, errors>>

(* Mutant: requests that came during the poll are taken for served.         *)
ForgetRequests == queued' = FALSE /\ UNCHANGED <<inPut, asked>>

KeepRequests == UNCHANGED requestVars

FinishPoll ==
    /\ poller = "publish" /\ todo = {}
    /\ EndPoll /\ KeepRequests
    /\ UNCHANGED <<periodic, source, service, tableVars, failed, changes, errors>>

-----------------------------------------------------------------------------
(* get_last_published_data_with_seqnum of a table without a number: what    *)
(* get_snapshot returns counts as published.                                *)
Snapshot(t) ==
    /\ service = "runs" /\ t \in registered \ numbered
    /\ numbered' = numbered \union {t}
    /\ last' = [last EXCEPT ![t] = state[t]]
    /\ UNCHANGED <<periodic, source, service, registered, state, lazyAnswer, pollVars, requestVars,
                   changes, errors>>

(* get_snapshot registers a lazy table, with no row, and fetches it.        *)
FetchLazy(t) ==
    /\ service = "runs" /\ t \in Lazy \ registered
    /\ numbered' = numbered \union {t}
    /\ registered' = registered \union {t}
    /\ lazyAnswer' = [lazyAnswer EXCEPT ![t] = source[t]]
    /\ UNCHANGED <<periodic, source, service, state, last, pollVars, requestVars, changes, errors>>

(* The snapshot is the published data the subscriber starts from.           *)
TakeLazyAnswer(t) ==
    /\ lazyAnswer[t] # NotYet
    /\ lazyAnswer' = [lazyAnswer EXCEPT ![t] = NotYet]
    /\ state' = [state EXCEPT ![t] = lazyAnswer[t]]
    /\ last' = [last EXCEPT ![t] = lazyAnswer[t]]
    /\ UNCHANGED <<periodic, source, service, registered, numbered, pollVars, requestVars, changes, errors>>

(* The call fails; the table stays registered, for the polls to fetch.      *)
LazyFails(t) ==
    /\ lazyAnswer[t] # NotYet
    /\ errors < MaxErrors /\ errors' = errors + 1
    /\ lazyAnswer' = [lazyAnswer EXCEPT ![t] = NotYet]
    /\ UNCHANGED <<periodic, source, service, registered, state, last, numbered, pollVars, requestVars,
                   changes>>

-----------------------------------------------------------------------------
(* request_refresh: put() on a full queue blocks, it does not raise Full.   *)
RequestRefresh(c) ==
    /\ service = "runs" /\ c \notin inPut
    /\ IF queued THEN inPut' = inPut \union {c} /\ UNCHANGED <<queued, asked>>
                 ELSE queued' = TRUE /\ asked' = TRUE /\ UNCHANGED inPut
    /\ UNCHANGED <<periodic, source, service, tableVars, pollVars, changes, errors>>

PutReturns(c) ==
    /\ c \in inPut /\ ~queued
    /\ queued' = TRUE /\ asked' = TRUE
    /\ inPut' = inPut \ {c}
    /\ UNCHANGED <<periodic, source, service, tableVars, pollVars, changes, errors>>

(* unregister_service: stop() kills the poller and ends the RPC server;     *)
(* wait() returns when no call is being served, and so never when one is    *)
(* still blocked in put().                                                  *)
Stop ==
    /\ service = "runs" /\ service' = "stopped"
    /\ poller' = "killed" /\ timed' = FALSE
    /\ iterated' = {} /\ todo' = {} /\ answer' = NotYet
    /\ UNCHANGED <<periodic, source, tableVars, polled, failed, requestVars, changes, errors>>

Wait ==
    /\ service = "stopped" /\ service' = "gone"
    /\ inPut = {} /\ \A t \in Lazy : lazyAnswer[t] = NotYet
    /\ UNCHANGED <<periodic, source, tableVars, pollVars, requestVars, changes, errors>>

(* create_datasource_service: the datasource is added again.                *)
Create ==
    /\ service = "gone"
    /\ service' = "runs"
    /\ registered' = Eager
    /\ state' = [t \in Tables |-> FALSE]
    /\ last' = [t \in Tables |-> NotYet] /\ numbered' = {}
    /\ poller' = "loop" /\ polled' = FALSE /\ failed' = FALSE
    /\ queued' = FALSE /\ asked' = FALSE
    /\ UNCHANGED <<periodic, source, lazyAnswer, timed, iterated, todo, answer, inPut, changes, errors>>

(* The service's rows change.                                               *)
Change(t) ==
    /\ changes < MaxChanges /\ changes' = changes + 1
    /\ source' = [source EXCEPT ![t] = ~@]
    /\ UNCHANGED <<periodic, service, tableVars, pollVars, requestVars, errors>>

Next ==
    \/ Loop \/ Refresh \/ TimedOut
    \/ TakeAnswer \/ PollFails \/ StartPublishing \/ FinishPoll
    \/ \E t \in Tables : Fetch(t) \/ Publish(t) \/ Snapshot(t) \/ Change(t)
    \/ \E t \in Lazy : FetchLazy(t) \/ TakeLazyAnswer(t) \/ LazyFails(t)
    \/ \E c \in Callers : RequestRefresh(c) \/ PutReturns(c)
    \/ Stop \/ Wait \/ Create

Spec == Init /\ [][Next]_vars

(* Green threads that can run do run, the service answers, timers fire; a   *)
(* get() on a queue that holds an item takes it, whatever the timer does.   *)
Fairness ==
    /\ WF_vars(Loop) /\ SF_vars(Refresh) /\ WF_vars(TimedOut)
    /\ WF_vars(\E t \in Tables : Fetch(t) \/ Publish(t))
    /\ WF_vars(TakeAnswer \/ PollFails \/ StartPublishing \/ FinishPoll)
    /\ \A t \in Lazy : WF_vars(TakeLazyAnswer(t) \/ LazyFails(t))
    /\ \A c \in Callers : SF_vars(PutReturns(c))
    /\ WF_vars(Wait) /\ WF_vars(Create)

FairSpec == Spec /\ Fairness

-----------------------------------------------------------------------------
TypeOK ==
    /\ periodic \in BOOLEAN /\ service \in {"runs", "stopped", "gone"}
    /\ source \in [Tables -> BOOLEAN]
    /\ registered \subseteq Tables /\ Eager \subseteq registered /\ numbered \subseteq registered
    /\ state \in [Tables -> BOOLEAN]
    /\ last \in [Tables -> BOOLEAN \union {NotYet}]
    /\ lazyAnswer \in [Lazy -> BOOLEAN \union {NotYet}]
    /\ poller \in {"loop", "get", "update", "publish", "killed"}
    /\ poller = "killed" <=> service # "runs"
    /\ timed => periodic /\ polled
    /\ todo \subseteq iterated \union registered
    /\ answer \in ((Tables \X BOOLEAN) \union {NotYet})

(* Between two polls, everything that was fetched is published, unless the  *)
(* last poll failed: polls cut short, lazy tables and all (poll_loop).      *)
RestIsPublished ==
    poller = "get" /\ ~failed =>
        \A t \in registered : last[t] = state[t] \/ (last[t] = NotYet /\ ~state[t])

(* A periodic poller publishes what the service has in the end, whatever    *)
(* failed, timed out or was overtaken before (poll_loop, get_snapshot).     *)
Fresh ==
    periodic /\ <>[](service = "runs") =>
        <>[](\A t \in registered : last[t] = source[t])

(* A poll begins after a refresh was requested, with poll_time or without   *)
(* (request_refresh, block_unless_refresh_requested).                       *)
RefreshServed == asked ~> (~asked \/ service # "runs")

(* "the poller thread will get to it eventually": a call that is blocked    *)
(* returns as long as the driver runs (request_refresh).                    *)
RequestsReturn == \A c \in Callers : c \in inPut ~> (c \notin inPut \/ service # "runs")
=============================================================================
