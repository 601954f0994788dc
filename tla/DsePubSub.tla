----------------------------- MODULE DsePubSub -----------------------------
(***************************************************************************)
(* Sequenced publish/subscribe of one table, from the DataService that     *)
(* publishes it to the DataServices that subscribe to it                   *)
(* (dse2/data_service.py, dse2/dse_node.py).                               *)
(*                                                                         *)
(* Every publication carries a sequence number.  A subscriber first asks   *)
(* the publisher, by a blocking RPC, for a snapshot and its number, then   *)
(* applies the differential publications that follow, one by one; what     *)
(* comes too early waits in a priority queue, and a periodic task          *)
(* resubscribes when the queue has waited too long.  The bus loses and     *)
(* reorders publications; RPC replies time out or come late; a publisher   *)
(* restarts and numbers from 0 again.                                      *)
(*                                                                         *)
(* Green threads switch only in blocking calls.  An action is what one     *)
(* thread does between two such points: receive_data may block (a policy   *)
(* engine publishes and executes actions there), so the processing of the  *)
(* queue that follows it is a step of its own, Drain.                      *)
(***************************************************************************)
EXTENDS Integers, FiniteSets

CONSTANTS
    Subscribers,        \* the subscribing data services
    Threads,            \* green threads of a subscriber that may be in subscribe()
    Rows,               \* the rows the published table may hold
    NoSeq,              \* no entry in receiver_seqnums / sender_seqnums
    Unknown, Suspect,   \* views of a subscriber that are no version (TableFeed)
    Bus,                \* the source of a message that was broadcast
    SnapshotPublisher,  \* the driver publishes with use_snapshot=True (cfgvalidator)
    Lossy,              \* the bus may lose a publication
    MaxSeq,             \* bound: the largest sequence number published
    MaxInc,             \* bound: the publisher runs 1..MaxInc times
    MaxDrains           \* bound: threads of a subscriber inside receive_data

ASSUME PubSubAssumption ==
    /\ NoSeq \notin Int
    /\ Bus \notin Threads
    /\ SnapshotPublisher \in BOOLEAN
    /\ Lossy \in BOOLEAN
    /\ MaxSeq \in Nat
    /\ MaxInc \in Nat \ {0}
    /\ MaxDrains \in Nat \ {0}
    /\ Unknown # Suspect

VARIABLES
    inc,        \* which run of the publisher this is (history)
    state,      \* publisher's self.state[table]
    sseq,       \* publisher's sender_seqnums[table]
    stored,     \* the table has an entry in _last_published_data ...
    lastPub,    \* ... with these rows (none: {})
    published,  \* every version the publisher made, with its number (history)
    net,        \* net[s]: publications on their way to s
    waiting,    \* waiting[s]: threads whose subscribe RPC has not been answered
    replies,    \* replies[s]: answers on their way back to their thread
    sub,        \* s is in node.subscriptions[publisher][table]
    rcv         \* rcv[s]: the receiving side of s

publisherVars == <<inc, state, sseq, stored, lastPub, published>>
vars == <<publisherVars, net, waiting, replies, sub, rcv>>

-----------------------------------------------------------------------------
(* A publication or a snapshot: a differential is (add, del), a snapshot    *)
(* its rows in add.  inc is a history field, the code does not send it.     *)
Message == [inc : Nat, seq : Nat, snap : BOOLEAN,
            add : SUBSET Rows, del : SUBSET Rows, src : Threads \union {Bus}]

(* A version of the table as the publisher numbered it.                     *)
Version == [inc : Nat, seq : Nat, data : SUBSET Rows]

ASSUME ViewAssumption == Unknown \notin Version /\ Suspect \notin Version

(* The receiving side of a service for this table.  recv: receiver_seqnums; *)
(* data: the rows held; hasq: the table has an entry in msg_queues; queue:  *)
(* its messages; armed: the entry of oldest_queue_times is not None;        *)
(* drains: threads that are inside receive_data and will call               *)
(* process_queued_msg when it returns; base: the publisher run the data     *)
(* comes from (history); exact: the data descends from a snapshot by        *)
(* consecutive differentials of one run of the publisher (history).         *)
Receiver == [recv : Nat \union {NoSeq}, data : SUBSET Rows, hasq : BOOLEAN,
             queue : SUBSET Message, armed : BOOLEAN, drains : Nat,
             base : Nat, exact : BOOLEAN]

(* Mutant: a snapshot is added to the rows that are there.                  *)
AppliedMerging(data, m) == (data \ m.del) \union m.add

(* receive_data: a snapshot replaces the table; in a differential the       *)
(* deletions are applied before the insertions.                             *)
Applied(data, m) == IF m.snap THEN m.add ELSE (data \ m.del) \union m.add

(* The data is still an exact copy after m: m is a snapshot, or the next    *)
(* differential of the same run, or a first differential (number 0) that    *)
(* leaves nothing but what it inserts.                                      *)
Continues(r, m) ==
    \/ m.snap
    \/ m.seq # 0 /\ r.exact /\ r.base = m.inc
    \/ m.seq = 0 /\ Applied(r.data, m) = m.add

(* set_seqnum(), then receive_data().                                       *)
Accept(r, m) ==
    [r EXCEPT !.recv = m.seq, !.data = Applied(@, m), !.base = m.inc,
              !.exact = Continues(r, m)]

(* Mutant: what cannot be processed yet is dropped.                         *)
EnqueueNothing(r, m) == r

(* add_to_msg_queue(): only the first message of a new queue sets the       *)
(* oldest receipt time.                                                     *)
Enqueue(r, m) ==
    [r EXCEPT !.hasq = TRUE, !.queue = @ \union {m}, !.armed = r.hasq => @]

(* _clear_msg_queue.                                                        *)
ClearQueue(r) == [r EXCEPT !.hasq = FALSE, !.queue = {}, !.armed = FALSE]

(* _clear_msg_queue and _clear_receiver_seqnum: what unsubscribe does.      *)
Forget(r) == [ClearQueue(r) EXCEPT !.recv = NoSeq]

(* The branch "if seqnum is old, ignore".                                   *)
Stale(r, m) == r.recv # NoSeq /\ m.seq # 0 /\ m.seq <= r.recv

(* Mutants: any later message is taken; the queue is not processed after a  *)
(* message is taken.                                                        *)
ProcessSkippingGaps(r, m) ==
    CASE r.recv = NoSeq /\ ~m.snap    -> Enqueue(r, m)
      [] r.recv # NoSeq /\ m.seq = 0  -> Accept(ClearQueue(r), m)
      [] OTHER                        -> [Accept(r, m) EXCEPT !.drains = @ + 1]

ProcessAlone(r, m) ==
    IF (r.recv = NoSeq /\ ~m.snap) \/ (r.recv # NoSeq /\ m.seq > r.recv + 1)
      THEN Enqueue(r, m)
      ELSE Accept(r, m)

(* The other branches of receive_data_sequenced, for a message that is not  *)
(* stale.                                                                   *)
Process(r, m) ==
    CASE r.recv = NoSeq /\ m.snap     -> [Accept(r, m) EXCEPT !.drains = @ + 1]
      [] r.recv = NoSeq /\ ~m.snap    -> Enqueue(r, m)
      [] r.recv # NoSeq /\ m.seq = 0  -> Accept(ClearQueue(r), m)
      [] r.recv # NoSeq /\ m.seq # 0 /\ m.seq = r.recv + 1
                                      -> [Accept(r, m) EXCEPT !.drains = @ + 1]
      [] OTHER                        -> Enqueue(r, m)

(* The priority of the queue: the lowest number, a differential before a    *)
(* snapshot; of equals any may come first.                                  *)
First(Q) == {m \in Q : \A o \in Q : m.seq < o.seq \/ (m.seq = o.seq /\ (m.snap => o.snap))}

(* process_queued_msg(): pop the first message and receive it.  A stale one *)
(* is dropped and the next is popped with no blocking call in between, so   *)
(* all the stale messages before the first live one go in the same step.    *)
(* The oldest receipt time is taken from what is left before the popped     *)
(* message is received, which may put it back.  The set of outcomes.        *)
ProcessQueued(r) ==
    LET live == {m \in r.queue : ~Stale(r, m)}
        Without(Q) == [r EXCEPT !.queue = Q, !.armed = Q # {}]
    IN  IF r.queue = {} THEN {r}
        ELSE IF live = {} THEN {Without({})}
        ELSE {Process(Without(live \ {m}), m) : m \in First(live)}

(* receive_data_sequenced: the set of outcomes.                             *)
Receive(r, m) == IF Stale(r, m) THEN ProcessQueued(r) ELSE {Process(r, m)}

-----------------------------------------------------------------------------
(* Nobody has subscribed yet.                                               *)
NoSubscriber ==
    /\ waiting = [s \in Subscribers |-> {}]
    /\ replies = [s \in Subscribers |-> {}]
    /\ sub = [s \in Subscribers |-> FALSE]
    /\ rcv = [s \in Subscribers |->
                [recv |-> NoSeq, data |-> {}, hasq |-> FALSE, queue |-> {},
                 armed |-> FALSE, drains |-> 0, base |-> 0, exact |-> FALSE]]

Init ==
    /\ inc = 1
    /\ state = {}
    /\ sseq = NoSeq
    /\ stored = FALSE
    /\ lastPub = {}
    /\ published = {}
    /\ net = [s \in Subscribers |-> {}]
    /\ NoSubscriber

(***************************************************************************)
(* The publisher.                                                          *)
(***************************************************************************)
(* A poll or a push gives the table new contents.                           *)
UpdateState(d) ==
    /\ state' = d
    /\ UNCHANGED <<inc, sseq, stored, lastPub, published, net, waiting, replies, sub, rcv>>

NextSeq == IF sseq = NoSeq THEN 0 ELSE sseq + 1

Broadcast(m) == net' = [s \in Subscribers |-> net[s] \union {m}]

(* publish(table, state[table]): the differential against what was          *)
(* published last; nothing is sent, and no number is used, when it is empty.*)
(* A driver that sends whole tables does this too, for tables still empty.  *)
PublishNothing ==
    /\ state = lastPub
    /\ stored' = TRUE
    /\ UNCHANGED <<inc, state, sseq, lastPub, published, net, waiting, replies, sub, rcv>>

(* Mutant: the rows published last are not remembered.                      *)
PublishDiffForgetting ==
    /\ ~SnapshotPublisher
    /\ state # lastPub
    /\ NextSeq <= MaxSeq
    /\ sseq' = NextSeq
    /\ published' = published \union {[inc |-> inc, seq |-> NextSeq, data |-> state]}
    /\ Broadcast([inc |-> inc, seq |-> NextSeq, snap |-> FALSE,
                  add |-> state \ lastPub, del |-> lastPub \ state, src |-> Bus])
    /\ UNCHANGED <<inc, state, stored, lastPub, waiting, replies, sub, rcv>>

PublishDiff ==
    /\ ~SnapshotPublisher
    /\ state # lastPub
    /\ NextSeq <= MaxSeq
    /\ stored' = TRUE
    /\ lastPub' = state
    /\ sseq' = NextSeq
    /\ published' = published \union {[inc |-> inc, seq |-> NextSeq, data |-> state]}
    /\ Broadcast([inc |-> inc, seq |-> NextSeq, snap |-> FALSE,
                  add |-> state \ lastPub, del |-> lastPub \ state, src |-> Bus])
    /\ UNCHANGED <<inc, state, waiting, replies, sub, rcv>>

(* publish(..., use_snapshot=True): the whole table is sent;                *)
(* _last_published_data is left alone.                                      *)
PublishSnapshot ==
    /\ SnapshotPublisher
    /\ NextSeq <= MaxSeq
    /\ sseq' = NextSeq
    /\ published' = published \union {[inc |-> inc, seq |-> NextSeq, data |-> state]}
    /\ Broadcast([inc |-> inc, seq |-> NextSeq, snap |-> TRUE,
                  add |-> state, del |-> {}, src |-> Bus])
    /\ UNCHANGED <<inc, state, stored, lastPub, waiting, replies, sub, rcv>>

Reply(s, t, q, d) ==
    /\ waiting' = [waiting EXCEPT ![s] = @ \ {t}]
    /\ replies' = [replies EXCEPT ![s] = @ \union
                     {[inc |-> inc, seq |-> q, snap |-> TRUE,
                       add |-> d, del |-> {}, src |-> t]}]

(* The RPC get_last_published_data_with_seqnum.  A table that was never     *)
(* numbered gets number 0 and its current rows.                             *)
ServeFirst(s, t) ==
    /\ t \in waiting[s]
    /\ sseq = NoSeq
    /\ sseq' = 0
    /\ stored' = TRUE
    /\ lastPub' = state
    /\ published' = published \union {[inc |-> inc, seq |-> 0, data |-> state]}
    /\ Reply(s, t, 0, state)
    /\ UNCHANGED <<inc, state, net, sub, rcv>>

(* Mutant: a table that has rows but no number yet is answered without one. *)
ServeUnnumbered(s, t) ==
    /\ t \in waiting[s]
    /\ stored
    /\ Reply(s, t, sseq, lastPub)
    /\ UNCHANGED <<publisherVars, net, sub, rcv>>

ServeLast(s, t) ==
    /\ t \in waiting[s]
    /\ sseq # NoSeq
    /\ stored
    /\ Reply(s, t, sseq, lastPub)
    /\ UNCHANGED <<publisherVars, net, sub, rcv>>

(* The service is deleted and created again, or its process dies and comes  *)
(* back: all it knew is gone.                                               *)
Restart ==
    /\ inc < MaxInc
    /\ inc' = inc + 1
    /\ state' = {}
    /\ sseq' = NoSeq
    /\ stored' = FALSE
    /\ lastPub' = {}
    /\ UNCHANGED <<published, net, waiting, replies, sub, rcv>>

(***************************************************************************)
(* The bus.                                                                *)
(***************************************************************************)
Lose(s, m) ==
    /\ Lossy
    /\ m \in net[s]
    /\ net' = [net EXCEPT ![s] = @ \ {m}]
    /\ UNCHANGED <<publisherVars, waiting, replies, sub, rcv>>

(* The bound: a message is not taken while MaxDrains threads are busy.      *)
CanReceive(s) == rcv[s].drains < MaxDrains

(* handle_publish_sequenced: a node forwards the message to those of its    *)
(* services that are subscribed at that moment.                             *)
Deliver(s, m) ==
    /\ m \in net[s]
    /\ CanReceive(s)
    /\ net' = [net EXCEPT ![s] = @ \ {m}]
    /\ \E r \in IF sub[s] THEN Receive(rcv[s], m) ELSE {rcv[s]} :
         rcv' = [rcv EXCEPT ![s] = r]
    /\ UNCHANGED <<publisherVars, waiting, replies, sub>>

(***************************************************************************)
(* A subscriber.                                                           *)
(***************************************************************************)
Idle(s, t) == t \notin waiting[s] /\ \A m \in replies[s] : m.src # t

(* subscribe(), up to the blocking RPC: the service is subscribed before it *)
(* has any data.                                                            *)
Subscribe(s, t) ==
    /\ Idle(s, t)
    /\ sub' = [sub EXCEPT ![s] = TRUE]
    /\ waiting' = [waiting EXCEPT ![s] = @ \union {t}]
    /\ UNCHANGED <<publisherVars, net, replies, rcv>>

(* subscribe(), from the answer on.                                         *)
SubscribeReturn(s, m) ==
    /\ m \in replies[s]
    /\ CanReceive(s)
    /\ replies' = [replies EXCEPT ![s] = @ \ {m}]
    /\ \E r \in Receive(rcv[s], m) : rcv' = [rcv EXCEPT ![s] = r]
    /\ UNCHANGED <<publisherVars, net, waiting, sub>>

(* The RPC fails: no answer to the ping (NotFound, caught and logged), the  *)
(* call timed out (Unavailable), or the publisher raised KeyError because   *)
(* it numbered the table but never stored its rows.  An answer that is on   *)
(* its way is dropped.  The subscription stays.                             *)
SubscribeFail(s, t) ==
    /\ ~Idle(s, t)
    /\ waiting' = [waiting EXCEPT ![s] = @ \ {t}]
    /\ replies' = [replies EXCEPT ![s] = {m \in @ : m.src # t}]
    /\ UNCHANGED <<publisherVars, net, sub, rcv>>

Unsubscribe(s) ==
    /\ sub[s]
    /\ sub' = [sub EXCEPT ![s] = FALSE]
    /\ rcv' = [rcv EXCEPT ![s] = Forget(@)]
    /\ UNCHANGED <<publisherVars, net, waiting, replies>>

(* check_resub_all, once the oldest receipt time is time_to_resub old:      *)
(* unsubscribe() and subscribe() up to its blocking RPC.                    *)
Resub(s, t) ==
    /\ rcv[s].armed
    /\ Idle(s, t)
    /\ sub' = [sub EXCEPT ![s] = TRUE]
    /\ rcv' = [rcv EXCEPT ![s] = Forget(@)]
    /\ waiting' = [waiting EXCEPT ![s] = @ \union {t}]
    /\ UNCHANGED <<publisherVars, net, replies>>

(* A thread comes back from receive_data and calls process_queued_msg.      *)
Drain(s) ==
    /\ rcv[s].drains > 0
    /\ \E r \in ProcessQueued([rcv[s] EXCEPT !.drains = @ - 1]) :
         rcv' = [rcv EXCEPT ![s] = r]
    /\ UNCHANGED <<publisherVars, net, waiting, replies, sub>>

-----------------------------------------------------------------------------
Publisher ==
    \/ \E d \in SUBSET Rows : UpdateState(d)
    \/ PublishNothing
    \/ PublishDiff
    \/ PublishSnapshot
    \/ Restart

Next ==
    \/ Publisher
    \/ \E s \in Subscribers :
         \/ \E t \in Threads :
              \/ ServeFirst(s, t)
              \/ ServeLast(s, t)
              \/ Subscribe(s, t)
              \/ SubscribeFail(s, t)
              \/ Resub(s, t)
         \/ \E m \in net[s] : Lose(s, m) \/ Deliver(s, m)
         \/ \E m \in replies[s] : SubscribeReturn(s, m)
         \/ Unsubscribe(s)
         \/ Drain(s)

Spec == Init /\ [][Next]_vars

-----------------------------------------------------------------------------
(***************************************************************************)
(* Safety.                                                                 *)
(***************************************************************************)
(* The shape of the state: a subscriber receives nothing without a number.  *)
TypeOK ==
    /\ inc \in Nat \ {0}
    /\ state \in SUBSET Rows
    /\ sseq \in Nat \union {NoSeq}
    /\ stored \in BOOLEAN
    /\ lastPub \in SUBSET Rows
    /\ published \in SUBSET Version
    /\ net \in [Subscribers -> SUBSET Message]
    /\ waiting \in [Subscribers -> SUBSET Threads]
    /\ replies \in [Subscribers -> SUBSET Message]
    /\ sub \in [Subscribers -> BOOLEAN]
    /\ rcv \in [Subscribers -> Receiver]

(* r's rows are a version in P, the one with r's number in the run they     *)
(* come from.                                                               *)
CopyOf(P, r) ==
    r.recv # NoSeq /\ r.exact => [inc |-> r.base, seq |-> r.recv, data |-> r.data] \in P

(* The rows a subscriber holds under a sequence number are the rows the     *)
(* publisher had under that number, in the run they come from: whatever was *)
(* lost, reordered, queued, answered late or resubscribed in between        *)
(* (receive_data_sequenced).  exact excuses the two chains that do not      *)
(* start from a snapshot, such as the one that begins when an initialised   *)
(* subscriber takes a differential with number 0 for a re-initialisation.   *)
FaithfulCopy == \A s \in Subscribers : CopyOf(published, rcv[s])

(* When no thread is about to call process_queued_msg, nothing that could   *)
(* be processed is left in the queue: every waiting message is at least two *)
(* ahead of what was received (receive_data_sequenced, process_queued_msg). *)
Quiet(r) == r.recv # NoSeq /\ r.drains = 0 => \A m \in r.queue : m.seq > r.recv + 1

NothingReadyWaits == \A s \in Subscribers : Quiet(rcv[s])

(* What the publisher answers to a request for the current version is the    *)
(* version with that number (get_last_published_data_with_seqnum: "returns  *)
(* the current seqnum & data for given table").                             *)
SnapshotIsCurrent ==
    stored /\ sseq # NoSeq => [inc |-> inc, seq |-> sseq, data |-> lastPub] \in published

(***************************************************************************)
(* Why FaithfulCopy holds, for a publisher of differentials.               *)
(***************************************************************************)
(* The publisher made m: a snapshot, or a first differential, holds a       *)
(* version; any other leads from a version to the next one.                 *)
Made(P, m) ==
    IF m.snap \/ m.seq = 0
      THEN [inc |-> m.inc, seq |-> m.seq, data |-> m.add] \in P
      ELSE \E d \in SUBSET Rows :
             /\ [inc |-> m.inc, seq |-> m.seq - 1, data |-> d] \in P
             /\ [inc |-> m.inc, seq |-> m.seq, data |-> (d \ m.del) \union m.add] \in P

(* No number is used twice in a run, and the last one names lastPub.        *)
NumbersNameVersions ==
    /\ \A v \in published :
         /\ v.inc <= inc
         /\ v.inc = inc => sseq # NoSeq /\ v.seq <= sseq
    /\ \A u, v \in published : u.inc = v.inc /\ u.seq = v.seq => u.data = v.data
    /\ sseq = NoSeq => lastPub = {}
    /\ sseq # NoSeq => [inc |-> inc, seq |-> sseq, data |-> lastPub] \in published

(* Wherever a message is, the publisher made it.                            *)
MessagesMade ==
    \A s \in Subscribers :
      \A m \in net[s] \union replies[s] \union rcv[s].queue : Made(published, m)

(* The inductive invariant (publish, get_last_published_data_with_seqnum,   *)
(* receive_data_sequenced).                                                 *)
CopyInv == TypeOK /\ NumbersNameVersions /\ MessagesMade /\ FaithfulCopy

(***************************************************************************)
(* Refinement of TableFeed.                                                *)
(***************************************************************************)
View(r) ==
    IF r.recv = NoSeq THEN Unknown
    ELSE IF ~r.exact THEN Suspect
    ELSE [inc |-> r.base, seq |-> r.recv, data |-> r.data]

Feed == INSTANCE TableFeed WITH log <- published,
                                view <- [s \in Subscribers |-> View(rcv[s])]

(* A copy takes one version at a time and in order, a new subscriber starts *)
(* from a version the publisher made, and versions are numbered upwards.    *)
ImplementsFeed == Feed!FeedSpec

(***************************************************************************)
(* Liveness: a subscriber that keeps its subscription to a publisher that  *)
(* runs on.  Unsubscribe and Restart are left out; calls that are retried  *)
(* for ever are answered at last (SF), and the periodic task runs (WF).    *)
(***************************************************************************)
SteadyNext == Next /\ inc' = inc /\ \A s \in Subscribers : sub[s] => sub'[s]

Fairness ==
    \A s \in Subscribers :
        /\ WF_vars(\E m \in net[s] : Deliver(s, m))
        /\ WF_vars(Drain(s))
        /\ \A t \in Threads :
             /\ WF_vars(ServeFirst(s, t) \/ ServeLast(s, t))
             /\ WF_vars(Resub(s, t))
             /\ SF_vars(\E m \in replies[s] : m.src = t /\ SubscribeReturn(s, m))

(* The publisher has numbered its table twice before the first subscriber   *)
(* comes, so that no message with number 0 is ever on its way: one that is  *)
(* throws an initialised subscriber back to 0 and empties its queue.        *)
SettledInit ==
    /\ inc = 1
    /\ sseq = 1
    /\ stored = TRUE
    /\ state \in SUBSET Rows
    /\ lastPub = state
    /\ \E d \in SUBSET Rows \ {state} :
         published = {[inc |-> 1, seq |-> 0, data |-> d],
                      [inc |-> 1, seq |-> 1, data |-> state]}
    /\ net = [s \in Subscribers |-> {}]
    /\ NoSubscriber

SteadySpec == SettledInit /\ [][SteadyNext]_vars /\ Fairness

UpToDate(s) == rcv[s].recv = sseq

(* A subscriber that got a snapshot ends up with the last version of the    *)
(* publisher, if the bus loses nothing: whatever order the messages and the *)
(* answers come in, none is skipped, left in the queue for ever, or needed  *)
(* and already gone.                                                        *)
Converges ==
    \A s \in Subscribers : <>[](rcv[s].recv # NoSeq => UpToDate(s))
=============================================================================
