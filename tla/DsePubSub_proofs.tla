-------------------------- MODULE DsePubSub_proofs --------------------------
(***************************************************************************)
(* Proofs about DsePubSub, for any number of subscribers, threads, rows,   *)
(* sequence numbers and restarts.                                          *)
(***************************************************************************)
EXTENDS DsePubSub, TLAPS

-----------------------------------------------------------------------------
(***************************************************************************)
(* Types.                                                                  *)
(***************************************************************************)
(* What receive_data_sequenced makes of a receiver is a receiver.           *)
LEMMA ProcessType ==
    ASSUME NEW r \in Receiver, NEW m \in Message
    PROVE  Process(r, m) \in Receiver
<1>1. Accept(r, m) \in Receiver
  BY DEF Accept, Applied, Continues, Receiver, Message
<1>2. Accept(ClearQueue(r), m) \in Receiver
  BY DEF Accept, Applied, Continues, ClearQueue, Receiver, Message
<1>3. Enqueue(r, m) \in Receiver
  BY DEF Enqueue, Receiver
<1>4. [Accept(r, m) EXCEPT !.drains = @ + 1] \in Receiver
  BY <1>1 DEF Receiver
<1>5. QED
  BY <1>2, <1>3, <1>4 DEF Process

LEMMA ProcessQueuedType ==
    ASSUME NEW r \in Receiver, NEW o \in ProcessQueued(r)
    PROVE  o \in Receiver
<1> DEFINE live == {m \in r.queue : ~Stale(r, m)}
           Without(Q) == [r EXCEPT !.queue = Q, !.armed = Q # {}]
<1>1. ASSUME NEW Q \in SUBSET r.queue PROVE Without(Q) \in Receiver
  BY DEF Receiver
<1>2. live \subseteq r.queue /\ First(live) \subseteq live
  BY DEF First
<1>3. r.queue \subseteq Message
  BY DEF Receiver
<1>4. CASE r.queue = {}
  BY <1>4 DEF ProcessQueued
<1>5. CASE r.queue # {} /\ live = {}
  <2>1. o = Without({})
    BY <1>5 DEF ProcessQueued
  <2>2. QED
    BY <2>1, <1>1
<1>6. CASE r.queue # {} /\ live # {}
  <2>1. PICK m \in First(live) : o = Process(Without(live \ {m}), m)
    BY <1>6 DEF ProcessQueued
  <2>2. m \in Message /\ Without(live \ {m}) \in Receiver
    BY <1>1, <1>2, <1>3
  <2>3. QED
    BY <2>1, <2>2, ProcessType
<1>7. QED
  BY <1>4, <1>5, <1>6

LEMMA ReceiveType ==
    ASSUME NEW r \in Receiver, NEW m \in Message, NEW o \in Receive(r, m)
    PROVE  o \in Receiver
BY ProcessType, ProcessQueuedType DEF Receive

LEMMA InitType == Init => TypeOK
<1>1. [recv |-> NoSeq, data |-> {}, hasq |-> FALSE, queue |-> {}, armed |-> FALSE,
       drains |-> 0, base |-> 0, exact |-> FALSE] \in Receiver
  BY DEF Receiver
<1> SUFFICES ASSUME Init PROVE TypeOK
  OBVIOUS
<1>2. waiting \in [Subscribers -> SUBSET Threads] /\ replies \in [Subscribers -> SUBSET Message]
  BY DEF Init, NoSubscriber
<1>3. sub \in [Subscribers -> BOOLEAN] /\ rcv \in [Subscribers -> Receiver]
  BY <1>1 DEF Init, NoSubscriber
<1>4. net \in [Subscribers -> SUBSET Message]
  BY DEF Init
<1>5. published \in SUBSET Version
  BY DEF Init
<1>6. state \in SUBSET Rows
  BY DEF Init
<1>7. lastPub \in SUBSET Rows
  BY DEF Init
<1>8. inc \in Nat \ {0}
  BY DEF Init
<1>9. sseq \in Nat \union {NoSeq}
  BY DEF Init
<1>10. stored \in BOOLEAN
  BY DEF Init
<1>11. QED
  BY ONLY <1>2, <1>3, <1>4, <1>5, <1>6, <1>7, <1>8, <1>9, <1>10 DEF TypeOK

LEMMA NextSeqType == TypeOK => NextSeq \in Nat
BY DEF TypeOK, NextSeq

(* One step per action of the publisher ...                                 *)
LEMMA PublisherType == TypeOK /\ Publisher => TypeOK'
<1> SUFFICES ASSUME TypeOK, Publisher PROVE TypeOK'
  OBVIOUS
<1> USE DEF TypeOK
<1>1. ASSUME NEW d \in SUBSET Rows, UpdateState(d) PROVE TypeOK'
  BY <1>1 DEF UpdateState
<1>2. CASE PublishNothing
  BY <1>2 DEF PublishNothing
<1>3. CASE PublishDiff
  <2>1. [inc |-> inc, seq |-> NextSeq, data |-> state] \in Version
    BY NextSeqType DEF Version
  <2>2. [inc |-> inc, seq |-> NextSeq, snap |-> FALSE, add |-> state \ lastPub,
         del |-> lastPub \ state, src |-> Bus] \in Message
    BY NextSeqType DEF Message
  <2>3. QED
    BY <1>3, <2>1, <2>2, NextSeqType DEF PublishDiff, Broadcast
<1>4. CASE PublishSnapshot
  <2>1. [inc |-> inc, seq |-> NextSeq, data |-> state] \in Version
    BY NextSeqType DEF Version
  <2>2. [inc |-> inc, seq |-> NextSeq, snap |-> TRUE, add |-> state,
         del |-> {}, src |-> Bus] \in Message
    BY NextSeqType DEF Message
  <2>3. QED
    BY <1>4, <2>1, <2>2, NextSeqType DEF PublishSnapshot, Broadcast
<1>5. CASE Restart
  <2>1. inc' \in Nat \ {0} /\ state' \in SUBSET Rows /\ lastPub' \in SUBSET Rows
    BY <1>5 DEF Restart
  <2>2. sseq' \in Nat \union {NoSeq} /\ stored' \in BOOLEAN
    BY <1>5 DEF Restart
  <2>3. QED
    BY <1>5, <2>1, <2>2 DEF Restart
<1> HIDE DEF TypeOK
<1>6. QED
  BY <1>1, <1>2, <1>3, <1>4, <1>5 DEF Publisher

(* ... and of a subscriber's threads.                                       *)
LEMMA ReplyType ==
    ASSUME TypeOK, NEW s \in Subscribers, NEW t \in Threads, NEW q \in Nat,
           NEW d \in SUBSET Rows, Reply(s, t, q, d)
    PROVE  /\ waiting' \in [Subscribers -> SUBSET Threads]
           /\ replies' \in [Subscribers -> SUBSET Message]
<1>1. [inc |-> inc, seq |-> q, snap |-> TRUE, add |-> d, del |-> {}, src |-> t] \in Message
  BY DEF TypeOK, Message
<1>2. QED
  BY <1>1 DEF TypeOK, Reply

LEMMA ThreadType ==
    ASSUME TypeOK, NEW s \in Subscribers, NEW t \in Threads,
           \/ ServeFirst(s, t) \/ ServeLast(s, t) \/ Subscribe(s, t)
           \/ SubscribeFail(s, t) \/ Resub(s, t)
    PROVE  TypeOK'
<1>1. CASE ServeFirst(s, t)
  <2>1. [inc |-> inc, seq |-> 0, data |-> state] \in Version
    BY DEF TypeOK, Version
  <2>2. waiting' \in [Subscribers -> SUBSET Threads] /\ replies' \in [Subscribers -> SUBSET Message]
    BY <1>1, ReplyType DEF ServeFirst, TypeOK
  <2>3. QED
    BY <1>1, <2>1, <2>2 DEF ServeFirst, TypeOK
<1>2. CASE ServeLast(s, t)
  <2>1. waiting' \in [Subscribers -> SUBSET Threads] /\ replies' \in [Subscribers -> SUBSET Message]
    BY <1>2, ReplyType DEF ServeLast, TypeOK
  <2>2. QED
    BY <1>2, <2>1 DEF ServeLast, TypeOK, publisherVars
<1>3. CASE Subscribe(s, t)
  BY <1>3 DEF Subscribe, TypeOK, publisherVars
<1>4. CASE SubscribeFail(s, t)
  BY <1>4 DEF SubscribeFail, TypeOK, publisherVars
<1>5. CASE Resub(s, t)
  <2>1. Forget(rcv[s]) \in Receiver
    BY DEF TypeOK, Forget, ClearQueue, Receiver
  <2>2. QED
    BY <1>5, <2>1 DEF Resub, TypeOK, publisherVars
<1>6. QED
  BY <1>1, <1>2, <1>3, <1>4, <1>5

LEMMA ReceiverType ==
    ASSUME TypeOK, NEW s \in Subscribers,
           \/ \E m \in net[s] : Lose(s, m) \/ Deliver(s, m)
           \/ \E m \in replies[s] : SubscribeReturn(s, m)
           \/ Unsubscribe(s)
           \/ Drain(s)
    PROVE  TypeOK'
<1>0. rcv[s] \in Receiver
  BY DEF TypeOK
<1>1. ASSUME NEW m \in net[s], Lose(s, m) PROVE TypeOK'
  BY <1>1 DEF Lose, TypeOK, publisherVars
<1>2. ASSUME NEW m \in net[s], Deliver(s, m) PROVE TypeOK'
  <2>1. PICK r \in IF sub[s] THEN Receive(rcv[s], m) ELSE {rcv[s]} :
          rcv' = [rcv EXCEPT ![s] = r]
    BY <1>2 DEF Deliver
  <2>2. m \in Message
    BY DEF TypeOK
  <2>3. r \in Receiver
    BY <1>0, <2>1, <2>2, ReceiveType
  <2>4. QED
    BY <1>2, <2>1, <2>3 DEF Deliver, TypeOK, publisherVars
<1>3. ASSUME NEW m \in replies[s], SubscribeReturn(s, m) PROVE TypeOK'
  <2>1. PICK r \in Receive(rcv[s], m) : rcv' = [rcv EXCEPT ![s] = r]
    BY <1>3 DEF SubscribeReturn
  <2>2. m \in Message
    BY DEF TypeOK
  <2>3. r \in Receiver
    BY <1>0, <2>1, <2>2, ReceiveType
  <2>4. QED
    BY <1>3, <2>1, <2>3 DEF SubscribeReturn, TypeOK, publisherVars
<1>4. CASE Unsubscribe(s)
  <2>1. Forget(rcv[s]) \in Receiver
    BY <1>0 DEF Forget, ClearQueue, Receiver
  <2>2. QED
    BY <1>4, <2>1 DEF Unsubscribe, TypeOK, publisherVars
<1>5. CASE Drain(s)
  <2> DEFINE back == [rcv[s] EXCEPT !.drains = @ - 1]
  <2>1. PICK r \in ProcessQueued(back) : rcv' = [rcv EXCEPT ![s] = r]
    BY <1>5 DEF Drain
  <2>2. back \in Receiver
    BY <1>0, <1>5 DEF Drain, Receiver
  <2>3. r \in Receiver
    BY <2>1, <2>2, ProcessQueuedType
  <2>4. QED
    BY <1>5, <2>1, <2>3 DEF Drain, TypeOK, publisherVars
<1>6. QED
  BY <1>1, <1>2, <1>3, <1>4, <1>5

(* The state keeps its shape (all of DataService's pub/sub tables).         *)
THEOREM TypeCorrect == Spec => []TypeOK
<1>1. TypeOK /\ [Next]_vars => TypeOK'
  <2>1. TypeOK /\ Next => TypeOK'
    BY PublisherType, ThreadType, ReceiverType DEF Next
  <2>2. TypeOK /\ UNCHANGED vars => TypeOK'
    BY DEF TypeOK, vars, publisherVars
  <2>3. QED
    BY <2>1, <2>2
<1>2. QED
  BY InitType, <1>1, PTL DEF Spec

-----------------------------------------------------------------------------
(***************************************************************************)
(* Nothing that is ready is left in a queue.                               *)
(***************************************************************************)
(* A message put back, or added, is at least two ahead of what was          *)
(* received; one that is taken leaves an empty queue or a thread that will  *)
(* process it.                                                              *)
LEMMA ProcessQuiet ==
    ASSUME NEW r \in Receiver, NEW m \in Message, ~Stale(r, m),
           Quiet(r) \/ \A o \in r.queue : m.seq <= o.seq
    PROVE  Quiet(Process(r, m))
<1> DEFINE taken == [Accept(r, m) EXCEPT !.drains = @ + 1]
<1>1. Quiet(taken)
  BY DEF Accept, Receiver, Quiet
<1>2. Quiet(Accept(ClearQueue(r), m))
  BY DEF Accept, ClearQueue, Receiver, Quiet
<1>3. CASE r.recv = NoSeq
  <2>1. Quiet(Enqueue(r, m))
    BY <1>3 DEF Enqueue, Quiet, Receiver
  <2>2. Process(r, m) \in {taken, Enqueue(r, m)}
    BY <1>3 DEF Process
  <2>3. QED
    BY <1>1, <2>1, <2>2
<1>4. CASE r.recv # NoSeq /\ m.seq > r.recv + 1
  <2>1. Enqueue(r, m) = [r EXCEPT !.hasq = TRUE, !.queue = r.queue \union {m},
                                  !.armed = r.hasq => r.armed]
    BY DEF Enqueue
  <2>2. /\ Enqueue(r, m).recv = r.recv
        /\ Enqueue(r, m).drains = r.drains
        /\ Enqueue(r, m).queue = r.queue \union {m}
    BY <2>1 DEF Receiver
  <2>3. r.recv \in Nat /\ m.seq \in Nat /\ r.queue \subseteq Message
    BY <1>4 DEF Receiver, Message
  <2>4. \A o \in r.queue : o.seq \in Nat
    BY <2>3 DEF Message
  <2>5. r.drains = 0 => \A o \in r.queue \union {m} : o.seq > r.recv + 1
    BY <1>4, <2>3, <2>4 DEF Quiet
  <2>6. Quiet(Enqueue(r, m))
    BY <2>2, <2>5 DEF Quiet
  <2>7. Process(r, m) = Enqueue(r, m)
    BY <1>4, <2>3 DEF Process
  <2>8. QED
    BY <2>6, <2>7
<1>5. CASE r.recv # NoSeq /\ ~(m.seq > r.recv + 1)
  <2>1. r.recv \in Nat /\ m.seq \in Nat
    BY <1>5 DEF Receiver, Message
  <2>2. m.seq = 0 \/ m.seq = r.recv + 1
    BY <1>5, <2>1 DEF Stale
  <2>3. Process(r, m) \in {Accept(ClearQueue(r), m), taken}
    BY <1>5, <2>2 DEF Process
  <2>4. QED
    BY <1>1, <1>2, <2>3
<1>6. QED
  BY <1>3, <1>4, <1>5

(* Whoever calls process_queued_msg leaves nothing that is ready, even if   *)
(* there was something before.                                              *)
LEMMA ProcessQueuedQuiet ==
    ASSUME NEW r \in Receiver, NEW o \in ProcessQueued(r)
    PROVE  Quiet(o)
<1> DEFINE live == {m \in r.queue : ~Stale(r, m)}
           Without(Q) == [r EXCEPT !.queue = Q, !.armed = Q # {}]
<1>1. CASE r.queue = {}
  BY <1>1 DEF ProcessQueued, Quiet
<1>2. CASE r.queue # {} /\ live = {}
  <2>1. o = Without({})
    BY <1>2 DEF ProcessQueued
  <2>2. QED
    BY <2>1 DEF Quiet, Receiver
<1>3. CASE r.queue # {} /\ live # {}
  <2>1. PICK m \in First(live) : o = Process(Without(live \ {m}), m)
    BY <1>3 DEF ProcessQueued
  <2>2. m \in live /\ \A q \in live : m.seq < q.seq \/ m.seq = q.seq
    BY DEF First
  <2>3. live \subseteq Message
    BY DEF Receiver
  <2>4. \A q \in live : m.seq <= q.seq
    BY <2>2, <2>3 DEF Message
  <2>5. Without(live \ {m}) \in Receiver
    BY <2>3 DEF Receiver
  <2>6. Without(live \ {m}).queue = live \ {m} /\ Without(live \ {m}).recv = r.recv
    BY DEF Receiver
  <2>7. ~Stale(Without(live \ {m}), m)
    BY <2>2, <2>6 DEF Stale
  <2>8. QED
    BY <2>1, <2>2, <2>3, <2>4, <2>5, <2>6, <2>7, ProcessQuiet
<1>4. QED
  BY <1>1, <1>2, <1>3

LEMMA ReceiveQuiet ==
    ASSUME NEW r \in Receiver, NEW m \in Message, Quiet(r), NEW o \in Receive(r, m)
    PROVE  Quiet(o)
BY ProcessQuiet, ProcessQueuedQuiet DEF Receive

(* The steps that leave every receiving side alone.                         *)
LEMMA QuietElsewhere ==
    ASSUME NothingReadyWaits, NEW s \in Subscribers, NEW o, Quiet(o),
           rcv \in [Subscribers -> Receiver], rcv' = [rcv EXCEPT ![s] = o]
    PROVE  NothingReadyWaits'
BY DEF NothingReadyWaits, Quiet

LEMMA QuietStep == TypeOK /\ NothingReadyWaits /\ [Next]_vars => NothingReadyWaits'
<1> SUFFICES ASSUME TypeOK, NothingReadyWaits, [Next]_vars PROVE NothingReadyWaits'
  OBVIOUS
<1>0. rcv \in [Subscribers -> Receiver]
  BY DEF TypeOK
<1>1. CASE UNCHANGED rcv
  BY <1>1 DEF NothingReadyWaits, Quiet
<1>2. ASSUME NEW s \in Subscribers, NEW m \in net[s], Deliver(s, m)
      PROVE  NothingReadyWaits'
  <2>1. PICK o \in IF sub[s] THEN Receive(rcv[s], m) ELSE {rcv[s]} :
          rcv' = [rcv EXCEPT ![s] = o]
    BY <1>2 DEF Deliver
  <2>2. m \in Message /\ Quiet(rcv[s])
    BY DEF TypeOK, NothingReadyWaits
  <2>3. Quiet(o)
    BY <1>0, <2>1, <2>2, ReceiveQuiet
  <2>4. QED
    BY <1>0, <2>1, <2>3, QuietElsewhere
<1>3. ASSUME NEW s \in Subscribers, NEW m \in replies[s], SubscribeReturn(s, m)
      PROVE  NothingReadyWaits'
  <2>1. PICK o \in Receive(rcv[s], m) : rcv' = [rcv EXCEPT ![s] = o]
    BY <1>3 DEF SubscribeReturn
  <2>2. m \in Message /\ Quiet(rcv[s])
    BY DEF TypeOK, NothingReadyWaits
  <2>3. Quiet(o)
    BY <1>0, <2>1, <2>2, ReceiveQuiet
  <2>4. QED
    BY <1>0, <2>1, <2>3, QuietElsewhere
<1>4. ASSUME NEW s \in Subscribers, rcv' = [rcv EXCEPT ![s] = Forget(@)]
      PROVE  NothingReadyWaits'
  <2>1. Quiet(Forget(rcv[s]))
    BY <1>0 DEF Forget, ClearQueue, Quiet, Receiver
  <2>2. QED
    BY <1>0, <1>4, <2>1, QuietElsewhere
<1>5. ASSUME NEW s \in Subscribers, Drain(s) PROVE NothingReadyWaits'
  <2> DEFINE back == [rcv[s] EXCEPT !.drains = @ - 1]
  <2>1. PICK o \in ProcessQueued(back) : rcv' = [rcv EXCEPT ![s] = o]
    BY <1>5 DEF Drain
  <2>2. back \in Receiver
    BY <1>0, <1>5 DEF Drain, Receiver
  <2>3. Quiet(o)
    BY <2>1, <2>2, ProcessQueuedQuiet
  <2>4. QED
    BY <1>0, <2>1, <2>3, QuietElsewhere
<1>6. CASE Publisher
  <2>1. UNCHANGED rcv
    BY <1>6 DEF Publisher, UpdateState, PublishNothing, PublishDiff, PublishSnapshot, Restart
  <2>2. QED
    BY <1>1, <2>1
<1>7. ASSUME NEW s \in Subscribers, NEW t \in Threads,
             \/ ServeFirst(s, t) \/ ServeLast(s, t) \/ Subscribe(s, t) \/ SubscribeFail(s, t)
      PROVE  NothingReadyWaits'
  <2>1. UNCHANGED rcv
    BY <1>7 DEF ServeFirst, ServeLast, Subscribe, SubscribeFail
  <2>2. QED
    BY <1>1, <2>1
<1>8. CASE UNCHANGED vars
  BY <1>1, <1>8 DEF vars
<1>9. ASSUME NEW s \in Subscribers, NEW m \in net[s], Lose(s, m) PROVE NothingReadyWaits'
  BY <1>1, <1>9 DEF Lose
<1>10. ASSUME NEW s \in Subscribers, NEW t \in Threads, Resub(s, t)
       PROVE  NothingReadyWaits'
  BY <1>4, <1>10 DEF Resub
<1>11. ASSUME NEW s \in Subscribers, Unsubscribe(s) PROVE NothingReadyWaits'
  BY <1>4, <1>11 DEF Unsubscribe
<1>12. QED
  BY <1>2, <1>3, <1>5, <1>6, <1>7, <1>8, <1>9, <1>10, <1>11 DEF Next

(* No message that could be processed is forgotten in a queue               *)
(* (receive_data_sequenced, process_queued_msg).                            *)
THEOREM NothingReadyIsLeft == Spec => []NothingReadyWaits
<1>1. Init => NothingReadyWaits
  BY DEF Init, NoSubscriber, NothingReadyWaits, Quiet
<1>2. QED
  BY <1>1, QuietStep, TypeCorrect, PTL DEF Spec

-----------------------------------------------------------------------------
(***************************************************************************)
(* A copy under a number is the publisher's version with that number.      *)
(***************************************************************************)
(* Versions are never withdrawn.                                            *)
LEMMA MadeGrows ==
    ASSUME NEW P, NEW Q, P \subseteq Q, NEW m, Made(P, m)
    PROVE  Made(Q, m)
BY DEF Made

(* Within P, a number of a run names one version.                           *)
Unique(P) == \A u, v \in P : u.inc = v.inc /\ u.seq = v.seq => u.data = v.data

LEMMA AcceptCopy ==
    ASSUME NEW P \in SUBSET Version, Unique(P),
           NEW r \in Receiver, CopyOf(P, r),
           NEW m \in Message, Made(P, m),
           m.snap \/ m.seq = 0 \/ (r.recv # NoSeq /\ m.seq = r.recv + 1)
    PROVE  CopyOf(P, Accept(r, m))
<1>1. /\ Accept(r, m).recv = m.seq
      /\ Accept(r, m).data = Applied(r.data, m)
      /\ Accept(r, m).base = m.inc
      /\ Accept(r, m).exact = Continues(r, m)
  BY DEF Accept, Receiver
<1> SUFFICES ASSUME Continues(r, m)
             PROVE  [inc |-> m.inc, seq |-> m.seq, data |-> Applied(r.data, m)] \in P
  BY <1>1 DEF CopyOf
<1>2. CASE m.snap
  BY <1>2 DEF Made, Applied
<1>3. CASE ~m.snap /\ m.seq = 0
  <2>1. Applied(r.data, m) = m.add
    BY <1>3 DEF Continues
  <2>2. QED
    BY <1>3, <2>1 DEF Made
<1>4. CASE ~m.snap /\ m.seq # 0
  <2>1. r.exact /\ r.base = m.inc /\ r.recv # NoSeq /\ m.seq = r.recv + 1
    BY <1>4 DEF Continues
  <2>2. [inc |-> r.base, seq |-> r.recv, data |-> r.data] \in P
    BY <2>1 DEF CopyOf
  <2>3. PICK d \in SUBSET Rows :
          /\ [inc |-> m.inc, seq |-> m.seq - 1, data |-> d] \in P
          /\ [inc |-> m.inc, seq |-> m.seq, data |-> (d \ m.del) \union m.add] \in P
    BY <1>4 DEF Made
  <2>4. m.seq - 1 = r.recv
    BY <2>1 DEF Receiver
  <2>5. d = r.data
    BY <2>1, <2>2, <2>3, <2>4 DEF Unique
  <2>6. QED
    BY <1>4, <2>3, <2>5 DEF Applied
<1>5. QED
  BY <1>2, <1>3, <1>4

(* A receiver whose rows are sound and whose queue holds only what the      *)
(* publisher made.                                                          *)
Sound(P, r) == CopyOf(P, r) /\ \A m \in r.queue : Made(P, m)

LEMMA ProcessSound ==
    ASSUME NEW P \in SUBSET Version, Unique(P),
           NEW r \in Receiver, Sound(P, r),
           NEW m \in Message, Made(P, m)
    PROVE  Sound(P, Process(r, m))
<1> DEFINE taken == [Accept(r, m) EXCEPT !.drains = @ + 1]
<1>1. Sound(P, Enqueue(r, m))
  BY DEF Sound, CopyOf, Enqueue, Receiver
<1>2. ASSUME m.snap \/ m.seq = 0 \/ (r.recv # NoSeq /\ m.seq = r.recv + 1)
      PROVE  Sound(P, taken)
  <2>1. CopyOf(P, Accept(r, m))
    BY <1>2, AcceptCopy DEF Sound
  <2>2. QED
    BY <2>1 DEF Sound, CopyOf, Accept, Receiver
<1>3. ASSUME m.seq = 0 PROVE Sound(P, Accept(ClearQueue(r), m))
  <2>1. ClearQueue(r) \in Receiver /\ CopyOf(P, ClearQueue(r)) /\ ClearQueue(r).queue = {}
    BY DEF ClearQueue, Receiver, CopyOf, Sound
  <2>2. CopyOf(P, Accept(ClearQueue(r), m))
    BY <1>3, <2>1, AcceptCopy
  <2>3. Accept(ClearQueue(r), m).queue = {}
    BY <2>1 DEF Accept, Receiver
  <2>4. QED
    BY <2>2, <2>3 DEF Sound
<1>4. QED
  BY <1>1, <1>2, <1>3 DEF Process

LEMMA ProcessQueuedSound ==
    ASSUME NEW P \in SUBSET Version, Unique(P),
           NEW r \in Receiver, Sound(P, r), NEW o \in ProcessQueued(r)
    PROVE  Sound(P, o)
<1> DEFINE live == {m \in r.queue : ~Stale(r, m)}
           Without(Q) == [r EXCEPT !.queue = Q, !.armed = Q # {}]
<1>1. ASSUME NEW Q \in SUBSET r.queue PROVE Without(Q) \in Receiver /\ Sound(P, Without(Q))
  BY DEF Receiver, Sound, CopyOf
<1>2. CASE r.queue = {}
  BY <1>2 DEF ProcessQueued
<1>3. CASE r.queue # {} /\ live = {}
  <2>1. o = Without({})
    BY <1>3 DEF ProcessQueued
  <2>2. QED
    BY <1>1, <2>1
<1>4. CASE r.queue # {} /\ live # {}
  <2>1. PICK m \in First(live) : o = Process(Without(live \ {m}), m)
    BY <1>4 DEF ProcessQueued
  <2>2. m \in r.queue
    BY DEF First
  <2>3. m \in Message /\ Made(P, m)
    BY <2>2 DEF Receiver, Sound
  <2>4. QED
    BY <1>1, <2>1, <2>3, ProcessSound
<1>5. QED
  BY <1>2, <1>3, <1>4

LEMMA ReceiveSound ==
    ASSUME NEW P \in SUBSET Version, Unique(P),
           NEW r \in Receiver, Sound(P, r),
           NEW m \in Message, Made(P, m), NEW o \in Receive(r, m)
    PROVE  Sound(P, o)
BY ProcessSound, ProcessQueuedSound DEF Receive

(* A new version: published and the numbers after publish() or the first    *)
(* answer to a subscriber.                                                  *)
LEMMA NumberStep ==
    ASSUME TypeOK, NumbersNameVersions,
           inc' = inc, sseq' = NextSeq,
           published' = published \union {[inc |-> inc, seq |-> NextSeq, data |-> lastPub']}
    PROVE  NumbersNameVersions'
<1> DEFINE new == [inc |-> inc, seq |-> NextSeq, data |-> lastPub']
<1>1. NextSeq \in Nat /\ (sseq # NoSeq => sseq \in Nat /\ NextSeq = sseq + 1)
  BY NextSeqType DEF TypeOK, NextSeq
<1>2. NextSeq # NoSeq
  BY <1>1, PubSubAssumption DEF PubSubAssumption
<1>3. \A v \in published : v.inc \in Nat /\ v.seq \in Nat
  BY DEF TypeOK, Version
<1>4. inc \in Nat
  BY DEF TypeOK
<1>5. \A v \in published : v.inc <= inc /\ (v.inc = inc => v.seq < NextSeq)
  BY <1>1, <1>3 DEF NumbersNameVersions
<1>6. new.inc = inc /\ new.seq = NextSeq
  OBVIOUS
<1>7. \A v \in published' : v.inc <= inc /\ (v.inc = inc => v.seq <= NextSeq)
  BY <1>1, <1>3, <1>4, <1>5, <1>6
<1>8. \A u, v \in published' : u.inc = v.inc /\ u.seq = v.seq => u.data = v.data
  <2>1. \A u, v \in published : u.inc = v.inc /\ u.seq = v.seq => u.data = v.data
    BY DEF NumbersNameVersions
  <2>2. \A u \in published : ~(u.inc = new.inc /\ u.seq = new.seq)
    BY <1>1, <1>3, <1>5, <1>6
  <2>3. published' = published \union {new}
    OBVIOUS
  <2>4. QED
    BY <2>1, <2>2, <2>3
<1>9. new \in published'
  OBVIOUS
<1>10. QED
  BY <1>2, <1>7, <1>8, <1>9 DEF NumbersNameVersions

(* publish() and the restart of the publisher ...                           *)
LEMMA PublisherNumbers ==
    ASSUME ~SnapshotPublisher, TypeOK, NumbersNameVersions, Publisher
    PROVE  NumbersNameVersions' /\ published \subseteq published'
<1>1. ASSUME NEW d \in SUBSET Rows, UpdateState(d)
      PROVE  NumbersNameVersions' /\ published \subseteq published'
  BY <1>1 DEF UpdateState, NumbersNameVersions
<1>2. CASE PublishNothing
  BY <1>2 DEF PublishNothing, NumbersNameVersions
<1>3. CASE PublishDiff
  BY <1>3, NumberStep DEF PublishDiff
<1>4. CASE PublishSnapshot
  BY <1>4 DEF PublishSnapshot
<1>5. CASE Restart
  <2>1. \A v \in published : v.inc <= inc' /\ v.inc # inc'
    BY <1>5 DEF Restart, NumbersNameVersions, TypeOK, Version
  <2>2. QED
    BY <1>5, <2>1 DEF Restart, NumbersNameVersions
<1>6. QED
  BY <1>1, <1>2, <1>3, <1>4, <1>5 DEF Publisher

(* ... and the first answer to a subscriber.                                *)
LEMMA ServeFirstNumbers ==
    ASSUME TypeOK, NumbersNameVersions,
           NEW s \in Subscribers, NEW t \in Threads, ServeFirst(s, t)
    PROVE  NumbersNameVersions' /\ published \subseteq published'
<1>1. NextSeq = 0
  BY DEF ServeFirst, NextSeq
<1>2. QED
  BY <1>1, NumberStep DEF ServeFirst

(* What is sent was made.                                                   *)
LEMMA PublishDiffMade ==
    ASSUME TypeOK, NumbersNameVersions, PublishDiff
    PROVE  Made(published', [inc |-> inc, seq |-> NextSeq, snap |-> FALSE,
                             add |-> state \ lastPub, del |-> lastPub \ state, src |-> Bus])
<1> DEFINE m == [inc |-> inc, seq |-> NextSeq, snap |-> FALSE,
                 add |-> state \ lastPub, del |-> lastPub \ state, src |-> Bus]
           new == [inc |-> inc, seq |-> NextSeq, data |-> state]
<1>1. published' = published \union {new}
  BY DEF PublishDiff
<1>2. CASE sseq = NoSeq
  <2>1. NextSeq = 0 /\ m.add = state
    BY <1>2 DEF NextSeq, NumbersNameVersions
  <2>2. [inc |-> m.inc, seq |-> m.seq, data |-> m.add] = new
    BY <2>1
  <2>3. QED
    BY <1>1, <2>1, <2>2 DEF Made
<1>3. CASE sseq # NoSeq
  <2>1. sseq \in Nat /\ NextSeq = sseq + 1
    BY <1>3 DEF TypeOK, NextSeq
  <2>2. NextSeq # 0 /\ NextSeq - 1 = sseq
    BY <2>1
  <2>3. [inc |-> inc, seq |-> NextSeq - 1, data |-> lastPub] \in published'
    BY <1>1, <1>3, <2>2 DEF NumbersNameVersions
  <2>4. (lastPub \ m.del) \union m.add = state
    OBVIOUS
  <2>5. [inc |-> m.inc, seq |-> m.seq, data |-> (lastPub \ m.del) \union m.add] \in published'
    BY <1>1, <2>4
  <2>6. lastPub \in SUBSET Rows
    BY DEF TypeOK
  <2>7. \E d \in SUBSET Rows :
          /\ [inc |-> m.inc, seq |-> m.seq - 1, data |-> d] \in published'
          /\ [inc |-> m.inc, seq |-> m.seq, data |-> (d \ m.del) \union m.add] \in published'
    BY <2>3, <2>5, <2>6
  <2>8. ~(m.snap \/ m.seq = 0)
    BY <2>2
  <2>9. QED
    BY <2>7, <2>8 DEF Made
<1>4. QED
  BY <1>2, <1>3

(* Steps of the publisher: versions are added, and what is sent was made.   *)
LEMMA SendStep ==
    ASSUME MessagesMade, FaithfulCopy, published \subseteq published', rcv' = rcv,
           \A s \in Subscribers : \A m \in net'[s] \union replies'[s] :
              m \in net[s] \union replies[s] \/ Made(published', m)
    PROVE  MessagesMade' /\ FaithfulCopy'
<1>1. ASSUME NEW s \in Subscribers, NEW m \in net'[s] \union replies'[s] \union rcv'[s].queue
      PROVE  Made(published', m)
  <2>1. m \in net[s] \union replies[s] \union rcv[s].queue \/ Made(published', m)
    OBVIOUS
  <2>2. QED
    BY <2>1, MadeGrows DEF MessagesMade
<1>2. FaithfulCopy'
  BY DEF FaithfulCopy, CopyOf
<1>3. QED
  BY <1>1, <1>2 DEF MessagesMade

(* Steps of a subscriber: its receiving side stays sound, messages are only *)
(* taken away.                                                              *)
LEMMA TakeStep ==
    ASSUME MessagesMade, FaithfulCopy, published' = published,
           rcv \in [Subscribers -> Receiver],
           NEW s \in Subscribers, NEW o, Sound(published, o), rcv' = [rcv EXCEPT ![s] = o],
           \A x \in Subscribers : net'[x] \subseteq net[x] /\ replies'[x] \subseteq replies[x]
    PROVE  MessagesMade' /\ FaithfulCopy'
<1>1. \A x \in Subscribers : rcv'[x] = rcv[x] \/ rcv'[x] = o
  OBVIOUS
<1>2. \A m \in o.queue : Made(published, m)
  BY DEF Sound
<1>3. ASSUME NEW x \in Subscribers, NEW m \in net'[x] \union replies'[x] \union rcv'[x].queue
      PROVE  Made(published, m)
  <2>1. m \in net[x] \union replies[x] \union rcv[x].queue \union o.queue
    BY <1>1
  <2>2. QED
    BY <1>2, <2>1 DEF MessagesMade
<1>4. \A x \in Subscribers : CopyOf(published, rcv'[x])
  BY <1>1 DEF FaithfulCopy, Sound
<1>5. QED
  BY <1>3, <1>4 DEF MessagesMade, FaithfulCopy

LEMMA CopyPublisher ==
    ASSUME ~SnapshotPublisher, CopyInv, Publisher
    PROVE  MessagesMade' /\ FaithfulCopy'
<1>1. published \subseteq published'
  BY PublisherNumbers DEF CopyInv
<1>2. rcv' = rcv /\ replies' = replies
  BY DEF Publisher, UpdateState, PublishNothing, PublishDiff, PublishSnapshot, Restart
<1>3. CASE PublishDiff
  <2> DEFINE new == [inc |-> inc, seq |-> NextSeq, snap |-> FALSE,
                     add |-> state \ lastPub, del |-> lastPub \ state, src |-> Bus]
  <2>1. Made(published', new)
    BY <1>3, PublishDiffMade DEF CopyInv
  <2>2. \A s \in Subscribers : net'[s] = net[s] \union {new}
    BY <1>3 DEF PublishDiff, Broadcast
  <2> HIDE DEF new
  <2>3. \A s \in Subscribers : \A m \in net'[s] \union replies'[s] :
          m \in net[s] \union replies[s] \/ Made(published', m)
    BY <1>2, <2>1, <2>2
  <2>4. QED
    BY <1>1, <1>2, <2>3, SendStep DEF CopyInv
<1>4. CASE net' = net
  BY <1>1, <1>2, <1>4, SendStep DEF CopyInv
<1>5. PublishDiff \/ net' = net
  BY DEF Publisher, UpdateState, PublishNothing, PublishSnapshot, Restart
<1>6. QED
  BY <1>3, <1>4, <1>5

LEMMA CopyServe ==
    ASSUME CopyInv, NEW s \in Subscribers, NEW t \in Threads,
           ServeFirst(s, t) \/ ServeLast(s, t)
    PROVE  NumbersNameVersions' /\ MessagesMade' /\ FaithfulCopy'
<1> USE DEF CopyInv
<1> DEFINE answer(q, d) == [inc |-> inc, seq |-> q, snap |-> TRUE, add |-> d, del |-> {}, src |-> t]
<1>1. ASSUME NEW q, NEW d, Reply(s, t, q, d), published \subseteq published', rcv' = rcv, net' = net,
             [inc |-> inc, seq |-> q, data |-> d] \in published'
      PROVE  MessagesMade' /\ FaithfulCopy'
  <2>1. Made(published', answer(q, d))
    BY <1>1 DEF Made
  <2>2. \A x \in Subscribers : replies'[x] \subseteq replies[x] \union {answer(q, d)}
    BY <1>1 DEF Reply, TypeOK
  <2> HIDE DEF answer
  <2>3. \A x \in Subscribers : \A m \in net'[x] \union replies'[x] :
          m \in net[x] \union replies[x] \/ Made(published', m)
    BY <1>1, <2>1, <2>2
  <2>4. QED
    BY <1>1, <2>3, SendStep
<1>2. CASE ServeFirst(s, t)
  <2>1. NumbersNameVersions' /\ published \subseteq published'
    BY <1>2, ServeFirstNumbers
  <2>2. [inc |-> inc, seq |-> 0, data |-> state] \in published'
    BY <1>2 DEF ServeFirst
  <2>3. QED
    BY <1>1, <1>2, <2>1, <2>2 DEF ServeFirst
<1>3. CASE ServeLast(s, t)
  <2>1. NumbersNameVersions' /\ published' = published
    BY <1>3 DEF ServeLast, publisherVars, NumbersNameVersions
  <2>2. [inc |-> inc, seq |-> sseq, data |-> lastPub] \in published
    BY <1>3 DEF ServeLast, NumbersNameVersions
  <2>3. QED
    BY <1>1, <1>3, <2>1, <2>2 DEF ServeLast
<1>4. QED
  BY <1>2, <1>3

LEMMA CopySubscriber ==
    ASSUME CopyInv, NEW s \in Subscribers,
           \/ \E t \in Threads : Subscribe(s, t) \/ SubscribeFail(s, t) \/ Resub(s, t)
           \/ \E m \in net[s] : Lose(s, m) \/ Deliver(s, m)
           \/ \E m \in replies[s] : SubscribeReturn(s, m)
           \/ Unsubscribe(s)
           \/ Drain(s)
    PROVE  NumbersNameVersions' /\ MessagesMade' /\ FaithfulCopy'
<1>0. /\ TypeOK /\ NumbersNameVersions /\ MessagesMade /\ FaithfulCopy
      /\ rcv \in [Subscribers -> Receiver] /\ published \in SUBSET Version
      /\ Unique(published)
  BY DEF CopyInv, TypeOK, NumbersNameVersions, Unique
<1>1. Sound(published, rcv[s]) /\ rcv[s] \in Receiver
  BY <1>0 DEF Sound, FaithfulCopy, MessagesMade
<1>2. UNCHANGED publisherVars
  BY DEF Subscribe, SubscribeFail, Resub, Lose, Deliver, SubscribeReturn, Unsubscribe, Drain
<1>3. NumbersNameVersions' /\ published' = published
  BY <1>0, <1>2 DEF publisherVars, NumbersNameVersions
<1> SUFFICES MessagesMade' /\ FaithfulCopy'
  BY <1>3
<1>4. \A x \in Subscribers : net'[x] \subseteq net[x] /\ replies'[x] \subseteq replies[x]
  BY <1>0 DEF TypeOK, Subscribe, SubscribeFail, Resub, Lose, Deliver, SubscribeReturn,
              Unsubscribe, Drain
<1>5. ASSUME NEW o, Sound(published, o), rcv' = [rcv EXCEPT ![s] = o]
      PROVE  MessagesMade' /\ FaithfulCopy'
  BY <1>0, <1>3, <1>4, <1>5, TakeStep
<1>6. ASSUME rcv' = [rcv EXCEPT ![s] = Forget(@)] PROVE MessagesMade' /\ FaithfulCopy'
  <2>1. Sound(published, Forget(rcv[s]))
    BY <1>1 DEF Sound, CopyOf, Forget, ClearQueue, Receiver
  <2>2. QED
    BY <1>5, <1>6, <2>1
<1>7. ASSUME NEW m \in net[s], Deliver(s, m) PROVE MessagesMade' /\ FaithfulCopy'
  <2>1. PICK o \in IF sub[s] THEN Receive(rcv[s], m) ELSE {rcv[s]} :
          rcv' = [rcv EXCEPT ![s] = o]
    BY <1>7 DEF Deliver
  <2>2. m \in Message /\ Made(published, m)
    BY <1>0 DEF TypeOK, MessagesMade
  <2>3. Sound(published, o)
    BY <1>0, <1>1, <2>1, <2>2, ReceiveSound
  <2>4. QED
    BY <1>5, <2>1, <2>3
<1>8. ASSUME NEW m \in replies[s], SubscribeReturn(s, m) PROVE MessagesMade' /\ FaithfulCopy'
  <2>1. PICK o \in Receive(rcv[s], m) : rcv' = [rcv EXCEPT ![s] = o]
    BY <1>8 DEF SubscribeReturn
  <2>2. m \in Message /\ Made(published, m)
    BY <1>0 DEF TypeOK, MessagesMade
  <2>3. Sound(published, o)
    BY <1>0, <1>1, <2>1, <2>2, ReceiveSound
  <2>4. QED
    BY <1>5, <2>1, <2>3
<1>9. CASE Drain(s)
  <2> DEFINE back == [rcv[s] EXCEPT !.drains = @ - 1]
  <2>1. PICK o \in ProcessQueued(back) : rcv' = [rcv EXCEPT ![s] = o]
    BY <1>9 DEF Drain
  <2>2. back \in Receiver /\ Sound(published, back)
    BY <1>1, <1>9 DEF Drain, Receiver, Sound, CopyOf
  <2>3. Sound(published, o)
    BY <1>0, <2>1, <2>2, ProcessQueuedSound
  <2>4. QED
    BY <1>5, <2>1, <2>3
<1>10. ASSUME rcv' = rcv PROVE MessagesMade' /\ FaithfulCopy'
  <2>1. rcv' = [rcv EXCEPT ![s] = rcv[s]]
    BY <1>0, <1>10
  <2>2. QED
    BY <1>1, <1>5, <2>1
<1>11. ASSUME NEW t \in Threads, Subscribe(s, t) \/ SubscribeFail(s, t)
       PROVE  MessagesMade' /\ FaithfulCopy'
  BY <1>10, <1>11 DEF Subscribe, SubscribeFail
<1>12. ASSUME NEW t \in Threads, Resub(s, t) PROVE MessagesMade' /\ FaithfulCopy'
  BY <1>6, <1>12 DEF Resub
<1>13. ASSUME NEW m \in net[s], Lose(s, m) PROVE MessagesMade' /\ FaithfulCopy'
  BY <1>10, <1>13 DEF Lose
<1>14. CASE Unsubscribe(s)
  BY <1>6, <1>14 DEF Unsubscribe
<1>15. QED
  BY <1>7, <1>8, <1>9, <1>11, <1>12, <1>13, <1>14

(* Whatever the bus, the publisher's restarts and the subscribers' threads  *)
(* do, the invariant stays (publish, receive_data_sequenced).               *)
THEOREM CopyInvariant == ASSUME ~SnapshotPublisher PROVE Spec => []CopyInv
<1>1. Init => CopyInv
  <2> SUFFICES ASSUME Init PROVE CopyInv
    OBVIOUS
  <2>1. TypeOK
    BY InitType
  <2>2. NumbersNameVersions
    BY DEF Init, NumbersNameVersions
  <2>3. \A s \in Subscribers : rcv[s].queue = {} /\ net[s] = {} /\ replies[s] = {}
    BY DEF Init, NoSubscriber
  <2>4. MessagesMade
    BY <2>3 DEF MessagesMade
  <2>5. FaithfulCopy
    BY DEF Init, NoSubscriber, FaithfulCopy, CopyOf
  <2>6. QED
    BY <2>1, <2>2, <2>4, <2>5 DEF CopyInv
<1>2. CopyInv /\ TypeOK' /\ [Next]_vars => CopyInv'
  <2> SUFFICES ASSUME CopyInv, TypeOK', [Next]_vars
               PROVE  NumbersNameVersions' /\ MessagesMade' /\ FaithfulCopy'
    BY DEF CopyInv
  <2>1. CASE Publisher
    BY <2>1, CopyPublisher, PublisherNumbers DEF CopyInv
  <2>2. CASE UNCHANGED vars
    BY <2>2 DEF vars, publisherVars, CopyInv, NumbersNameVersions, MessagesMade, Made,
                FaithfulCopy, CopyOf
  <2>3. QED
    BY <2>1, <2>2, CopyServe, CopySubscriber DEF Next
<1>3. QED
  BY <1>1, <1>2, TypeCorrect, PTL DEF Spec

(* The rows a subscriber holds under a number are the publisher's.          *)
THEOREM CopiesAreFaithful == ASSUME ~SnapshotPublisher PROVE Spec => []FaithfulCopy
<1>1. CopyInv => FaithfulCopy
  BY DEF CopyInv
<1>2. QED
  BY <1>1, CopyInvariant, PTL

(* A late subscriber is given the rows of the last number used              *)
(* (get_last_published_data_with_seqnum).                                   *)
THEOREM SnapshotsAreCurrent == ASSUME ~SnapshotPublisher PROVE Spec => []SnapshotIsCurrent
<1>1. CopyInv => SnapshotIsCurrent
  BY DEF CopyInv, NumbersNameVersions, SnapshotIsCurrent
<1>2. QED
  BY <1>1, CopyInvariant, PTL

-----------------------------------------------------------------------------
(***************************************************************************)
(* DsePubSub implements TableFeed: every step of the publisher, the bus    *)
(* and the subscribers is a step of the feed or leaves it alone.           *)
(***************************************************************************)
(* The moves of one subscriber's view that the feed allows.                 *)
Moves(P, v, w) ==
    \/ w = v
    \/ w = Unknown
    \/ v \notin P /\ w \in P
    \/ v \in P /\ w \in P /\ w.seq = v.seq + 1
    \/ w \in P /\ w.seq = 0
    \/ v # Unknown /\ P # {} /\ w = Suspect

(* A sound receiver's view is Unknown, Suspect or a version of P.           *)
LEMMA ViewOfSound ==
    ASSUME NEW P \in SUBSET Version, NEW r \in Receiver, CopyOf(P, r)
    PROVE  /\ r.recv = NoSeq => View(r) = Unknown /\ View(r) \notin P
           /\ r.recv # NoSeq /\ ~r.exact => View(r) = Suspect /\ View(r) \notin P
           /\ r.recv # NoSeq /\ r.exact => View(r) \in P /\ View(r).seq = r.recv
           /\ r.recv # NoSeq => View(r) # Unknown
<1>1. CASE r.recv = NoSeq
  BY <1>1, ViewAssumption DEF View
<1>2. CASE r.recv # NoSeq /\ ~r.exact
  BY <1>2, ViewAssumption, PubSubAssumption DEF View, PubSubAssumption
<1>3. CASE r.recv # NoSeq /\ r.exact
  <2>1. View(r) = [inc |-> r.base, seq |-> r.recv, data |-> r.data]
    BY <1>3 DEF View
  <2>2. View(r) \in P
    BY <1>3, <2>1 DEF CopyOf
  <2>3. View(r) # Unknown
    BY <2>2, ViewAssumption
  <2>4. QED
    BY <1>3, <2>1, <2>2, <2>3
<1>4. QED
  BY <1>1, <1>2, <1>3

(* Taking a message is a move of the view.                                  *)
LEMMA AcceptMoves ==
    ASSUME NEW P \in SUBSET Version, Unique(P),
           NEW r \in Receiver, CopyOf(P, r), NEW m \in Message, Made(P, m),
           \/ r.recv = NoSeq /\ m.snap
           \/ r.recv # NoSeq /\ m.seq = 0
           \/ r.recv # NoSeq /\ m.seq = r.recv + 1
    PROVE  Moves(P, View(r), View(Accept(r, m)))
<1> DEFINE o == Accept(r, m)
<1>1. o \in Receiver /\ o.recv = m.seq /\ (m.snap => o.exact)
  BY DEF Accept, Applied, Continues, Receiver, Message
<1>2. CopyOf(P, o)
  BY AcceptCopy
<1>3. m.seq \in Nat /\ m.seq # NoSeq
  BY PubSubAssumption DEF PubSubAssumption, Message
<1>4. P # {}
  BY DEF Made
<1> HIDE DEF o
<1>5. CASE o.exact
  <2>1. View(o) \in P /\ View(o).seq = m.seq
    BY <1>1, <1>2, <1>3, <1>5, ViewOfSound
  <2>2. CASE r.recv = NoSeq
    BY <2>1, <2>2, ViewOfSound DEF Moves, o
  <2>3. CASE r.recv # NoSeq /\ m.seq = 0
    BY <2>1, <2>3 DEF Moves, o
  <2>4. CASE r.recv # NoSeq /\ m.seq = r.recv + 1
    <3>1. View(r) \in P => View(r).seq = r.recv
      BY <2>4, ViewOfSound
    <3>2. QED
      BY <2>1, <2>4, <3>1 DEF Moves, o
  <2>5. QED
    BY <2>2, <2>3, <2>4
<1>6. CASE ~o.exact
  <2>1. View(o) = Suspect
    BY <1>1, <1>2, <1>3, <1>6, ViewOfSound
  <2>2. View(r) # Unknown
    BY <1>1, <1>6, ViewOfSound
  <2>3. QED
    BY <1>4, <2>1, <2>2 DEF Moves, o
<1>7. QED
  BY <1>1, <1>5, <1>6 DEF Receiver

LEMMA ProcessMoves ==
    ASSUME NEW P \in SUBSET Version, Unique(P),
           NEW r \in Receiver, Sound(P, r), NEW m \in Message, Made(P, m), ~Stale(r, m)
    PROVE  Moves(P, View(r), View(Process(r, m)))
<1> DEFINE taken == [Accept(r, m) EXCEPT !.drains = @ + 1]
<1>0. CopyOf(P, r)
  BY DEF Sound
<1>1. View(Enqueue(r, m)) = View(r)
  BY DEF Enqueue, View, Receiver
<1>2. View(taken) = View(Accept(r, m))
  BY DEF Accept, View, Receiver
<1>3. View(Accept(ClearQueue(r), m)) = View(Accept(r, m))
  BY DEF Accept, ClearQueue, Continues, View, Receiver
<1>4. CASE \/ r.recv = NoSeq /\ m.snap
           \/ r.recv # NoSeq /\ m.seq = 0
           \/ r.recv # NoSeq /\ m.seq = r.recv + 1
  <2>1. Moves(P, View(r), View(Accept(r, m)))
    BY <1>0, <1>4, AcceptMoves
  <2>2. Process(r, m) \in {taken, Accept(ClearQueue(r), m)}
    BY <1>4 DEF Process, Receiver, Message
  <2>3. QED
    BY <1>2, <1>3, <2>1, <2>2
<1>5. CASE ~(\/ r.recv = NoSeq /\ m.snap
             \/ r.recv # NoSeq /\ m.seq = 0
             \/ r.recv # NoSeq /\ m.seq = r.recv + 1)
  <2>1. Process(r, m) = Enqueue(r, m)
    BY <1>5 DEF Process
  <2>2. QED
    BY <1>1, <2>1 DEF Moves
<1>6. QED
  BY <1>4, <1>5

LEMMA ProcessQueuedMoves ==
    ASSUME NEW P \in SUBSET Version, Unique(P),
           NEW r \in Receiver, Sound(P, r), NEW o \in ProcessQueued(r)
    PROVE  Moves(P, View(r), View(o))
<1> DEFINE live == {m \in r.queue : ~Stale(r, m)}
           Without(Q) == [r EXCEPT !.queue = Q, !.armed = Q # {}]
<1>1. ASSUME NEW Q \in SUBSET r.queue
      PROVE  /\ Without(Q) \in Receiver
             /\ Sound(P, Without(Q))
             /\ View(Without(Q)) = View(r)
             /\ Without(Q).recv = r.recv
  BY DEF Receiver, Sound, CopyOf, View
<1>2. CASE r.queue = {}
  BY <1>2 DEF ProcessQueued, Moves
<1>3. CASE r.queue # {} /\ live = {}
  <2>1. o = Without({})
    BY <1>3 DEF ProcessQueued
  <2>2. QED
    BY <1>1, <2>1 DEF Moves
<1>4. CASE r.queue # {} /\ live # {}
  <2>1. PICK m \in First(live) : o = Process(Without(live \ {m}), m)
    BY <1>4 DEF ProcessQueued
  <2>2. m \in r.queue /\ ~Stale(r, m)
    BY DEF First
  <2>3. m \in Message /\ Made(P, m)
    BY <2>2 DEF Receiver, Sound
  <2>4. ~Stale(Without(live \ {m}), m)
    BY <1>1, <2>2 DEF Stale
  <2>5. Moves(P, View(Without(live \ {m})), View(Process(Without(live \ {m}), m)))
    BY <1>1, <2>3, <2>4, ProcessMoves
  <2>6. View(Without(live \ {m})) = View(r)
    BY <1>1
  <2>7. QED
    BY <2>1, <2>5, <2>6
<1>5. QED
  BY <1>2, <1>3, <1>4

LEMMA ReceiveMoves ==
    ASSUME NEW P \in SUBSET Version, Unique(P),
           NEW r \in Receiver, Sound(P, r), NEW m \in Message, Made(P, m),
           NEW o \in Receive(r, m)
    PROVE  Moves(P, View(r), View(o))
BY ProcessMoves, ProcessQueuedMoves DEF Receive

-----------------------------------------------------------------------------
(* A move of one view is a step of the feed.                                *)
LEMMA MoveStep ==
    ASSUME NEW s \in Subscribers, NEW o, rcv \in [Subscribers -> Receiver],
           rcv' = [rcv EXCEPT ![s] = o], published' = published,
           Moves(published, View(rcv[s]), View(o))
    PROVE  [Feed!Next]_(Feed!feedVars)
<1> DEFINE view == [x \in Subscribers |-> View(rcv[x])]
           w == View(o)
<1>1. view[s] = View(rcv[s])
  OBVIOUS
<1>2. [x \in Subscribers |-> View(rcv'[x])] = [view EXCEPT ![s] = w]
  OBVIOUS
<1>3. Feed!Sees(s, w)
  BY <1>2 DEF Feed!Sees
<1>4. CASE w = view[s]
  <2>1. [x \in Subscribers |-> View(rcv'[x])] = view
    BY <1>2, <1>4
  <2>2. QED
    BY <2>1 DEF Feed!feedVars
<1>5. CASE w # view[s]
  <2>1. [x \in Subscribers |-> View(rcv'[x])] # view
    BY <1>2, <1>5
  <2>2. CASE w = Unknown
    BY <1>3, <2>1, <2>2 DEF Feed!Next, Feed!Move, Feed!Forget
  <2>3. CASE view[s] \notin published /\ w \in published
    BY <1>3, <2>1, <2>3 DEF Feed!Next, Feed!Move, Feed!Learn
  <2>4. CASE view[s] \in published /\ w \in published /\ w.seq = view[s].seq + 1
    BY <1>3, <2>1, <2>4 DEF Feed!Next, Feed!Move, Feed!Advance
  <2>5. CASE w \in published /\ w.seq = 0
    BY <1>3, <2>1, <2>5 DEF Feed!Next, Feed!Move, Feed!Reinit
  <2>6. CASE view[s] # Unknown /\ published # {} /\ w = Suspect
    BY <1>3, <2>1, <2>6 DEF Feed!Next, Feed!Move, Feed!Doubt
  <2>7. QED
    BY <1>1, <1>5, <2>2, <2>3, <2>4, <2>5, <2>6 DEF Moves
<1>6. QED
  BY <1>4, <1>5

(* A new number is a publication of the feed.                               *)
LEMMA NumberPublishes ==
    ASSUME TypeOK, NumbersNameVersions, NEW d \in SUBSET Rows, rcv' = rcv,
           published' = published \union {[inc |-> inc, seq |-> NextSeq, data |-> d]}
    PROVE  [Feed!Next]_(Feed!feedVars)
<1> DEFINE new == [inc |-> inc, seq |-> NextSeq, data |-> d]
<1>1. NextSeq \in Nat /\ (sseq # NoSeq => sseq \in Nat /\ NextSeq = sseq + 1)
  BY NextSeqType DEF TypeOK, NextSeq
<1>2. \A v \in published : v.inc \in Nat /\ v.seq \in Nat
  BY DEF TypeOK, Version
<1>3. inc \in Nat
  BY DEF TypeOK
<1>4. \A v \in published : inc > v.inc \/ (inc = v.inc /\ NextSeq > v.seq)
  BY <1>1, <1>2, <1>3 DEF NumbersNameVersions
<1>5. \A v \in published : Feed!Later(new, v)
  BY <1>4 DEF Feed!Later
<1>6. new \in Feed!Version
  BY <1>1, <1>3 DEF Feed!Version
<1>7. new \notin published
  BY <1>1, <1>2, <1>3, <1>4
<1>8. published' = published \union {new}
  OBVIOUS
<1> HIDE DEF new
<1>9. Feed!Publish
  BY <1>5, <1>6, <1>7, <1>8 DEF Feed!Publish
<1>10. QED
  BY <1>9 DEF Feed!Next

LEMMA FeedStep ==
    ASSUME ~SnapshotPublisher, CopyInv, [Next]_vars
    PROVE  [Feed!Next]_(Feed!feedVars)
<1>0. /\ TypeOK /\ NumbersNameVersions
      /\ rcv \in [Subscribers -> Receiver] /\ published \in SUBSET Version
      /\ Unique(published)
  BY DEF CopyInv, TypeOK, NumbersNameVersions, Unique
<1>1. CASE rcv' = rcv /\ published' = published
  BY <1>1 DEF Feed!feedVars
<1>2. CASE Publisher
  <2>1. CASE PublishDiff
    BY <1>0, <2>1, NumberPublishes DEF PublishDiff, TypeOK
  <2>2. CASE ~PublishDiff
    BY <1>1, <1>2, <2>2 DEF Publisher, UpdateState, PublishNothing, PublishSnapshot, Restart
  <2>3. QED
    BY <2>1, <2>2
<1>3. ASSUME NEW s \in Subscribers, NEW t \in Threads, ServeFirst(s, t)
      PROVE  [Feed!Next]_(Feed!feedVars)
  <2>1. NextSeq = 0
    BY <1>3 DEF ServeFirst, NextSeq
  <2>2. QED
    BY <1>0, <1>3, <2>1, NumberPublishes DEF ServeFirst, TypeOK
<1>4. ASSUME NEW s \in Subscribers, NEW t \in Threads,
             ServeLast(s, t) \/ Subscribe(s, t) \/ SubscribeFail(s, t)
      PROVE  [Feed!Next]_(Feed!feedVars)
  BY <1>1, <1>4 DEF ServeLast, Subscribe, SubscribeFail, publisherVars
<1>5. ASSUME NEW s \in Subscribers, NEW m \in net[s], Lose(s, m)
      PROVE  [Feed!Next]_(Feed!feedVars)
  BY <1>1, <1>5 DEF Lose, publisherVars
<1>6. ASSUME NEW s \in Subscribers, NEW m \in net[s], Deliver(s, m)
      PROVE  [Feed!Next]_(Feed!feedVars)
  <2>1. PICK o \in IF sub[s] THEN Receive(rcv[s], m) ELSE {rcv[s]} :
          rcv' = [rcv EXCEPT ![s] = o]
    BY <1>6 DEF Deliver
  <2>2. m \in Message /\ Made(published, m) /\ Sound(published, rcv[s])
    BY <1>0 DEF TypeOK, CopyInv, MessagesMade, FaithfulCopy, Sound
  <2>3. Moves(published, View(rcv[s]), View(o))
    BY <1>0, <2>1, <2>2, ReceiveMoves DEF Moves
  <2>4. QED
    BY <1>0, <1>6, <2>1, <2>3, MoveStep DEF Deliver, publisherVars
<1>7. ASSUME NEW s \in Subscribers, NEW m \in replies[s], SubscribeReturn(s, m)
      PROVE  [Feed!Next]_(Feed!feedVars)
  <2>1. PICK o \in Receive(rcv[s], m) : rcv' = [rcv EXCEPT ![s] = o]
    BY <1>7 DEF SubscribeReturn
  <2>2. m \in Message /\ Made(published, m) /\ Sound(published, rcv[s])
    BY <1>0 DEF TypeOK, CopyInv, MessagesMade, FaithfulCopy, Sound
  <2>3. Moves(published, View(rcv[s]), View(o))
    BY <1>0, <2>1, <2>2, ReceiveMoves
  <2>4. QED
    BY <1>0, <1>7, <2>1, <2>3, MoveStep DEF SubscribeReturn, publisherVars
<1>8. ASSUME NEW s \in Subscribers, rcv' = [rcv EXCEPT ![s] = Forget(@)], published' = published
      PROVE  [Feed!Next]_(Feed!feedVars)
  <2>1. View(Forget(rcv[s])) = Unknown
    BY <1>0 DEF Forget, ClearQueue, View, Receiver
  <2>2. QED
    BY <1>0, <1>8, <2>1, MoveStep DEF Moves
<1>9. ASSUME NEW s \in Subscribers, Drain(s)
      PROVE  [Feed!Next]_(Feed!feedVars)
  <2> DEFINE back == [rcv[s] EXCEPT !.drains = @ - 1]
  <2>1. PICK o \in ProcessQueued(back) : rcv' = [rcv EXCEPT ![s] = o]
    BY <1>9 DEF Drain
  <2>2. Sound(published, rcv[s]) /\ rcv[s] \in Receiver
    BY <1>0 DEF CopyInv, MessagesMade, FaithfulCopy, Sound
  <2>3. back \in Receiver /\ Sound(published, back) /\ View(back) = View(rcv[s])
    BY <1>9, <2>2 DEF Drain, Receiver, Sound, CopyOf, View
  <2>4. Moves(published, View(rcv[s]), View(o))
    BY <1>0, <2>1, <2>3, ProcessQueuedMoves
  <2>5. QED
    BY <1>0, <1>9, <2>1, <2>4, MoveStep DEF Drain, publisherVars
<1>10. ASSUME NEW s \in Subscribers, Unsubscribe(s)
       PROVE  [Feed!Next]_(Feed!feedVars)
  BY <1>8, <1>10 DEF Unsubscribe, publisherVars
<1>11. ASSUME NEW s \in Subscribers, NEW t \in Threads, Resub(s, t)
       PROVE  [Feed!Next]_(Feed!feedVars)
  BY <1>8, <1>11 DEF Resub, publisherVars
<1>12. CASE UNCHANGED vars
  BY <1>1, <1>12 DEF vars, publisherVars
<1>13. QED
  BY <1>2, <1>3, <1>4, <1>5, <1>6, <1>7, <1>9, <1>10, <1>11, <1>12 DEF Next

(* Sequenced publish/subscribe implements the feed: a subscriber's copy     *)
(* moves one version at a time, starts from a version the publisher made,   *)
(* and versions are numbered upwards (publish, receive_data_sequenced).     *)
THEOREM FeedIsImplemented == ASSUME ~SnapshotPublisher PROVE Spec => ImplementsFeed
<1>1. Init => Feed!Init
  <2> SUFFICES ASSUME Init PROVE Feed!Init
    OBVIOUS
  <2>1. \A s \in Subscribers : View(rcv[s]) = Unknown
    BY DEF Init, NoSubscriber, View
  <2>2. [s \in Subscribers |-> View(rcv[s])] = [s \in Subscribers |-> Unknown]
    BY <2>1
  <2>3. published = {}
    BY DEF Init
  <2>4. QED
    BY <2>2, <2>3 DEF Feed!Init
<1>2. CopyInv /\ [Next]_vars => [Feed!Next]_(Feed!feedVars)
  BY FeedStep
<1>3. QED
  BY <1>1, <1>2, CopyInvariant, PTL DEF Spec, ImplementsFeed, Feed!FeedSpec

=============================================================================
