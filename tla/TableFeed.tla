----------------------------- MODULE TableFeed -----------------------------
(***************************************************************************)
(* What sequenced publish/subscribe promises to the subscribers of one     *)
(* table, with no messages, queues or calls in it.                         *)
(*                                                                         *)
(* log is the set of versions the publisher made; view[s] is what          *)
(* subscriber s may believe about its copy: Unknown (it cannot place the   *)
(* rows it holds), a version of log (it holds exactly these rows), or      *)
(* Suspect (it follows the sequence numbers, but its rows descend from a   *)
(* re-initialisation by a differential and may be wrong).                  *)
(***************************************************************************)
EXTENDS Integers

CONSTANTS
    Subscribers,        \* the subscribing data services
    Rows,               \* the rows the table may hold
    Unknown, Suspect    \* the views that are no version

VARIABLES log, view

Version == [inc : Nat, seq : Nat, data : SUBSET Rows]

feedVars == <<log, view>>

(* u comes later than v: in a later run of the publisher, or in the same    *)
(* run under a higher number.                                               *)
Later(u, v) == u.inc > v.inc \/ (u.inc = v.inc /\ u.seq > v.seq)

Init ==
    /\ log = {}
    /\ view = [s \in Subscribers |-> Unknown]

(* The publisher makes a version that is later than all it made before.     *)
Publish ==
    /\ \E v \in log' \ log :
         /\ v \in Version
         /\ \A u \in log : Later(v, u)
         /\ log' = log \union {v}
    /\ UNCHANGED view

Sees(s, w) == view' = [view EXCEPT ![s] = w] /\ UNCHANGED log

(* A subscriber that has no exact copy gets any version as a snapshot.      *)
Learn(s) == view[s] \notin log /\ \E v \in log : Sees(s, v)

(* A copy moves on to the version with the next number, never further.      *)
(* The numbers do not say which run they are from: a snapshot of another    *)
(* run fits as well, and is then an exact copy of that run's version.       *)
Advance(s) ==
    /\ view[s] \in log
    /\ \E v \in log : v.seq = view[s].seq + 1 /\ Sees(s, v)

(* Any view is replaced by the first version of a run.                      *)
Reinit(s) == \E v \in log : v.seq = 0 /\ Sees(s, v)

(* Unsubscribing or resubscribing: the place in the sequence is lost.       *)
Forget(s) == Sees(s, Unknown)

(* A differential is applied to rows it was not made for.                   *)
Doubt(s) == view[s] # Unknown /\ log # {} /\ Sees(s, Suspect)

(* A subscriber that learns nothing new does not move.                      *)
Move ==
    /\ view' # view
    /\ \E s \in Subscribers :
         Learn(s) \/ Advance(s) \/ Reinit(s) \/ Forget(s) \/ Doubt(s)

Next == Publish \/ Move

FeedSpec == Init /\ [][Next]_feedVars
=============================================================================
