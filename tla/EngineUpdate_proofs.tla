------------------------ MODULE EngineUpdate_proofs -------------------------
(***************************************************************************)
(* Proofs about EngineUpdate, for any rules, datasource tables and         *)
(* batches: types, the graph covers the rules, no recursive rules come     *)
(* into force, refusals leave no trace, sources stay subscribed, and       *)
(* triggers fire exactly for what gains rows.                              *)
(***************************************************************************)
EXTENDS EngineUpdate, RuleGraph_proofs

RuleEvent == [rule : Rules, insert : BOOLEAN]

(* What callers ask of an update: no rule is deleted twice.                 *)
Asked(ev) ==
    /\ ev \in Seq(RuleEvent)
    /\ \A j, k \in 1 .. Len(ev) : ~ev[j].insert /\ ~ev[k].insert /\ ev[j].rule = ev[k].rule => j = k

(* The rules users write are rules of the graph, with tables of policies as *)
(* heads.                                                                   *)
LEMMA RulesAreRules == Rules \subseteq RuleType /\ \A r \in Rules : r.head \in Tables \ Sources
  BY EngineAssumption DEF RuleType

(* A finite set as a sequence names no element twice.                       *)
LEMMA SetToSeqIs ==
    ASSUME NEW S, IsFiniteSet(S)
    PROVE  /\ SetToSeq(S) \in Seq(S)
           /\ \A j, k \in 1 .. Len(SetToSeq(S)) : SetToSeq(S)[j] = SetToSeq(S)[k] => j = k
<1>1. PICK n \in Nat : ExistsBijection(1 .. n, S)
  BY FS_NatBijection
<1>2. Cardinality(S) = n
  BY <1>1, FS_CountingElements
<1>3. PICK f : f \in Bijection(1 .. n, S)
  BY <1>1 DEF ExistsBijection
<1>4. f \in [1 .. n -> S] /\ IsInjective(f)
  BY <1>3 DEF Bijection, Injection, Surjection, IsInjective
<1>5. SetToSeq(S) \in [1 .. n -> S] /\ IsInjective(SetToSeq(S))
  BY <1>2, <1>4 DEF SetToSeq
<1> DEFINE s == SetToSeq(S)
<1> HIDE DEF s
<1>6. s \in [1 .. n -> S] /\ IsInjective(s)
  BY <1>5 DEF s
<1>7. s \in Seq(S) /\ Len(s) = n
  BY <1>6
<1>8. \A j, k \in 1 .. Len(s) : s[j] = s[k] => j = k
  BY <1>6, <1>7 DEF IsInjective
<1> QED BY <1>7, <1>8 DEF s

(* The events of a sequence of rules.                                       *)
LEMMA EventsIs ==
    ASSUME NEW s \in Seq(Rules), NEW b \in BOOLEAN
    PROVE  /\ Events(s, b) \in Seq(RuleEvent) /\ Len(Events(s, b)) = Len(s)
           /\ \A k \in 1 .. Len(s) : Events(s, b)[k].rule = s[k] /\ Events(s, b)[k].insert = b
<1>1. DOMAIN s = 1 .. Len(s) /\ Len(s) \in Nat /\ \A k \in 1 .. Len(s) : s[k] \in Rules
  OBVIOUS
<1>2. Events(s, b) \in [1 .. Len(s) -> RuleEvent]
  BY <1>1 DEF Events, RuleEvent
<1>3. \A k \in 1 .. Len(s) : Events(s, b)[k].rule = s[k] /\ Events(s, b)[k].insert = b
  BY <1>1 DEF Events
<1> QED BY <1>1, <1>2, <1>3

(* persistent_insert_rules may name a rule twice; deletions do not.         *)
LEMMA InsertionsAsked ==
    ASSUME NEW s \in BoundedSeq(Rules, MaxBatch)
    PROVE  Asked(Events(s, TRUE))
<1>1. PICK n \in 0 .. MaxBatch : s \in [1 .. n -> Rules]
  BY DEF BoundedSeq, SeqOf
<1>2. s \in Seq(Rules)
  BY <1>1, EngineAssumption
<1> QED BY <1>2, EventsIs DEF Asked

(* persistent_delete_rule and delete_policy delete no rule twice,           *)
LEMMA DeletionsAsked ==
    ASSUME NEW s \in Seq(Rules), \A j, k \in 1 .. Len(s) : s[j] = s[k] => j = k
    PROVE  Asked(Events(s, FALSE))
<1> DEFINE e == Events(s, FALSE)
<1>1. FALSE \in BOOLEAN
  OBVIOUS
<1>2. e \in Seq(RuleEvent) /\ Len(e) = Len(s) /\ \A k \in 1 .. Len(s) : e[k].rule = s[k]
  BY <1>1, EventsIs
<1> HIDE DEF e
<1>3. Asked(e)
  BY <1>2 DEF Asked
<1> QED BY <1>3 DEF e

(* because a set of rules has none twice,                                   *)
LEMMA SomeRules ==
    ASSUME NEW S \in SUBSET Rules
    PROVE  /\ SetToSeq(S) \in Seq(Rules)
           /\ \A j, k \in 1 .. Len(SetToSeq(S)) : SetToSeq(S)[j] = SetToSeq(S)[k] => j = k
<1>1. IsFiniteSet(S)
  BY EngineAssumption, FS_Subset
<1>2. SetToSeq(S) \in Seq(S)
  BY <1>1, SetToSeqIs
<1>3. SetToSeq(S) \in Seq(Rules)
  BY <1>2
<1> QED BY <1>1, <1>3, SetToSeqIs

(* nor do the differences that synchronize_rules applies.                   *)
LEMMA SynchronizeAsked ==
    ASSUME NEW ins \in SUBSET Rules, NEW del \in SUBSET Rules
    PROVE  Asked(Events(SetToSeq(ins), TRUE) \o Events(SetToSeq(del), FALSE))
<1> DEFINE s == SetToSeq(ins)
           d == SetToSeq(del)
           a == Events(s, TRUE)
           b == Events(d, FALSE)
<1>1. s \in Seq(Rules) /\ d \in Seq(Rules) /\ \A j, k \in 1 .. Len(d) : d[j] = d[k] => j = k
  BY SomeRules
<1> HIDE DEF s, d
<1>2. /\ a \in Seq(RuleEvent) /\ \A k \in 1 .. Len(a) : a[k].insert
      /\ b \in Seq(RuleEvent) /\ \A j, k \in 1 .. Len(b) : b[j].rule = b[k].rule => j = k
  <2>1. TRUE \in BOOLEAN /\ FALSE \in BOOLEAN
    OBVIOUS
  <2>2. a \in Seq(RuleEvent) /\ Len(a) = Len(s) /\ \A k \in 1 .. Len(s) : a[k].insert = TRUE
    BY <1>1, <2>1, EventsIs
  <2>3. b \in Seq(RuleEvent) /\ Len(b) = Len(d) /\ \A k \in 1 .. Len(d) : b[k].rule = d[k]
    BY <1>1, <2>1, EventsIs
  <2> HIDE DEF a, b
  <2> QED BY ONLY <1>1, <2>2, <2>3
<1> HIDE DEF a, b
<1>3. a \o b \in Seq(RuleEvent) /\ Len(a \o b) = Len(a) + Len(b)
  BY <1>2
<1>4. ASSUME NEW j \in 1 .. Len(a \o b), ~(a \o b)[j].insert
      PROVE  j - Len(a) \in 1 .. Len(b) /\ (a \o b)[j] = b[j - Len(a)]
  <2>1. j > Len(a)
    BY <1>2, <1>3, <1>4
  <2> QED BY <1>2, <1>3, <2>1
<1>5. \A j, k \in 1 .. Len(a \o b) :
         ~(a \o b)[j].insert /\ ~(a \o b)[k].insert /\ (a \o b)[j].rule = (a \o b)[k].rule => j = k
  <2> SUFFICES ASSUME NEW j \in 1 .. Len(a \o b), NEW k \in 1 .. Len(a \o b),
                      ~(a \o b)[j].insert, ~(a \o b)[k].insert, (a \o b)[j].rule = (a \o b)[k].rule
               PROVE  j = k
    OBVIOUS
  <2>1. j - Len(a) \in 1 .. Len(b) /\ (a \o b)[j] = b[j - Len(a)]
    BY <1>4
  <2>2. k - Len(a) \in 1 .. Len(b) /\ (a \o b)[k] = b[k - Len(a)]
    BY <1>4
  <2>3. b[j - Len(a)].rule = b[k - Len(a)].rule
    BY <2>1, <2>2
  <2>4. j - Len(a) = k - Len(a)
    BY ONLY <1>2, <2>1, <2>2, <2>3
  <2>5. Len(a) \in Nat /\ j \in Nat /\ k \in Nat
    BY <1>2, <1>3
  <2> QED BY ONLY <2>4, <2>5
<1> QED BY <1>3, <1>5 DEF Asked, a, b, s, d

-----------------------------------------------------------------------------
(* What _actual_events keeps of the events ev with T in force.              *)
Matters(v, T) == v.insert # (v.rule \in T)

Kept(q, ev, k, T) ==
    /\ Asked(q)
    /\ \A j \in 1 .. Len(q) : Matters(q[j], T) /\ \E i \in 1 .. k : q[j] = ev[i]

(* One event more of those that _actual_events goes through.                *)
LEMMA KeptMore ==
    ASSUME NEW ev, Asked(ev), NEW k \in 1 .. Len(ev), NEW T,
           NEW q, Kept(q, ev, k - 1, T)
    PROVE  /\ Kept(q, ev, k, T)
           /\ Matters(ev[k], T) => Kept(Append(q, ev[k]), ev, k, T)
<1>1. ev \in Seq(RuleEvent) /\ Len(ev) \in Nat /\ k \in Nat /\ ev[k] \in RuleEvent
  BY DEF Asked
<1>2. q \in Seq(RuleEvent) /\ Len(q) \in Nat
  BY DEF Kept, Asked
<1>3. \A j \in 1 .. Len(q) : Matters(q[j], T) /\ \E i \in 1 .. k - 1 : q[j] = ev[i]
  BY DEF Kept
<1>4. \A i \in 1 .. k - 1 : i \in 1 .. k /\ i \in 1 .. Len(ev) /\ i # k
  BY <1>1
<1>5. Kept(q, ev, k, T)
  BY <1>3, <1>4 DEF Kept
<1>6. ASSUME Matters(ev[k], T) PROVE Kept(Append(q, ev[k]), ev, k, T)
  <2> DEFINE p == Append(q, ev[k])
  <2>1. p \in Seq(RuleEvent) /\ Len(p) = Len(q) + 1
    BY <1>1, <1>2
  <2>2. \A j \in 1 .. Len(p) : (j \in 1 .. Len(q) /\ p[j] = q[j]) \/ (j = Len(q) + 1 /\ p[j] = ev[k])
    BY <1>1, <1>2
  <2> HIDE DEF p
  <2>3. k \in 1 .. k
    BY <1>1
  <2>4. \A j \in 1 .. Len(p) : Matters(p[j], T) /\ \E i \in 1 .. k : p[j] = ev[i]
    BY <1>3, <1>4, <1>6, <2>2, <2>3
  <2>5. \A j, h \in 1 .. Len(q) : ~q[j].insert /\ ~q[h].insert /\ q[j].rule = q[h].rule => j = h
    BY DEF Kept, Asked
  <2>6. \A j \in 1 .. Len(q) : ~(~q[j].insert /\ ~ev[k].insert /\ q[j].rule = ev[k].rule)
    <3> SUFFICES ASSUME NEW j \in 1 .. Len(q), ~q[j].insert, ~ev[k].insert, q[j].rule = ev[k].rule
                 PROVE  FALSE
      OBVIOUS
    <3>1. PICK i \in 1 .. k - 1 : q[j] = ev[i]
      BY <1>3
    <3>2. i \in 1 .. Len(ev) /\ i # k
      BY <1>4, <3>1
    <3> QED BY <3>1, <3>2 DEF Asked
  <2>7. \A j, h \in 1 .. Len(p) : ~p[j].insert /\ ~p[h].insert /\ p[j].rule = p[h].rule => j = h
    <3> SUFFICES ASSUME NEW j \in 1 .. Len(p), NEW h \in 1 .. Len(p),
                        ~p[j].insert, ~p[h].insert, p[j].rule = p[h].rule
                 PROVE  j = h
      OBVIOUS
    <3>1. CASE j \in 1 .. Len(q) /\ p[j] = q[j] /\ h \in 1 .. Len(q) /\ p[h] = q[h]
      BY <2>5, <3>1
    <3>2. CASE j = Len(q) + 1 /\ h = Len(q) + 1
      BY <3>2
    <3>3. CASE j \in 1 .. Len(q) /\ p[j] = q[j] /\ p[h] = ev[k]
      BY <2>6, <3>3
    <3>4. CASE h \in 1 .. Len(q) /\ p[h] = q[h] /\ p[j] = ev[k]
      BY <2>6, <3>4
    <3> QED BY <2>2, <3>1, <3>2, <3>3, <3>4
  <2> QED BY <2>1, <2>4, <2>7 DEF Kept, Asked, p
<1> QED BY <1>5, <1>6

(* _actual_events keeps events of the batch, and only those that matter.    *)
LEMMA ActualEventsIs ==
    ASSUME NEW ev, Asked(ev)
    PROVE  Kept(ActualEvents(ev), ev, Len(ev), theory)
<1> DEFINE n == Len(ev)
           D == 1 .. n
           V == Seq(RuleEvent)
           F == [x \in D \X V |-> IF Matters(ev[x[1]], theory) THEN Append(x[2], ev[x[1]]) ELSE x[2]]
           c == [s \in SUBSET D |-> Max(s)]
           K == [k \in 0 .. n |-> {q \in V : Kept(q, ev, k, theory)}]
           Is(f) == f = [s \in SUBSET (DOMAIN ev) |->
                           IF s = {} THEN <<>>
                           ELSE IF Matters(ev[Max(s)], theory)
                                THEN Append(f[s \ {Max(s)}], ev[Max(s)])
                                ELSE f[s \ {Max(s)}]]
<1>1. ev \in Seq(RuleEvent) /\ n \in Nat /\ DOMAIN ev = D /\ \A k \in D : ev[k] \in RuleEvent
  BY DEF Asked
<1>2. <<>> \in V /\ F \in [D \X V -> V] /\ K \in [0 .. n -> SUBSET V]
  BY <1>1
<1>3. <<>> \in K[0]
  <2>1. Kept(<<>>, ev, 0, theory)
    BY DEF Kept, Asked
  <2>2. 0 \in 0 .. n
    BY <1>1
  <2> QED BY <2>1, <2>2
<1>4. \A k \in D : \A q \in K[k - 1] : F[<<k, q>>] \in K[k]
  <2> SUFFICES ASSUME NEW k \in D, NEW q \in K[k - 1] PROVE F[<<k, q>>] \in K[k]
    OBVIOUS
  <2>1. k - 1 \in 0 .. n /\ k \in 0 .. n
    BY <1>1
  <2>2. q \in V /\ Kept(q, ev, k - 1, theory)
    BY <2>1
  <2>3. /\ Kept(q, ev, k, theory)
        /\ Matters(ev[k], theory) => Kept(Append(q, ev[k]), ev, k, theory)
    BY <2>2, KeptMore
  <2>4. F[<<k, q>>] = IF Matters(ev[k], theory) THEN Append(q, ev[k]) ELSE q
    BY <2>2
  <2>5. F[<<k, q>>] \in V
    BY <1>2, <2>2
  <2>6. Kept(F[<<k, q>>], ev, k, theory)
    BY ONLY <2>3, <2>4
  <2> HIDE DEF F
  <2> QED BY <2>1, <2>5, <2>6
<1>5. /\ \E f \in [SUBSET D -> V] : Folds(f, D, <<>>, c, F)
      /\ \A f : FoldsIn(f, D, V, <<>>, c, F) => f[D] \in K[n]
  <2>1. c = [s \in SUBSET (1 .. n) |-> Max(s)]
    OBVIOUS
  <2> HIDE DEF K, F, V, c, n
  <2> QED BY <1>1, <1>2, <1>3, <1>4, <2>1, SeqFold
<1>6. \A s \in SUBSET D : s # {} => Max(s) \in D /\ c[s] = Max(s)
  BY <1>1, MaxOfInterval
<1>7. \A k \in D, q \in V :
          F[<<k, q>>] = IF Matters(ev[k], theory) THEN Append(q, ev[k]) ELSE q
  OBVIOUS
<1>8. \E f : Is(f)
  <2>1. PICK f \in [SUBSET D -> V] : Folds(f, D, <<>>, c, F)
    BY <1>5
  <2> HIDE DEF F, c, D, V
  <2>2. \A s \in SUBSET D : s # {} => f[s \ {Max(s)}] \in V
    OBVIOUS
  <2>3. \A s \in SUBSET D :
           f[s] = IF s = {} THEN <<>>
                  ELSE IF Matters(ev[Max(s)], theory)
                       THEN Append(f[s \ {Max(s)}], ev[Max(s)])
                       ELSE f[s \ {Max(s)}]
    <3> TAKE s \in SUBSET D
    <3>1. f[s] = IF s = {} THEN <<>> ELSE F[<<c[s], f[s \ {c[s]}]>>]
      BY <2>1 DEF Folds
    <3>2. s # {} => Max(s) \in D /\ c[s] = Max(s) /\ f[s \ {Max(s)}] \in V
      BY <1>6, <2>2
    <3> HIDE DEF Is
    <3> QED BY ONLY <1>7, <3>1, <3>2
  <2>4. Is(f)
    BY <1>1, <2>3
  <2> HIDE DEF Is
  <2> QED BY <2>4
<1> DEFINE k == CHOOSE k : Is(k)
<1>9. Is(k)
  <2> HIDE DEF Is
  <2> QED BY <1>8
<1>10. ActualEvents(ev) = k[D]
  BY <1>1 DEF ActualEvents, FoldLeft, MapThenFoldSet, Matters
<1>11. FoldsIn(k, D, V, <<>>, c, F)
  <2> HIDE DEF k, F, c, D, V
  <2>1. \A s \in SUBSET D :
           k[s] = IF s = {} THEN <<>>
                  ELSE IF Matters(ev[Max(s)], theory)
                       THEN Append(k[s \ {Max(s)}], ev[Max(s)])
                       ELSE k[s \ {Max(s)}]
    BY <1>1, <1>9
  <2>2. ASSUME NEW s \in SUBSET D, s # {}, k[s \ {c[s]}] \in V
        PROVE  k[s] = F[<<c[s], k[s \ {c[s]}]>>]
    <3>1. Max(s) \in D /\ c[s] = Max(s)
      BY <1>6, <2>2
    <3>2. k[s] = IF Matters(ev[Max(s)], theory)
                 THEN Append(k[s \ {Max(s)}], ev[Max(s)]) ELSE k[s \ {Max(s)}]
      BY <2>1, <2>2
    <3> HIDE DEF Is
    <3> QED BY ONLY <1>7, <2>2, <3>1, <3>2
  <2>3. \A s \in SUBSET D : s = {} => k[s] = <<>>
    BY <2>1
  <2> HIDE DEF Is
  <2> QED BY ONLY <2>2, <2>3 DEF FoldsIn
<1>12. k[D] \in K[n]
  <2> HIDE DEF k, Is, F, c, K, V, D
  <2> QED BY <1>5, <1>11
<1>13. n \in 0 .. n
  BY <1>1
<1> HIDE DEF k, Is
<1> QED BY <1>10, <1>12, <1>13

-----------------------------------------------------------------------------
(* The graph G counts the instances I of rules, numbered up to m, one at    *)
(* least for each rule of T.                                                *)
GraphOf(G, I, m, T) ==
    /\ Represents(G, I)
    /\ m \in Nat
    /\ \A i \in I : i[1] \in Rules /\ i[2] <= m
    /\ \A r \in T : \E i \in I : i[1] = r

Inserted(q) == {v.rule : v \in {w \in Range(q) : w.insert}}
Deleted(q)  == {v.rule : v \in {w \in Range(q) : ~w.insert}}

(* A batch whose events all matter.                                         *)
Actual(q, T) == Asked(q) /\ \A j \in 1 .. Len(q) : Matters(q[j], T)

TokenOf(q, I, m) ==
    [k \in 1 .. Len(q) |-> IF q[k].insert THEN <<q[k].rule, m + k>>
                                          ELSE CHOOSE i \in I : i[1] = q[k].rule]
SignOf(q) == [k \in 1 .. Len(q) |-> q[k].insert]

(* An insertion matters if the rule is new, a deletion if it is not.        *)
LEMMA MattersIs ==
    ASSUME NEW v \in RuleEvent, NEW T
    PROVE  Matters(v, T) <=> IF v.insert THEN v.rule \notin T ELSE v.rule \in T
<1>1. v.insert = TRUE \/ v.insert = FALSE
  BY DEF RuleEvent
<1>2. CASE v.insert = TRUE
  BY <1>2 DEF Matters
<1>3. CASE v.insert = FALSE
  <2>1. Matters(v, T) <=> FALSE # (v.rule \in T)
    BY <1>3 DEF Matters
  <2>2. (FALSE # (v.rule \in T)) <=> v.rule \in T
    <3>1. CASE v.rule \in T
      BY <3>1, Zenon
    <3>2. CASE v.rule \notin T
      <4>1. (v.rule \in T) = FALSE
        BY <3>2
      <4> QED BY ONLY <3>2, <4>1
    <3> QED BY <3>1, <3>2
  <2> QED BY ONLY <1>3, <2>1, <2>2
<1> QED BY <1>1, <1>2, <1>3

(* The rules a batch inserts and deletes.                                   *)
LEMMA RangeOf ==
    ASSUME NEW q, Asked(q)
    PROVE  /\ \A r : r \in Inserted(q) <=> \E k \in 1 .. Len(q) : q[k].insert /\ q[k].rule = r
           /\ \A r : r \in Deleted(q) <=> \E k \in 1 .. Len(q) : ~q[k].insert /\ q[k].rule = r
           /\ Inserted(q) \subseteq Rules /\ Deleted(q) \subseteq Rules
<1>1. DOMAIN q = 1 .. Len(q) /\ \A k \in 1 .. Len(q) : q[k] \in RuleEvent
  BY DEF Asked
<1>2. Range(q) = {q[k] : k \in 1 .. Len(q)}
  BY <1>1 DEF Range
<1>3. \A r : r \in Inserted(q) <=> \E k \in 1 .. Len(q) : q[k].insert /\ q[k].rule = r
  BY <1>2 DEF Inserted
<1>4. \A r : r \in Deleted(q) <=> \E k \in 1 .. Len(q) : ~q[k].insert /\ q[k].rule = r
  BY <1>2 DEF Deleted
<1>5. \A k \in 1 .. Len(q) : q[k].rule \in Rules
  BY <1>1 DEF RuleEvent
<1> QED BY <1>3, <1>4, <1>5

(* A batch of events that matter is a batch of instances: an insertion makes*)
(* a new one, a deletion takes one that is there.                           *)
LEMMA EventInstances ==
    ASSUME NEW G, NEW I, NEW m, NEW T, GraphOf(G, I, m, T), NEW q, Actual(q, T)
    PROVE  /\ Batch(Len(q), TokenOf(q, I, m), SignOf(q), I)
           /\ \A k \in 1 .. Len(q) :
                 /\ TokenOf(q, I, m)[k][1] = q[k].rule
                 /\ TokenOf(q, I, m)[k][2] <= m + Len(q)
           /\ About(q, Len(q), TokenOf(q, I, m), SignOf(q))
<1> DEFINE n == Len(q)
           tok == TokenOf(q, I, m)
           ins == SignOf(q)
<1>1. /\ q \in Seq(RuleEvent) /\ n \in Nat /\ DOMAIN q = 1 .. n /\ m \in Nat
      /\ \A k \in 1 .. n : q[k] \in RuleEvent
  BY DEF Actual, Asked, GraphOf
<1>2. \A k \in 1 .. n : q[k].rule \in Rules /\ q[k].rule \in RuleType /\ q[k].insert \in BOOLEAN
  BY <1>1, RulesAreRules DEF RuleEvent
<1>3. I \subseteq RuleType \X Nat /\ \A i \in I : i[2] <= m /\ i[2] \in Nat
  BY DEF GraphOf, Represents
<1>4. ASSUME NEW k \in 1 .. n, q[k].insert
      PROVE  tok[k] = <<q[k].rule, m + k>> /\ tok[k] \in RuleType \X Nat /\ tok[k] \notin I
  <2>1. tok[k] = <<q[k].rule, m + k>> /\ k > 0 /\ k \in Nat
    BY <1>1, <1>4 DEF TokenOf
  <2>2. m + k \in Nat /\ ~(m + k <= m)
    BY <1>1, <2>1
  <2>3. <<q[k].rule, m + k>> \in RuleType \X Nat /\ <<q[k].rule, m + k>>[2] = m + k
    BY <1>2, <2>2
  <2> HIDE DEF tok
  <2>4. tok[k] \in RuleType \X Nat /\ tok[k][2] = m + k
    BY ONLY <2>1, <2>3
  <2>5. tok[k] \notin I
    BY ONLY <1>3, <2>2, <2>4
  <2> QED BY ONLY <2>1, <2>4, <2>5
<1>5. ASSUME NEW k \in 1 .. n, ~q[k].insert
      PROVE  tok[k] \in I /\ tok[k][1] = q[k].rule
  <2>1. q[k].rule \in T
    BY <1>1, <1>5, MattersIs DEF Actual
  <2>2. \E i \in I : i[1] = q[k].rule
    BY <2>1 DEF GraphOf
  <2>3. tok[k] = CHOOSE i \in I : i[1] = q[k].rule
    BY <1>5 DEF TokenOf
  <2> HIDE DEF tok
  <2> QED BY <2>2, <2>3
<1>6. ins \in [1 .. n -> BOOLEAN] /\ \A k \in 1 .. n : ins[k] = q[k].insert
  BY <1>2 DEF SignOf
<1>7. DOMAIN tok = 1 .. n /\ tok = [k \in 1 .. n |-> tok[k]]
  BY DEF TokenOf
<1> HIDE DEF tok, ins
<1>8. \A k \in 1 .. n : tok[k] \in RuleType \X Nat
  BY <1>3, <1>4, <1>5
<1>9. \A j, k \in 1 .. n : tok[j] = tok[k] => j = k
  <2> SUFFICES ASSUME NEW j \in 1 .. n, NEW k \in 1 .. n, tok[j] = tok[k] PROVE j = k
    OBVIOUS
  <2>1. CASE q[j].insert /\ q[k].insert
    <3>1. m + j = m + k
      BY <1>4, <2>1
    <3> QED BY ONLY <1>1, <3>1
  <2>2. CASE ~q[j].insert /\ ~q[k].insert
    <3>1. q[j].rule = q[k].rule
      BY <1>5, <2>2
    <3> QED BY <2>2, <3>1 DEF Actual, Asked
  <2>3. CASE q[j].insert /\ ~q[k].insert
    BY <1>4, <1>5, <2>3
  <2>4. CASE ~q[j].insert /\ q[k].insert
    BY <1>4, <1>5, <2>4
  <2> QED BY <2>1, <2>2, <2>3, <2>4
<1>10. tok \in [1 .. n -> RuleType \X Nat]
  BY <1>7, <1>8
<1>11. \A k \in 1 .. n : ins[k] <=> tok[k] \notin I
  BY <1>4, <1>5, <1>6
<1>12. Batch(n, tok, ins, I)
  BY <1>1, <1>6, <1>9, <1>10, <1>11 DEF Batch
<1>13. ASSUME NEW k \in 1 .. n PROVE tok[k][1] = q[k].rule /\ tok[k][2] <= m + n
  <2>1. CASE q[k].insert
    <3>1. m + k <= m + n
      BY <1>1
    <3> QED BY <1>4, <2>1, <3>1
  <2>2. CASE ~q[k].insert
    <3>1. tok[k] \in I /\ tok[k][1] = q[k].rule
      BY <1>5, <2>2
    <3>2. tok[k][2] <= m /\ tok[k][2] \in Nat
      BY <1>3, <3>1
    <3> QED BY <1>1, <3>1, <3>2
  <2> QED BY <2>1, <2>2
<1>14. About(q, n, tok, ins)
  BY <1>1, <1>6, <1>13 DEF About
<1> QED BY <1>12, <1>13, <1>14 DEF tok, ins

(* What formula_update leads to, and what undo_changes comes back to.       *)
LEMMA BatchGraph ==
    ASSUME NEW G, NEW I, NEW m, NEW T, GraphOf(G, I, m, T), CacheSound(G), NEW q, Actual(q, T)
    PROVE  /\ CacheSound(FormulaUpdate(G, q))
           /\ GraphOf(FormulaUpdate(G, q), After(I, TokenOf(q, I, m), SignOf(q), Len(q)),
                      m + Len(q), (T \union Inserted(q)) \ Deleted(q))
<1> DEFINE n == Len(q)
           tok == TokenOf(q, I, m)
           ins == SignOf(q)
           g == FormulaUpdate(G, q)
           J == After(I, tok, ins, n)
           A == {tok[j] : j \in {h \in 1 .. n : ins[h]}}
           D == {tok[j] : j \in {h \in 1 .. n : ~ins[h]}}
<1>1. /\ Batch(n, tok, ins, I) /\ About(q, n, tok, ins)
      /\ \A k \in 1 .. n : tok[k][1] = q[k].rule /\ tok[k][2] <= m + n
  BY EventInstances
<1>2. Represents(G, I) /\ m \in Nat /\ n \in Nat
  BY <1>1 DEF GraphOf, Batch
<1> HIDE DEF tok, ins, n
<1>3. Represents(g, J) /\ CacheSound(g)
  BY <1>1, <1>2, FormulaUpdateCounts
<1>4. J = (I \union A) \ D
  BY DEF After
<1>5. /\ \A k \in 1 .. n : q[k].rule \in Rules
      /\ \A r : r \in Inserted(q) <=> \E k \in 1 .. n : q[k].insert /\ q[k].rule = r
      /\ \A r : r \in Deleted(q) <=> \E k \in 1 .. n : ~q[k].insert /\ q[k].rule = r
  BY RangeOf DEF Actual, n, Asked, RuleEvent
<1>6. \A k \in 1 .. n : ins[k] <=> q[k].insert
  BY <1>1 DEF About
<1>7. A \intersect I = {} /\ D \subseteq I
  BY <1>1 DEF Batch
<1>8. ASSUME NEW i \in J PROVE i[1] \in Rules /\ i[2] <= m + n
  <2>1. CASE i \in I
    <3>1. i[1] \in Rules /\ i[2] <= m
      BY <2>1 DEF GraphOf
    <3>2. i[2] \in Nat
      BY <1>2, <2>1 DEF Represents
    <3>3. i[2] <= m + n
      BY ONLY <1>2, <3>1, <3>2
    <3> QED BY <3>1, <3>3
  <2>2. CASE i \in A
    BY <1>1, <1>5, <2>2
  <2> QED BY <1>4, <2>1, <2>2
<1>9. ASSUME NEW r \in (T \union Inserted(q)) \ Deleted(q) PROVE \E i \in J : i[1] = r
  <2>1. CASE r \in Inserted(q)
    <3>1. PICK k \in 1 .. n : q[k].insert /\ q[k].rule = r
      BY <1>5, <2>1
    <3>2. tok[k] \in A /\ tok[k][1] = r
      BY <1>1, <1>6, <3>1
    <3> QED BY <1>4, <1>7, <3>2
  <2>2. CASE r \in T
    <3>1. PICK i \in I : i[1] = r
      BY <2>2 DEF GraphOf
    <3>2. \A x \in D : x[1] \in Deleted(q)
      BY <1>1, <1>5, <1>6
    <3>3. i \notin D
      BY <1>9, <3>1, <3>2
    <3> QED BY <1>4, <3>1, <3>3
  <2> QED BY <1>9, <2>1, <2>2
<1>10. m + n \in Nat
  BY <1>2
<1>11. GraphOf(g, J, m + n, (T \union Inserted(q)) \ Deleted(q))
  <2> HIDE DEF g, J
  <2> QED BY <1>3, <1>8, <1>9, <1>10 DEF GraphOf
<1> QED BY <1>3, <1>11 DEF n, tok, ins

(* has_cycle only changes the cache, and is right to find no cycle.         *)
LEMMA CachedIs ==
    ASSUME NEW g, NEW I, Represents(g, I), CacheSound(g)
    PROVE  /\ Represents(Cached(g), I) /\ CacheSound(Cached(g))
           /\ Cached(g).nodes = g.nodes /\ Cached(g).out = g.out /\ Cached(g).modal = g.modal
           /\ ~HasCycle(g) => ~Cyclic(g.out)
<1>1. g \in Graph
  BY DEF Represents, Counts
<1> DEFINE h == Cached(g)
<1>2. /\ h \in Graph /\ h.nodes = g.nodes /\ h.edges = g.edges /\ h.out = g.out /\ h.modal = g.modal
      /\ h.cycles = IF HasCycle(g) THEN "some" ELSE "none"
  BY <1>1 DEF Cached, Graph
<1>3. g.cycles \in {"unknown", "none", "some"}
  BY <1>1 DEF Graph
<1>4. ~HasCycle(g) => ~Cyclic(g.out)
  BY <1>3 DEF HasCycle, CacheSound
<1> HIDE DEF h
<1>5. Represents(h, I)
  BY <1>2 DEF Represents, Counts
<1>6. CacheSound(h)
  BY <1>2, <1>4 DEF CacheSound
<1> QED BY <1>2, <1>4, <1>5, <1>6 DEF h

(* undo_changes comes back to the instances there were before the batch.    *)
LEMMA UndoneGraph ==
    ASSUME NEW G, NEW I, NEW m, NEW T, GraphOf(G, I, m, T), NEW q, Actual(q, T),
           NEW g, Represents(g, After(I, TokenOf(q, I, m), SignOf(q), Len(q))), CacheSound(g),
           NEW u, u = UndoChanges(Cached(g), q)
    PROVE  GraphOf(u, I, m, T) /\ CacheSound(u)
<1> DEFINE n == Len(q)
           tok == TokenOf(q, I, m)
           ins == SignOf(q)
           J == After(I, tok, ins, n)
           sni == Opposite(n, ins)
<1>1. Batch(n, tok, ins, I) /\ About(q, n, tok, ins)
  BY EventInstances
<1>2. Represents(g, J) /\ CacheSound(g)
  OBVIOUS
<1> HIDE DEF tok, ins, n
<1>3. Batch(n, tok, sni, J) /\ After(J, tok, sni, n) = I
  <2>1. sni = Opposite(n, ins) /\ J = After(I, tok, ins, n)
    OBVIOUS
  <2> HIDE DEF sni, J
  <2> QED BY <1>1, <2>1, AfterUndone
<1>4. AboutUndone(q, n, tok, sni)
  <2>1. \A k \in 1 .. n : ins[k] \in BOOLEAN /\ q[k].insert = ins[k] /\ q[k].rule = tok[k][1]
    BY <1>1 DEF About, Batch
  <2>2. \A k \in 1 .. n : sni[k] = ~ins[k]
    BY DEF Opposite
  <2>3. \A k \in 1 .. n : q[k].insert = ~sni[k]
    <3> TAKE k \in 1 .. n
    <3>1. ins[k] = TRUE \/ ins[k] = FALSE
      BY <2>1
    <3> QED BY <2>1, <2>2, <3>1
  <2> QED BY <1>1, <2>1, <2>3 DEF About, AboutUndone
<1> HIDE DEF sni, J
<1>5. Represents(Cached(g), J) /\ CacheSound(Cached(g))
  BY <1>2, CachedIs
<1>6. Represents(UndoChanges(Cached(g), q), After(J, tok, sni, n)) /\ CacheSound(UndoChanges(Cached(g), q))
  BY <1>3, <1>4, <1>5, UndoChangesCounts
<1> QED BY <1>3, <1>6 DEF GraphOf

-----------------------------------------------------------------------------
(* The invariant: the graph counts the rules in force, and its cache does   *)
(* not call a recursive graph free of cycles.                               *)
Counted == CacheSound(graph) /\ \E I, m : GraphOf(graph, I, m, theory)

Inv == TypeOK /\ Counted /\ NeverRecursive /\ SourcesSubscribed

(* What an update may do: it is refused and leaves the instances as they    *)
(* were, or the rules T and the data D come into force with a graph g that  *)
(* counts T, and differ from what was only in the tables that changed.      *)
Refused ==
    /\ CacheSound(graph')
    /\ \E I, m : GraphOf(graph, I, m, theory) /\ GraphOf(graph', I, m, theory)
    /\ ran' = {} /\ verdict' = "refused"
    /\ UNCHANGED <<theory, data, triggerVars>>

Accepted(g, changed, T, D) ==
    /\ CacheSound(g)
    /\ \E I, m : GraphOf(g, I, m, T)
    /\ changed \in SUBSET Tables
    /\ T \in SUBSET Rules /\ D \in SUBSET Sources
    /\ \A r \in Rules : r.head \notin changed => (r \in T <=> r \in theory)
    /\ \A t : t \notin changed => (t \in D <=> t \in data)
    /\ Commit(g, changed, T, D)

Heads(q) == {r.head : r \in Inserted(q) \union Deleted(q)}

(* An update is refused or accepted; one that only deletes leaves no rule   *)
(* that was not there.                                                      *)
LEMMA UpdateIs ==
    ASSUME Inv, NEW ev, Asked(ev), Update(ev)
    PROVE  /\ Refused \/ \E g, changed, T : Accepted(g, changed, T, data)
           /\ (\A k \in 1 .. Len(ev) : ~ev[k].insert) => theory' \subseteq theory
<1> DEFINE q == ActualEvents(ev)
           g == FormulaUpdate(graph, q)
           T == (theory \union Inserted(q)) \ Deleted(q)
<1>1. Asked(q) /\ \A j \in 1 .. Len(q) : Matters(q[j], theory) /\ \E i \in 1 .. Len(ev) : q[j] = ev[i]
  BY ActualEventsIs DEF Kept
<1>2. PICK I, m : GraphOf(graph, I, m, theory)
  BY DEF Inv, Counted
<1>3. CacheSound(graph) /\ theory \in SUBSET Rules /\ data \in SUBSET Sources
  BY DEF Inv, Counted, TypeOK
<1>4. Refuse(g, q) \/ Commit(g, Heads(q), T, data)
  BY DEF Update, Heads, Inserted, Deleted
<1> HIDE DEF q
<1>5. Actual(q, theory)
  BY <1>1 DEF Actual
<1> DEFINE J == After(I, TokenOf(q, I, m), SignOf(q), Len(q))
<1>6. CacheSound(g) /\ GraphOf(g, J, m + Len(q), T)
  BY <1>2, <1>3, <1>5, BatchGraph
<1>7. ASSUME Refuse(g, q) PROVE Refused /\ theory' = theory
  <2>1. graph' = UndoChanges(Cached(g), q)
    BY <1>7 DEF Refuse
  <2>2. Represents(g, J)
    BY <1>6 DEF GraphOf
  <2> HIDE DEF g
  <2>3. GraphOf(graph', I, m, theory) /\ CacheSound(graph')
    BY <1>2, <1>5, <1>6, <2>1, <2>2, UndoneGraph
  <2> QED BY <1>2, <1>7, <2>3 DEF Refuse, Refused
<1>8. ASSUME Commit(g, Heads(q), T, data)
      PROVE  /\ Accepted(g, Heads(q), T, data)
             /\ (\A k \in 1 .. Len(ev) : ~ev[k].insert) => theory' \subseteq theory
  <2>1. Inserted(q) \subseteq Rules /\ Deleted(q) \subseteq Rules
    BY <1>1, RangeOf
  <2>2. T \in SUBSET Rules /\ Heads(q) \in SUBSET Tables
    BY <1>3, <2>1, RulesAreRules DEF Heads
  <2>3. \A r \in Rules : r.head \notin Heads(q) => (r \in T <=> r \in theory)
    BY DEF Heads
  <2>4. (\A k \in 1 .. Len(ev) : ~ev[k].insert) => Inserted(q) = {}
    BY <1>1, RangeOf
  <2>5. theory' = T
    BY <1>8 DEF Commit
  <2>6. \E H, k : GraphOf(g, H, k, T)
    BY <1>6
  <2> HIDE DEF g
  <2>7. (\A k \in 1 .. Len(ev) : ~ev[k].insert) => theory' \subseteq theory
    BY <2>4, <2>5
  <2> HIDE DEF T
  <2> QED BY <1>3, <1>6, <1>8, <2>2, <2>3, <2>6, <2>7 DEF Accepted
<1> QED BY <1>4, <1>7, <1>8

(* So is an update of a datasource table.                                   *)
LEMMA ReceiveUpdateIs ==
    ASSUME Inv, NEW b \in Sources, ReceiveUpdate(b)
    PROVE  /\ Refused \/ \E g, changed, T, D : Accepted(g, changed, T, D)
           /\ theory' = theory
<1> DEFINE D == IF b \in data THEN data \ {b} ELSE data \union {b}
           none == <<>>
<1>1. Refuse(graph, none) \/ Commit(graph, {b}, theory, D)
  BY DEF ReceiveUpdate
<1>2. CacheSound(graph) /\ theory \in SUBSET Rules /\ data \in SUBSET Sources
  BY DEF Inv, Counted, TypeOK
<1>3. PICK I, m : GraphOf(graph, I, m, theory)
  BY DEF Inv, Counted
<1>4. Len(none) = 0 /\ none \in Seq(RuleEvent)
  OBVIOUS
<1> HIDE DEF none
<1>5. ASSUME Refuse(graph, none) PROVE Refused
  <2>1. Actual(none, theory)
    BY <1>4 DEF Actual, Asked
  <2>2. After(I, TokenOf(none, I, m), SignOf(none), Len(none)) = I
    BY <1>4 DEF After
  <2>3. Represents(graph, After(I, TokenOf(none, I, m), SignOf(none), Len(none)))
    BY <1>3, <2>2 DEF GraphOf
  <2>4. graph' = UndoChanges(Cached(graph), none)
    BY <1>5 DEF Refuse
  <2>5. GraphOf(graph', I, m, theory) /\ CacheSound(graph')
    BY <1>2, <1>3, <2>1, <2>3, <2>4, UndoneGraph
  <2> QED BY <1>3, <1>5, <2>5 DEF Refuse, Refused
<1>6. ASSUME Commit(graph, {b}, theory, D) PROVE Accepted(graph, {b}, theory, D)
  <2>1. D \in SUBSET Sources /\ {b} \in SUBSET Tables
    BY <1>2, EngineAssumption
  <2>2. \A t : t \notin {b} => (t \in D <=> t \in data)
    OBVIOUS
  <2> HIDE DEF D
  <2> QED BY <1>2, <1>3, <1>6, <2>1, <2>2 DEF Accepted
<1>7. theory' = theory
  BY <1>1 DEF Refuse, Commit
<1> QED BY <1>1, <1>5, <1>6, <1>7

(* The calls that pass events on to an update.                              *)
LEMMA Calls ==
    ASSUME Inv, Next
    PROVE  \/ \E ev : Asked(ev) /\ Process(ev)
           \/ \E ev : /\ Asked(ev) /\ Update(ev) /\ UNCHANGED <<subscribed, missed>>
                      /\ \A k \in 1 .. Len(ev) : ~ev[k].insert
           \/ \E b \in Sources : ReceiveUpdate(b)
           \/ \E b \in Sources, D \in SUBSET Sources : ReceiveFull(b, D)
<1>0. theory \in SUBSET Rules
  BY DEF Inv, TypeOK
<1>1. ASSUME NEW s \in BoundedSeq(Rules, MaxBatch), InsertRules(s)
      PROVE  \E ev : Asked(ev) /\ Process(ev)
  BY <1>1, InsertionsAsked DEF InsertRules
<1>2. ASSUME NEW r \in Rules, DeleteOne(r) PROVE \E ev : Asked(ev) /\ Process(ev)
  <2> DEFINE s == <<r>>
  <2>1. s \in Seq(Rules) /\ \A j, k \in 1 .. Len(s) : s[j] = s[k] => j = k
    OBVIOUS
  <2>2. Process(Events(s, FALSE))
    BY <1>2 DEF DeleteOne
  <2> HIDE DEF s
  <2> QED BY <2>1, <2>2, DeletionsAsked
<1>3. ASSUME DeletePolicy
      PROVE  \E ev : /\ Asked(ev) /\ Update(ev) /\ UNCHANGED <<subscribed, missed>>
                     /\ \A k \in 1 .. Len(ev) : ~ev[k].insert
  <2> DEFINE s == SetToSeq(theory)
             ev == Events(s, FALSE)
  <2>1. s \in Seq(Rules) /\ \A j, k \in 1 .. Len(s) : s[j] = s[k] => j = k
    BY <1>0, SomeRules
  <2>2. Update(ev) /\ UNCHANGED <<subscribed, missed>>
    BY <1>3 DEF DeletePolicy
  <2>3. FALSE \in BOOLEAN
    OBVIOUS
  <2> HIDE DEF s
  <2>4. Asked(ev)
    BY <2>1, DeletionsAsked
  <2>5. \A k \in 1 .. Len(ev) : ~ev[k].insert
    BY <2>1, <2>3, EventsIs
  <2> HIDE DEF ev
  <2> QED BY <2>2, <2>4, <2>5
<1>4. ASSUME NEW ins \in SUBSET (Rules \ theory), NEW del \in SUBSET theory, Synchronize(ins, del)
      PROVE  \E ev : Asked(ev) /\ Process(ev)
  <2>1. ins \in SUBSET Rules /\ del \in SUBSET Rules
    BY <1>0
  <2> QED BY <1>4, <2>1, SynchronizeAsked DEF Synchronize
<1> QED BY <1>1, <1>2, <1>3, <1>4 DEF Next

(* One case for each way the rules, the data and the graph change.          *)
LEMMA StepIs ==
    ASSUME Inv, Next
    PROVE  \/ Refused
           \/ \E g, changed, T, D : Accepted(g, changed, T, D)
           \/ \E b \in Sources, D \in SUBSET Sources : ReceiveFull(b, D)
  BY Calls, UpdateIs, ReceiveUpdateIs DEF Process

(* update_table_subscriptions keeps the tables of rules subscribed, up to   *)
(* those that an aborted call missed.                                       *)
LEMMA SourcesStep ==
    ASSUME Inv, Next
    PROVE  SourcesSubscribed' /\ subscribed' \subseteq Sources /\ missed' \subseteq Sources
<1>1. SourcesSubscribed /\ subscribed \subseteq Sources /\ missed \subseteq Sources
  BY DEF Inv, TypeOK
<1>2. ASSUME NEW ev, Process(ev)
      PROVE  SourcesSubscribed' /\ subscribed' \subseteq Sources /\ missed' \subseteq Sources
  <2> DEFINE old == SourcesOf(theory)
             new == SourcesOf(theory')
  <2>1. old \subseteq Sources /\ new \subseteq Sources
    BY DEF SourcesOf
  <2>2. old \subseteq subscribed \union missed
    BY <1>1 DEF SourcesSubscribed
  <2>3. \/ /\ subscribed' = (subscribed \union (new \ old)) \ (old \ new)
           /\ missed' = missed \ ((new \ old) \union (old \ new))
        \/ \E late \in SUBSET (new \ old) :
             /\ subscribed' = subscribed \union ((new \ old) \ late)
             /\ missed' = (missed \ (new \ old)) \union late
    BY <1>2 DEF Process, Resubscribe
  <2> HIDE DEF old, new
  <2>4. new \subseteq subscribed' \union missed'
    BY <2>2, <2>3
  <2>5. subscribed' \subseteq Sources /\ missed' \subseteq Sources
    BY <1>1, <2>1, <2>3
  <2> QED BY <2>4, <2>5 DEF SourcesSubscribed, new
<1>3. ASSUME theory' \subseteq theory, UNCHANGED <<subscribed, missed>>
      PROVE  SourcesSubscribed' /\ subscribed' \subseteq Sources /\ missed' \subseteq Sources
  <2>1. SourcesOf(theory') \subseteq SourcesOf(theory)
    BY <1>3 DEF SourcesOf, BodyTables
  <2> QED BY <1>1, <1>3, <2>1 DEF SourcesSubscribed
<1>4. ASSUME NEW b \in Sources, ReceiveUpdate(b)
      PROVE  theory' \subseteq theory /\ UNCHANGED <<subscribed, missed>>
  <2>1. theory' = theory
    BY <1>4, ReceiveUpdateIs
  <2> QED BY <1>4, <2>1 DEF ReceiveUpdate
<1>5. ASSUME NEW b \in Sources, NEW D, ReceiveFull(b, D)
      PROVE  theory' \subseteq theory /\ UNCHANGED <<subscribed, missed>>
  BY <1>5 DEF ReceiveFull
<1> QED BY <1>2, <1>3, <1>4, <1>5, Calls, UpdateIs

-----------------------------------------------------------------------------
(* The index of triggers is well typed.                                     *)
LEMMA IndexType ==
    ASSUME NEW R \in SUBSET Trigger, NEW g
    PROVE  IndexOf(R, g) \in [Tables -> SUBSET Trigger]
  BY DEF IndexOf

(* _maintain_triggers makes a trigger for each new action table.            *)
LEMMA AdditionsIn ==
    ASSUME NEW g, NEW added \in Additions(g)
    PROVE  /\ added \in SUBSET Trigger
           /\ TablesOf(added) = Current(g) \ TablesOf(execution)
<1> DEFINE new == Current(g) \ TablesOf(execution)
<1>1. new \subseteq Tables
  BY DEF Current
<1>2. added \in IF new = {} THEN {{}} ELSE {[table : new, calls : {last}] : last \in new}
  BY DEF Additions
<1> HIDE DEF new
<1>3. CASE new = {}
  BY <1>2, <1>3 DEF TablesOf, new
<1>4. CASE new # {}
  <2>1. PICK last \in new : added = [table : new, calls : {last}]
    BY <1>2, <1>4
  <2>2. added \in SUBSET Trigger
    BY <1>1, <2>1 DEF Trigger
  <2>3. \A r \in added : r.table \in new
    BY <2>1
  <2>4. \A t \in new : \E r \in added : r.table = t
    <3> TAKE t \in new
    <3>1. [table |-> t, calls |-> last] \in added /\ [table |-> t, calls |-> last].table = t
      BY <2>1
    <3> QED BY ONLY <3>1
  <2>5. TablesOf(added) = new
    <3>1. \A t \in new : t \in TablesOf(added)
      BY <2>4 DEF TablesOf
    <3> QED BY <2>3, <3>1 DEF TablesOf
  <2> QED BY <2>2, <2>5 DEF new
<1> QED BY <1>3, <1>4

(* An accepted update keeps the invariant.                                  *)
LEMMA AcceptedStep ==
    ASSUME Inv, NEW g, NEW changed, NEW T, NEW D, Accepted(g, changed, T, D)
    PROVE  /\ Counted' /\ NeverRecursive'
           /\ theory' \subseteq Rules /\ data' \subseteq Sources /\ graph' \in Graph
           /\ registered' \subseteq Trigger /\ execution' \subseteq Trigger
           /\ index' \in [Tables -> SUBSET Trigger]
           /\ ran' \subseteq Trigger
           /\ verdict' = "done"
<1>1. PICK I, m : GraphOf(g, I, m, T)
  BY DEF Accepted
<1>2. /\ ~HasCycle(g) /\ graph' = Cached(g) /\ theory' = T /\ data' = D /\ verdict' = "done"
      /\ CacheSound(g) /\ T \in SUBSET Rules /\ D \in SUBSET Sources
      /\ index' = IndexOf(registered', g)
  BY DEF Accepted, Commit, UpdateDependencies
<1>3. PICK added \in Additions(g) :
         Maintain(g, added) /\ Run(Relevant(OldIndex(g, added), changed), T, D)
  BY DEF Accepted, Commit
<1>4. /\ Represents(graph', I) /\ CacheSound(graph') /\ graph'.out = g.out
      /\ ~Cyclic(g.out)
  BY <1>1, <1>2, CachedIs DEF GraphOf
<1>5. Counted'
  <2>1. GraphOf(graph', I, m, theory')
    BY <1>1, <1>2, <1>4 DEF GraphOf
  <2> QED BY <1>4, <2>1 DEF Counted
<1>6. graph' \in Graph /\ g.out \in SUBSET Labelled
  BY <1>4 DEF Represents, Counts, Graph
<1>7. NeverRecursive'
  <2>1. \A r \in T : Edges(r) \subseteq g.out
    <3> SUFFICES ASSUME NEW r \in T PROVE Edges(r) \subseteq g.out
      OBVIOUS
    <3>1. PICK i \in I : i[1] = r
      BY <1>1 DEF GraphOf
    <3> QED BY <1>1, <3>1, KnowsInstances DEF GraphOf
  <2> DEFINE all == UNION {Edges(r) : r \in T}
  <2>2. all \subseteq g.out
    BY <2>1
  <2>3. ~Cyclic(all)
    <3> HIDE DEF all
    <3> QED BY <1>4, <1>6, <2>2, AcyclicBelow
  <2> QED BY <1>2, <2>3 DEF NeverRecursive
<1>8. /\ registered \subseteq Trigger /\ execution \subseteq Trigger
      /\ index \in [Tables -> SUBSET Trigger]
  BY DEF Inv, TypeOK
<1>9. added \subseteq Trigger
  BY <1>3, AdditionsIn
<1>10. registered' \subseteq Trigger /\ execution' \subseteq Trigger
  BY <1>3, <1>8, <1>9 DEF Maintain
<1>11. index' \in [Tables -> SUBSET Trigger]
  BY <1>2, <1>10, IndexType
<1>12. ran' \subseteq Trigger
  <2>1. changed \in SUBSET Tables
    BY DEF Accepted
  <2>2. \A t \in Tables : OldIndex(g, added)[t] \subseteq Trigger
    BY <1>8, <1>9 DEF OldIndex
  <2>3. Relevant(OldIndex(g, added), changed) \subseteq Trigger
    BY <2>1, <2>2 DEF Relevant
  <2> QED BY <1>3, <2>3 DEF Run
<1> QED BY <1>2, <1>5, <1>6, <1>7, <1>10, <1>11, <1>12

(* A refused one keeps it, and the graph but for its cache.                 *)
LEMMA RefusedStep ==
    ASSUME Inv, Refused
    PROVE  /\ Counted' /\ NeverRecursive'
           /\ graph' \in Graph
           /\ UNCHANGED <<graph.nodes, graph.edges, graph.out, graph.modal>>
<1>1. PICK I, m : GraphOf(graph, I, m, theory) /\ GraphOf(graph', I, m, theory)
  BY DEF Refused
<1>2. CacheSound(graph') /\ theory' = theory
  BY DEF Refused
<1>3. Represents(graph, I) /\ Represents(graph', I)
  BY <1>1 DEF GraphOf
<1>4. UNCHANGED <<graph.nodes, graph.edges, graph.out, graph.modal>>
  BY <1>3, SameInstances
<1>5. Counted'
  BY <1>1, <1>2 DEF Counted
<1>6. NeverRecursive'
  BY <1>2 DEF NeverRecursive, Inv
<1>7. graph' \in Graph
  BY <1>3 DEF Represents, Counts
<1> QED BY <1>4, <1>5, <1>6, <1>7

(* receive_data_full changes data only.                                     *)
LEMMA FullStep ==
    ASSUME Inv, NEW b \in Sources, NEW D \in SUBSET Sources, ReceiveFull(b, D)
    PROVE  /\ data' = D /\ ran' \subseteq Trigger /\ verdict' = "done"
           /\ UNCHANGED <<theory, graph, triggerVars>>
<1>1. b \in Tables /\ index \in [Tables -> SUBSET Trigger]
  BY EngineAssumption DEF Inv, TypeOK
<1>2. Relevant(index, {b}) \subseteq Trigger
  BY <1>1 DEF Relevant
<1> QED BY <1>2 DEF ReceiveFull, Run

(* The invariant holds at the start.                                        *)
LEMMA Initially == Init => Inv
<1> SUFFICES ASSUME Init PROVE Inv
  OBVIOUS
<1>1. Represents(graph, {}) /\ CacheSound(graph)
  BY EmptyGraphCounts DEF Init
<1>2. TypeOK
  <2>1. graph \in Graph
    BY <1>1 DEF Represents, Counts
  <2> QED BY <2>1 DEF Init, TypeOK
<1>3. Counted
  <2>1. GraphOf(graph, {}, 0, theory)
    BY <1>1 DEF GraphOf, Init
  <2> QED BY <1>1, <2>1 DEF Counted
<1>4. NeverRecursive
  BY DEF Init, NeverRecursive, Cyclic
<1>5. SourcesSubscribed
  BY DEF Init, SourcesSubscribed, SourcesOf, BodyTables
<1> QED BY <1>2, <1>3, <1>4, <1>5 DEF Inv

(* The invariant is inductive.                                              *)
LEMMA Inductive == Inv /\ [Next]_vars => Inv'
<1> SUFFICES ASSUME Inv, [Next]_vars PROVE Inv'
  OBVIOUS
<1>1. CASE UNCHANGED vars
  BY <1>1 DEF vars, Inv, TypeOK, Counted, NeverRecursive, SourcesSubscribed
<1>2. CASE Next
  <2>1. SourcesSubscribed' /\ subscribed' \subseteq Sources /\ missed' \subseteq Sources
    BY <1>2, SourcesStep
  <2>2. TypeOK
    BY DEF Inv
  <2>3. CASE Refused
    <3>1. Counted' /\ NeverRecursive' /\ graph' \in Graph
      BY <2>3, RefusedStep
    <3>2. ran' = {} /\ verdict' = "refused" /\ UNCHANGED <<theory, data, triggerVars>>
      BY <2>3 DEF Refused
    <3> QED BY <2>1, <2>2, <3>1, <3>2 DEF Inv, TypeOK, triggerVars
  <2>4. CASE \E g, changed, T, D : Accepted(g, changed, T, D)
    BY <2>1, <2>4, AcceptedStep DEF Inv, TypeOK
  <2>5. ASSUME NEW b \in Sources, NEW D \in SUBSET Sources, ReceiveFull(b, D) PROVE Inv'
    <3>1. data' = D /\ ran' \subseteq Trigger /\ verdict' = "done" /\ UNCHANGED <<theory, graph, triggerVars>>
      BY <2>5, FullStep
    <3>2. Counted' /\ NeverRecursive'
      BY <3>1 DEF Inv, Counted, NeverRecursive
    <3> QED BY <2>1, <2>2, <3>1, <3>2 DEF Inv, TypeOK, triggerVars
  <2> QED BY <1>2, <2>3, <2>4, <2>5, StepIs
<1> QED BY <1>1, <1>2

(* So it always holds.                                                      *)
LEMMA Invariance == Spec => []Inv
  BY Initially, Inductive, PTL DEF Spec

(* Every state of an engine is well typed: reference counts never go below  *)
(* zero whatever is inserted twice, deleted, refused and undone             *)
(* (BagGraph.delete_node, delete_edge, RuleDependencyGraph).                *)
THEOREM TypeCorrect == Spec => []TypeOK
<1>1. Inv => TypeOK
  BY DEF Inv
<1> QED BY <1>1, Invariance, PTL

(* The dependency graph covers the rules in force (formula_update,          *)
(* undo_changes): every rule's nodes, edges and action are counted.         *)
THEOREM GraphCovers == Spec => []GraphCoversRules
<1>1. ASSUME Inv PROVE GraphCoversRules
  <2>1. PICK I, m : GraphOf(graph, I, m, theory)
    BY <1>1 DEF Inv, Counted
  <2> SUFFICES ASSUME NEW r \in theory
               PROVE  /\ Edges(r) \subseteq graph.out
                      /\ \A t \in Nodes(r) : graph.nodes[t] > 0
                      /\ r.act => graph.modal[r.head] > 0
    BY DEF GraphCoversRules
  <2>2. PICK i \in I : i[1] = r
    BY <2>1 DEF GraphOf
  <2> QED BY <2>1, <2>2, KnowsInstances DEF GraphOf
<1> QED BY <1>1, Invariance, PTL

(* No recursive set of rules comes into force (_update_obj_datalog): the    *)
(* cached answer of has_cycle is never "none" where there is a cycle.       *)
THEOREM RulesStayAcyclic == Spec => []NeverRecursive
<1>1. Inv => NeverRecursive
  BY DEF Inv
<1> QED BY <1>1, Invariance, PTL

(* A table that rules read has a subscription, or an aborted                *)
(* update_table_subscriptions did not get to it.                            *)
THEOREM RulesAreFed == Spec => []SourcesSubscribed
<1>1. Inv => SourcesSubscribed
  BY DEF Inv
<1> QED BY <1>1, Invariance, PTL

(* A refused update leaves the graph as it was: undo_changes takes back     *)
(* every reference formula_update made, and no other.                       *)
THEOREM RefusalIsUndone == Spec => RefusalLeavesNoTrace
<1> DEFINE A == verdict' = "refused" => UNCHANGED <<graph.nodes, graph.edges, graph.out, graph.modal>>
<1>1. Inv /\ [Next]_vars => [A]_vars
  <2> SUFFICES ASSUME Inv, Next PROVE A
    OBVIOUS
  <2>1. CASE Refused
    BY <2>1, RefusedStep
  <2>2. CASE \E g, changed, T, D : Accepted(g, changed, T, D)
    BY <2>2, AcceptedStep
  <2>3. CASE \E b \in Sources, D \in SUBSET Sources : ReceiveFull(b, D)
    BY <2>3, FullStep
  <2> QED BY <2>1, <2>2, <2>3, StepIs
<1> QED BY <1>1, Invariance, PTL DEF Spec, RefusalLeavesNoTrace

-----------------------------------------------------------------------------
(* What rules derive, step by step.                                         *)
Grow(T, D, known) == D \union {r.head : r \in {s \in T : ~s.act /\ Satisfied(s, known)}}

Growth(f, T, D) ==
    /\ f \in [0 .. Cardinality(Tables) -> SUBSET Tables]
    /\ f[0] = D
    /\ \A k \in 1 .. Cardinality(Tables) : f[k] = Grow(T, D, f[k - 1])

(* What is derived is found step by step.                                   *)
LEMMA DerivedSteps ==
    ASSUME NEW T \in SUBSET Rules, NEW D \in SUBSET Tables
    PROVE  \E f : Growth(f, T, D) /\ Derived(T, D) = f[Cardinality(Tables)]
<1> DEFINE n == Cardinality(Tables)
           V == SUBSET Tables
           F == [s \in V |-> Grow(T, D, s)]
           Is(f) == f = [k \in 0 .. n |-> IF k = 0 THEN D
                            ELSE D \union {r.head : r \in {s \in T : ~s.act /\ Satisfied(s, f[k - 1])}}]
<1>1. n \in Nat
  BY TablesCounted
<1>2. F \in [V -> V]
  BY RulesAreRules DEF Grow
<1>4. PICK f \in [0 .. n -> V] : Iterates(f, n, D, F)
  <2>1. D \in V
    OBVIOUS
  <2> HIDE DEF n, V, F
  <2> QED BY ONLY <1>1, <1>2, <2>1, IntervalRecursion
<1>5. f[0] = D /\ \A k \in 1 .. n : f[k] = F[f[k - 1]]
  BY <1>4 DEF Iterates
<1>6. \A k \in 1 .. n : f[k] = Grow(T, D, f[k - 1])
  <2>1. \A k \in 1 .. n : k - 1 \in 0 .. n
    BY <1>1
  <2> QED BY <1>5, <2>1
<1>7. Is(f)
  <2>1. \A k \in 0 .. n : f[k] = IF k = 0 THEN D ELSE Grow(T, D, f[k - 1])
    <3>1. \A k \in 0 .. n : k # 0 => k \in 1 .. n
      BY <1>1
    <3> HIDE DEF n
    <3> QED BY <1>5, <1>6, <3>1
  <2> QED BY <2>1 DEF Grow
<1> DEFINE g == CHOOSE f1 : Is(f1)
<1>8. Is(g)
  <2> HIDE DEF Is
  <2> QED BY <1>7
<1>9. Derived(T, D) = g[n]
  BY DEF Derived
<1>10. \A k \in 0 .. n : g[k] = IF k = 0 THEN D ELSE Grow(T, D, g[k - 1])
  <2> HIDE DEF g
  <2> QED BY <1>8 DEF Grow
<1>11. \A k \in 0 .. n : g[k] = f[k]
  <2> DEFINE Q == {k \in 0 .. n : g[k] = f[k]}
  <2> HIDE DEF g, Is
  <2>1. 0 \in Q
    <3>1. 0 \in 0 .. n
      BY <1>1
    <3>2. g[0] = D /\ f[0] = D
      BY <1>5, <1>10, <3>1
    <3> QED BY <3>1, <3>2
  <2>2. \A k \in 1 .. n : k - 1 \in Q => k \in Q
    BY <1>1, <1>6, <1>10
  <2>3. \A k \in 0 .. n : k \in Q
    <3> HIDE DEF Q, n
    <3> QED BY <1>1, <2>1, <2>2, IntervalInduction
  <2> QED BY <2>3
<1>12. Growth(f, T, D)
  BY <1>5, <1>6 DEF Growth
<1>13. g[n] = f[n]
  BY <1>1, <1>11
<1> QED
  <2> HIDE DEF g
  <2> QED BY <1>9, <1>12, <1>13

(* The rules T with data D, and U with E, are the same off the changed      *)
(* tables.                                                                  *)
SameOff(changed, T, D, U, E) ==
    /\ \A r \in Rules : r.head \notin changed => (r \in T <=> r \in U)
    /\ \A t : t \notin changed => (t \in D <=> t \in E)

(* In a set of tables that reads no others and none of which changed, the   *)
(* same is derived, and the same actions follow.                            *)
LEMMA SameDerived ==
    ASSUME NEW T \in SUBSET Rules, NEW D \in SUBSET Tables, NEW U \in SUBSET Rules, NEW E \in SUBSET Tables,
           NEW changed, SameOff(changed, T, D, U, E), NEW S, S \intersect changed = {},
           \A r \in U : r.head \in S => r.body \subseteq S /\ r.neg \subseteq S
    PROVE  /\ \A t \in S : t \in Derived(T, D) <=> t \in Derived(U, E)
           /\ \A t \in S : t \in Actions(T, D) <=> t \in Actions(U, E)
<1>1. PICK f : Growth(f, T, D) /\ Derived(T, D) = f[Cardinality(Tables)]
  BY DerivedSteps
<1>2. PICK g : Growth(g, U, E) /\ Derived(U, E) = g[Cardinality(Tables)]
  BY DerivedSteps
<1> DEFINE n == Cardinality(Tables)
           Q == {k \in 0 .. n : \A t \in S : t \in f[k] <=> t \in g[k]}
<1>3. n \in Nat
  BY TablesCounted
<1>4. \A r \in Rules : r.head \in S => (r \in T <=> r \in U)
  BY DEF SameOff
<1>5. \A t \in S : t \in D <=> t \in E
  BY DEF SameOff
<1>6. ASSUME NEW A, NEW B, \A t \in S : t \in A <=> t \in B, NEW r \in Rules, r.head \in S
      PROVE  r \in T /\ Satisfied(r, A) <=> r \in U /\ Satisfied(r, B)
  <2>1. r \in T <=> r \in U
    BY <1>4, <1>6
  <2>2. ASSUME r \in U PROVE Satisfied(r, A) <=> Satisfied(r, B)
    <3>1. r.body \subseteq S /\ r.neg \subseteq S
      BY <1>6, <2>2
    <3> QED BY <1>6, <3>1 DEF Satisfied
  <2> QED BY <2>1, <2>2
<1>7. ASSUME NEW A, NEW B, \A t \in S : t \in A <=> t \in B, NEW t \in S
      PROVE  t \in Grow(T, D, A) <=> t \in Grow(U, E, B)
  <2>1. \A r \in Rules : r.head = t => (r \in T /\ Satisfied(r, A) <=> r \in U /\ Satisfied(r, B))
    BY <1>6, <1>7
  <2>2. (\E r \in T : ~r.act /\ Satisfied(r, A) /\ r.head = t)
          <=> (\E r \in U : ~r.act /\ Satisfied(r, B) /\ r.head = t)
    BY <2>1
  <2> QED BY <1>5, <2>2 DEF Grow
<1>8. 0 \in Q
  BY <1>1, <1>2, <1>3, <1>5 DEF Growth
<1>9. \A k \in 1 .. n : k - 1 \in Q => k \in Q
  <2> SUFFICES ASSUME NEW k \in 1 .. n, k - 1 \in Q PROVE k \in Q
    OBVIOUS
  <2>1. f[k] = Grow(T, D, f[k - 1]) /\ g[k] = Grow(U, E, g[k - 1])
    BY <1>1, <1>2 DEF Growth
  <2>2. \A t \in S : t \in f[k] <=> t \in g[k]
    BY <1>7, <2>1
  <2> QED BY <1>3, <2>2
<1>10. \A k \in 0 .. n : k \in Q
  <2> HIDE DEF Q, n
  <2> QED BY <1>3, <1>8, <1>9, IntervalInduction
<1>11. \A t \in S : t \in Derived(T, D) <=> t \in Derived(U, E)
  BY <1>1, <1>2, <1>3, <1>10
<1>12. ASSUME NEW t \in S PROVE t \in Actions(T, D) <=> t \in Actions(U, E)
  <2> DEFINE A == Derived(T, D)
             B == Derived(U, E)
  <2> HIDE DEF A, B
  <2>1. \A r \in Rules : r.head = t => (r \in T /\ Satisfied(r, A) <=> r \in U /\ Satisfied(r, B))
    BY <1>6, <1>11, <1>12 DEF A, B
  <2>2. (\E r \in T : r.act /\ Satisfied(r, A) /\ r.head = t)
          <=> (\E r \in U : r.act /\ Satisfied(r, B) /\ r.head = t)
    BY <2>1
  <2> QED BY <2>2 DEF Actions, A, B
<1> QED BY <1>11, <1>12

(* A table whose actions change depends on one that changed.                *)
LEMMA ChangeIsReached ==
    ASSUME NEW G, NEW I, NEW m, NEW U \in SUBSET Rules, GraphOf(G, I, m, U),
           NEW T \in SUBSET Rules, NEW D \in SUBSET Tables, NEW E \in SUBSET Tables,
           NEW changed, SameOff(changed, T, D, U, E),
           NEW a \in Tables, a \in Actions(T, D), a \notin Actions(U, E)
    PROVE  \E t \in changed : t \in Reached(G.out, a)
<1> DEFINE S == Reached(G.out, a)
<1> SUFFICES ASSUME S \intersect changed = {} PROVE FALSE
  OBVIOUS
<1>1. G.out \in SUBSET Labelled
  BY DEF GraphOf, Represents, Counts, Graph
<1>2. a \in S
  BY <1>1, ReachedIn
<1>3. ASSUME NEW r \in U, r.head \in S PROVE r.body \subseteq S /\ r.neg \subseteq S
  <2>1. PICK i \in I : i[1] = r
    BY DEF GraphOf
  <2>2. Edges(r) \subseteq G.out /\ r \in RuleType
    BY <2>1, KnowsInstances DEF GraphOf
  <2>3. /\ \A t \in r.body : <<r.head, t, FALSE>> \in G.out
        /\ \A t \in r.neg : <<r.head, t, TRUE>> \in G.out
    BY <2>2, RuleParts
  <2>4. ASSUME NEW t, NEW l, <<r.head, t, l>> \in G.out PROVE t \in S
    <3> DEFINE e == <<r.head, t, l>>
    <3>1. e \in G.out /\ e[1] \in S /\ e[2] = t
      BY <1>3, <2>4
    <3> HIDE DEF e
    <3> QED BY <1>1, <3>1, ReachedClosed
  <2> QED BY <2>3, <2>4
<1> HIDE DEF S
<1> QED BY <1>2, <1>3, SameDerived

(* A table without edges reaches itself alone.                              *)
LEMMA ReachedAlone ==
    ASSUME NEW out \in SUBSET Labelled, NEW t \in Tables, \A e \in out : e[1] # t
    PROVE  Reached(out, t) = {t}
<1>1. PICK f : Steps(f, out, t) /\ Reached(out, t) = f[Cardinality(Tables)]
  BY ReachedSteps
<1> DEFINE n == Cardinality(Tables)
           Q == {k \in 0 .. n : f[k] = {t}}
<1>2. n \in Nat
  BY TablesCounted
<1>3. Next1(out, {t}) = {t}
  BY DEF Next1
<1>4. f[0] = {t} /\ \A k \in 1 .. n : f[k] = Next1(out, f[k - 1])
  BY <1>1 DEF Steps
<1>5. 0 \in Q
  BY <1>2, <1>4
<1>6. ASSUME NEW k \in 1 .. n, k - 1 \in Q PROVE k \in Q
  <2>1. f[k] = Next1(out, f[k - 1]) /\ f[k - 1] = {t}
    BY <1>4, <1>6
  <2>2. f[k] = {t}
    BY ONLY <1>3, <2>1
  <2> QED BY <1>2, <2>2
<1>7. \A k \in 0 .. n : k \in Q
  <2> HIDE DEF n, Q
  <2> QED BY <1>2, <1>5, <1>6, IntervalInduction
<1> QED BY <1>1, <1>2, <1>7

(* In a graph that counts rules, a table it does not know has no edges.     *)
LEMMA DependenciesAre ==
    ASSUME NEW g, NEW I, Represents(g, I), NEW t \in Tables
    PROVE  Dependencies(g, t) = Reached(g.out, t)
<1>1. g.out \in SUBSET Labelled
  BY DEF Represents, Counts, Graph
<1>2. CASE g.nodes[t] = 0
  <2>1. ASSUME NEW e \in g.out, e[1] = t PROVE FALSE
    <3>1. PICK i \in I : e \in Edges(i[1]) /\ e[1] = i[1].head
      BY KnownByInstances
    <3>2. i[1] \in RuleType /\ \A u \in Nodes(i[1]) : g.nodes[u] > 0
      BY KnowsInstances
    <3>3. t \in Nodes(i[1])
      BY <2>1, <3>1, <3>2, RuleParts
    <3> QED BY <1>2, <3>2, <3>3
  <2>2. Reached(g.out, t) = {t}
    BY <1>1, <2>1, ReachedAlone
  <2> QED BY <1>2, <2>2 DEF Dependencies
<1>3. CASE g.nodes[t] # 0
  BY <1>3 DEF Dependencies
<1> QED BY <1>2, <1>3

-----------------------------------------------------------------------------
(* A table that heads an action heads nothing else.                         *)
ActionsApart == \A r, s \in Rules : r.head = s.head => r.act = s.act

(* The registry and _maintain_triggers agree with the graph.                *)
Triggers ==
    /\ registered = execution
    /\ TablesOf(registered) = Current(graph)
    /\ index = IndexOf(registered, graph)

(* unregister finds the index of every trigger that goes.                   *)
LEMMA NoneFails ==
    ASSUME ActionsApart, Inv, Triggers, NEW g, NEW J, NEW k, NEW T, GraphOf(g, J, k, T),
           NEW added, NEW r \in Stale(g)
    PROVE  ~Fails(g, added, r)
<1>1. PICK I, m : GraphOf(graph, I, m, theory)
  BY DEF Inv, Counted
<1>2. r \in execution /\ r \in registered /\ r.table \notin Current(g) /\ r.table \in Current(graph)
  BY DEF Stale, Triggers, TablesOf
<1> DEFINE a == r.table
<1>3. a \in Tables /\ graph.modal[a] > 0 /\ ~(g.modal[a] > 0)
  BY <1>2 DEF Current
<1>4. Represents(graph, I) /\ Represents(g, J) /\ g.out \in SUBSET Labelled /\ graph.out \in SUBSET Labelled
  BY <1>1 DEF GraphOf, Represents, Counts, Graph
<1> HIDE DEF a
<1>5. PICK i \in I : i[1].act /\ i[1].head = a
  BY <1>3, <1>4, KnownByInstances
<1>6. i[1] \in Rules
  BY <1>1 DEF GraphOf
<1>7. ASSUME NEW e \in g.out, e[1] = a PROVE FALSE
  <2>1. PICK j \in J : e \in Edges(j[1]) /\ e[1] = j[1].head
    BY <1>4, KnownByInstances
  <2>2. j[1] \in Rules
    BY <2>1 DEF GraphOf
  <2>3. j[1].act = i[1].act
    BY <1>5, <1>6, <1>7, <2>1, <2>2 DEF ActionsApart
  <2>4. g.modal[j[1].head] > 0
    BY <1>4, <1>5, <2>1, <2>3, KnowsInstances
  <2> QED BY <1>3, <1>7, <2>1, <2>4
<1>8. Dependencies(g, a) = {a}
  <2>1. Reached(g.out, a) = {a}
    BY <1>3, <1>4, <1>7, ReachedAlone
  <2> QED BY <1>3, <1>4, <2>1, DependenciesAre
<1>9. r \in index[a]
  <2>1. Dependencies(graph, a) = Reached(graph.out, a) /\ a \in Reached(graph.out, a)
    BY <1>3, <1>4, DependenciesAre, ReachedIn
  <2> QED BY <1>2, <1>3, <2>1 DEF Triggers, IndexOf, a
<1> QED BY <1>2, <1>8, <1>9 DEF Fails, a

(* Triggers that are not stale are found under all they depend on.          *)
LEMMA AcceptedTriggers ==
    ASSUME ActionsApart, Inv, Triggers,
           NEW g, NEW changed, NEW T, NEW D, Accepted(g, changed, T, D)
    PROVE  /\ Triggers'
           /\ TablesOf(ran') = Actions(theory', data') \ Actions(theory, data)
<1>1. PICK J, k : GraphOf(g, J, k, T)
  BY DEF Accepted
<1>2. PICK I, m : GraphOf(graph, I, m, theory)
  BY DEF Inv, Counted
<1>3. /\ graph' = Cached(g) /\ theory' = T /\ data' = D
      /\ CacheSound(g) /\ T \in SUBSET Rules /\ D \in SUBSET Tables
      /\ index' = IndexOf(registered', g) /\ changed \in SUBSET Tables
      /\ SameOff(changed, T, D, theory, data)
      /\ theory \in SUBSET Rules /\ data \in SUBSET Tables
  BY EngineAssumption DEF Accepted, Commit, UpdateDependencies, SameOff, Inv, TypeOK
<1>4. PICK added \in Additions(g) :
         Maintain(g, added) /\ Run(Relevant(OldIndex(g, added), changed), T, D)
  BY DEF Accepted, Commit
<1>5. Represents(g, J) /\ Represents(graph, I)
  BY <1>1, <1>2 DEF GraphOf
<1>6. graph'.nodes = g.nodes /\ graph'.out = g.out /\ graph'.modal = g.modal
  BY <1>3, <1>5, CachedIs
<1>7. TablesOf(added) = Current(g) \ TablesOf(execution)
  BY <1>4, AdditionsIn
<1>8. /\ registered' = (registered \union added) \ Stale(g)
      /\ execution' = registered'
  <2>1. \A r \in Stale(g) : ~Fails(g, added, r)
    BY <1>1, NoneFails
  <2>2. {r \in Stale(g) : ~Fails(g, added, r)} = Stale(g)
    BY <2>1
  <2> QED BY <1>4, <2>2 DEF Maintain, Triggers
<1>9. TablesOf(registered') = Current(g)
  <2>1. \A r \in Stale(g) : r.table \notin Current(g)
    BY DEF Stale
  <2>2. \A r \in registered : r \in Stale(g) \/ r.table \in Current(g)
    BY DEF Stale, Triggers
  <2>3. \A r \in added : r.table \in Current(g) /\ r \notin Stale(g)
    BY <1>7 DEF TablesOf, Stale
  <2>4. \A t \in Current(g) : \E r \in registered \union added : r.table = t
    BY <1>7 DEF TablesOf, Triggers
  <2> QED BY <1>8, <2>1, <2>2, <2>3, <2>4 DEF TablesOf
<1>10. Triggers'
  <2>1. Current(graph') = Current(g) /\ IndexOf(registered', graph') = IndexOf(registered', g)
    BY <1>6 DEF Current, IndexOf, Dependencies
  <2> QED BY <1>3, <1>8, <1>9, <2>1 DEF Triggers
<1>11. ASSUME NEW a \in Actions(T, D), a \notin Actions(theory, data)
       PROVE  a \in TablesOf(ran')
  <2>1. PICK s \in T : s.act /\ s.head = a
    BY <1>11 DEF Actions
  <2>2. a \in Tables /\ s \in Rules
    BY <1>3, <2>1, RulesAreRules
  <2>3. a \in Current(g)
    <3>1. PICK i \in J : i[1] = s
      BY <1>1, <2>1 DEF GraphOf
    <3>2. g.modal[a] > 0
      BY <1>5, <2>1, <3>1, KnowsInstances
    <3> QED BY <2>2, <3>2 DEF Current
  <2>4. \E r, t : /\ r.table = a /\ t \in changed
                  /\ r \in OldIndex(g, added)[t]
    <3>1. CASE a \in TablesOf(execution)
      <4>1. PICK r \in registered : r.table = a
        BY <3>1 DEF TablesOf, Triggers
      <4>2. PICK t \in changed : t \in Reached(graph.out, a)
        BY <1>2, <1>3, <1>11, <2>2, ChangeIsReached
      <4>3. t \in Tables /\ t \in Dependencies(graph, a)
        BY <1>3, <1>5, <2>2, <4>2, DependenciesAre
      <4>4. r \in index[t]
        BY <4>1, <4>3 DEF Triggers, IndexOf
      <4>5. r \notin Stale(g)
        BY <2>3, <4>1 DEF Stale
      <4> QED BY <4>1, <4>2, <4>3, <4>4, <4>5 DEF OldIndex
    <3>2. CASE a \notin TablesOf(execution)
      <4>1. PICK r \in added : r.table = a
        BY <1>7, <2>3, <3>2 DEF TablesOf
      <4>2. s \notin theory
        <5> SUFFICES ASSUME s \in theory PROVE FALSE
          OBVIOUS
        <5>1. PICK i \in I : i[1] = s
          BY <1>2 DEF GraphOf
        <5>2. graph.modal[a] > 0
          BY <1>5, <2>1, <5>1, KnowsInstances
        <5> QED BY <2>2, <3>2, <5>2 DEF Current, Triggers
      <4>3. a \in changed
        BY <1>3, <2>1, <2>2, <4>2 DEF SameOff
      <4>4. a \in Dependencies(g, r.table)
        <5>1. g.out \in SUBSET Labelled
          BY <1>5 DEF Represents, Counts, Graph
        <5> QED BY <1>5, <2>2, <4>1, <5>1, DependenciesAre, ReachedIn
      <4> QED BY <2>2, <4>1, <4>3, <4>4 DEF OldIndex
    <3> QED BY <3>1, <3>2
  <2>5. PICK r, t : r.table = a /\ t \in changed /\ r \in OldIndex(g, added)[t]
    BY <2>4
  <2>6. r \in Relevant(OldIndex(g, added), changed)
    BY <2>5 DEF Relevant
  <2>7. r \in ran'
    BY <1>4, <1>11, <2>5, <2>6 DEF Run
  <2> QED BY <2>5, <2>7 DEF TablesOf
<1>12. \A r \in ran' : r.table \in Actions(T, D) \ Actions(theory, data)
  BY <1>4 DEF Run
<1>13. TablesOf(ran') = Actions(T, D) \ Actions(theory, data)
  <2>1. \A a \in TablesOf(ran') : a \in Actions(T, D) \ Actions(theory, data)
    BY <1>12 DEF TablesOf
  <2> QED BY <1>11, <2>1
<1> QED BY <1>3, <1>10, <1>13

(* receive_data_full fires what it should.                                  *)
LEMMA FullTriggers ==
    ASSUME Inv, Triggers, NEW b \in Sources, NEW D \in SUBSET Sources, ReceiveFull(b, D)
    PROVE  /\ Triggers'
           /\ TablesOf(ran') = Actions(theory', data') \ Actions(theory, data)
<1>1. /\ data' = D /\ UNCHANGED <<theory, graph, triggerVars>>
      /\ D \ {b} = data \ {b}
      /\ ran' = {r \in Relevant(index, {b}) : r.table \in Actions(theory, D) \ Actions(theory, data)}
  BY DEF ReceiveFull, Run
<1>2. Triggers'
  BY <1>1 DEF Triggers, triggerVars
<1>3. PICK I, m : GraphOf(graph, I, m, theory)
  BY DEF Inv, Counted
<1>4. theory \in SUBSET Rules /\ data \in SUBSET Tables /\ D \in SUBSET Tables /\ b \in Tables
  BY EngineAssumption DEF Inv, TypeOK
<1>5. SameOff({b}, theory, D, theory, data)
  BY <1>1 DEF SameOff
<1>6. ASSUME NEW a \in Actions(theory, D), a \notin Actions(theory, data)
      PROVE  \E r \in Relevant(index, {b}) : r.table = a
  <2>1. PICK s \in theory : s.act /\ s.head = a
    BY <1>6 DEF Actions
  <2>2. a \in Tables
    BY <1>4, <2>1, RulesAreRules
  <2>3. Represents(graph, I)
    BY <1>3 DEF GraphOf
  <2>4. PICK i \in I : i[1] = s
    BY <1>3, <2>1 DEF GraphOf
  <2>5. graph.modal[a] > 0
    BY <2>1, <2>3, <2>4, KnowsInstances
  <2>6. PICK r \in registered : r.table = a
    BY <2>2, <2>5 DEF Current, Triggers, TablesOf
  <2>7. b \in Reached(graph.out, a)
    BY <1>3, <1>4, <1>5, <1>6, <2>2, ChangeIsReached
  <2>8. b \in Dependencies(graph, a)
    BY <2>2, <2>3, <2>7, DependenciesAre
  <2>9. r \in index[b]
    BY <1>4, <2>6, <2>8 DEF Triggers, IndexOf
  <2> QED BY <2>6, <2>9 DEF Relevant
<1>7. TablesOf(ran') = Actions(theory, D) \ Actions(theory, data)
  BY <1>1, <1>6 DEF TablesOf
<1> QED BY <1>1, <1>2, <1>7

(* Triggers fire exactly for the action tables that gain rows, whether a    *)
(* rule or a datasource caused it (relevant_triggers, update_dependencies), *)
(* where no table heads both an action and a rule of another kind.          *)
THEOREM ActionsFireExactly == ActionsApart => (Spec => FiresExactly)
<1> SUFFICES ASSUME ActionsApart PROVE Spec => FiresExactly
  OBVIOUS
<1> DEFINE A == TablesOf(ran') = Actions(theory', data') \ Actions(theory, data)
<1>1. Init => Triggers
  <2> SUFFICES ASSUME Init PROVE Triggers
    OBVIOUS
  <2>1. Current(graph) = {}
    BY DEF Init, EmptyGraph, Current
  <2> QED BY <2>1 DEF Init, Triggers, TablesOf, IndexOf
<1>2. Inv /\ Triggers /\ Next => Triggers' /\ A
  <2> SUFFICES ASSUME Inv, Triggers, Next PROVE Triggers' /\ A
    OBVIOUS
  <2>1. CASE Refused
    <3>1. /\ UNCHANGED <<graph.nodes, graph.out, graph.modal>>
          /\ ran' = {} /\ UNCHANGED <<theory, data, triggerVars>>
      BY <2>1, RefusedStep DEF Refused
    <3>2. Current(graph') = Current(graph) /\ IndexOf(registered, graph') = IndexOf(registered, graph)
      BY <3>1 DEF Current, IndexOf, Dependencies
    <3> QED BY <3>1, <3>2 DEF Triggers, triggerVars, TablesOf
  <2>2. CASE \E g, changed, T, D : Accepted(g, changed, T, D)
    BY <2>2, AcceptedTriggers
  <2>3. CASE \E b \in Sources, D \in SUBSET Sources : ReceiveFull(b, D)
    BY <2>3, FullTriggers
  <2> QED BY <2>1, <2>2, <2>3, StepIs
<1>3. Inv /\ Triggers /\ [Next]_vars => Triggers'
  <2>1. Triggers /\ UNCHANGED vars => Triggers'
    BY DEF Triggers, vars, TablesOf
  <2> QED BY <1>2, <2>1
<1>4. Inv /\ Triggers /\ [Next]_vars => [A]_vars
  BY <1>2
<1> QED BY <1>1, <1>3, <1>4, Invariance, PTL DEF Spec, FiresExactly
=============================================================================
