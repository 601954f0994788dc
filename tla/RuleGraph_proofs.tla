-------------------------- MODULE RuleGraph_proofs --------------------------
(***************************************************************************)
(* The reference counts of RuleGraph, for any tables and any sequence of   *)
(* batches: the graph is a count of rules, formula_update and undo_changes *)
(* move it from count to count, and the cached answer about cycles is      *)
(* never a wrong "none".                                                   *)
(***************************************************************************)
EXTENDS RuleGraph, FiniteSetTheorems, WellFoundedInduction, TLAPS

(* Induction over the subsets of a finite set.                              *)
LEMMA SubsetInduction ==
    ASSUME NEW S, IsFiniteSet(S), NEW Q \in SUBSET SUBSET S,
           \A T \in SUBSET S : (\A x \in T : T \ {x} \in Q) => T \in Q
    PROVE  Q = SUBSET S
<1> DEFINE Bad == (SUBSET S) \ Q
           R == StrictSubsetOrdering(S)
<1>1. SUBSET S = FiniteSubsetsOf(S) /\ IsWellFoundedOn(R, SUBSET S)
  BY FS_FiniteSubsetsOfFinite, FS_StrictSubsetOrderingWellFounded
<1>2. SUFFICES ASSUME Bad # {} PROVE FALSE
  OBVIOUS
<1>3. PICK T \in Bad : \A U \in Bad : <<U, T>> \notin R
  <2>1. Bad \subseteq SUBSET S /\ Bad # {}
    BY <1>2
  <2> HIDE DEF Bad, R
  <2> QED BY <1>1, <2>1, WFMin
<1>4. \A x \in T : T \ {x} \in Q
  <2> SUFFICES ASSUME NEW x \in T PROVE T \ {x} \in Q
    OBVIOUS
  <2>1. <<T \ {x}, T>> \in R
    BY DEF StrictSubsetOrdering
  <2> QED
    BY <2>1, <1>3
<1> QED
  BY <1>4

(* A fold as its recursive function computes it: c picks what comes last.   *)
Picks(c, S) == \A s \in SUBSET S : s # {} => c[s] \in s

Folds(f, S, base, c, F) ==
    \A s \in SUBSET S : f[s] = IF s = {} THEN base ELSE F[<<c[s], f[s \ {c[s]}]>>]

(* The same where the step F is only known for values in V.                 *)
FoldsIn(f, S, V, base, c, F) ==
    \A s \in SUBSET S :
        /\ s = {} => f[s] = base
        /\ s # {} /\ f[s \ {c[s]}] \in V => f[s] = F[<<c[s], f[s \ {c[s]}]>>]

(* J[s] holds of what is folded over s.                                     *)
Keeps(J, S, V, base, c, F) ==
    /\ J \in [SUBSET S -> SUBSET V]
    /\ base \in J[{}]
    /\ \A s \in SUBSET S : s # {} => \A v \in J[s \ {c[s]}] : F[<<c[s], v>>] \in J[s]

(* A fold has a function that computes it.                                  *)
LEMMA FoldExists ==
    ASSUME NEW S, IsFiniteSet(S), NEW V, NEW base \in V, NEW c, Picks(c, S), NEW F \in [S \X V -> V]
    PROVE  \E f \in [SUBSET S -> V] : Folds(f, S, base, c, F)
<1>0. \A s \in SUBSET S : s # {} => c[s] \in s
  BY DEF Picks
<1> DEFINE Eq(it, T) == /\ it \in [SUBSET T -> V]
                        /\ \A s \in SUBSET T :
                             it[s] = IF s = {} THEN base ELSE F[<<c[s], it[s \ {c[s]}]>>]
           Some(T) == CHOOSE it : Eq(it, T)
           Q == {T \in SUBSET S : \E it : Eq(it, T)}
<1>1. ASSUME NEW T1 \in SUBSET S, NEW T2 \in SUBSET S, NEW i1, NEW i2, Eq(i1, T1), Eq(i2, T2),
             NEW s \in SUBSET (T1 \intersect T2)
      PROVE  i1[s] = i2[s]
  <2> DEFINE P == {u \in SUBSET (T1 \intersect T2) : i1[u] = i2[u]}
             B == T1 \intersect T2
  <2>1. IsFiniteSet(B)
    BY FS_Subset
  <2>2. \A u \in SUBSET B : (\A x \in u : u \ {x} \in P) => u \in P
    <3> SUFFICES ASSUME NEW u \in SUBSET B, \A x \in u : u \ {x} \in P PROVE u \in P
      OBVIOUS
    <3>1. u # {} => c[u] \in u
      BY <1>0
    <3>2. u # {} => i1[u \ {c[u]}] = i2[u \ {c[u]}]
      BY <3>1
    <3> QED
      BY <1>1, <3>1, <3>2
  <2>3. P \in SUBSET SUBSET B
    OBVIOUS
  <2>4. P = SUBSET B
    <3> HIDE DEF P, B, Eq, Q
    <3> QED BY ONLY <2>1, <2>2, <2>3, SubsetInduction
  <2> QED
    BY <2>4
<1>2. ASSUME NEW T \in SUBSET S, NEW it, Eq(it, T), NEW U \in SUBSET T
      PROVE  Eq([s \in SUBSET U |-> it[s]], U)
  <2>1. \A s \in SUBSET U : s \in SUBSET T /\ s \ {c[s]} \in SUBSET U
    OBVIOUS
  <2> QED
    BY <1>2, <2>1
<1>3. \A T \in SUBSET S : (\A x \in T : T \ {x} \in Q) => T \in Q
  <2> SUFFICES ASSUME NEW T \in SUBSET S, \A x \in T : T \ {x} \in Q PROVE T \in Q
    OBVIOUS
  <2>1. CASE T = {}
    <3>1. Eq([s \in {{}} |-> base], T)
      BY <2>1
    <3> HIDE DEF Eq
    <3> QED BY <3>1
  <2>2. CASE T # {}
    <3> DEFINE g == [s \in SUBSET T |-> IF s = T THEN F[<<c[T], Some(T \ {c[T]})[T \ {c[T]}]>>]
                                       ELSE Some(s)[s]]
    <3>1. ASSUME NEW s \in SUBSET T, s # T PROVE Eq(Some(s), s)
      <4>1. PICK x \in T : x \notin s
        BY <3>1
      <4>4. s \subseteq T \ {x}
        BY <4>1
      <4>2. PICK it : Eq(it, T \ {x})
        OBVIOUS
      <4>3. \E i : Eq(i, s)
        <5>1. Eq([u \in SUBSET s |-> it[u]], s)
          BY ONLY <1>2, <4>4, <4>2, T \in SUBSET S
        <5> HIDE DEF Eq
        <5> QED BY <5>1
      <4> HIDE DEF Eq
      <4> QED BY <4>3
    <3>2. ASSUME NEW s \in SUBSET T, s # T, s # {}
          PROVE  Some(s)[s] = F[<<c[s], Some(s \ {c[s]})[s \ {c[s]}]>>]
      <4>1. c[s] \in s /\ s \ {c[s]} \in SUBSET T /\ s \ {c[s]} # T
        BY <1>0, <3>2
      <4>2. Eq(Some(s), s) /\ Eq(Some(s \ {c[s]}), s \ {c[s]})
        BY <3>1, <3>2, <4>1
      <4>3. Some(s)[s \ {c[s]}] = Some(s \ {c[s]})[s \ {c[s]}]
        <5>1. s \in SUBSET S /\ s \ {c[s]} \in SUBSET S
              /\ s \ {c[s]} \in SUBSET (s \intersect (s \ {c[s]}))
          OBVIOUS
        <5> HIDE DEF Eq, Some
        <5> QED BY ONLY <1>1, <4>2, <5>1
      <4> HIDE DEF Some
      <4> QED BY <4>2, <4>3, <3>2
    <3>3. ASSUME NEW s \in SUBSET T, s # T PROVE Some(s)[s] \in V /\ (s = {} => Some(s)[s] = base)
      <4>1. Eq(Some(s), s)
        BY <3>1, <3>3
      <4> HIDE DEF Some
      <4> QED BY <4>1
    <3>4. Eq(g, T)
      <4> HIDE DEF Some
      <4>1. c[T] \in T /\ T \ {c[T]} \in SUBSET T /\ T \ {c[T]} # T
        BY <1>0, <2>2
      <4>2. g \in [SUBSET T -> V]
        BY <3>3, <4>1
      <4>3. ASSUME NEW s \in SUBSET T
            PROVE  g[s] = IF s = {} THEN base ELSE F[<<c[s], g[s \ {c[s]}]>>]
        <5>1. CASE s = T
          BY <5>1, <4>1, <2>2
        <5>2. CASE s # T /\ s = {}
          BY <5>2, <3>3
        <5>3. CASE s # T /\ s # {}
          <6>1. s \ {c[s]} \in SUBSET T /\ s \ {c[s]} # T
            BY <1>0, <5>3
          <6> QED BY <5>3, <3>2, <6>1
        <5> QED BY <5>1, <5>2, <5>3
      <4> QED BY <4>2, <4>3
    <3> HIDE DEF Eq, g
    <3> QED BY <3>4
  <2> QED BY <2>1, <2>2
<1>4. S \in Q
  <2>1. Q \in SUBSET SUBSET S
    OBVIOUS
  <2> HIDE DEF Q, Eq
  <2>2. Q = SUBSET S
    BY ONLY <1>3, <2>1, IsFiniteSet(S), SubsetInduction
  <2> QED BY <2>2
<1> QED
  BY <1>4 DEF Folds

(* What the base has and every step keeps holds of what is folded.          *)
LEMMA FoldKeeps ==
    ASSUME NEW S, IsFiniteSet(S), NEW V, NEW base \in V, NEW c, Picks(c, S),
           NEW F \in [S \X V -> V], NEW J, Keeps(J, S, V, base, c, F),
           NEW f, FoldsIn(f, S, V, base, c, F)
    PROVE  f[S] \in J[S]
<1> DEFINE Q == {s \in SUBSET S : f[s] \in J[s]}
<1>1. Q \in SUBSET SUBSET S
  OBVIOUS
<1>2. \A T \in SUBSET S : (\A x \in T : T \ {x} \in Q) => T \in Q
  <2> SUFFICES ASSUME NEW T \in SUBSET S, \A x \in T : T \ {x} \in Q PROVE f[T] \in J[T]
    OBVIOUS
  <2>1. CASE T = {}
    BY <2>1 DEF FoldsIn, Keeps
  <2>2. CASE T # {}
    <3>1. c[T] \in T /\ f[T \ {c[T]}] \in J[T \ {c[T]}] /\ J[T \ {c[T]}] \subseteq V
      BY <2>2 DEF Picks, Keeps
    <3>2. f[T] = F[<<c[T], f[T \ {c[T]}]>>]
      BY <2>2, <3>1 DEF FoldsIn
    <3> QED BY <2>2, <3>1, <3>2 DEF Keeps
  <2> QED BY <2>1, <2>2
<1>3. Q = SUBSET S
  <2> HIDE DEF Q
  <2> QED BY ONLY IsFiniteSet(S), <1>1, <1>2, SubsetInduction
<1> QED BY <1>3

(* The last index is what a fold over a sequence picks.                     *)
LEMMA MaxOfInterval ==
    ASSUME NEW n \in Nat, NEW s \in SUBSET (1 .. n), s # {}
    PROVE  Max(s) \in s /\ \A k \in 1 .. n : s = 1 .. k => Max(s) = k
<1> DEFINE Q == {t \in SUBSET (1 .. n) : t # {} => \E x \in t : \A y \in t : x >= y}
<1>1. \A T \in SUBSET (1 .. n) : (\A x \in T : T \ {x} \in Q) => T \in Q
  <2> SUFFICES ASSUME NEW T \in SUBSET (1 .. n), \A x \in T : T \ {x} \in Q, NEW x \in T
               PROVE \E z \in T : \A y \in T : z >= y
    OBVIOUS
  <2>1. CASE T \ {x} = {}
    BY <2>1
  <2>2. CASE T \ {x} # {}
    <3>1. PICK m \in T \ {x} : \A y \in T \ {x} : m >= y
      BY <2>2
    <3> QED BY <3>1
  <2> QED BY <2>1, <2>2
<1>2. Q = SUBSET (1 .. n)
  <2>1. Q \in SUBSET SUBSET (1 .. n) /\ IsFiniteSet(1 .. n)
    BY FS_Interval
  <2> HIDE DEF Q
  <2> QED BY ONLY <1>1, <2>1, SubsetInduction
<1>3. \E x \in s : \A y \in s : x >= y
  BY <1>2
<1>4. Max(s) \in s /\ \A y \in s : Max(s) >= y
  BY <1>3 DEF Max
<1> QED
  BY <1>4

(* The same for the folds over 1 .. n, where K[k] holds after k steps.      *)
LEMMA SeqFold ==
    ASSUME NEW n \in Nat, NEW V, NEW base \in V, NEW F \in [(1 .. n) \X V -> V],
           NEW K \in [0 .. n -> SUBSET V], base \in K[0],
           \A k \in 1 .. n : \A v \in K[k - 1] : F[<<k, v>>] \in K[k],
           NEW c, c = [s \in SUBSET (1 .. n) |-> Max(s)]
    PROVE  /\ \E f \in [SUBSET (1 .. n) -> V] : Folds(f, 1 .. n, base, c, F)
           /\ \A f : FoldsIn(f, 1 .. n, V, base, c, F) => f[1 .. n] \in K[n]
<1> DEFINE S == 1 .. n
           J == [s \in SUBSET S |-> {v \in V : \A k \in 0 .. n : s = 1 .. k => v \in K[k]}]
<1>1. IsFiniteSet(S)
  BY FS_Interval
<1>2. \A s \in SUBSET S : s # {} => c[s] \in s /\ \A k \in 1 .. n : s = 1 .. k => c[s] = k
  BY MaxOfInterval
<1>3. Picks(c, S)
  BY <1>2 DEF Picks
<1>4. J \in [SUBSET S -> SUBSET V] /\ base \in J[{}]
  <2>1. \A k \in 0 .. n : {} = 1 .. k => k = 0
    OBVIOUS
  <2> QED BY <2>1
<1>5. \A s \in SUBSET S : s # {} => \A v \in J[s \ {c[s]}] : F[<<c[s], v>>] \in J[s]
  <2> SUFFICES ASSUME NEW s \in SUBSET S, s # {}, NEW v \in J[s \ {c[s]}]
               PROVE  F[<<c[s], v>>] \in V /\ \A k \in 0 .. n : s = 1 .. k => F[<<c[s], v>>] \in K[k]
    OBVIOUS
  <2>1. c[s] \in s /\ v \in V
    BY <1>2
  <2>2. ASSUME NEW k \in 0 .. n, s = 1 .. k PROVE F[<<c[s], v>>] \in K[k]
    <3>1. k \in 1 .. n
      BY <2>2
    <3>2. c[s] = k
      BY <1>2, <2>2, <3>1
    <3>3. s \ {c[s]} = 1 .. (k - 1) /\ k - 1 \in 0 .. n
      BY <2>2, <3>1, <3>2
    <3>4. s \ {c[s]} \in SUBSET S
      OBVIOUS
    <3>5. v \in K[k - 1]
      BY <3>3, <3>4
    <3> QED BY <3>1, <3>2, <3>5
  <2>3. F[<<c[s], v>>] \in V
    BY <2>1
  <2> QED BY <2>2, <2>3
<1>6. Keeps(J, S, V, base, c, F)
  BY <1>4, <1>5 DEF Keeps
<1>7. S \in SUBSET S /\ n \in 0 .. n
  OBVIOUS
<1>8. J[S] \subseteq K[n]
  BY <1>7
<1>9. F \in [S \X V -> V]
  OBVIOUS
<1> HIDE DEF S, J
<1>10. \E f \in [SUBSET S -> V] : Folds(f, S, base, c, F)
  BY ONLY base \in V, <1>1, <1>3, <1>9, FoldExists
<1>11. \A f : FoldsIn(f, S, V, base, c, F) => f[S] \in J[S]
  BY ONLY base \in V, <1>1, <1>3, <1>6, <1>9, FoldKeeps
<1> QED
  BY <1>8, <1>10, <1>11 DEF S

-----------------------------------------------------------------------------
(* What is counted: a token is a pair of whatever makes it one of its kind  *)
(* and the node or the edge it counts for.                                  *)
At(A, u)   == {x \in A : x[2] = u}
From(A, t) == {x \in A : x[2][1] = t}
To(A, t)   == {x \in A : x[2][2] = t}

Tokens(A, S) == IsFiniteSet(A) /\ \A x \in A : x[2] \in S

(* The graph counts the nodes N, the edges E and the actions M.             *)
Counts(g, N, E, M) ==
    /\ g \in Graph
    /\ Tokens(N, Tables) /\ Tokens(E, Labelled) /\ Tokens(M, Tables)
    /\ \A t \in Tables : g.nodes[t] = Cardinality(At(N, t)) + Cardinality(From(E, t))
                                        + Cardinality(To(E, t))
    /\ \A e \in Labelled : g.edges[e] = Cardinality(At(E, e))
    /\ g.out = {x[2] : x \in E}
    /\ \A t \in Tables : g.modal[t] = Cardinality(At(M, t))

(* One token more counts for its own node or edge only.                     *)
LEMMA OneMoreAt ==
    ASSUME NEW A, IsFiniteSet(A), NEW x, x \notin A, NEW u
    PROVE  Cardinality(At(A \union {x}, u))
             = IF x[2] = u THEN Cardinality(At(A, u)) + 1 ELSE Cardinality(At(A, u))
<1>1. IsFiniteSet(At(A, u)) /\ x \notin At(A, u)
  BY FS_Subset DEF At
<1>2. At(A \union {x}, u) = IF x[2] = u THEN At(A, u) \union {x} ELSE At(A, u)
  BY DEF At
<1> QED
  BY <1>1, <1>2, FS_AddElement

(* And one less.                                                            *)
LEMMA OneLessAt ==
    ASSUME NEW A, IsFiniteSet(A), NEW x \in A, NEW u
    PROVE  Cardinality(At(A, u))
             = IF x[2] = u THEN Cardinality(At(A \ {x}, u)) + 1 ELSE Cardinality(At(A \ {x}, u))
<1>1. IsFiniteSet(A \ {x}) /\ x \notin A \ {x} /\ (A \ {x}) \union {x} = A
  BY FS_RemoveElement
<1> QED
  BY <1>1, OneMoreAt

(* A token of an edge counts for the node the edge comes from,              *)
LEMMA OneMoreFrom ==
    ASSUME NEW A, IsFiniteSet(A), NEW x, x \notin A, NEW u
    PROVE  Cardinality(From(A \union {x}, u))
             = IF x[2][1] = u THEN Cardinality(From(A, u)) + 1 ELSE Cardinality(From(A, u))
<1>1. IsFiniteSet(From(A, u)) /\ x \notin From(A, u)
  BY FS_Subset DEF From
<1>2. From(A \union {x}, u) = IF x[2][1] = u THEN From(A, u) \union {x} ELSE From(A, u)
  BY DEF From
<1> QED
  BY <1>1, <1>2, FS_AddElement

(* also when it goes,                                                       *)
LEMMA OneLessFrom ==
    ASSUME NEW A, IsFiniteSet(A), NEW x \in A, NEW u
    PROVE  Cardinality(From(A, u))
             = IF x[2][1] = u THEN Cardinality(From(A \ {x}, u)) + 1 ELSE Cardinality(From(A \ {x}, u))
<1>1. IsFiniteSet(A \ {x}) /\ x \notin A \ {x} /\ (A \ {x}) \union {x} = A
  BY FS_RemoveElement
<1> QED
  BY <1>1, OneMoreFrom

(* and for the node the edge leads to,                                      *)
LEMMA OneMoreTo ==
    ASSUME NEW A, IsFiniteSet(A), NEW x, x \notin A, NEW u
    PROVE  Cardinality(To(A \union {x}, u))
             = IF x[2][2] = u THEN Cardinality(To(A, u)) + 1 ELSE Cardinality(To(A, u))
<1>1. IsFiniteSet(To(A, u)) /\ x \notin To(A, u)
  BY FS_Subset DEF To
<1>2. To(A \union {x}, u) = IF x[2][2] = u THEN To(A, u) \union {x} ELSE To(A, u)
  BY DEF To
<1> QED
  BY <1>1, <1>2, FS_AddElement

(* also when it goes.                                                       *)
LEMMA OneLessTo ==
    ASSUME NEW A, IsFiniteSet(A), NEW x \in A, NEW u
    PROVE  Cardinality(To(A, u))
             = IF x[2][2] = u THEN Cardinality(To(A \ {x}, u)) + 1 ELSE Cardinality(To(A \ {x}, u))
<1>1. IsFiniteSet(A \ {x}) /\ x \notin A \ {x} /\ (A \ {x}) \union {x} = A
  BY FS_RemoveElement
<1> QED
  BY <1>1, OneMoreTo

(* Some token counts for u exactly if the count is positive.                *)
LEMMA SomeToken ==
    ASSUME NEW A, IsFiniteSet(A), NEW u
    PROVE  /\ Cardinality(At(A, u)) > 0 <=> \E x \in A : x[2] = u
           /\ Cardinality(From(A, u)) > 0 <=> \E x \in A : x[2][1] = u
           /\ Cardinality(To(A, u)) > 0 <=> \E x \in A : x[2][2] = u
           /\ Cardinality(At(A, u)) \in Nat
           /\ Cardinality(From(A, u)) \in Nat
           /\ Cardinality(To(A, u)) \in Nat
<1>1. IsFiniteSet(At(A, u)) /\ IsFiniteSet(From(A, u)) /\ IsFiniteSet(To(A, u))
  BY FS_Subset DEF At, From, To
<1>2. /\ Cardinality(At(A, u)) \in Nat /\ (Cardinality(At(A, u)) = 0 <=> At(A, u) = {})
      /\ Cardinality(From(A, u)) \in Nat /\ (Cardinality(From(A, u)) = 0 <=> From(A, u) = {})
      /\ Cardinality(To(A, u)) \in Nat /\ (Cardinality(To(A, u)) = 0 <=> To(A, u) = {})
  BY <1>1, FS_CardinalityType, FS_EmptySet
<1>3. /\ At(A, u) # {} <=> \E x \in A : x[2] = u
      /\ From(A, u) # {} <=> \E x \in A : x[2][1] = u
      /\ To(A, u) # {} <=> \E x \in A : x[2][2] = u
  BY DEF At, From, To
<1> QED
  BY <1>2, <1>3

(* BagGraph.add_node, field by field.                                       *)
LEMMA AddNodeIs ==
    ASSUME NEW g \in Graph, NEW t \in Tables
    PROVE  /\ AddNode(g, t) \in Graph
           /\ \A u \in Tables : AddNode(g, t).nodes[u] = IF t = u THEN g.nodes[u] + 1 ELSE g.nodes[u]
           /\ AddNode(g, t).edges = g.edges /\ AddNode(g, t).out = g.out
           /\ AddNode(g, t).modal = g.modal /\ AddNode(g, t).cycles = g.cycles
  BY DEF AddNode, Graph

(* BagGraph.add_edge, field by field.                                       *)
LEMMA AddEdgeIs ==
    ASSUME NEW g \in Graph, NEW e \in Labelled
    PROVE  /\ AddEdge(g, e) \in Graph
           /\ \A t \in Tables : AddEdge(g, e).nodes[t]
                = g.nodes[t] + (IF e[1] = t THEN 1 ELSE 0) + (IF e[2] = t THEN 1 ELSE 0)
           /\ \A d \in Labelled : AddEdge(g, e).edges[d] = IF e = d THEN g.edges[d] + 1 ELSE g.edges[d]
           /\ AddEdge(g, e).out = g.out \union {e}
           /\ AddEdge(g, e).modal = g.modal /\ AddEdge(g, e).cycles = "unknown"
<1> DEFINE h == AddNode(AddNode(g, e[1]), e[2])
<1>1. e[1] \in Tables /\ e[2] \in Tables
  BY DEF Labelled
<1>2. AddNode(g, e[1]) \in Graph
  BY <1>1, AddNodeIs
<1>3. /\ h \in Graph /\ h.edges = g.edges /\ h.out = g.out /\ h.modal = g.modal
      /\ \A t \in Tables : h.nodes[t]
            = g.nodes[t] + (IF e[1] = t THEN 1 ELSE 0) + (IF e[2] = t THEN 1 ELSE 0)
  <2>1. h \in Graph /\ h.edges = g.edges /\ h.out = g.out /\ h.modal = g.modal
    BY <1>1, <1>2, AddNodeIs
  <2>2. \A t \in Tables : g.nodes[t] \in Nat
    BY DEF Graph
  <2>3. \A t \in Tables :
           /\ AddNode(g, e[1]).nodes[t] = IF e[1] = t THEN g.nodes[t] + 1 ELSE g.nodes[t]
           /\ h.nodes[t] = IF e[2] = t THEN AddNode(g, e[1]).nodes[t] + 1
                                        ELSE AddNode(g, e[1]).nodes[t]
    BY <1>1, <1>2, AddNodeIs
  <2> HIDE DEF h
  <2>4. \A t \in Tables : h.nodes[t]
            = g.nodes[t] + (IF e[1] = t THEN 1 ELSE 0) + (IF e[2] = t THEN 1 ELSE 0)
    BY <2>2, <2>3
  <2> QED BY <2>1, <2>4
<1>4. AddEdge(g, e) = [h EXCEPT !.edges[e] = @ + 1, !.out = @ \union {e}, !.cycles = "unknown"]
  BY DEF AddEdge
<1> DEFINE f == AddEdge(g, e)
<1> HIDE DEF h
<1>5. f.nodes = h.nodes /\ f.modal = h.modal /\ f.cycles = "unknown" /\ f.out = h.out \union {e}
      /\ f.edges = [h.edges EXCEPT ![e] = @ + 1]
      /\ f = [nodes |-> f.nodes, edges |-> f.edges, out |-> f.out, modal |-> f.modal, cycles |-> f.cycles]
  BY <1>3, <1>4 DEF Graph
<1> HIDE DEF f
<1>6. f.edges \in [Labelled -> Nat]
      /\ \A d \in Labelled : f.edges[d] = IF e = d THEN g.edges[d] + 1 ELSE g.edges[d]
  BY <1>3, <1>5 DEF Graph
<1>7. f \in Graph
  BY <1>3, <1>5, <1>6 DEF Graph
<1> QED
  BY <1>3, <1>5, <1>6, <1>7 DEF f

(* add_node counts one node more.                                           *)
LEMMA AddNodeCounts ==
    ASSUME NEW g, NEW N, NEW E, NEW M, Counts(g, N, E, M),
           NEW x, x \notin N, x[2] \in Tables
    PROVE  Counts(AddNode(g, x[2]), N \union {x}, E, M) /\ AddNode(g, x[2]).cycles = g.cycles
<1>1. IsFiniteSet(N) /\ IsFiniteSet(E) /\ g \in Graph
  BY DEF Counts, Tokens
<1>2. \A t : Cardinality(At(N \union {x}, t))
            = IF x[2] = t THEN Cardinality(At(N, t)) + 1 ELSE Cardinality(At(N, t))
  BY <1>1, OneMoreAt
<1>3. \A t : Cardinality(At(N, t)) \in Nat /\ Cardinality(From(E, t)) \in Nat
             /\ Cardinality(To(E, t)) \in Nat
  BY <1>1, SomeToken
<1>4. Tokens(N \union {x}, Tables)
  BY FS_AddElement DEF Counts, Tokens
<1>5. /\ AddNode(g, x[2]) \in Graph
      /\ \A u \in Tables : AddNode(g, x[2]).nodes[u] = IF x[2] = u THEN g.nodes[u] + 1 ELSE g.nodes[u]
      /\ AddNode(g, x[2]).edges = g.edges /\ AddNode(g, x[2]).out = g.out
      /\ AddNode(g, x[2]).modal = g.modal /\ AddNode(g, x[2]).cycles = g.cycles
  BY <1>1, AddNodeIs
<1>6. \A t \in Tables : AddNode(g, x[2]).nodes[t] = Cardinality(At(N \union {x}, t))
          + Cardinality(From(E, t)) + Cardinality(To(E, t))
  BY <1>2, <1>3, <1>5 DEF Counts
<1> QED
  BY <1>4, <1>5, <1>6 DEF Counts

(* add_edge counts one edge more, and forgets the cached cycles.            *)
LEMMA AddEdgeCounts ==
    ASSUME NEW g, NEW N, NEW E, NEW M, Counts(g, N, E, M),
           NEW x, x \notin E, x[2] \in Labelled
    PROVE  Counts(AddEdge(g, x[2]), N, E \union {x}, M) /\ AddEdge(g, x[2]).cycles = "unknown"
<1>1. IsFiniteSet(N) /\ IsFiniteSet(E) /\ g \in Graph
  BY DEF Counts, Tokens
<1>2. /\ \A u : Cardinality(At(E \union {x}, u))
                  = IF x[2] = u THEN Cardinality(At(E, u)) + 1 ELSE Cardinality(At(E, u))
      /\ \A u : Cardinality(From(E \union {x}, u))
                  = IF x[2][1] = u THEN Cardinality(From(E, u)) + 1 ELSE Cardinality(From(E, u))
      /\ \A u : Cardinality(To(E \union {x}, u))
                  = IF x[2][2] = u THEN Cardinality(To(E, u)) + 1 ELSE Cardinality(To(E, u))
  BY <1>1, OneMoreAt, OneMoreFrom, OneMoreTo
<1>3. \A t : Cardinality(At(N, t)) \in Nat /\ Cardinality(From(E, t)) \in Nat
             /\ Cardinality(To(E, t)) \in Nat /\ Cardinality(At(E, t)) \in Nat
  BY <1>1, SomeToken
<1>4. Tokens(E \union {x}, Labelled)
  BY FS_AddElement DEF Counts, Tokens
<1>5. {y[2] : y \in E \union {x}} = {y[2] : y \in E} \union {x[2]}
  OBVIOUS
<1>6. /\ AddEdge(g, x[2]) \in Graph
      /\ \A t \in Tables : AddEdge(g, x[2]).nodes[t]
           = g.nodes[t] + (IF x[2][1] = t THEN 1 ELSE 0) + (IF x[2][2] = t THEN 1 ELSE 0)
      /\ \A d \in Labelled :
            AddEdge(g, x[2]).edges[d] = IF x[2] = d THEN g.edges[d] + 1 ELSE g.edges[d]
      /\ AddEdge(g, x[2]).out = g.out \union {x[2]}
      /\ AddEdge(g, x[2]).modal = g.modal /\ AddEdge(g, x[2]).cycles = "unknown"
  BY <1>1, AddEdgeIs
<1>7. ASSUME NEW t \in Tables
      PROVE  AddEdge(g, x[2]).nodes[t] = Cardinality(At(N, t))
          + Cardinality(From(E \union {x}, t)) + Cardinality(To(E \union {x}, t))
  <2>1. g.nodes[t] = Cardinality(At(N, t)) + Cardinality(From(E, t)) + Cardinality(To(E, t))
    BY DEF Counts
  <2>2. AddEdge(g, x[2]).nodes[t]
           = g.nodes[t] + (IF x[2][1] = t THEN 1 ELSE 0) + (IF x[2][2] = t THEN 1 ELSE 0)
    BY <1>6
  <2>3. /\ Cardinality(At(N, t)) \in Nat /\ Cardinality(From(E, t)) \in Nat
        /\ Cardinality(To(E, t)) \in Nat
    BY <1>3
  <2>4. /\ Cardinality(From(E \union {x}, t))
             = IF x[2][1] = t THEN Cardinality(From(E, t)) + 1 ELSE Cardinality(From(E, t))
        /\ Cardinality(To(E \union {x}, t))
             = IF x[2][2] = t THEN Cardinality(To(E, t)) + 1 ELSE Cardinality(To(E, t))
    BY <1>2
  <2> QED BY ONLY <2>1, <2>2, <2>3, <2>4
<1>8. ASSUME NEW d \in Labelled
      PROVE  AddEdge(g, x[2]).edges[d] = Cardinality(At(E \union {x}, d))
  <2>1. g.edges[d] = Cardinality(At(E, d))
    BY DEF Counts
  <2>2. AddEdge(g, x[2]).edges[d] = IF x[2] = d THEN g.edges[d] + 1 ELSE g.edges[d]
    BY <1>6
  <2>3. Cardinality(At(E \union {x}, d))
             = IF x[2] = d THEN Cardinality(At(E, d)) + 1 ELSE Cardinality(At(E, d))
    BY <1>2
  <2> QED BY ONLY <2>1, <2>2, <2>3
<1> QED
  BY <1>4, <1>5, <1>6, <1>7, <1>8 DEF Counts

(* BagGraph.delete_node, field by field.                                    *)
LEMMA DeleteNodeIs ==
    ASSUME NEW g \in Graph, NEW t \in Tables, g.nodes[t] > 0
    PROVE  /\ DeleteNode(g, t) \in Graph
           /\ \A u \in Tables : DeleteNode(g, t).nodes[u] = IF t = u THEN g.nodes[u] - 1 ELSE g.nodes[u]
           /\ DeleteNode(g, t).edges = g.edges
           /\ DeleteNode(g, t).out = IF g.nodes[t] = 1 THEN {e \in g.out : e[1] # t} ELSE g.out
           /\ DeleteNode(g, t).modal = g.modal /\ DeleteNode(g, t).cycles = g.cycles
<1>1. g.nodes[t] \in Nat /\ g.nodes[t] # 0
  BY DEF Graph
<1>2. CASE g.nodes[t] = 1
  <2>1. DeleteNode(g, t) = [g EXCEPT !.nodes[t] = 0, !.out = {e \in @ : e[1] # t}]
    BY <1>1, <1>2 DEF DeleteNode
  <2> DEFINE f == DeleteNode(g, t)
  <2>2. /\ f.nodes = [g.nodes EXCEPT ![t] = 0] /\ f.out = {e \in g.out : e[1] # t}
        /\ f.edges = g.edges /\ f.modal = g.modal /\ f.cycles = g.cycles
        /\ f = [nodes |-> f.nodes, edges |-> f.edges, out |-> f.out, modal |-> f.modal, cycles |-> f.cycles]
    BY <2>1 DEF Graph
  <2> HIDE DEF f
  <2>3. f.nodes \in [Tables -> Nat]
        /\ \A u \in Tables : f.nodes[u] = IF t = u THEN g.nodes[u] - 1 ELSE g.nodes[u]
    BY <1>2, <2>2 DEF Graph
  <2>4. f.out \in SUBSET Labelled
    BY <2>2 DEF Graph
  <2>5. f \in Graph
    BY <2>2, <2>3, <2>4 DEF Graph
  <2> QED BY <1>2, <2>2, <2>3, <2>5 DEF f
<1>3. CASE g.nodes[t] # 1
  <2>1. DeleteNode(g, t) = [g EXCEPT !.nodes[t] = @ - 1]
    BY <1>1, <1>3 DEF DeleteNode
  <2>2. g.nodes[t] - 1 \in Nat
    BY <1>1
  <2> QED BY <1>1, <1>3, <2>1, <2>2 DEF Graph
<1> QED
  BY <1>2, <1>3

(* delete_node counts one node less; no edge that is counted goes with it.  *)
LEMMA DeleteNodeCounts ==
    ASSUME NEW g, NEW N, NEW E, NEW M, Counts(g, N, E, M), NEW x \in N
    PROVE  Counts(DeleteNode(g, x[2]), N \ {x}, E, M) /\ DeleteNode(g, x[2]).cycles = g.cycles
<1>1. IsFiniteSet(N) /\ IsFiniteSet(E) /\ g \in Graph /\ x[2] \in Tables
  BY DEF Counts, Tokens
<1>2. \A t : Cardinality(At(N, t))
            = IF x[2] = t THEN Cardinality(At(N \ {x}, t)) + 1 ELSE Cardinality(At(N \ {x}, t))
  BY <1>1, OneLessAt
<1>3. Tokens(N \ {x}, Tables)
  BY FS_RemoveElement DEF Counts, Tokens
<1>4. \A t : Cardinality(At(N \ {x}, t)) \in Nat /\ Cardinality(From(E, t)) \in Nat
             /\ Cardinality(To(E, t)) \in Nat
  BY <1>1, <1>3, SomeToken DEF Tokens
<1>5. \A t \in Tables : g.nodes[t] = Cardinality(At(N, t)) + Cardinality(From(E, t))
                                       + Cardinality(To(E, t))
  BY DEF Counts
<1>6. g.nodes[x[2]] = Cardinality(At(N \ {x}, x[2])) + 1 + Cardinality(From(E, x[2]))
                        + Cardinality(To(E, x[2]))
  BY <1>1, <1>2, <1>4, <1>5
<1>7. g.nodes[x[2]] > 0 /\ (g.nodes[x[2]] = 1 => Cardinality(From(E, x[2])) = 0)
  BY <1>4, <1>6
<1>8. /\ DeleteNode(g, x[2]) \in Graph
      /\ \A u \in Tables :
            DeleteNode(g, x[2]).nodes[u] = IF x[2] = u THEN g.nodes[u] - 1 ELSE g.nodes[u]
      /\ DeleteNode(g, x[2]).edges = g.edges
      /\ DeleteNode(g, x[2]).out = IF g.nodes[x[2]] = 1 THEN {e \in g.out : e[1] # x[2]} ELSE g.out
      /\ DeleteNode(g, x[2]).modal = g.modal /\ DeleteNode(g, x[2]).cycles = g.cycles
  BY <1>1, <1>7, DeleteNodeIs
<1>9. DeleteNode(g, x[2]).out = g.out
  <2>1. CASE g.nodes[x[2]] = 1
    <3>1. ~(Cardinality(From(E, x[2])) > 0)
      BY <1>4, <1>7, <2>1
    <3>2. ~\E y \in E : y[2][1] = x[2]
      BY <1>1, <3>1, SomeToken
    <3>3. g.out = {y[2] : y \in E}
      BY DEF Counts
    <3> QED BY <1>8, <2>1, <3>2, <3>3
  <2> QED BY <1>8, <2>1
<1>10. ASSUME NEW u \in Tables
       PROVE  DeleteNode(g, x[2]).nodes[u] = Cardinality(At(N \ {x}, u)) + Cardinality(From(E, u))
                                               + Cardinality(To(E, u))
  <2>1. g.nodes[u] = Cardinality(At(N, u)) + Cardinality(From(E, u)) + Cardinality(To(E, u))
    BY <1>5
  <2>2. DeleteNode(g, x[2]).nodes[u] = IF x[2] = u THEN g.nodes[u] - 1 ELSE g.nodes[u]
    BY <1>8
  <2>3. Cardinality(At(N, u))
          = IF x[2] = u THEN Cardinality(At(N \ {x}, u)) + 1 ELSE Cardinality(At(N \ {x}, u))
    BY <1>2
  <2>4. Cardinality(At(N \ {x}, u)) \in Nat /\ Cardinality(From(E, u)) \in Nat
        /\ Cardinality(To(E, u)) \in Nat
    BY <1>4
  <2> QED BY ONLY <2>1, <2>2, <2>3, <2>4
<1> QED
  BY <1>3, <1>8, <1>9, <1>10 DEF Counts

(* delete_edge counts one edge less: the nodes it deletes first do not take *)
(* along an edge that is still counted.                                     *)
LEMMA DeleteEdgeCounts ==
    ASSUME NEW g, NEW N, NEW E, NEW M, Counts(g, N, E, M), NEW x \in E
    PROVE  /\ Counts(DeleteEdge(g, x[2]), N, E \ {x}, M)
           /\ DeleteEdge(g, x[2]).cycles \in {"unknown", g.cycles}
           /\ DeleteEdge(g, x[2]).out \subseteq g.out
<1> DEFINE e == x[2]
           a == x[2][1]
           b == x[2][2]
           F == E \ {x}
           h1 == DeleteNode(g, a)
           h == DeleteNode(h1, b)
           d == DeleteEdge(g, e)
<1>1. /\ IsFiniteSet(N) /\ IsFiniteSet(E) /\ g \in Graph /\ e \in Labelled
      /\ a \in Tables /\ b \in Tables /\ e = x[2] /\ e[1] = a /\ e[2] = b
  BY DEF Counts, Tokens, Labelled
<1>2. Tokens(F, Labelled) /\ IsFiniteSet(F)
  BY FS_RemoveElement DEF Counts, Tokens
<1>3. /\ \A u : Cardinality(At(E, u))
                  = IF e = u THEN Cardinality(At(F, u)) + 1 ELSE Cardinality(At(F, u))
      /\ \A u : Cardinality(From(E, u))
                  = IF a = u THEN Cardinality(From(F, u)) + 1 ELSE Cardinality(From(F, u))
      /\ \A u : Cardinality(To(E, u))
                  = IF b = u THEN Cardinality(To(F, u)) + 1 ELSE Cardinality(To(F, u))
  BY <1>1, OneLessAt, OneLessFrom, OneLessTo
<1>4. \A u : /\ Cardinality(At(N, u)) \in Nat /\ Cardinality(At(F, u)) \in Nat
             /\ Cardinality(From(F, u)) \in Nat /\ Cardinality(To(F, u)) \in Nat
  BY <1>1, <1>2, SomeToken
<1>5. /\ \A t \in Tables : g.nodes[t] = Cardinality(At(N, t)) + Cardinality(From(E, t))
                                       + Cardinality(To(E, t))
      /\ \A c \in Labelled : g.edges[c] = Cardinality(At(E, c))
      /\ g.out = {y[2] : y \in E}
  BY DEF Counts
(* The tokens left for an edge from a, and for e.                           *)
<1>6. /\ g.edges[e] = Cardinality(At(F, e)) + 1
      /\ \A c \in {y[2] : y \in F} : c[1] = a => Cardinality(From(F, a)) > 0
      /\ Cardinality(At(F, e)) > 0 <=> e \in {y[2] : y \in F}
  <2>1. g.edges[e] = Cardinality(At(F, e)) + 1
    BY <1>1, <1>3, <1>5
  <2>2. \A c \in {y[2] : y \in F} : c[1] = a => Cardinality(From(F, a)) > 0
    BY <1>2, SomeToken
  <2>3. Cardinality(At(F, e)) > 0 <=> \E y \in F : y[2] = e
    BY <1>2, SomeToken
  <2> QED BY <2>1, <2>2, <2>3
<1>7. g.out = {y[2] : y \in F} \union {e}
  BY <1>5
<1> HIDE DEF F, a, b, e
<1>8. /\ g.nodes[a] = Cardinality(At(N, a)) + Cardinality(From(E, a)) + Cardinality(To(E, a))
      /\ g.nodes[b] = Cardinality(At(N, b)) + Cardinality(From(E, b)) + Cardinality(To(E, b))
      /\ Cardinality(From(E, a)) = Cardinality(From(F, a)) + 1
      /\ Cardinality(To(E, b)) = Cardinality(To(F, b)) + 1
      /\ a # b => /\ Cardinality(To(E, a)) = Cardinality(To(F, a))
                  /\ Cardinality(From(E, b)) = Cardinality(From(F, b))
  BY <1>1, <1>3, <1>5
<1>9. /\ Cardinality(At(N, a)) \in Nat /\ Cardinality(From(F, a)) \in Nat /\ Cardinality(To(F, a)) \in Nat
      /\ Cardinality(At(N, b)) \in Nat /\ Cardinality(From(F, b)) \in Nat /\ Cardinality(To(F, b)) \in Nat
      /\ Cardinality(To(E, a)) \in Nat
  BY <1>1, <1>4, SomeToken
<1>10. g.nodes[a] > 0
  BY <1>8, <1>9
<1>11. /\ h1 \in Graph
       /\ \A u \in Tables : h1.nodes[u] = IF a = u THEN g.nodes[u] - 1 ELSE g.nodes[u]
       /\ h1.edges = g.edges /\ h1.modal = g.modal /\ h1.cycles = g.cycles
       /\ h1.out = IF g.nodes[a] = 1 THEN {c \in g.out : c[1] # a} ELSE g.out
  BY <1>1, <1>10, DeleteNodeIs
<1>12. h1.nodes[b] > 0
  <2>1. h1.nodes[b] = IF a = b THEN g.nodes[b] - 1 ELSE g.nodes[b]
    BY <1>1, <1>11
  <2> HIDE DEF h1
  <2>2. CASE a = b
    BY ONLY <1>8, <1>9, <2>1, <2>2
  <2>3. CASE a # b
    BY ONLY <1>8, <1>9, <2>1, <2>3
  <2> QED BY <2>2, <2>3
<1>13. /\ h \in Graph
       /\ \A u \in Tables : h.nodes[u] = IF b = u THEN h1.nodes[u] - 1 ELSE h1.nodes[u]
       /\ h.edges = g.edges /\ h.modal = g.modal /\ h.cycles = g.cycles
       /\ h.out = IF h1.nodes[b] = 1 THEN {c \in h1.out : c[1] # b} ELSE h1.out
  <2>1. h1 \in Graph /\ b \in Tables /\ h1.nodes[b] > 0
    BY <1>1, <1>11, <1>12
  <2>2. h1.edges = g.edges /\ h1.modal = g.modal /\ h1.cycles = g.cycles
    BY <1>11
  <2> HIDE DEF h1
  <2>3. /\ h \in Graph
        /\ \A u \in Tables : h.nodes[u] = IF b = u THEN h1.nodes[u] - 1 ELSE h1.nodes[u]
        /\ h.edges = h1.edges
        /\ h.out = IF h1.nodes[b] = 1 THEN {c \in h1.out : c[1] # b} ELSE h1.out
        /\ h.modal = h1.modal /\ h.cycles = h1.cycles
    BY ONLY <2>1, DeleteNodeIs
  <2> HIDE DEF h
  <2> QED BY ONLY <2>2, <2>3
(* Only e itself can go with a node.                                        *)
<1>14. h.out \subseteq g.out /\ h.out \union {e} = g.out /\ (Cardinality(At(F, e)) > 0 => e \in h.out)
  <2>1. g.nodes[a] = 1 => Cardinality(From(F, a)) = 0
    BY ONLY <1>8, <1>9
  <2>2. h1.nodes[b] = IF a = b THEN g.nodes[b] - 1 ELSE g.nodes[b]
    BY <1>1, <1>11
  <2>3. Cardinality(At(F, e)) \in Nat
    BY <1>4
  <2> HIDE DEF h1, h
  <2>4. Cardinality(From(F, a)) = 0 => \A c \in g.out : c[1] = a => c = e /\ ~(Cardinality(At(F, e)) > 0)
    <3> SUFFICES ASSUME Cardinality(From(F, a)) = 0
                 PROVE  \A c \in g.out : c[1] = a => c = e /\ ~(Cardinality(At(F, e)) > 0)
      OBVIOUS
    <3>1. \A c \in {y[2] : y \in F} : c[1] # a
      BY <1>6
    <3>2. ~(Cardinality(At(F, e)) > 0)
      BY <1>1, <1>6, <3>1
    <3> QED BY ONLY <1>7, <3>1, <3>2
  <2>5. h1.nodes[b] = 1 => \A c \in h1.out : c[1] = b => c = e /\ ~(Cardinality(At(F, e)) > 0)
    <3> SUFFICES ASSUME h1.nodes[b] = 1
                 PROVE  \A c \in h1.out : c[1] = b => c = e /\ ~(Cardinality(At(F, e)) > 0)
      OBVIOUS
    <3>0. h1.out \subseteq g.out
      BY <1>11
    <3>1. CASE a = b
      <4>1. Cardinality(From(F, a)) = 0
        BY ONLY h1.nodes[b] = 1, <1>8, <1>9, <2>2, <3>1
      <4> QED BY <2>4, <3>0, <3>1, <4>1
    <3>2. CASE a # b
      <4>1. Cardinality(From(E, b)) = 0
        BY ONLY h1.nodes[b] = 1, <1>8, <1>9, <2>2, <3>2
      <4>2. ~\E y \in E : y[2][1] = b
        BY <1>1, <4>1, SomeToken
      <4> QED BY <1>5, <3>0, <4>2
    <3> QED BY <3>1, <3>2
  <2>6. e \in g.out
    BY <1>7
  <2>7. g.nodes[a] = 1 => \A c \in g.out : c[1] = a => c = e /\ ~(Cardinality(At(F, e)) > 0)
    BY <2>1, <2>4
  <2>8. /\ h1.out = IF g.nodes[a] = 1 THEN {c \in g.out : c[1] # a} ELSE g.out
        /\ h.out = IF h1.nodes[b] = 1 THEN {c \in h1.out : c[1] # b} ELSE h1.out
    BY <1>11, <1>13
  <2> QED BY ONLY <2>5, <2>6, <2>7, <2>8
<1>15. \A t \in Tables : h.nodes[t] = Cardinality(At(N, t)) + Cardinality(From(F, t))
                                        + Cardinality(To(F, t))
  <2> SUFFICES ASSUME NEW t \in Tables
               PROVE  h.nodes[t] = Cardinality(At(N, t)) + Cardinality(From(F, t))
                                        + Cardinality(To(F, t))
    OBVIOUS
  <2>1. g.nodes[t] = Cardinality(At(N, t)) + Cardinality(From(E, t)) + Cardinality(To(E, t))
    BY <1>5
  <2>2. /\ Cardinality(From(E, t))
             = IF a = t THEN Cardinality(From(F, t)) + 1 ELSE Cardinality(From(F, t))
        /\ Cardinality(To(E, t))
             = IF b = t THEN Cardinality(To(F, t)) + 1 ELSE Cardinality(To(F, t))
    BY <1>3
  <2>3. h1.nodes[t] = IF a = t THEN g.nodes[t] - 1 ELSE g.nodes[t]
    BY <1>11
  <2>4. h.nodes[t] = IF b = t THEN h1.nodes[t] - 1 ELSE h1.nodes[t]
    BY <1>13
  <2>5. /\ Cardinality(At(N, t)) \in Nat /\ Cardinality(From(F, t)) \in Nat
        /\ Cardinality(To(F, t)) \in Nat
    BY <1>4
  <2> HIDE DEF h, h1, a, b, F
  <2> QED BY ONLY <2>1, <2>2, <2>3, <2>4, <2>5
<1>16. d = IF g.edges[e] > 1 THEN [h EXCEPT !.edges[e] = @ - 1]
           ELSE [h EXCEPT !.edges[e] = 0, !.out = @ \ {e}, !.cycles = IF e \in h.out THEN "unknown" ELSE @]
  <2>1. g.edges[e] # 0
    BY <1>4, <1>6
  <2> QED BY <2>1 DEF DeleteEdge, a, b, e
<1>17. /\ d \in Graph
       /\ \A c \in Labelled : d.edges[c] = IF e = c THEN g.edges[c] - 1 ELSE g.edges[c]
       /\ d.nodes = h.nodes /\ d.modal = g.modal
       /\ d.cycles \in {"unknown", g.cycles}
       /\ d.out = IF g.edges[e] > 1 THEN h.out ELSE h.out \ {e}
  <2>1. g.edges[e] \in Nat /\ g.edges[e] - 1 \in Nat /\ h.edges = g.edges
    BY <1>4, <1>6, <1>13
  <2> HIDE DEF h, d, e
  <2>2. CASE g.edges[e] > 1
    BY <1>1, <1>13, <1>16, <2>1, <2>2 DEF Graph
  <2>3. CASE ~(g.edges[e] > 1)
    <3>1. g.edges[e] - 1 = 0
      BY <1>4, <1>6, <2>3
    <3> QED BY <1>1, <1>13, <1>16, <2>1, <2>3, <3>1 DEF Graph
  <2> QED BY <2>2, <2>3
<1>18. d.out = {y[2] : y \in F}
  <2>1. CASE g.edges[e] > 1
    <3>1. Cardinality(At(F, e)) > 0
      BY <1>4, <1>6, <2>1
    <3>2. e \in {y[2] : y \in F}
      BY <1>6, <3>1
    <3> HIDE DEF h, d, e, F
    <3> QED BY <1>7, <1>14, <1>17, <2>1, <3>1, <3>2
  <2>2. CASE ~(g.edges[e] > 1)
    <3>1. ~(Cardinality(At(F, e)) > 0)
      BY <1>4, <1>6, <2>2
    <3>2. e \notin {y[2] : y \in F}
      BY <1>6, <3>1
    <3> HIDE DEF h, d, e, F
    <3> QED BY <1>7, <1>14, <1>17, <2>2, <3>2
  <2> QED BY <2>1, <2>2
<1>19. \A c \in Labelled : d.edges[c] = Cardinality(At(F, c))
  <2> SUFFICES ASSUME NEW c \in Labelled PROVE d.edges[c] = Cardinality(At(F, c))
    OBVIOUS
  <2>1. /\ d.edges[c] = IF e = c THEN g.edges[c] - 1 ELSE g.edges[c]
        /\ g.edges[c] = Cardinality(At(E, c))
    BY <1>5, <1>17
  <2>2. Cardinality(At(E, c)) = IF e = c THEN Cardinality(At(F, c)) + 1 ELSE Cardinality(At(F, c))
    BY <1>3
  <2>3. Cardinality(At(F, c)) \in Nat
    BY <1>4
  <2> HIDE DEF d, e, F
  <2> QED BY ONLY <2>1, <2>2, <2>3
<1>20. Tokens(N, Tables) /\ Tokens(M, Tables) /\ \A t \in Tables : g.modal[t] = Cardinality(At(M, t))
  BY DEF Counts
<1> HIDE DEF d, h, h1, F, a, b
<1>21. Counts(d, N, F, M)
  BY <1>2, <1>15, <1>17, <1>18, <1>19, <1>20 DEF Counts
<1>22. d.out \subseteq g.out
  BY <1>7, <1>18
<1> QED
  BY <1>17, <1>21, <1>22 DEF d, F, e

-----------------------------------------------------------------------------
(* Functions defined by recursion on an interval, and induction on one.     *)
LEMMA IntervalInduction ==
    ASSUME NEW n \in Nat, NEW Q, 0 \in Q, \A k \in 1 .. n : k - 1 \in Q => k \in Q
    PROVE  \A k \in 0 .. n : k \in Q
<1> DEFINE P == {T \in SUBSET (1 .. n) : \A k \in 0 .. n : T = 1 .. k => k \in Q}
<1>1. \A T \in SUBSET (1 .. n) : (\A x \in T : T \ {x} \in P) => T \in P
  <2> SUFFICES ASSUME NEW T \in SUBSET (1 .. n), \A x \in T : T \ {x} \in P,
                      NEW k \in 0 .. n, T = 1 .. k
               PROVE  k \in Q
    OBVIOUS
  <2>1. CASE k = 0
    BY <2>1
  <2>2. CASE k # 0
    <3>1. k \in 1 .. n /\ k \in T /\ k - 1 \in 0 .. n /\ T \ {k} = 1 .. (k - 1)
      BY <2>2
    <3> QED BY <3>1
  <2> QED BY <2>1, <2>2
<1>2. P = SUBSET (1 .. n)
  <2>1. P \in SUBSET SUBSET (1 .. n) /\ IsFiniteSet(1 .. n)
    BY FS_Interval
  <2> HIDE DEF P
  <2> QED BY ONLY <1>1, <2>1, SubsetInduction
<1> SUFFICES ASSUME NEW k \in 0 .. n PROVE k \in Q
  OBVIOUS
<1>3. (1 .. k) \in SUBSET (1 .. n)
  OBVIOUS
<1> QED BY <1>2, <1>3

(* f[k] is what k steps of F make of base.                                  *)
Iterates(f, n, base, F) == f[0] = base /\ \A k \in 1 .. n : f[k] = F[f[k - 1]]

(* A step F repeated n times is a function of the number of steps.          *)
LEMMA IntervalRecursion ==
    ASSUME NEW n \in Nat, NEW V, NEW base \in V, NEW F \in [V -> V]
    PROVE  \E f \in [0 .. n -> V] : Iterates(f, n, base, F)
<1> DEFINE G == [x \in (1 .. n) \X V |-> F[x[2]]]
           K == [k \in 0 .. n |-> V]
           c == [s \in SUBSET (1 .. n) |-> Max(s)]
<1>1. /\ G \in [(1 .. n) \X V -> V] /\ K \in [0 .. n -> SUBSET V] /\ base \in K[0]
      /\ \A k \in 1 .. n : \A v \in K[k - 1] : G[<<k, v>>] \in K[k]
  OBVIOUS
<1>2. c = [s \in SUBSET (1 .. n) |-> Max(s)]
  OBVIOUS
<1>3. PICK f \in [SUBSET (1 .. n) -> V] : Folds(f, 1 .. n, base, c, G)
  <2> HIDE DEF G, K, c
  <2> QED BY <1>1, <1>2, SeqFold
<1> DEFINE h == [k \in 0 .. n |-> f[1 .. k]]
<1>4. h \in [0 .. n -> V]
  OBVIOUS
<1>5. h[0] = base
  <2>1. (1 .. 0) = {} /\ {} \in SUBSET (1 .. n) /\ 0 \in 0 .. n
    OBVIOUS
  <2>2. f[{}] = base
    BY ONLY <1>3, <2>1 DEF Folds
  <2> QED BY <2>1, <2>2
<1>6. ASSUME NEW k \in 1 .. n PROVE h[k] = F[h[k - 1]]
  <2>1. (1 .. k) \in SUBSET (1 .. n) /\ (1 .. k) # {} /\ k - 1 \in 0 .. n
    OBVIOUS
  <2>2. c[1 .. k] = k
    BY <2>1, MaxOfInterval
  <2>3. (1 .. k) \ {k} = 1 .. (k - 1)
    OBVIOUS
  <2>4. f[1 .. k] = G[<<k, f[1 .. (k - 1)]>>]
    <3> HIDE DEF c, G
    <3> QED BY <1>3, <2>1, <2>2, <2>3 DEF Folds
  <2>5. f[1 .. (k - 1)] \in V
    OBVIOUS
  <2>6. G[<<k, f[1 .. (k - 1)]>>] = F[f[1 .. (k - 1)]]
    BY <2>5
  <2> QED BY <2>1, <2>4, <2>6
<1> HIDE DEF h
<1> QED BY <1>4, <1>5, <1>6 DEF Iterates

-----------------------------------------------------------------------------
(* What is reached.                                                         *)
Next1(out, known) == known \union {e[2] : e \in {d \in out : d[1] \in known}}

Steps(f, out, t) ==
    /\ f \in [0 .. Cardinality(Tables) -> SUBSET Tables]
    /\ f[0] = {t}
    /\ \A k \in 1 .. Cardinality(Tables) : f[k] = Next1(out, f[k - 1])

(* There are finitely many tables.                                          *)
LEMMA TablesCounted == Cardinality(Tables) \in Nat
  BY GraphAssumption, FS_CardinalityType

(* What is reached is found step by step.                                   *)
LEMMA ReachedSteps ==
    ASSUME NEW out \in SUBSET Labelled, NEW t \in Tables
    PROVE  \E f : Steps(f, out, t) /\ Reached(out, t) = f[Cardinality(Tables)]
<1> DEFINE n == Cardinality(Tables)
           V == SUBSET Tables
           F == [s \in V |-> Next1(out, s)]
           Is(f) == f = [k \in 0 .. n |-> IF k = 0 THEN {t}
                            ELSE LET known == f[k - 1]
                                 IN  known \union {e[2] : e \in {d \in out : d[1] \in known}}]
<1>1. n \in Nat
  BY TablesCounted
<1>2. F \in [V -> V]
  BY DEF Next1, Labelled
<1>3. {t} \in V
  OBVIOUS
<1>4. PICK f \in [0 .. n -> V] : Iterates(f, n, {t}, F)
  <2> DEFINE b == {t}
  <2>1. b \in V
    BY <1>3
  <2> HIDE DEF n, V, F, b
  <2>2. \E f \in [0 .. n -> V] : Iterates(f, n, b, F)
    BY ONLY <1>1, <1>2, <2>1, IntervalRecursion
  <2> QED BY <2>2 DEF b
<1>5. f[0] = {t} /\ \A k \in 1 .. n : f[k] = F[f[k - 1]]
  BY <1>4 DEF Iterates
<1>6. \A k \in 1 .. n : f[k] = Next1(out, f[k - 1])
  <2>1. \A k \in 1 .. n : k - 1 \in 0 .. n
    BY <1>1
  <2> QED BY <1>5, <2>1
<1>7. Is(f)
  <2>1. \A k \in 0 .. n : f[k] = IF k = 0 THEN {t} ELSE Next1(out, f[k - 1])
    <3>1. \A k \in 0 .. n : k # 0 => k \in 1 .. n
      BY <1>1
    <3> HIDE DEF n
    <3> QED BY <1>5, <1>6, <3>1
  <2> QED BY <2>1 DEF Next1
<1> DEFINE g == CHOOSE f1 : Is(f1)
<1>8. Is(g)
  <2> HIDE DEF Is
  <2> QED BY <1>7
<1>9. Reached(out, t) = g[n]
  BY DEF Reached
<1>10. \A k \in 0 .. n : g[k] = IF k = 0 THEN {t} ELSE Next1(out, g[k - 1])
  <2> HIDE DEF g
  <2> QED BY <1>8 DEF Next1
<1>11. \A k \in 0 .. n : g[k] = f[k]
  <2> DEFINE Q == {k \in 0 .. n : g[k] = f[k]}
  <2> HIDE DEF g, Is
  <2>1. 0 \in Q
    <3>1. 0 \in 0 .. n
      BY <1>1
    <3>2. g[0] = {t} /\ f[0] = {t}
      BY <1>5, <1>10, <3>1
    <3> QED BY <3>1, <3>2
  <2>2. \A k \in 1 .. n : k - 1 \in Q => k \in Q
    BY <1>1, <1>6, <1>10
  <2>3. \A k \in 0 .. n : k \in Q
    <3> HIDE DEF Q, n
    <3> QED BY <1>1, <2>1, <2>2, IntervalInduction
  <2> QED BY <2>3
<1>12. Steps(f, out, t)
  BY <1>5, <1>6 DEF Steps
<1>13. g[n] = f[n]
  BY <1>1, <1>11
<1> QED
  <2> HIDE DEF g
  <2> QED BY <1>9, <1>12, <1>13

(* A table reaches itself, and nothing but tables.                          *)
LEMMA ReachedIn ==
    ASSUME NEW out \in SUBSET Labelled, NEW t \in Tables
    PROVE  t \in Reached(out, t) /\ Reached(out, t) \subseteq Tables
<1>1. PICK f : Steps(f, out, t) /\ Reached(out, t) = f[Cardinality(Tables)]
  BY ReachedSteps
<1> DEFINE n == Cardinality(Tables)
           Q == {k \in 0 .. n : t \in f[k]}
<1>2. n \in Nat
  BY TablesCounted
<1>3. 0 \in Q /\ \A k \in 1 .. n : k - 1 \in Q => k \in Q
  BY <1>1, <1>2 DEF Steps, Next1
<1>4. \A k \in 0 .. n : k \in Q
  <2> HIDE DEF n, Q
  <2> QED BY <1>2, <1>3, IntervalInduction
<1> QED
  BY <1>1, <1>2, <1>4 DEF Steps

(* More edges reach no less.                                                *)
LEMMA ReachedMonotone ==
    ASSUME NEW out \in SUBSET Labelled, NEW more \in SUBSET Labelled, out \subseteq more, NEW t \in Tables
    PROVE  Reached(out, t) \subseteq Reached(more, t)
<1>1. PICK f : Steps(f, out, t) /\ Reached(out, t) = f[Cardinality(Tables)]
  BY ReachedSteps
<1>2. PICK g : Steps(g, more, t) /\ Reached(more, t) = g[Cardinality(Tables)]
  BY ReachedSteps
<1> DEFINE n == Cardinality(Tables)
           Q == {k \in 0 .. n : f[k] \subseteq g[k]}
<1>3. n \in Nat
  BY TablesCounted
<1>4. 0 \in Q
  BY <1>1, <1>2, <1>3 DEF Steps
<1>5. \A k \in 1 .. n : k - 1 \in Q => k \in Q
  BY <1>1, <1>2, <1>3 DEF Steps, Next1
<1>6. \A k \in 0 .. n : k \in Q
  <2> HIDE DEF n, Q
  <2> QED BY <1>3, <1>4, <1>5, IntervalInduction
<1> QED
  BY <1>1, <1>2, <1>3, <1>6

(* A path is never longer than there are tables.                            *)
LEMMA ReachedClosed ==
    ASSUME NEW out \in SUBSET Labelled, NEW t \in Tables,
           NEW e \in out, e[1] \in Reached(out, t)
    PROVE  e[2] \in Reached(out, t)
<1>1. PICK f : Steps(f, out, t) /\ Reached(out, t) = f[Cardinality(Tables)]
  BY ReachedSteps
<1> DEFINE n == Cardinality(Tables)
           Q == {k \in 0 .. n : Next1(out, f[k]) = f[k] \/ Cardinality(f[k]) > k}
<1>2. n \in Nat
  BY TablesCounted
<1>3. \A k \in 0 .. n : f[k] \subseteq Tables /\ IsFiniteSet(f[k]) /\ Cardinality(f[k]) \in Nat
                        /\ Cardinality(f[k]) <= n
  BY <1>1, GraphAssumption, FS_Subset, FS_CardinalityType DEF Steps
<1>4. 0 \in Q
  <2>1. f[0] = {t} /\ 0 \in 0 .. n
    BY <1>1, <1>2 DEF Steps
  <2>2. Cardinality({t}) = 1
    BY FS_Singleton
  <2> QED BY <2>1, <2>2
<1>5. ASSUME NEW k \in 1 .. n, k - 1 \in Q PROVE k \in Q
  <2>1. f[k] = Next1(out, f[k - 1]) /\ f[k - 1] \subseteq f[k] /\ k - 1 \in 0 .. n /\ k \in 0 .. n
    BY <1>1, <1>2 DEF Steps, Next1
  <2>2. CASE f[k] = f[k - 1]
    BY <2>1, <2>2
  <2>3. CASE f[k] # f[k - 1]
    <3>1. Cardinality(f[k - 1]) > k - 1
      BY <1>5, <2>1, <2>3
    <3>2. Cardinality(f[k - 1]) < Cardinality(f[k])
      BY <1>3, <2>1, <2>3, FS_Subset
    <3>3. Cardinality(f[k]) > k
      BY <1>3, <2>1, <3>1, <3>2
    <3> QED BY <2>1, <3>3
  <2> QED BY <2>2, <2>3
<1>6. \A k \in 0 .. n : k \in Q
  <2> HIDE DEF n, Q
  <2> QED BY <1>2, <1>4, <1>5, IntervalInduction
<1>7. n \in 0 .. n
  BY <1>2
<1>8. Next1(out, f[n]) = f[n]
  BY <1>3, <1>6, <1>7
<1> QED
  BY <1>1, <1>8 DEF Next1

(* A graph without cycles has none when it loses edges.                     *)
LEMMA AcyclicBelow ==
    ASSUME NEW out \in SUBSET Labelled, NEW more \in SUBSET Labelled, out \subseteq more, ~Cyclic(more)
    PROVE  ~Cyclic(out)
<1> SUFFICES ASSUME NEW e \in out, e[1] \in Reached(out, e[2]) PROVE FALSE
  BY DEF Cyclic
<1>1. e[2] \in Tables
  BY DEF Labelled
<1>2. e[1] \in Reached(more, e[2])
  BY <1>1, ReachedMonotone
<1> QED BY <1>2 DEF Cyclic

-----------------------------------------------------------------------------
(* What is cached as no cycle is no cycle.                                  *)
CacheSound(g) == g.cycles = "none" => ~Cyclic(g.out)

(* The steps of the folds, and how they choose.                             *)
Choice(S)         == [s \in SUBSET S |-> CHOOSE x \in s : TRUE]
AddNodeStep(S)    == [x \in S \X Graph |-> AddNode(x[2], x[1])]
AddEdgeStep(S)    == [x \in S \X Graph |-> AddEdge(x[2], x[1])]
DeleteNodeStep(S) == [x \in S \X Graph |-> DeleteNode(x[2], x[1])]
DeleteEdgeStep(S) == [x \in S \X Graph |-> DeleteEdge(x[2], x[1])]

(* Deleting what is not there leaves a graph a graph.                       *)
LEMMA DeleteNodeType ==
    ASSUME NEW g \in Graph, NEW t \in Tables
    PROVE  DeleteNode(g, t) \in Graph
<1>1. CASE g.nodes[t] = 0
  BY <1>1 DEF DeleteNode
<1>2. CASE g.nodes[t] # 0
  <2>1. g.nodes[t] > 0
    BY <1>2 DEF Graph
  <2> QED BY <2>1, DeleteNodeIs
<1> QED BY <1>1, <1>2

(* The same for edges.                                                      *)
LEMMA DeleteEdgeType ==
    ASSUME NEW g \in Graph, NEW e \in Labelled
    PROVE  DeleteEdge(g, e) \in Graph
<1> DEFINE h == DeleteNode(DeleteNode(g, e[1]), e[2])
           d == DeleteEdge(g, e)
<1>1. h \in Graph
  BY DeleteNodeType DEF Labelled
<1>2. d = IF g.edges[e] = 0 THEN g
          ELSE IF g.edges[e] > 1 THEN [h EXCEPT !.edges[e] = @ - 1]
          ELSE [h EXCEPT !.edges[e] = 0, !.out = @ \ {e}, !.cycles = IF e \in h.out THEN "unknown" ELSE @]
  BY DEF DeleteEdge
<1>3. h.edges = g.edges
  <2>1. \A f \in Graph, t \in Tables : DeleteNode(f, t).edges = f.edges
    BY DEF DeleteNode, Graph
  <2>2. e[1] \in Tables /\ e[2] \in Tables /\ DeleteNode(g, e[1]) \in Graph
    BY DeleteNodeType DEF Labelled
  <2> QED BY <2>1, <2>2
<1>4. g.edges[e] \in Nat
  BY DEF Graph
<1> HIDE DEF h, d
<1>5. ASSUME g.edges[e] = 0 PROVE d \in Graph
  BY <1>2, <1>5
<1>6. ASSUME g.edges[e] # 0 PROVE d \in Graph
  <2>1. /\ d.nodes = h.nodes /\ d.modal = h.modal
        /\ d.cycles \in {"unknown", h.cycles}
        /\ d.out = IF g.edges[e] > 1 THEN h.out ELSE h.out \ {e}
        /\ d.edges = [h.edges EXCEPT ![e] = IF g.edges[e] > 1 THEN h.edges[e] - 1 ELSE 0]
        /\ d = [nodes |-> d.nodes, edges |-> d.edges, out |-> d.out, modal |-> d.modal, cycles |-> d.cycles]
    <3>1. CASE g.edges[e] > 1
      <4>1. d = [h EXCEPT !.edges[e] = h.edges[e] - 1]
        BY <1>2, <1>4, <3>1
      <4> QED BY <1>1, <3>1, <4>1 DEF Graph
    <3>2. CASE ~(g.edges[e] > 1)
      <4>1. d = [h EXCEPT !.edges[e] = 0, !.out = @ \ {e},
                          !.cycles = IF e \in h.out THEN "unknown" ELSE @]
        BY <1>2, <1>6, <3>2
      <4> QED BY <1>1, <3>2, <4>1 DEF Graph
    <3> QED BY <3>1, <3>2
  <2>2. (IF g.edges[e] > 1 THEN h.edges[e] - 1 ELSE 0) \in Nat
    BY <1>3, <1>4
  <2>3. d.edges \in [Labelled -> Nat]
    BY <1>1, <2>1, <2>2 DEF Graph
  <2> QED BY <1>1, <2>1, <2>3 DEF Graph
<1>7. d \in Graph
  BY <1>5, <1>6
<1> QED BY <1>7 DEF d

(* The nodes of a rule are added one by one.                                *)
LEMMA AddNodesFold ==
    ASSUME NEW g \in Graph, NEW S \in SUBSET Tables, IsFiniteSet(S),
           NEW F, F = AddNodeStep(S), NEW c, c = Choice(S)
    PROVE  /\ Picks(c, S) /\ F \in [S \X Graph -> Graph]
           /\ \E f \in [SUBSET S -> Graph] : Folds(f, S, g, c, F) /\ AddNodes(g, S) = f[S]
<1> DEFINE Is(f) == f = [s \in SUBSET S |->
                           IF s = {} THEN g
                           ELSE AddNode(f[s \ {CHOOSE x \in s : TRUE}], CHOOSE x \in s : TRUE)]
<1>1. Picks(c, S) /\ (\A s \in SUBSET S : s # {} => c[s] \in s)
  BY DEF Picks, Choice
<1>2. F \in [S \X Graph -> Graph] /\ \A x \in S, h \in Graph : F[<<x, h>>] = AddNode(h, x)
  BY AddNodeIs DEF AddNodeStep
<1>c. \A s \in SUBSET S : c[s] = CHOOSE x \in s : TRUE
  BY DEF Choice
<1>3. PICK f \in [SUBSET S -> Graph] : Folds(f, S, g, c, F)
  BY <1>1, <1>2, FoldExists
<1>4. ASSUME NEW s \in SUBSET S
      PROVE  f[s] = IF s = {} THEN g
                    ELSE AddNode(f[s \ {CHOOSE x \in s : TRUE}], CHOOSE x \in s : TRUE)
  <2>1. s # {} => c[s] \in S /\ f[s \ {c[s]}] \in Graph
    BY <1>1
  <2>2. f[s] = IF s = {} THEN g ELSE F[<<c[s], f[s \ {c[s]}]>>]
    BY <1>3 DEF Folds
  <2>3. s # {} => F[<<c[s], f[s \ {c[s]}]>>] = AddNode(f[s \ {c[s]}], c[s])
    BY <1>2, <2>1
  <2> QED BY <1>c, <2>2, <2>3
<1>5. Is(f)
  BY <1>4
<1> DEFINE k == CHOOSE k : Is(k)
<1>6. Is(k)
  <2> HIDE DEF Is
  <2> QED BY <1>5
<1>7. AddNodes(g, S) = k[S]
  BY DEF AddNodes, FoldSet, MapThenFoldSet
<1> DEFINE Q == {s \in SUBSET S : k[s] = f[s]}
<1>8. \A T \in SUBSET S : (\A x \in T : T \ {x} \in Q) => T \in Q
  <2> HIDE DEF k
  <2>1. \A s \in SUBSET S : /\ k[s] = IF s = {} THEN g ELSE AddNode(k[s \ {c[s]}], c[s])
                            /\ f[s] = IF s = {} THEN g ELSE AddNode(f[s \ {c[s]}], c[s])
    BY <1>c, <1>4, <1>6
  <2> HIDE DEF Is
  <2> SUFFICES ASSUME NEW T \in SUBSET S, \A x \in T : T \ {x} \in Q PROVE k[T] = f[T]
    OBVIOUS
  <2>2. T # {} => c[T] \in T /\ k[T \ {c[T]}] = f[T \ {c[T]}]
    BY <1>1
  <2> QED BY ONLY T \in SUBSET S, <2>1, <2>2
<1>9. Q = SUBSET S
  <2>1. Q \in SUBSET SUBSET S
    OBVIOUS
  <2> HIDE DEF Q
  <2> QED BY ONLY IsFiniteSet(S), <1>8, <2>1, SubsetInduction
<1>10. k[S] = f[S]
  BY <1>9
<1> HIDE DEF k, Is, Q
<1> QED
  BY <1>1, <1>2, <1>3, <1>7, <1>10

(* Each counts once more.                                                   *)
LEMMA AddNodesCounts ==
    ASSUME NEW g, NEW N, NEW E, NEW M, Counts(g, N, E, M), CacheSound(g),
           NEW S \in SUBSET Tables, IsFiniteSet(S), NEW i, \A t \in S : <<i, t>> \notin N
    PROVE  Counts(AddNodes(g, S), N \union ({i} \X S), E, M) /\ CacheSound(AddNodes(g, S))
<1> DEFINE F == AddNodeStep(S)
           c == Choice(S)
           J == [s \in SUBSET S |-> {h \in Graph : Counts(h, N \union ({i} \X s), E, M) /\ CacheSound(h)}]
<1>0. F = AddNodeStep(S) /\ c = Choice(S)
  OBVIOUS
<1>1. (\A s \in SUBSET S : s # {} => c[s] \in s)
      /\ \A x \in S, h \in Graph : F[<<x, h>>] = AddNode(h, x)
  BY DEF Choice, AddNodeStep
<1>2. PICK f \in [SUBSET S -> Graph] : Folds(f, S, g, c, F) /\ AddNodes(g, S) = f[S]
  <2>1. g \in Graph
    BY DEF Counts
  <2> HIDE DEF F, c
  <2> QED BY ONLY S \in SUBSET Tables, IsFiniteSet(S), <1>0, <2>1, AddNodesFold
<1>3. g \in Graph /\ J \in [SUBSET S -> SUBSET Graph]
  BY DEF Counts
<1>4. g \in J[{}]
  <2>1. N \union ({i} \X {}) = N
    OBVIOUS
  <2> QED BY <1>3, <2>1
<1>5. ASSUME NEW s \in SUBSET S, s # {}, NEW h \in J[s \ {c[s]}]
      PROVE  F[<<c[s], h>>] \in J[s]
  <2>1. c[s] \in s /\ c[s] \in S /\ c[s] \in Tables /\ s \ {c[s]} \in SUBSET S
    BY <1>1, <1>5
  <2>2. Counts(h, N \union ({i} \X (s \ {c[s]})), E, M) /\ CacheSound(h) /\ h \in Graph
    BY <2>1
  <2> HIDE DEF c, J
  <2> DEFINE x == <<i, c[s]>>
  <2>3. <<i, c[s]>> \notin N \union ({i} \X (s \ {c[s]}))
    BY <2>1
  <2>4. (N \union ({i} \X (s \ {c[s]}))) \union {<<i, c[s]>>} = N \union ({i} \X s)
    BY <2>1
  <2> DEFINE B == N \union ({i} \X (s \ {c[s]}))
  <2>5. x[2] = c[s]
    OBVIOUS
  <2>a. x \notin B
    BY <2>3
  <2>b. Counts(h, B, E, M)
    BY <2>2
  <2>c. B \union {x} = N \union ({i} \X s)
    BY <2>4
  <2>d. x[2] \in Tables
    BY <2>1, <2>5
  <2> HIDE DEF x, B
  <2>e. Counts(AddNode(h, x[2]), B \union {x}, E, M)
    BY ONLY <2>a, <2>b, <2>d, AddNodeCounts
  <2>6. Counts(AddNode(h, c[s]), N \union ({i} \X s), E, M)
    BY ONLY <2>5, <2>c, <2>e
  <2>7. CacheSound(AddNode(h, c[s]))
    <3>1. AddNode(h, c[s]).out = h.out /\ AddNode(h, c[s]).cycles = h.cycles
      BY <2>1, <2>2, AddNodeIs
    <3> QED BY <2>2, <3>1 DEF CacheSound
  <2>8. AddNode(h, c[s]) \in Graph /\ F[<<c[s], h>>] = AddNode(h, c[s])
    BY <1>1, <2>1, <2>2, <2>6 DEF Counts
  <2> QED BY <2>6, <2>7, <2>8 DEF J
<1>6. Keeps(J, S, Graph, g, c, F)
  BY <1>3, <1>4, <1>5 DEF Keeps
<1>7. Picks(c, S) /\ F \in [S \X Graph -> Graph]
  <2> HIDE DEF F, c
  <2> QED BY ONLY S \in SUBSET Tables, IsFiniteSet(S), <1>0, <1>3, AddNodesFold
<1>11. FoldsIn(f, S, Graph, g, c, F)
  <2> HIDE DEF F, c
  <2> QED BY <1>2 DEF Folds, FoldsIn
<1>12. f[S] \in J[S]
  <2> HIDE DEF J, c, F
  <2> QED BY <1>3, <1>6, <1>7, <1>11, FoldKeeps
<1> QED
  BY <1>2, <1>12

(* The edges of a rule are added one by one.                                *)
LEMMA AddEdgesFold ==
    ASSUME NEW g \in Graph, NEW S \in SUBSET Labelled, IsFiniteSet(S),
           NEW F, F = AddEdgeStep(S), NEW c, c = Choice(S)
    PROVE  /\ Picks(c, S) /\ F \in [S \X Graph -> Graph]
           /\ \E f \in [SUBSET S -> Graph] : Folds(f, S, g, c, F) /\ AddEdges(g, S) = f[S]
<1> DEFINE Is(f) == f = [s \in SUBSET S |->
                           IF s = {} THEN g
                           ELSE AddEdge(f[s \ {CHOOSE x \in s : TRUE}], CHOOSE x \in s : TRUE)]
<1>1. Picks(c, S) /\ (\A s \in SUBSET S : s # {} => c[s] \in s)
  BY DEF Picks, Choice
<1>2. F \in [S \X Graph -> Graph] /\ \A x \in S, h \in Graph : F[<<x, h>>] = AddEdge(h, x)
  BY AddEdgeIs DEF AddEdgeStep
<1>c. \A s \in SUBSET S : c[s] = CHOOSE x \in s : TRUE
  BY DEF Choice
<1>3. PICK f \in [SUBSET S -> Graph] : Folds(f, S, g, c, F)
  BY <1>1, <1>2, FoldExists
<1>4. ASSUME NEW s \in SUBSET S
      PROVE  f[s] = IF s = {} THEN g
                    ELSE AddEdge(f[s \ {CHOOSE x \in s : TRUE}], CHOOSE x \in s : TRUE)
  <2>1. s # {} => c[s] \in S /\ f[s \ {c[s]}] \in Graph
    BY <1>1
  <2>2. f[s] = IF s = {} THEN g ELSE F[<<c[s], f[s \ {c[s]}]>>]
    BY <1>3 DEF Folds
  <2>3. s # {} => F[<<c[s], f[s \ {c[s]}]>>] = AddEdge(f[s \ {c[s]}], c[s])
    BY <1>2, <2>1
  <2> QED BY <1>c, <2>2, <2>3
<1>5. Is(f)
  BY <1>4
<1> DEFINE k == CHOOSE k : Is(k)
<1>6. Is(k)
  <2> HIDE DEF Is
  <2> QED BY <1>5
<1>7. AddEdges(g, S) = k[S]
  BY DEF AddEdges, FoldSet, MapThenFoldSet
<1> DEFINE Q == {s \in SUBSET S : k[s] = f[s]}
<1>8. \A T \in SUBSET S : (\A x \in T : T \ {x} \in Q) => T \in Q
  <2> HIDE DEF k
  <2>1. \A s \in SUBSET S : /\ k[s] = IF s = {} THEN g ELSE AddEdge(k[s \ {c[s]}], c[s])
                            /\ f[s] = IF s = {} THEN g ELSE AddEdge(f[s \ {c[s]}], c[s])
    BY <1>c, <1>4, <1>6
  <2> HIDE DEF Is
  <2> SUFFICES ASSUME NEW T \in SUBSET S, \A x \in T : T \ {x} \in Q PROVE k[T] = f[T]
    OBVIOUS
  <2>2. T # {} => c[T] \in T /\ k[T \ {c[T]}] = f[T \ {c[T]}]
    BY <1>1
  <2> QED BY ONLY T \in SUBSET S, <2>1, <2>2
<1>9. Q = SUBSET S
  <2>1. Q \in SUBSET SUBSET S
    OBVIOUS
  <2> HIDE DEF Q
  <2> QED BY ONLY IsFiniteSet(S), <1>8, <2>1, SubsetInduction
<1>10. k[S] = f[S]
  BY <1>9
<1> HIDE DEF k, Is, Q
<1> QED
  BY <1>1, <1>2, <1>3, <1>7, <1>10

(* Each counts once more.                                                   *)
LEMMA AddEdgesCounts ==
    ASSUME NEW g, NEW N, NEW E, NEW M, Counts(g, N, E, M), CacheSound(g),
           NEW S \in SUBSET Labelled, IsFiniteSet(S), NEW i, \A e \in S : <<i, e>> \notin E
    PROVE  Counts(AddEdges(g, S), N, E \union ({i} \X S), M) /\ CacheSound(AddEdges(g, S))
<1> DEFINE F == AddEdgeStep(S)
           c == Choice(S)
           J == [s \in SUBSET S |-> {h \in Graph : Counts(h, N, E \union ({i} \X s), M) /\ CacheSound(h)}]
<1>0. F = AddEdgeStep(S) /\ c = Choice(S)
  OBVIOUS
<1>1. (\A s \in SUBSET S : s # {} => c[s] \in s)
      /\ \A x \in S, h \in Graph : F[<<x, h>>] = AddEdge(h, x)
  BY DEF Choice, AddEdgeStep
<1>2. PICK f \in [SUBSET S -> Graph] : Folds(f, S, g, c, F) /\ AddEdges(g, S) = f[S]
  <2>1. g \in Graph
    BY DEF Counts
  <2> HIDE DEF F, c
  <2> QED BY ONLY S \in SUBSET Labelled, IsFiniteSet(S), <1>0, <2>1, AddEdgesFold
<1>3. g \in Graph /\ J \in [SUBSET S -> SUBSET Graph]
  BY DEF Counts
<1>4. g \in J[{}]
  <2>1. E \union ({i} \X {}) = E
    OBVIOUS
  <2> QED BY <1>3, <2>1
<1>5. ASSUME NEW s \in SUBSET S, s # {}, NEW h \in J[s \ {c[s]}]
      PROVE  F[<<c[s], h>>] \in J[s]
  <2>1. c[s] \in s /\ c[s] \in S /\ c[s] \in Labelled /\ s \ {c[s]} \in SUBSET S
    BY <1>1, <1>5
  <2>2. Counts(h, N, E \union ({i} \X (s \ {c[s]})), M) /\ CacheSound(h) /\ h \in Graph
    BY <2>1
  <2> HIDE DEF c, J
  <2> DEFINE x == <<i, c[s]>>
  <2>3. <<i, c[s]>> \notin E \union ({i} \X (s \ {c[s]}))
    BY <2>1
  <2>4. (E \union ({i} \X (s \ {c[s]}))) \union {<<i, c[s]>>} = E \union ({i} \X s)
    BY <2>1
  <2> DEFINE B == E \union ({i} \X (s \ {c[s]}))
  <2>5. x[2] = c[s]
    OBVIOUS
  <2>a. x \notin B
    BY <2>3
  <2>b. Counts(h, N, B, M)
    BY <2>2
  <2>c. B \union {x} = E \union ({i} \X s)
    BY <2>4
  <2>d. x[2] \in Labelled
    BY <2>1, <2>5
  <2> HIDE DEF x, B
  <2>e. Counts(AddEdge(h, x[2]), N, B \union {x}, M)
    BY ONLY <2>a, <2>b, <2>d, AddEdgeCounts
  <2>6. Counts(AddEdge(h, c[s]), N, E \union ({i} \X s), M)
    BY ONLY <2>5, <2>c, <2>e
  <2>7. CacheSound(AddEdge(h, c[s]))
    <3>1. AddEdge(h, c[s]).cycles = "unknown"
      BY <2>1, <2>2, AddEdgeIs
    <3> QED BY <3>1 DEF CacheSound
  <2>8. AddEdge(h, c[s]) \in Graph /\ F[<<c[s], h>>] = AddEdge(h, c[s])
    BY <1>1, <2>1, <2>2, <2>6 DEF Counts
  <2> QED BY <2>6, <2>7, <2>8 DEF J
<1>6. Keeps(J, S, Graph, g, c, F)
  BY <1>3, <1>4, <1>5 DEF Keeps
<1>7. Picks(c, S) /\ F \in [S \X Graph -> Graph]
  <2> HIDE DEF F, c
  <2> QED BY ONLY S \in SUBSET Labelled, IsFiniteSet(S), <1>0, <1>3, AddEdgesFold
<1>11. FoldsIn(f, S, Graph, g, c, F)
  <2> HIDE DEF F, c
  <2> QED BY <1>2 DEF Folds, FoldsIn
<1>12. f[S] \in J[S]
  <2> HIDE DEF J, c, F
  <2> QED BY <1>3, <1>6, <1>7, <1>11, FoldKeeps
<1> QED
  BY <1>2, <1>12

(* The nodes of a rule are deleted one by one.                              *)
LEMMA DeleteNodesFold ==
    ASSUME NEW g \in Graph, NEW S \in SUBSET Tables, IsFiniteSet(S),
           NEW F, F = DeleteNodeStep(S), NEW c, c = Choice(S)
    PROVE  /\ Picks(c, S) /\ F \in [S \X Graph -> Graph]
           /\ \E f \in [SUBSET S -> Graph] : Folds(f, S, g, c, F) /\ DeleteNodes(g, S) = f[S]
<1> DEFINE Is(f) == f = [s \in SUBSET S |->
                           IF s = {} THEN g
                           ELSE DeleteNode(f[s \ {CHOOSE x \in s : TRUE}], CHOOSE x \in s : TRUE)]
<1>1. Picks(c, S) /\ (\A s \in SUBSET S : s # {} => c[s] \in s)
  BY DEF Picks, Choice
<1>2. F \in [S \X Graph -> Graph] /\ \A x \in S, h \in Graph : F[<<x, h>>] = DeleteNode(h, x)
  BY DeleteNodeType DEF DeleteNodeStep
<1>c. \A s \in SUBSET S : c[s] = CHOOSE x \in s : TRUE
  BY DEF Choice
<1>3. PICK f \in [SUBSET S -> Graph] : Folds(f, S, g, c, F)
  BY <1>1, <1>2, FoldExists
<1>4. ASSUME NEW s \in SUBSET S
      PROVE  f[s] = IF s = {} THEN g
                    ELSE DeleteNode(f[s \ {CHOOSE x \in s : TRUE}], CHOOSE x \in s : TRUE)
  <2>1. s # {} => c[s] \in S /\ f[s \ {c[s]}] \in Graph
    BY <1>1
  <2>2. f[s] = IF s = {} THEN g ELSE F[<<c[s], f[s \ {c[s]}]>>]
    BY <1>3 DEF Folds
  <2>3. s # {} => F[<<c[s], f[s \ {c[s]}]>>] = DeleteNode(f[s \ {c[s]}], c[s])
    BY <1>2, <2>1
  <2> QED BY <1>c, <2>2, <2>3
<1>5. Is(f)
  BY <1>4
<1> DEFINE k == CHOOSE k : Is(k)
<1>6. Is(k)
  <2> HIDE DEF Is
  <2> QED BY <1>5
<1>7. DeleteNodes(g, S) = k[S]
  BY DEF DeleteNodes, FoldSet, MapThenFoldSet
<1> DEFINE Q == {s \in SUBSET S : k[s] = f[s]}
<1>8. \A T \in SUBSET S : (\A x \in T : T \ {x} \in Q) => T \in Q
  <2> HIDE DEF k
  <2>1. \A s \in SUBSET S : /\ k[s] = IF s = {} THEN g ELSE DeleteNode(k[s \ {c[s]}], c[s])
                            /\ f[s] = IF s = {} THEN g ELSE DeleteNode(f[s \ {c[s]}], c[s])
    BY <1>c, <1>4, <1>6
  <2> HIDE DEF Is
  <2> SUFFICES ASSUME NEW T \in SUBSET S, \A x \in T : T \ {x} \in Q PROVE k[T] = f[T]
    OBVIOUS
  <2>2. T # {} => c[T] \in T /\ k[T \ {c[T]}] = f[T \ {c[T]}]
    BY <1>1
  <2> QED BY ONLY T \in SUBSET S, <2>1, <2>2
<1>9. Q = SUBSET S
  <2>1. Q \in SUBSET SUBSET S
    OBVIOUS
  <2> HIDE DEF Q
  <2> QED BY ONLY IsFiniteSet(S), <1>8, <2>1, SubsetInduction
<1>10. k[S] = f[S]
  BY <1>9
<1> HIDE DEF k, Is, Q
<1> QED
  BY <1>1, <1>2, <1>3, <1>7, <1>10

(* Each counts once less.                                                   *)
LEMMA DeleteNodesCounts ==
    ASSUME NEW g, NEW N, NEW E, NEW M, Counts(g, N, E, M), CacheSound(g),
           NEW S \in SUBSET Tables, IsFiniteSet(S), NEW i, \A t \in S : <<i, t>> \in N
    PROVE  Counts(DeleteNodes(g, S), N \ ({i} \X S), E, M) /\ CacheSound(DeleteNodes(g, S))
<1> DEFINE F == DeleteNodeStep(S)
           c == Choice(S)
           J == [s \in SUBSET S |-> {h \in Graph : Counts(h, N \ ({i} \X s), E, M) /\ CacheSound(h)}]
<1>0. F = DeleteNodeStep(S) /\ c = Choice(S)
  OBVIOUS
<1>1. (\A s \in SUBSET S : s # {} => c[s] \in s)
      /\ \A x \in S, h \in Graph : F[<<x, h>>] = DeleteNode(h, x)
  BY DEF Choice, DeleteNodeStep
<1>2. PICK f \in [SUBSET S -> Graph] : Folds(f, S, g, c, F) /\ DeleteNodes(g, S) = f[S]
  <2>1. g \in Graph
    BY DEF Counts
  <2> HIDE DEF F, c
  <2> QED BY ONLY S \in SUBSET Tables, IsFiniteSet(S), <1>0, <2>1, DeleteNodesFold
<1>3. g \in Graph /\ J \in [SUBSET S -> SUBSET Graph]
  BY DEF Counts
<1>4. g \in J[{}]
  <2>1. N \ ({i} \X {}) = N
    OBVIOUS
  <2> QED BY <1>3, <2>1
<1>5. ASSUME NEW s \in SUBSET S, s # {}, NEW h \in J[s \ {c[s]}]
      PROVE  F[<<c[s], h>>] \in J[s]
  <2>1. c[s] \in s /\ c[s] \in S /\ c[s] \in Tables /\ s \ {c[s]} \in SUBSET S
    BY <1>1, <1>5
  <2>2. Counts(h, N \ ({i} \X (s \ {c[s]})), E, M) /\ CacheSound(h) /\ h \in Graph
    BY <2>1
  <2> HIDE DEF c, J
  <2> DEFINE x == <<i, c[s]>>
  <2>3. <<i, c[s]>> \in N \ ({i} \X (s \ {c[s]}))
    BY <2>1
  <2>4. (N \ ({i} \X (s \ {c[s]}))) \ {<<i, c[s]>>} = N \ ({i} \X s)
    BY <2>1
  <2> DEFINE B == N \ ({i} \X (s \ {c[s]}))
  <2>5. x[2] = c[s]
    OBVIOUS
  <2>a. x \in B
    BY <2>3
  <2>b. Counts(h, B, E, M)
    BY <2>2
  <2>c. B \ {x} = N \ ({i} \X s)
    BY <2>4
  <2>d. x[2] \in Tables
    BY <2>1, <2>5
  <2> HIDE DEF x, B
  <2>e. Counts(DeleteNode(h, x[2]), B \ {x}, E, M) /\ DeleteNode(h, x[2]).cycles \in {"unknown", h.cycles}
    BY ONLY <2>a, <2>b, <2>d, DeleteNodeCounts
  <2>6. Counts(DeleteNode(h, c[s]), N \ ({i} \X s), E, M) /\ DeleteNode(h, c[s]).cycles \in {"unknown", h.cycles}
    BY ONLY <2>5, <2>c, <2>e
  <2>7. CacheSound(DeleteNode(h, c[s]))
    <3>1. DeleteNode(h, c[s]).cycles \in {"unknown", h.cycles}
      BY <2>6
    <3>2. DeleteNode(h, c[s]).out = h.out
      BY <2>2, <2>6 DEF Counts
    <3> QED BY <2>2, <3>1, <3>2 DEF CacheSound
  <2>8. DeleteNode(h, c[s]) \in Graph /\ F[<<c[s], h>>] = DeleteNode(h, c[s])
    BY <1>1, <2>1, <2>2, <2>6 DEF Counts
  <2> QED BY <2>6, <2>7, <2>8 DEF J
<1>6. Keeps(J, S, Graph, g, c, F)
  BY <1>3, <1>4, <1>5 DEF Keeps
<1>7. Picks(c, S) /\ F \in [S \X Graph -> Graph]
  <2> HIDE DEF F, c
  <2> QED BY ONLY S \in SUBSET Tables, IsFiniteSet(S), <1>0, <1>3, DeleteNodesFold
<1>11. FoldsIn(f, S, Graph, g, c, F)
  <2> HIDE DEF F, c
  <2> QED BY <1>2 DEF Folds, FoldsIn
<1>12. f[S] \in J[S]
  <2> HIDE DEF J, c, F
  <2> QED BY <1>3, <1>6, <1>7, <1>11, FoldKeeps
<1> QED
  BY <1>2, <1>12

(* The edges of a rule are deleted one by one.                              *)
LEMMA DeleteEdgesFold ==
    ASSUME NEW g \in Graph, NEW S \in SUBSET Labelled, IsFiniteSet(S),
           NEW F, F = DeleteEdgeStep(S), NEW c, c = Choice(S)
    PROVE  /\ Picks(c, S) /\ F \in [S \X Graph -> Graph]
           /\ \E f \in [SUBSET S -> Graph] : Folds(f, S, g, c, F) /\ DeleteEdges(g, S) = f[S]
<1> DEFINE Is(f) == f = [s \in SUBSET S |->
                           IF s = {} THEN g
                           ELSE DeleteEdge(f[s \ {CHOOSE x \in s : TRUE}], CHOOSE x \in s : TRUE)]
<1>1. Picks(c, S) /\ (\A s \in SUBSET S : s # {} => c[s] \in s)
  BY DEF Picks, Choice
<1>2. F \in [S \X Graph -> Graph] /\ \A x \in S, h \in Graph : F[<<x, h>>] = DeleteEdge(h, x)
  BY DeleteEdgeType DEF DeleteEdgeStep
<1>c. \A s \in SUBSET S : c[s] = CHOOSE x \in s : TRUE
  BY DEF Choice
<1>3. PICK f \in [SUBSET S -> Graph] : Folds(f, S, g, c, F)
  BY <1>1, <1>2, FoldExists
<1>4. ASSUME NEW s \in SUBSET S
      PROVE  f[s] = IF s = {} THEN g
                    ELSE DeleteEdge(f[s \ {CHOOSE x \in s : TRUE}], CHOOSE x \in s : TRUE)
  <2>1. s # {} => c[s] \in S /\ f[s \ {c[s]}] \in Graph
    BY <1>1
  <2>2. f[s] = IF s = {} THEN g ELSE F[<<c[s], f[s \ {c[s]}]>>]
    BY <1>3 DEF Folds
  <2>3. s # {} => F[<<c[s], f[s \ {c[s]}]>>] = DeleteEdge(f[s \ {c[s]}], c[s])
    BY <1>2, <2>1
  <2> QED BY <1>c, <2>2, <2>3
<1>5. Is(f)
  BY <1>4
<1> DEFINE k == CHOOSE k : Is(k)
<1>6. Is(k)
  <2> HIDE DEF Is
  <2> QED BY <1>5
<1>7. DeleteEdges(g, S) = k[S]
  BY DEF DeleteEdges, FoldSet, MapThenFoldSet
<1> DEFINE Q == {s \in SUBSET S : k[s] = f[s]}
<1>8. \A T \in SUBSET S : (\A x \in T : T \ {x} \in Q) => T \in Q
  <2> HIDE DEF k
  <2>1. \A s \in SUBSET S : /\ k[s] = IF s = {} THEN g ELSE DeleteEdge(k[s \ {c[s]}], c[s])
                            /\ f[s] = IF s = {} THEN g ELSE DeleteEdge(f[s \ {c[s]}], c[s])
    BY <1>c, <1>4, <1>6
  <2> HIDE DEF Is
  <2> SUFFICES ASSUME NEW T \in SUBSET S, \A x \in T : T \ {x} \in Q PROVE k[T] = f[T]
    OBVIOUS
  <2>2. T # {} => c[T] \in T /\ k[T \ {c[T]}] = f[T \ {c[T]}]
    BY <1>1
  <2> QED BY ONLY T \in SUBSET S, <2>1, <2>2
<1>9. Q = SUBSET S
  <2>1. Q \in SUBSET SUBSET S
    OBVIOUS
  <2> HIDE DEF Q
  <2> QED BY ONLY IsFiniteSet(S), <1>8, <2>1, SubsetInduction
<1>10. k[S] = f[S]
  BY <1>9
<1> HIDE DEF k, Is, Q
<1> QED
  BY <1>1, <1>2, <1>3, <1>7, <1>10

(* Each counts once less.                                                   *)
LEMMA DeleteEdgesCounts ==
    ASSUME NEW g, NEW N, NEW E, NEW M, Counts(g, N, E, M), CacheSound(g),
           NEW S \in SUBSET Labelled, IsFiniteSet(S), NEW i, \A e \in S : <<i, e>> \in E
    PROVE  Counts(DeleteEdges(g, S), N, E \ ({i} \X S), M) /\ CacheSound(DeleteEdges(g, S))
<1> DEFINE F == DeleteEdgeStep(S)
           c == Choice(S)
           J == [s \in SUBSET S |-> {h \in Graph : Counts(h, N, E \ ({i} \X s), M) /\ CacheSound(h)}]
<1>0. F = DeleteEdgeStep(S) /\ c = Choice(S)
  OBVIOUS
<1>1. (\A s \in SUBSET S : s # {} => c[s] \in s)
      /\ \A x \in S, h \in Graph : F[<<x, h>>] = DeleteEdge(h, x)
  BY DEF Choice, DeleteEdgeStep
<1>2. PICK f \in [SUBSET S -> Graph] : Folds(f, S, g, c, F) /\ DeleteEdges(g, S) = f[S]
  <2>1. g \in Graph
    BY DEF Counts
  <2> HIDE DEF F, c
  <2> QED BY ONLY S \in SUBSET Labelled, IsFiniteSet(S), <1>0, <2>1, DeleteEdgesFold
<1>3. g \in Graph /\ J \in [SUBSET S -> SUBSET Graph]
  BY DEF Counts
<1>4. g \in J[{}]
  <2>1. E \ ({i} \X {}) = E
    OBVIOUS
  <2> QED BY <1>3, <2>1
<1>5. ASSUME NEW s \in SUBSET S, s # {}, NEW h \in J[s \ {c[s]}]
      PROVE  F[<<c[s], h>>] \in J[s]
  <2>1. c[s] \in s /\ c[s] \in S /\ c[s] \in Labelled /\ s \ {c[s]} \in SUBSET S
    BY <1>1, <1>5
  <2>2. Counts(h, N, E \ ({i} \X (s \ {c[s]})), M) /\ CacheSound(h) /\ h \in Graph
    BY <2>1
  <2> HIDE DEF c, J
  <2> DEFINE x == <<i, c[s]>>
  <2>3. <<i, c[s]>> \in E \ ({i} \X (s \ {c[s]}))
    BY <2>1
  <2>4. (E \ ({i} \X (s \ {c[s]}))) \ {<<i, c[s]>>} = E \ ({i} \X s)
    BY <2>1
  <2> DEFINE B == E \ ({i} \X (s \ {c[s]}))
  <2>5. x[2] = c[s]
    OBVIOUS
  <2>a. x \in B
    BY <2>3
  <2>b. Counts(h, N, B, M)
    BY <2>2
  <2>c. B \ {x} = E \ ({i} \X s)
    BY <2>4
  <2>d. x[2] \in Labelled
    BY <2>1, <2>5
  <2> HIDE DEF x, B
  <2>e. Counts(DeleteEdge(h, x[2]), N, B \ {x}, M) /\ DeleteEdge(h, x[2]).cycles \in {"unknown", h.cycles} /\ DeleteEdge(h, x[2]).out \subseteq h.out
    BY ONLY <2>a, <2>b, <2>d, DeleteEdgeCounts
  <2>6. Counts(DeleteEdge(h, c[s]), N, E \ ({i} \X s), M) /\ DeleteEdge(h, c[s]).cycles \in {"unknown", h.cycles} /\ DeleteEdge(h, c[s]).out \subseteq h.out
    BY ONLY <2>5, <2>c, <2>e
  <2>7. CacheSound(DeleteEdge(h, c[s]))
    <3>1. DeleteEdge(h, c[s]).cycles \in {"unknown", h.cycles} /\ DeleteEdge(h, c[s]).out \subseteq h.out
      BY <2>6
    <3>2. h.out \in SUBSET Labelled
      BY <2>2 DEF Graph
    <3>3. h.cycles = "none" => ~Cyclic(DeleteEdge(h, c[s]).out)
      BY <2>2, <3>1, <3>2, AcyclicBelow DEF CacheSound
    <3> QED BY <3>1, <3>3 DEF CacheSound
  <2>8. DeleteEdge(h, c[s]) \in Graph /\ F[<<c[s], h>>] = DeleteEdge(h, c[s])
    BY <1>1, <2>1, <2>2, <2>6 DEF Counts
  <2> QED BY <2>6, <2>7, <2>8 DEF J
<1>6. Keeps(J, S, Graph, g, c, F)
  BY <1>3, <1>4, <1>5 DEF Keeps
<1>7. Picks(c, S) /\ F \in [S \X Graph -> Graph]
  <2> HIDE DEF F, c
  <2> QED BY ONLY S \in SUBSET Labelled, IsFiniteSet(S), <1>0, <1>3, DeleteEdgesFold
<1>11. FoldsIn(f, S, Graph, g, c, F)
  <2> HIDE DEF F, c
  <2> QED BY <1>2 DEF Folds, FoldsIn
<1>12. f[S] \in J[S]
  <2> HIDE DEF J, c, F
  <2> QED BY <1>3, <1>6, <1>7, <1>11, FoldKeeps
<1> QED
  BY <1>2, <1>12

-----------------------------------------------------------------------------
(* The graph as the count of rules: an instance is a rule and a number.     *)
RuleType == [head : Tables, body : SUBSET Tables, neg : SUBSET Tables, act : BOOLEAN]

NodeTokens(I) == UNION {{i} \X Nodes(i[1]) : i \in I}
EdgeTokens(I) == UNION {{i} \X Edges(i[1]) : i \in I}
ActTokens(I)  == {<<i, i[1].head>> : i \in {j \in I : j[1].act}}

Represents(g, I) ==
    /\ I \in SUBSET (RuleType \X Nat)
    /\ IsFiniteSet(I)
    /\ Counts(g, NodeTokens(I), EdgeTokens(I), ActTokens(I))

(* There are finitely many edges.                                           *)
LEMMA LabelledFinite == IsFiniteSet(Labelled)
<1> DEFINE P == (Tables \X Tables) \X BOOLEAN
           f == [p \in P |-> <<p[1][1], p[1][2], p[2]>>]
<1>1. IsFiniteSet(BOOLEAN)
  <2>1. IsFiniteSet({TRUE})
    BY FS_Singleton
  <2>2. IsFiniteSet({TRUE} \union {FALSE})
    BY <2>1, FS_AddElement
  <2>3. BOOLEAN = {TRUE} \union {FALSE}
    BY Zenon
  <2> QED BY ONLY <2>2, <2>3, Zenon
<1>2. IsFiniteSet(P)
  BY <1>1, GraphAssumption, FS_Product
<1>3. Labelled \subseteq {f[p] : p \in P}
  <2> SUFFICES ASSUME NEW a \in Tables, NEW b \in Tables, NEW l \in BOOLEAN
               PROVE  <<a, b, l>> \in {f[p] : p \in P}
    BY DEF Labelled
  <2>1. <<<<a, b>>, l>> \in P /\ f[<<<<a, b>>, l>>] = <<a, b, l>>
    OBVIOUS
  <2> HIDE DEF P, f
  <2> QED BY <2>1
<1>4. IsFiniteSet({f[p] : p \in P})
  <2>1. f \in [P -> {f[p] : p \in P}]
    OBVIOUS
  <2>2. f \in Surjection(P, {f[p] : p \in P})
    BY <2>1 DEF Surjection
  <2> HIDE DEF f, P
  <2> QED BY <1>2, <2>2, FS_Surjection DEF ExistsSurjection
<1> QED BY <1>3, <1>4, FS_Subset

(* The nodes and edges of a rule.                                           *)
LEMMA RuleParts ==
    ASSUME NEW r \in RuleType
    PROVE  /\ Nodes(r) \in SUBSET Tables /\ IsFiniteSet(Nodes(r))
           /\ Edges(r) \in SUBSET Labelled /\ IsFiniteSet(Edges(r))
           /\ r.head \in Tables /\ r.head \in Nodes(r)
           /\ \A e \in Edges(r) : e[1] = r.head
           /\ \A t \in r.body : <<r.head, t, FALSE>> \in Edges(r)
           /\ \A t \in r.neg : <<r.head, t, TRUE>> \in Edges(r)
<1>1. Nodes(r) \in SUBSET Tables /\ r.head \in Tables /\ r.head \in Nodes(r)
  BY DEF RuleType, Nodes
<1>2. Edges(r) \in SUBSET Labelled
  BY DEF RuleType, Edges, Labelled
<1>3. IsFiniteSet(Nodes(r)) /\ IsFiniteSet(Edges(r))
  BY <1>1, <1>2, GraphAssumption, LabelledFinite, FS_Subset
<1>4. /\ \A e \in Edges(r) : e[1] = r.head
      /\ \A t \in r.body : <<r.head, t, FALSE>> \in Edges(r)
      /\ \A t \in r.neg : <<r.head, t, TRUE>> \in Edges(r)
  BY DEF Edges
<1> QED BY <1>1, <1>2, <1>3, <1>4

(* The tokens of one instance more,                                         *)
LEMMA TokensMore ==
    ASSUME NEW I, NEW i, i \notin I
    PROVE  /\ NodeTokens(I \union {i}) = NodeTokens(I) \union ({i} \X Nodes(i[1]))
           /\ EdgeTokens(I \union {i}) = EdgeTokens(I) \union ({i} \X Edges(i[1]))
           /\ \A t : <<i, t>> \notin NodeTokens(I) /\ <<i, t>> \notin EdgeTokens(I)
                     /\ <<i, t>> \notin ActTokens(I)
           /\ ActTokens(I \union {i})
                = IF i[1].act THEN ActTokens(I) \union {<<i, i[1].head>>} ELSE ActTokens(I)
<1>1. /\ NodeTokens(I \union {i}) = NodeTokens(I) \union ({i} \X Nodes(i[1]))
      /\ EdgeTokens(I \union {i}) = EdgeTokens(I) \union ({i} \X Edges(i[1]))
  BY DEF NodeTokens, EdgeTokens
<1>2. \A t : <<i, t>> \notin NodeTokens(I) /\ <<i, t>> \notin EdgeTokens(I)
             /\ <<i, t>> \notin ActTokens(I)
  BY DEF NodeTokens, EdgeTokens, ActTokens
<1>3. ActTokens(I \union {i})
        = IF i[1].act THEN ActTokens(I) \union {<<i, i[1].head>>} ELSE ActTokens(I)
  BY DEF ActTokens
<1> QED BY <1>1, <1>2, <1>3

(* and of one less.                                                         *)
LEMMA TokensLess ==
    ASSUME NEW I, NEW i \in I
    PROVE  /\ NodeTokens(I \ {i}) = NodeTokens(I) \ ({i} \X Nodes(i[1]))
           /\ EdgeTokens(I \ {i}) = EdgeTokens(I) \ ({i} \X Edges(i[1]))
           /\ \A t \in Nodes(i[1]) : <<i, t>> \in NodeTokens(I)
           /\ \A e \in Edges(i[1]) : <<i, e>> \in EdgeTokens(I)
           /\ i[1].act => <<i, i[1].head>> \in ActTokens(I)
           /\ ActTokens(I \ {i})
                = IF i[1].act THEN ActTokens(I) \ {<<i, i[1].head>>} ELSE ActTokens(I)
<1>1. /\ NodeTokens(I \ {i}) = NodeTokens(I) \ ({i} \X Nodes(i[1]))
      /\ EdgeTokens(I \ {i}) = EdgeTokens(I) \ ({i} \X Edges(i[1]))
  BY DEF NodeTokens, EdgeTokens
<1>2. /\ \A t \in Nodes(i[1]) : <<i, t>> \in NodeTokens(I)
      /\ \A e \in Edges(i[1]) : <<i, e>> \in EdgeTokens(I)
      /\ i[1].act => <<i, i[1].head>> \in ActTokens(I)
  BY DEF NodeTokens, EdgeTokens, ActTokens
<1>3. ActTokens(I \ {i})
        = IF i[1].act THEN ActTokens(I) \ {<<i, i[1].head>>} ELSE ActTokens(I)
  BY DEF ActTokens
<1> QED BY <1>1, <1>2, <1>3

(* An action more in the index of actions,                                  *)
LEMMA ActMore ==
    ASSUME NEW g, NEW N, NEW E, NEW M, Counts(g, N, E, M), NEW x, x \notin M, x[2] \in Tables,
           NEW d, d = [g EXCEPT !.modal[x[2]] = @ + 1]
    PROVE  Counts(d, N, E, M \union {x}) /\ d.out = g.out /\ d.cycles = g.cycles
<1>1. IsFiniteSet(M) /\ g \in Graph
  BY DEF Counts, Tokens
<1>2. \A t : Cardinality(At(M \union {x}, t))
                = IF x[2] = t THEN Cardinality(At(M, t)) + 1 ELSE Cardinality(At(M, t))
  BY <1>1, OneMoreAt
<1>3. Tokens(M \union {x}, Tables)
  BY FS_AddElement DEF Counts, Tokens
<1>4. /\ d \in Graph
      /\ \A t \in Tables : d.modal[t] = IF x[2] = t THEN g.modal[t] + 1 ELSE g.modal[t]
      /\ d.nodes = g.nodes /\ d.edges = g.edges /\ d.out = g.out /\ d.cycles = g.cycles
  BY <1>1 DEF Graph
<1>5. \A t \in Tables : d.modal[t] = Cardinality(At(M \union {x}, t))
  BY <1>2, <1>4 DEF Counts
<1> QED BY <1>3, <1>4, <1>5 DEF Counts

(* and one less.                                                            *)
LEMMA ActLess ==
    ASSUME NEW g, NEW N, NEW E, NEW M, Counts(g, N, E, M), NEW x \in M,
           NEW d, d = [g EXCEPT !.modal[x[2]] = @ - 1]
    PROVE  Counts(d, N, E, M \ {x}) /\ d.out = g.out /\ d.cycles = g.cycles /\ g.modal[x[2]] > 0
<1>1. IsFiniteSet(M) /\ g \in Graph /\ x[2] \in Tables
  BY DEF Counts, Tokens
<1>2. \A t : Cardinality(At(M, t))
                = IF x[2] = t THEN Cardinality(At(M \ {x}, t)) + 1 ELSE Cardinality(At(M \ {x}, t))
  BY <1>1, OneLessAt
<1>3. Tokens(M \ {x}, Tables)
  BY FS_RemoveElement DEF Counts, Tokens
<1>4. \A t : Cardinality(At(M \ {x}, t)) \in Nat
  BY <1>3, SomeToken DEF Tokens
<1>5. g.modal[x[2]] = Cardinality(At(M \ {x}, x[2])) + 1
  BY <1>1, <1>2 DEF Counts
<1>6. g.modal[x[2]] - 1 \in Nat /\ g.modal[x[2]] > 0
  BY <1>4, <1>5
<1>7. /\ d \in Graph
      /\ \A t \in Tables : d.modal[t] = IF x[2] = t THEN g.modal[t] - 1 ELSE g.modal[t]
      /\ d.nodes = g.nodes /\ d.edges = g.edges /\ d.out = g.out /\ d.cycles = g.cycles
  BY <1>1, <1>6 DEF Graph
<1>8. ASSUME NEW t \in Tables PROVE d.modal[t] = Cardinality(At(M \ {x}, t))
  <2>1. /\ g.modal[t] = Cardinality(At(M, t))
        /\ d.modal[t] = IF x[2] = t THEN g.modal[t] - 1 ELSE g.modal[t]
        /\ Cardinality(At(M \ {x}, t)) \in Nat
    BY <1>4, <1>7 DEF Counts
  <2>2. Cardinality(At(M, t))
          = IF x[2] = t THEN Cardinality(At(M \ {x}, t)) + 1 ELSE Cardinality(At(M \ {x}, t))
    BY <1>2
  <2> QED BY ONLY <2>1, <2>2
<1> QED BY <1>3, <1>6, <1>7, <1>8 DEF Counts

(* formula_update, one event: another instance of a rule is counted.        *)
LEMMA InsertRuleCounts ==
    ASSUME NEW g, NEW I, Represents(g, I), CacheSound(g), NEW i \in RuleType \X Nat, i \notin I
    PROVE  Represents(InsertRule(g, i[1]), I \union {i}) /\ CacheSound(InsertRule(g, i[1]))
<1> DEFINE r == i[1]
           N == NodeTokens(I)
           E == EdgeTokens(I)
           M == ActTokens(I)
           g1 == AddNodes(g, Nodes(r))
           h == AddEdges(g1, Edges(r))
<1>1. r \in RuleType /\ Counts(g, N, E, M)
  BY DEF Represents
<1>2. /\ Nodes(r) \in SUBSET Tables /\ IsFiniteSet(Nodes(r))
      /\ Edges(r) \in SUBSET Labelled /\ IsFiniteSet(Edges(r)) /\ r.head \in Tables
  BY <1>1, RuleParts
<1>3. \A t : <<i, t>> \notin N /\ <<i, t>> \notin E /\ <<i, t>> \notin M
  BY TokensMore
<1> HIDE DEF N, E, M
<1>4. Counts(g1, N \union ({i} \X Nodes(r)), E, M) /\ CacheSound(g1)
  <2> HIDE DEF r
  <2> QED BY <1>1, <1>2, <1>3, AddNodesCounts
<1>5. Counts(h, N \union ({i} \X Nodes(r)), E \union ({i} \X Edges(r)), M) /\ CacheSound(h)
  <2> DEFINE N1 == N \union ({i} \X Nodes(r))
  <2> HIDE DEF r, N1, g1
  <2> QED BY <1>2, <1>3, <1>4, AddEdgesCounts DEF N1
<1>6. Counts(h, NodeTokens(I \union {i}), EdgeTokens(I \union {i}), M)
  <2>1. /\ NodeTokens(I \union {i}) = N \union ({i} \X Nodes(r))
        /\ EdgeTokens(I \union {i}) = E \union ({i} \X Edges(r))
    BY TokensMore DEF N, E
  <2> HIDE DEF h
  <2> QED BY <1>5, <2>1
<1>7. I \union {i} \in SUBSET (RuleType \X Nat) /\ IsFiniteSet(I \union {i})
  BY FS_AddElement DEF Represents
<1>8. CASE ~r.act
  <2>1. InsertRule(g, r) = h /\ ActTokens(I \union {i}) = M
    BY <1>8, TokensMore DEF InsertRule, M
  <2> HIDE DEF h
  <2> QED BY <1>5, <1>6, <1>7, <2>1 DEF Represents
<1>9. CASE r.act
  <2> DEFINE x == <<i, r.head>>
  <2>1. InsertRule(g, r) = [h EXCEPT !.modal[x[2]] = @ + 1] /\ ActTokens(I \union {i}) = M \union {x}
    BY <1>9, TokensMore DEF InsertRule, M
  <2>2. x \notin M /\ x[2] \in Tables
    BY <1>2, <1>3
  <2> HIDE DEF h, x, r
  <2>3. Counts(InsertRule(g, r), NodeTokens(I \union {i}), EdgeTokens(I \union {i}), M \union {x})
        /\ InsertRule(g, r).out = h.out /\ InsertRule(g, r).cycles = h.cycles
    BY <1>6, <2>1, <2>2, ActMore
  <2> QED BY <1>5, <1>7, <2>1, <2>3 DEF Represents, CacheSound, r
<1> QED BY <1>1, <1>8, <1>9 DEF RuleType

(* And one less is counted once a rule is deleted.                          *)
LEMMA DeleteRuleCounts ==
    ASSUME NEW g, NEW I, Represents(g, I), CacheSound(g), NEW i \in I
    PROVE  Represents(DeleteRule(g, i[1]), I \ {i}) /\ CacheSound(DeleteRule(g, i[1]))
<1> DEFINE r == i[1]
           N == NodeTokens(I)
           E == EdgeTokens(I)
           M == ActTokens(I)
           g1 == DeleteNodes(g, Nodes(r))
           h == DeleteEdges(g1, Edges(r))
<1>1. r \in RuleType /\ Counts(g, N, E, M)
  BY DEF Represents
<1>2. /\ Nodes(r) \in SUBSET Tables /\ IsFiniteSet(Nodes(r))
      /\ Edges(r) \in SUBSET Labelled /\ IsFiniteSet(Edges(r)) /\ r.head \in Tables
  BY <1>1, RuleParts
<1>3. /\ \A t \in Nodes(r) : <<i, t>> \in N
      /\ \A e \in Edges(r) : <<i, e>> \in E
      /\ r.act => <<i, r.head>> \in M
  BY TokensLess
<1> HIDE DEF N, E, M
<1>4. Counts(g1, N \ ({i} \X Nodes(r)), E, M) /\ CacheSound(g1)
  <2> HIDE DEF r
  <2> QED BY <1>1, <1>2, <1>3, DeleteNodesCounts
<1>5. Counts(h, N \ ({i} \X Nodes(r)), E \ ({i} \X Edges(r)), M) /\ CacheSound(h)
  <2> DEFINE N1 == N \ ({i} \X Nodes(r))
  <2> HIDE DEF r, N1, g1
  <2> QED BY <1>2, <1>3, <1>4, DeleteEdgesCounts DEF N1
<1>6. Counts(h, NodeTokens(I \ {i}), EdgeTokens(I \ {i}), M)
  <2>1. /\ NodeTokens(I \ {i}) = N \ ({i} \X Nodes(r))
        /\ EdgeTokens(I \ {i}) = E \ ({i} \X Edges(r))
    BY TokensLess DEF N, E
  <2> HIDE DEF h
  <2> QED BY <1>5, <2>1
<1>7. I \ {i} \in SUBSET (RuleType \X Nat) /\ IsFiniteSet(I \ {i})
  BY FS_RemoveElement DEF Represents
<1>8. CASE ~r.act
  <2>1. DeleteRule(g, r) = h /\ ActTokens(I \ {i}) = M
    BY <1>8, TokensLess DEF DeleteRule, M
  <2> HIDE DEF h
  <2> QED BY <1>5, <1>6, <1>7, <2>1 DEF Represents
<1>9. CASE r.act
  <2> DEFINE x == <<i, r.head>>
             d == [h EXCEPT !.modal[x[2]] = @ - 1]
  <2>1. DeleteRule(g, r) = IF h.modal[x[2]] > 0 THEN d ELSE h
    BY <1>9 DEF DeleteRule
  <2>2. ActTokens(I \ {i}) = M \ {x}
    BY <1>9, TokensLess DEF M
  <2>3. x \in M
    BY <1>3, <1>9
  <2>4. d = [h EXCEPT !.modal[x[2]] = @ - 1]
    OBVIOUS
  <2> HIDE DEF h, x, r, d
  <2>5. Counts(d, NodeTokens(I \ {i}), EdgeTokens(I \ {i}), M \ {x})
        /\ d.out = h.out /\ d.cycles = h.cycles /\ h.modal[x[2]] > 0
    BY <1>6, <2>3, <2>4, ActLess
  <2>6. DeleteRule(g, r) = d
    BY <2>1, <2>5
  <2> QED BY <1>5, <1>7, <2>2, <2>5, <2>6 DEF Represents, CacheSound, r
<1> QED BY <1>1, <1>8, <1>9 DEF RuleType

(* Whatever is inserted or deleted, a graph stays a graph.                  *)
LEMMA RuleTypes ==
    ASSUME NEW g \in Graph, NEW r \in RuleType
    PROVE  InsertRule(g, r) \in Graph /\ DeleteRule(g, r) \in Graph
<1>1. /\ Nodes(r) \in SUBSET Tables /\ IsFiniteSet(Nodes(r))
      /\ Edges(r) \in SUBSET Labelled /\ IsFiniteSet(Edges(r)) /\ r.head \in Tables
  BY RuleParts
<1>2. \A S \in SUBSET Tables, h \in Graph : IsFiniteSet(S) =>
          AddNodes(h, S) \in Graph /\ DeleteNodes(h, S) \in Graph
  <2> SUFFICES ASSUME NEW S \in SUBSET Tables, NEW h \in Graph, IsFiniteSet(S)
               PROVE  AddNodes(h, S) \in Graph /\ DeleteNodes(h, S) \in Graph
    OBVIOUS
  <2>1. PICK f \in [SUBSET S -> Graph] : AddNodes(h, S) = f[S]
    BY AddNodesFold
  <2>2. PICK k \in [SUBSET S -> Graph] : DeleteNodes(h, S) = k[S]
    BY DeleteNodesFold
  <2> QED BY <2>1, <2>2
<1>3. \A S \in SUBSET Labelled, h \in Graph : IsFiniteSet(S) =>
          AddEdges(h, S) \in Graph /\ DeleteEdges(h, S) \in Graph
  <2> SUFFICES ASSUME NEW S \in SUBSET Labelled, NEW h \in Graph, IsFiniteSet(S)
               PROVE  AddEdges(h, S) \in Graph /\ DeleteEdges(h, S) \in Graph
    OBVIOUS
  <2>1. PICK f \in [SUBSET S -> Graph] : AddEdges(h, S) = f[S]
    BY AddEdgesFold
  <2>2. PICK k \in [SUBSET S -> Graph] : DeleteEdges(h, S) = k[S]
    BY DeleteEdgesFold
  <2> QED BY <2>1, <2>2
<1>4. InsertRule(g, r) \in Graph
  <2> DEFINE h == AddEdges(AddNodes(g, Nodes(r)), Edges(r))
  <2>1. h \in Graph
    BY <1>1, <1>2, <1>3
  <2>2. InsertRule(g, r) = IF r.act THEN [h EXCEPT !.modal[r.head] = @ + 1] ELSE h
    BY DEF InsertRule
  <2> HIDE DEF h
  <2>3. [h EXCEPT !.modal[r.head] = @ + 1] \in Graph
    BY <1>1, <2>1 DEF Graph
  <2> QED BY <2>1, <2>2, <2>3
<1>5. DeleteRule(g, r) \in Graph
  <2> DEFINE h == DeleteEdges(DeleteNodes(g, Nodes(r)), Edges(r))
  <2>1. h \in Graph
    BY <1>1, <1>2, <1>3
  <2>2. DeleteRule(g, r) = IF r.act /\ h.modal[r.head] > 0 THEN [h EXCEPT !.modal[r.head] = @ - 1] ELSE h
    BY DEF DeleteRule
  <2> HIDE DEF h
  <2>3. h.modal[r.head] > 0 => [h EXCEPT !.modal[r.head] = @ - 1] \in Graph
    <3> SUFFICES ASSUME h.modal[r.head] > 0 PROVE [h EXCEPT !.modal[r.head] = @ - 1] \in Graph
      OBVIOUS
    <3>1. h.modal[r.head] - 1 \in Nat
      BY <1>1, <2>1 DEF Graph
    <3> QED BY <1>1, <2>1, <3>1 DEF Graph
  <2> QED BY <2>1, <2>2, <2>3
<1> QED BY <1>4, <1>5

-----------------------------------------------------------------------------
(* A batch: its k-th event is about the instance tok[k], inserted if ins[k].*)
Batch(n, tok, ins, I) ==
    /\ n \in Nat
    /\ tok \in [1 .. n -> RuleType \X Nat]
    /\ ins \in [1 .. n -> BOOLEAN]
    /\ \A j, k \in 1 .. n : tok[j] = tok[k] => j = k
    /\ \A k \in 1 .. n : ins[k] <=> tok[k] \notin I

(* The instances there are once k events are done.                          *)
After(I, tok, ins, k) ==
    (I \union {tok[j] : j \in {h \in 1 .. k : ins[h]}}) \ {tok[j] : j \in {h \in 1 .. k : ~ins[h]}}

(* One event, as a step of a fold.                                          *)
EventStep(n, tok, ins) ==
    [x \in (1 .. n) \X Graph |-> IF ins[x[1]] THEN InsertRule(x[2], tok[x[1]][1])
                                              ELSE DeleteRule(x[2], tok[x[1]][1])]

LastOf(n) == [s \in SUBSET (1 .. n) |-> Max(s)]

(* One event more of a batch inserts or deletes its instance.               *)
LEMMA AfterStep ==
    ASSUME NEW n, NEW tok, NEW ins, NEW I, Batch(n, tok, ins, I), NEW k \in 1 .. n
    PROVE  /\ ins[k] => /\ tok[k] \notin After(I, tok, ins, k - 1)
                        /\ After(I, tok, ins, k) = After(I, tok, ins, k - 1) \union {tok[k]}
           /\ ~ins[k] => /\ tok[k] \in After(I, tok, ins, k - 1)
                         /\ After(I, tok, ins, k) = After(I, tok, ins, k - 1) \ {tok[k]}
<1>1. /\ \A j \in 1 .. k : j \in 1 .. n
      /\ 1 .. k = (1 .. (k - 1)) \union {k} /\ k \notin 1 .. (k - 1)
      /\ n \in Nat /\ \A j \in 1 .. (k - 1) : j \in 1 .. n
  BY DEF Batch
<1>2. \A j \in 1 .. (k - 1) : tok[j] # tok[k]
  BY <1>1 DEF Batch
<1>3. ins[k] <=> tok[k] \notin I
  BY DEF Batch
<1> DEFINE A == {tok[j] : j \in {h \in 1 .. (k - 1) : ins[h]}}
           D == {tok[j] : j \in {h \in 1 .. (k - 1) : ~ins[h]}}
<1>4. tok[k] \notin A /\ tok[k] \notin D
  BY <1>2
<1>5. /\ {tok[j] : j \in {h \in 1 .. k : ins[h]}} = IF ins[k] THEN A \union {tok[k]} ELSE A
      /\ {tok[j] : j \in {h \in 1 .. k : ~ins[h]}} = IF ins[k] THEN D ELSE D \union {tok[k]}
  BY <1>1
<1>6. After(I, tok, ins, k - 1) = (I \union A) \ D
  BY DEF After
<1>7. After(I, tok, ins, k) = (I \union IF ins[k] THEN A \union {tok[k]} ELSE A)
                                \ IF ins[k] THEN D ELSE D \union {tok[k]}
  BY <1>5 DEF After
<1> HIDE DEF A, D
<1> QED BY <1>3, <1>4, <1>6, <1>7

(* What is replayed event by event counts the instances there are after the *)
(* batch.                                                                   *)
LEMMA Replay ==
    ASSUME NEW n, NEW tok, NEW ins, NEW I, Batch(n, tok, ins, I),
           NEW g, Represents(g, I), CacheSound(g),
           NEW F, F = EventStep(n, tok, ins), NEW c, c = LastOf(n)
    PROVE  /\ F \in [(1 .. n) \X Graph -> Graph]
           /\ \E f \in [SUBSET (1 .. n) -> Graph] : Folds(f, 1 .. n, g, c, F)
           /\ \A f : FoldsIn(f, 1 .. n, Graph, g, c, F)
                       => Represents(f[1 .. n], After(I, tok, ins, n)) /\ CacheSound(f[1 .. n])
<1> DEFINE K == [k \in 0 .. n |-> {h \in Graph : Represents(h, After(I, tok, ins, k)) /\ CacheSound(h)}]
<1>1. n \in Nat /\ g \in Graph
  BY DEF Batch, Represents, Counts
<1>2. \A k \in 1 .. n : tok[k] \in RuleType \X Nat /\ tok[k][1] \in RuleType
  BY DEF Batch
<1>3. \A k \in 1 .. n, h \in Graph : F[<<k, h>>] = IF ins[k] THEN InsertRule(h, tok[k][1])
                                                            ELSE DeleteRule(h, tok[k][1])
  BY DEF EventStep
<1>4. F \in [(1 .. n) \X Graph -> Graph]
  BY <1>2, RuleTypes DEF EventStep
<1>5. K \in [0 .. n -> SUBSET Graph]
  OBVIOUS
<1>6. g \in K[0]
  <2>1. After(I, tok, ins, 0) = I /\ 0 \in 0 .. n
    BY <1>1 DEF After
  <2> QED BY <1>1, <2>1
<1>7. ASSUME NEW k \in 1 .. n, NEW h \in K[k - 1] PROVE F[<<k, h>>] \in K[k]
  <2>1. k - 1 \in 0 .. n /\ k \in 0 .. n
    BY <1>1
  <2>2. h \in Graph /\ Represents(h, After(I, tok, ins, k - 1)) /\ CacheSound(h)
    BY <2>1
  <2> DEFINE B == After(I, tok, ins, k - 1)
             x == tok[k]
  <2>3. x \in RuleType \X Nat
    BY <1>2
  <2> SUFFICES /\ F[<<k, h>>] \in Graph
               /\ Represents(F[<<k, h>>], After(I, tok, ins, k)) /\ CacheSound(F[<<k, h>>])
    BY <2>1
  <2>4. F[<<k, h>>] \in Graph
    BY <1>4, <2>2
  <2> HIDE DEF K
  <2>5. CASE ins[k]
    <3>1. x \notin B /\ After(I, tok, ins, k) = B \union {x}
      BY <2>5, AfterStep
    <3>2. F[<<k, h>>] = InsertRule(h, x[1])
      BY <1>3, <2>2, <2>5
    <3> HIDE DEF B, x
    <3>3. Represents(InsertRule(h, x[1]), B \union {x}) /\ CacheSound(InsertRule(h, x[1]))
      BY <2>2, <2>3, <3>1, InsertRuleCounts DEF B
    <3> QED BY <2>4, <3>1, <3>2, <3>3
  <2>6. CASE ~ins[k]
    <3>1. x \in B /\ After(I, tok, ins, k) = B \ {x}
      BY <2>6, AfterStep
    <3>2. F[<<k, h>>] = DeleteRule(h, x[1])
      BY <1>3, <2>2, <2>6
    <3> HIDE DEF B, x
    <3>3. Represents(DeleteRule(h, x[1]), B \ {x}) /\ CacheSound(DeleteRule(h, x[1]))
      BY <2>2, <3>1, DeleteRuleCounts DEF B
    <3> QED BY <2>4, <3>1, <3>2, <3>3
  <2> QED BY <2>5, <2>6
<1>8. /\ \E f \in [SUBSET (1 .. n) -> Graph] : Folds(f, 1 .. n, g, c, F)
      /\ \A f : FoldsIn(f, 1 .. n, Graph, g, c, F) => f[1 .. n] \in K[n]
  <2>1. c = [s \in SUBSET (1 .. n) |-> Max(s)]
    BY DEF LastOf
  <2>2. \A k \in 1 .. n : \A h \in K[k - 1] : F[<<k, h>>] \in K[k]
    BY <1>7
  <2> HIDE DEF K
  <2> QED BY ONLY <1>1, <1>4, <1>5, <1>6, <2>1, <2>2, SeqFold
<1>9. n \in 0 .. n
  BY <1>1
<1> QED BY <1>4, <1>8, <1>9

Event == [rule : RuleType, insert : BOOLEAN]

(* Events about instances: what formula_update makes of a batch.            *)
About(events, n, tok, ins) ==
    /\ DOMAIN events = 1 .. n
    /\ \A k \in 1 .. n : events[k].rule = tok[k][1] /\ events[k].insert = ins[k]

(* formula_update counts the instances there are after the batch.           *)
LEMMA FormulaUpdateCounts ==
    ASSUME NEW n, NEW tok, NEW ins, NEW I, Batch(n, tok, ins, I),
           NEW events, About(events, n, tok, ins),
           NEW g, Represents(g, I), CacheSound(g)
    PROVE  /\ Represents(FormulaUpdate(g, events), After(I, tok, ins, n))
           /\ CacheSound(FormulaUpdate(g, events))
<1> DEFINE F == EventStep(n, tok, ins)
           c == LastOf(n)
           D == 1 .. n
           Is(f) == f = [s \in SUBSET (DOMAIN events) |->
                           IF s = {} THEN g
                           ELSE IF events[Max(s)].insert
                                THEN InsertRule(f[s \ {Max(s)}], events[Max(s)].rule)
                                ELSE DeleteRule(f[s \ {Max(s)}], events[Max(s)].rule)]
<1>0. F = EventStep(n, tok, ins) /\ c = LastOf(n)
  OBVIOUS
<1>1. /\ F \in [D \X Graph -> Graph]
      /\ \E f \in [SUBSET D -> Graph] : Folds(f, D, g, c, F)
      /\ \A f : FoldsIn(f, D, Graph, g, c, F)
                  => Represents(f[D], After(I, tok, ins, n)) /\ CacheSound(f[D])
  <2> HIDE DEF F, c
  <2> QED BY <1>0, Replay
<1>2. \A k \in D, h \in Graph :
          F[<<k, h>>] = IF events[k].insert THEN InsertRule(h, events[k].rule)
                                            ELSE DeleteRule(h, events[k].rule)
  BY DEF EventStep, About
<1>3. \A s \in SUBSET D : s # {} => Max(s) \in D /\ c[s] = Max(s)
  BY MaxOfInterval DEF LastOf, Batch
<1>4. DOMAIN events = D
  BY DEF About
<1>5. \E f : Is(f)
  <2>1. PICK f \in [SUBSET D -> Graph] : Folds(f, D, g, c, F)
    BY <1>1
  <2> HIDE DEF F, c, D
  <2>2. \A s \in SUBSET D : s # {} => f[s \ {Max(s)}] \in Graph
    OBVIOUS
  <2>3. \A s \in SUBSET D :
           f[s] = IF s = {} THEN g
                  ELSE IF events[Max(s)].insert
                       THEN InsertRule(f[s \ {Max(s)}], events[Max(s)].rule)
                       ELSE DeleteRule(f[s \ {Max(s)}], events[Max(s)].rule)
    <3> TAKE s \in SUBSET D
    <3>1. f[s] = IF s = {} THEN g ELSE F[<<c[s], f[s \ {c[s]}]>>]
      BY <2>1 DEF Folds
    <3>2. s # {} => Max(s) \in D /\ c[s] = Max(s) /\ f[s \ {Max(s)}] \in Graph
      BY <1>3, <2>2
    <3> HIDE DEF Is
    <3> QED BY ONLY <1>2, <3>1, <3>2
  <2>4. Is(f)
    BY <1>4, <2>3
  <2> HIDE DEF Is
  <2> QED BY <2>4
<1> DEFINE k == CHOOSE k : Is(k)
<1>6. Is(k)
  <2> HIDE DEF Is
  <2> QED BY <1>5
<1>7. FormulaUpdate(g, events) = k[D]
  BY <1>4 DEF FormulaUpdate, FoldLeft, MapThenFoldSet
<1>8. FoldsIn(k, D, Graph, g, c, F)
  <2> HIDE DEF k, F, c, D
  <2>1. \A s \in SUBSET D :
           k[s] = IF s = {} THEN g
                  ELSE IF events[Max(s)].insert
                       THEN InsertRule(k[s \ {Max(s)}], events[Max(s)].rule)
                       ELSE DeleteRule(k[s \ {Max(s)}], events[Max(s)].rule)
    BY <1>4, <1>6
  <2> HIDE DEF Is
  <2> QED BY <1>2, <1>3, <2>1 DEF FoldsIn
<1> HIDE DEF k, Is
<1> QED BY <1>1, <1>7, <1>8

(* undo_changes sees the events that were made, and does the opposite.      *)
AboutUndone(events, n, tok, ins) ==
    /\ DOMAIN events = 1 .. n
    /\ \A k \in 1 .. n : events[k].rule = tok[k][1] /\ events[k].insert = ~ins[k]

(* undo_changes counts the instances there are after the opposite batch.    *)
LEMMA UndoChangesCounts ==
    ASSUME NEW n, NEW tok, NEW ins, NEW I, Batch(n, tok, ins, I),
           NEW events, AboutUndone(events, n, tok, ins),
           NEW g, Represents(g, I), CacheSound(g)
    PROVE  /\ Represents(UndoChanges(g, events), After(I, tok, ins, n))
           /\ CacheSound(UndoChanges(g, events))
<1> DEFINE F == EventStep(n, tok, ins)
           c == LastOf(n)
           D == 1 .. n
           Is(f) == f = [s \in SUBSET (DOMAIN events) |->
                           IF s = {} THEN g
                           ELSE IF events[Max(s)].insert
                                THEN DeleteRule(f[s \ {Max(s)}], events[Max(s)].rule)
                                ELSE InsertRule(f[s \ {Max(s)}], events[Max(s)].rule)]
<1>0. F = EventStep(n, tok, ins) /\ c = LastOf(n)
  OBVIOUS
<1>1. /\ F \in [D \X Graph -> Graph]
      /\ \E f \in [SUBSET D -> Graph] : Folds(f, D, g, c, F)
      /\ \A f : FoldsIn(f, D, Graph, g, c, F)
                  => Represents(f[D], After(I, tok, ins, n)) /\ CacheSound(f[D])
  <2> HIDE DEF F, c
  <2> QED BY <1>0, Replay
<1>2. \A k \in D, h \in Graph :
          F[<<k, h>>] = IF events[k].insert THEN DeleteRule(h, events[k].rule)
                                            ELSE InsertRule(h, events[k].rule)
  BY DEF EventStep, AboutUndone, Batch
<1>3. \A s \in SUBSET D : s # {} => Max(s) \in D /\ c[s] = Max(s)
  BY MaxOfInterval DEF LastOf, Batch
<1>4. DOMAIN events = D
  BY DEF AboutUndone
<1>5. \E f : Is(f)
  <2>1. PICK f \in [SUBSET D -> Graph] : Folds(f, D, g, c, F)
    BY <1>1
  <2> HIDE DEF F, c, D
  <2>2. \A s \in SUBSET D : s # {} => f[s \ {Max(s)}] \in Graph
    OBVIOUS
  <2>3. \A s \in SUBSET D :
           f[s] = IF s = {} THEN g
                  ELSE IF events[Max(s)].insert
                       THEN DeleteRule(f[s \ {Max(s)}], events[Max(s)].rule)
                       ELSE InsertRule(f[s \ {Max(s)}], events[Max(s)].rule)
    <3> TAKE s \in SUBSET D
    <3>1. f[s] = IF s = {} THEN g ELSE F[<<c[s], f[s \ {c[s]}]>>]
      BY <2>1 DEF Folds
    <3>2. s # {} => Max(s) \in D /\ c[s] = Max(s) /\ f[s \ {Max(s)}] \in Graph
      BY <1>3, <2>2
    <3> HIDE DEF Is
    <3> QED BY ONLY <1>2, <3>1, <3>2
  <2>4. Is(f)
    BY <1>4, <2>3
  <2> HIDE DEF Is
  <2> QED BY <2>4
<1> DEFINE k == CHOOSE k : Is(k)
<1>6. Is(k)
  <2> HIDE DEF Is
  <2> QED BY <1>5
<1>7. UndoChanges(g, events) = k[D]
  BY <1>4 DEF UndoChanges, FoldLeft, MapThenFoldSet
<1>8. FoldsIn(k, D, Graph, g, c, F)
  <2> HIDE DEF k, F, c, D
  <2>1. \A s \in SUBSET D :
           k[s] = IF s = {} THEN g
                  ELSE IF events[Max(s)].insert
                       THEN DeleteRule(k[s \ {Max(s)}], events[Max(s)].rule)
                       ELSE InsertRule(k[s \ {Max(s)}], events[Max(s)].rule)
    BY <1>4, <1>6
  <2> HIDE DEF Is
  <2> QED BY <1>2, <1>3, <2>1 DEF FoldsIn
<1> HIDE DEF k, Is
<1> QED BY <1>1, <1>7, <1>8

Opposite(n, ins) == [k \in 1 .. n |-> ~ins[k]]

(* What is done and undone comes to the same instances.                     *)
LEMMA AfterUndone ==
    ASSUME NEW n, NEW tok, NEW ins, NEW I, Batch(n, tok, ins, I), NEW J, J = After(I, tok, ins, n),
           NEW sni, sni = Opposite(n, ins)
    PROVE  Batch(n, tok, sni, J) /\ After(J, tok, sni, n) = I
<1> DEFINE A == {tok[j] : j \in {h \in 1 .. n : ins[h]}}
           D == {tok[j] : j \in {h \in 1 .. n : ~ins[h]}}
<1>1. A \intersect I = {} /\ D \subseteq I
  BY DEF Batch
<1>2. \A k \in 1 .. n : tok[k] \in IF ins[k] THEN A ELSE D
  OBVIOUS
<1>3. A \intersect D = {}
  BY <1>1
<1>4. J = (I \union A) \ D
  BY DEF After
<1>5. {tok[j] : j \in {h \in 1 .. n : sni[h]}} = D /\ {tok[j] : j \in {h \in 1 .. n : ~sni[h]}} = A
  BY DEF Opposite
<1>6. After(J, tok, sni, n) = (J \union D) \ A
  BY <1>5 DEF After
<1> HIDE DEF A, D
<1>7. After(J, tok, sni, n) = I
  BY <1>1, <1>3, <1>4, <1>6
<1>8. \A k \in 1 .. n : sni[k] <=> tok[k] \notin J
  BY <1>1, <1>2, <1>3, <1>4 DEF Opposite
<1>9. Batch(n, tok, sni, J)
  BY <1>8 DEF Batch, Opposite
<1> QED BY <1>7, <1>9

(* A graph is as its instances are, but for what it cached.                 *)
LEMMA SameInstances ==
    ASSUME NEW g, NEW h, NEW I, Represents(g, I), Represents(h, I)
    PROVE  g.nodes = h.nodes /\ g.edges = h.edges /\ g.out = h.out /\ g.modal = h.modal
<1>1. g \in Graph /\ h \in Graph /\ g.out = h.out
  BY DEF Represents, Counts
<1>2. \A t \in Tables : g.nodes[t] = h.nodes[t] /\ g.modal[t] = h.modal[t]
  BY DEF Represents, Counts
<1>3. \A e \in Labelled : g.edges[e] = h.edges[e]
  BY DEF Represents, Counts
<1>4. /\ g.nodes \in [Tables -> Nat] /\ h.nodes \in [Tables -> Nat]
      /\ g.modal \in [Tables -> Nat] /\ h.modal \in [Tables -> Nat]
      /\ g.edges \in [Labelled -> Nat] /\ h.edges \in [Labelled -> Nat]
  BY <1>1 DEF Graph
<1> QED BY <1>1, <1>2, <1>3, <1>4

(* The graph knows every part of the rules it counts.                       *)
LEMMA KnowsInstances ==
    ASSUME NEW g, NEW I, Represents(g, I), NEW i \in I
    PROVE  /\ i[1] \in RuleType
           /\ Edges(i[1]) \subseteq g.out
           /\ \A t \in Nodes(i[1]) : g.nodes[t] > 0
           /\ i[1].act => g.modal[i[1].head] > 0
<1> DEFINE N == NodeTokens(I)
           E == EdgeTokens(I)
           M == ActTokens(I)
<1>1. i[1] \in RuleType /\ Counts(g, N, E, M)
  BY DEF Represents
<1>2. /\ \A t \in Nodes(i[1]) : <<i, t>> \in N
      /\ \A e \in Edges(i[1]) : <<i, e>> \in E
      /\ i[1].act => <<i, i[1].head>> \in M
  BY TokensLess
<1> HIDE DEF N, E, M
<1>3. IsFiniteSet(N) /\ IsFiniteSet(E) /\ IsFiniteSet(M)
  BY <1>1 DEF Counts, Tokens
<1>4. Edges(i[1]) \subseteq g.out
  <2>1. g.out = {x[2] : x \in E}
    BY <1>1 DEF Counts
  <2>2. \A e \in Edges(i[1]) : <<i, e>> \in E /\ <<i, e>>[2] = e
    BY <1>2
  <2>3. \A x \in E : x[2] \in g.out
    BY <2>1
  <2>4. \A e \in Edges(i[1]) : e \in g.out
    BY <2>2, <2>3
  <2> QED BY <2>4
<1>5. ASSUME NEW t \in Nodes(i[1]) PROVE g.nodes[t] > 0
  <2>1. t \in Tables
    BY <1>1, RuleParts
  <2>2. <<i, t>> \in N /\ <<i, t>>[2] = t
    BY <1>2
  <2>3. Cardinality(At(N, t)) > 0
    BY <1>3, <2>2, SomeToken
  <2>4. Cardinality(At(N, t)) \in Nat /\ Cardinality(From(E, t)) \in Nat /\ Cardinality(To(E, t)) \in Nat
    BY <1>3, SomeToken
  <2> QED BY <1>1, <2>1, <2>3, <2>4 DEF Counts
<1>6. ASSUME i[1].act PROVE g.modal[i[1].head] > 0
  <2> DEFINE t == i[1].head
  <2>1. t \in Tables
    BY <1>1, RuleParts
  <2>2. <<i, t>> \in M /\ <<i, t>>[2] = t
    BY <1>2, <1>6
  <2> HIDE DEF t
  <2>3. Cardinality(At(M, t)) > 0
    BY <1>3, <2>2, SomeToken
  <2>4. g.modal[t] > 0
    BY <1>1, <2>1, <2>3 DEF Counts
  <2> QED BY <2>4 DEF t
<1> QED BY <1>1, <1>4, <1>5, <1>6

(* And what it knows comes from a rule it counts.                           *)
LEMMA KnownByInstances ==
    ASSUME NEW g, NEW I, Represents(g, I)
    PROVE  /\ \A e \in g.out : \E i \in I : e \in Edges(i[1]) /\ e[1] = i[1].head
           /\ \A t \in Tables : g.modal[t] > 0 => \E i \in I : i[1].act /\ i[1].head = t
<1> DEFINE N == NodeTokens(I)
           E == EdgeTokens(I)
           M == ActTokens(I)
<1>1. Counts(g, N, E, M) /\ \A i \in I : i[1] \in RuleType
  BY DEF Represents
<1>2. ASSUME NEW e \in g.out PROVE \E i \in I : e \in Edges(i[1]) /\ e[1] = i[1].head
  <2>1. PICK x \in E : x[2] = e
    BY <1>1 DEF Counts
  <2>2. PICK i \in I : x \in {i} \X Edges(i[1])
    BY DEF EdgeTokens
  <2>3. e \in Edges(i[1])
    BY <2>1, <2>2
  <2>4. e[1] = i[1].head
    BY <1>1, <2>3, RuleParts
  <2> QED BY <2>3, <2>4
<1>3. ASSUME NEW t \in Tables, g.modal[t] > 0 PROVE \E i \in I : i[1].act /\ i[1].head = t
  <2>1. Cardinality(At(M, t)) > 0 /\ IsFiniteSet(M)
    BY <1>1, <1>3 DEF Counts, Tokens
  <2>2. PICK x \in M : x[2] = t
    <3> HIDE DEF M
    <3> QED BY <2>1, SomeToken
  <2>3. PICK i \in I : i[1].act /\ x = <<i, i[1].head>>
    BY DEF ActTokens
  <2> QED BY <2>2, <2>3
<1> QED BY <1>2, <1>3

(* The graph of no rules.                                                   *)
LEMMA EmptyGraphCounts == Represents(EmptyGraph, {}) /\ CacheSound(EmptyGraph)
<1>1. NodeTokens({}) = {} /\ EdgeTokens({}) = {} /\ ActTokens({}) = {}
  BY DEF NodeTokens, EdgeTokens, ActTokens
<1>2. \A u : At({}, u) = {} /\ From({}, u) = {} /\ To({}, u) = {}
  BY DEF At, From, To
<1>3. Cardinality({}) = 0 /\ IsFiniteSet({})
  BY FS_EmptySet
<1>4. EmptyGraph \in Graph /\ EmptyGraph.out = {} /\ EmptyGraph.cycles = "unknown"
      /\ (\A t \in Tables : EmptyGraph.nodes[t] = 0 /\ EmptyGraph.modal[t] = 0)
      /\ (\A e \in Labelled : EmptyGraph.edges[e] = 0)
  BY DEF EmptyGraph, Graph
<1>5. Counts(EmptyGraph, {}, {}, {})
  BY <1>2, <1>3, <1>4 DEF Counts, Tokens
<1> QED BY <1>1, <1>3, <1>4, <1>5 DEF Represents, CacheSound
=============================================================================
