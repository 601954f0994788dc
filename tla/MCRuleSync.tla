----------------------------- MODULE MCRuleSync -----------------------------
(* Instances of RuleSync for TLC. *)
EXTENDS RuleSync, TLC

CONSTANTS n1, n2, t1, t2, p, q, r1, r2, r3

\* r1 and r2 in policy p are recursive together.
OneCycle == {{[policy |-> p, rule |-> r1], [policy |-> p, rule |-> r2]}}

Symmetry == Permutations(Nodes) \cup Permutations(Threads)

RuleRequests   == {"insert", "delete"}
PolicyRequests == {"createPolicy", "deletePolicy"}
Inserts        == {"insert"}
NoDeletions    == {"insert", "createPolicy", "deletePolicy"}
AllRequests    == RuleRequests \cup PolicyRequests
=============================================================================
