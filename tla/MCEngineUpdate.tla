--------------------------- MODULE MCEngineUpdate ---------------------------
(* Instances of EngineUpdate: two datasource tables, two plain tables, two  *)
(* actions; p depends on itself, or on q and q on p, if users so wish.      *)
EXTENDS EngineUpdate

CONSTANTS s1, s2, p, q, a1, a2

Plain(h, body, neg)  == [head |-> h, body |-> body, neg |-> neg, act |-> FALSE]
Action(h, body, neg) == [head |-> h, body |-> body, neg |-> neg, act |-> TRUE]

AllRules == {Plain(p, {s1}, {}), Plain(q, {}, {p}), Plain(p, {q}, {}), Plain(p, {p}, {}),
             Action(a1, {q}, {}), Action(a2, {s1}, {s2})}
=============================================================================
