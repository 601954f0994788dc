---------------------------- MODULE MCDsePubSub ----------------------------
(* Small instances of DsePubSub.  Threads and subscribers are symmetric:    *)
(* the code never orders them.                                              *)
EXTENDS DsePubSub, TLC

Symmetry == Permutations(Subscribers) \union Permutations(Threads)
=============================================================================
