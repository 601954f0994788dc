-------------------------- MODULE MCDatasourceSync --------------------------
(* Instances of DatasourceSync: two datasources with names of their own.    *)
EXTENDS DatasourceSync, TLC

CONSTANTS d1, d2, n1, n2

OwnNames == (d1 :> n1) @@ (d2 :> n2)
=============================================================================
