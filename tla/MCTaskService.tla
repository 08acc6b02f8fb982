--------------------------- MODULE MCTaskService ---------------------------
(***************************************************************************)
(* TaskService on small instances, for TLC.  Nodes, requests, keys, values *)
(* and task identifiers are model values that the specification treats     *)
(* alike.                                                                  *)
(***************************************************************************)
EXTENDS TaskService, TLC

Symmetry == UNION {Permutations(S) : S \in {Node, Request, Key, Value, TaskID}}

\* Bound: once the clock has ticked only one request is made.
OneAfterTick ==
  clock > 0 => Cardinality({r \in Request : request[r].pc # "new"}) <= 1
=============================================================================
