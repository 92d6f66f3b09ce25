---------------------------- MODULE MCExecutor ----------------------------
(***************************************************************************)
(* Executor with two categories, of two tests and of one.                  *)
(***************************************************************************)
EXTENDS Executor

MCCategoryOrder == <<"status", "crl">>
MCTests == [k \in {"status", "crl"} |-> IF k = "status" THEN {"t1", "t2"} ELSE {"t3"}]
=============================================================================
