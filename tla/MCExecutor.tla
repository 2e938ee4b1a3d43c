----------------------------- MODULE MCExecutor -----------------------------
(***************************************************************************)
(* Executor on a chain whose every fourth block has three slots.           *)
(***************************************************************************)
EXTENDS Executor

MCFirstTx == [h \in 1..(MaxHeight + 1) |-> (h - 1) + 2 * (h \div 4)]
=============================================================================
