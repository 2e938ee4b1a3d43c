------------------------------ MODULE MCWindow ------------------------------
(***************************************************************************)
(* Window on a chain whose every fourth block has three slots.             *)
(***************************************************************************)
EXTENDS WindowInv

MCFirstTx == [h \in 1..(MaxHeight + 1) |-> (h - 1) + 2 * (h \div 4)]
=============================================================================
