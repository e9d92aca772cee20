----------------------------- MODULE MCPhaseFilter -----------------------------
(* Every project of none, two or three phases with one element and two rooms,  *)
(* whose records may name the third phase where the project has two.           *)
EXTENDS PhaseFilter

CONSTANTS p1, p2, p3

MCOrders == {<<>>, <<p1, p2>>, <<p1, p2, p3>>}
MCCopies == {{p1}, {p2}, {p3}, {None}, {p1, p2}}
================================================================================
