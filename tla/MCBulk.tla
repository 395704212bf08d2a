------------------------------ MODULE MCBulk ------------------------------
(* Small instances of CaptatumBulk for TLC.                                *)
EXTENDS CaptatumBulk

(* The first seed on a domain of its own, the others together.             *)
HomeApart == [s \in 1..NumSeeds |-> IF s = 1 THEN "a" ELSE "b"]

(* Every seed on a domain of its own, seed 1 on the victim's.              *)
HomeDirect5 == <<"victim", "a", "b", "c", "d">>

NoHosts == {{}}
VictimOrNot == {{}, {"victim"}}
===========================================================================
