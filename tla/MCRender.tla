------------------------------ MODULE MCRender ------------------------------
(* Small instances of RenderRoute for TLC.                                 *)
EXTENDS RenderRoute

(* What each request of an instance is.                                    *)
PoolKinds == [r \in Requests |->
  CASE r \in {1, 2} -> "essential" [] r = 3 -> "post" [] r \in {4, 5} -> "other"
    [] r = 6 -> "blocked" [] OTHER -> "preflight"]
PageKinds == [r \in Requests |->
  CASE r = 1 -> "navigation" [] r \in {2, 3} -> "post"
    [] r = 4 -> "essential" [] OTHER -> "other"]

(* One byte in every POST body, or none.                                   *)
NoBodies == [r \in Requests |-> 0]
PostBodies == [r \in Requests |-> IF Kind[r] = "post" THEN 1 ELSE 0]
=============================================================================
