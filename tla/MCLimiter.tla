------------------------------ MODULE MCLimiter ------------------------------
(* Small instances of LimitingFetcher for TLC.                             *)
EXTENDS LimitingFetcher

(* The first call is a single fetch, the others one bulk's seeds.          *)
OneBulk == [c \in Calls |-> IF c = 1 THEN "single" ELSE "bulk"]
=============================================================================
