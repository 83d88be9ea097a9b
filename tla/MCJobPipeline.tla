---------------------------- MODULE MCJobPipeline ----------------------------
(***************************************************************************)
(* Instances of JobPipeline for TLC.  j1 is a scrape, j2 a crawl, j3 a   *)
(* scrape that asks for no attempt at all and j4 a map.                    *)
(***************************************************************************)
EXTENDS JobProperties

CONSTANTS j1, j2, j3, j4, w1, w2, w3, p1, p2

MCKind ==
    [j \in Jobs |-> CASE j = j2 -> "crawl" [] j = j4 -> "map" [] OTHER -> "scrape"]

MCRetries == [j \in Jobs |-> IF j = j3 THEN 0 ELSE 3]

\* w2 has a process of its own.
MCHomeSplit == [w \in Workers |-> IF w = w2 THEN p2 ELSE p1]
MCHomeOne   == [w \in Workers |-> p1]
=============================================================================
