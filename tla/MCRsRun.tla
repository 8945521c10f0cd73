------------------------------- MODULE MCRsRun -------------------------------
(***************************************************************************)
(* RsRun for TLC: a run of two jobs, realtime or backfill; a run of one    *)
(* job whose message is delivered twice; a message that selects no pair;   *)
(* and a run id with a lower-case letter.                                  *)
(***************************************************************************)
EXTENDS RsRun, TLC

CONSTANTS a, b

SceneOf(kind_, pairs, deliveries, sameId) ==
  [kind |-> kind_, pairs |-> pairs, deliveries |-> deliveries, sameId |-> sameId]

MCScenes == {SceneOf("realtime", {a, b}, 1, TRUE), SceneOf("backfill", {a, b}, 1, TRUE),
             SceneOf("realtime", {a}, 2, TRUE), SceneOf("realtime", {}, 1, TRUE),
             SceneOf("realtime", {a}, 1, FALSE)}
\* A run id with a lower-case letter.
LowerCase == {SceneOf("realtime", {a}, 1, FALSE)}
=============================================================================
