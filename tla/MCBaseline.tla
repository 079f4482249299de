----------------------------- MODULE MCBaseline -----------------------------
(* A small instance of Baseline: a stage of every class. *)
EXTENDS Baseline

MCStages == {"yosys", "binding", "eqy_smoke", "road_setup", "road_hold", "evidence", "opportunity"}
=============================================================================
