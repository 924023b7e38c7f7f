-------------------------- MODULE MCExperimentRunner --------------------------
(* Two invocations over a schedule of a warmup and a measured run, the      *)
(* second under a pressure worker.                                          *)
EXTENDS ExperimentRunner

MCSchedule == <<[pressure |-> FALSE, warmup |-> TRUE], [pressure |-> TRUE, warmup |-> FALSE]>>
===============================================================================
