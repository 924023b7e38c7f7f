----------------------------- MODULE MCExpertCache -----------------------------
(* The expert cache for TLC: a layer of two slots and a layer of one, routed *)
(* two experts at a time, so that one plan can hold a hit and a victim.      *)
EXTENDS ExpertCache

MCSlots == 0..2
MCLayerOf == [s \in MCSlots |-> IF s = 2 THEN 2 ELSE 1]
===============================================================================
