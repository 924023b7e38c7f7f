------------------------------ MODULE ExactStore ------------------------------
(***************************************************************************)
(* What the routed-expert cache promises the forward pass, with no cache   *)
(* in it: a layer asks for a set of experts, and the GPU either reads      *)
(* exactly the stored bytes of those experts or the layer's pass fails.    *)
(* Nothing the operating system does to memory is visible here; that is    *)
(* the claim "OS reclamation is an ordinary exact miss" of the design.     *)
(***************************************************************************)
EXTENDS Integers

CONSTANT Experts     \* the routed experts of one layer

VARIABLES
  asked,             \* the experts the router asked for in the current layer
  view               \* <<expert, bytes>> pairs a running GPU command reads

storeVars == <<asked, view>>

\* The immutable packed model: an expert's bytes are named by the expert.
Stored(e) == e

Init ==
  /\ asked = {}
  /\ view = {}

Ask(need) ==
  /\ asked = {} /\ view = {}
  /\ asked' = need
  /\ UNCHANGED view

Deliver ==
  /\ asked # {} /\ view = {}
  /\ view' = {<<e, Stored(e)>> : e \in asked}
  /\ UNCHANGED asked

\* The GPU command completed; the layer's request is still remembered.
Consume ==
  /\ view # {}
  /\ view' = {}
  /\ UNCHANGED asked

\* The layer is over (its answer consumed) or was given up after an error.
Retire ==
  /\ asked # {}
  /\ asked' = {}
  /\ view' = {}

Next ==
  \/ \E need \in (SUBSET Experts) \ {{}} : Ask(need)
  \/ Deliver
  \/ Consume
  \/ Retire

Spec == Init /\ [][Next]_storeVars
===============================================================================
