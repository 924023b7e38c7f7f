----------------------------- MODULE MCModelStore -----------------------------
(* Two models of two shards each, in a store that has room for one and a    *)
(* half, with a branch that moves between them.                             *)
EXTENDS ModelStore

CONSTANTS m1, m2, main

MCRequests ==
  {[kind |-> "fetch", ref |-> main, consent |-> TRUE],
   [kind |-> "install", ref |-> m2, consent |-> TRUE],
   [kind |-> "setup", ref |-> m1, consent |-> FALSE, terminal |-> FALSE],
   [kind |-> "setup", ref |-> m1, consent |-> FALSE, terminal |-> TRUE]}

MCSize == [m \in Commits |-> 2]
===============================================================================
