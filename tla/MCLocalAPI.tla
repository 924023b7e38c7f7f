------------------------------ MODULE MCLocalAPI ------------------------------
(* Two starts in one session, so that tasks of the first server meet the    *)
(* second one.                                                              *)
EXTENDS LocalAPIServer
===============================================================================
