----------------------------- MODULE MCAnalysis -----------------------------
(* Three experiments, none with its arms listed by cache size, and seven *)
(* kinds of rows, two of which are never admitted.                       *)
EXTENDS Analysis

Arm(n, c, p) == [name |-> n, cache |-> c, pressure |-> p]
Memory(free1, free2, swap1, swap2) ==
  <<[free |-> 40, compressor |-> 0, swap |-> 0],
    [free |-> free1, compressor |-> 0, swap |-> swap1],
    [free |-> free2, compressor |-> 0, swap |-> swap2]>>
Quiet(tps, hit, memory) == [tps |-> tps, hit |-> hit, native |-> 0, memory |-> memory]

MCSpecs ==
  {[arms |-> <<Arm("large", 2, 0), Arm("small", 1, 0)>>, repetitions |-> 3, telemetry |-> TRUE],
   [arms |-> <<Arm("b", 2, 0), Arm("a", 1, 0), Arm("p", 2, 1)>>, repetitions |-> 2,
    telemetry |-> FALSE],
   [arms |-> <<Arm("first", 2, 0), Arm("second", 2, 0)>>, repetitions |-> 2, telemetry |-> FALSE]}

MCObservations ==
  {Quiet(12, 1, Memory(40, 40, 0, 0)),
   Quiet(10, 2, Memory(40, 40, 5, 0)),
   Quiet(12, 2, Memory(40, 40, 5, 0)),
   Quiet(10, 2, Memory(15, 40, 0, 0)),
   Quiet(0, 2, Memory(30, 40, 5, 0)),
   Quiet(10, 2, <<[free |-> None, compressor |-> 0, swap |-> 0],
                   [free |-> None, compressor |-> 0, swap |-> 5]>>),
   [tps |-> 10, hit |-> None, native |-> 1,
    memory |-> <<[free |-> None, compressor |-> 0, swap |-> 0],
                 [free |-> 40, compressor |-> 300, swap |-> 0],
                 [free |-> 40, compressor |-> 0, swap |-> 4]>>]}
===============================================================================
