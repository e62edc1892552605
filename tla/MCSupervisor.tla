---------------------------- MODULE MCSupervisor ----------------------------
(***************************************************************************)
(* Instances of Supervisor for TLC: one descendant, a cap of one unit of   *)
(* output, pipes that hold one unit.                                       *)
(***************************************************************************)
EXTENDS Supervisor

\* Enough on stdout to go one past the one unit that is read beyond the cap, and a word on stderr.
OversizedWrites == [s \in Streams |-> IF s = "out" THEN 3 ELSE 1]

\* A bundle within the cap, and a chatty stderr.
ChattyWrites == [s \in Streams |-> IF s = "out" THEN 1 ELSE 3]

\* A bundle within the cap.
SmallWrites == [s \in Streams |-> IF s = "out" THEN 1 ELSE 0]
=============================================================================
