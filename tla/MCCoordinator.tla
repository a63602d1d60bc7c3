--------------------------- MODULE MCCoordinator ---------------------------
(***************************************************************************)
(* The instance of test_multiprocess.cpp: workers A (boot 100) and B (200) *)
(* the replacement A2 (300), and A3 (400) and B3 (500) for the recovery.   *)
(* In the test A stalls after one request; in the wider instance it may    *)
(* also stall after two, or never.                                         *)
(***************************************************************************)
EXTENDS Multiprocess

Names == {"A", "B", "A2", "A3", "B3"}

TestBoots ==
  [w \in Names |-> CASE w = "A" -> 100 [] w = "B" -> 200 [] w = "A2" -> 300
                      [] w = "A3" -> 400 [] w = "B3" -> 500]

TestStall == [w \in Names |-> IF w = "A" THEN {1} ELSE {3}]

AnyStall == [w \in Names |-> IF w = "A" THEN {1, 2, 3} ELSE {3}]

=============================================================================
