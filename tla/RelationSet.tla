---------------------------- MODULE RelationSet ----------------------------
(* What the pool of threads promises about the relations between objects   *)
(* of the in-memory database: each relation the code base implies is added *)
(* once, nothing else is, and in the end all are there, whatever the order *)
(* the threads take.                                                       *)
CONSTANT Wanted
VARIABLE pairs

Init == pairs = {}

Add(p) ==
  /\ p \notin pairs
  /\ pairs' = pairs \cup {p}

Next == \E p \in Wanted : Add(p)

Spec == Init /\ [][Next]_pairs /\ WF_pairs(Next)
=============================================================================
