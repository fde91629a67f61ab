------------------------------ MODULE MCScreen ------------------------------
(* Three flows: two share a source host, two a destination host, and all a   *)
(* destination port.                                                         *)
EXTENDS Screen

MCFlow ==
    {[src |-> "a", dst |-> "b", src_port |-> 1, dst_port |-> 9, protocol |-> 6],
     [src |-> "a", dst |-> "c", src_port |-> 2, dst_port |-> 9, protocol |-> 6],
     [src |-> "b", dst |-> "c", src_port |-> 1, dst_port |-> 9, protocol |-> 6]}

MCTwo == {f \in MCFlow : f.src = "a"}

MCStar == "*"

MCRank == [h \in {"*", "a", "b", "c"} |-> CASE h = "*" -> 1 [] h = "a" -> 2 [] h = "b" -> 3 [] h = "c" -> 4]

MCDivs == [d \in 0 .. 2 |-> IF d < HISTORY_LENGTH THEN d + 1 ELSE HISTORY_LENGTH]

Session(ethernet, keys, flows, sides, bytes) ==
    [ethernet |-> ethernet, keys |-> keys, flows |-> flows, sides |-> sides, bytes |-> bytes]

(* On Ethernet: aggregation, freezing in the middle of an analysis, another  *)
(* column or another order in the middle of a sort; elsewhere: freezing and  *)
(* pausing.                                                                  *)
MCSessions ==
    {Session(TRUE, {"d", "S"}, MCTwo, Sides, 2),
     Session(TRUE, {"o", "s"}, MCTwo, {"sent"}, 2),
     Session(TRUE, {"<", "3"}, MCFlow, {"sent"}, 3),
     Session(TRUE, {">", "t"}, MCTwo, Sides, 2),
     Session(FALSE, {"o", "P", "1"}, MCTwo, Sides, 2)}
=============================================================================
