----------------------------- MODULE MCFederation -----------------------------
(* Two nodes that list each other; the first also discovers itself, under    *)
(* another name.                                                             *)
EXTENDS Federation

MCLeadsTo    == [b |-> "B", a |-> "A", alias |-> "A"]
MCConfigured == [A |-> {"b"}, B |-> {"a"}]
MCDiscovered == [A |-> {"alias"}, B |-> {}]
MCMaxPolls   == [A |-> 1, B |-> 2]
MCReadings   == {[k \in {1, 2} |-> IF k = 1 THEN "bad" ELSE "good"]}
===============================================================================
