------------------------- MODULE MCScreenshotBarrier -------------------------
(* ScreenshotBarrier for TLC: two widgets, in one process or in two.         *)
EXTENDS ScreenshotBarrier

CONSTANTS w1, w2, p1, p2

OneProcess == [w \in Widgets |-> p1]
OwnProcess == [w \in Widgets |-> IF w = w1 THEN p1 ELSE p2]

Record == [shot |-> TRUE, dom |-> FALSE, kind |-> "plain"]
Ignore == [shot |-> FALSE, dom |-> FALSE, kind |-> "plain"]
DomOnly == [shot |-> FALSE, dom |-> TRUE, kind |-> "plain"]
Wheel  == [shot |-> TRUE, dom |-> FALSE, kind |-> "scroll"]

AllDecisions == {Record, Wheel}
DomDecisions == {Record, Ignore, DomOnly}
RecordDecisions == {Record}
=============================================================================
