--------------------------- MODULE MCInputRouter ---------------------------
(* InputRouter for TLC: a sample of each class, two types where a rule       *)
(* compares types.                                                           *)
EXTENDS InputRouter

U(kind, type) == [kind |-> kind, type |-> type]

MCUserEvents == { U("move", "-"), U("press", "-"),
                  U("wheel", "plain"), U("wheel", "ctrl"),
                  U("key", "down"), U("gesture", "fling"),
                  U("select", "range"), U("select", "extent"), U("caret", "-") }

\* Any two events; a third where all are of one kind, or are moves, gestures and keys; and
\* a fourth where a mouse move and a gesture are held at the same time: that takes four,
\* one of each with the renderer.
FewEvents ==
  LET kinds == {seen[n].kind : n \in DOMAIN seen}
  IN  /\ Len(seen) > 2 => Cardinality(kinds) = 1 \/ kinds \subseteq {"move", "gesture", "key"}
      /\ Len(seen) > 3 => kinds \subseteq {"move", "gesture"}

=============================================================================
