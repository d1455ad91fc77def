---------------------------- MODULE MCWidgetSize ----------------------------
(* Small instances of WidgetSize: sizes with and without a physical backing. *)
EXTENDS WidgetSize

CONSTANTS s1, s2, b1, b2

MCViews == {Params(None, None), Params(s1, None), Params(s1, b1), Params(s2, b2)}
=============================================================================
