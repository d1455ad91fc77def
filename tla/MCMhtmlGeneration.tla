-------------------------- MODULE MCMhtmlGeneration --------------------------
(* MhtmlGeneration for TLC: a main frame, a frame of the same process and a  *)
(* frame of another one.                                                     *)
EXTENDS MhtmlGeneration

MCFrames == <<"main", "child", "oopif">>
MCHostOf == [f \in FrameSet |-> IF f = "oopif" THEN "p2" ELSE "p1"]
=============================================================================
