------------------------------ MODULE AnswerOnce ------------------------------
(***************************************************************************)
(* What every stage of a copy of the screen promises whoever asked for it: *)
(* an answer, never two, and never one that was not asked for.  The        *)
(* callback of a request is its only way back to the snapshot code, which  *)
(* waits for it.                                                           *)
(***************************************************************************)
CONSTANTS Requests, Answers, None

VARIABLES asked, answer

vars == <<asked, answer>>

Init == asked = {} /\ answer = [r \in Requests |-> None]

\* Requests are made, and some of those made get their answer: a new one may take the
\* place of an older one, and whoever goes away answers all it has.
Next ==
  /\ asked \subseteq asked' /\ asked' \subseteq Requests
  /\ answer' \in [Requests -> Answers \cup {None}]
  /\ \A r \in Requests : answer'[r] # answer[r] => r \in asked' /\ answer[r] = None

Spec == Init /\ [][Next]_vars

Owed == {r \in asked : answer[r] = None}

\* The requests are finitely many, so at some time none is left to answer.
EachIsAnswered == Owed # {} ~> Owed = {}

LiveSpec == Spec /\ EachIsAnswered
===============================================================================
