---------------------------- MODULE WitnessedInput ----------------------------
(***************************************************************************)
(* What ChromePic promises about input: the events of a widget take effect *)
(* in the order the user made them, and an event that is to be recorded    *)
(* takes effect only after its own screenshot request was answered, so the *)
(* picture shows the page as it was before the event.                      *)
(* ScreenshotBarrier is shown to implement this.                           *)
(***************************************************************************)
EXTENDS Sequences

CONSTANTS Widgets,   \* the widgets that receive input
          Events     \* records [ticket, shot, ...]: ticket names the screenshot

VARIABLES offered,   \* offered[w]: events of w that have not taken effect yet
          witnessed, \* tickets of the answered screenshot requests
          taken      \* taken[w]: events of w that took effect, in order
vars == <<offered, witnessed, taken>>

Init ==
  /\ offered = [w \in Widgets |-> <<>>]
  /\ witnessed = {}
  /\ taken = [w \in Widgets |-> <<>>]

\* The user acts; the screenshot may be answered at once (it failed).
Offer(w) ==
  /\ offered'[w] # <<>>
  /\ LET e == offered'[w][Len(offered'[w])]
     IN  /\ e \in Events
         /\ offered' = [offered EXCEPT ![w] = Append(@, e)]
         /\ witnessed' \in {witnessed, witnessed \cup {e.ticket}}
  /\ UNCHANGED taken

\* A screenshot request is answered.
Witness ==
  /\ \E t \in witnessed' : witnessed' = witnessed \cup {t}
  /\ UNCHANGED <<offered, taken>>

Take(w) ==
  /\ offered[w] # <<>>
  /\ Head(offered[w]).shot => Head(offered[w]).ticket \in witnessed
  /\ offered' = [offered EXCEPT ![w] = Tail(@)]
  /\ taken' = [taken EXCEPT ![w] = Append(@, Head(offered[w]))]
  /\ UNCHANGED witnessed

Next ==
  \/ \E w \in Widgets : Offer(w) \/ Take(w)
  \/ Witness

Spec == Init /\ [][Next]_vars
===============================================================================
