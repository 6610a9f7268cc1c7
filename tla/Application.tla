---- MODULE Application ----
(***************************************************************************)
(* An application of the library (examples/main.cpp, with enough route     *)
(* slots): tasks of HTTP servers describe the server and call the roof,    *)
(* one request at a time each; tasks of the application set the server's   *)
(* name and location; and the chip restarts.                               *)
(***************************************************************************)
EXTENDS ServerStrings, RollOffRoof

ASSUME ApplicationAssumption == Callers = Tasks

vars == <<stringVars, roofVars>>

Init == InitStrings /\ InitRoof

Set(w) == SetterSteps(w) /\ UNCHANGED roofVars

\* The next request of a task; its last answer is gone.
StartDescription(t) ==
  /\ Ask(t)
  /\ answer' = [answer EXCEPT ![t] = Unknown]
  /\ UNCHANGED roof

Describe(t) == DescribeSteps(t) /\ UNCHANGED roofVars

\* A task between two requests takes one for the roof.
CallRoof(t) == visit[t].at = 0 /\ RoofSteps(t) /\ UNCHANGED stringVars

\* app_main runs again from its first line, with new objects.
Restart == RestartStrings /\ RestartRoof

Next ==
  \/ \E w \in Setters : Set(w)
  \/ \E t \in Tasks : StartDescription(t)
  \/ \E t \in Tasks : Describe(t)
  \/ \E t \in Tasks : CallRoof(t)
  \/ Restart

\* A handler that runs goes on.  Nothing is promised of clients, of the
\* application's own calls, or of restarts.
RunsOn(t) == WF_vars(Describe(t))
Fairness == \A t \in Tasks : RunsOn(t)

Spec == Init /\ [][Next]_vars /\ Fairness

----------------------------------------------------------------------------
\* The type of every variable, in both components.
TypeOK == StringsTypeOK /\ RoofTypeOK
====
