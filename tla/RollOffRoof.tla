---- MODULE RollOffRoof ----
(***************************************************************************)
(* The example's driver (examples/roll_off_roof.cpp): a dome without       *)
(* motors.  Commands assign a member; only _connected is ever initialised. *)
(* Azimuths are asked for in thousandths of a degree and kept in           *)
(* hundredths.                                                             *)
(***************************************************************************)
EXTENDS Naturals

CONSTANTS
  Azimuths,     \* azimuths clients ask for, in thousandths of a degree
  Unfit,        \* azimuths no uint32_t can hold (negative, too large, NaN), or
                \* too large for a float to tell a hundredth of a degree
  Leftovers,    \* what an uninitialised or undefined number may be
  LeftShutters, \* what an uninitialised shutter state may be
  Callers,      \* tasks that call the driver
  Unknown       \* no answer yet

VARIABLES
  roof,         \* the members: connected, centi (azimuth) and shutter
  answer        \* history: what each caller's last command was and answered

roofVars == <<roof, answer>>

\* Dome::ShutterState.
ShutterStates == {"Open", "Closed", "Opening", "Closing", "Error"}

\* Below 2^20 hundredths of a degree a float of 24 bits is off by at most 5 hundredths
\* of one for the azimuth (2^-11 degrees) and 4 for its product with 100 (2^-5): not by
\* the tenth of a hundredth that would take Hundredths beyond its bounds.
MaxAzimuth == 10485760

ASSUME RoofAssumption ==
  /\ Azimuths \subseteq 0..MaxAzimuth
  /\ Leftovers \subseteq Nat
  /\ Leftovers # {}
  /\ LeftShutters \subseteq ShutterStates
  /\ LeftShutters # {}
  /\ Unfit \cap Nat = {}
  /\ Unknown \notin [command : STRING, ok : BOOLEAN]

----------------------------------------------------------------------------
\* What the interface says the roof can do, by the command it speaks of.
Abilities ==
  [slewtoazimuth |-> TRUE, synctoazimuth |-> TRUE, findhome |-> TRUE, openshutter |-> TRUE,
   closeshutter |-> TRUE, park |-> FALSE, setpark |-> FALSE, slewtoaltitude |-> FALSE,
   slaved |-> FALSE]

\* Wrong on purpose: setpark is taken, with nothing to do it.
RefusingFewer == {"park", "slewtoaltitude", "slaved"}

\* Commands that return an error and do nothing.
Refusing == {"park", "setpark", "slewtoaltitude", "slaved"}

\* azimuth * 100 as a uint32_t: the fraction is cut off, and the product of
\* floating-point numbers may lie just below a whole number.  What becomes of an
\* unfit azimuth is not pinned down.
Hundredths(a) == IF a \in Unfit THEN Leftovers ELSE {c \in 0..a : 10 * c <= a /\ a <= 10 * c + 10}

\* Members are left uninitialised by the constructor but for one.
FreshRoofs == [connected : {FALSE}, centi : Leftovers, shutter : LeftShutters]
NoAnswers == [t \in Callers |-> Unknown]

InitRoof == roof \in FreshRoofs /\ answer = NoAnswers
RestartRoof == roof' \in FreshRoofs /\ answer' = NoAnswers

Answers(t, command, ok) == answer' = [answer EXCEPT ![t] = [command |-> command, ok |-> ok]]

SetConnected(connected) ==
  /\ roof' = [roof EXCEPT !.connected = connected]
  /\ UNCHANGED answer

\* put_slewtoazimuth and put_synctoazimuth are the same.
Turn(t, command, a) ==
  /\ \E c \in Hundredths(a) : roof' = [roof EXCEPT !.centi = c]
  /\ Answers(t, command, TRUE)

FindHome(t) ==
  /\ roof' = [roof EXCEPT !.centi = 0]
  /\ Answers(t, "findhome", TRUE)

MoveShutter(t, command, state) ==
  /\ roof' = [roof EXCEPT !.shutter = state]
  /\ Answers(t, command, TRUE)

\* Nothing moves: put_abortslew has nothing to stop, the others refuse.
DoNothing(t) ==
  /\ \E command \in {"abortslew", "park", "setpark", "slewtoaltitude", "slaved"} :
       Answers(t, command, command \notin Refusing)
  /\ UNCHANGED roof

RoofSteps(t) ==
  \/ \E connected \in BOOLEAN : SetConnected(connected)
  \/ \E a \in Azimuths \cup Unfit, command \in {"slewtoazimuth", "synctoazimuth"} : Turn(t, command, a)
  \/ FindHome(t)
  \/ MoveShutter(t, "openshutter", "Open")
  \/ MoveShutter(t, "closeshutter", "Closed")
  \/ DoNothing(t)

----------------------------------------------------------------------------
\* The type of every variable.
RoofTypeOK ==
  /\ roof \in [connected : BOOLEAN, centi : Nat, shutter : ShutterStates]
  /\ answer \in [Callers -> [command : DOMAIN Abilities \cup {"abortslew"}, ok : BOOLEAN] \cup {Unknown}]

\* A command is refused exactly if the roof says that it cannot obey it: the
\* get_can... answers agree with the commands, one by one.
RefusesWhatItCannot ==
  \A t \in Callers :
    answer[t] # Unknown /\ answer[t].command \in DOMAIN Abilities
      => answer[t].ok = Abilities[answer[t].command]
====
