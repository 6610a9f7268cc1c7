--------------------------- MODULE MCAlpacaRoutes ---------------------------
(* Small instances of AlpacaRoutes for TLC. *)
EXTENDS AlpacaRoutes

\* Three devices of two types, two of them with the same name.
MixedList ==
  <<[type |-> "switch", name |-> <<10>>], [type |-> "safetymonitor", name |-> <<10>>],
    [type |-> "switch", name |-> <<11>>]>>
Twins == <<[type |-> "switch", name |-> <<10>>], [type |-> "switch", name |-> <<10>>]>>

\* examples/main.cpp: RollOffRoof is a Dome.
ExampleList == <<[type |-> "dome", name |-> <<10>>]>>
=============================================================================
