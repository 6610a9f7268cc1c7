---------------------------- MODULE MCAlpacaApi ----------------------------
(* Small instances of AlpacaApi for TLC. *)
EXTENDS AlpacaApi

OneOfEach == [type \in DeviceTypes |-> 1]

Request(ep, query, form) ==
  [ep |-> ep, number |-> 0, query |-> query, longQuery |-> FALSE, form |-> form, isForm |-> TRUE]

The(type, verb, name) ==
  CHOOSE e \in EndpointsOf[type] : e.verb = verb /\ e.name = name

\* A handful of requests for the run about tasks: one for each way through the
\* handlers.
SetSwitchValue == The("switch", "PUT", "setswitchvalue")
FewInputs ==
  {Request(Description, <<>>, <<>>),
   Request(SetSwitchValue, <<>>, <<Item("Id", "1"), Item("Value", "12")>>),
   Request(SetSwitchValue, <<Uncased("ClientTransactionID", "12")>>, <<Item("Id", "1.5"), Item("Value", "12")>>),
   [Request(SetSwitchValue, <<>>, <<Item("Id", "1"), Item("Value", "1.5")>>)
      EXCEPT !.longQuery = TRUE]}
=============================================================================
