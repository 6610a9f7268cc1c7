--------------------------- MODULE MCAlpacaTable ---------------------------
(* AlpacaApi for one request at a time, over the whole table of endpoints. *)
EXTENDS AlpacaApi

OneOfEach == [type \in DeviceTypes |-> 1]

Request(ep, query, form) ==
  [ep |-> ep, number |-> 0, query |-> query, longQuery |-> FALSE, form |-> form, isForm |-> TRUE]

\* A driver's code that has a message only after it is cut to 16 bits.
TableErrors == {65536 + 1024}

\* Every endpoint with every way to give one parameter, the other one, if there
\* is one, being plain.
Odd(p) == {<<>>} \cup {<<Item(p.key, v)>> : v \in Values}
            \cup {<<Uncased(p.key, "1")>>, <<Item(p.key, "1"), Item(p.key, "12")>>,
                  <<Uncased(p.key, "12"), Item(p.key, "true")>>,
                  <<Bare("x"), Item(p.key, "1"), Item(p.key, "12")>>}
Plain(p) ==
  <<Item(p.key, IF p.kind \in LostKinds THEN "1"
                ELSE CHOOSE v \in Accepts(p.kind) : v \notin {"", "1.5"})>>
Givings(e) ==
  CASE Len(e.params) = 0 -> {<<>>}
    [] Len(e.params) = 1 -> Odd(e.params[1])
    [] OTHER -> {o \o Plain(e.params[2]) : o \in Odd(e.params[1])}
                  \cup {Plain(e.params[1]) \o o : o \in Odd(e.params[2])}

Endpoints == DeviceEndpoints \cup TelescopeHandlers \cup ManagementEndpoints
EveryEndpoint ==
  UNION {{Request(e, g, <<>>) : g \in Givings(e)} \cup {Request(e, <<>>, g) : g \in Givings(e)} :
           e \in Endpoints}

\* The client's numbers before, between and after the parameters, and requests
\* that are too long or no form, for endpoints of each number of parameters.
Few == {ApiVersions} \cup {e \in EndpointsOf["switch"] : e.name \in {"maxswitch", "setswitchname"}}
Numbers == {<<Item("ClientTransactionID", "12")>>, <<Uncased("ClientTransactionID", "1")>>,
            <<Item("ClientID", "12"), Item("ClientTransactionID", "junk")>>,
            <<Item("ClientTransactionID", "1"), Bare("ClientID"), Item("ClientTransactionID", "12")>>}
Numbered ==
  UNION {UNION {{Request(e, n \o g, m), Request(e, m, g \o n)} : g \in Givings(e)} :
           e \in Few, n \in Numbers, m \in Numbers}
Unread ==
  LET Plainly == UNION {{Request(e, n \o g, n \o g) : g \in Givings(e)} : e \in Few, n \in Numbers} IN
  {[in EXCEPT !.longQuery = TRUE] : in \in Plainly}
    \cup {[in EXCEPT !.isForm = FALSE] : in \in Plainly}

EveryInput == EveryEndpoint \cup Numbered \cup Unread
=============================================================================
