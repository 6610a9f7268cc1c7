--------------------------- MODULE AlpacaRequests ---------------------------
(***************************************************************************)
(* Requests and replies of the HTTP API, and what parse_request and the    *)
(* handlers read from a request.                                           *)
(***************************************************************************)
EXTENDS TelescopeEndpoints, Integers, FiniteSets

CONSTANTS
  Requests,     \* identities of requests
  None,         \* no request, no task, no reply
  Inputs,       \* what a request may be
  NumDevices,   \* how many devices of each type the application has
  DriverErrors, \* the esp_err_t values that drivers return, besides ALPACA_OK
  IdRange       \* how many transaction numbers a counter can hold

\* A key=value item of a query or form: its key up to case, whether its case is
\* the documented one, and the value; bare when it has no '='.
Item(key, val) == [key |-> key, val |-> val, cased |-> TRUE, bare |-> FALSE]
Uncased(key, val) == [Item(key, val) EXCEPT !.cased = FALSE]
Bare(key) == [Item(key, "") EXCEPT !.bare = TRUE]
Items == [key : STRING, val : Values, cased : BOOLEAN, bare : BOOLEAN]

(***************************************************************************)
(* A request: the endpoint it is for, the device number in its URI, its    *)
(* query and whether that is longer than 512 bytes, the form it carries    *)
(* and whether parse_request reads it: it must be shorter than 4096 bytes  *)
(* and have the Content-Type of a form.                                    *)
(***************************************************************************)
InputType ==
  [ep : DeviceEndpoints \cup TelescopeHandlers \cup ManagementEndpoints, number : Nat,
   query : Seq(Items), longQuery : BOOLEAN, form : Seq(Items), isForm : BOOLEAN]

ASSUME InputsAssumption == \A in \in Inputs : in \in InputType
ASSUME NoneAssumption == None \notin Inputs /\ None \notin Requests
ASSUME NoArgumentsAssumption ==
  \A in \in Inputs : None \notin [DOMAIN in.ep.params -> Values \cup {"0", "NaN"}]
ASSUME DevicesAssumption == NumDevices \in [DeviceTypes -> Nat]
ASSUME ErrorsAssumption == DriverErrors \subseteq Int \ {0}
ASSUME RangeAssumption == IdRange \in Nat \ {0}

IsManagement(in) == in.ep \in ManagementEndpoints

-----------------------------------------------------------------------------
(* parse_request                                                           *)

\* The device number is read with %hhd into a uint8_t.  A management path has
\* no device type, which is DeviceType::Unknown and not found.
ByteRange == 256
DeviceNumber(in) == in.number % ByteRange

ParseResult(in) ==
  CASE in.longQuery -> "invalidSize"
    [] ~in.longQuery /\ IsManagement(in) -> "notFound"
    [] ~in.longQuery /\ ~IsManagement(in) ->
         IF DeviceNumber(in) >= NumDevices[in.ep.type] THEN "notFound" ELSE "ok"

\* parse_string cuts at the next '=' and then at the next '&': an item without
\* '=' becomes part of the key of the next one, which no handler looks for.
Readable(items, i) == ~items[i].bare /\ (i > 1 => ~items[i - 1].bare)

\* What is parsed of the query, and of the part of the form that was received.
QueryOf(in) == IF in.longQuery THEN <<>> ELSE in.query
FormOf(in, part) == IF in.longQuery \/ ~in.isForm THEN <<>> ELSE part

\* The client's numbers: in any case in a query, in the documented case in a form.
\* The last ClientTransactionID counts, and a form's comes after a query's.
ClientNumbers(items, caseSensitive) ==
  {i \in DOMAIN items : /\ Readable(items, i)
                        /\ items[i].key = "ClientTransactionID"
                        /\ items[i].cased \/ ~caseSensitive}

LastClientTransactionId(items, caseSensitive, before) ==
  LET at == ClientNumbers(items, caseSensitive) IN
  IF at = {} THEN before ELSE Atoi(items[CHOOSE i \in at : \A j \in at : j <= i].val)

ClientTransactionId(in, part) ==
  LastClientTransactionId(FormOf(in, part), TRUE,
    LastClientTransactionId(QueryOf(in), FALSE, 0))

-----------------------------------------------------------------------------
(* The parameters of a handler                                             *)

\* Wrong on purpose: the case of the keys never matters.
MatchingAnyCase(items, p) == {i \in DOMAIN items : Readable(items, i) /\ items[i].key = p.key}

\* cJSON_GetObjectItem[CaseSensitive] finds the first item with the key in the
\* body, where the query's items come before the form's.
Matching(items, p) ==
  {i \in DOMAIN items : /\ Readable(items, i)
                        /\ items[i].key = p.key /\ (items[i].cased \/ p.anyCase)}
Found(items, p) ==
  items[CHOOSE i \in Matching(items, p) : \A j \in Matching(items, p) : i <= j].val

Given(in, part, p) ==
  IF Matching(QueryOf(in), p) # {} THEN Found(QueryOf(in), p)
  ELSE IF Matching(FormOf(in, part), p) # {} THEN Found(FormOf(in, part), p)
  ELSE Missing

\* What parse_request leaves to the handler, of the body only what that looks up:
\* the values of its parameters, and the client's number.
Parsed(in, part) ==
  [values |-> [i \in DOMAIN in.ep.params |-> Given(in, part, in.ep.params[i])],
   clientTx |-> ClientTransactionId(in, part)]
Unparsed == [values |-> <<>>, clientTx |-> 0]

\* What the handler may make of its i-th parameter.
Readings(ep, values, i) == Meanings(ep.params[i].kind, values[i])

MayRefuse(ep, values) == \E i \in DOMAIN ep.params : Refused \in Readings(ep, values, i)
MayCrash(ep, values) == \E i \in DOMAIN ep.params : Crash \in Readings(ep, values, i)

\* What the driver may be called with.
Arguments(ep, values) ==
  LET D == DOMAIN ep.params IN
  {a \in [D -> (UNION {Readings(ep, values, i) : i \in D}) \ {Refused, Crash}] :
     \A i \in D : a[i] \in Readings(ep, values, i)}

-----------------------------------------------------------------------------
(* Replies                                                                 *)

\* send_error_response: a status and no body.
ErrorReply(status) ==
  [status |-> status, tx |-> 0, clientTx |-> 0, error |-> 0, message |-> 0, whole |-> TRUE]

\* The messages of error_message, each by the code it is for.  The code is cut to
\* 16 bits on the way; for others the message is "Unknown error", here 0.
KnownErrors == {1024, 1025, 1026, 1031, 1032, 1033, 1035, 1036}
MessageFor(err) == LET code == err % 65536 IN IF code \in KnownErrors THEN code ELSE 0

\* send_json_response: status 200, also when the driver returned an error.
JsonReply(number, clientNumber, err, whole) ==
  [status |-> 200, tx |-> number, clientTx |-> clientNumber,
   error |-> err, message |-> MessageFor(err), whole |-> whole]

Replies == [status : {200, 400, 404}, tx : Int, clientTx : Nat,
            error : Int, message : Nat, whole : BOOLEAN]

ASSUME NoReplyAssumption == None \notin Replies

\* Wrong on purpose: the number goes through a field of half the width.
ShownNarrow(n) == n % (IdRange \div 2)

\* A reply shows the unsigned counter as an int32_t.
Shown(n) ==
  LET low == n % IdRange IN IF 2 * low < IdRange THEN low ELSE low - IdRange

\* cJSON_PrintPreallocated into 512 bytes: what it cut off is sent all the same.
\* The error fields that replace a value fit.
Prints(ep, err) == IF MayOverflow(ep) /\ err = 0 THEN {TRUE, FALSE} ELSE {TRUE}

-----------------------------------------------------------------------------
(* What a request says, without the steps that read it.                    *)

\* a is what the client sent under the name of parameter i, in the query or the
\* form, and a valid value of its kind, converted.
Sendings(in, p) ==
  {in.query[i].val : i \in {j \in DOMAIN in.query : in.query[j].key = p.key}}
    \cup {in.form[i].val : i \in {j \in DOMAIN in.form : in.form[j].key = p.key}}

WasSent(in, i, a) ==
  LET p == in.ep.params[i] IN
  \E v \in Sendings(in, p) : v \in Accepts(p.kind) /\ a = Converted(p.kind, v)
=============================================================================
