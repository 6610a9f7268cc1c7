----------------------------- MODULE AlpacaApi -----------------------------
(***************************************************************************)
(* The life of HTTP requests in the API: the handlers of api.cpp, run by   *)
(* one task per HTTP server the API is registered with.  A handler parses  *)
(* the request, which gives it a transaction number from a counter the     *)
(* tasks share, validates the parameters, calls the driver and replies.    *)
(* The JSON trees it allocates on the way are followed on the heap.        *)
(***************************************************************************)
EXTENDS AlpacaRequests

CONSTANTS
  Workers,         \* the httpd tasks
  SegmentedBodies  \* whether httpd_req_recv may return only part of a body

ASSUME WorkersAssumption == None \notin Workers
ASSUME SegmentsAssumption == SegmentedBodies \in BOOLEAN

VARIABLES
  pc,       \* what each task does next
  cur,      \* the request it handles
  parsed,   \* what parse_request read of it
  err,      \* what the driver returned, 0 for ALPACA_OK
  reg,      \* the counter as the task read it
  lock,     \* _mutex: the task that holds it
  counter,  \* _server_transaction_id, of IdRange values
  heap,     \* the JSON trees allocated: <<request, "body">>, <<request, "root">>
  input,    \* what each request was
  tx,       \* its transaction number
  args,     \* the arguments its driver call had
  reply,    \* the reply it got
  drawn,    \* history: how many numbers were drawn
  order     \* history: which of them each request drew, counted from 1; 0 before

taskVars == <<pc, cur, parsed, err>>
txVars == <<reg, lock, counter, tx, drawn, order>>
vars == <<taskVars, txVars, heap, input, args, reply>>

Init ==
  /\ pc = [w \in Workers |-> "idle"]
  /\ cur = [w \in Workers |-> None]
  /\ parsed = [w \in Workers |-> Unparsed]
  /\ err = [w \in Workers |-> 0]
  /\ reg = [w \in Workers |-> 0]
  /\ lock = None
  /\ counter = 0
  /\ heap = {}
  /\ input = [r \in Requests |-> None]
  /\ tx = [r \in Requests |-> 0]
  /\ args = [r \in Requests |-> None]
  /\ reply = [r \in Requests |-> None]
  /\ drawn = 0
  /\ order = [r \in Requests |-> 0]

At(w, label) == pc[w] = label
Goto(w, label) == pc' = [pc EXCEPT ![w] = label]

\* After an abort nothing runs.
Running == \A w \in Workers : ~At(w, "aborted")

Body(w) == <<cur[w], "body">>
Root(w) == <<cur[w], "root">>

\* Wrong on purpose: the task still holds the request it replied to.
FinishKeepsRequest(w, answer) ==
  /\ reply' = [reply EXCEPT ![cur[w]] = answer]
  /\ Goto(w, "idle")
  /\ parsed' = [parsed EXCEPT ![w] = Unparsed]
  /\ UNCHANGED cur

\* The reply is out and the handler returns, which ends its local variables.
Finish(w, answer) ==
  /\ reply' = [reply EXCEPT ![cur[w]] = answer]
  /\ Goto(w, "idle")
  /\ cur' = [cur EXCEPT ![w] = None]
  /\ parsed' = [parsed EXCEPT ![w] = Unparsed]

-----------------------------------------------------------------------------
\* The server calls the handler of the route: parse_request allocates a body.
Accept(w, r, in) ==
  /\ At(w, "idle") /\ Running
  /\ input[r] = None
  /\ input' = [input EXCEPT ![r] = in]
  /\ cur' = [cur EXCEPT ![w] = r]
  /\ heap' = heap \cup {<<r, "body">>}
  /\ Goto(w, "lock")
  /\ UNCHANGED <<parsed, err, txVars, args, reply>>

\* Wrong on purpose: the counter is used without the mutex.
LockIgnored(w) ==
  /\ At(w, "lock")
  /\ lock' = w
  /\ Goto(w, "load")
  /\ UNCHANGED <<cur, parsed, err, reg, counter, tx, drawn, order, heap, input, args, reply>>

\* _mutex.lock(), ++_server_transaction_id as a load and a store, unlock().
Lock(w) ==
  /\ At(w, "lock")
  /\ lock = None
  /\ lock' = w
  /\ Goto(w, "load")
  /\ UNCHANGED <<cur, parsed, err, reg, counter, tx, drawn, order, heap, input, args, reply>>

\* Wrong on purpose: the counter is read by a function that locks the mutex too.
LoadLocksAgain(w) ==
  /\ At(w, "load")
  /\ lock = None
  /\ reg' = [reg EXCEPT ![w] = counter]
  /\ Goto(w, "store")
  /\ UNCHANGED <<cur, parsed, err, lock, counter, tx, drawn, order, heap, input, args, reply>>

Load(w) ==
  /\ At(w, "load")
  /\ reg' = [reg EXCEPT ![w] = counter]
  /\ Goto(w, "store")
  /\ UNCHANGED <<cur, parsed, err, lock, counter, tx, drawn, order, heap, input, args, reply>>

\* What the store writes; the history notes that it drew a number.
Draws(w, n) ==
  /\ counter' = n
  /\ tx' = [tx EXCEPT ![cur[w]] = n]
  /\ drawn' = drawn + 1
  /\ order' = [order EXCEPT ![cur[w]] = drawn + 1]

\* Wrong on purpose: a number 0 is taken for none and skipped when the counter wraps.
StoreSkipsZero(w) ==
  /\ At(w, "store")
  /\ Draws(w, IF reg[w] + 1 >= IdRange THEN 1 ELSE reg[w] + 1)
  /\ lock' = None
  /\ Goto(w, "parse")
  /\ UNCHANGED <<cur, parsed, err, reg, heap, input, args, reply>>

Store(w) ==
  /\ At(w, "store")
  /\ Draws(w, (reg[w] + 1) % IdRange)
  /\ lock' = None
  /\ Goto(w, "parse")
  /\ UNCHANGED <<cur, parsed, err, reg, heap, input, args, reply>>

\* The part of a form that one call of httpd_req_recv returns: all of it, or with
\* segments the first items, of the last one maybe only the start of its value.
Received(form) ==
  {form} \cup
    IF ~SegmentedBodies THEN {}
    ELSE UNION {{SubSeq(form, 1, k - 1)}
                  \cup {[SubSeq(form, 1, k) EXCEPT ![k].val = v] :
                          v \in Shortened[form[k].val]} :
                  k \in DOMAIN form}

\* The rest of parse_request: query, body, and whether there is such a device.
Parse(w) ==
  LET in == input[cur[w]] IN
  /\ At(w, "parse")
  /\ ~IsManagement(in) => ParseResult(in) = "ok"
  /\ \E part \in Received(in.form) : parsed' = [parsed EXCEPT ![w] = Parsed(in, part)]
  /\ Goto(w, "handle")
  /\ UNCHANGED <<cur, err, txVars, heap, input, args, reply>>

\* A device handler gives up when parse_request failed.  The body stays on the
\* heap: send_error_response does not know of it.
Refuse(w) ==
  LET in == input[cur[w]] IN
  /\ At(w, "parse")
  /\ ~IsManagement(in)
  /\ ParseResult(in) # "ok"
  /\ Finish(w, ErrorReply(IF ParseResult(in) = "notFound" THEN 404 ELSE 400))
  /\ UNCHANGED <<err, txVars, heap, input, args>>

\* Wrong on purpose: the error path forgets to delete the root.
RejectKeepsRoot(w) ==
  LET in == input[cur[w]] IN
  /\ At(w, "handle")
  /\ ~IsManagement(in)
  /\ MayRefuse(in.ep, parsed[w].values)
  /\ heap' = heap \cup {Root(w)}
  /\ Finish(w, ErrorReply(400))
  /\ UNCHANGED <<err, txVars, input, args>>

\* Wrong on purpose: the error path returns without a reply.
RejectSilently(w) ==
  LET in == input[cur[w]] IN
  /\ At(w, "handle")
  /\ ~IsManagement(in)
  /\ MayRefuse(in.ep, parsed[w].values)
  /\ Goto(w, "idle")
  /\ cur' = [cur EXCEPT ![w] = None]
  /\ UNCHANGED <<parsed, err, txVars, heap, input, args, reply>>

\* Wrong on purpose: the driver is called before the last parameter is checked.
RejectAfterCall(w) ==
  LET in == input[cur[w]] IN
  /\ At(w, "handle")
  /\ ~IsManagement(in)
  /\ MayRefuse(in.ep, parsed[w].values)
  /\ args' = [args EXCEPT ![cur[w]] = <<>>]
  /\ Finish(w, ErrorReply(400))
  /\ UNCHANGED <<err, txVars, heap, input>>

\* A parameter is missing or malformed: the handler deletes its root, not the
\* body, and replies 400.
RejectArguments(w) ==
  LET in == input[cur[w]] IN
  /\ At(w, "handle")
  /\ ~IsManagement(in)
  /\ MayRefuse(in.ep, parsed[w].values)
  /\ Finish(w, ErrorReply(400))
  /\ UNCHANGED <<err, txVars, heap, input, args>>

\* std::string(NULL) throws and nothing catches it: the program aborts.
Abort(w) ==
  LET in == input[cur[w]] IN
  /\ At(w, "handle")
  /\ ~IsManagement(in)
  /\ MayCrash(in.ep, parsed[w].values)
  /\ Goto(w, "aborted")
  /\ UNCHANGED <<cur, parsed, err, txVars, heap, input, args, reply>>

\* The driver runs with the converted arguments and may return an error, which
\* check_return turns into the error fields of the root.
CallDriver(w) ==
  LET in == input[cur[w]] IN
  /\ At(w, "handle")
  /\ ~IsManagement(in)
  /\ \E a \in Arguments(in.ep, parsed[w].values) : args' = [args EXCEPT ![cur[w]] = a]
  /\ \E e \in DriverErrors \cup {0} : err' = [err EXCEPT ![w] = e]
  /\ heap' = heap \cup {Root(w)}
  /\ Goto(w, "reply")
  /\ UNCHANGED <<cur, parsed, txVars, input, reply>>

\* A management handler fills its root, whatever parse_request returned.
Describe(w) ==
  /\ At(w, "handle")
  /\ IsManagement(input[cur[w]])
  /\ err' = [err EXCEPT ![w] = 0]
  /\ heap' = heap \cup {Root(w)}
  /\ Goto(w, "reply")
  /\ UNCHANGED <<cur, parsed, txVars, input, args, reply>>

\* A handler that hides the driver's error: it deletes its root and replies 400.
HidesError(w) == err[w] # 0 /\ input[cur[w]].ep.hidesErrors

RejectFailedCall(w) ==
  /\ At(w, "reply")
  /\ HidesError(w)
  /\ Finish(w, ErrorReply(400))
  /\ heap' = heap \ {Root(w)}
  /\ UNCHANGED <<err, txVars, input, args>>

\* Wrong on purpose: the reply carries the counter instead of the request's number.
ReplyWithCounter(w) ==
  LET in == input[cur[w]] IN
  /\ At(w, "reply")
  /\ ~HidesError(w)
  /\ Finish(w, JsonReply(Shown(counter), parsed[w].clientTx, err[w], TRUE))
  /\ heap' = heap \ {Root(w), Body(w)}
  /\ UNCHANGED <<err, txVars, input, args>>

\* send_json_response: prints the root, which may not fit, sends it with the
\* request's numbers, and deletes both trees.
Reply(w) ==
  LET in == input[cur[w]] IN
  /\ At(w, "reply")
  /\ ~HidesError(w)
  /\ \E whole \in Prints(in.ep, err[w]) :
       Finish(w, JsonReply(Shown(tx[cur[w]]), parsed[w].clientTx, err[w], whole))
  /\ heap' = heap \ {Root(w), Body(w)}
  /\ UNCHANGED <<err, txVars, input, args>>

-----------------------------------------------------------------------------
Handler(w) ==
  /\ Running
  /\ \/ Lock(w) \/ Load(w) \/ Store(w) \/ Parse(w) \/ Refuse(w)
     \/ CallDriver(w) \/ Describe(w) \/ RejectArguments(w) \/ Abort(w)
     \/ RejectFailedCall(w) \/ Reply(w)

Serve(w) == Handler(w) \/ \E r \in Requests, in \in Inputs : Accept(w, r, in)

\* No request is left and the tasks wait for ever, or the program has ended.
Quiet ==
  /\ Running => /\ \A w \in Workers : At(w, "idle")
                /\ \A r \in Requests : input[r] # None
  /\ UNCHANGED vars

Next == Quiet \/ \E w \in Workers : Serve(w)

\* The scheduler runs every task that can run.
RunsOn(w) == WF_vars(Handler(w))
Fairness == \A w \in Workers : RunsOn(w)

Spec == Init /\ [][Next]_vars
FairSpec == Spec /\ Fairness

-----------------------------------------------------------------------------
(* Properties                                                              *)

Labels == {"idle", "lock", "load", "store", "parse", "handle", "reply", "aborted"}

\* Every variable stays within its type, and a task has a request exactly
\* while it is not idle.
TypeOK ==
  /\ pc \in [Workers -> Labels]
  /\ cur \in [Workers -> Requests \cup {None}]
  /\ \A w \in Workers : cur[w] = None <=> pc[w] = "idle"
  /\ DOMAIN parsed = Workers /\ \A w \in Workers : parsed[w].clientTx \in Nat
  /\ err \in [Workers -> DriverErrors \cup {0}]
  /\ reg \in [Workers -> 0 .. IdRange - 1]
  /\ lock \in Workers \cup {None}
  /\ counter \in 0 .. IdRange - 1 /\ drawn \in Nat
  /\ heap \subseteq Requests \X {"body", "root"}
  /\ input \in [Requests -> Inputs \cup {None}]
  /\ tx \in [Requests -> 0 .. IdRange - 1] /\ order \in [Requests -> Nat]
  /\ DOMAIN args = Requests
  /\ reply \in [Requests -> Replies \cup {None}]

\* Two requests get the same transaction number only when the counter went through
\* its whole range between them, whatever the tasks do.
UniqueTransactionIds ==
  \A r, q \in Requests :
    0 < order[r] /\ order[r] < order[q] /\ tx[r] = tx[q] => order[q] - order[r] >= IdRange

\* A request is in the hands of one task until it has its reply, and of none
\* afterwards or before; nothing is answered that was not asked.
OneHandler ==
  /\ \A r \in Requests : reply[r] # None => input[r] # None
  /\ \A v, w \in Workers : cur[v] = cur[w] /\ cur[v] # None => v = w
  /\ \A r \in Requests :
       (\E w \in Workers : cur[w] = r) <=> (input[r] # None /\ reply[r] = None)

\* What is left on the heap: the body of a request being handled or refused,
\* and the root of one about to be answered.  In particular no path leaks a
\* root, no JSON reply leaks anything, and nothing is freed too early.
HeapAccounting ==
  \A r \in Requests :
    /\ <<r, "body">> \in heap <=>
         input[r] # None /\ (reply[r] = None \/ reply[r].status # 200)
    /\ <<r, "root">> \in heap <=> \E w \in Workers : cur[w] = r /\ pc[w] = "reply"

\* Every tree of a request is freed once it is answered (CHANGELOG 1.1.3:
\* "memory leak").
NothingLeaks == \A r \in Requests : reply[r] # None => <<r, "body">> \notin heap

\* A request that gets an HTTP error after its driver was called gets it because
\* the driver failed, from a handler that hides that.  Everywhere else an error
\* means that the driver was not called: the client may send a corrected request
\* without the device moving twice.
ErrorsPrecedeDriver ==
  [][\A r \in Requests :
       /\ reply[r] = None /\ reply'[r] # None /\ reply'[r].status # 200
       /\ args'[r] # None
       => input[r].ep.hidesErrors /\ \E w \in Workers : cur[w] = r /\ err[w] # 0]_vars

\* A driver is called only with values its client sent under the names of the
\* parameters, each a valid one of its kind and converted.  Left out are, in the
\* telescope handlers, the parameters whose kind loses the value.
DriverSeesValidRequests ==
  \A r \in Requests :
    args[r] # None =>
      \A i \in DOMAIN args[r] :
        \/ input[r].ep.params[i].kind \in LostKinds /\ input[r].ep \in TelescopeHandlers
        \/ WasSent(input[r], i, args[r][i])

\* What a client gets with a request's number in it.
JsonReplied(r) == reply[r] # None /\ reply[r].status = 200

\* A reply carries the number of its own request, which has drawn one.
RepliesCarryOwnIds ==
  \A r \in Requests : JsonReplied(r) => reply[r].tx = Shown(tx[r]) /\ order[r] # 0

\* The number in a reply tells it from the replies to all requests less than
\* IdRange away, also where the counter no longer fits the int32_t it is shown
\* as and turns negative.
RepliesTellApart ==
  \A r, q \in Requests :
    /\ JsonReplied(r) /\ JsonReplied(q)
    /\ reply[r].tx = reply[q].tx /\ order[r] < order[q]
    => order[q] - order[r] >= IdRange

\* A client can count with the numbers it sees: the difference of two, taken as
\* the unsigned number the counter is, says how many requests were numbered from
\* one to the other, also across the points where the numbers turn negative and
\* where they start again.
RepliesCountRequests ==
  \A r, q \in Requests :
    JsonReplied(r) /\ JsonReplied(q) =>
      (reply[q].tx - reply[r].tx) % IdRange = (order[q] - order[r]) % IdRange

\* Every request that reached a handler is answered.
EveryRequestAnswered == \A r \in Requests : input[r] # None ~> reply[r] # None

\* Whatever a request is, its handler has a next step: it waits for nothing but
\* the mutex, and for that only while a task holds it.
Ready(w) == pc[w] \notin {"idle", "aborted"} /\ (At(w, "lock") => lock = None)
CanStep(w) == ENABLED <<Handler(w)>>_vars
HandlersNeverWait == Running => \A w \in Workers : Ready(w) => CanStep(w)

-----------------------------------------------------------------------------
(* The tasks, their mutex and their buffers implement AlpacaService.       *)
Service == INSTANCE AlpacaService

\* As long as bodies arrive whole, every request gets what AlpacaService says.
IsAlpacaService == Service!Spec
=============================================================================
