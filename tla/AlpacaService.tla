--------------------------- MODULE AlpacaService ---------------------------
(***************************************************************************)
(* What the HTTP API promises: every request is numbered in some order,    *)
(* and answered once, by what it says alone.  No tasks, no mutex, no       *)
(* buffers, no heap.                                                       *)
(***************************************************************************)
EXTENDS AlpacaRequests

VARIABLES
  input,   \* what each request was
  args,    \* the arguments its driver call had
  reply,   \* the reply it got
  drawn,   \* how many numbers were given
  order    \* which of them each request has, counted from 1; 0 before

vars == <<input, args, reply, drawn, order>>

Init ==
  /\ input = [r \in Requests |-> None]
  /\ args = [r \in Requests |-> None]
  /\ reply = [r \in Requests |-> None]
  /\ drawn = 0
  /\ order = [r \in Requests |-> 0]

\* A client submits whatever it likes.
Submit(r) ==
  /\ input[r] = None /\ input'[r] # None
  /\ input' = [input EXCEPT ![r] = input'[r]]
  /\ UNCHANGED <<args, reply, drawn, order>>

\* Numbers are given one after the other.
Number(r) ==
  /\ input[r] # None /\ order[r] = 0
  /\ drawn' = drawn + 1
  /\ order' = [order EXCEPT ![r] = drawn + 1]
  /\ UNCHANGED <<input, args, reply>>

\* The value of a parameter: the first in the query under its name if there is
\* one, else the first in the form.  Case counts unless the endpoint says not,
\* and an item without '=' hides the one after it.
Names(items, i, p) ==
  Readable(items, i) /\ items[i].key = p.key /\ (items[i].cased \/ p.anyCase)
FirstIn(items, p, v) ==
  \E i \in DOMAIN items :
    /\ Names(items, i, p) /\ items[i].val = v
    /\ \A j \in 1 .. i - 1 : ~Names(items, j, p)
NotIn(items, p) == \A i \in DOMAIN items : ~Names(items, i, p)
Form(in) == IF in.isForm THEN in.form ELSE <<>>

Gives(in, p, v) ==
  \/ FirstIn(in.query, p, v)
  \/ NotIn(in.query, p) /\ FirstIn(Form(in), p, v)
  \/ NotIn(in.query, p) /\ NotIn(Form(in), p) /\ v = Missing

\* The handler may take parameter i of a request for m.
Means(in, i, m) ==
  LET p == in.ep.params[i] IN
  \E v \in Values \cup {Missing} : Gives(in, p, v) /\ m \in Meanings(p.kind, v)

HasDevice(in) == DeviceNumber(in) < NumDevices[in.ep.type]

\* The client's number that is echoed: the last one of the form if it has one,
\* else the last one of the query, else 0.  Its case counts in a form only.
LastIn(items, caseCounts, n) ==
  LET IsNumber(i) == /\ Readable(items, i) /\ items[i].key = "ClientTransactionID"
                     /\ items[i].cased \/ ~caseCounts IN
  \E i \in DOMAIN items :
    /\ IsNumber(i) /\ Atoi(items[i].val) = n
    /\ \A j \in i + 1 .. Len(items) : ~IsNumber(j)
HasNumber(items, caseCounts) == \E n \in {0, 1, 12} : LastIn(items, caseCounts, n)

Echoes(in, n) ==
  IF in.longQuery THEN n = 0
  ELSE \/ LastIn(Form(in), TRUE, n)
       \/ ~HasNumber(Form(in), TRUE) /\ LastIn(in.query, FALSE, n)
       \/ ~HasNumber(Form(in), TRUE) /\ ~HasNumber(in.query, FALSE) /\ n = 0

\* A request for a device whose parameters can be read reaches its driver, with
\* what it gives.
Perform(r) ==
  LET in == input[r] IN
  /\ order[r] # 0 /\ args[r] = None /\ reply[r] = None
  /\ ~IsManagement(in) /\ ~in.longQuery /\ HasDevice(in)
  /\ args'[r] # None /\ DOMAIN args'[r] = DOMAIN in.ep.params
  /\ \A i \in DOMAIN in.ep.params :
       args'[r][i] \notin {Refused, Crash} /\ Means(in, i, args'[r][i])
  /\ args' = [args EXCEPT ![r] = args'[r]]
  /\ UNCHANGED <<input, reply, drawn, order>>

\* The replies a request may get now.  Its number is shown in a field of its width.
MayAnswer(r, answer) ==
  LET in == input[r]
      Json(err) == \E whole \in Prints(in.ep, err) :
                     /\ Echoes(in, answer.clientTx)
                     /\ answer = JsonReply(Shown(order[r]), answer.clientTx, err, whole)
  IN  \/ IsManagement(in) /\ Json(0)
      \/ args[r] # None /\ \E err \in DriverErrors \cup {0} :
                             Json(err) /\ (err # 0 => ~in.ep.hidesErrors)
      \/ args[r] # None /\ in.ep.hidesErrors /\ answer = ErrorReply(400)
      \/ /\ ~IsManagement(in) /\ args[r] = None /\ answer = ErrorReply(400)
         /\ in.longQuery \/ \E i \in DOMAIN in.ep.params : Means(in, i, Refused)
      \/ ~IsManagement(in) /\ ~HasDevice(in) /\ answer = ErrorReply(404)

Answer(r) ==
  /\ order[r] # 0 /\ reply[r] = None /\ reply'[r] # None
  /\ MayAnswer(r, reply'[r])
  /\ reply' = [reply EXCEPT ![r] = reply'[r]]
  /\ UNCHANGED <<input, args, drawn, order>>

Next == \E r \in Requests : Submit(r) \/ Number(r) \/ Perform(r) \/ Answer(r)

Spec == Init /\ [][Next]_vars
=============================================================================
