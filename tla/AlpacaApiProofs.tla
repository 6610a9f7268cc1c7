-------------------------- MODULE AlpacaApiProofs --------------------------
(***************************************************************************)
(* Theorems about AlpacaApi, for any number of tasks and requests, any     *)
(* requests, any devices, and bodies that arrive whole or in pieces.       *)
(***************************************************************************)
EXTENDS AlpacaApi, FiniteSetTheorems, Descent, TLAPS

-----------------------------------------------------------------------------
(* Types.                                                                  *)

\* Of the counter's arithmetic: the remainder is the one number in range that
\* differs by a multiple, so a counter that wraps keeps the remainder of the
\* number of draws, and equal remainders are a multiple apart.
LEMMA RemainderType ==
  ASSUME NEW n \in Nat \ {0}, NEW a \in Int
  PROVE  a % n \in 0 .. n - 1 /\ \E k \in Int : a = n * k + (a % n)
<1>1. a % n \in 0 .. n - 1 /\ a = n * (a \div n) + (a % n) /\ a \div n \in Int
  OBVIOUS
<1> QED
  BY <1>1

LEMMA UniqueRemainder ==
  ASSUME NEW n \in Nat \ {0}, NEW k \in Int, NEW r \in 0 .. n - 1, NEW a \in Int, a = n * k + r
  PROVE  a % n = r
<1>1. PICK q \in Int : a = n * q + (a % n)
  BY RemainderType
<1>2. a % n \in 0 .. n - 1
  BY RemainderType
<1> DEFINE x == a % n
<1> HIDE DEF x
<1>3. n * (q - k) = r - x /\ x \in 0 .. n - 1
  <2>1. n * (q - k) = n * q - n * k /\ n * q \in Int /\ n * k \in Int
    OBVIOUS
  <2> QED
    BY <1>1, <1>2, <2>1 DEF x
<1>4. q - k = 0
  <2>1. ASSUME q - k >= 1 PROVE FALSE
    <3>1. n * (q - k) >= n
      BY <2>1
    <3> QED
      BY <1>3, <3>1
  <2>2. ASSUME q - k <= -1 PROVE FALSE
    <3>1. n * (q - k) <= -n
      BY <2>2
    <3> QED
      BY <1>3, <3>1
  <2> QED
    BY <2>1, <2>2
<1> QED
  BY <1>3, <1>4 DEF x

LEMMA NextRemainder ==
  ASSUME NEW n \in Nat \ {0}, NEW a \in Nat
  PROVE  ((a % n) + 1) % n = (a + 1) % n
<1> DEFINE x == a % n
<1>0. a \in Int
  OBVIOUS
<1>2. x \in 0 .. n - 1 /\ \E k \in Int : a = n * k + x
  BY <1>0, RemainderType
<1> HIDE DEF x
<1>1. PICK k \in Int : a = n * k + x
  BY <1>2
<1>3. CASE x + 1 = n
  <2>1. x + 1 = n * 1 + 0 /\ a + 1 = n * (k + 1) + 0
    BY <1>1, <1>2, <1>3
  <2>2. 0 \in 0 .. n - 1 /\ 1 \in Int /\ k + 1 \in Int /\ x + 1 \in Int /\ a + 1 \in Int
    BY <1>2
  <2>3. (x + 1) % n = 0 /\ (a + 1) % n = 0
    BY <2>1, <2>2, UniqueRemainder
  <2> QED
    BY <2>3 DEF x
<1>4. CASE x + 1 # n
  <2> DEFINE y == x + 1
             b == a + 1
  <2>1. y = n * 0 + y /\ b = n * k + y
    BY <1>1, <1>2
  <2>2. y \in 0 .. n - 1 /\ 0 \in Int /\ y \in Int /\ b \in Int
    BY <1>2, <1>4
  <2> HIDE DEF y, b
  <2>3. y % n = y
    BY <2>1, <2>2, UniqueRemainder
  <2>4. b % n = y
    BY <2>1, <2>2, UniqueRemainder
  <2> QED
    BY <2>3, <2>4 DEF x, y, b
<1> QED
  BY <1>3, <1>4

LEMMA EqualRemainders ==
  ASSUME NEW n \in Nat \ {0}, NEW a \in Nat, NEW b \in Nat, a < b, a % n = b % n
  PROVE  b - a >= n
<1> DEFINE x == a % n
<1>0. a \in Int /\ b \in Int
  OBVIOUS
<1>x. /\ x \in 0 .. n - 1 /\ \E k \in Int : a = n * k + x
      /\ \E k \in Int : b = n * k + x
  BY <1>0, RemainderType
<1> HIDE DEF x
<1>1. PICK p \in Int : a = n * p + x
  BY <1>x
<1>2. PICK q \in Int : b = n * q + x
  BY <1>x
<1>3. b - a = n * q - n * p
  <2>1. n * q \in Int /\ n * p \in Int /\ x \in Int
    BY <1>x
  <2> QED
    BY <1>1, <1>2, <2>1
<1>4. n * q - n * p = n * (q - p)
  OBVIOUS
<1>5. q - p > 0
  BY <1>3, <1>4
<1> QED
  BY <1>3, <1>4, <1>5

LEMMA ErrorReplyType == \A status \in {400, 404} : ErrorReply(status) \in Replies
BY DEF ErrorReply, Replies

LEMMA ErrorReplyStatus == \A status \in {400, 404} : ErrorReply(status).status # 200
BY DEF ErrorReply

LEMMA JsonReplyType ==
  ASSUME NEW n \in Nat, NEW clientNumber \in Nat, NEW e \in DriverErrors \cup {0}, NEW whole \in BOOLEAN
  PROVE  JsonReply(Shown(n), clientNumber, e, whole) \in Replies
<1>1. Shown(n) \in Int
  BY RangeAssumption DEF Shown
<1>2. e \in Int /\ MessageFor(e) \in Nat
  BY ErrorsAssumption DEF MessageFor, KnownErrors
<1> QED
  BY <1>1, <1>2 DEF JsonReply, Replies

LEMMA ParsedType ==
  ASSUME NEW in, NEW part
  PROVE  Parsed(in, part).clientTx \in Nat
<1>1. \A v : Atoi(v) \in Nat
  BY DEF Atoi
<1> QED
  BY <1>1 DEF Parsed, ClientTransactionId, LastClientTransactionId

\* What the end of a handler leaves of the types.
LEMMA FinishType ==
  ASSUME TypeOK, NEW w \in Workers, NEW answer \in Replies, Finish(w, answer), ~At(w, "idle")
  PROVE  /\ pc' \in [Workers -> Labels]
         /\ cur' \in [Workers -> Requests \cup {None}]
         /\ \A v \in Workers : cur'[v] = None <=> pc'[v] = "idle"
         /\ DOMAIN parsed' = Workers /\ \A v \in Workers : parsed'[v].clientTx \in Nat
         /\ reply' \in [Requests -> Replies \cup {None}]
BY DEF Finish, Goto, At, TypeOK, Labels, Unparsed

\* The ways a handler ends without JSON.
Refuses(w) == Refuse(w) \/ RejectArguments(w) \/ RejectFailedCall(w)

LEMMA TypeInit == Init => TypeOK
BY RangeAssumption DEF Init, TypeOK, Labels, Unparsed

LEMMA TypeStep == TypeOK /\ [Next]_vars => TypeOK'
<1> SUFFICES ASSUME TypeOK, [Next]_vars PROVE TypeOK'
  OBVIOUS
<1> USE NoneAssumption, NoReplyAssumption, WorkersAssumption
<1>1. ASSUME NEW w \in Workers, NEW r \in Requests, NEW in \in Inputs, Accept(w, r, in)
      PROVE  TypeOK'
  BY <1>1 DEF Accept, At, Goto, TypeOK, Labels, txVars
<1>2. ASSUME NEW w \in Workers, Lock(w) \/ Load(w) PROVE TypeOK'
  BY <1>2 DEF Lock, Load, At, Goto, TypeOK, Labels
<1>3. ASSUME NEW w \in Workers, Store(w) PROVE TypeOK'
  <2>1. (reg[w] + 1) % IdRange \in 0 .. IdRange - 1
    <3>1. reg[w] + 1 \in Int
      BY DEF TypeOK
    <3> QED
      BY <3>1, RemainderType, RangeAssumption
  <2> QED
    BY <1>3, <2>1 DEF Store, Draws, At, Goto, TypeOK, Labels
<1>4. ASSUME NEW w \in Workers, Parse(w) PROVE TypeOK'
  BY <1>4, ParsedType DEF Parse, At, Goto, TypeOK, Labels, txVars
<1>5. ASSUME NEW w \in Workers, Refuses(w) PROVE TypeOK'
  <2>1. \E status \in {400, 404} : Finish(w, ErrorReply(status))
    BY <1>5 DEF Refuses, Refuse, RejectArguments, RejectFailedCall
  <2>2. ~At(w, "idle")
    BY <1>5 DEF Refuses, Refuse, RejectArguments, RejectFailedCall, At
  <2>3. UNCHANGED <<err, txVars, input, args>> /\ heap' \subseteq heap
    BY <1>5 DEF Refuses, Refuse, RejectArguments, RejectFailedCall
  <2>4. PICK status \in {400, 404} : Finish(w, ErrorReply(status))
    BY <2>1
  <2>5. ErrorReply(status) \in Replies
    BY ErrorReplyType
  <2>6. /\ pc' \in [Workers -> Labels]
        /\ cur' \in [Workers -> Requests \cup {None}]
        /\ \A v \in Workers : cur'[v] = None <=> pc'[v] = "idle"
        /\ DOMAIN parsed' = Workers /\ \A v \in Workers : parsed'[v].clientTx \in Nat
        /\ reply' \in [Requests -> Replies \cup {None}]
    BY <2>2, <2>4, <2>5, FinishType
  <2> QED
    BY <2>3, <2>6 DEF TypeOK, txVars
<1>9. ASSUME NEW w \in Workers, Abort(w) PROVE TypeOK'
  BY <1>9 DEF Abort, At, Goto, TypeOK, Labels, txVars
<1>6. ASSUME NEW w \in Workers, CallDriver(w) \/ Describe(w) PROVE TypeOK'
  <2>1. cur[w] \in Requests /\ pc[w] = "handle"
    BY <1>6 DEF CallDriver, Describe, At, TypeOK
  <2>2. pc' = [pc EXCEPT ![w] = "reply"] /\ UNCHANGED <<cur, parsed, txVars, input, reply>>
    BY <1>6 DEF CallDriver, Describe, Goto
  <2>3. \E e \in DriverErrors \cup {0} : err' = [err EXCEPT ![w] = e]
    BY <1>6 DEF CallDriver, Describe
  <2>4. heap' \subseteq Requests \X {"body", "root"}
    BY <1>6, <2>1 DEF CallDriver, Describe, Root, TypeOK
  <2>5. DOMAIN args' = Requests
    BY <1>6 DEF CallDriver, Describe, TypeOK
  <2> QED
    BY <2>1, <2>2, <2>3, <2>4, <2>5 DEF TypeOK, Labels, txVars
<1>7. ASSUME NEW w \in Workers, Reply(w) PROVE TypeOK'
  <2>1. ~At(w, "idle") /\ cur[w] \in Requests /\ tx[cur[w]] \in Nat
          /\ parsed[w].clientTx \in Nat /\ err[w] \in DriverErrors \cup {0}
    BY <1>7, RangeAssumption DEF Reply, At, TypeOK
  <2>2. PICK whole \in BOOLEAN :
          Finish(w, JsonReply(Shown(tx[cur[w]]), parsed[w].clientTx, err[w], whole))
    BY <1>7 DEF Reply, Prints
  <2> QED
    BY <1>7, <2>1, <2>2, FinishType, JsonReplyType DEF Reply, TypeOK, txVars
<1>8. CASE UNCHANGED vars
  BY <1>8 DEF vars, taskVars, txVars, TypeOK
<1> QED
  BY <1>1, <1>2, <1>3, <1>4, <1>5, <1>6, <1>7, <1>8, <1>9 DEF Next, Quiet, Serve, Handler, Refuses

\* Every variable stays within its type, and a task has a request exactly while
\* it is not idle.
THEOREM TypeCorrect == Spec => []TypeOK
BY TypeInit, TypeStep, PTL DEF Spec

-----------------------------------------------------------------------------
(* The ends of a handler, and the steps that neither begin nor end one.    *)

Ends(w) == Refuses(w) \/ Reply(w)
Continues(w) ==
  Lock(w) \/ Load(w) \/ Store(w) \/ Parse(w) \/ CallDriver(w) \/ Describe(w) \/ Abort(w)

LEMMA Endings ==
  ASSUME TypeOK, NEW w \in Workers, Ends(w)
  PROVE  /\ cur[w] \in Requests
         /\ pc[w] \in {"parse", "handle", "reply"}
         /\ pc' = [pc EXCEPT ![w] = "idle"]
         /\ cur' = [cur EXCEPT ![w] = None]
         /\ \E answer \in Replies : reply' = [reply EXCEPT ![cur[w]] = answer]
         /\ UNCHANGED <<txVars, input, args>>
<1>1. pc[w] \in {"parse", "handle", "reply"} /\ cur[w] \in Requests
  BY DEF Ends, Refuses, Refuse, RejectArguments, RejectFailedCall, Reply, At, TypeOK
<1>2. \E answer \in Replies : Finish(w, answer)
  <2>1. CASE Refuses(w)
    BY <2>1, ErrorReplyType DEF Refuses, Refuse, RejectArguments, RejectFailedCall
  <2>2. CASE Reply(w)
    <3>1. PICK whole \in BOOLEAN :
            Finish(w, JsonReply(Shown(tx[cur[w]]), parsed[w].clientTx, err[w], whole))
      BY <2>2 DEF Reply, Prints
    <3>2. tx[cur[w]] \in Nat /\ parsed[w].clientTx \in Nat /\ err[w] \in DriverErrors \cup {0}
      BY <1>1, RangeAssumption DEF TypeOK
    <3> QED
      BY <3>1, <3>2, JsonReplyType
  <2> QED
    BY <2>1, <2>2 DEF Ends
<1>3. UNCHANGED <<txVars, input, args>>
  BY DEF Ends, Refuses, Refuse, RejectArguments, RejectFailedCall, Reply
<1> QED
  BY <1>1, <1>2, <1>3 DEF Finish, Goto

LEMMA Continuing ==
  ASSUME TypeOK, NEW w \in Workers, Continues(w)
  PROVE  /\ cur[w] \in Requests
         /\ pc[w] # "idle"
         /\ \E label \in Labels \ {"idle"} : pc' = [pc EXCEPT ![w] = label]
         /\ UNCHANGED <<cur, input, reply>>
<1>1. pc[w] # "idle"
  BY DEF Continues, Lock, Load, Store, Parse, CallDriver, Describe, Abort, At
<1>2. \E label \in Labels \ {"idle"} : pc' = [pc EXCEPT ![w] = label]
  BY DEF Continues, Lock, Load, Store, Parse, CallDriver, Describe, Abort, Goto, Labels
<1>3. UNCHANGED <<cur, input, reply>>
  BY DEF Continues, Lock, Load, Store, Parse, CallDriver, Describe, Abort
<1> QED
  BY <1>1, <1>2, <1>3 DEF TypeOK

\* Every step is the beginning, the end or another step of one handler, or none.
LEMMA Steps ==
  ASSUME [Next]_vars
  PROVE  \/ \E w \in Workers, r \in Requests, in \in Inputs : Accept(w, r, in)
         \/ \E w \in Workers : Continues(w)
         \/ \E w \in Workers : Ends(w)
         \/ UNCHANGED vars
BY DEF Next, Quiet, Serve, Handler, Continues, Ends, Refuses

-----------------------------------------------------------------------------
(* One handler per request.                                                *)

LEMMA OneHandlerStep == TypeOK /\ OneHandler /\ [Next]_vars => OneHandler'
<1> SUFFICES ASSUME TypeOK, OneHandler, [Next]_vars PROVE OneHandler'
  OBVIOUS
<1> USE NoneAssumption, NoReplyAssumption
<1>1. ASSUME NEW w \in Workers, NEW r \in Requests, NEW in \in Inputs, Accept(w, r, in)
      PROVE  OneHandler'
  <2>1. /\ input[r] = None /\ input' = [input EXCEPT ![r] = in] /\ in # None
        /\ cur[w] = None /\ cur' = [cur EXCEPT ![w] = r]
        /\ UNCHANGED reply
    BY <1>1 DEF Accept, At, TypeOK
  <2>2. \A v \in Workers : cur[v] # r
    BY <2>1 DEF OneHandler
  <2>3. reply[r] = None
    BY <2>1 DEF OneHandler
  <2> QED
    BY <2>1, <2>2, <2>3 DEF OneHandler, TypeOK
<1>2. ASSUME NEW w \in Workers, Continues(w) PROVE OneHandler'
  BY <1>2, Continuing DEF OneHandler
<1>3. ASSUME NEW w \in Workers, Ends(w) PROVE OneHandler'
  <2>1. PICK answer \in Replies : reply' = [reply EXCEPT ![cur[w]] = answer]
    BY <1>3, Endings
  <2>2. cur[w] \in Requests /\ cur' = [cur EXCEPT ![w] = None] /\ UNCHANGED input
    BY <1>3, Endings
  <2> QED
    BY <2>1, <2>2 DEF OneHandler, TypeOK
<1>4. CASE UNCHANGED vars
  BY <1>4 DEF OneHandler, vars, taskVars
<1> QED
  BY <1>1, <1>2, <1>3, <1>4, Steps

\* A request is with exactly one task from its arrival to its reply, for any
\* number of httpd tasks.
THEOREM OneHandlerPerRequest == Spec => []OneHandler
<1>1. Init => OneHandler
  BY NoneAssumption DEF Init, OneHandler
<1> QED
  BY <1>1, TypeInit, TypeStep, OneHandlerStep, PTL DEF Spec

-----------------------------------------------------------------------------
(* Transaction numbers.                                                    *)

\* Only the holder of the mutex is between the load and the store, and what it
\* loaded is still the counter.
Mutex ==
  /\ \A w \in Workers : lock = w <=> pc[w] \in {"load", "store"}
  /\ \A w \in Workers : pc[w] = "store" => reg[w] = counter

\* No more numbers were given out than were drawn, each once; a request has one
\* from the store on; and the counter, like the number of a request, is what is
\* left of the number of draws in its IdRange.
Numbered ==
  /\ \A r \in Requests : order[r] <= drawn
  /\ \A r, q \in Requests : order[r] # 0 /\ order[r] = order[q] => r = q
  /\ \A r \in Requests : input[r] = None => order[r] = 0
  /\ \A w \in Workers : pc[w] \in {"lock", "load", "store"} => order[cur[w]] = 0
  /\ \A w \in Workers : pc[w] \in {"parse", "handle", "reply"} => order[cur[w]] # 0
Wraps ==
  /\ counter = drawn % IdRange
  /\ \A r \in Requests : tx[r] = order[r] % IdRange

NumbersInv == TypeOK /\ OneHandler /\ Mutex /\ Numbered /\ Wraps

\* The only step that gives a number gives the next one.
LEMMA NumberGiven ==
  ASSUME NumbersInv, NEW w \in Workers, Store(w)
  PROVE  /\ cur[w] \in Requests /\ order[cur[w]] = 0
         /\ drawn' = drawn + 1
         /\ order' = [order EXCEPT ![cur[w]] = drawn + 1]
         /\ counter' = (drawn + 1) % IdRange
         /\ tx' = [tx EXCEPT ![cur[w]] = (drawn + 1) % IdRange]
<1>1. /\ pc[w] = "store" /\ counter' = (reg[w] + 1) % IdRange
      /\ tx' = [tx EXCEPT ![cur[w]] = (reg[w] + 1) % IdRange]
      /\ drawn' = drawn + 1 /\ order' = [order EXCEPT ![cur[w]] = drawn + 1]
  BY DEF Store, Draws, At
<1>2. cur[w] \in Requests
  BY <1>1 DEF NumbersInv, TypeOK
<1>3. reg[w] = drawn % IdRange /\ order[cur[w]] = 0
  BY <1>1 DEF NumbersInv, Mutex, Numbered, Wraps
<1>4. (reg[w] + 1) % IdRange = (drawn + 1) % IdRange
  BY <1>3, NextRemainder, RangeAssumption DEF NumbersInv, TypeOK
<1> QED
  BY <1>1, <1>2, <1>3, <1>4

LEMMA MutexStep == NumbersInv /\ [Next]_vars => Mutex'
<1> SUFFICES ASSUME NumbersInv, [Next]_vars PROVE Mutex'
  OBVIOUS
<1> USE WorkersAssumption DEF NumbersInv
<1>1. ASSUME NEW w \in Workers, NEW r \in Requests, NEW in \in Inputs, Accept(w, r, in)
      PROVE  Mutex'
  BY <1>1 DEF Accept, At, Goto, txVars, Mutex, TypeOK
<1>2. ASSUME NEW w \in Workers, Lock(w) PROVE Mutex'
  BY <1>2 DEF Lock, At, Goto, Mutex, TypeOK
<1>3. ASSUME NEW w \in Workers, Load(w) PROVE Mutex'
  BY <1>3 DEF Load, At, Goto, Mutex, TypeOK
<1>4. ASSUME NEW w \in Workers, Store(w) PROVE Mutex'
  BY <1>4 DEF Store, Draws, At, Goto, Mutex, TypeOK
<1>5. ASSUME NEW w \in Workers, Parse(w) \/ CallDriver(w) \/ Describe(w) \/ Abort(w) PROVE Mutex'
  <2>1. pc[w] \in {"parse", "handle"} /\ UNCHANGED txVars
    BY <1>5 DEF Parse, CallDriver, Describe, Abort, At
  <2>2. \E label \in {"handle", "reply", "aborted"} : pc' = [pc EXCEPT ![w] = label]
    BY <1>5 DEF Parse, CallDriver, Describe, Abort, Goto
  <2> QED
    BY <2>1, <2>2 DEF Mutex, TypeOK, txVars
<1>6. ASSUME NEW w \in Workers, Ends(w) PROVE Mutex'
  <2>1. /\ pc[w] \in {"parse", "handle", "reply"} /\ pc' = [pc EXCEPT ![w] = "idle"]
        /\ UNCHANGED txVars
    BY <1>6, Endings
  <2> QED
    BY <2>1 DEF Mutex, TypeOK, txVars
<1>7. CASE UNCHANGED vars
  BY <1>7 DEF Mutex, vars, taskVars, txVars
<1> QED
  BY <1>1, <1>2, <1>3, <1>4, <1>5, <1>6, <1>7, Steps DEF Continues

LEMMA NumberedStep == NumbersInv /\ [Next]_vars => Numbered' /\ Wraps'
<1> SUFFICES ASSUME NumbersInv, [Next]_vars PROVE Numbered' /\ Wraps'
  OBVIOUS
<1> USE NoneAssumption DEF NumbersInv
<1>1. ASSUME NEW w \in Workers, NEW r \in Requests, NEW in \in Inputs, Accept(w, r, in)
      PROVE  Numbered' /\ Wraps'
  BY <1>1 DEF Accept, At, Goto, txVars, TypeOK, Numbered, Wraps
<1>2. ASSUME NEW w \in Workers, Lock(w) \/ Load(w) PROVE Numbered' /\ Wraps'
  <2>1. pc[w] \in {"lock", "load"} /\ UNCHANGED <<cur, counter, tx, drawn, order, input>>
    BY <1>2 DEF Lock, Load, At
  <2>2. \E label \in {"load", "store"} : pc' = [pc EXCEPT ![w] = label]
    BY <1>2 DEF Lock, Load, Goto
  <2> QED
    BY <2>1, <2>2 DEF TypeOK, Numbered, Wraps
<1>3. ASSUME NEW w \in Workers, Store(w) PROVE Numbered' /\ Wraps'
  <2>1. /\ cur[w] \in Requests /\ order[cur[w]] = 0 /\ drawn' = drawn + 1
        /\ order' = [order EXCEPT ![cur[w]] = drawn + 1]
    BY <1>3, NumberGiven
  <2>2. pc' = [pc EXCEPT ![w] = "parse"] /\ UNCHANGED <<cur, input>>
    BY <1>3 DEF Store, Goto
  <2>3. input[cur[w]] # None /\ \A v \in Workers : cur[v] = cur[w] => v = w
    BY <2>1 DEF OneHandler, TypeOK
  <2>4. \A r, q \in Requests : order'[r] # 0 /\ order'[r] = order'[q] => r = q
    BY <2>1 DEF TypeOK, Numbered
  <2>5. \A v \in Workers : v # w => cur'[v] # cur[w] /\ pc'[v] = pc[v]
    BY <2>2, <2>3 DEF TypeOK
  <2>6. \A v \in Workers : v # w => order'[cur'[v]] = order[cur[v]] \/ pc[v] = "idle"
    BY <2>1, <2>2, <2>5 DEF TypeOK
  <2>7. order'[cur[w]] = drawn + 1 /\ drawn + 1 # 0
    BY <2>1 DEF TypeOK
  <2>8. \A v \in Workers :
          /\ pc'[v] \in {"lock", "load", "store"} => order'[cur'[v]] = 0
          /\ pc'[v] \in {"parse", "handle", "reply"} => order'[cur'[v]] # 0
    BY <2>2, <2>5, <2>6, <2>7 DEF TypeOK, Numbered
  <2>9. \A r \in Requests : order'[r] <= drawn' /\ (input'[r] = None => order'[r] = 0)
    BY <2>1, <2>2, <2>3 DEF TypeOK, Numbered
  <2>10. Wraps'
    <3>1. counter' = (drawn + 1) % IdRange /\ tx' = [tx EXCEPT ![cur[w]] = (drawn + 1) % IdRange]
      BY <1>3, NumberGiven
    <3>2. ASSUME NEW r \in Requests PROVE tx'[r] = order'[r] % IdRange
      BY <2>1, <3>1 DEF TypeOK, Wraps
    <3> QED
      BY <2>1, <3>1, <3>2 DEF Wraps
  <2> QED
    BY <2>4, <2>8, <2>9, <2>10 DEF Numbered
<1>4. ASSUME NEW w \in Workers, Parse(w) \/ CallDriver(w) \/ Describe(w) \/ Abort(w)
      PROVE  Numbered' /\ Wraps'
  <2>1. pc[w] \in {"parse", "handle"} /\ UNCHANGED <<cur, counter, tx, drawn, order, input>>
    BY <1>4 DEF Parse, CallDriver, Describe, Abort, At, txVars
  <2>2. \E label \in {"handle", "reply", "aborted"} : pc' = [pc EXCEPT ![w] = label]
    BY <1>4 DEF Parse, CallDriver, Describe, Abort, Goto
  <2> QED
    BY <2>1, <2>2 DEF TypeOK, Numbered, Wraps
<1>5. ASSUME NEW w \in Workers, Ends(w) PROVE Numbered' /\ Wraps'
  <2>1. /\ pc' = [pc EXCEPT ![w] = "idle"] /\ cur' = [cur EXCEPT ![w] = None]
        /\ UNCHANGED <<counter, tx, drawn, order, input>>
    BY <1>5, Endings DEF txVars
  <2> QED
    BY <2>1 DEF TypeOK, Numbered, Wraps
<1>6. CASE UNCHANGED vars
  BY <1>6 DEF vars, taskVars, txVars, Numbered, Wraps
<1> QED
  BY <1>1, <1>2, <1>3, <1>4, <1>5, <1>6, Steps DEF Continues

LEMMA NumbersInvariant == Spec => []NumbersInv
<1>1. Init => OneHandler /\ Mutex /\ Numbered /\ Wraps
  <2>1. 0 % IdRange = 0
    <3>1. 0 = IdRange * 0 + 0 /\ 0 \in 0 .. IdRange - 1 /\ 0 \in Int
      BY RangeAssumption
    <3> QED
      BY <3>1, UniqueRemainder, RangeAssumption
  <2> QED
    BY <2>1, WorkersAssumption, NoneAssumption DEF Init, OneHandler, Mutex, Numbered, Wraps
<1>2. NumbersInv /\ [Next]_vars => NumbersInv'
  BY TypeStep, OneHandlerStep, MutexStep, NumberedStep DEF NumbersInv
<1>3. Init => NumbersInv
  BY <1>1, TypeInit DEF NumbersInv
<1> QED
  BY <1>2, <1>3, PTL DEF Spec

\* Requests share a transaction number only when a whole range of numbers was
\* drawn between them, whatever the interleaving of the tasks: the mutex makes the
\* increment of the counter atomic.
THEOREM UniqueNumbers == Spec => []UniqueTransactionIds
<1>1. NumbersInv => UniqueTransactionIds
  BY EqualRemainders, RangeAssumption DEF NumbersInv, TypeOK, Wraps, UniqueTransactionIds
<1> QED
  BY <1>1, NumbersInvariant, PTL

-----------------------------------------------------------------------------
(* Replies, driver calls and the heap.                                     *)

\* The two ways a handler ends: without JSON, before its root exists or after it
\* deleted that, or with a JSON reply that carries the number of the request.
LEMMA Refusal ==
  ASSUME NumbersInv, NEW w \in Workers, Refuses(w)
  PROVE  /\ pc[w] = "reply" => input[cur[w]].ep.hidesErrors
         /\ \E answer \in Replies :
              answer.status # 200 /\ reply' = [reply EXCEPT ![cur[w]] = answer]
         /\ heap' = IF pc[w] = "reply" THEN heap \ {<<cur[w], "root">>} ELSE heap
<1>1. /\ pc[w] = "reply" => input[cur[w]].ep.hidesErrors
      /\ heap' = IF pc[w] = "reply" THEN heap \ {<<cur[w], "root">>} ELSE heap
  BY DEF Refuses, Refuse, RejectArguments, RejectFailedCall, HidesError, At, Root
<1>2. PICK answer \in Replies : answer.status # 200 /\ Finish(w, answer)
  BY ErrorReplyType, ErrorReplyStatus DEF Refuses, Refuse, RejectArguments, RejectFailedCall
<1>3. reply' = [reply EXCEPT ![cur[w]] = answer]
  BY <1>2 DEF Finish
<1> QED
  BY <1>1, <1>2, <1>3

LEMMA Answer ==
  ASSUME NumbersInv, NEW w \in Workers, Reply(w)
  PROVE  /\ pc[w] = "reply"
         /\ \E answer \in Replies :
              /\ answer.status = 200 /\ answer.tx = Shown(tx[cur[w]])
              /\ reply' = [reply EXCEPT ![cur[w]] = answer]
         /\ heap' = heap \ {<<cur[w], "root">>, <<cur[w], "body">>}
<1>1. pc[w] = "reply" /\ heap' = heap \ {<<cur[w], "root">>, <<cur[w], "body">>}
  BY DEF Reply, At, Root, Body
<1>2. PICK whole \in BOOLEAN :
        Finish(w, JsonReply(Shown(tx[cur[w]]), parsed[w].clientTx, err[w], whole))
  BY DEF Reply, Prints
<1> DEFINE answer == JsonReply(Shown(tx[cur[w]]), parsed[w].clientTx, err[w], whole)
<1>3. cur[w] \in Requests
  BY <1>1 DEF NumbersInv, TypeOK
<1>4. answer \in Replies
  <2>1. tx[cur[w]] \in Nat /\ parsed[w].clientTx \in Nat /\ err[w] \in DriverErrors \cup {0}
    BY <1>3, RangeAssumption DEF NumbersInv, TypeOK
  <2> QED
    BY <2>1, JsonReplyType
<1>5. answer.status = 200 /\ answer.tx = Shown(tx[cur[w]])
  BY DEF JsonReply
<1>6. reply' = [reply EXCEPT ![cur[w]] = answer]
  BY <1>2 DEF Finish
<1> HIDE DEF answer
<1> QED
  BY <1>1, <1>4, <1>5, <1>6

\* What a driver was called for is about to be answered, or is, and with JSON
\* unless the handler hid an error.
CalledIsAnswered ==
  \A r \in Requests :
    args[r] # None => \/ \E w \in Workers : cur[w] = r /\ pc[w] = "reply"
                      \/ /\ input[r] # None /\ reply[r] # None
                         /\ reply[r].status = 200 \/ input[r].ep.hidesErrors

LEMMA CalledStep == NumbersInv /\ CalledIsAnswered /\ [Next]_vars => CalledIsAnswered'
<1> SUFFICES ASSUME NumbersInv, CalledIsAnswered, [Next]_vars PROVE CalledIsAnswered'
  OBVIOUS
<1> USE NoneAssumption, NoReplyAssumption DEF NumbersInv, CalledIsAnswered
<1>1. ASSUME NEW w \in Workers, NEW r \in Requests, NEW in \in Inputs, Accept(w, r, in)
      PROVE  CalledIsAnswered'
  BY <1>1 DEF Accept, At, Goto, TypeOK
<1>2. ASSUME NEW w \in Workers, Continues(w), ~CallDriver(w), ~Describe(w)
      PROVE  CalledIsAnswered'
  <2>1. pc[w] # "reply" /\ UNCHANGED <<cur, input, args, reply>>
    BY <1>2 DEF Continues, Lock, Load, Store, Parse, Abort, At
  <2>2. \E label \in Labels : pc' = [pc EXCEPT ![w] = label]
    BY <1>2, Continuing
  <2> QED
    BY <2>1, <2>2 DEF TypeOK
<1>3. ASSUME NEW w \in Workers, CallDriver(w) \/ Describe(w) PROVE CalledIsAnswered'
  <2>1. pc' = [pc EXCEPT ![w] = "reply"] /\ UNCHANGED <<cur, input, reply>>
    BY <1>3 DEF CallDriver, Describe, Goto
  <2>2. \A r \in Requests : r # cur[w] => args'[r] = args[r]
    BY <1>3 DEF CallDriver, Describe, TypeOK
  <2> QED
    BY <2>1, <2>2 DEF TypeOK
<1>4. ASSUME NEW w \in Workers, Ends(w) PROVE CalledIsAnswered'
  <2>1. /\ cur[w] \in Requests /\ UNCHANGED <<args, input>>
        /\ pc' = [pc EXCEPT ![w] = "idle"] /\ cur' = [cur EXCEPT ![w] = None]
    BY <1>4, Endings
  <2>2. PICK answer \in Replies :
          /\ reply' = [reply EXCEPT ![cur[w]] = answer]
          /\ pc[w] = "reply" => answer.status = 200 \/ input[cur[w]].ep.hidesErrors
    BY <1>4, Refusal, Answer DEF Ends
  <2>3. reply[cur[w]] = None /\ input[cur[w]] # None
    BY <2>1 DEF OneHandler
  <2>4. \A v \in Workers : cur[v] = cur[w] => v = w
    BY <2>1 DEF OneHandler
  <2>5. args[cur[w]] # None => answer.status = 200 \/ input[cur[w]].ep.hidesErrors
    BY <2>1, <2>2, <2>3, <2>4
  <2>6. \A r \in Requests : r # cur[w] => reply'[r] = reply[r]
    BY <2>2 DEF TypeOK
  <2>7. \A v \in Workers : v # w => cur'[v] = cur[v] /\ pc'[v] = pc[v]
    BY <2>1 DEF TypeOK
  <2>8. reply'[cur[w]] = answer /\ answer # None
    BY <2>1, <2>2 DEF TypeOK
  <2> QED
    BY <2>1, <2>3, <2>5, <2>6, <2>7, <2>8
<1>5. CASE UNCHANGED vars
  BY <1>5 DEF vars, taskVars
<1> QED
  BY <1>1, <1>2, <1>3, <1>4, <1>5, Steps

\* After its driver was called a request gets an HTTP error only for the driver's
\* own failure, from a handler that hides it; everywhere else an error means that
\* the driver was not called.
THEOREM ErrorsComeFirst == Spec => ErrorsPrecedeDriver
<1> DEFINE Spared(r) ==
             /\ reply[r] = None /\ reply'[r] # None /\ reply'[r].status # 200
             /\ args'[r] # None
             => input[r].ep.hidesErrors /\ \E w \in Workers : cur[w] = r /\ err[w] # 0
           Sparing == \A r \in Requests : Spared(r)
<1>1. Init => CalledIsAnswered
  BY DEF Init, CalledIsAnswered
<1>2. NumbersInv /\ CalledIsAnswered /\ [Next]_vars => [Sparing]_vars
  <2> SUFFICES ASSUME NumbersInv, CalledIsAnswered, Next, NEW r \in Requests,
                      reply[r] = None, reply'[r] # None, reply'[r].status # 200, args'[r] # None
               PROVE  input[r].ep.hidesErrors /\ \E w \in Workers : cur[w] = r /\ err[w] # 0
    OBVIOUS
  <2>1. PICK w \in Workers : Ends(w)
    <3>1. ASSUME NEW w \in Workers, NEW q \in Requests, NEW in \in Inputs, Accept(w, q, in)
          PROVE  reply' = reply
      BY <3>1 DEF Accept
    <3>2. ASSUME NEW w \in Workers, Continues(w) PROVE reply' = reply
      BY <3>2 DEF Continues, Lock, Load, Store, Parse, CallDriver, Describe, Abort
    <3>3. UNCHANGED vars => reply' = reply
      BY DEF vars
    <3> QED
      BY <3>1, <3>2, <3>3, Steps DEF NumbersInv
  <2>2. PICK answer \in Replies : reply' = [reply EXCEPT ![cur[w]] = answer]
    BY <2>1, Endings DEF NumbersInv
  <2>3. cur[w] = r /\ args' = args
    BY <2>1, <2>2, Endings DEF NumbersInv, TypeOK
  <2>4. pc[w] = "reply"
    BY <2>3, NoneAssumption DEF NumbersInv, OneHandler, CalledIsAnswered
  <2>5. RejectFailedCall(w)
    <3>1. ~Reply(w)
      BY <2>3, Answer DEF NumbersInv, TypeOK
    <3> QED
      BY <2>1, <2>4, <3>1 DEF Ends, Refuses, Refuse, RejectArguments, At
  <2> QED
    BY <2>3, <2>5 DEF RejectFailedCall, HidesError
<1>3. ErrorsPrecedeDriver <=> [][Sparing]_vars
  BY PTL DEF ErrorsPrecedeDriver
<1> HIDE DEF Sparing
<1> QED
  BY <1>1, <1>2, <1>3, CalledStep, NumbersInvariant, PTL DEF Spec

LEMMA OwnIdsStep == NumbersInv /\ RepliesCarryOwnIds /\ [Next]_vars => RepliesCarryOwnIds'
<1> SUFFICES ASSUME NumbersInv, RepliesCarryOwnIds, [Next]_vars PROVE RepliesCarryOwnIds'
  OBVIOUS
<1> USE NoneAssumption, NoReplyAssumption DEF RepliesCarryOwnIds, JsonReplied
<1>1. ASSUME NEW w \in Workers, Store(w) PROVE RepliesCarryOwnIds'
  <2>1. /\ cur[w] \in Requests /\ order' = [order EXCEPT ![cur[w]] = drawn + 1]
        /\ tx' = [tx EXCEPT ![cur[w]] = (drawn + 1) % IdRange]
    BY <1>1, NumberGiven
  <2>2. reply[cur[w]] = None /\ UNCHANGED reply
    BY <1>1, <2>1 DEF Store, NumbersInv, OneHandler
  <2> QED
    BY <2>1, <2>2 DEF NumbersInv, TypeOK
<1>2. ASSUME NEW w \in Workers, Continues(w), ~Store(w) PROVE RepliesCarryOwnIds'
  BY <1>2 DEF Continues, Lock, Load, Parse, CallDriver, Describe, Abort, txVars
<1>3. ASSUME NEW w \in Workers, NEW r \in Requests, NEW in \in Inputs, Accept(w, r, in)
      PROVE  RepliesCarryOwnIds'
  BY <1>3 DEF Accept, txVars
<1>4. ASSUME NEW w \in Workers, Ends(w) PROVE RepliesCarryOwnIds'
  <2>1. cur[w] \in Requests /\ UNCHANGED <<tx, order>>
    BY <1>4, Endings DEF NumbersInv, txVars
  <2>2. PICK answer \in Replies :
          /\ reply' = [reply EXCEPT ![cur[w]] = answer]
          /\ answer.status = 200 => pc[w] = "reply" /\ answer.tx = Shown(tx[cur[w]])
    BY <1>4, Refusal, Answer DEF Ends
  <2>3. pc[w] = "reply" => order[cur[w]] # 0
    BY DEF NumbersInv, Numbered
  <2> QED
    BY <2>1, <2>2, <2>3 DEF NumbersInv, TypeOK
<1>5. CASE UNCHANGED vars
  BY <1>5 DEF vars, txVars
<1> QED
  BY <1>1, <1>2, <1>3, <1>4, <1>5, Steps

\* A JSON reply carries the number its own request was given.
THEOREM OwnNumbers == Spec => []RepliesCarryOwnIds
<1>1. Init => RepliesCarryOwnIds
  BY DEF Init, RepliesCarryOwnIds, JsonReplied
<1> QED
  BY <1>1, OwnIdsStep, NumbersInvariant, PTL DEF Spec

\* The two halves of HeapAccounting, for one request.
BodyAccount(r) ==
  <<r, "body">> \in heap <=> input[r] # None /\ (reply[r] = None \/ reply[r].status # 200)
RootAccount(r) == <<r, "root">> \in heap <=> \E w \in Workers : cur[w] = r /\ pc[w] = "reply"

LEMMA HeapStep == NumbersInv /\ HeapAccounting /\ [Next]_vars => HeapAccounting'
<1> SUFFICES ASSUME NumbersInv, [Next]_vars, NEW q \in Requests, BodyAccount(q), RootAccount(q)
             PROVE  BodyAccount(q)' /\ RootAccount(q)'
  BY DEF HeapAccounting, BodyAccount, RootAccount
<1> USE NoneAssumption, NoReplyAssumption
<1>1. ASSUME NEW w \in Workers, NEW r \in Requests, NEW in \in Inputs, Accept(w, r, in)
      PROVE  BodyAccount(q)' /\ RootAccount(q)'
  <2>1. /\ input[r] = None /\ input' = [input EXCEPT ![r] = in] /\ in # None
        /\ heap' = heap \cup {<<r, "body">>}
        /\ pc[w] = "idle" /\ pc' = [pc EXCEPT ![w] = "lock"]
        /\ cur[w] = None /\ cur' = [cur EXCEPT ![w] = r] /\ UNCHANGED reply
    BY <1>1 DEF Accept, At, Goto, NumbersInv, TypeOK
  <2>2. reply[r] = None
    BY <2>1 DEF NumbersInv, OneHandler
  <2>3. BodyAccount(q)'
    BY <2>1, <2>2 DEF BodyAccount, NumbersInv, TypeOK
  <2>4. RootAccount(q)'
    BY <2>1 DEF RootAccount, NumbersInv, TypeOK
  <2> QED
    BY <2>3, <2>4
<1>2. ASSUME NEW w \in Workers, Continues(w), ~CallDriver(w), ~Describe(w)
      PROVE  BodyAccount(q)' /\ RootAccount(q)'
  <2>1. pc[w] # "reply" /\ UNCHANGED <<cur, heap, input, reply>>
    BY <1>2 DEF Continues, Lock, Load, Store, Parse, Abort, At
  <2>2. PICK label \in Labels \ {"reply"} : pc' = [pc EXCEPT ![w] = label]
    BY <1>2 DEF Continues, Lock, Load, Store, Parse, Abort, Goto, Labels
  <2>3. \A v \in Workers : pc'[v] = "reply" <=> pc[v] = "reply"
    BY <2>1, <2>2 DEF NumbersInv, TypeOK
  <2> QED
    BY <2>1, <2>3 DEF BodyAccount, RootAccount
<1>3. ASSUME NEW w \in Workers, CallDriver(w) \/ Describe(w)
      PROVE  BodyAccount(q)' /\ RootAccount(q)'
  <2>1. /\ pc[w] = "handle" /\ pc' = [pc EXCEPT ![w] = "reply"]
        /\ heap' = heap \cup {<<cur[w], "root">>} /\ UNCHANGED <<cur, input, reply>>
    BY <1>3 DEF CallDriver, Describe, At, Goto, Root
  <2>2. BodyAccount(q)'
    BY <2>1 DEF BodyAccount
  <2>3. RootAccount(q)'
    BY <2>1 DEF RootAccount, NumbersInv, TypeOK
  <2> QED
    BY <2>2, <2>3
<1>4. ASSUME NEW w \in Workers, Ends(w) PROVE BodyAccount(q)' /\ RootAccount(q)'
  <2>1. /\ cur[w] \in Requests /\ UNCHANGED input
        /\ pc' = [pc EXCEPT ![w] = "idle"] /\ cur' = [cur EXCEPT ![w] = None]
    BY <1>4, Endings DEF NumbersInv
  <2>2. PICK answer \in Replies :
          /\ reply' = [reply EXCEPT ![cur[w]] = answer]
          /\ answer.status = 200 <=> Reply(w)
    <3>1. Reply(w) => pc[w] = "reply"
      BY DEF Reply, At
    <3> QED
      BY <1>4, <3>1, Refusal, Answer DEF Ends
  <2>3. /\ Reply(w) => heap' = heap \ {<<cur[w], "root">>, <<cur[w], "body">>}
        /\ ~Reply(w) => heap' = IF pc[w] = "reply" THEN heap \ {<<cur[w], "root">>} ELSE heap
    BY <1>4, Refusal, Answer DEF Ends
  <2>4. Reply(w) => pc[w] = "reply"
    BY Answer
  <2>5. input[cur[w]] # None /\ reply[cur[w]] = None
    BY <2>1 DEF NumbersInv, OneHandler
  <2>6. \A v \in Workers : cur[v] = cur[w] => v = w
    BY <2>1 DEF NumbersInv, OneHandler
  <2>7. CASE q = cur[w]
    <3>1. reply'[q] = answer /\ answer # None
      BY <2>1, <2>2, <2>7 DEF NumbersInv, TypeOK
    <3>2. BodyAccount(q)'
      BY <2>1, <2>2, <2>3, <2>5, <2>7, <3>1 DEF BodyAccount
    <3>3. ~\E v \in Workers : cur'[v] = q /\ pc'[v] = "reply"
      BY <2>1, <2>6, <2>7 DEF NumbersInv, TypeOK
    <3>4. <<q, "root">> \notin heap'
      BY <2>3, <2>4, <2>6, <2>7 DEF RootAccount
    <3> QED
      BY <3>2, <3>3, <3>4 DEF RootAccount
  <2>8. CASE q # cur[w]
    <3>1. reply'[q] = reply[q]
      BY <2>2, <2>8 DEF NumbersInv, TypeOK
    <3>2. /\ <<q, "body">> \in heap' <=> <<q, "body">> \in heap
          /\ <<q, "root">> \in heap' <=> <<q, "root">> \in heap
      BY <2>3, <2>8
    <3>3. (\E v \in Workers : cur'[v] = q /\ pc'[v] = "reply")
            <=> \E v \in Workers : cur[v] = q /\ pc[v] = "reply"
      BY <2>1, <2>8 DEF NumbersInv, TypeOK
    <3> QED
      BY <2>1, <3>1, <3>2, <3>3 DEF BodyAccount, RootAccount
  <2> QED
    BY <2>7, <2>8
<1>5. CASE UNCHANGED vars
  BY <1>5 DEF vars, taskVars, BodyAccount, RootAccount
<1> QED
  BY <1>1, <1>2, <1>3, <1>4, <1>5, Steps

\* On every path a handler frees its root exactly once, and its body too unless it
\* refuses the request.
THEOREM TreesAreFreed == Spec => []HeapAccounting
<1>1. Init => HeapAccounting
  BY NoneAssumption DEF Init, HeapAccounting
<1> QED
  BY <1>1, HeapStep, NumbersInvariant, PTL DEF Spec

-----------------------------------------------------------------------------
(* Every request is answered.  What weak fairness says of a step that can   *)
(* be taken is used with the invariant HandlersNeverWait: ENABLED itself    *)
(* means nothing to the provers.                                            *)

\* The next step of a handler, its end included, for a request that reaches no
\* driver that aborts.
LEMMA OwnStep ==
  ASSUME NumbersInv, NEW w \in Workers, Handler(w), Running'
  PROVE  /\ cur[w] \in Requests
         /\ \/ /\ cur'[w] = cur[w]
               /\ <<pc[w], pc'[w]>> \in {<<"lock", "load">>, <<"load", "store">>, <<"store", "parse">>,
                                         <<"parse", "handle">>, <<"handle", "reply">>}
            \/ pc[w] \in {"parse", "handle", "reply"} /\ reply'[cur[w]] # None
<1> USE DEF NumbersInv
<1>1. CASE Ends(w)
  <2>1. PICK answer \in Replies : reply' = [reply EXCEPT ![cur[w]] = answer]
    BY <1>1, Endings
  <2>2. cur[w] \in Requests /\ pc[w] \in {"parse", "handle", "reply"}
    BY <1>1, Endings
  <2> QED
    BY <2>1, <2>2, NoReplyAssumption DEF TypeOK
<1>2. CASE Continues(w)
  <2>1. cur[w] \in Requests /\ cur' = cur
    BY <1>2, Continuing
  <2>2. ~Abort(w)
    BY DEF Abort, Goto, Running, At, TypeOK
  <2> QED
    BY <1>2, <2>1, <2>2 DEF Continues, Lock, Load, Store, Parse, CallDriver, Describe, At, Goto, TypeOK
<1> QED
  BY <1>1, <1>2 DEF Handler, Ends, Continues, Refuses

\* Nobody else moves a handler.
LEMMA OthersSteps ==
  ASSUME NumbersInv, [Next]_vars, NEW w \in Workers, pc[w] # "idle", ~Handler(w)
  PROVE  pc'[w] = pc[w] /\ cur'[w] = cur[w]
<1> USE DEF NumbersInv
<1>1. ASSUME NEW v \in Workers, NEW r \in Requests, NEW in \in Inputs, Accept(v, r, in)
      PROVE  pc'[w] = pc[w] /\ cur'[w] = cur[w]
  BY <1>1 DEF Accept, At, Goto, TypeOK
<1>2. ASSUME NEW v \in Workers, Handler(v) PROVE pc'[w] = pc[w] /\ cur'[w] = cur[w]
  <2>1. v # w
    BY <1>2
  <2>2. Ends(v) \/ Continues(v)
    BY <1>2 DEF Handler, Ends, Continues, Refuses
  <2>3. \E label \in Labels : pc' = [pc EXCEPT ![v] = label]
    BY <2>2, Endings, Continuing DEF Labels
  <2>4. cur' = cur \/ cur' = [cur EXCEPT ![v] = None]
    BY <2>2, Endings, Continuing
  <2> QED
    BY <2>1, <2>3, <2>4 DEF TypeOK
<1>3. CASE UNCHANGED vars
  BY <1>3 DEF vars, taskVars
<1> QED
  BY <1>1, <1>2, <1>3 DEF Next, Quiet, Serve

\* The requests without a number get fewer each time a task leaves the mutex,
\* and never more.
Unnumbered == {r \in Requests : order[r] = 0}

LEMMA UnnumberedStep ==
  ASSUME IsFiniteSet(Requests), NumbersInv, [Next]_vars
  PROVE  /\ Cardinality(Unnumbered) \in Nat /\ Cardinality(Unnumbered') \in Nat
         /\ Cardinality(Unnumbered') <= Cardinality(Unnumbered)
         /\ \A v \in Workers : Store(v) => Cardinality(Unnumbered') < Cardinality(Unnumbered)
<1> USE DEF NumbersInv
<1>1. IsFiniteSet(Unnumbered)
  BY FS_Subset DEF Unnumbered
<1>2. ASSUME NEW v \in Workers, Store(v)
      PROVE  Unnumbered' = Unnumbered \ {cur[v]} /\ cur[v] \in Unnumbered
  BY <1>2, NumberGiven DEF Unnumbered, TypeOK
<1>3. CASE \E v \in Workers : Store(v)
  <2>1. PICK v \in Workers : Store(v)
    BY <1>3
  <2>2. Cardinality(Unnumbered') = Cardinality(Unnumbered) - 1 /\ IsFiniteSet(Unnumbered')
    BY <1>1, <1>2, <2>1, FS_RemoveElement
  <2> QED
    BY <1>1, <2>2, FS_CardinalityType
<1>4. CASE \A v \in Workers : ~Store(v)
  <2>1. order' = order
    <3>1. ASSUME NEW v \in Workers, Continues(v) PROVE order' = order
      BY <1>4, <3>1 DEF Continues, Lock, Load, Parse, CallDriver, Describe, Abort, txVars
    <3>2. ASSUME NEW v \in Workers, Ends(v) PROVE order' = order
      BY <3>2, Endings DEF txVars
    <3>3. ASSUME NEW v \in Workers, NEW r \in Requests, NEW in \in Inputs, Accept(v, r, in) PROVE order' = order
      BY <3>3 DEF Accept, txVars
    <3> QED
      BY <3>1, <3>2, <3>3, Steps DEF vars, txVars
  <2>2. Unnumbered' = Unnumbered
    BY <2>1 DEF Unnumbered
  <2> QED
    BY <1>1, <1>4, <2>2, FS_CardinalityType
<1> QED
  BY <1>3, <1>4

\* Fairness of every task lasts: what holds of each of a finite number of tasks
\* for ever holds for ever of all.
FairUpTo(f, n, k) == Fairness => [](\A i \in 1 .. n : i <= k => RunsOn(f[i]))

LEMMA FairnessLasts ==
  ASSUME IsFiniteSet(Workers)
  PROVE  Fairness => []Fairness
<1> DEFINE n == Cardinality(Workers)
<1>1. n \in Nat /\ ExistsBijection(1 .. n, Workers)
  BY FS_CardinalityType
<1>2. PICK f \in [1 .. n -> Workers] : \A w \in Workers : \E i \in 1 .. n : f[i] = w
  BY <1>1 DEF ExistsBijection, Bijection, Surjection
<1> HIDE DEF n
<1>3. FairUpTo(f, n, 0)
  <2>1. \A i \in 1 .. n : i <= 0 => RunsOn(f[i])
    BY <1>1
  <2> QED
    BY <2>1, PTL DEF FairUpTo
<1>4. ASSUME NEW k \in Nat PROVE FairUpTo(f, n, k) => FairUpTo(f, n, k + 1)
  <2>1. CASE k + 1 \in 1 .. n
    <3>1. Fairness => RunsOn(f[k + 1])
      BY <1>2, <2>1 DEF Fairness
    <3>2. RunsOn(f[k + 1]) => []RunsOn(f[k + 1])
      BY PTL DEF RunsOn
    <3>3. (\A i \in 1 .. n : i <= k => RunsOn(f[i])) /\ RunsOn(f[k + 1])
            => \A i \in 1 .. n : i <= k + 1 => RunsOn(f[i])
      <4> SUFFICES ASSUME \A i \in 1 .. n : i <= k => RunsOn(f[i]), RunsOn(f[k + 1]),
                          NEW i \in 1 .. n, i <= k + 1
                   PROVE  RunsOn(f[i])
        OBVIOUS
      <4>1. i <= k \/ i = k + 1
        BY <1>1
      <4> QED
        BY <4>1
    <3> QED
      BY <3>1, <3>2, <3>3, PTL DEF FairUpTo
  <2>2. CASE k + 1 \notin 1 .. n
    <3>1. (\A i \in 1 .. n : i <= k => RunsOn(f[i])) => \A i \in 1 .. n : i <= k + 1 => RunsOn(f[i])
      BY <1>1, <2>2
    <3> QED
      BY <3>1, PTL DEF FairUpTo
  <2> QED
    BY <2>1, <2>2
<1>5. \E g : \A k \in Nat : g[k] <=> FairUpTo(f, n, k)
  <2> DEFINE F == [k \in Nat |-> FairUpTo(f, n, k)]
  <2>1. Truths(F)
    BY DEF Truths
  <2> QED
    BY <2>1, SomeTruths
<1>6. PICK g : \A k \in Nat : g[k] <=> FairUpTo(f, n, k)
  BY <1>5
<1>7. \A k \in Nat : g[k]
  <2>1. g[0]
    BY <1>3, <1>6
  <2>2. \A k \in Nat : g[k] => g[k + 1]
    BY <1>4, <1>6
  <2> QED
    BY <2>1, <2>2, Induction
<1>8. FairUpTo(f, n, n)
  BY <1>1, <1>6, <1>7
<1>9. (\A i \in 1 .. n : i <= n => RunsOn(f[i])) => Fairness
  BY <1>1, <1>2 DEF Fairness
<1> QED
  BY <1>8, <1>9, PTL DEF FairUpTo

\* A behaviour of the API, as far as answers need it.
Runs ==
  [][Next]_vars /\ [](NumbersInv /\ HandlersNeverWait /\ Running) /\ []Fairness

Doing(w, r, label) == cur[w] = r /\ pc[w] = label
Answered(r) == reply[r] # None

\* A task that waits for the mutex while at most n requests have no number, and
\* the same while another task holds it.
Waits(w, r, n) == Doing(w, r, "lock") /\ Cardinality(Unnumbered) <= n
Holds(v, w, r, n, label) == Waits(w, r, n) /\ pc[v] = label

\* It gets the mutex in the end, since every holder leaves it with a number.
GetsMutex(w, r, n) == Runs => (Waits(w, r, n) ~> Doing(w, r, "load"))

LEMMA NoneWaitsAtZero ==
  ASSUME IsFiniteSet(Requests), NEW w \in Workers, NEW r \in Requests
  PROVE  GetsMutex(w, r, 0)
<1>1. NumbersInv => ~Waits(w, r, 0)
  <2> SUFFICES ASSUME NumbersInv, Doing(w, r, "lock") PROVE ~(Cardinality(Unnumbered) <= 0)
    BY DEF Waits
  <2>1. r \in Unnumbered
    BY DEF Doing, NumbersInv, Numbered, Unnumbered
  <2>2. IsFiniteSet(Unnumbered)
    BY FS_Subset DEF Unnumbered
  <2> QED
    BY <2>1, <2>2, FS_EmptySet, FS_CardinalityType
<1> QED
  BY <1>1, PTL DEF GetsMutex, Runs

LEMMA WaitingStep ==
  ASSUME IsFiniteSet(Requests), NumbersInv, [Next]_vars, Running',
         NEW w \in Workers, NEW r \in Requests, NEW n \in Nat, Waits(w, r, n)
  PROVE  /\ Waits(w, r, n)' \/ Doing(w, r, "load")'
         /\ Handler(w) => Doing(w, r, "load")'
<1>1. cur[w] = r /\ pc[w] = "lock"
  BY DEF Waits, Doing
<1>2. Handler(w) => Doing(w, r, "load")'
  BY <1>1, OwnStep DEF Doing
<1>3. ~Handler(w) => Doing(w, r, "lock")'
  BY <1>1, OthersSteps DEF Doing
<1>4. Cardinality(Unnumbered)' <= n
  BY UnnumberedStep DEF Waits
<1> QED
  BY <1>2, <1>3, <1>4 DEF Waits

LEMMA HoldingStep ==
  ASSUME IsFiniteSet(Requests), NumbersInv, [Next]_vars, Running',
         NEW v \in Workers, NEW w \in Workers, NEW r \in Requests, NEW n \in Nat
  PROVE  /\ Holds(v, w, r, n + 1, "load") =>
              /\ ~Handler(v) => Holds(v, w, r, n + 1, "load")'
              /\ Handler(v) => Holds(v, w, r, n + 1, "store")'
         /\ Holds(v, w, r, n + 1, "store") =>
              /\ ~Handler(v) => Holds(v, w, r, n + 1, "store")'
              /\ Handler(v) => Waits(w, r, n)'
<1> SUFFICES ASSUME NEW label \in {"load", "store"}, Holds(v, w, r, n + 1, label)
             PROVE  /\ ~Handler(v) => Holds(v, w, r, n + 1, label)'
                    /\ Handler(v) => IF label = "load" THEN Holds(v, w, r, n + 1, "store")' ELSE Waits(w, r, n)'
  OBVIOUS
<1>1. Waits(w, r, n + 1) /\ pc[v] = label /\ pc[w] = "lock"
  BY DEF Holds, Waits, Doing
<1>2. lock = v /\ lock # None
  BY <1>1, WorkersAssumption DEF NumbersInv, Mutex
<1>3. ~Handler(w)
  BY <1>1, <1>2 DEF Handler, Lock, Load, Store, Parse, Refuse, CallDriver, Describe, RejectArguments, Abort,
                    RejectFailedCall, Reply, At
<1>4. Waits(w, r, n + 1)'
  <2>1. Doing(w, r, "lock")'
    BY <1>1, <1>3, OthersSteps DEF Waits, Doing
  <2>2. Cardinality(Unnumbered)' <= n + 1
    BY <1>1, UnnumberedStep DEF Waits
  <2> QED
    BY <2>1, <2>2 DEF Waits
<1>5. ~Handler(v) => pc'[v] = label
  BY <1>1, OthersSteps
<1>6. Handler(v) /\ label = "load" => pc'[v] = "store"
  BY <1>1, OwnStep
<1>7. Handler(v) /\ label = "store" => Cardinality(Unnumbered)' <= n
  <2> SUFFICES ASSUME Handler(v), label = "store" PROVE Cardinality(Unnumbered)' <= n
    OBVIOUS
  <2>1. Store(v)
    BY <1>1 DEF Handler, Lock, Load, Parse, Refuse, CallDriver, Describe, RejectArguments, Abort,
                RejectFailedCall, Reply, At
  <2> QED
    BY <1>1, <2>1, UnnumberedStep DEF Waits
<1> QED
  BY <1>4, <1>5, <1>6, <1>7 DEF Holds, Waits

\* The holder of the mutex gives it back, with one request fewer to number.
LeavesMutex(v, w, r, n) ==
  Runs => ((Holds(v, w, r, n + 1, "load") \/ Holds(v, w, r, n + 1, "store")) ~> Waits(w, r, n))

LEMMA HolderLeaves ==
  ASSUME IsFiniteSet(Requests), NEW v \in Workers, NEW w \in Workers, NEW r \in Requests, NEW n \in Nat
  PROVE  LeavesMutex(v, w, r, n)
<1>1. NumbersInv /\ Running' /\ [Next]_vars /\ Holds(v, w, r, n + 1, "load") =>
        Holds(v, w, r, n + 1, "load")' \/ Holds(v, w, r, n + 1, "store")'
  BY HoldingStep
<1>2. NumbersInv /\ Running' /\ [Next]_vars /\ Holds(v, w, r, n + 1, "load") /\ <<Handler(v)>>_vars =>
        Holds(v, w, r, n + 1, "store")'
  BY HoldingStep
<1>3. NumbersInv /\ Running' /\ [Next]_vars /\ Holds(v, w, r, n + 1, "store") =>
        Holds(v, w, r, n + 1, "store")' \/ Waits(w, r, n)'
  BY HoldingStep
<1>4. NumbersInv /\ Running' /\ [Next]_vars /\ Holds(v, w, r, n + 1, "store") /\ <<Handler(v)>>_vars =>
        Waits(w, r, n)'
  BY HoldingStep
<1>5. HandlersNeverWait /\ Running /\ pc[v] \in {"load", "store"} => CanStep(v)
  BY DEF HandlersNeverWait, Ready, At
<1>7. /\ Holds(v, w, r, n + 1, "load") => pc[v] \in {"load", "store"}
      /\ Holds(v, w, r, n + 1, "store") => pc[v] \in {"load", "store"}
  BY DEF Holds
<1>6. Fairness => RunsOn(v)
  BY DEF Fairness
<1> QED
  BY <1>1, <1>2, <1>3, <1>4, <1>5, <1>6, <1>7, PTL DEF Runs, RunsOn, CanStep, LeavesMutex

LEMMA OneFewerWaits ==
  ASSUME IsFiniteSet(Requests), NEW w \in Workers, NEW r \in Requests, NEW n \in Nat
  PROVE  GetsMutex(w, r, n) => GetsMutex(w, r, n + 1)
<1> DEFINE Held(v) == Holds(v, w, r, n + 1, "load") \/ Holds(v, w, r, n + 1, "store")
<1>1. ASSUME NEW v \in Workers PROVE Runs /\ Held(v) => <>Waits(w, r, n)
  <2>1. LeavesMutex(v, w, r, n)
    BY HolderLeaves
  <2> QED
    BY <2>1, PTL DEF LeavesMutex
<1>2. Runs /\ (\E v \in Workers : Held(v)) => <>Waits(w, r, n)
  BY <1>1
<1>3. NumbersInv /\ Waits(w, r, n + 1) /\ lock # None => \E v \in Workers : Held(v)
  <2> SUFFICES ASSUME NumbersInv, Waits(w, r, n + 1), lock # None PROVE \E v \in Workers : Held(v)
    OBVIOUS
  <2>1. PICK v \in Workers : lock = v
    BY DEF NumbersInv, TypeOK
  <2>2. pc[v] \in {"load", "store"}
    BY <2>1 DEF NumbersInv, Mutex
  <2> QED
    BY <2>2 DEF Holds
<1>4. NumbersInv /\ Running' /\ [Next]_vars /\ Waits(w, r, n + 1) =>
        Waits(w, r, n + 1)' \/ Doing(w, r, "load")'
  BY WaitingStep
<1>5. NumbersInv /\ Running' /\ [Next]_vars /\ Waits(w, r, n + 1) /\ <<Handler(w)>>_vars => Doing(w, r, "load")'
  BY WaitingStep
<1>6. Running /\ HandlersNeverWait /\ Waits(w, r, n + 1) /\ ~(lock # None) => CanStep(w)
  BY DEF HandlersNeverWait, Ready, Waits, Doing, At
<1>7. Fairness => RunsOn(w)
  BY DEF Fairness
<1> HIDE DEF Held
<1> QED
  BY <1>2, <1>3, <1>4, <1>5, <1>6, <1>7, PTL DEF Runs, RunsOn, CanStep, GetsMutex

LEMMA MutexIsGot ==
  ASSUME IsFiniteSet(Requests), NEW w \in Workers, NEW r \in Requests
  PROVE  Runs => (Doing(w, r, "lock") ~> Doing(w, r, "load"))
<1>1. \E g : \A n \in Nat : g[n] <=> GetsMutex(w, r, n)
  <2> DEFINE F == [n \in Nat |-> GetsMutex(w, r, n)]
  <2>1. Truths(F)
    BY DEF Truths
  <2> QED
    BY <2>1, SomeTruths
<1>2. PICK g : \A n \in Nat : g[n] <=> GetsMutex(w, r, n)
  BY <1>1
<1>3. \A n \in Nat : g[n]
  <2>1. g[0]
    BY <1>2, NoneWaitsAtZero
  <2>2. \A n \in Nat : g[n] => g[n + 1]
    BY <1>2, OneFewerWaits
  <2> QED
    BY <2>1, <2>2, Induction
<1>4. ASSUME NEW n \in Nat PROVE Runs /\ Waits(w, r, n) => <>Doing(w, r, "load")
  <2>1. GetsMutex(w, r, n)
    BY <1>2, <1>3
  <2> QED
    BY <2>1, PTL DEF GetsMutex
<1>5. Runs /\ (\E n \in Nat : Waits(w, r, n)) => <>Doing(w, r, "load")
  BY <1>4
<1>6. Doing(w, r, "lock") => \E n \in Nat : Waits(w, r, n)
  <2> SUFFICES ASSUME Doing(w, r, "lock") PROVE \E n \in Nat : Waits(w, r, n)
    OBVIOUS
  <2>1. Cardinality(Unnumbered) \in Nat
    BY FS_Subset, FS_CardinalityType DEF Unnumbered
  <2>2. Waits(w, r, Cardinality(Unnumbered))
    BY <2>1 DEF Waits
  <2> QED
    BY <2>1, <2>2
<1> QED
  BY <1>5, <1>6, PTL DEF Runs

\* From the mutex on, each step of a handler comes in turn.
GoesOn(w, r, from, to) == Runs => (Doing(w, r, from) ~> (Doing(w, r, to) \/ Answered(r)))

LEMMA HandlerGoesOn ==
  ASSUME NEW w \in Workers, NEW r \in Requests, NEW from, NEW to,
         <<from, to>> \in {<<"load", "store">>, <<"store", "parse">>, <<"parse", "handle">>,
                           <<"handle", "reply">>, <<"reply", "done">>}
  PROVE  GoesOn(w, r, from, to)
<1>1. NumbersInv /\ Running' /\ [Next]_vars /\ Doing(w, r, from) =>
        Doing(w, r, from)' \/ Doing(w, r, to)' \/ Answered(r)'
  BY OwnStep, OthersSteps DEF Doing, Answered
<1>2. NumbersInv /\ Running' /\ [Next]_vars /\ Doing(w, r, from) /\ <<Handler(w)>>_vars =>
        Doing(w, r, to)' \/ Answered(r)'
  BY OwnStep DEF Doing, Answered
<1>3. Running /\ HandlersNeverWait /\ Doing(w, r, from) => CanStep(w)
  BY DEF HandlersNeverWait, Ready, Doing, At
<1>4. Fairness => RunsOn(w)
  BY DEF Fairness
<1> QED
  BY <1>1, <1>2, <1>3, <1>4, PTL DEF Runs, RunsOn, CanStep, GoesOn

LEMMA HandlerAnswers ==
  ASSUME IsFiniteSet(Requests), NEW w \in Workers, NEW r \in Requests
  PROVE  Runs /\ cur[w] = r => <>Answered(r)
<1>1. /\ GoesOn(w, r, "load", "store") /\ GoesOn(w, r, "store", "parse") /\ GoesOn(w, r, "parse", "handle")
      /\ GoesOn(w, r, "handle", "reply") /\ GoesOn(w, r, "reply", "done")
  BY HandlerGoesOn
<1>2. NumbersInv => ~Doing(w, r, "done")
  BY DEF Doing, NumbersInv, TypeOK, Labels
<1>3. NumbersInv /\ Running /\ cur[w] = r =>
        \/ Doing(w, r, "lock") \/ Doing(w, r, "load") \/ Doing(w, r, "store") \/ Doing(w, r, "parse")
        \/ Doing(w, r, "handle") \/ Doing(w, r, "reply")
  BY NoneAssumption DEF Doing, NumbersInv, TypeOK, Labels, Running, At
<1> QED
  BY <1>1, <1>2, <1>3, MutexIsGot, PTL DEF Runs, GoesOn

\* Every request that reached a handler is answered, for any finite numbers of
\* tasks and requests: the mutex keeps nobody out for ever.
THEOREM RequestsAreAnswered ==
  ASSUME IsFiniteSet(Workers), IsFiniteSet(Requests)
  PROVE  FairSpec /\ []HandlersNeverWait /\ []Running => EveryRequestAnswered
<1>1. ASSUME NEW r \in Requests PROVE Runs => (input[r] # None ~> reply[r] # None)
  <2>1. ASSUME NEW w \in Workers PROVE Runs /\ cur[w] = r => <>Answered(r)
    BY HandlerAnswers
  <2>2. Runs /\ (\E w \in Workers : cur[w] = r) => <>Answered(r)
    BY <2>1
  <2>3. NumbersInv /\ input[r] # None => (\E w \in Workers : cur[w] = r) \/ Answered(r)
    BY DEF NumbersInv, OneHandler, Answered
  <2>4. Answered(r) => reply[r] # None
    BY DEF Answered
  <2> QED
    BY <2>2, <2>3, <2>4, PTL DEF Runs
<1>2. FairSpec /\ []HandlersNeverWait /\ []Running => Runs
  BY NumbersInvariant, FairnessLasts, PTL DEF FairSpec, Spec, Runs
<1>3. Runs => EveryRequestAnswered
  BY <1>1 DEF EveryRequestAnswered
<1> QED
  BY <1>2, <1>3, PTL

-----------------------------------------------------------------------------
(* A handler always has a step to take: a next state for every state, but   *)
(* for the wait for the mutex.                                              *)

Asked(w) == input[cur[w]]
Takes(w) == Arguments(Asked(w).ep, parsed[w].values)

\* What a handler does next at the labels where it depends on the request.
TurnsAway(w) == At(w, "parse") /\ ~IsManagement(Asked(w)) /\ ParseResult(Asked(w)) # "ok"
Parses(w) == At(w, "parse") /\ ~TurnsAway(w)
Describes(w) == At(w, "handle") /\ IsManagement(Asked(w))
Calls(w) == At(w, "handle") /\ ~Describes(w) /\ Takes(w) # {}
Rejects(w) == /\ At(w, "handle") /\ ~Describes(w) /\ ~Calls(w)
              /\ MayRefuse(Asked(w).ep, parsed[w].values)
Closes(w) == TurnsAway(w) \/ Rejects(w) \/ At(w, "reply")

SomePrint(w) == CHOOSE whole : whole \in Prints(Asked(w).ep, err[w])
SomeAnswer(w) ==
  CASE TurnsAway(w) -> ErrorReply(IF ParseResult(Asked(w)) = "notFound" THEN 404 ELSE 400)
    [] At(w, "reply") /\ ~HidesError(w) ->
         JsonReply(Shown(tx[cur[w]]), parsed[w].clientTx, err[w], SomePrint(w))
    [] OTHER -> ErrorReply(400)

LabelAfter(w) ==
  CASE At(w, "lock") -> "load"
    [] At(w, "load") -> "store"
    [] At(w, "store") -> "parse"
    [] Parses(w) -> "handle"
    [] Describes(w) \/ Calls(w) -> "reply"
    [] Closes(w) -> "idle"
    [] OTHER -> "aborted"

\* One value for every variable, and no guard: some state follows every state.
HandlerMove(w) ==
  /\ pc' = [pc EXCEPT ![w] = LabelAfter(w)]
  /\ cur' = IF Closes(w) THEN [cur EXCEPT ![w] = None] ELSE cur
  /\ parsed' = CASE Parses(w) -> [parsed EXCEPT ![w] = Parsed(Asked(w), Asked(w).form)]
                 [] Closes(w) -> [parsed EXCEPT ![w] = Unparsed]
                 [] OTHER -> parsed
  /\ err' = IF Describes(w) \/ Calls(w) THEN [err EXCEPT ![w] = 0] ELSE err
  /\ reg' = IF At(w, "load") THEN [reg EXCEPT ![w] = counter] ELSE reg
  /\ lock' = CASE At(w, "lock") -> w [] At(w, "store") -> None [] OTHER -> lock
  /\ IF At(w, "store") THEN Draws(w, (reg[w] + 1) % IdRange)
     ELSE UNCHANGED <<counter, tx, drawn, order>>
  /\ heap' = CASE Describes(w) \/ Calls(w) -> heap \cup {Root(w)}
               [] At(w, "reply") /\ HidesError(w) -> heap \ {Root(w)}
               [] At(w, "reply") /\ ~HidesError(w) -> heap \ {Root(w), Body(w)}
               [] OTHER -> heap
  /\ args' = IF Calls(w) THEN [args EXCEPT ![cur[w]] = CHOOSE a : a \in Takes(w)] ELSE args
  /\ reply' = IF Closes(w) THEN [reply EXCEPT ![cur[w]] = SomeAnswer(w)] ELSE reply
  /\ UNCHANGED input

\* Whatever a parameter is, its handler makes something of it; and if it neither
\* refuses nor aborts, there are arguments for the driver.
LEMMA SomeMeaning == \A kind, v : Meanings(kind, v) # {}
<1>1. \A kind : Lost(kind) # {}
  BY DEF Lost, AnyInteger
<1> QED
  BY <1>1 DEF Meanings

LEMMA ArgumentsExist ==
  ASSUME NEW ep, NEW values, ~MayRefuse(ep, values), ~MayCrash(ep, values)
  PROVE  Arguments(ep, values) # {}
<1> DEFINE D == DOMAIN ep.params
           a == [i \in D |-> CHOOSE m : m \in Readings(ep, values, i)]
           All == UNION {Readings(ep, values, i) : i \in D}
<1>1. ASSUME NEW i \in D
      PROVE  (CHOOSE m : m \in Readings(ep, values, i)) \in Readings(ep, values, i)
  <2>1. Readings(ep, values, i) # {}
    BY SomeMeaning DEF Readings
  <2>2. \E m : m \in Readings(ep, values, i)
    BY <2>1
  <2> QED
    BY <2>2
<1>2. \A i \in D : a[i] \in Readings(ep, values, i)
  BY <1>1
<1>3. \A i \in D : a[i] # Refused /\ a[i] # Crash
  BY <1>2 DEF MayRefuse, MayCrash
<1>4. \A i \in D : a[i] \in All \ {Refused, Crash}
  BY <1>2, <1>3
<1>5. a \in [D -> All \ {Refused, Crash}]
  BY <1>4
<1> HIDE DEF a
<1> QED
  BY <1>2, <1>5 DEF Arguments

LEMMA HandlerGoesOnFrom ==
  ASSUME TypeOK, Running, NEW w \in Workers, Ready(w), HandlerMove(w)
  PROVE  Handler(w) /\ pc' # pc
<1>1. pc \in [Workers -> Labels] /\ pc[w] # "aborted" /\ pc[w] # "idle"
  BY DEF TypeOK, Ready
<1>2. ASSUME NEW from \in Labels, NEW to, pc[w] = from, to # from, Goto(w, to) PROVE pc' # pc
  BY <1>1, <1>2 DEF Goto
<1>3. CASE At(w, "lock")
  <2>1. Goto(w, "load") /\ UNCHANGED <<cur, parsed, err, reg, counter, tx, drawn, order, heap, input, args, reply>>
        /\ lock' = w /\ lock = None
    BY <1>3 DEF HandlerMove, LabelAfter, Goto, At, Ready, Closes, TurnsAway, Rejects, Parses, Calls,
          Describes
  <2>2. Lock(w)
    BY <1>3, <2>1 DEF Lock
  <2> QED
    BY <1>2, <1>3, <2>1, <2>2 DEF Handler, Labels, At
<1>4. CASE At(w, "load")
  <2>1. Goto(w, "store") /\ UNCHANGED <<cur, parsed, err, lock, counter, tx, drawn, order, heap, input, args, reply>>
        /\ reg' = [reg EXCEPT ![w] = counter]
    BY <1>4 DEF HandlerMove, LabelAfter, Goto, At, Closes, TurnsAway, Rejects, Parses, Calls, Describes
  <2>2. Load(w)
    BY <1>4, <2>1 DEF Load
  <2> QED
    BY <1>2, <1>4, <2>1, <2>2 DEF Handler, Labels, At
<1>5. CASE At(w, "store")
  <2>1. Goto(w, "parse") /\ UNCHANGED <<cur, parsed, err, reg, heap, input, args, reply>>
        /\ lock' = None /\ Draws(w, (reg[w] + 1) % IdRange)
    BY <1>5 DEF HandlerMove, LabelAfter, Goto, At, Closes, TurnsAway, Rejects, Parses, Calls, Describes
  <2>2. Store(w)
    BY <1>5, <2>1 DEF Store
  <2> QED
    BY <1>2, <1>5, <2>1, <2>2 DEF Handler, Labels, At
<1>6. CASE At(w, "parse") /\ Parses(w)
  <2>1. Goto(w, "handle") /\ UNCHANGED <<cur, err, txVars, heap, input, args, reply>>
        /\ parsed' = [parsed EXCEPT ![w] = Parsed(Asked(w), Asked(w).form)]
    BY <1>6 DEF HandlerMove, LabelAfter, Goto, At, Closes, Rejects, Parses, Calls, Describes, txVars
  <2>2. Asked(w).form \in Received(Asked(w).form)
    BY DEF Received
  <2>3. Parse(w)
    BY <1>6, <2>1, <2>2 DEF Parse, Parses, TurnsAway, Asked
  <2> QED
    BY <1>2, <1>6, <2>1, <2>3 DEF Handler, Labels, At
<1>7. CASE Closes(w)
  <2>1. /\ Finish(w, SomeAnswer(w)) /\ Goto(w, "idle") /\ UNCHANGED <<err, txVars, input, args>>
        /\ heap' = CASE At(w, "reply") /\ HidesError(w) -> heap \ {Root(w)}
                     [] At(w, "reply") /\ ~HidesError(w) -> heap \ {Root(w), Body(w)}
                     [] OTHER -> heap
    BY <1>7 DEF HandlerMove, LabelAfter, Finish, Goto, At, Closes, TurnsAway, Rejects, Parses, Calls,
          Describes, txVars
  <2>2. ASSUME TurnsAway(w) PROVE Handler(w)
    <3>1. Refuse(w)
      BY <2>1, <2>2 DEF Refuse, TurnsAway, Asked, SomeAnswer, At
    <3> QED
      BY <3>1 DEF Handler
  <2>3. ASSUME Rejects(w) PROVE Handler(w)
    <3>1. RejectArguments(w)
      BY <2>1, <2>3 DEF RejectArguments, Rejects, Describes, TurnsAway, Asked, SomeAnswer, At
    <3> QED
      BY <3>1 DEF Handler
  <2>4. ASSUME At(w, "reply"), HidesError(w) PROVE Handler(w)
    <3>1. RejectFailedCall(w)
      BY <2>1, <2>4 DEF RejectFailedCall, TurnsAway, SomeAnswer, At
    <3> QED
      BY <3>1 DEF Handler
  <2>5. ASSUME At(w, "reply"), ~HidesError(w) PROVE Handler(w)
    <3>1. SomePrint(w) \in Prints(Asked(w).ep, err[w])
      <4>1. \E whole : whole \in Prints(Asked(w).ep, err[w])
        BY DEF Prints
      <4> QED
        BY <4>1 DEF SomePrint
    <3>2. SomeAnswer(w) = JsonReply(Shown(tx[cur[w]]), parsed[w].clientTx, err[w], SomePrint(w))
      BY <2>5 DEF SomeAnswer, TurnsAway, At
    <3>3. Reply(w)
      BY <2>1, <2>5, <3>1, <3>2 DEF Reply, Asked, At
    <3> QED
      BY <3>3 DEF Handler
  <2>6. Handler(w)
    BY <1>7, <2>2, <2>3, <2>4, <2>5 DEF Closes
  <2> QED
    BY <1>1, <1>2, <2>1, <2>6 DEF Handler
<1>8. CASE Describes(w)
  <2>1. /\ Goto(w, "reply") /\ UNCHANGED <<cur, parsed, txVars, input, args, reply>>
        /\ err' = [err EXCEPT ![w] = 0] /\ heap' = heap \cup {Root(w)}
    BY <1>8 DEF HandlerMove, LabelAfter, Goto, At, Closes, TurnsAway, Rejects, Parses, Calls,
          Describes, txVars
  <2>2. Describe(w)
    BY <1>8, <2>1 DEF Describe, Describes, Asked
  <2> QED
    BY <1>2, <1>8, <2>1, <2>2 DEF Handler, Labels, At, Describes
<1>9. CASE Calls(w)
  <2>1. /\ Goto(w, "reply") /\ UNCHANGED <<cur, parsed, txVars, input, reply>>
        /\ err' = [err EXCEPT ![w] = 0] /\ heap' = heap \cup {Root(w)}
        /\ args' = [args EXCEPT ![cur[w]] = CHOOSE a : a \in Takes(w)]
    BY <1>9 DEF HandlerMove, LabelAfter, Goto, At, Closes, TurnsAway, Rejects, Parses, Calls, txVars
  <2>2. (CHOOSE a : a \in Takes(w)) \in Takes(w)
    <3>1. \E a : a \in Takes(w)
      BY <1>9 DEF Calls
    <3> QED
      BY <3>1
  <2>3. CallDriver(w)
    BY <1>9, <2>1, <2>2 DEF CallDriver, Calls, Describes, Asked, Takes
  <2> QED
    BY <1>2, <1>9, <2>1, <2>3 DEF Handler, Labels, At, Calls
<1>10. CASE At(w, "handle") /\ ~Describes(w) /\ ~Calls(w) /\ ~Rejects(w)
  <2>1. Goto(w, "aborted") /\ UNCHANGED <<cur, parsed, err, txVars, heap, input, args, reply>>
    BY <1>10 DEF HandlerMove, LabelAfter, Goto, At, Closes, TurnsAway, Parses, txVars
  <2>2. MayCrash(Asked(w).ep, parsed[w].values)
    BY <1>10, ArgumentsExist DEF Rejects, Calls, Takes
  <2>3. Abort(w)
    BY <1>10, <2>1, <2>2 DEF Abort, Describes, Asked
  <2> QED
    BY <1>2, <1>10, <2>1, <2>3 DEF Handler, Labels, At
<1> QED
  BY <1>1, <1>3, <1>4, <1>5, <1>6, <1>7, <1>8, <1>9, <1>10 DEF Labels, At, Parses, Closes

\* A handler waits for nothing but the mutex: when HandlersNeverWait says that it
\* has a step to take, it has.  And the handlers never all wait: while one is under
\* way, some handler has a step to take, as the mutex has no absent holder.
THEOREM HandlersGoOn ==
  /\ TypeOK /\ Running =>
       \A w \in Workers : Ready(w) /\ HandlerMove(w) => <<Handler(w)>>_vars
  /\ NumbersInv /\ Running /\ (\E w \in Workers : cur[w] # None) => \E v \in Workers : Ready(v)
<1>1. TypeOK /\ Running =>
        \A w \in Workers : Ready(w) /\ HandlerMove(w) => <<Handler(w)>>_vars
  BY HandlerGoesOnFrom DEF vars, taskVars
<1>2. ASSUME NumbersInv, Running, NEW w \in Workers, cur[w] # None
      PROVE  \E v \in Workers : Ready(v)
  <2>1. pc[w] # "idle" /\ pc[w] # "aborted"
    BY <1>2 DEF NumbersInv, TypeOK, Running, At
  <2>2. CASE lock = None
    BY <2>1, <2>2 DEF Ready
  <2>3. CASE lock # None
    <3>1. lock \in Workers /\ pc[lock] \in {"load", "store"}
      BY <1>2, <2>3 DEF NumbersInv, TypeOK, Mutex
    <3> QED
      BY <3>1 DEF Ready, At
  <2> QED
    BY <2>2, <2>3
<1> QED
  BY <1>1, <1>2
=============================================================================
