------------------------ MODULE DiscoveryLiveProofs ------------------------
(***************************************************************************)
(* That the discovery responder gets on with its work, for every value of  *)
(* the constants of Discovery.                                             *)
(*                                                                         *)
(* ENABLED means nothing to the provers.  What weak fairness says of a     *)
(* step that can be taken is therefore used with TasksNeverWait, the       *)
(* invariant that says when each task can take one.  What that invariant   *)
(* rests on is proved at the end, as TasksGoOn.  Where the number of steps *)
(* depends on where a datagram stands in line, the proof is an induction   *)
(* over that number (module Descent).                                      *)
(***************************************************************************)
EXTENDS DiscoveryProofs, Descent

Done(r) == fate[r] # "pending"
Started == dpc \in {"recv", "send"}

\* What is true of a responder that runs: nothing is held for a socket that is
\* not bound or queued before there is a queue, discovery_task is the second to be
\* created, and when replies are prompt at
\* most one message is on its way to discovery_task's reply, during the pause.
LiveInv ==
  /\ ~bound => mailbox = <<>>
  /\ upc \in {"unborn", "failed"} => queue = <<>>
  /\ dpc # "unborn" => upc # "unborn"
  /\ PromptReplies /\ (queue # <<>> \/ dpc = "send") => upc = "delay"
  /\ PromptReplies /\ queue # <<>> => Len(queue) = 1 /\ dpc # "send"

LEMMA LiveInit == Init => LiveInv
BY DEF Init, LiveInv

LEMMA LiveStep == CoreInv /\ LiveInv /\ [Next]_vars => LiveInv'
<1> SUFFICES ASSUME CoreInv, LiveInv, [Next]_vars PROVE LiveInv'
  OBVIOUS
<1> USE DEF LiveInv
<1>0. SocketOwnership /\ TypeOK
  BY DEF CoreInv
<1>1. CASE UdpSocket \/ UdpBind \/ UdpTimeout \/ UdpQueueFull
  BY <1>0, <1>1 DEF UdpSocket, UdpBind, UdpTimeout, UdpQueueFull, SocketOwnership, TypeOK, discVars
<1>2. CASE UdpRecv
  BY <1>0, <1>2 DEF UdpRecv, discVars, SocketOwnership, TypeOK
<1>3. CASE UdpEnqueue
  <2>1. [from |-> rx, sock |-> sock] \in Messages
    BY <1>0, <1>3 DEF UdpEnqueue, TypeOK, SocketOwnership, Messages, CoreInv, Control
  <2>2. Len(queue') = Len(queue) + 1 /\ (queue = <<>> => Len(queue) = 0)
    BY <1>0, <1>3, <2>1, AddLast DEF UdpEnqueue, TypeOK
  <2> QED
    BY <1>3, <2>2 DEF UdpEnqueue, discVars
<1>4. CASE UdpDelayDone
  BY <1>4 DEF UdpDelayDone, discVars
<1>5. CASE UdpClose
  BY <1>5 DEF UdpClose, discVars
<1>6. CASE DiscRecv
  <2>1. Len(Tail(queue)) = Len(queue) - 1 /\ Tail(queue) \in Seq(Messages)
    BY <1>0, <1>6, TakeFirst DEF DiscRecv, TypeOK
  <2>2. Len(queue) = 1 => Tail(queue) = <<>>
    <3>1. Tail(queue) # <<>> => Len(Tail(queue)) # 0
      BY <2>1, EmptySeq
    <3> QED
      BY <2>1, <3>1
  <2> QED
    BY <1>6, <2>1, <2>2 DEF DiscRecv, udpVars
<1>7. CASE DiscSend
  BY <1>7 DEF DiscSend, udpVars
<1>8. ASSUME NEW r \in Requests, NEW b \in Bodies, Arrive(r, b) PROVE LiveInv'
  BY <1>8 DEF Arrive, udpVars, discVars
<1>9. CASE HttpOpen \/ HttpClose \/ UNCHANGED vars
  BY <1>9 DEF HttpOpen, HttpClose, vars, udpVars, discVars
<1>10. CASE StartUdp \/ StartDiscovery \/ CrashAtStart
  BY <1>10 DEF StartUdp, StartDiscovery, CrashAtStart, udpVars, discVars
<1> QED
  BY <1>1, <1>2, <1>3, <1>4, <1>5, <1>6, <1>7, <1>8, <1>9, <1>10
     DEF Next, Startup, UdpTask, DiscoveryTask, Environment

RunInv == CoreInv /\ ConsInv /\ LiveInv

LEMMA RunInvariant == Spec => []RunInv
<1>1. Init => RunInv
  BY CoreInit, ConsInit, LiveInit DEF RunInv
<1>2. RunInv /\ [Next]_vars => RunInv'
  BY CoreStep, ConsStep, LiveStep DEF RunInv
<1> QED
  BY <1>1, <1>2, PTL DEF Spec

-----------------------------------------------------------------------------
(* The responder listens again and again: from its first line to its first *)
(* socket, from a socket to bind, and from there the port is bound until   *)
(* the socket is closed and the next one made.                             *)

Listening ==
  /\ upc \notin {"failed", "dead"}
  /\ upc \in {"recv", "enqueue", "delay", "close"} => bound

\* When there is memory and bind succeeds, the responder listens again and again.
THEOREM ResponderKeepsListening ==
  ASSUME HttpSockets < NumSockets,
         CreateResults = {TRUE}, SocketResults = {TRUE}, BindResults = {TRUE}
  PROVE  FairSpec /\ []TasksNeverWait => KeepsListening
<1> USE DEF Listening
<1>1. Init => Listening
  BY DEF Init
<1>2. SocketFindsDescriptor /\ Listening /\ [Next]_vars => Listening'
  BY DEF SocketFindsDescriptor,
         Next, Startup, StartUdp, StartDiscovery, CrashAtStart, UdpTask, DiscoveryTask, Environment,
         UdpSocket, UdpBind, UdpRecv, UdpTimeout, UdpEnqueue, UdpQueueFull, UdpDelayDone, UdpClose,
         DiscRecv, DiscSend, Arrive, HttpOpen, HttpClose, vars, udpVars
<1>3. Spec => [](Listening /\ TypeOK)
  BY <1>1, <1>2, SocketAlwaysFindsDescriptor, TypeCorrect, PTL DEF Spec
<1>4. upc = "unborn" /\ [Next]_vars => (upc = "unborn")' \/ (upc = "socket")'
  BY DEF Next, Startup, StartUdp, StartDiscovery, CrashAtStart, UdpTask, DiscoveryTask, Environment,
         UdpSocket, UdpBind, UdpRecv, UdpTimeout, UdpEnqueue, UdpQueueFull, UdpDelayDone, UdpClose,
         DiscRecv, DiscSend, Arrive, HttpOpen, HttpClose, vars, udpVars
<1>5. upc = "unborn" /\ <<Startup>>_vars => (upc = "socket")'
  BY DEF Startup, StartUdp, StartDiscovery, CrashAtStart
<1>6. upc = "unborn" /\ TasksNeverWait => ENABLED <<Startup>>_vars
  BY DEF TasksNeverWait, StartupReady
<1>7. Listening' /\ upc = "socket" /\ [Next]_vars => (upc = "socket")' \/ (upc = "bind")'
  BY DEF Next, Startup, StartUdp, StartDiscovery, CrashAtStart, UdpTask, DiscoveryTask, Environment,
         UdpSocket, UdpBind, UdpRecv, UdpTimeout, UdpEnqueue, UdpQueueFull, UdpDelayDone, UdpClose,
         DiscRecv, DiscSend, Arrive, HttpOpen, HttpClose, vars, udpVars
<1>8. Listening' /\ upc = "socket" /\ <<UdpTask>>_vars => (upc = "bind")'
  BY DEF UdpTask, UdpSocket, UdpBind, UdpRecv, UdpTimeout, UdpEnqueue, UdpQueueFull,
         UdpDelayDone, UdpClose
<1>9. upc = "bind" /\ [Next]_vars => (upc = "bind")' \/ bound'
  BY DEF Next, Startup, StartUdp, StartDiscovery, CrashAtStart, UdpTask, DiscoveryTask, Environment,
         UdpSocket, UdpBind, UdpRecv, UdpTimeout, UdpEnqueue, UdpQueueFull, UdpDelayDone, UdpClose,
         DiscRecv, DiscSend, Arrive, HttpOpen, HttpClose, vars, udpVars
<1>10. upc = "bind" /\ <<UdpTask>>_vars => bound'
  BY DEF UdpTask, UdpSocket, UdpBind, UdpRecv, UdpTimeout, UdpEnqueue, UdpQueueFull, UdpDelayDone, UdpClose
<1>11. upc \in {"socket", "bind"} /\ TasksNeverWait => ENABLED <<UdpTask>>_vars
  BY DEF TasksNeverWait, UdpReady
<1>12. upc = "socket" => upc \in {"socket", "bind"}
  OBVIOUS
<1>13. upc = "bind" => upc \in {"socket", "bind"}
  OBVIOUS
<1>14. Listening /\ TypeOK =>
         bound \/ upc = "unborn" \/ upc = "socket" \/ upc = "bind"
  BY DEF TypeOK
<1> QED
  BY <1>3, <1>4, <1>5, <1>6, <1>7, <1>8, <1>9, <1>10, <1>11, <1>12, <1>13, <1>14, PTL
     DEF FairSpec, Spec, Fairness, KeepsListening

-----------------------------------------------------------------------------
(* Every datagram settles.  A behaviour of the running responder, as far as *)
(* this needs it.  If discovery_task could not be created and the chip      *)
(* never restarts, what is in the queue stays there.                        *)

Runs ==
  /\ [][Next]_vars /\ [](RunInv /\ TasksNeverWait /\ dpc # "failed")
  /\ WF_vars(Startup) /\ WF_vars(UdpTask) /\ WF_vars(DiscoveryTask)

\* Where a pending datagram is in the queue counts the steps discovery_task has
\* to take before it gets to it: two for each message, one less in between.
QueueWithin(r, n) ==
  Started /\ \E j \in DOMAIN queue : queue[j].from = r /\ 2 * j + (IF dpc = "send" THEN 1 ELSE 0) <= n

\* And in the mailbox, while the socket is open, three steps of udp_server_task
\* for each datagram: recvfrom, the queue, the pause.
Stage == CASE upc = "recv" -> 0 [] upc = "delay" -> 1 [] upc = "enqueue" -> 2
MailWithin(r, n) ==
  /\ Started /\ upc \in {"recv", "delay", "enqueue"}
  /\ \E i \in DOMAIN mailbox : mailbox[i] = r /\ 3 * i + Stage <= n

Waiting(r) == Started /\ InMailbox(r) /\ upc # "close"
Closing(r) == Started /\ InMailbox(r) /\ upc = "close"
InHand(r)  == Started /\ rx = r
Queued(r)  == Started /\ InQueue(r)

\* Once started, discovery_task stays.
LEMMA StaysStarted == Started /\ [Next]_vars => Started'
BY DEF Started, Next, Startup, StartUdp, StartDiscovery, CrashAtStart, UdpTask, DiscoveryTask, Environment,
       UdpSocket, UdpBind, UdpRecv, UdpTimeout, UdpEnqueue, UdpQueueFull, UdpDelayDone, UdpClose,
       DiscRecv, DiscSend, Arrive, HttpOpen, HttpClose, vars, discVars

\* A pending datagram is somewhere.
LEMMA SomePlace ==
  ASSUME RunInv, NEW r \in Requests, fate[r] = "pending", Started
  PROVE  Waiting(r) \/ Closing(r) \/ InHand(r) \/ Queued(r) \/ InMsg(r)
BY DEF RunInv, ConsInv, Conservation, Waiting, Closing, InHand, Queued

\* A step is one of the two tasks', or the first of udp_server_task, or one that
\* leaves both and all they hold alone, the end of the mailbox apart.
LEMMA OtherSteps ==
  ASSUME RunInv, Started, [Next]_vars, ~UdpTask, ~DiscoveryTask
  PROVE  /\ UNCHANGED <<queue, dpc, msg, upc, sock, rx>>
         /\ \A i \in DOMAIN mailbox : i \in DOMAIN mailbox' /\ mailbox'[i] = mailbox[i]
<1>1. ASSUME NEW q \in Requests, NEW b \in Bodies, Arrive(q, b)
      PROVE  /\ \A i \in DOMAIN mailbox : i \in DOMAIN mailbox' /\ mailbox'[i] = mailbox[i]
             /\ UNCHANGED <<queue, dpc, msg, upc, sock, rx>>
  BY <1>1, AddLast DEF Arrive, RunInv, CoreInv, TypeOK, udpVars, discVars
<1>2. ~Startup
  BY DEF RunInv, LiveInv, Started, Startup, StartUdp, StartDiscovery, CrashAtStart
<1>3. CASE HttpOpen \/ HttpClose \/ UNCHANGED vars
  BY <1>3 DEF HttpOpen, HttpClose, vars, udpVars, discVars
<1> QED
  BY <1>1, <1>2, <1>3 DEF Next, Environment

\* Of the tasks' steps, what is about to be answered is left alone by
\* udp_server_task and settled by discovery_task.
LEMMA MsgStep ==
  ASSUME RunInv, [Next]_vars, NEW r \in Requests, InMsg(r)
  PROVE  /\ InMsg(r)' \/ Done(r)'
         /\ DiscoveryTask => Done(r)'
<1>1. Started
  BY DEF InMsg, Started
<1>2. CASE UdpTask
  <2>1. UNCHANGED <<dpc, msg>>
    BY <1>2 DEF UdpTask, UdpSocket, UdpBind, UdpRecv, UdpTimeout, UdpEnqueue, UdpQueueFull, UdpDelayDone,
                UdpClose, discVars
  <2>2. ~DiscoveryTask
    BY <1>1, <2>1 DEF InMsg, DiscoveryTask, DiscRecv, DiscSend
  <2> QED
    BY <2>1, <2>2 DEF InMsg
<1>3. CASE DiscoveryTask
  <2>1. DiscSend
    BY <1>3 DEF DiscoveryTask, DiscRecv, InMsg
  <2>2. PICK how \in SendOutcomes(msg.sock) : Settle(r, how)
    BY <2>1 DEF DiscSend, InMsg
  <2>3. how # "pending"
    BY DEF SendOutcomes
  <2> QED
    BY <2>2, <2>3 DEF Settle, RunInv, CoreInv, TypeOK, Done
<1>4. CASE ~UdpTask /\ ~DiscoveryTask
  BY <1>1, <1>4, OtherSteps DEF InMsg
<1> QED
  BY <1>2, <1>3, <1>4

\* A message in the queue moves up at each of discovery_task's steps, and nothing
\* else moves it.
LEMMA QueueStep ==
  ASSUME RunInv, [Next]_vars, NEW r \in Requests, NEW n \in Nat, QueueWithin(r, n + 1)
  PROVE  /\ QueueWithin(r, n + 1)' \/ InMsg(r)' \/ Done(r)'
         /\ DiscoveryTask => QueueWithin(r, n)' \/ InMsg(r)' \/ Done(r)'
<1> DEFINE W(m) == QueueWithin(r, m)
<1>0. /\ queue \in Seq(Messages) /\ Started
      /\ W(n)' => W(n + 1)'
  <2>1. queue \in Seq(Messages) /\ queue' \in Seq(Messages)
    BY CoreStep DEF RunInv, CoreInv, TypeOK
  <2>2. \A j \in DOMAIN queue' : j \in Nat
    BY <2>1
  <2> QED
    BY <2>1, <2>2 DEF QueueWithin, Started
<1>1. PICK j \in DOMAIN queue : queue[j].from = r /\ 2 * j + (IF dpc = "send" THEN 1 ELSE 0) <= n + 1
  BY DEF QueueWithin
<1>2. CASE DiscRecv
  <2>1. /\ Head(queue) = queue[1] /\ Head(queue) \in Messages
        /\ j # 1 => j - 1 \in DOMAIN queue' /\ queue'[j - 1] = queue[j]
    BY <1>0, <1>1, <1>2, TakeFirst DEF DiscRecv
  <2>2. CASE j = 1
    <3>1. CASE dpc' = "send"
      BY <1>1, <1>2, <2>1, <2>2, <3>1 DEF DiscRecv, InMsg
    <3>2. CASE Settle(r, "ignored")
      BY <3>2 DEF Settle, RunInv, CoreInv, TypeOK, Done
    <3> QED
      BY <1>1, <1>2, <2>1, <2>2, <3>1, <3>2 DEF DiscRecv
  <2>3. CASE j # 1
    <3>1. dpc = "recv" /\ dpc' \in {"recv", "send"}
      BY <1>2 DEF DiscRecv
    <3>2. 2 * (j - 1) + 1 <= n /\ j \in Nat
      BY <1>0, <1>1, <3>1
    <3>3. W(n)'
      BY <1>1, <2>1, <2>3, <3>1, <3>2 DEF QueueWithin, Started
    <3> QED
      BY <1>0, <3>3
  <2> QED
    BY <2>2, <2>3
<1>3. CASE DiscSend
  <2>1. W(n)'
    BY <1>0, <1>1, <1>3 DEF DiscSend, QueueWithin, Started
  <2> QED
    BY <1>0, <2>1
<1>4. CASE UdpTask
  <2>1. dpc' = dpc /\ ~DiscoveryTask
    BY <1>0, <1>4 DEF UdpTask, UdpSocket, UdpBind, UdpRecv, UdpTimeout, UdpEnqueue, UdpQueueFull,
                UdpDelayDone, UdpClose, discVars, udpVars, DiscoveryTask, DiscRecv, DiscSend
  <2>2. j \in DOMAIN queue' /\ queue'[j] = queue[j]
    <3>1. CASE UdpEnqueue
      <4>1. [from |-> rx, sock |-> sock] \in Messages
        BY <3>1 DEF UdpEnqueue, RunInv, CoreInv, TypeOK, SocketOwnership, Control, Messages
      <4> QED
        BY <1>0, <3>1, <4>1, AddLast DEF UdpEnqueue
    <3>2. CASE ~UdpEnqueue
      BY <1>4, <3>2 DEF UdpTask, UdpSocket, UdpBind, UdpRecv, UdpTimeout, UdpQueueFull, UdpDelayDone, UdpClose
    <3> QED
      BY <3>1, <3>2
  <2> QED
    BY <1>0, <1>1, <2>1, <2>2 DEF QueueWithin, Started
<1>5. CASE ~UdpTask /\ ~DiscoveryTask
  <2>1. UNCHANGED <<queue, dpc>>
    BY <1>0, <1>5, OtherSteps
  <2> QED
    BY <1>0, <1>1, <1>5, <2>1 DEF QueueWithin, Started
<1> QED
  BY <1>2, <1>3, <1>4, <1>5 DEF DiscoveryTask

\* A datagram that udp_server_task has read is queued or discarded at its next
\* step.
LEMMA HandStep ==
  ASSUME RunInv, [Next]_vars, NEW r \in Requests, InHand(r)
  PROVE  /\ InHand(r)' \/ Queued(r)' \/ Done(r)'
         /\ UdpTask => Queued(r)' \/ Done(r)'
<1>1. Started /\ Started' /\ rx = r /\ upc = "enqueue"
  BY StaysStarted, RequestsAssumption DEF InHand, RunInv, CoreInv, Control
<1>2. CASE UdpEnqueue
  <2>1. [from |-> r, sock |-> sock] \in Messages /\ queue \in Seq(Messages)
    BY <1>1, <1>2 DEF RunInv, CoreInv, TypeOK, SocketOwnership, Messages
  <2>2. Len(queue) + 1 \in DOMAIN queue' /\ queue'[Len(queue) + 1].from = r
    BY <1>1, <1>2, <2>1, AddLast DEF UdpEnqueue
  <2> QED
    BY <1>1, <2>2 DEF Queued, InQueue
<1>3. CASE UdpQueueFull
  BY <1>1, <1>3 DEF UdpQueueFull, Settle, Done, RunInv, CoreInv, TypeOK
<1>4. CASE DiscoveryTask
  BY <1>1, <1>4 DEF DiscoveryTask, DiscRecv, DiscSend, InHand, udpVars, UdpTask, UdpSocket, UdpBind, UdpRecv,
                    UdpTimeout, UdpEnqueue, UdpQueueFull, UdpDelayDone, UdpClose
<1>5. CASE ~UdpTask /\ ~DiscoveryTask
  BY <1>1, <1>5, OtherSteps DEF InHand
<1>6. UdpTask => UdpEnqueue \/ UdpQueueFull
  BY <1>1 DEF UdpTask, UdpSocket, UdpBind, UdpRecv, UdpTimeout, UdpDelayDone, UdpClose
<1> QED
  BY <1>2, <1>3, <1>4, <1>5, <1>6

\* What the socket still holds is lost when it is closed.
LEMMA CloseStep ==
  ASSUME RunInv, [Next]_vars, NEW r \in Requests, Closing(r)
  PROVE  /\ Closing(r)' \/ Done(r)'
         /\ UdpTask => Done(r)'
<1>1. Started /\ Started' /\ upc = "close" /\ InMailbox(r)
  BY StaysStarted DEF Closing
<1>2. CASE UdpTask
  <2>1. UdpClose
    BY <1>1, <1>2 DEF UdpTask, UdpSocket, UdpBind, UdpRecv, UdpTimeout, UdpEnqueue, UdpQueueFull, UdpDelayDone
  <2> QED
    BY <1>1, <2>1 DEF UdpClose, Done
<1>3. CASE DiscoveryTask
  BY <1>1, <1>3 DEF DiscoveryTask, DiscRecv, DiscSend, Closing, udpVars, InMailbox, UdpTask, UdpSocket, UdpBind,
                    UdpRecv, UdpTimeout, UdpEnqueue, UdpQueueFull, UdpDelayDone, UdpClose
<1>4. CASE ~UdpTask /\ ~DiscoveryTask
  BY <1>1, <1>4, OtherSteps DEF Closing, InMailbox
<1> QED
  BY <1>2, <1>3, <1>4

\* In the mailbox a datagram moves up at each of udp_server_task's steps, and
\* nothing else moves it.
LEMMA MailStep ==
  ASSUME RunInv, [Next]_vars, NEW r \in Requests, NEW n \in Nat, MailWithin(r, n + 1)
  PROVE  /\ UdpTask => MailWithin(r, n)' \/ InHand(r)'
         /\ ~UdpTask => MailWithin(r, n + 1)' /\ upc' = upc
<1>0. Started /\ Started' /\ mailbox \in Seq(Requests) /\ upc \in {"recv", "delay", "enqueue"}
  BY StaysStarted DEF MailWithin, RunInv, CoreInv, TypeOK
<1>1. PICK i \in DOMAIN mailbox : mailbox[i] = r /\ 3 * i + Stage <= n + 1
  BY DEF MailWithin
<1>2. i \in Nat /\ mailbox # <<>>
  BY <1>0, <1>1
<1>3. ASSUME UdpRecv PROVE MailWithin(r, n)' \/ InHand(r)'
  <2>1. /\ Head(mailbox) = mailbox[1]
        /\ i # 1 => i - 1 \in DOMAIN mailbox' /\ mailbox'[i - 1] = mailbox[i]
    BY <1>0, <1>1, <1>3, TakeFirst DEF UdpRecv
  <2>2. CASE i = 1
    BY <1>0, <1>1, <1>3, <2>1, <2>2 DEF UdpRecv, InHand
  <2>3. CASE i # 1
    <3>1. Stage = 0 /\ Stage' = 2 /\ upc' = "enqueue"
      BY <1>3 DEF UdpRecv, Stage
    <3>2. 3 * (i - 1) + 2 <= n
      BY <1>1, <1>2, <3>1
    <3> QED
      BY <1>0, <1>1, <2>1, <2>3, <3>1, <3>2 DEF MailWithin
  <2> QED
    BY <2>2, <2>3
<1>4. ASSUME UdpEnqueue \/ UdpQueueFull \/ UdpDelayDone PROVE MailWithin(r, n)'
  <2>1. /\ mailbox' = mailbox /\ upc' \in {"recv", "delay"} /\ Stage' = Stage - 1
    BY <1>4 DEF UdpEnqueue, UdpQueueFull, UdpDelayDone, Stage
  <2>2. Stage \in Nat
    BY <1>0 DEF Stage
  <2>3. 3 * i + Stage' <= n
    BY <1>1, <1>2, <2>1, <2>2
  <2> QED
    BY <1>0, <1>1, <2>1, <2>3 DEF MailWithin
<1>5. UdpTask => UdpRecv \/ UdpEnqueue \/ UdpQueueFull \/ UdpDelayDone
  BY <1>0, <1>2 DEF UdpTask, UdpSocket, UdpBind, UdpTimeout, UdpClose
<1>6. ~UdpTask => upc' = upc /\ i \in DOMAIN mailbox' /\ mailbox'[i] = mailbox[i]
  <2>1. DiscoveryTask => UNCHANGED <<upc, mailbox>>
    BY DEF DiscoveryTask, DiscRecv, DiscSend, udpVars
  <2> QED
    BY <1>0, <1>1, <2>1, OtherSteps
<1> QED
  BY <1>0, <1>1, <1>3, <1>4, <1>5, <1>6 DEF MailWithin, Stage

\* In the pause, when replies are prompt, there is at most one message to take
\* and one to answer; then the pause can end.
PauseTwo(r, n) == MailWithin(r, n) /\ upc = "delay" /\ PromptReplies /\ queue # <<>>
PauseOne(r, n) == MailWithin(r, n) /\ upc = "delay" /\ PromptReplies /\ queue = <<>> /\ dpc = "send"
Moving(r, n)   == MailWithin(r, n) /\ UdpReady

LEMMA PauseCases ==
  ASSUME RunInv, NEW r \in Requests, NEW n \in Nat, MailWithin(r, n)
  PROVE  PauseTwo(r, n) \/ PauseOne(r, n) \/ Moving(r, n)
BY DEF MailWithin, PauseTwo, PauseOne, Moving, UdpReady, Started

LEMMA PauseStep ==
  ASSUME RunInv, [Next]_vars, NEW r \in Requests, NEW n \in Nat
  PROVE  /\ PauseTwo(r, n + 1) => /\ ~UdpTask => PauseTwo(r, n + 1)' \/ PauseOne(r, n + 1)' \/ Moving(r, n + 1)'
                                  /\ DiscoveryTask => PauseOne(r, n + 1)' \/ Moving(r, n + 1)'
         /\ PauseOne(r, n + 1) => /\ ~UdpTask => PauseOne(r, n + 1)' \/ Moving(r, n + 1)'
                                  /\ DiscoveryTask => Moving(r, n + 1)'
         /\ Moving(r, n + 1) /\ ~UdpTask => Moving(r, n + 1)'
<1>0. RunInv'
  BY CoreStep, ConsStep, LiveStep DEF RunInv
<1>1. DiscoveryTask /\ MailWithin(r, n + 1) => ~UdpTask
  BY DEF DiscoveryTask, DiscRecv, DiscSend, MailWithin, udpVars, UdpTask, UdpSocket, UdpBind,
         UdpRecv, UdpTimeout, UdpEnqueue, UdpQueueFull, UdpDelayDone, UdpClose
<1>2. MailWithin(r, n + 1) /\ ~UdpTask => MailWithin(r, n + 1)' /\ upc' = upc
  BY MailStep
<1>3. MailWithin(r, n + 1)' => PauseTwo(r, n + 1)' \/ PauseOne(r, n + 1)' \/ Moving(r, n + 1)'
  BY <1>0 DEF MailWithin, PauseTwo, PauseOne, Moving, UdpReady, Started
<1>4. Started /\ ~UdpTask /\ ~DiscoveryTask => UNCHANGED <<queue, dpc>>
  BY OtherSteps
<1>5. PromptReplies /\ DiscRecv => queue' = <<>>
  <2> SUFFICES ASSUME PromptReplies, DiscRecv PROVE queue' = <<>>
    OBVIOUS
  <2>1. Len(queue) = 1 /\ queue \in Seq(Messages)
    BY DEF DiscRecv, RunInv, LiveInv, CoreInv, TypeOK
  <2>2. queue' = Tail(queue) /\ Tail(queue) \in Seq(Messages) /\ Len(Tail(queue)) = 0
    BY <2>1, TakeFirst DEF DiscRecv
  <2> QED
    BY <2>2, EmptySeq
<1>6. ASSUME PauseTwo(r, n + 1)
      PROVE  /\ ~UdpTask => PauseTwo(r, n + 1)' \/ PauseOne(r, n + 1)' \/ Moving(r, n + 1)'
             /\ DiscoveryTask => PauseOne(r, n + 1)' \/ Moving(r, n + 1)'
  <2>1. MailWithin(r, n + 1) /\ Started /\ PromptReplies /\ queue # <<>> /\ upc = "delay" /\ dpc = "recv"
    BY <1>6 DEF PauseTwo, MailWithin, Started, RunInv, LiveInv
  <2>2. DiscoveryTask => DiscRecv
    BY <2>1 DEF DiscoveryTask, DiscSend
  <2>3. DiscoveryTask => queue' = <<>>
    BY <1>5, <2>1, <2>2
  <2> QED
    BY <1>1, <1>2, <1>3, <2>1, <2>3 DEF PauseTwo, PauseOne
<1>7. ASSUME PauseOne(r, n + 1)
      PROVE  /\ ~UdpTask => PauseOne(r, n + 1)' \/ Moving(r, n + 1)'
             /\ DiscoveryTask => Moving(r, n + 1)'
  <2>1. MailWithin(r, n + 1) /\ Started /\ PromptReplies /\ queue = <<>> /\ upc = "delay" /\ dpc = "send"
    BY <1>7 DEF PauseOne, MailWithin, Started
  <2>2. DiscoveryTask => queue' = <<>> /\ dpc' = "recv"
    BY <2>1 DEF DiscoveryTask, DiscSend, DiscRecv
  <2> QED
    BY <1>1, <1>2, <1>3, <1>4, <2>1, <2>2 DEF PauseTwo, PauseOne
<1>8. ASSUME Moving(r, n + 1) PROVE ~UdpTask => Moving(r, n + 1)'
  <2>1. MailWithin(r, n + 1) /\ Started /\ UdpReady
    BY <1>8 DEF Moving, MailWithin
  <2>2. CASE DiscoveryTask
    <3>1. ~(upc = "delay" /\ PromptReplies)
      BY <2>1, <2>2 DEF UdpReady, DiscoveryTask, DiscRecv, DiscSend
    <3> QED
      BY <1>2, <2>1, <3>1 DEF Moving, UdpReady
  <2>3. CASE ~DiscoveryTask
    BY <1>2, <1>4, <2>1, <2>3 DEF Moving, UdpReady
  <2> QED
    BY <2>2, <2>3
<1> QED
  BY <1>6, <1>7, <1>8

-----------------------------------------------------------------------------
(* One place after the other.  QueueDrains and MailDrains are the formulas  *)
(* the two inductions are over.                                             *)

QueueDrains(r, n) == Runs => (QueueWithin(r, n) ~> (InMsg(r) \/ Done(r)))
MailDrains(r, n)  == Runs => (MailWithin(r, n) ~> InHand(r))

LEMMA QueueEnds == ASSUME NEW r \in Requests PROVE QueueDrains(r, 0)
<1>1. RunInv => ~QueueWithin(r, 0)
  <2>1. RunInv => \A j \in DOMAIN queue : j \in Nat \ {0}
    BY DEF RunInv, CoreInv, TypeOK
  <2> QED
    BY <2>1 DEF QueueWithin
<1> QED
  BY <1>1, PTL DEF QueueDrains, Runs

LEMMA QueueMoves ==
  ASSUME NEW r \in Requests, NEW n \in Nat
  PROVE  QueueDrains(r, n) => QueueDrains(r, n + 1)
<1>1. RunInv /\ QueueWithin(r, n + 1) /\ [Next]_vars =>
        QueueWithin(r, n + 1)' \/ InMsg(r)' \/ Done(r)'
  BY QueueStep
<1>2. RunInv /\ QueueWithin(r, n + 1) /\ [Next]_vars /\ <<DiscoveryTask>>_vars =>
        QueueWithin(r, n)' \/ InMsg(r)' \/ Done(r)'
  BY QueueStep
<1>3. RunInv /\ QueueWithin(r, n + 1) /\ TasksNeverWait => ENABLED <<DiscoveryTask>>_vars
  BY DEF TasksNeverWait, DiscoveryReady, QueueWithin, Started
<1> QED
  BY <1>1, <1>2, <1>3, PTL DEF QueueDrains, Runs

LEMMA QueueAlways == ASSUME NEW r \in Requests PROVE \A n \in Nat : QueueDrains(r, n)
<1>1. \E g : \A n \in Nat : g[n] <=> QueueDrains(r, n)
  <2> DEFINE F == [n \in Nat |-> QueueDrains(r, n)]
  <2>1. Truths(F)
    BY DEF Truths
  <2> QED
    BY <2>1, SomeTruths
<1>2. PICK g : \A n \in Nat : g[n] <=> QueueDrains(r, n)
  BY <1>1
<1>3. g[0]
  BY <1>2, QueueEnds
<1>4. \A n \in Nat : g[n] => g[n + 1]
  BY <1>2, QueueMoves
<1> QED
  BY <1>2, <1>3, <1>4, Induction

LEMMA MailEnds == ASSUME NEW r \in Requests PROVE MailDrains(r, 0)
<1>1. RunInv => ~MailWithin(r, 0)
  <2>1. RunInv => \A i \in DOMAIN mailbox : i \in Nat \ {0}
    BY DEF RunInv, CoreInv, TypeOK
  <2>2. upc \in {"recv", "delay", "enqueue"} => Stage \in Nat
    BY DEF Stage
  <2> QED
    BY <2>1, <2>2 DEF MailWithin
<1> QED
  BY <1>1, PTL DEF MailDrains, Runs

LEMMA MailMoves ==
  ASSUME NEW r \in Requests, NEW n \in Nat
  PROVE  MailDrains(r, n) => MailDrains(r, n + 1)
<1>1. RunInv /\ MailWithin(r, n + 1) => PauseTwo(r, n + 1) \/ PauseOne(r, n + 1) \/ Moving(r, n + 1)
  BY PauseCases
<1>2. RunInv /\ MailWithin(r, n + 1) /\ [Next]_vars /\ UdpTask => MailWithin(r, n)' \/ InHand(r)'
  BY MailStep
<1>3. /\ PauseTwo(r, n + 1) => MailWithin(r, n + 1)
      /\ PauseOne(r, n + 1) => MailWithin(r, n + 1)
      /\ Moving(r, n + 1) => MailWithin(r, n + 1)
  BY DEF PauseTwo, PauseOne, Moving
<1>4. RunInv /\ PauseTwo(r, n + 1) /\ [Next]_vars =>
        PauseTwo(r, n + 1)' \/ PauseOne(r, n + 1)' \/ Moving(r, n + 1)' \/ MailWithin(r, n)' \/ InHand(r)'
  BY <1>2, <1>3, PauseStep
<1>5. RunInv /\ PauseTwo(r, n + 1) /\ [Next]_vars /\ <<DiscoveryTask>>_vars =>
        PauseOne(r, n + 1)' \/ Moving(r, n + 1)'
  BY PauseStep
<1>6. RunInv /\ PauseOne(r, n + 1) /\ [Next]_vars =>
        PauseOne(r, n + 1)' \/ Moving(r, n + 1)' \/ MailWithin(r, n)' \/ InHand(r)'
  BY <1>2, <1>3, PauseStep
<1>7. RunInv /\ PauseOne(r, n + 1) /\ [Next]_vars /\ <<DiscoveryTask>>_vars => Moving(r, n + 1)'
  BY PauseStep
<1>8. RunInv /\ Moving(r, n + 1) /\ [Next]_vars => Moving(r, n + 1)' \/ MailWithin(r, n)' \/ InHand(r)'
  BY <1>2, <1>3, PauseStep
<1>9. RunInv /\ Moving(r, n + 1) /\ [Next]_vars /\ <<UdpTask>>_vars => MailWithin(r, n)' \/ InHand(r)'
  BY <1>2, <1>3
<1>10. /\ RunInv /\ PauseTwo(r, n + 1) /\ TasksNeverWait => ENABLED <<DiscoveryTask>>_vars
       /\ RunInv /\ PauseOne(r, n + 1) /\ TasksNeverWait => ENABLED <<DiscoveryTask>>_vars
  BY DEF TasksNeverWait, DiscoveryReady, PauseTwo, PauseOne, MailWithin, Started
<1>11. Moving(r, n + 1) /\ TasksNeverWait => ENABLED <<UdpTask>>_vars
  BY DEF TasksNeverWait, Moving
<1> QED
  BY <1>1, <1>4, <1>5, <1>6, <1>7, <1>8, <1>9, <1>10, <1>11, PTL DEF MailDrains, Runs

LEMMA MailAlways == ASSUME NEW r \in Requests PROVE \A n \in Nat : MailDrains(r, n)
<1>1. \E g : \A n \in Nat : g[n] <=> MailDrains(r, n)
  <2> DEFINE F == [n \in Nat |-> MailDrains(r, n)]
  <2>1. Truths(F)
    BY DEF Truths
  <2> QED
    BY <2>1, SomeTruths
<1>2. PICK g : \A n \in Nat : g[n] <=> MailDrains(r, n)
  BY <1>1
<1>3. g[0]
  BY <1>2, MailEnds
<1>4. \A n \in Nat : g[n] => g[n + 1]
  BY <1>2, MailMoves
<1> QED
  BY <1>2, <1>3, <1>4, Induction

LEMMA MsgSettles == ASSUME NEW r \in Requests PROVE Runs => (InMsg(r) ~> Done(r))
<1>1. RunInv /\ InMsg(r) /\ [Next]_vars => InMsg(r)' \/ Done(r)'
  BY MsgStep
<1>2. RunInv /\ InMsg(r) /\ [Next]_vars /\ <<DiscoveryTask>>_vars => Done(r)'
  BY MsgStep
<1>3. InMsg(r) /\ TasksNeverWait => ENABLED <<DiscoveryTask>>_vars
  BY DEF InMsg, TasksNeverWait, DiscoveryReady
<1> QED
  BY <1>1, <1>2, <1>3, PTL DEF Runs

LEMMA QueuedSettles == ASSUME NEW r \in Requests PROVE Runs => (Queued(r) ~> Done(r))
<1>1. ASSUME NEW n \in Nat PROVE Runs /\ QueueWithin(r, n) => <>Done(r)
  <2>1. QueueDrains(r, n)
    BY QueueAlways
  <2>2. Runs => (InMsg(r) ~> Done(r))
    BY MsgSettles
  <2> QED
    BY <2>1, <2>2, PTL DEF QueueDrains, Runs
<1>2. RunInv /\ Queued(r) => \E n \in Nat : QueueWithin(r, n)
  <2> SUFFICES ASSUME RunInv, Queued(r) PROVE \E n \in Nat : QueueWithin(r, n)
    OBVIOUS
  <2>1. PICK j \in DOMAIN queue : queue[j].from = r
    BY DEF Queued, InQueue
  <2>2. j \in Nat
    BY DEF RunInv, CoreInv, TypeOK
  <2>3. QueueWithin(r, 2 * j + 1)
    BY <2>1, <2>2 DEF QueueWithin, Queued
  <2> QED
    BY <2>2, <2>3
<1>3. Runs /\ (\E n \in Nat : QueueWithin(r, n)) => <>Done(r)
  BY <1>1
<1> QED
  BY <1>2, <1>3, PTL DEF Runs

LEMMA InHandSettles == ASSUME NEW r \in Requests PROVE Runs => (InHand(r) ~> Done(r))
<1>1. RunInv /\ InHand(r) /\ [Next]_vars => InHand(r)' \/ Queued(r)' \/ Done(r)'
  BY HandStep
<1>2. RunInv /\ InHand(r) /\ [Next]_vars /\ <<UdpTask>>_vars => Queued(r)' \/ Done(r)'
  BY HandStep
<1>3. RunInv /\ InHand(r) /\ TasksNeverWait => ENABLED <<UdpTask>>_vars
  BY RequestsAssumption DEF InHand, TasksNeverWait, UdpReady, RunInv, CoreInv, Control
<1> QED
  BY <1>1, <1>2, <1>3, QueuedSettles, PTL DEF Runs

LEMMA WaitingSettles == ASSUME NEW r \in Requests PROVE Runs => (Waiting(r) ~> Done(r))
<1>1. ASSUME NEW n \in Nat PROVE Runs /\ MailWithin(r, n) => <>Done(r)
  <2>1. MailDrains(r, n)
    BY MailAlways
  <2>2. Runs => (InHand(r) ~> Done(r))
    BY InHandSettles
  <2> QED
    BY <2>1, <2>2, PTL DEF MailDrains, Runs
<1>2. RunInv /\ Waiting(r) => \E n \in Nat : MailWithin(r, n)
  <2> SUFFICES ASSUME RunInv, Waiting(r) PROVE \E n \in Nat : MailWithin(r, n)
    OBVIOUS
  <2>1. PICK i \in DOMAIN mailbox : mailbox[i] = r
    BY DEF Waiting, InMailbox
  <2>2. i \in Nat /\ mailbox # <<>>
    BY <2>1 DEF RunInv, CoreInv, TypeOK
  <2>3. upc \in {"recv", "delay", "enqueue"}
    BY <2>2 DEF Waiting, RunInv, LiveInv, CoreInv, TypeOK, SocketOwnership
  <2>4. Stage \in 0..2
    BY <2>3 DEF Stage
  <2>5. MailWithin(r, 3 * i + 2)
    BY <2>1, <2>2, <2>3, <2>4 DEF MailWithin, Waiting
  <2> QED
    BY <2>2, <2>5
<1>3. Runs /\ (\E n \in Nat : MailWithin(r, n)) => <>Done(r)
  BY <1>1
<1> QED
  BY <1>2, <1>3, PTL DEF Runs

LEMMA ClosingSettles == ASSUME NEW r \in Requests PROVE Runs => (Closing(r) ~> Done(r))
<1>1. RunInv /\ Closing(r) /\ [Next]_vars => Closing(r)' \/ Done(r)'
  BY CloseStep
<1>2. RunInv /\ Closing(r) /\ [Next]_vars /\ <<UdpTask>>_vars => Done(r)'
  BY CloseStep
<1>3. Closing(r) /\ TasksNeverWait => ENABLED <<UdpTask>>_vars
  BY DEF Closing, TasksNeverWait, UdpReady
<1> QED
  BY <1>1, <1>2, <1>3, PTL DEF Runs

\* A datagram that came before discovery_task was created waits for that, or is
\* lost when the chip restarts first.
Early(r) == fate[r] = "pending" /\ dpc = "unborn"

LEMMA EarlyStep ==
  ASSUME RunInv, [Next]_vars, (dpc # "failed")', NEW r \in Requests, Early(r)
  PROVE  /\ Early(r)' \/ Started' \/ Done(r)'
         /\ Startup => Started' \/ Done(r)'
<1>1. upc # "unborn"
  <2>1. upc = "unborn" => mailbox = <<>> /\ queue = <<>> /\ rx = None
    BY DEF RunInv, LiveInv, CoreInv, Control, SocketOwnership
  <2> QED
    BY <2>1, RequestsAssumption DEF Early, RunInv, ConsInv, Conservation, InMailbox, InQueue, InMsg
<1>2. CASE Startup
  <2>1. CASE StartDiscovery
    BY <2>1 DEF StartDiscovery, Started
  <2>2. CASE CrashAtStart
    BY <2>2 DEF CrashAtStart, Done
  <2> QED
    BY <1>1, <1>2, <2>1, <2>2 DEF Startup, StartUdp
<1>3. CASE ~Startup
  <2>1. dpc' = dpc
    BY <1>3 DEF Early, Next, UdpTask, DiscoveryTask, Environment,
       UdpSocket, UdpBind, UdpRecv, UdpTimeout, UdpEnqueue, UdpQueueFull, UdpDelayDone, UdpClose,
       DiscRecv, DiscSend, Arrive, HttpOpen, HttpClose, vars, discVars
  <2> QED
    BY <1>3, <2>1 DEF Early, Done
<1> QED
  BY <1>2, <1>3

\* Every datagram that was accepted is settled, however far discovery_task lags
\* behind and whatever allocations and binds fail, unless discovery_task could
\* not be created.
THEOREM DatagramsSettle ==
  FairSpec /\ []TasksNeverWait /\ [](dpc # "failed") => EveryDatagramSettles
<1>1. ASSUME NEW r \in Requests PROVE Runs => (fate[r] = "pending" ~> fate[r] # "pending")
  <2>1. RunInv /\ dpc # "failed" => Done(r) \/ Early(r) \/ (fate[r] = "pending" /\ Started)
    BY DEF Done, Early, Started, RunInv, CoreInv, TypeOK
  <2>2. RunInv /\ fate[r] = "pending" /\ Started =>
          Waiting(r) \/ Closing(r) \/ InHand(r) \/ Queued(r) \/ InMsg(r)
    BY SomePlace
  <2>3. RunInv /\ Early(r) /\ [Next]_vars /\ (dpc # "failed")' => Early(r)' \/ Started' \/ Done(r)'
    BY EarlyStep
  <2>4. RunInv /\ Early(r) /\ [Next]_vars /\ (dpc # "failed")' /\ <<Startup>>_vars => Started' \/ Done(r)'
    BY EarlyStep
  <2>5. Early(r) /\ TasksNeverWait => ENABLED <<Startup>>_vars
    BY DEF Early, TasksNeverWait, StartupReady
  <2>6. Done(r) \/ fate[r] = "pending"
    BY DEF Done
  <2>7. Done(r) <=> fate[r] # "pending"
    BY DEF Done
  <2> QED
    BY <2>1, <2>2, <2>3, <2>4, <2>5, <2>6, <2>7, MsgSettles, QueuedSettles, InHandSettles, WaitingSettles,
       ClosingSettles, PTL DEF Runs
<1>2. FairSpec /\ []TasksNeverWait /\ [](dpc # "failed") => Runs
  BY RunInvariant, PTL DEF FairSpec, Spec, Fairness, Runs
<1>3. Runs => EveryDatagramSettles
  BY <1>1 DEF EveryDatagramSettles
<1> QED
  BY <1>2, <1>3, PTL

-----------------------------------------------------------------------------
(* TasksNeverWait for any number of descriptors, datagrams and places.  An *)
(* action is enabled if there is a next state for it.  Here is one for each *)
(* of the three tasks, given as a value for every variable, without guards. *)

\* Whether there is memory; what bind and sendto return; the descriptor lwIP gives.
SomeMemory == CHOOSE created : created \in CreateResults
SomeBind == CHOOSE result : result \in BindResults
SomeOutcome == CHOOSE how : how \in SendOutcomes(msg.sock)
SomeFd == CHOOSE fd \in Fds : LowestFree(fd)
GetsSocket == ~NoneFree /\ TRUE \in SocketResults

StartupMove ==
  /\ upc' = IF upc = "unborn" THEN (IF SomeMemory THEN "socket" ELSE "failed") ELSE upc
  /\ dpc' = IF upc = "unborn" THEN dpc ELSE IF SomeMemory THEN "recv" ELSE "failed"
  /\ UNCHANGED <<owner, bound, mailbox, sock, rx, queue, msg, body, fate>>

UdpTaskMove ==
  /\ owner' = CASE upc = "socket" /\ GetsSocket -> [owner EXCEPT ![SomeFd] = "udp"]
                [] upc = "close" -> [owner EXCEPT ![sock] = "free"]
                [] OTHER -> owner
  /\ bound' = CASE upc = "bind" -> SomeBind [] upc = "close" -> FALSE [] OTHER -> bound
  /\ mailbox' = CASE upc = "recv" /\ mailbox # <<>> -> Tail(mailbox)
                  [] upc = "close" -> <<>>
                  [] OTHER -> mailbox
  /\ upc' = CASE upc = "socket" -> IF GetsSocket THEN "bind" ELSE "dead"
              [] upc \in {"bind", "delay"} -> "recv"
              [] upc = "recv" -> IF mailbox # <<>> THEN "enqueue" ELSE "close"
              [] upc = "enqueue" -> "delay"
              [] OTHER -> "socket"
  /\ sock' = CASE upc = "socket" /\ GetsSocket -> SomeFd [] upc = "close" -> -1 [] OTHER -> sock
  /\ rx' = CASE upc = "recv" /\ mailbox # <<>> -> Head(mailbox)
             [] upc = "enqueue" -> None
             [] OTHER -> rx
  /\ queue' = IF upc = "enqueue" /\ Len(queue) < QueueLen
                THEN Append(queue, [from |-> rx, sock |-> sock]) ELSE queue
  /\ fate' = CASE upc = "enqueue" /\ Len(queue) >= QueueLen -> [fate EXCEPT ![rx] = "discarded"]
               [] upc = "close" -> [r \in Requests |-> IF InMailbox(r) THEN "missed" ELSE fate[r]]
               [] OTHER -> fate
  /\ UNCHANGED <<discVars, body>>

DiscoveryTaskMove ==
  LET from == Head(queue).from IN
  /\ queue' = IF dpc = "recv" THEN Tail(queue) ELSE queue
  /\ msg' = IF dpc = "recv" THEN Head(queue) ELSE msg
  /\ dpc' = IF dpc = "recv" /\ Matches(body[from]) THEN "send" ELSE "recv"
  /\ fate' = CASE dpc = "send" -> [fate EXCEPT ![msg.from] = SomeOutcome]
               [] dpc = "recv" /\ ~Matches(body[from]) -> [fate EXCEPT ![from] = "ignored"]
               [] OTHER -> fate
  /\ UNCHANGED <<owner, bound, mailbox, udpVars, body>>

\* If any descriptor is free there is a lowest one, which lwIP hands out.
LEMMA LowestExists == ~NoneFree => SomeFd \in Fds /\ LowestFree(SomeFd)
<1> DEFINE Frees == {fd \in Fds : owner[fd] = "free"}
<1> SUFFICES ASSUME Frees # {} PROVE \E fd \in Fds : LowestFree(fd)
  BY DEF NoneFree, SomeFd
<1>1. Frees \subseteq Nat
  BY SocketsAssumption DEF Fds
<1>2. PICK fd \in Frees : \A g \in Frees : <<g, fd>> \notin OpToRel(<, Nat)
  BY <1>1, NatLessThanWellFounded, WFMin
<1>3. \A g \in Frees : ~(g < fd)
  BY <1>1, <1>2 DEF OpToRel
<1> QED
  BY <1>2, <1>3 DEF LowestFree

LEMMA UdpTaskGoesOn == CoreInv /\ UdpReady /\ UdpTaskMove => <<UdpTask>>_vars
<1> SUFFICES ASSUME CoreInv, UdpReady, UdpTaskMove PROVE UdpTask /\ upc' # upc
  BY DEF vars, udpVars
<1>0. TypeOK /\ Len(queue) \in Nat /\ QueueLen \in Nat
  BY BoundsAssumption DEF CoreInv, TypeOK
<1>1. CASE upc = "socket"
  <2>1. CASE ~GetsSocket
    <3>1. NoneFree \/ FALSE \in SocketResults
      BY <2>1, TimingAssumption DEF GetsSocket
    <3> QED
      BY <1>1, <2>1, <3>1 DEF UdpTaskMove, UdpTask, UdpSocket
  <2>2. CASE GetsSocket
    <3>1. TRUE \in SocketResults /\ SomeFd \in Fds /\ LowestFree(SomeFd)
      BY <2>2, LowestExists DEF GetsSocket
    <3>2. /\ Seize(SomeFd, "udp") /\ sock' = SomeFd /\ upc' = "bind"
          /\ UNCHANGED <<bound, mailbox, rx, queue, discVars, body, fate>>
      BY <1>1, <2>2 DEF UdpTaskMove, Seize
    <3> QED
      BY <1>1, <3>1, <3>2 DEF UdpTask, UdpSocket
  <2> QED
    BY <2>1, <2>2
<1>2. CASE upc = "bind"
  <2>1. SomeBind \in BindResults
    BY TimingAssumption DEF SomeBind
  <2> QED
    BY <1>2, <2>1 DEF UdpTaskMove, UdpTask, UdpBind
<1>3. CASE upc = "recv"
  BY <1>3 DEF UdpTaskMove, UdpTask, UdpRecv, UdpTimeout
<1>4. CASE upc = "enqueue"
  BY <1>0, <1>4 DEF UdpTaskMove, UdpTask, UdpEnqueue, UdpQueueFull, Settle
<1>5. CASE upc = "delay"
  BY <1>5 DEF UdpTaskMove, UdpTask, UdpDelayDone, UdpReady
<1>6. CASE upc = "close"
  BY <1>6 DEF UdpTaskMove, UdpTask, UdpClose, Seize
<1> QED
  BY <1>0, <1>1, <1>2, <1>3, <1>4, <1>5, <1>6 DEF TypeOK, UdpReady

LEMMA DiscoveryTaskGoesOn == CoreInv /\ DiscoveryReady /\ DiscoveryTaskMove => <<DiscoveryTask>>_vars
<1> SUFFICES ASSUME CoreInv, DiscoveryReady, DiscoveryTaskMove PROVE <<DiscoveryTask>>_vars
  OBVIOUS
<1>1. CASE dpc = "send"
  <2>1. SomeOutcome \in SendOutcomes(msg.sock)
    <3>1. SendOutcomes(msg.sock) # {}
      <4>1. SendOutcomes(msg.sock) \in {{"sendFailed"}, {"misdirected"}, {"answered", "sendFailed"}}
        BY DEF SendOutcomes
      <4> QED
        BY <4>1
    <3> QED
      BY <3>1 DEF SomeOutcome
  <2>2. fate' = [fate EXCEPT ![msg.from] = SomeOutcome] /\ dpc' = "recv"
        /\ UNCHANGED <<owner, bound, mailbox, udpVars, queue, msg, body>>
    BY <1>1 DEF DiscoveryTaskMove
  <2>3. DiscSend
    BY <1>1, <2>1, <2>2 DEF DiscSend, Settle
  <2> QED
    BY <1>1, <2>2, <2>3 DEF DiscoveryTask, vars, discVars
<1>2. CASE dpc = "recv" /\ queue # <<>>
  <2>1. DiscRecv
    BY <1>2 DEF DiscoveryTaskMove, DiscRecv, Settle
  <2>2. queue' # queue
    <3>1. Len(Tail(queue)) = Len(queue) - 1 /\ Len(queue) \in Nat
      BY <1>2, TakeFirst DEF CoreInv, TypeOK
    <3>2. Len(Tail(queue)) # Len(queue)
      BY <3>1
    <3>3. queue' = Tail(queue)
      BY <1>2 DEF DiscoveryTaskMove
    <3> QED
      BY <3>2, <3>3
  <2> QED
    BY <2>1, <2>2 DEF DiscoveryTask, vars
<1> QED
  BY <1>1, <1>2 DEF DiscoveryReady

LEMMA StartupGoesOn == StartupReady /\ StartupMove => <<Startup>>_vars
<1> SUFFICES ASSUME StartupReady, StartupMove PROVE <<Startup>>_vars
  OBVIOUS
<1>1. SomeMemory \in CreateResults
  BY TimingAssumption DEF SomeMemory
<1>2. CASE upc = "unborn"
  <2>1. StartUdp /\ upc' # upc
    BY <1>1, <1>2 DEF StartupMove, StartUdp, discVars
  <2> QED
    BY <2>1 DEF Startup, vars, udpVars
<1>3. CASE upc # "unborn" /\ dpc = "unborn"
  <2>1. StartDiscovery /\ dpc' # dpc
    BY <1>1, <1>3 DEF StartupMove, StartDiscovery, udpVars
  <2> QED
    BY <2>1 DEF Startup, vars, discVars
<1> QED
  BY <1>2, <1>3 DEF StartupReady

\* Neither a full queue, nor a closed or missing descriptor, nor an empty mailbox
\* stops a task: when TasksNeverWait says that one has a step to take, it has.
THEOREM TasksGoOn ==
  /\ StartupReady /\ StartupMove => <<Startup>>_vars
  /\ CoreInv /\ UdpReady /\ UdpTaskMove => <<UdpTask>>_vars
  /\ CoreInv /\ DiscoveryReady /\ DiscoveryTaskMove => <<DiscoveryTask>>_vars
BY StartupGoesOn, UdpTaskGoesOn, DiscoveryTaskGoesOn
=============================================================================
