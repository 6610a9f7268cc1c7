-------------------------- MODULE DiscoveryProofs --------------------------
(***************************************************************************)
(* Theorems about Discovery, for every value of its constants.             *)
(***************************************************************************)
EXTENDS Discovery, SequenceTheorems, FiniteSetTheorems, TLAPS

-----------------------------------------------------------------------------
(* What the operations of a queue do, index by index.                      *)

\* Taking the first element shifts the others down by one.
LEMMA TakeFirst ==
  ASSUME NEW S, NEW s \in Seq(S), s # <<>>
  PROVE  /\ Head(s) = s[1] /\ Head(s) \in S /\ 1 \in DOMAIN s
         /\ Tail(s) \in Seq(S) /\ Len(Tail(s)) = Len(s) - 1
         /\ \A i \in DOMAIN Tail(s) : i + 1 \in DOMAIN s /\ Tail(s)[i] = s[i + 1]
         /\ \A i \in DOMAIN s : i # 1 => i - 1 \in DOMAIN Tail(s)
BY HeadTailProperties

\* Appending keeps the elements there are and puts the new one last.
LEMMA AddLast ==
  ASSUME NEW S, NEW s \in Seq(S), NEW x \in S
  PROVE  /\ Append(s, x) \in Seq(S) /\ Len(Append(s, x)) = Len(s) + 1
         /\ DOMAIN Append(s, x) = DOMAIN s \cup {Len(s) + 1}
         /\ Len(s) + 1 \notin DOMAIN s
         /\ \A i \in DOMAIN s : Append(s, x)[i] = s[i]
         /\ Append(s, x)[Len(s) + 1] = x
BY AppendProperties

-----------------------------------------------------------------------------
(* Types and descriptors.  A datagram is in udp_server_task's hands exactly *)
(* while it is about to queue it, and discovery_task's message is a real   *)
(* one while it is about to reply: without this the type of the queue and  *)
(* the effect of close() would not be preserved.                           *)

Control ==
  /\ rx # None <=> upc = "enqueue"
  /\ dpc = "send" => msg \in Messages

CoreInv == TypeOK /\ SocketOwnership /\ Control

LEMMA CoreInit == Init => CoreInv
<1> SUFFICES ASSUME Init PROVE CoreInv
  OBVIOUS
<1>1. TypeOK
  <2>1. <<>> \in Seq(Requests) /\ <<>> \in Seq(Messages) /\ Len(<<>>) = 0
    OBVIOUS
  <2>2. /\ Len(mailbox) <= MailboxLen /\ Len(queue) <= QueueLen
        /\ mailbox \in Seq(Requests) /\ queue \in Seq(Messages)
    BY <2>1, BoundsAssumption DEF Init
  <2>3. /\ owner \in [Fds -> {"free", "udp", "http"}]
        /\ body \in [Requests -> Bodies \cup {"unsent"}]
        /\ fate \in [Requests -> Fates]
    BY DEF Init, Fates
  <2> QED
    BY <2>2, <2>3 DEF Init, TypeOK
<1>2. SocketOwnership /\ Control
  BY DEF Init, SocketOwnership, Control, Fds
<1> QED
  BY <1>1, <1>2 DEF CoreInv

LEMMA CoreStep == CoreInv /\ [Next]_vars => CoreInv'
<1> SUFFICES ASSUME CoreInv, [Next]_vars PROVE CoreInv'
  OBVIOUS
<1> USE RequestsAssumption, SocketsAssumption, BoundsAssumption DEF CoreInv, Control
<1>1. CASE UdpSocket
  <2>1. CASE \E fd \in Fds : LowestFree(fd) /\ Seize(fd, "udp") /\ sock' = fd /\ upc' = "bind"
    <3>1. PICK fd \in Fds : LowestFree(fd) /\ Seize(fd, "udp") /\ sock' = fd /\ upc' = "bind"
      BY <2>1
    <3>2. fd # -1
      BY DEF Fds
    <3>3. TypeOK'
      BY <1>1, <3>1 DEF UdpSocket, TypeOK, discVars, Seize
    <3>4. SocketOwnership'
      <4>1. ~bound' /\ sock = -1
        BY <1>1 DEF UdpSocket, SocketOwnership
      <4>2. \A g \in Fds : owner'[g] = "udp" <=> g = fd
        BY <3>1, <3>2, <4>1 DEF TypeOK, SocketOwnership, LowestFree, Seize
      <4> QED
        BY <3>1, <3>2, <4>1, <4>2 DEF SocketOwnership
    <3> QED
      BY <1>1, <3>1, <3>3, <3>4 DEF UdpSocket, discVars
  <2>2. CASE upc' = "dead" /\ UNCHANGED <<owner, sock>>
    BY <1>1, <2>2 DEF UdpSocket, TypeOK, SocketOwnership, discVars
  <2> QED
    BY <1>1, <2>1, <2>2 DEF UdpSocket
<1>2. CASE UdpBind
  BY <1>2, TimingAssumption DEF UdpBind, TypeOK, SocketOwnership, discVars
<1>3. CASE UdpRecv
  <2>1. /\ Head(mailbox) \in Requests /\ Tail(mailbox) \in Seq(Requests)
        /\ Len(Tail(mailbox)) = Len(mailbox) - 1
    BY <1>3, TakeFirst DEF UdpRecv, TypeOK
  <2> QED
    BY <1>3, <2>1 DEF UdpRecv, TypeOK, SocketOwnership, discVars
<1>4. CASE UdpTimeout
  BY <1>4 DEF UdpTimeout, TypeOK, SocketOwnership, discVars
<1>5. CASE UdpEnqueue
  <2>1. [from |-> rx, sock |-> sock] \in Messages
    BY <1>5 DEF UdpEnqueue, TypeOK, SocketOwnership, Messages
  <2>2. /\ Append(queue, [from |-> rx, sock |-> sock]) \in Seq(Messages)
        /\ Len(Append(queue, [from |-> rx, sock |-> sock])) = Len(queue) + 1
    BY <2>1, AddLast DEF TypeOK
  <2> QED
    BY <1>5, <2>2 DEF UdpEnqueue, TypeOK, SocketOwnership, discVars
<1>6. CASE UdpQueueFull
  BY <1>6 DEF UdpQueueFull, TypeOK, SocketOwnership, discVars, Settle, Fates
<1>7. CASE UdpDelayDone
  BY <1>7 DEF UdpDelayDone, TypeOK, SocketOwnership, discVars
<1>8. CASE UdpClose
  <2>1. sock \in Fds
    BY <1>8 DEF UdpClose, TypeOK, SocketOwnership
  <2>2. <<>> \in Seq(Requests) /\ Len(<<>>) = 0
    OBVIOUS
  <2>3. fate' \in [Requests -> Fates]
    BY <1>8 DEF UdpClose, TypeOK, Fates
  <2>4. TypeOK'
    <3>1. Len(mailbox') <= MailboxLen /\ mailbox' \in Seq(Requests)
      BY <1>8, <2>2 DEF UdpClose
    <3> QED
      BY <1>8, <2>1, <2>3, <3>1 DEF UdpClose, TypeOK, Seize, discVars
  <2>5. SocketOwnership'
    BY <1>8, <2>1 DEF UdpClose, TypeOK, SocketOwnership, Seize, Fds
  <2> QED
    BY <1>8, <2>4, <2>5 DEF UdpClose, discVars
<1>9. CASE DiscRecv
  <2>1. /\ Head(queue) \in Messages /\ Tail(queue) \in Seq(Messages)
        /\ Len(Tail(queue)) = Len(queue) - 1
    BY <1>9, TakeFirst DEF DiscRecv, TypeOK
  <2>2. fate' \in [Requests -> Fates]
    BY <1>9, <2>1 DEF DiscRecv, TypeOK, Fates, Settle, Messages
  <2> QED
    BY <1>9, <2>1, <2>2 DEF DiscRecv, TypeOK, SocketOwnership, udpVars
<1>10. CASE DiscSend
  <2>1. PICK how \in SendOutcomes(msg.sock) : Settle(msg.from, how)
    BY <1>10 DEF DiscSend
  <2>2. how \in Fates
    BY DEF SendOutcomes, Fates
  <2> QED
    BY <1>10, <2>1, <2>2 DEF DiscSend, TypeOK, SocketOwnership, Settle, udpVars
<1>11. ASSUME NEW r \in Requests, NEW b \in Bodies, Arrive(r, b) PROVE CoreInv'
  <2>1. /\ Append(mailbox, r) \in Seq(Requests)
        /\ Len(Append(mailbox, r)) = Len(mailbox) + 1
    BY AddLast DEF TypeOK
  <2>2. fate' \in [Requests -> Fates] /\ body' \in [Requests -> Bodies \cup {"unsent"}]
    BY <1>11 DEF Arrive, TypeOK, Settle, Fates
  <2>3. mailbox' \in Seq(Requests) /\ Len(mailbox') <= MailboxLen
    <3>1. CASE Len(mailbox) < MailboxLen /\ mailbox' = Append(mailbox, r)
      <4>1. Len(mailbox) + 1 <= MailboxLen
        BY <3>1 DEF TypeOK
      <4> QED
        BY <2>1, <3>1, <4>1
    <3>2. CASE UNCHANGED mailbox
      BY <3>2 DEF TypeOK
    <3> QED
      BY <1>11, <3>1, <3>2 DEF Arrive
  <2> QED
    BY <1>11, <2>2, <2>3 DEF Arrive, TypeOK, SocketOwnership, udpVars, discVars
<1>12. CASE HttpOpen
  BY <1>12 DEF HttpOpen, TypeOK, SocketOwnership, LowestFree, Seize, udpVars, discVars
<1>13. CASE HttpClose
  BY <1>13 DEF HttpClose, TypeOK, SocketOwnership, HttpFds, Seize, udpVars, discVars
<1>14. CASE UNCHANGED vars
  BY <1>14 DEF vars, TypeOK, SocketOwnership, udpVars, discVars
<1>15. CASE StartUdp \/ StartDiscovery
  BY <1>15, TimingAssumption DEF StartUdp, StartDiscovery, TypeOK, SocketOwnership, udpVars, discVars
<1>16. CASE CrashAtStart
  <2>1. mailbox' \in Seq(Requests) /\ Len(mailbox') = 0 /\ queue' \in Seq(Messages) /\ Len(queue') = 0
    BY <1>16 DEF CrashAtStart
  <2>2. fate' \in [Requests -> Fates]
    BY <1>16 DEF CrashAtStart, TypeOK, Fates
  <2>3. /\ owner' = [fd \in Fds |-> "free"]
        /\ bound' = FALSE /\ upc' = "unborn" /\ sock' = -1 /\ rx' = None
        /\ UNCHANGED <<dpc, msg, body>>
    BY <1>16 DEF CrashAtStart, discVars
  <2>4. owner' \in [Fds -> {"free", "udp", "http"}]
    BY <2>3
  <2>5. SocketOwnership'
    <3>1. \A fd \in Fds : owner'[fd] = "udp" <=> fd = sock'
      BY <2>3 DEF Fds
    <3> QED
      BY <2>3, <3>1 DEF SocketOwnership
  <2>6. Len(mailbox') <= MailboxLen /\ Len(queue') <= QueueLen
    BY <2>1
  <2>7. TypeOK'
    <3>1. dpc' \in {"unborn", "failed", "recv", "send"} /\ msg' \in Messages \cup {NoMsg}
          /\ body' \in [Requests -> Bodies \cup {"unsent"}]
      BY <2>3 DEF TypeOK
    <3> QED
      BY <2>1, <2>2, <2>3, <2>4, <2>6, <3>1 DEF TypeOK
  <2>8. Control'
    BY <1>16 DEF CrashAtStart, discVars
  <2> QED
    BY <2>5, <2>7, <2>8
<1> QED
  BY <1>1, <1>2, <1>3, <1>4, <1>5, <1>6, <1>7, <1>8, <1>9, <1>10, <1>11, <1>12,
     <1>13, <1>14, <1>15, <1>16 DEF Next, Startup, UdpTask, DiscoveryTask, Environment

LEMMA CoreInvariant == Spec => []CoreInv
BY CoreInit, CoreStep, PTL DEF Spec

\* Every variable keeps its type: the queue and the mailbox stay within their
\* bounds and the message of discovery_task is one that was queued.
THEOREM TypeCorrect == Spec => []TypeOK
BY CoreInvariant, PTL DEF CoreInv

\* The UDP descriptors are exactly the one udp_server_task holds, however often
\* it closes and reopens its socket.
THEOREM NoDescriptorLeaks == Spec => []SocketOwnership
BY CoreInvariant, PTL DEF CoreInv

-----------------------------------------------------------------------------
(* With a descriptor to spare udp_server_task never ends: the HTTP server  *)
(* holds at most HttpSockets of them, so when the task holds none, one is  *)
(* free.                                                                   *)

HttpBound == IsFiniteSet(HttpFds) /\ Cardinality(HttpFds) <= HttpSockets

LEMMA FdsFinite == IsFiniteSet(Fds) /\ Cardinality(Fds) = NumSockets
BY SocketsAssumption, FS_Interval DEF Fds

LEMMA HttpBoundInit == Init => HttpBound
<1> SUFFICES ASSUME Init PROVE HttpBound
  OBVIOUS
<1>1. HttpFds = {}
  BY DEF Init, HttpFds
<1> QED
  BY <1>1, FS_EmptySet, SocketsAssumption DEF HttpBound

LEMMA HttpBoundStep == CoreInv /\ HttpBound /\ [Next]_vars => HttpBound'
<1> SUFFICES ASSUME CoreInv, HttpBound, [Next]_vars PROVE HttpBound'
  OBVIOUS
<1>1. CASE HttpOpen
  <2>1. PICK fd \in Fds : LowestFree(fd) /\ Seize(fd, "http")
    BY <1>1 DEF HttpOpen
  <2>2. HttpFds' = HttpFds \cup {fd} /\ fd \notin HttpFds
    BY <2>1 DEF HttpFds, LowestFree, Seize, CoreInv, TypeOK
  <2>3. IsFiniteSet(HttpFds') /\ Cardinality(HttpFds') = Cardinality(HttpFds) + 1
    BY <2>2, FS_AddElement DEF HttpBound
  <2> QED
    BY <1>1, <2>3, FS_CardinalityType, SocketsAssumption DEF HttpOpen, HttpBound
<1>2. CASE ~HttpOpen
  <2>1. HttpFds' \subseteq HttpFds
    BY <1>2 DEF Next, Startup, StartUdp, StartDiscovery, CrashAtStart, UdpTask, DiscoveryTask,
      Environment, UdpSocket, UdpBind, UdpRecv,
      UdpTimeout, UdpEnqueue, UdpQueueFull, UdpDelayDone, UdpClose, DiscRecv, DiscSend,
      Arrive, HttpClose, HttpFds, Seize, CoreInv, TypeOK, vars
  <2>2. IsFiniteSet(HttpFds') /\ Cardinality(HttpFds') <= Cardinality(HttpFds)
    BY <2>1, FS_Subset DEF HttpBound
  <2> QED
    BY <2>2, FS_CardinalityType, SocketsAssumption DEF HttpBound
<1> QED
  BY <1>1, <1>2

\* Each time udp_server_task opens a socket there is a descriptor for it, when the
\* HTTP server leaves one more than its connections can take.
THEOREM SocketAlwaysFindsDescriptor ==
  ASSUME HttpSockets < NumSockets
  PROVE  Spec => []SocketFindsDescriptor
<1> DEFINE Inv == CoreInv /\ HttpBound
<1>1. Init => Inv
  BY CoreInit, HttpBoundInit
<1>2. Inv /\ [Next]_vars => Inv'
  BY CoreStep, HttpBoundStep
<1>3. Inv => SocketFindsDescriptor
  <2> SUFFICES ASSUME Inv, upc = "socket", NoneFree PROVE FALSE
    BY DEF SocketFindsDescriptor
  <2>1. HttpFds = Fds
    BY DEF NoneFree, HttpFds, CoreInv, TypeOK, SocketOwnership, Fds
  <2> QED
    BY <2>1, FdsFinite, SocketsAssumption DEF HttpBound
<1> QED
  BY <1>1, <1>2, <1>3, PTL DEF Spec

-----------------------------------------------------------------------------
(* With prompt replies, what is queued or about to be answered came in     *)
(* through the open socket: udp_server_task does not leave its pause, and  *)
(* so cannot close the socket, before discovery_task is done with it.      *)

Pacing ==
  /\ queue # <<>> \/ dpc = "send" => upc = "delay"
  /\ \A i \in DOMAIN queue : queue[i].sock = sock
  /\ dpc = "send" => msg.sock = sock
  /\ NothingDiscarded

LEMMA PacingInit == Init => Pacing
BY DEF Init, Pacing, NothingDiscarded

LEMMA PacingStep ==
  ASSUME PromptReplies
  PROVE  CoreInv /\ Pacing /\ [Next]_vars => Pacing'
<1> SUFFICES ASSUME CoreInv, Pacing, [Next]_vars PROVE Pacing'
  OBVIOUS
<1> USE DEF CoreInv, Control, Pacing, NothingDiscarded
<1>1. CASE UdpSocket
  BY <1>1 DEF UdpSocket, discVars
<1>2. CASE UdpBind \/ UdpRecv \/ UdpTimeout
  BY <1>2 DEF UdpBind, UdpRecv, UdpTimeout, discVars
<1>3. CASE UdpEnqueue
  <2>1. queue = <<>> /\ dpc # "send"
    BY <1>3 DEF UdpEnqueue
  <2> DEFINE m == [from |-> rx, sock |-> sock]
  <2>2. m \in Messages
    BY <1>3, RequestsAssumption DEF UdpEnqueue, TypeOK, SocketOwnership, Messages
  <2>3. \A i \in DOMAIN Append(queue, m) : Append(queue, m)[i] = m
    BY <2>1, <2>2, AddLast DEF TypeOK
  <2> QED
    BY <1>3, <2>1, <2>3 DEF UdpEnqueue, discVars
<1>4. CASE UdpQueueFull
  <2>1. queue = <<>> /\ Len(queue) = 0
    BY <1>4 DEF UdpQueueFull
  <2> QED
    BY <1>4, <2>1, BoundsAssumption DEF UdpQueueFull
<1>5. CASE UdpDelayDone
  BY <1>5 DEF UdpDelayDone, discVars
<1>6. CASE UdpClose
  <2>1. queue = <<>> /\ dpc # "send"
    BY <1>6 DEF UdpClose
  <2>2. NothingDiscarded'
    BY <1>6 DEF UdpClose
  <2> QED
    BY <1>6, <2>1, <2>2 DEF UdpClose, discVars
<1>7. CASE DiscRecv
  <2>1. /\ Head(queue) = queue[1] /\ 1 \in DOMAIN queue
        /\ \A i \in DOMAIN Tail(queue) :
             i + 1 \in DOMAIN queue /\ Tail(queue)[i] = queue[i + 1]
    BY <1>7, TakeFirst DEF DiscRecv, TypeOK
  <2>2. NothingDiscarded'
    BY <1>7 DEF DiscRecv, Settle, TypeOK
  <2> QED
    BY <1>7, <2>1, <2>2 DEF DiscRecv, udpVars
<1>8. CASE DiscSend
  <2>1. PICK how \in SendOutcomes(msg.sock) : Settle(msg.from, how)
    BY <1>8 DEF DiscSend
  <2>2. how # "discarded"
    BY DEF SendOutcomes
  <2>3. NothingDiscarded'
    BY <2>1, <2>2 DEF Settle, TypeOK
  <2> QED
    BY <1>8, <2>3 DEF DiscSend, udpVars
<1>9. ASSUME NEW r \in Requests, NEW b \in Bodies, Arrive(r, b) PROVE Pacing'
  BY <1>9 DEF Arrive, Settle, TypeOK, udpVars, discVars
<1>10. CASE HttpOpen \/ HttpClose
  BY <1>10 DEF HttpOpen, HttpClose, udpVars, discVars
<1>11. CASE UNCHANGED vars
  BY <1>11 DEF vars, udpVars, discVars
<1>12. CASE StartUdp \/ StartDiscovery
  BY <1>12 DEF StartUdp, StartDiscovery, udpVars, discVars
<1>13. CASE CrashAtStart
  <2>1. queue' = <<>> /\ dpc' # "send"
    BY <1>13 DEF CrashAtStart, discVars
  <2>2. \A r \in Requests : fate'[r] # "discarded"
    BY <1>13 DEF CrashAtStart
  <2> QED
    BY <2>1, <2>2
<1> QED
  BY <1>1, <1>2, <1>3, <1>4, <1>5, <1>6, <1>7, <1>8, <1>9, <1>10, <1>11, <1>12, <1>13
     DEF Next, Startup, UdpTask, DiscoveryTask, Environment

\* When the pause is long enough, a reply leaves through the very socket its
\* request came by, although the message only carries the socket's number.
THEOREM PromptRepliesAreSafe ==
  ASSUME PromptReplies
  PROVE  Spec => []RepliesUseOwnSocket
<1>1. CoreInv /\ Pacing => RepliesUseOwnSocket
  BY DEF CoreInv, Pacing, RepliesUseOwnSocket, SocketOwnership, Control, Messages
<1>2. QED
  BY <1>1, CoreInit, CoreStep, PacingInit, PacingStep, PTL DEF Spec

\* When the pause is long enough, the queue is never full.
THEOREM PromptQueueNeverFull ==
  ASSUME PromptReplies
  PROVE  Spec => []NothingDiscarded
<1>1. Pacing => NothingDiscarded
  BY DEF Pacing
<1>2. QED
  BY <1>1, CoreInit, CoreStep, PacingInit, PacingStep, PTL DEF Spec

-----------------------------------------------------------------------------
(* Conservation, and on top of it the refinement of DiscoveryService.      *)

Fresh == \A r \in Requests : fate[r] = "unsent" <=> body[r] = "unsent"

ConsInv == Conservation /\ Fresh

\* The oldest message of the queue is a message from a datagram.
LEMMA OldestMessage ==
  ASSUME CoreInv, queue # <<>>
  PROVE  /\ Head(queue) = queue[1] /\ 1 \in DOMAIN queue
         /\ queue[1] \in Messages /\ queue[1].from \in Requests
<1>1. queue \in Seq(Messages)
  BY DEF CoreInv, TypeOK
<1>2. Head(queue) = queue[1] /\ 1 \in DOMAIN queue /\ queue[1] \in Messages
  BY <1>1, TakeFirst
<1> QED
  BY <1>2 DEF Messages

LEMMA ConsInit == Init => ConsInv
BY RequestsAssumption DEF Init, ConsInv, Conservation, Fresh, InMailbox, InQueue, InMsg

LEMMA ConsStep == CoreInv /\ ConsInv /\ [Next]_vars => ConsInv'
<1> SUFFICES ASSUME CoreInv, ConsInv, [Next]_vars PROVE ConsInv'
  OBVIOUS
<1> USE RequestsAssumption DEF CoreInv, Control, ConsInv, Conservation, Fresh
<1>1. CASE UdpSocket \/ UdpBind \/ UdpTimeout \/ UdpDelayDone \/ HttpOpen \/ HttpClose
           \/ UNCHANGED vars
  <2>1. UNCHANGED <<mailbox, rx, queue, dpc, msg, body, fate>>
    BY <1>1 DEF UdpSocket, UdpBind, UdpTimeout, UdpDelayDone, HttpOpen, HttpClose, vars, udpVars, discVars
  <2> QED
    BY <2>1 DEF InMailbox, InQueue, InMsg
<1>2. CASE UdpRecv
  <2>1. PICK r \in Requests : r = mailbox[1] /\ rx' = r
    BY <1>2, TakeFirst DEF UdpRecv, TypeOK
  <2>2. /\ rx = None /\ mailbox' = Tail(mailbox) /\ 1 \in DOMAIN mailbox
        /\ \A i \in DOMAIN Tail(mailbox) :
             i \in Nat /\ i # 0 /\ i + 1 \in DOMAIN mailbox /\ Tail(mailbox)[i] = mailbox[i + 1]
        /\ \A i \in DOMAIN mailbox : i \in Nat /\ (i # 1 => i - 1 \in DOMAIN Tail(mailbox))
    BY <1>2, TakeFirst DEF UdpRecv, TypeOK
  <2>3. \A i, j \in DOMAIN mailbox' : mailbox'[i] = mailbox'[j] => i = j
    BY <2>2
  <2>4. \A q \in Requests : InMailbox(q)' <=> InMailbox(q) /\ q # r
    <3>1. ASSUME NEW q \in Requests, InMailbox(q)' PROVE InMailbox(q) /\ q # r
      BY <2>1, <2>2, <3>1 DEF InMailbox
    <3>2. ASSUME NEW q \in Requests, InMailbox(q), q # r PROVE InMailbox(q)'
      <4>1. PICK i \in DOMAIN mailbox : mailbox[i] = q
        BY <3>2 DEF InMailbox
      <4>2. i # 1 /\ i - 1 \in DOMAIN Tail(mailbox)
        BY <2>1, <2>2, <3>2, <4>1
      <4>3. Tail(mailbox)[i - 1] = q
        BY <2>2, <4>1, <4>2
      <4> QED
        BY <2>2, <4>2, <4>3 DEF InMailbox
    <3> QED
      BY <3>1, <3>2
  <2>5. InMailbox(r)
    BY <2>1, <2>2 DEF InMailbox
  <2>6. \A q \in Requests : (InQueue(q)' <=> InQueue(q)) /\ (InMsg(q)' <=> InMsg(q))
    BY <1>2 DEF UdpRecv, discVars, InQueue, InMsg
  <2>7. UNCHANGED <<queue, fate, body>>
    BY <1>2 DEF UdpRecv
  <2> QED
    BY <2>1, <2>2, <2>3, <2>4, <2>5, <2>6, <2>7
<1>3. CASE UdpEnqueue
  <2> DEFINE m == [from |-> rx, sock |-> sock]
  <2>1. m \in Messages /\ rx \in Requests
    BY <1>3 DEF UdpEnqueue, TypeOK, SocketOwnership, Messages
  <2>2. /\ DOMAIN queue' = DOMAIN queue \cup {Len(queue) + 1}
        /\ Len(queue) + 1 \notin DOMAIN queue
        /\ \A i \in DOMAIN queue : queue'[i] = queue[i]
        /\ queue'[Len(queue) + 1].from = rx
    BY <1>3, <2>1, AddLast DEF UdpEnqueue, TypeOK
  <2>3. \A r \in Requests : InQueue(r)' <=> InQueue(r) \/ r = rx
    BY <2>2 DEF InQueue
  <2>4. ~InQueue(rx)
    BY <2>1
  <2>5. \A i, j \in DOMAIN queue' : queue'[i].from = queue'[j].from => i = j
    BY <2>2, <2>4 DEF InQueue
  <2>6. \A r \in Requests : (InMailbox(r)' <=> InMailbox(r)) /\ (InMsg(r)' <=> InMsg(r))
    BY <1>3 DEF UdpEnqueue, discVars, InMailbox, InMsg
  <2>7. rx' = None /\ UNCHANGED <<mailbox, fate, body>>
    BY <1>3 DEF UdpEnqueue
  <2> QED
    BY <2>1, <2>3, <2>5, <2>6, <2>7
<1>4. CASE UdpQueueFull
  <2>1. rx \in Requests /\ rx' = None /\ UNCHANGED <<mailbox, queue, body>>
    BY <1>4 DEF UdpQueueFull, TypeOK
  <2>2. fate' = [fate EXCEPT ![rx] = "discarded"]
    BY <1>4 DEF UdpQueueFull, Settle
  <2>3. \A r \in Requests : /\ InMailbox(r)' <=> InMailbox(r)
                            /\ InQueue(r)' <=> InQueue(r)
                            /\ InMsg(r)' <=> InMsg(r)
    BY <1>4 DEF UdpQueueFull, discVars, InMailbox, InQueue, InMsg
  <2>4. fate[rx] = "pending"
    BY <2>1
  <2> QED
    BY <2>1, <2>2, <2>3, <2>4 DEF TypeOK
<1>5. CASE UdpClose
  <2>1. rx = None /\ rx' = None /\ mailbox' = <<>> /\ UNCHANGED <<queue, body>>
    BY <1>5 DEF UdpClose
  <2>2. \A r \in Requests : /\ ~InMailbox(r)'
                            /\ InQueue(r)' <=> InQueue(r)
                            /\ InMsg(r)' <=> InMsg(r)
    BY <1>5, <2>1 DEF UdpClose, discVars, InMailbox, InQueue, InMsg
  <2>3. \A r \in Requests : fate'[r] = IF InMailbox(r) THEN "missed" ELSE fate[r]
    BY <1>5 DEF UdpClose
  <2>4. \A i, j \in DOMAIN mailbox' : mailbox'[i] = mailbox'[j] => i = j
    BY <2>1
  <2>5. \A r \in Requests : InMailbox(r) => fate[r] = "pending" /\ ~InQueue(r) /\ ~InMsg(r)
    OBVIOUS
  <2>6. \A r \in Requests : fate'[r] = "pending" <=> InQueue(r) \/ InMsg(r)
    BY <2>1, <2>3, <2>5
  <2>7. Fresh'
    BY <2>1, <2>3, <2>5
  <2>8. \A i, j \in DOMAIN queue' : queue'[i].from = queue'[j].from => i = j
    BY <2>1
  <2>9. \A r \in Requests : InQueue(r) => ~InMsg(r)
    OBVIOUS
  <2> QED
    BY <2>1, <2>2, <2>4, <2>6, <2>7, <2>8, <2>9
<1>6. CASE DiscRecv
  <2>1. PICK r \in Requests : r = queue[1].from /\ msg'.from = r /\ Head(queue).from = r
    BY <1>6, OldestMessage DEF DiscRecv
  <2>2. /\ queue' = Tail(queue) /\ 1 \in DOMAIN queue
        /\ \A i \in DOMAIN Tail(queue) :
             i \in Nat /\ i # 0 /\ i + 1 \in DOMAIN queue /\ Tail(queue)[i] = queue[i + 1]
        /\ \A i \in DOMAIN queue : i \in Nat /\ (i # 1 => i - 1 \in DOMAIN Tail(queue))
    BY <1>6, TakeFirst DEF DiscRecv, TypeOK
  <2>3. \A i, j \in DOMAIN queue' : queue'[i].from = queue'[j].from => i = j
    BY <2>2
  <2>4. \A q \in Requests : InQueue(q)' <=> InQueue(q) /\ q # r
    <3>1. ASSUME NEW q \in Requests, InQueue(q)' PROVE InQueue(q) /\ q # r
      BY <2>1, <2>2, <3>1 DEF InQueue
    <3>2. ASSUME NEW q \in Requests, InQueue(q), q # r PROVE InQueue(q)'
      <4>1. PICK i \in DOMAIN queue : queue[i].from = q
        BY <3>2 DEF InQueue
      <4>2. i # 1 /\ i - 1 \in DOMAIN Tail(queue)
        BY <2>1, <2>2, <3>2, <4>1
      <4>3. Tail(queue)[i - 1].from = q
        BY <2>2, <4>1, <4>2
      <4> QED
        BY <2>2, <4>2, <4>3 DEF InQueue
    <3> QED
      BY <3>1, <3>2
  <2>5. InQueue(r)
    BY <2>1, <2>2 DEF InQueue
  <2>6. \A q \in Requests : InMailbox(q)' <=> InMailbox(q)
    BY <1>6 DEF DiscRecv, InMailbox
  <2>7. \A q \in Requests : ~InMsg(q)
    BY <1>6 DEF DiscRecv, InMsg
  <2>8. UNCHANGED <<mailbox, rx, body>>
    BY <1>6 DEF DiscRecv, udpVars
  <2>9. CASE dpc' = "send" /\ UNCHANGED fate
    <3>1. \A q \in Requests : InMsg(q)' <=> q = r
      BY <2>1, <2>9 DEF InMsg
    <3> QED
      BY <2>3, <2>4, <2>5, <2>6, <2>7, <2>8, <2>9, <3>1
  <2>10. CASE dpc' = "recv" /\ fate' = [fate EXCEPT ![r] = "ignored"]
    <3>1. \A q \in Requests : ~InMsg(q)'
      BY <2>10 DEF InMsg
    <3> QED
      BY <2>3, <2>4, <2>5, <2>6, <2>7, <2>8, <2>10, <3>1 DEF TypeOK
  <2> QED
    BY <1>6, <2>1, <2>9, <2>10 DEF DiscRecv, Settle
<1>7. CASE DiscSend
  <2>1. PICK how \in SendOutcomes(msg.sock) : fate' = [fate EXCEPT ![msg.from] = how]
    BY <1>7 DEF DiscSend, Settle
  <2>2. how \notin {"pending", "unsent"}
    BY DEF SendOutcomes
  <2>3. msg.from \in Requests /\ InMsg(msg.from) /\ fate[msg.from] = "pending"
    BY <1>7 DEF DiscSend, InMsg, Messages
  <2>4. \A r \in Requests : /\ InMailbox(r)' <=> InMailbox(r)
                            /\ InQueue(r)' <=> InQueue(r)
                            /\ ~InMsg(r)' /\ (InMsg(r) <=> r = msg.from)
    BY <1>7 DEF DiscSend, udpVars, InMailbox, InQueue, InMsg
  <2>5. UNCHANGED <<mailbox, queue, rx, body>>
    BY <1>7 DEF DiscSend, udpVars
  <2> QED
    BY <2>1, <2>2, <2>3, <2>4, <2>5 DEF TypeOK
<1>8. ASSUME NEW r \in Requests, NEW b \in Bodies, Arrive(r, b) PROVE ConsInv'
  <2>1. /\ fate[r] = "unsent" /\ ~InMailbox(r) /\ ~InQueue(r) /\ ~InMsg(r) /\ rx # r
    BY <1>8 DEF Arrive
  <2>2. body' = [body EXCEPT ![r] = b] /\ b # "unsent" /\ UNCHANGED <<rx, queue>>
    BY <1>8 DEF Arrive, Bodies, udpVars
  <2>3. \A q \in Requests : (InQueue(q)' <=> InQueue(q)) /\ (InMsg(q)' <=> InMsg(q))
    BY <1>8 DEF Arrive, discVars, InQueue, InMsg
  <2>4. CASE mailbox' = Append(mailbox, r) /\ fate' = [fate EXCEPT ![r] = "pending"]
    <3>1. /\ DOMAIN mailbox' = DOMAIN mailbox \cup {Len(mailbox) + 1}
          /\ Len(mailbox) + 1 \notin DOMAIN mailbox
          /\ \A i \in DOMAIN mailbox : mailbox'[i] = mailbox[i]
          /\ mailbox'[Len(mailbox) + 1] = r
      BY <2>4, AddLast DEF TypeOK
    <3>2. \A q \in Requests : InMailbox(q)' <=> InMailbox(q) \/ q = r
      BY <3>1 DEF InMailbox
    <3>3. \A i, j \in DOMAIN mailbox' : mailbox'[i] = mailbox'[j] => i = j
      BY <2>1, <3>1 DEF InMailbox
    <3> QED
      BY <2>1, <2>2, <2>3, <2>4, <3>2, <3>3 DEF TypeOK
  <2>5. CASE UNCHANGED mailbox /\ fate' = [fate EXCEPT ![r] = "missed"]
    <3>1. \A q \in Requests : InMailbox(q)' <=> InMailbox(q)
      BY <2>5 DEF InMailbox
    <3> QED
      BY <2>1, <2>2, <2>3, <2>5, <3>1 DEF TypeOK
  <2> QED
    BY <1>8, <2>4, <2>5 DEF Arrive, Settle
<1>9. CASE StartUdp \/ StartDiscovery
  <2>1. /\ UNCHANGED <<mailbox, rx, queue, msg, body, fate>>
        /\ dpc' = dpc \/ (dpc # "send" /\ dpc' # "send")
    BY <1>9 DEF StartUdp, StartDiscovery, udpVars, discVars
  <2> QED
    BY <2>1 DEF InMailbox, InQueue, InMsg
<1>10. CASE CrashAtStart
  <2>1. DOMAIN mailbox' = {} /\ DOMAIN queue' = {} /\ rx' = None /\ dpc' # "send" /\ body' = body
    BY <1>10 DEF CrashAtStart, discVars
  <2>2. \A r \in Requests : fate'[r] # "pending" /\ (fate'[r] = "unsent" <=> fate[r] = "unsent")
    BY <1>10 DEF CrashAtStart
  <2> QED
    BY <2>1, <2>2, RequestsAssumption DEF InMailbox, InQueue, InMsg
<1> QED
  BY <1>1, <1>2, <1>3, <1>4, <1>5, <1>6, <1>7, <1>8, <1>9, <1>10
     DEF Next, Startup, UdpTask, DiscoveryTask, Environment

\* No datagram is lost track of or handled twice between mailbox and reply.
THEOREM NothingLostTrackOf == Spec => []Conservation
<1>1. ConsInv => Conservation
  BY DEF ConsInv
<1>2. QED
  BY <1>1, CoreInit, CoreStep, ConsInit, ConsStep, PTL DEF Spec

(* discovery_task is only about to reply to what strncmp accepted.         *)
Asked == dpc = "send" => Matches(body[msg.from])

LEMMA AskedInit == Init => Asked
BY DEF Init, Asked

LEMMA AskedStep == CoreInv /\ ConsInv /\ Asked /\ [Next]_vars => Asked'
<1> SUFFICES ASSUME CoreInv, ConsInv, Asked, [Next]_vars PROVE Asked'
  OBVIOUS
<1> USE DEF Asked
<1>1. CASE DiscRecv
  BY <1>1 DEF DiscRecv
<1>2. CASE DiscSend
  BY <1>2 DEF DiscSend
<1>3. ASSUME NEW r \in Requests, NEW b \in Bodies, Arrive(r, b) PROVE Asked'
  <2>1. fate[r] = "unsent"
    BY <1>3 DEF Arrive, ConsInv, Fresh
  <2>2. dpc = "send" => msg.from # r
    BY <2>1 DEF ConsInv, Conservation, InMsg
  <2> QED
    BY <1>3, <2>2 DEF Arrive, discVars, CoreInv, TypeOK
<1>4. CASE UNCHANGED <<discVars, body>>
  BY <1>4 DEF discVars
<1> QED
  BY <1>1, <1>2, <1>3, <1>4
     DEF Next, Startup, StartUdp, StartDiscovery, CrashAtStart, UdpTask, DiscoveryTask,
         Environment, UdpSocket, UdpBind, UdpRecv, UdpTimeout,
         UdpEnqueue, UdpQueueFull, UdpDelayDone, UdpClose, HttpOpen, HttpClose, vars

LEMMA ServiceInit == Init => Service!Init
BY DEF Init, Service!Init, outcome

LEMMA ServiceStep ==
  ASSUME PromptReplies
  PROVE  CoreInv /\ Pacing /\ ConsInv /\ Asked /\ [Next]_vars
           => [Service!Next]_(Service!vars)
<1> SUFFICES ASSUME CoreInv, Pacing, ConsInv, Asked, [Next]_vars
             PROVE  [Service!Next]_(Service!vars)
  OBVIOUS
<1> USE RequestsAssumption DEF CoreInv, Control, ConsInv
<1>0. \A r \in Requests : outcome[r] = "pending" <=> fate[r] = "pending"
  BY DEF outcome
<1>1. CASE UNCHANGED <<body, fate>>
  BY <1>1 DEF outcome, Service!vars
<1>2. ASSUME NEW r \in Requests, NEW e \in {"lost", "answered", "ignored"},
             NEW how \in Fates,
             fate[r] = "pending", UNCHANGED body, fate' = [fate EXCEPT ![r] = how],
             e \in Service!Endings(body[r]),
             e = IF how \in {"missed", "discarded", "sendFailed"} THEN "lost" ELSE how
      PROVE  Service!Finish
  <2>1. outcome' = [q \in Requests |-> IF q \in {r} THEN e ELSE outcome[q]]
    BY <1>2 DEF outcome, TypeOK
  <2>2. {r} \in SUBSET {q \in Requests : outcome[q] = "pending"}
    BY <1>0, <1>2
  <2> QED
    BY <1>2, <2>1, <2>2 DEF Service!Finish
<1>3. CASE UdpQueueFull
  <2>1. rx \in Requests /\ fate[rx] = "pending"
    BY <1>3 DEF UdpQueueFull, TypeOK, Conservation
  <2>2. fate' = [fate EXCEPT ![rx] = "discarded"] /\ UNCHANGED body
    BY <1>3 DEF UdpQueueFull, Settle
  <2>3. "lost" \in Service!Endings(body[rx])
    BY DEF Service!Endings
  <2> QED
    BY <1>2, <2>1, <2>2, <2>3 DEF Service!Next, Fates
<1>4. CASE UdpClose
  <2> DEFINE held == {r \in Requests : InMailbox(r)}
  <2>1. fate' = [r \in Requests |-> IF r \in held THEN "missed" ELSE fate[r]] /\ UNCHANGED body
    BY <1>4 DEF UdpClose
  <2>2. CASE held = {}
    <3>1. fate' = fate
      BY <2>1, <2>2 DEF TypeOK
    <3> QED
      BY <1>1, <2>1, <3>1
  <2>3. CASE held # {}
    <3>1. held \in SUBSET {r \in Requests : outcome[r] = "pending"}
      BY <1>0 DEF Conservation
    <3>2. outcome' = [r \in Requests |-> IF r \in held THEN "lost" ELSE outcome[r]]
      BY <2>1 DEF outcome
    <3>3. \A r \in held : "lost" \in Service!Endings(body[r])
      BY DEF Service!Endings
    <3> QED
      BY <2>1, <2>3, <3>1, <3>2, <3>3 DEF Service!Finish, Service!Next
  <2> QED
    BY <2>2, <2>3
<1>5. CASE DiscRecv
  <2> DEFINE r == Head(queue).from
  <2>1. /\ r \in Requests /\ InQueue(r)
    BY <1>5, OldestMessage DEF DiscRecv, InQueue
  <2>2. CASE UNCHANGED fate
    BY <1>1, <1>5, <2>2 DEF DiscRecv
  <2>3. CASE ~Matches(body[r]) /\ Settle(r, "ignored")
    <3>1. fate[r] = "pending"
      BY <2>1 DEF Conservation
    <3>2. "ignored" \in Service!Endings(body[r])
      BY <2>3 DEF Service!Endings
    <3> QED
      BY <1>2, <1>5, <2>1, <2>3, <3>1, <3>2 DEF DiscRecv, Settle, Service!Next, Fates
  <2> QED
    BY <1>5, <2>2, <2>3 DEF DiscRecv
<1>6. CASE DiscSend
  <2>1. msg.from \in Requests /\ fate[msg.from] = "pending" /\ Matches(body[msg.from])
    BY <1>6 DEF DiscSend, Messages, Conservation, InMsg, Asked
  <2>2. owner[msg.sock] = "udp"
    BY <1>6 DEF DiscSend, Pacing, SocketOwnership, Messages
  <2>3. PICK how \in {"answered", "sendFailed"} : fate' = [fate EXCEPT ![msg.from] = how]
    BY <1>6, <2>2 DEF DiscSend, SendOutcomes, Settle
  <2>4. {"lost", "answered"} \subseteq Service!Endings(body[msg.from])
    BY <2>1 DEF Service!Endings
  <2>5. how \in Fates
    BY DEF Fates
  <2>6. CASE how = "answered"
    BY <1>2, <1>6, <2>1, <2>3, <2>4, <2>5, <2>6 DEF DiscSend, Service!Next
  <2>7. CASE how = "sendFailed"
    BY <1>2, <1>6, <2>1, <2>3, <2>4, <2>5, <2>7 DEF DiscSend, Service!Next
  <2> QED
    BY <2>6, <2>7
<1>7. ASSUME NEW r \in Requests, NEW b \in Bodies, Arrive(r, b)
      PROVE  Service!Next
  <2>1. fate[r] = "unsent" /\ outcome[r] = "unsent"
    BY <1>7 DEF Arrive, Fresh, outcome
  <2>2. body' = [body EXCEPT ![r] = b]
    BY <1>7 DEF Arrive
  <2>3. \E how \in {"pending", "missed"} : fate' = [fate EXCEPT ![r] = how]
    BY <1>7 DEF Arrive, Settle
  <2>4. \E o \in {"pending", "lost"} : outcome' = [outcome EXCEPT ![r] = o]
    BY <2>3 DEF outcome, TypeOK
  <2> QED
    BY <2>1, <2>2, <2>4 DEF Service!Send, Service!Next
<1>8. CASE CrashAtStart
  <2> DEFINE held == {r \in Requests : fate[r] = "pending"}
  <2>1. fate' = [r \in Requests |-> IF r \in held THEN "missed" ELSE fate[r]] /\ UNCHANGED body
    BY <1>8 DEF CrashAtStart
  <2>2. CASE held = {}
    <3>1. fate' = fate
      BY <2>1, <2>2 DEF TypeOK
    <3> QED
      BY <1>1, <2>1, <3>1
  <2>3. CASE held # {}
    <3>1. held \in SUBSET {r \in Requests : outcome[r] = "pending"}
      BY DEF outcome
    <3>2. outcome' = [r \in Requests |-> IF r \in held THEN "lost" ELSE outcome[r]]
      BY <2>1 DEF outcome
    <3>3. \A r \in held : "lost" \in Service!Endings(body[r])
      BY DEF Service!Endings
    <3> QED
      BY <2>1, <2>3, <3>1, <3>2, <3>3 DEF Service!Finish, Service!Next
  <2> QED
    BY <2>2, <2>3
<1> QED
  BY <1>1, <1>3, <1>4, <1>5, <1>6, <1>7, <1>8
     DEF Next, Startup, StartUdp, StartDiscovery, UdpTask, DiscoveryTask,
         Environment, UdpSocket, UdpBind, UdpRecv, UdpTimeout,
         UdpEnqueue, UdpDelayDone, HttpOpen, HttpClose, vars

\* When the pause is long enough, the two tasks, their queue and their sockets
\* implement the discovery service: every datagram is settled at most once, and
\* only one that strncmp accepts is answered.
THEOREM ImplementsService ==
  ASSUME PromptReplies
  PROVE  Spec => IsDiscoveryService
<1> DEFINE Inv == CoreInv /\ Pacing /\ ConsInv /\ Asked
<1>1. Init => Inv /\ Service!Init
  BY CoreInit, PacingInit, ConsInit, AskedInit, ServiceInit
<1>2. Inv /\ [Next]_vars => Inv' /\ [Service!Next]_(Service!vars)
  BY CoreStep, PacingStep, ConsStep, AskedStep, ServiceStep
<1>3. QED
  BY <1>1, <1>2, PTL DEF Spec, IsDiscoveryService, Service!Spec
=============================================================================
