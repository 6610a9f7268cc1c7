----------------------------- MODULE Discovery -----------------------------
(***************************************************************************)
(* The UDP discovery responder: the two FreeRTOS tasks of udp_server.c and *)
(* discovery.c, the queue between them, and the socket table of lwIP that  *)
(* they share with the HTTP server.                                        *)
(*                                                                         *)
(* udp_server_task opens a socket, binds the discovery port, and moves     *)
(* datagrams from the socket to the queue, one every 100 ms.  When         *)
(* recvfrom times out (10 ms) it closes the socket and starts again.       *)
(* discovery_task takes messages from the queue and answers those it takes *)
(* for a discovery request, through the socket number the message carries. *)
(***************************************************************************)
EXTENDS Naturals, Integers, Sequences, FiniteSets

CONSTANTS
  Requests,       \* the datagrams that ever arrive (a duplicate is one more)
  None,           \* no datagram
  NumSockets,     \* socket descriptors left by the listeners of the HTTP server
  HttpSockets,    \* client connections the HTTP server keeps at most
  QueueLen,       \* xQueueCreate(10, ...)
  MailboxLen,     \* datagrams lwIP keeps for a socket
  SocketResults,  \* whether lwIP has memory for one more socket
  BindResults,    \* what bind() may return: TRUE is success
  CreateResults,  \* whether there is memory for a task, a queue, a handle
  PromptReplies   \* whether discovery_task is there and drains the queue within
                  \* the 100 ms that udp_server_task sleeps after each datagram

ASSUME RequestsAssumption == None \notin Requests
ASSUME SocketsAssumption  == NumSockets \in Nat /\ HttpSockets \in Nat
ASSUME BoundsAssumption   == QueueLen \in Nat \ {0} /\ MailboxLen \in Nat \ {0}
ASSUME TimingAssumption   ==
  /\ SocketResults \subseteq BOOLEAN /\ SocketResults # {}
  /\ BindResults \subseteq BOOLEAN /\ BindResults # {}
  /\ CreateResults \subseteq BOOLEAN /\ CreateResults # {}
  /\ PromptReplies \in BOOLEAN

VARIABLES
  owner,    \* lwIP: who holds each descriptor, "free", "udp" or "http"
  bound,    \* the discovery port is bound to the open UDP socket
  mailbox,  \* lwIP: datagrams received by that socket and not read yet
  upc,      \* udp_server_task: what it does next
  sock,     \* udp_server_task: its socket, -1 for none
  rx,       \* udp_server_task: the datagram just read
  queue,    \* udp_server_queue
  dpc,      \* discovery_task: what it does next
  msg,      \* discovery_task: its message
  body,     \* what each datagram says, "unsent" before it is sent
  fate      \* what became of each datagram

udpVars  == <<upc, sock, rx>>
discVars == <<dpc, msg>>
vars == <<owner, bound, mailbox, udpVars, queue, discVars, body, fate>>

Fds == 0 .. NumSockets - 1

\* udp_message_t: the sender (a datagram stands for its sender) and _sock.
Messages == [from : Requests, sock : Fds]
NoMsg == [from |-> None, sock |-> -1]

(***************************************************************************)
(* What the bodies of datagrams come to for strncmp(data,                  *)
(* "alpacadiscovery1", length): the request itself, a prefix of it (the    *)
(* empty datagram is one), the request then a NUL and more bytes, or       *)
(* anything else.  strncmp stops at the length or at the NUL, so it takes  *)
(* the first three for equal.                                              *)
(***************************************************************************)
Bodies == {"exact", "prefix", "nulTail", "other"}
Matches(b) == b \in {"exact", "prefix", "nulTail"}

Fates == {"unsent", "pending", "missed", "discarded", "ignored", "answered",
          "sendFailed", "misdirected"}

Seize(fd, who) == owner' = [owner EXCEPT ![fd] = who]
Settle(r, how) == fate' = [fate EXCEPT ![r] = how]

\* lwIP hands out the lowest free descriptor.
LowestFree(fd) == owner[fd] = "free" /\ \A g \in Fds : g < fd => owner[g] # "free"
NoneFree == \A fd \in Fds : owner[fd] # "free"
HttpFds == {fd \in Fds : owner[fd] = "http"}

\* Where a datagram that was accepted and is not settled yet can be.
InMailbox(r) == \E i \in DOMAIN mailbox : mailbox[i] = r
InQueue(r)   == \E i \in DOMAIN queue : queue[i].from = r
InMsg(r)     == dpc = "send" /\ msg.from = r

Init ==
  /\ owner = [fd \in Fds |-> "free"]
  /\ bound = FALSE
  /\ mailbox = <<>>
  /\ upc = "unborn" /\ sock = -1 /\ rx = None
  /\ queue = <<>>
  /\ dpc = "unborn" /\ msg = NoMsg
  /\ body = [r \in Requests |-> "unsent"]
  /\ fate = [r \in Requests |-> "unsent"]

-----------------------------------------------------------------------------
(* app_main in alpaca_server_discovery_start, which ignores every result.  *)

\* udp_server_start: without memory there is no task, and nobody is told.
StartUdp ==
  /\ upc = "unborn"
  /\ \E created \in CreateResults : upc' = IF created THEN "socket" ELSE "failed"
  /\ UNCHANGED <<owner, bound, mailbox, sock, rx, queue, discVars, body, fate>>

\* The other task is created second: udp_server_task, of higher priority than
\* app_main, may have queued datagrams by then.
StartDiscovery ==
  /\ upc # "unborn" /\ dpc = "unborn"
  /\ \E created \in CreateResults : dpc' = IF created THEN "recv" ELSE "failed"
  /\ UNCHANGED <<owner, bound, mailbox, udpVars, queue, msg, body, fate>>

\* udp_server_init or the malloc of the arguments finds no memory: the first
\* use of the null handle, queue or arguments makes the chip restart before
\* discovery_task takes a message, whatever udp_server_task did until then.  The
\* HTTP server restarts with it, and app_main comes here again.
CrashAtStart ==
  /\ dpc = "unborn" /\ FALSE \in CreateResults
  /\ owner' = [fd \in Fds |-> "free"]
  /\ bound' = FALSE
  /\ mailbox' = <<>> /\ queue' = <<>>
  /\ upc' = "unborn" /\ sock' = -1 /\ rx' = None
  /\ fate' = [r \in Requests |-> IF fate[r] = "pending" THEN "missed" ELSE fate[r]]
  /\ UNCHANGED <<discVars, body>>

-----------------------------------------------------------------------------
(* The network and the HTTP server, as lwIP lets the responder see them.   *)

\* A datagram for the discovery port: kept for the socket bound to the port,
\* lost when there is none or its mailbox is full.
Arrive(r, b) ==
  /\ body[r] = "unsent"
  /\ body' = [body EXCEPT ![r] = b]
  /\ \/ /\ bound /\ Len(mailbox) < MailboxLen
        /\ mailbox' = Append(mailbox, r)
        /\ Settle(r, "pending")
     \/ /\ ~bound \/ Len(mailbox) >= MailboxLen
        /\ Settle(r, "missed")
        /\ UNCHANGED mailbox
  /\ UNCHANGED <<owner, bound, udpVars, queue, discVars>>

\* The HTTP server accepts a connection, and closes one.
HttpOpen ==
  /\ Cardinality(HttpFds) < HttpSockets
  /\ \E fd \in Fds : LowestFree(fd) /\ Seize(fd, "http")
  /\ UNCHANGED <<bound, mailbox, udpVars, queue, discVars, body, fate>>

HttpClose ==
  /\ \E fd \in HttpFds : Seize(fd, "free")
  /\ UNCHANGED <<bound, mailbox, udpVars, queue, discVars, body, fate>>

-----------------------------------------------------------------------------
(* udp_server_task                                                         *)

\* socket(): without a descriptor, or without memory for the socket, the task
\* leaves its loop and deletes itself.
UdpSocket ==
  /\ upc = "socket"
  /\ \/ /\ TRUE \in SocketResults
        /\ \E fd \in Fds : LowestFree(fd) /\ Seize(fd, "udp") /\ sock' = fd
        /\ upc' = "bind"
     \/ /\ NoneFree \/ FALSE \in SocketResults
        /\ upc' = "dead"
        /\ UNCHANGED <<owner, sock>>
  /\ UNCHANGED <<bound, mailbox, rx, queue, discVars, body, fate>>

\* A bind that fails is logged and the task goes on with the unbound socket.
UdpBind ==
  /\ upc = "bind"
  /\ bound' \in BindResults
  /\ upc' = "recv"
  /\ UNCHANGED <<owner, mailbox, sock, rx, queue, discVars, body, fate>>

UdpRecv ==
  /\ upc = "recv"
  /\ mailbox # <<>>
  /\ rx' = Head(mailbox)
  /\ mailbox' = Tail(mailbox)
  /\ upc' = "enqueue"
  /\ UNCHANGED <<owner, bound, sock, queue, discVars, body, fate>>

\* Wrong on purpose: without SO_RCVTIMEO recvfrom waits for the next datagram.
UdpWaitsForData == UdpRecv

\* SO_RCVTIMEO: recvfrom returns -1 when nothing came within 10 ms.
UdpTimeout ==
  /\ upc = "recv"
  /\ mailbox = <<>>
  /\ upc' = "close"
  /\ UNCHANGED <<owner, bound, mailbox, sock, rx, queue, discVars, body, fate>>

\* Wrong on purpose: the result of a queue without a bound.
UdpEnqueueUnbounded ==
  /\ upc = "enqueue"
  /\ queue' = Append(queue, [from |-> rx, sock |-> sock])
  /\ rx' = None
  /\ upc' = "delay"
  /\ UNCHANGED <<owner, bound, mailbox, sock, discVars, body, fate>>

\* xQueueSend: the message records the number of the socket it came through.
UdpEnqueue ==
  /\ upc = "enqueue"
  /\ Len(queue) < QueueLen
  /\ queue' = Append(queue, [from |-> rx, sock |-> sock])
  /\ rx' = None
  /\ upc' = "delay"
  /\ UNCHANGED <<owner, bound, mailbox, sock, discVars, body, fate>>

\* Wrong on purpose: xQueueSend waits for room as long as it takes.
UdpWaitsForRoom == UdpEnqueue

\* xQueueSend gives up after 10 ms on a full queue: logged, datagram dropped.
UdpQueueFull ==
  /\ upc = "enqueue"
  /\ Len(queue) >= QueueLen
  /\ Settle(rx, "discarded")
  /\ rx' = None
  /\ upc' = "delay"
  /\ UNCHANGED <<owner, bound, mailbox, sock, queue, discVars, body>>

\* Wrong on purpose: no pause after a datagram.
UdpNoDelay ==
  /\ upc = "delay"
  /\ upc' = "recv"
  /\ UNCHANGED <<owner, bound, mailbox, sock, rx, queue, discVars, body, fate>>

\* vTaskDelay(100 ms) ends.  PromptReplies says that is long enough for
\* discovery_task to have handled what was queued.
UdpDelayDone ==
  /\ upc = "delay"
  /\ PromptReplies => (queue = <<>> /\ dpc = "recv")
  /\ upc' = "recv"
  /\ UNCHANGED <<owner, bound, mailbox, sock, rx, queue, discVars, body, fate>>

\* Wrong on purpose: shutdown without close keeps the descriptor.
UdpCloseLeaks ==
  /\ upc = "close"
  /\ bound' = FALSE
  /\ fate' = [r \in Requests |-> IF InMailbox(r) THEN "missed" ELSE fate[r]]
  /\ mailbox' = <<>>
  /\ sock' = -1
  /\ upc' = "socket"
  /\ UNCHANGED <<owner, rx, queue, discVars, body>>

\* shutdown and close: what the socket still held is lost.
UdpClose ==
  /\ upc = "close"
  /\ Seize(sock, "free")
  /\ bound' = FALSE
  /\ fate' = [r \in Requests |->
                IF InMailbox(r) THEN "missed" ELSE fate[r]]
  /\ mailbox' = <<>>
  /\ sock' = -1
  /\ upc' = "socket"
  /\ UNCHANGED <<rx, queue, discVars, body>>

-----------------------------------------------------------------------------
(* discovery_task                                                          *)

\* Wrong on purpose: the message is looked at but stays in the queue.
DiscPeek ==
  /\ dpc = "recv"
  /\ queue # <<>>
  /\ msg' = Head(queue)
  /\ \/ /\ Matches(body[Head(queue).from])
        /\ dpc' = "send"
        /\ UNCHANGED fate
     \/ /\ ~Matches(body[Head(queue).from])
        /\ Settle(Head(queue).from, "ignored")
        /\ UNCHANGED dpc
  /\ UNCHANGED <<owner, bound, mailbox, udpVars, queue, body>>

\* Wrong on purpose: every message is answered, whatever it says.
DiscRecvUnchecked ==
  /\ dpc = "recv"
  /\ queue # <<>>
  /\ msg' = Head(queue)
  /\ queue' = Tail(queue)
  /\ dpc' = "send"
  /\ UNCHANGED <<owner, bound, mailbox, udpVars, body, fate>>

DiscRecv ==
  /\ dpc = "recv"
  /\ queue # <<>>
  /\ msg' = Head(queue)
  /\ queue' = Tail(queue)
  /\ \/ /\ Matches(body[Head(queue).from])
        /\ dpc' = "send"
        /\ UNCHANGED fate
     \/ /\ ~Matches(body[Head(queue).from])
        /\ Settle(Head(queue).from, "ignored")
        /\ UNCHANGED dpc
  /\ UNCHANGED <<owner, bound, mailbox, udpVars, body>>

\* What sendto(_sock, ...) comes to now: EBADF on a descriptor that was closed,
\* bytes in the stream of whoever holds it if that is an HTTP connection, and
\* through a UDP socket a reply or a local failure.
SendOutcomes(fd) ==
  CASE owner[fd] = "free" -> {"sendFailed"}
    [] owner[fd] = "http" -> {"misdirected"}
    [] OTHER              -> {"answered", "sendFailed"}

\* Wrong on purpose: a failed sendto ends discovery_task.
DiscSendOrQuit ==
  /\ dpc = "send"
  /\ \E how \in SendOutcomes(msg.sock) :
       /\ Settle(msg.from, how)
       /\ dpc' = IF how = "sendFailed" THEN "dead" ELSE "recv"
  /\ UNCHANGED <<owner, bound, mailbox, udpVars, queue, msg, body>>

\* udp_server_send; discovery_task ignores its result.
DiscSend ==
  /\ dpc = "send"
  /\ \E how \in SendOutcomes(msg.sock) : Settle(msg.from, how)
  /\ dpc' = "recv"
  /\ UNCHANGED <<owner, bound, mailbox, udpVars, queue, msg, body>>

-----------------------------------------------------------------------------
UdpTask ==
  \/ UdpSocket \/ UdpBind \/ UdpRecv \/ UdpTimeout \/ UdpEnqueue
  \/ UdpQueueFull \/ UdpDelayDone \/ UdpClose

DiscoveryTask == DiscRecv \/ DiscSend

Environment ==
  \/ \E r \in Requests, b \in Bodies : Arrive(r, b)
  \/ HttpOpen
  \/ HttpClose

Startup == StartUdp \/ StartDiscovery \/ CrashAtStart

Next == Startup \/ UdpTask \/ DiscoveryTask \/ Environment

\* The scheduler runs app_main and both tasks; nothing is promised of the
\* environment.
Fairness == WF_vars(Startup) /\ WF_vars(UdpTask) /\ WF_vars(DiscoveryTask)

Spec == Init /\ [][Next]_vars
FairSpec == Spec /\ Fairness

-----------------------------------------------------------------------------
(* Properties                                                              *)

\* Every variable stays within its type: in particular the queue never holds
\* more than xQueueCreate gave it, nor the mailbox more than lwIP keeps.
TypeOK ==
  /\ owner \in [Fds -> {"free", "udp", "http"}]
  /\ bound \in BOOLEAN
  /\ mailbox \in Seq(Requests) /\ Len(mailbox) <= MailboxLen
  /\ upc \in {"unborn", "failed", "socket", "bind", "recv", "enqueue", "delay", "close", "dead"}
  /\ sock \in Fds \cup {-1}
  /\ rx \in Requests \cup {None}
  /\ queue \in Seq(Messages) /\ Len(queue) <= QueueLen
  /\ dpc \in {"unborn", "failed", "recv", "send"}
  /\ msg \in Messages \cup {NoMsg}
  /\ body \in [Requests -> Bodies \cup {"unsent"}]
  /\ fate \in [Requests -> Fates]

\* Opening and closing a socket over and over never leaks a descriptor and
\* never gives away one in use: the UDP descriptors are exactly the one
\* udp_server_task holds, and the port is bound only while it holds one.
SocketOwnership ==
  /\ \A fd \in Fds : owner[fd] = "udp" <=> fd = sock
  /\ (sock = -1) <=> upc \in {"unborn", "failed", "socket", "dead"}
  /\ bound => upc \notin {"unborn", "failed", "socket", "bind", "dead"}

\* No datagram is lost track of or handled twice on its way from the mailbox
\* to the reply: a pending one is in exactly one place, a settled one in none.
Conservation ==
  /\ \A r \in Requests :
       fate[r] = "pending" <=> InMailbox(r) \/ rx = r \/ InQueue(r) \/ InMsg(r)
  /\ \A i, j \in DOMAIN mailbox : mailbox[i] = mailbox[j] => i = j
  /\ \A i, j \in DOMAIN queue : queue[i].from = queue[j].from => i = j
  /\ \A r \in Requests :
       /\ InMailbox(r) => rx # r /\ ~InQueue(r) /\ ~InMsg(r)
       /\ InQueue(r) => rx # r /\ ~InMsg(r)
       /\ InMsg(r) => rx # r

\* A reply leaves through the socket its request came by, although the message
\* only carries a number and udp_server_task closes and reopens its socket.
RepliesUseOwnSocket == dpc = "send" => msg.sock = sock /\ owner[msg.sock] = "udp"

\* The 100 ms pause keeps the queue from filling up: nothing is dropped there.
NothingDiscarded == \A r \in Requests : fate[r] # "discarded"

\* Whenever udp_server_task opens its next socket there is a descriptor left for
\* it, however often it closed and opened one, whatever failed on the way and
\* whatever the HTTP server and its clients do: socket() can only fail, and end
\* the task, for lack of memory.
SocketFindsDescriptor == upc = "socket" => ~NoneFree

\* The responder listens again and again.
KeepsListening == []<>bound

\* "Shutting down socket and restarting..." (udp_server.c:117): a responder that
\* listened once does so again and again, each close being followed by a restart.
RestartsAfterClose == <>bound => []<>bound

\* Only the data "alpacadiscovery1" gets a response (discovery.c:37).
OnlyExactAnswered == \A r \in Requests : fate[r] = "answered" => body[r] = "exact"

\* With both tasks scheduled, every datagram that was accepted is settled.
EveryDatagramSettles == \A r \in Requests : fate[r] = "pending" ~> fate[r] # "pending"

\* When app_main, udp_server_task and discovery_task have something to do.
StartupReady == upc = "unborn" \/ dpc = "unborn"
UdpReady ==
  /\ upc \notin {"unborn", "failed", "dead"}
  /\ upc = "delay" /\ PromptReplies => queue = <<>> /\ dpc = "recv"
DiscoveryReady == dpc = "send" \/ (dpc = "recv" /\ queue # <<>>)

\* Each of them can then take a step, whatever the other one and the HTTP server
\* do: a full queue, a descriptor that was closed or none to be had stop nobody.
TasksNeverWait ==
  /\ StartupReady => ENABLED <<Startup>>_vars
  /\ UdpReady => ENABLED <<UdpTask>>_vars
  /\ DiscoveryReady => ENABLED <<DiscoveryTask>>_vars

-----------------------------------------------------------------------------
(* What the responder promises to those who ask: see DiscoveryService.     *)

outcome ==
  [r \in Requests |->
     CASE fate[r] \in {"missed", "discarded", "sendFailed"} -> "lost"
       [] OTHER -> fate[r]]

Service == INSTANCE DiscoveryService WITH outcome <- outcome, body <- body

\* Both tasks together are a discovery service: every datagram is settled once
\* and for good, and only one that strncmp accepts is answered.
IsDiscoveryService == Service!Spec
=============================================================================
