-------------------------- MODULE DiscoveryService --------------------------
(***************************************************************************)
(* What the discovery responder promises, without tasks, queue or sockets: *)
(* UDP may lose a datagram at any point, but one that is delivered is      *)
(* answered or ignored according to what it says, once.                    *)
(***************************************************************************)
CONSTANTS
  Requests,    \* the datagrams
  Bodies,      \* what they may say
  Matches(_)   \* the bodies that are answered

VARIABLES
  body,     \* what each datagram says, "unsent" before it is sent
  outcome   \* "unsent", "pending", then "answered", "ignored" or "lost"

vars == <<body, outcome>>

Init ==
  /\ body = [r \in Requests |-> "unsent"]
  /\ outcome = [r \in Requests |-> "unsent"]

\* A client sends a datagram.  It may be lost at once.
Send(r) ==
  /\ outcome[r] = "unsent"
  /\ \E b \in Bodies : body' = [body EXCEPT ![r] = b]
  /\ \E o \in {"pending", "lost"} : outcome' = [outcome EXCEPT ![r] = o]

\* How a datagram that says b may end.
Endings(b) == {"lost"} \cup (IF Matches(b) THEN {"answered"} ELSE {"ignored"})

\* Some pending datagrams come to their end: several at once when the socket
\* that held them is closed.
Finish ==
  /\ \E rs \in SUBSET {r \in Requests : outcome[r] = "pending"} :
       /\ rs # {}
       /\ \E e \in {"lost", "answered", "ignored"} :
            /\ \A r \in rs : e \in Endings(body[r])
            /\ outcome' = [r \in Requests |-> IF r \in rs THEN e ELSE outcome[r]]
  /\ UNCHANGED body

Next == Finish \/ \E r \in Requests : Send(r)

Spec == Init /\ [][Next]_vars
=============================================================================
