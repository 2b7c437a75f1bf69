------------------------------ MODULE LogSocket ------------------------------
(***************************************************************************)
(* The Unix datagram sockets between programs and a sink, as far as both   *)
(* sides use them: the socket bound at the sink's path with the datagrams  *)
(* it has not read, and the sockets of pings with the answers that reached *)
(* them.                                                                   *)
(***************************************************************************)
EXTENDS Framing

CONSTANT QueueCap      \* datagrams a socket keeps before its senders wait
ASSUME QueueCapAssumption == QueueCap \in Nat \ {0}

VARIABLES bound,       \* a sink's socket is bound at the path
          queue,       \* the datagrams it has not read
          boxes,       \* paths with a client's ping socket
          acks         \* answers in those sockets

socketVars == <<bound, queue, boxes, acks>>

InitSocket == bound = FALSE /\ queue = <<>> /\ boxes = {} /\ acks = {}

\* serial tells pings apart and msgs what was framed; no code looks at them.
Datagram(cells, msgs) == [cells |-> cells, msgs |-> msgs, replyTo |-> 0, serial |-> 0]
PingDatagram(path, serial) ==
    [cells |-> PING, msgs |-> <<>>, replyTo |-> path, serial |-> serial]

\* A datagram is refused when nothing is bound at the path (~bound), and its
\* sender waits while the queue is full.
Deliver(d) ==
    /\ bound /\ Len(queue) < QueueCap
    /\ queue' = Append(queue, d)
    /\ UNCHANGED bound

\* An answer to a path nobody has a socket at is an error of the sender.
Reply(d) ==
    IF d.replyTo \in boxes
    THEN acks \cup {[addr |-> d.replyTo, serial |-> d.serial]} ELSE acks

\* A string of n cells, each of which tells the message and its place in it.
Text(w, k, n) == [i \in 1..n |-> [by |-> w, n |-> k, at |-> i, of |-> n]]
MsgOf(s) == [by |-> s[1].by, n |-> s[1].n]
MsgsOf(s) == IF s = <<>> THEN <<>> ELSE <<MsgOf(s)>>
=============================================================================
