------------------------------ MODULE ClientSink ------------------------------
(***************************************************************************)
(* The client library and a datagram sink of the logger, composed over     *)
(* their socket, beside other programs that write to it: users of          *)
(* _grease_logToRaw(), programs that put two entries into a datagram, and, *)
(* for a syslog sink, callers of syslog().                                 *)
(***************************************************************************)
EXTENDS Client, DgramSink, SequencesExt

CONSTANTS RawUsers,    \* users of _grease_logToRaw() with a socket of their own
          Batchers,    \* programs that send two entries at a time
          SyslogUsers, \* callers of syslog()
          Facilities, Priorities

VARIABLE others        \* others[u]: messages of the other program u

vars == <<clientVars, sinkVars, others>>

Others == RawUsers \cup Batchers \cup SyslogUsers

Init == InitSocket /\ InitClient /\ InitSink /\ others = [u \in Others |-> 0]

OthersSend(u, k, d) ==
    /\ others[u] < MaxMsgs
    /\ Deliver(d)
    /\ others' = [others EXCEPT ![u] = @ + k]
    /\ UNCHANGED <<boxes, acks, moduleLoaded, initVars, printVars, pc, sinkVars>>

\* A program sends what _grease_logToRaw() says is to be sent.
SendRaw(u) ==
    /\ sinkKind = "unix"
    /\ OthersSend(u, 1, Datagram(LogToRaw(Text(u, others[u] + 1, MaxLen)), <<>>))

\* Two entries in one datagram, which the loop of the listener takes apart.
SendTwo(u) ==
    /\ sinkKind = "unix"
    /\ LET s == Text(u, others[u] + 1, 1)
           r == Text(u, others[u] + 2, MaxLen)
       IN OthersSend(u, 2, Datagram(LogToSink(s) \o LogToSink(r), <<MsgOf(s), MsgOf(r)>>))

\* A line of syslog(), or one that the regular expression does not match.
Syslog(u) ==
    /\ sinkKind = "syslog"
    /\ LET s == Text(u, others[u] + 1, 1) IN
         \/ \E fac \in Facilities, pri \in Priorities :
              OthersSend(u, 1, Datagram(SyslogLine(TRUE, fac, pri, s), <<MsgOf(s)>>))
         \/ OthersSend(u, 0, Datagram(SyslogLine(FALSE, 0, 0, s), <<>>))

ClientStep(t) == ThreadStep(t) /\ UNCHANGED <<sinkVars, others>>
ClientCall(t) == sinkKind = "unix" /\ ThreadCall(t) /\ UNCHANGED <<sinkVars, others>>
SinkStep == (TestStop \/ Listen) /\ UNCHANGED <<moduleLoaded, initVars, printVars, pc, others>>
LoggerCall == (AddSink \/ Stop \/ LoggerDies)
              /\ UNCHANGED <<moduleLoaded, initVars, printVars, pc, others>>

Next ==
    \/ \E t \in Threads : ClientStep(t) \/ ClientCall(t)
    \/ SinkStep \/ LoggerCall
    \/ \E u \in RawUsers : SendRaw(u)
    \/ \E u \in Batchers : SendTwo(u)
    \/ \E u \in SyslogUsers : Syslog(u)

Spec == Init /\ [][Next]_vars

\* A thread inside a call goes on, and so does the listener: neither waits for
\* anything but the socket.  Nobody has to call anything.
FairSpec ==
    /\ Spec
    /\ \A t \in Threads : WF_vars(ClientStep(t))
    /\ WF_vars(SinkStep)

(***************************************************************************)
(* Properties                                                              *)
(***************************************************************************)

Labels == {"idle", "clear", "fastClear", "search", "fastSearch", "searched",
           "fastSearched", "setup", "fastSetup", "ping", "pingWait", "closeAgain",
           "check", "call", "local", "sendmsg"}

\* Types, and the bounds of the socket's queue and of the error counters.
TypeOK ==
    /\ bound \in BOOLEAN /\ Len(queue) <= QueueCap
    /\ greaseLog \in {"null", "sink", "local"} /\ foundModule \in {-1, 0, 1}
    /\ pc \in [Threads -> Labels]
    /\ sinkFd \in [Threads -> {"unset", "open", "failed", "closed"}]
    /\ myTid \in [Threads -> BOOLEAN] /\ addrSet \in [Threads -> BOOLEAN]
    /\ errCnt \in [Threads -> Nat]
    /\ listener \in {"off", "test", "select", "ended"} /\ stopThread \in BOOLEAN
    /\ boxes \subseteq {ping[t].addr : t \in Threads} \ {0}

Writers == Threads \cup Batchers \cup SyslogUsers

\* An entry as a message of its writer, if it was handed over as it was written.
Whole(e) == /\ Len(e.text) = e.text[1].of
            /\ \A i \in DOMAIN e.text : e.text[i].at = i /\ MsgOf(<<e.text[i]>>) = MsgOf(e.text)
HandedMsg(e) == IF Whole(e) THEN MsgOf(e.text) ELSE [by |-> e.text[1].by, n |-> 0]
HandedBy(w) ==
    LET es == SelectSeq(handed, LAMBDA e : e.text[1].by = w)
    IN [i \in DOMAIN es |-> HandedMsg(es[i])]
Waiting(w) ==
    LET all == FoldLeft(LAMBDA ms, d : ms \o d.msgs, <<>>, queue)
    IN SelectSeq(all, LAMBDA m : m.by = w)

Channel == INSTANCE LogChannel WITH
    count <- [w \in Writers |-> IF w \in Threads THEN count[w] ELSE others[w]],
    pending <- [w \in Writers |-> Waiting(w)],
    taken <- [w \in Writers |-> HandedBy(w)],
    kept <- printed \cup viaLocal,
    up <- bound

\* Client, socket and sink together are a LogChannel: whatever the threads of the
\* program set up or take down, each message is sent or kept, and the parser of
\* the sink hands over every message that was sent, whole, once and in order of
\* its writer, unless the logger ends while the message waits.  The messages are
\* those of the client library, of programs that send two entries at a time and of
\* the lines of syslog() that the regular expression matches; other lines, what
\* _grease_logToRaw() makes, and datagrams too short or of no known kind are read
\* and are nobody's messages here.
IsLogChannel == Channel!Spec

\* The answer a thread waiting in ping_sink() finds is the answer to this ping,
\* never a late one to a ping that had timed out.
AckIsForThisPing ==
    /\ TypeOK
    /\ \A t \in Threads : \A a \in AnswersTo(t) : a.serial = ping[t].serial

\* Every call of the client library returns: a full socket is emptied by the
\* listener, a dead logger refuses, a ping times out.  Except when the program
\* called a NULL grease_log, or the listener was stopped and its socket stays.
CallsReturn ==
    \A t \in Threads : pc[t] # "idle" ~> (pc[t] = "idle" \/ crashed \/ stopThread)

\* What was sent is read, unless the logger ends or its listener is stopped; of the
\* same messages as above.
SentIsRead == \A w \in Writers : Waiting(w) # <<>> ~> (Waiting(w) = <<>> \/ stopThread)

\* After stop() the listener reads at most one datagram more.
StopIsPrompt == lateReads <= 1
=============================================================================
