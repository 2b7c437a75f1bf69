------------------------------ MODULE DgramSink ------------------------------
(***************************************************************************)
(* UnixDgramSink and SyslogDgramSink: GreaseLib_addSink(), the listener    *)
(* thread and stop().  The thread waits on its socket and on a pipe, but   *)
(* it waits on the end that stop() should write to and stop() writes to    *)
(* the end that is read: the pipe never wakes it (see Stop).               *)
(***************************************************************************)
EXTENDS LogSocket

CONSTANTS SinkKinds,   \* the kinds of sink: "unix", "syslog"
          MaxStarts,   \* bound: starts of the logger process
          MayStop      \* whether stop() is ever called

ASSUME DgramSinkAssumption ==
    /\ SinkKinds \subseteq {"unix", "syslog"}
    /\ MaxStarts \in Nat /\ MayStop \in BOOLEAN

VARIABLES sinkKind,    \* the class of the sink
          listener,    \* "off", "test" (the loop's condition), "select", "ended"
          stopThread,  \* stop_thread
          starts,      \* starts of the logger process so far
          handed,      \* what the sinks gave to logP() to log
          lateReads    \* datagrams read since stop_thread was set

sinkVars == <<sinkKind, listener, stopThread, starts, handed, lateReads>>

InitSink ==
    /\ sinkKind \in SinkKinds
    /\ listener = "off" /\ stopThread = FALSE /\ starts = 0
    /\ handed = <<>> /\ lateReads = 0

\* bind() makes the socket and binds it to the path; either may fail.
Bind == sinkKind = "unix" /\ bound' \in BOOLEAN
BindSyslog == sinkKind = "syslog" /\ bound' \in BOOLEAN

\* The listener enters its loop only if bind() succeeded.
StartUnix == sinkKind = "unix" /\ listener' = IF bound' THEN "test" ELSE "ended"
StartSyslog == sinkKind = "syslog" /\ listener' = IF bound' THEN "test" ELSE "ended"

\* bind() and start(); addSink() starts the thread whether bind() succeeds or not.
AddSink ==
    /\ listener = "off" /\ starts < MaxStarts
    /\ starts' = starts + 1
    /\ Bind \/ BindSyslog
    /\ StartUnix \/ StartSyslog
    /\ UNCHANGED <<queue, boxes, acks, sinkKind, stopThread, handed, lateReads>>

\* Mutant: the loop does not look at the flag.
TestNothing ==
    /\ listener = "test" /\ listener' = "select"
    /\ UNCHANGED <<socketVars, sinkKind, stopThread, starts, handed, lateReads>>

TestStop ==
    /\ listener = "test"
    /\ listener' = IF stopThread THEN "ended" ELSE "select"
    /\ UNCHANGED <<socketVars, sinkKind, stopThread, starts, handed, lateReads>>

(***************************************************************************)
(* A datagram of a syslog() caller: what the regular expression captures,  *)
(* or a text it does not match.  Levels and tags are abstracted to the     *)
(* priority and to the place in the table they come from.                  *)
(***************************************************************************)
SyslogLine(match, fac, pri, s) == <<[match |-> match, fac |-> fac, pri |-> pri]>> \o s

\* The table has 22 tags but the bound is its size in bytes: a facility from 22
\* on (local6, local7) gets what lies behind the table.
TableEntries == 22
Undefined == -1
SyslogTag(fac) == IF fac < TableEntries THEN fac ELSE Undefined

Entry(s, level, tag) == [text |-> s, level |-> level, tag |-> tag]

\* What one datagram makes the sink hand to logP().
\* A line that does not match is passed with the size of the receive buffer,
\* which is more than GREASE_MAX_MESSAGE_SIZE, and logP() refuses it.
UnixEntries(d) ==
    LET does == ParseDatagram(d.cells)
        texts == [i \in DOMAIN does |-> LogFromRaw(does[i].raw)]
        toLog == SelectSeq(texts, LAMBDA s : s # <<>>)
    IN [i \in DOMAIN toLog |-> Entry(toLog[i], 0, 0)]
SyslogEntries(d) ==
    LET cap == Head(d.cells)
    IN IF cap.match
       THEN <<Entry(Tail(d.cells), cap.pri, SyslogTag(cap.fac))>>
       ELSE <<>>

Pings(d) == {i \in DOMAIN ParseDatagram(d.cells) : ParseDatagram(d.cells)[i] = Ack}

\* Mutant: a datagram that answers or logs nothing ends the thread.
ListenStrict ==
    /\ listener = "select" /\ queue # <<>> /\ sinkKind = "unix"
    /\ queue' = Tail(queue)
    /\ handed' = handed \o UnixEntries(Head(queue))
    /\ acks' = IF Pings(Head(queue)) # {} THEN Reply(Head(queue)) ELSE acks
    /\ listener' = IF handed' = handed /\ acks' = acks THEN "ended" ELSE "test"
    /\ lateReads' = IF stopThread THEN lateReads + 1 ELSE lateReads
    /\ UNCHANGED <<bound, boxes, sinkKind, stopThread, starts>>

\* select() returns, recvmsg() takes one datagram, and all of it is handled.
Listen ==
    /\ listener = "select" /\ queue # <<>>
    /\ queue' = Tail(queue)
    /\ LET d == Head(queue) IN
         \/ /\ sinkKind = "unix"
            /\ handed' = handed \o UnixEntries(d)
            /\ acks' = IF Pings(d) # {} THEN Reply(d) ELSE acks
         \/ /\ sinkKind = "syslog"
            /\ handed' = handed \o SyslogEntries(d)
            /\ UNCHANGED acks
    /\ lateReads' = IF stopThread THEN lateReads + 1 ELSE lateReads
    /\ listener' = "test"
    /\ UNCHANGED <<bound, boxes, sinkKind, stopThread, starts>>

\* stop() sets the flag; its write() to the reading end of the pipe fails, and a
\* thread in select() stays there until the next datagram.
Stop ==
    /\ MayStop /\ ~stopThread /\ listener # "off"
    /\ stopThread' = TRUE
    /\ UNCHANGED <<socketVars, sinkKind, listener, starts, handed, lateReads>>

\* The logger process ends; its socket goes with what is in it, the path stays.
LoggerDies ==
    /\ listener # "off"
    /\ bound' = FALSE /\ queue' = <<>> /\ listener' = "off" /\ stopThread' = FALSE
    /\ lateReads' = 0
    /\ UNCHANGED <<boxes, acks, sinkKind, starts, handed>>

SinkNext == AddSink \/ TestStop \/ Listen \/ Stop \/ LoggerDies
=============================================================================
