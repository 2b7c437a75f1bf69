------------------------------- MODULE KlogSink -------------------------------
(***************************************************************************)
(* KernelProcKmsgSink ("proc") and KernelProcKmsg2Sink ("dev"): a listener *)
(* thread that reads the kernel's log, takes entries from the logger's     *)
(* pool, fills them by parsing and submits them.  The pool and the command *)
(* queue are those of Intake, seen from one producer.                      *)
(***************************************************************************)
EXTENDS KlogParse, FiniteSets

CONSTANTS Kinds,         \* kinds of sink: "proc", "dev"
          Lines,         \* the lines the kernel may log: a level and a kind of body
          NumEntries,    \* entries of the pool
          QueueCap,      \* entries internalCmdQueue has room for
          RingCap,       \* lines the kernel's ring buffer holds
          MaxLines       \* bound: lines the kernel logs

ASSUME KlogSinkAssumption ==
    /\ Kinds \subseteq {"proc", "dev"} /\ NumEntries \in Nat \ {0}
    /\ QueueCap \in Nat \ {0} /\ RingCap \in Nat \ {0} /\ MaxLines \in 0..4

VARIABLES kind,          \* the class of the sink
          klog,          \* all lines the kernel has logged
          pos,           \* the lines before the sink's place in the log
          buf, at,       \* what was read, and how much of it is parsed
          batch,         \* the lines of the last read
          pc,            \* where the listener is
          stopThread,    \* stop_thread
          entry,         \* the entry the listener holds, if any
          avail,         \* masterBufferAvail
          queue,         \* internalCmdQueue
          handed,        \* what the logger thread took from it
          starved        \* an entry was not to be had, or not to be queued

kernelVars == <<kind, klog>>
poolVars == <<avail, queue, handed>>
vars == <<kernelVars, pos, buf, at, batch, pc, stopThread, entry, poolVars, starved>>

NoEntry == 0

Init ==
    /\ kind \in Kinds
    /\ klog = <<>> /\ pos = 0 /\ buf = <<>> /\ at = 0 /\ batch = {}
    /\ pc = "off" /\ stopThread = FALSE /\ entry = NoEntry
    /\ avail = [i \in 1..NumEntries |-> i] /\ queue = <<>> /\ handed = <<>> /\ starved = FALSE

(***************************************************************************)
(* The kernel.  A line has a level, a time and a body; the body may be     *)
(* empty, and then even the space before it may be missing.                *)
(***************************************************************************)
Letters == <<"A", "B", "C", "D">>
Body(n, b) ==
    CASE b = "short" -> <<" ", Letters[n]>>
      [] b = "long" -> <<" ", Letters[n], "]", "<">>
      [] b = "empty" -> <<" ">>
      [] b = "bare" -> <<>>

ProcText(line) == <<"<">> \o line.level \o <<">", "[", "5", ".", "2", "]">> \o line.body \o <<"\n">>
DevText(line) == line.level \o <<",", "5", ",", "2", ",", "-", ";">>
                 \o (IF line.body = <<>> THEN <<>> ELSE Tail(line.body)) \o <<"\n">>

Printk ==
    /\ Len(klog) < MaxLines
    /\ \E line \in Lines :
          klog' = Append(klog, [level |-> line.level, body |-> Body(Len(klog) + 1, line.body)])
    /\ UNCHANGED <<kind, pos, buf, at, batch, pc, stopThread, entry, poolVars, starved>>

\* The first line at or after the sink's place that the ring still holds.
Oldest == IF Len(klog) - pos > RingCap THEN Len(klog) - RingCap ELSE pos

(***************************************************************************)
(* The pool and the queue.                                                 *)
(***************************************************************************)
\* Mutant: an entry without room in the queue is not given back.
SubmitDrops(r) ==
    /\ entry' = NoEntry
    /\ queue' = IF r.text # <<>> /\ Len(queue) < QueueCap
                THEN Append(queue, [entry |-> entry, level |-> r.level, text |-> r.text]) ELSE queue
    /\ UNCHANGED <<avail, starved, handed>>

\* _submitBuffer(): an empty entry is given back, and so is one without room.
Submit(r) ==
    /\ entry' = NoEntry
    /\ IF r.text # <<>> /\ Len(queue) < QueueCap
       THEN /\ queue' = Append(queue, [entry |-> entry, level |-> r.level, text |-> r.text])
            /\ UNCHANGED <<avail, starved>>
       ELSE /\ avail' = Append(avail, entry) /\ UNCHANGED queue
            /\ starved' = (starved \/ r.text # <<>>)
    /\ UNCHANGED handed

ReturnEntry ==
    /\ avail' = Append(avail, entry) /\ entry' = NoEntry
    /\ UNCHANGED <<queue, handed, starved>>

\* _grabInLogBuffer(), and where the listener goes without an entry.
Grab(with, without) ==
    /\ pc = "grab"
    /\ IF avail = <<>>
       THEN starved' = TRUE /\ pc' = without /\ UNCHANGED <<avail, entry>>
       ELSE /\ entry' = Head(avail) /\ avail' = Tail(avail) /\ pc' = with
            /\ UNCHANGED starved
    /\ UNCHANGED <<kernelVars, pos, buf, at, batch, stopThread, queue, handed>>

\* The logger thread handles an entry and gives it back.
LoggerTakes ==
    /\ queue # <<>>
    /\ handed' = Append(handed, [level |-> Head(queue).level, text |-> Head(queue).text])
    /\ avail' = Append(avail, Head(queue).entry)
    /\ queue' = Tail(queue)
    /\ UNCHANGED <<kernelVars, pos, buf, at, batch, pc, stopThread, entry, starved>>

(***************************************************************************)
(* start() and stop().  Without klogctl(), or without /dev/kmsg, the thread *)
(* ends.  The wake-up pipe is used from its wrong ends and wakes nobody.   *)
(***************************************************************************)
StartProc == kind = "proc" /\ pc' \in {"select", "ended"} /\ UNCHANGED pos
\* open_kmsg() goes to the end of the log.
StartDev ==
    /\ kind = "dev"
    /\ \/ pc' = "seek" /\ pos' = Len(klog)
       \/ pc' = "ended" /\ UNCHANGED pos
Start ==
    /\ pc = "off"
    /\ StartProc \/ StartDev
    /\ UNCHANGED <<kernelVars, buf, at, batch, stopThread, entry, poolVars, starved>>

Stop ==
    /\ pc # "off" /\ ~stopThread
    /\ stopThread' = TRUE
    /\ UNCHANGED <<kernelVars, pos, buf, at, batch, pc, entry, poolVars, starved>>

\* Mutant: a polling sink looks at the flag only when it has something to read.
TestStopWhenBusy ==
    /\ pc = "test"
    /\ pc' = CASE stopThread /\ Oldest < Len(klog) -> "ended"
               [] kind = "proc" -> "select"
               [] OTHER -> "seek"
    /\ UNCHANGED <<kernelVars, pos, buf, at, batch, stopThread, entry, poolVars, starved>>

\* The end of a turn.
TestStop ==
    /\ pc = "test"
    /\ pc' = CASE stopThread -> "ended"
               [] ~stopThread /\ kind = "proc" -> "select"
               [] OTHER -> "seek"
    /\ UNCHANGED <<kernelVars, pos, buf, at, batch, stopThread, entry, poolVars, starved>>

(***************************************************************************)
(* KernelProcKmsgSink                                                      *)
(***************************************************************************)
\* select() only times out.
ProcTimeout ==
    /\ kind = "proc" /\ pc = "select"
    /\ pc' = "unread"
    /\ UNCHANGED <<kernelVars, pos, buf, at, batch, stopThread, entry, poolVars, starved>>

\* All unread lines are read at once, and a NUL is put behind them.
ProcRead ==
    /\ kind = "proc" /\ pc = "unread"
    /\ \/ /\ Oldest = Len(klog) /\ pc' = "test"
          /\ UNCHANGED <<pos, buf, at, batch, starved>>
       \/ /\ Oldest < Len(klog) /\ pc' = "grab"
          /\ buf' = FoldLeft(LAMBDA b, l : b \o ProcText(l), <<>>,
                             SubSeq(klog, Oldest + 1, Len(klog))) \o <<"NUL">>
          /\ batch' = Oldest + 1 .. Len(klog)
          /\ pos' = Len(klog) /\ at' = 0 /\ starved' = FALSE
    /\ UNCHANGED <<kernelVars, stopThread, entry, poolVars>>

ProcGrab == kind = "proc" /\ Grab("parse", "unread")

\* A line that is not understood ends the work on this read.
ProcParse ==
    /\ kind = "proc" /\ pc = "parse"
    /\ LET r == ParseKlog(buf, at) IN
         \/ r.ok /\ Submit(r) /\ pc' = "grab" /\ at' = r.moved
         \/ ~r.ok /\ ReturnEntry /\ pc' = "unread" /\ UNCHANGED at
    /\ UNCHANGED <<kernelVars, pos, buf, batch, stopThread>>

(***************************************************************************)
(* KernelProcKmsg2Sink                                                     *)
(***************************************************************************)
\* lseek(SEEK_END) at the top of a turn.
DevSeek ==
    /\ kind = "dev" /\ pc = "seek"
    /\ pos' = Len(klog) /\ pc' = "select"
    /\ UNCHANGED <<kernelVars, buf, at, batch, stopThread, entry, poolVars, starved>>

\* select() returns when there is a line behind the place.
DevReadable ==
    /\ kind = "dev" /\ pc = "select" /\ pos < Len(klog)
    /\ pc' = "grab" /\ starved' = FALSE /\ batch' = {}
    /\ UNCHANGED <<kernelVars, pos, buf, at, stopThread, entry, poolVars>>

\* Without an entry the thread ends.
DevGrab == kind = "dev" /\ Grab("read", "ended")

\* read() fails when the line was overwritten.  A line that is not understood
\* ends the thread; if it was only incomplete, the entry is not given back.
DevRead ==
    /\ kind = "dev" /\ pc = "read"
    /\ IF Oldest > pos
       THEN /\ ReturnEntry /\ pc' = "test" /\ UNCHANGED <<buf, batch>>
       ELSE /\ buf' = DevText(klog[pos + 1]) /\ batch' = {pos + 1}
            /\ LET r == ParseDevklog(DevText(klog[pos + 1])) IN
                 \/ r.ok /\ Submit(r) /\ pc' = "test"
                 \/ /\ ~r.ok /\ pc' = "ended"
                    /\ IF r.state = "INVALID" THEN ReturnEntry
                       ELSE UNCHANGED <<poolVars, entry, starved>>
    /\ pos' = IF Oldest > pos THEN Oldest ELSE pos + 1
    /\ UNCHANGED <<kernelVars, at, stopThread>>

Listener ==
    \/ ProcTimeout \/ ProcRead \/ ProcGrab \/ ProcParse
    \/ DevSeek \/ DevReadable \/ DevGrab \/ DevRead
    \/ TestStop

Next == Printk \/ Start \/ Stop \/ Listener \/ LoggerTakes
Spec == Init /\ [][Next]_vars

\* The listener and the logger thread run; timeouts pass.
FairSpec == Spec /\ WF_vars(Listener) /\ WF_vars(LoggerTakes)

(***************************************************************************)
(* Properties                                                              *)
(***************************************************************************)

\* What the kernel's line says, without the parsers: its level and its body, up
\* to the size of an entry.
LevelOf(line) ==
    LET digits == line.level
        k == IF Len(digits) = 1 THEN Value(digits[1]) ELSE 10 * Value(digits[1]) + Value(digits[2])
    IN IF digits = <<"d">> \/ Len(digits) > 2 \/ k > 19 THEN DefaultLevel ELSE Level(k)
BodyOf(line) ==
    LET b == IF line.body = <<>> THEN <<>> ELSE Tail(line.body)
    IN IF Len(b) > BufLen THEN SubSeq(b, 1, BufLen) ELSE b
LinesOf(text) == {n \in 1..Len(klog) : Letters[n] = text[1]}
LineOf(text) == CHOOSE n \in LinesOf(text) : TRUE

\* A line the sink can read: klogctl() has one-digit levels (or d) and a space
\* before the body, /dev/kmsg one or two digits.
Readable(line) ==
    IF kind = "proc" THEN Len(line.level) = 1 /\ line.level # <<"c">> /\ line.body # <<>>
    ELSE Len(line.level) <= 2 /\ line.level # <<"c">>

AllHanded == handed \o [i \in DOMAIN queue |-> [level |-> queue[i].level, text |-> queue[i].text]]

\* Types, and each entry is in one place: in the pool, in the queue or with the
\* listener.  A listener that has ended keeps an entry for good only after a line
\* of /dev/kmsg that its parser did not finish.
EntriesAccounted ==
    /\ pos \in 0..Len(klog) /\ at \in 0..Len(buf) /\ stopThread \in BOOLEAN
    /\ pc \in {"off", "seek", "select", "unread", "grab", "read", "parse", "test", "ended"}
    /\ LET queued == {queue[i].entry : i \in DOMAIN queue}
           held == {entry} \ {NoEntry}
       IN /\ ToSet(avail) \cup queued \cup held = 1..NumEntries
          /\ Len(avail) + Len(queue) + Cardinality(held) = NumEntries
          /\ held # {} => pc \in {"parse", "read"}
                          \/ (pc = "ended" /\ \E n \in batch : ~Readable(klog[n]))

\* What reaches the logger are lines of the kernel, each at most once, in the
\* kernel's order, with their own level and body: no line runs into the next one
\* and none takes over the level of an earlier one.
LinesIntact ==
    /\ \A i \in DOMAIN AllHanded :
          \E n \in LinesOf(AllHanded[i].text) :
             AllHanded[i] = [level |-> LevelOf(klog[n]), text |-> BodyOf(klog[n])]
    /\ \A i, j \in DOMAIN AllHanded :
          i < j => LineOf(AllHanded[i].text) < LineOf(AllHanded[j].text)

\* Once a read is done with, a line of it that has a body was handed over, unless
\* an entry was missing or the read had a line before it, or it is one, that the
\* parser does not know.
LostOnlyBehindBadLine ==
    pc \in {"select", "test", "seek", "unread"} =>
        \A n \in batch :
            \/ BodyOf(klog[n]) = <<>>
            \/ \E i \in DOMAIN AllHanded : n \in LinesOf(AllHanded[i].text)
            \/ starved
            \/ \E m \in batch : m <= n /\ ~Readable(klog[m])

\* stop() ends the thread: of a "proc" sink by itself, since it polls; of a "dev"
\* sink if a line comes while it waits.
StopEnds ==
    (stopThread /\ (kind = "proc" \/ (pc = "select" /\ pos < Len(klog)))) ~> pc = "ended"
=============================================================================
