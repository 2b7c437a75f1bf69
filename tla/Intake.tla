-------------------------------- MODULE Intake --------------------------------
(***************************************************************************)
(* The way of a message from a producer to the targets: the pool of log    *)
(* entries (masterBufferAvail), the command queue (internalCmdQueue), the  *)
(* wake-up of the logger thread (asyncInternalCommand) and the command     *)
(* loop handleInternalCmd() of logger.cc.                                  *)
(*                                                                         *)
(* Callers are threads that log with GreaseLogger::_log(): users of the    *)
(* library and the socket sinks. Readers take an entry from the pool, read *)
(* into it and submit it: the kernel log sinks and the redirected file     *)
(* descriptors. One more thread, Exiting, runs the atexit() handler.       *)
(*                                                                         *)
(* A step is a stretch of code with one access to shared state: one queue  *)
(* operation, or one uv_async_send(). The targets appear by what they do   *)
(* to the queue: write() may post a command of its own.                    *)
(***************************************************************************)
EXTENDS Integers, Sequences, FiniteSets, Queues

CONSTANTS
  NumEntries,   \* PRIMARY_BUFFER_ENTRIES: entries in the pool
  QueueCap,     \* INTERNAL_QUEUE_SIZE
  NumTargets,   \* targets the filters select for every message
  Callers,      \* threads that call _log()
  Readers,      \* threads that grab an entry, read into it and submit it
  Sizes,        \* sizes offered, a subset of AllSizes
  MayShutdown,  \* TRUE: the process may begin to exit
  MaxMsgs       \* bound: messages of each producer

(* "small" fits a bank of a target; "large" fits a pool entry but no bank    *)
(* (bankSize < len + GREASE_MAX_PREFIX_HEADER); "huge" exceeds a pool entry  *)
(* (len > Opts.bufferSize).                                                  *)
AllSizes == {"small", "large", "huge"}
Entries == 1 .. NumEntries
Targets == 1 .. NumTargets
Exiting == "exiting"
Producers == Callers \cup Readers
Threads == Producers \cup {Exiting}
NoEntry == 0

ASSUME ConstantsAssumption ==
  /\ NumEntries \in Nat \ {0} /\ QueueCap \in Nat /\ NumTargets \in Nat /\ MaxMsgs \in Nat
  /\ Callers \cap Readers = {} /\ Exiting \notin Producers
  /\ Sizes \subseteq AllSizes /\ MayShutdown \in BOOLEAN

VARIABLES
  masterBufferAvail, \* free entries
  internalCmdQueue,  \* commands for the logger thread
  content,           \* the message in each entry
  asyncPending,      \* asyncInternalCommand was sent and not yet served
  closed,            \* asyncInternalCommand was closed
  pc, hold,          \* per thread: where it is, the entry it carries
  mine,              \* per thread: the message it is working on
  logger,            \* the command loop: "poll", "drain" or "write"
  cmd,               \* the command being handled
  target,            \* the next target to write to
  sent,              \* history: messages begun by each producer
  accepted,          \* history: messages that entered the queue
  written            \* history: messages handed to write() or writeOverflow() of each target

pool == <<masterBufferAvail, content>>
threads == <<pc, hold, mine, sent>>
loop == <<logger, cmd, target>>
vars == <<pool, internalCmdQueue, asyncPending, closed, threads, loop, accepted, written>>

(* Messages as producers log them, and as they reach write() or            *)
(* writeOverflow(): by is the target whose write() sent the message round   *)
(* again (the myId of its overflow command), 0 for none.                    *)
NoMsg == [from |-> "none", n |-> 0, size |-> "small", by |-> 0]
Logged == [from : Producers, n : 1 .. MaxMsgs, size : AllSizes, by : {0}]
Posted == [from : Producers, n : 1 .. MaxMsgs, size : {"small", "huge"}, by : {0}]
            \cup [from : Producers, n : 1 .. MaxMsgs, size : {"large"}, by : Targets]
Copy(m, t) == [m EXCEPT !.by = t]
Original(m) == [m EXCEPT !.by = 0]

(* internalCmdReq: the command, the entry it points to, the message in it. *)
Commands == [c : {"NEW_LOG"}, entry : Entries, m : Logged]
              \cup [c : {"WRITE_TARGET_OVERFLOW"}, entry : {NoEntry}, m : Posted]
              \cup [c : {"TARGET_ROTATE_BUFFER", "INTERNAL_SHUTDOWN"},
                    entry : {NoEntry}, m : {NoMsg}]
NewLog(e, m) == [c |-> "NEW_LOG", entry |-> e, m |-> m]
Overflow(m) == [c |-> "WRITE_TARGET_OVERFLOW", entry |-> NoEntry, m |-> m]
RotateBuffer == [c |-> "TARGET_ROTATE_BUFFER", entry |-> NoEntry, m |-> NoMsg]
Noop == [c |-> "INTERNALNOOP", entry |-> NoEntry, m |-> NoMsg]
Shutdown == [c |-> "INTERNAL_SHUTDOWN", entry |-> NoEntry, m |-> NoMsg]

(* The constructor fills the pool. *)
Init ==
  /\ masterBufferAvail = [i \in Entries |-> i]
  /\ content = [e \in Entries |-> NoMsg]
  /\ internalCmdQueue = <<>> /\ asyncPending = FALSE /\ closed = FALSE
  /\ pc = [p \in Threads |-> "idle"] /\ hold = [p \in Threads |-> NoEntry]
  /\ mine = [p \in Threads |-> NoMsg] /\ sent = [p \in Producers |-> 0]
  /\ logger = "poll" /\ cmd = Noop /\ target = 1
  /\ accepted = {} /\ written = [t \in Targets |-> <<>>]

-----------------------------------------------------------------------------
(* tw_safeCircular *)

(* Mutant of HasRoom: one place of the queue is never used. *)
HasRoomButOne == Len(internalCmdQueue) + 1 < QueueCap

HasRoom == Len(internalCmdQueue) < QueueCap

(* Mutant of AddIfRoom: the new command goes first. *)
AddInFront(c) ==
  internalCmdQueue' = IF HasRoom THEN <<c>> \o internalCmdQueue ELSE internalCmdQueue

(* addMvIfRoom() *)
AddIfRoom(c) ==
  internalCmdQueue' = IF HasRoom THEN Append(internalCmdQueue, c) ELSE internalCmdQueue

(* clear() and masterBufferAvail.add(), which would wait for room. *)
PoolAdd(e) ==
  /\ Len(masterBufferAvail) < NumEntries
  /\ masterBufferAvail' = Append(masterBufferAvail, e)
  /\ content' = [content EXCEPT ![e] = NoMsg]

(* masterBufferAvail.remove() on a pool that has entries. *)
PoolTake(p, at) ==
  /\ masterBufferAvail # <<>>
  /\ hold' = [hold EXCEPT ![p] = Head(masterBufferAvail)]
  /\ masterBufferAvail' = Tail(masterBufferAvail)
  /\ pc' = [pc EXCEPT ![p] = at]

-----------------------------------------------------------------------------
(* Producers. *)

(* _log(): a message that fits an entry takes one, and is copied into it. *)
LogSmall(p, size) ==
  LET m == [from |-> p, n |-> sent[p] + 1, size |-> size, by |-> 0]
  IN /\ pc[p] = "idle" /\ sent[p] < MaxMsgs /\ size # "huge"
     /\ PoolTake(p, "enqueue")
     /\ mine' = [mine EXCEPT ![p] = m]
     /\ sent' = [sent EXCEPT ![p] = @ + 1]
     /\ content' = [content EXCEPT ![Head(masterBufferAvail)] = m]
     /\ UNCHANGED <<internalCmdQueue, asyncPending, closed, loop, accepted, written>>

(* _log() or _grabInLogBuffer() on an empty pool: the message is dropped. The *)
(* /dev/kmsg listener then leaves its loop, the others come back later.       *)
PoolEmpty(p) ==
  /\ pc[p] = "idle" /\ sent[p] < MaxMsgs
  /\ masterBufferAvail = <<>>
  /\ sent' = [sent EXCEPT ![p] = @ + 1]
  /\ \E at \in IF p \in Readers THEN {"idle", "left"} ELSE {"idle"} :
       pc' = [pc EXCEPT ![p] = at]
  /\ UNCHANGED <<pool, internalCmdQueue, asyncPending, closed, hold, mine, loop,
                 accepted, written>>

(* _log(): a huge message gets a heap copy and an overflow command. *)
LogHuge(p) ==
  /\ pc[p] = "idle" /\ sent[p] < MaxMsgs /\ "huge" \in Sizes
  /\ mine' = [mine EXCEPT ![p] = [from |-> p, n |-> sent[p] + 1, size |-> "huge", by |-> 0]]
  /\ sent' = [sent EXCEPT ![p] = @ + 1]
  /\ pc' = [pc EXCEPT ![p] = "enqueue"]
  /\ UNCHANGED <<pool, internalCmdQueue, asyncPending, closed, hold, loop, accepted, written>>

(* _grabInLogBuffer() *)
Grab(p) ==
  /\ pc[p] = "idle" /\ sent[p] < MaxMsgs
  /\ PoolTake(p, "read")
  /\ UNCHANGED <<content, internalCmdQueue, asyncPending, closed, mine, sent, loop,
                 accepted, written>>

(* The reader got a message into its entry and submits it. *)
Read(p, size) ==
  LET m == [from |-> p, n |-> sent[p] + 1, size |-> size, by |-> 0]
  IN /\ pc[p] = "read" /\ size # "huge"
     /\ content' = [content EXCEPT ![hold[p]] = m]
     /\ mine' = [mine EXCEPT ![p] = m]
     /\ sent' = [sent EXCEPT ![p] = @ + 1]
     /\ pc' = [pc EXCEPT ![p] = "enqueue"]
     /\ UNCHANGED <<masterBufferAvail, internalCmdQueue, asyncPending, closed, hold, loop,
                    accepted, written>>

(* End of file, an error, an invalid or an empty record: _returnBuffer(), or *)
(* _submitBuffer() with nothing used.                                        *)
ReadNothing(p) ==
  /\ pc[p] = "read"
  /\ pc' = [pc EXCEPT ![p] = "giveBack"]
  /\ UNCHANGED <<pool, internalCmdQueue, asyncPending, closed, hold, mine, sent, loop,
                 accepted, written>>

(* The /dev/kmsg listener leaves its loop on an incomplete record and keeps  *)
(* the entry for a continuation that never comes.                            *)
ReadIncomplete(p) ==
  /\ pc[p] = "read"
  /\ pc' = [pc EXCEPT ![p] = "left"]
  /\ UNCHANGED <<pool, internalCmdQueue, asyncPending, closed, hold, mine, sent, loop,
                 accepted, written>>

(* Mutant of Enqueue: a refused entry is forgotten. *)
EnqueueForgets(p) ==
  LET m == mine[p]
      pooled == m.size # "huge"
  IN /\ pc[p] = "enqueue"
     /\ AddIfRoom(IF pooled THEN NewLog(hold[p], m) ELSE Overflow(m))
     /\ accepted' = IF HasRoom THEN accepted \cup {m} ELSE accepted
     /\ hold' = [hold EXCEPT ![p] = NoEntry]
     /\ pc' = [pc EXCEPT ![p] = IF HasRoom THEN "send" ELSE "idle"]
     /\ mine' = [mine EXCEPT ![p] = NoMsg]
     /\ UNCHANGED <<pool, asyncPending, closed, sent, loop, written>>

(* Mutant of Enqueue: an accepted message is queued again. *)
EnqueueTwice(p) ==
  LET m == mine[p]
      pooled == m.size # "huge"
  IN /\ pc[p] = "enqueue"
     /\ AddIfRoom(IF pooled THEN NewLog(hold[p], m) ELSE Overflow(m))
     /\ accepted' = accepted \cup {m}
     /\ \/ pc' = [pc EXCEPT ![p] = "send"] /\ hold' = [hold EXCEPT ![p] = NoEntry]
        \/ UNCHANGED <<pc, hold>>
     /\ UNCHANGED <<pool, asyncPending, closed, mine, sent, loop, written>>

(* internalCmdQueue.addMvIfRoom(req) of _log() and _submitBuffer(). A refused *)
(* message is dropped; its entry goes back, its heap copy is deleted.         *)
Enqueue(p) ==
  LET m == mine[p]
      pooled == m.size # "huge"
  IN /\ pc[p] = "enqueue"
     /\ AddIfRoom(IF pooled THEN NewLog(hold[p], m) ELSE Overflow(m))
     /\ accepted' = IF HasRoom THEN accepted \cup {m} ELSE accepted
     /\ hold' = [hold EXCEPT ![p] = IF HasRoom THEN NoEntry ELSE @]
     /\ pc' = [pc EXCEPT ![p] = IF HasRoom THEN "send"
                                ELSE IF pooled THEN "giveBack" ELSE "idle"]
     /\ mine' = [mine EXCEPT ![p] = NoMsg]
     /\ UNCHANGED <<pool, asyncPending, closed, sent, loop, written>>

(* Mutant of Send: a wake-up already pending is taken back. *)
SendToggles(p) ==
  /\ pc[p] = "send"
  /\ asyncPending' = (~closed /\ ~asyncPending)
  /\ pc' = [pc EXCEPT ![p] = IF p = Exiting THEN "left" ELSE "idle"]
  /\ UNCHANGED <<pool, internalCmdQueue, closed, hold, mine, sent, loop, accepted, written>>

(* uv_async_send(): nothing happens to a closed handle. *)
Send(p) ==
  /\ pc[p] = "send"
  /\ asyncPending' = ~closed
  /\ pc' = [pc EXCEPT ![p] = IF p = Exiting THEN "left" ELSE "idle"]
  /\ UNCHANGED <<pool, internalCmdQueue, closed, hold, mine, sent, loop, accepted, written>>

GiveBack(p) ==
  /\ pc[p] = "giveBack"
  /\ PoolAdd(hold[p])
  /\ hold' = [hold EXCEPT ![p] = NoEntry]
  /\ pc' = [pc EXCEPT ![p] = "idle"]
  /\ UNCHANGED <<internalCmdQueue, asyncPending, closed, mine, sent, loop, accepted, written>>

(* shutdown(), run once by exit(): whether the command found room is not     *)
(* looked at.                                                                *)
RequestShutdown ==
  /\ MayShutdown /\ pc[Exiting] = "idle"
  /\ AddIfRoom(Shutdown)
  /\ pc' = [pc EXCEPT ![Exiting] = "send"]
  /\ UNCHANGED <<pool, asyncPending, closed, hold, mine, sent, loop, accepted, written>>

-----------------------------------------------------------------------------
(* The logger thread. *)

(* libuv clears the pending flag, then calls handleInternalCmd(). *)
Wake ==
  /\ logger = "poll" /\ asyncPending
  /\ asyncPending' = FALSE
  /\ logger' = "drain"
  /\ UNCHANGED <<pool, internalCmdQueue, closed, threads, cmd, target, accepted, written>>

(* Mutant of DrainEmpty: the loop may end with commands left. *)
DrainStops ==
  /\ logger = "drain"
  /\ logger' = "poll"
  /\ UNCHANGED <<pool, internalCmdQueue, asyncPending, closed, threads, cmd, target,
                 accepted, written>>

(* while(internalCmdQueue.removeMv(req)) finds nothing. *)
DrainEmpty ==
  /\ logger = "drain" /\ internalCmdQueue = <<>>
  /\ logger' = "poll"
  /\ UNCHANGED <<pool, internalCmdQueue, asyncPending, closed, threads, cmd, target,
                 accepted, written>>

(* Takes a command. A message is written to the targets one by one. A        *)
(* rotation flushes its target; an overflow is written to every target the   *)
(* filters select, whichever target posted it; a shutdown closes the handle  *)
(* and flushes. The loop goes on in each case.                               *)
Take ==
  LET c == Head(internalCmdQueue)
  IN /\ logger = "drain" /\ internalCmdQueue # <<>>
     /\ internalCmdQueue' = Tail(internalCmdQueue)
     /\ IF c.c = "NEW_LOG" THEN logger' = "write" /\ cmd' = c ELSE UNCHANGED <<logger, cmd>>
     /\ written' = IF c.c = "WRITE_TARGET_OVERFLOW"
                   THEN [t \in Targets |-> Append(written[t], c.m)] ELSE written
     /\ closed' = (closed \/ c.c = "INTERNAL_SHUTDOWN")
     /\ asyncPending' = (asyncPending /\ ~closed')
     /\ UNCHANGED <<pool, threads, target, accepted>>

(* A target posts a command and sends the wake-up, both on this thread. *)
Post(c) ==
  /\ AddIfRoom(c)
  /\ asyncPending' = (asyncPending \/ (HasRoom /\ ~closed))

(* write() of one target on a small message. The target buffers or drops it; *)
(* if it rotates its banks, it posts a command when there is room.           *)
WriteSmall(rotated) ==
  LET m == content[cmd.entry]
  IN /\ logger = "write" /\ target <= NumTargets /\ m.size = "small"
     /\ target' = target + 1
     /\ written' = [written EXCEPT ![target] = Append(@, m)]
     /\ IF rotated THEN Post(RotateBuffer) ELSE UNCHANGED <<internalCmdQueue, asyncPending>>
     /\ UNCHANGED <<pool, closed, threads, logger, cmd, accepted>>

(* write() of one target on a large message: a copy goes to the end of the   *)
(* queue as an overflow, with the number of the target.                      *)
WriteLarge ==
  /\ logger = "write" /\ target <= NumTargets /\ content[cmd.entry].size = "large"
  /\ target' = target + 1
  /\ Post(Overflow(Copy(content[cmd.entry], target)))
  /\ UNCHANGED <<pool, closed, threads, logger, cmd, accepted, written>>

(* Mutant of Recycle: the entry of a large message is left to its overflow. *)
RecycleSmallOnly ==
  /\ logger = "write" /\ target > NumTargets
  /\ IF content[cmd.entry].size = "small" THEN PoolAdd(cmd.entry) ELSE UNCHANGED pool
  /\ logger' = "drain" /\ cmd' = Noop /\ target' = 1
  /\ UNCHANGED <<internalCmdQueue, asyncPending, closed, threads, accepted, written>>

(* l->clear(); masterBufferAvail.add(l) *)
Recycle ==
  /\ logger = "write" /\ target > NumTargets
  /\ PoolAdd(cmd.entry)
  /\ logger' = "drain" /\ cmd' = Noop /\ target' = 1
  /\ UNCHANGED <<internalCmdQueue, asyncPending, closed, threads, accepted, written>>

-----------------------------------------------------------------------------
Log(p) == \E size \in Sizes : LogSmall(p, size)
Reader(p) == Grab(p) \/ (\E size \in Sizes : Read(p, size)) \/ ReadNothing(p) \/ ReadIncomplete(p)
Producer(p) == Enqueue(p) \/ Send(p) \/ GiveBack(p)
WriteStep == (\E rotated \in BOOLEAN : WriteSmall(rotated)) \/ WriteLarge
LoggerStep == Wake \/ DrainEmpty \/ Take \/ WriteStep \/ Recycle

Next ==
  \/ \E p \in Callers : Log(p) \/ LogHuge(p)
  \/ \E p \in Producers : PoolEmpty(p)
  \/ \E p \in Readers : Reader(p)
  \/ \E p \in Threads : Producer(p)
  \/ RequestShutdown
  \/ LoggerStep

Spec == Init /\ [][Next]_vars

(* Threads inside a call of the library go on, and so does the logger loop.  *)
(* Nothing says that a producer logs again.                                  *)
Fairness == WF_vars(LoggerStep) /\ \A p \in Threads : WF_vars(Producer(p))
FairSpec == Spec /\ Fairness

-----------------------------------------------------------------------------
(* Properties. *)

TypeOK ==
  /\ masterBufferAvail \in Seq(Entries)
  /\ internalCmdQueue \in Seq(Commands)
  /\ content \in [Entries -> Logged \cup {NoMsg}]
  /\ asyncPending \in BOOLEAN /\ closed \in BOOLEAN
  /\ pc \in [Threads -> {"idle", "read", "enqueue", "send", "giveBack", "left"}]
  /\ hold \in [Threads -> Entries \cup {NoEntry}]
  /\ mine \in [Threads -> Logged \cup {NoMsg}]
  /\ logger \in {"poll", "drain", "write"} /\ cmd \in Commands \cup {Noop}
  /\ target \in 1 .. NumTargets + 1
  /\ sent \in [Producers -> 0 .. MaxMsgs]
  /\ accepted \subseteq Logged
  /\ written \in [Targets -> Seq(Posted)]

(* Positions of the queue that carry an entry. *)
Carrying == {i \in 1 .. Len(internalCmdQueue) : internalCmdQueue[i].c = "NEW_LOG"}

Queued == {internalCmdQueue[i].entry : i \in Carrying}
Held == {hold[p] : p \in Threads} \ {NoEntry}
Handling == IF logger = "write" THEN {cmd.entry} ELSE {}

(* An entry of the pool has one owner at a time: it is free, with one        *)
(* producer, in one command, or with the logger thread. No path of _log(),   *)
(* _submitBuffer() or handleInternalCmd(), refused commands included, loses  *)
(* an entry or returns one twice. So masterBufferAvail.add(), which waits    *)
(* for room, never waits: "No blocking ever on log APIs". And no message is  *)
(* overwritten on its way: the entry of a queued or a handled command still  *)
(* holds the message it was queued for.                                      *)
EntryConservation ==
  /\ TypeOK
  /\ Held \cup Handling # {} => Len(masterBufferAvail) < NumEntries
  /\ Range(masterBufferAvail) \cup Queued \cup Held \cup Handling = Entries
  /\ Range(masterBufferAvail) \cap (Queued \cup Held \cup Handling) = {}
  /\ Queued \cap (Held \cup Handling) = {} /\ Held \cap Handling = {}
  /\ IsInjective(masterBufferAvail)
  /\ \A i, j \in Carrying : internalCmdQueue[i].entry = internalCmdQueue[j].entry => i = j
  /\ \A p, q \in Threads : hold[p] # NoEntry /\ hold[p] = hold[q] => p = q
  /\ \A i \in Carrying : content[internalCmdQueue[i].entry] = internalCmdQueue[i].m
  /\ logger = "write" => content[cmd.entry] = cmd.m

(* The logger thread never sleeps on a queue with commands: uv_async_send()  *)
(* may be coalesced, yet either a wake-up is pending or some thread that has *)
(* queued its command is about to send one.                                  *)
NoLostWakeup ==
  internalCmdQueue # <<>> /\ logger = "poll" /\ ~closed =>
    asyncPending \/ \E p \in Threads : pc[p] = "send"

(* INTERNAL_QUEUE_SIZE "must be at least as big as PRIMARY_BUFFER_ENTRIES":  *)
(* then a message that got an entry is refused by the queue only when        *)
(* rotations, overflows and the shutdown take more than the difference.      *)
RefusedOnlyByExtras ==
  \A p \in Producers :
    pc[p] = "enqueue" /\ hold[p] # NoEntry /\ ~HasRoom =>
      Len(internalCmdQueue) - Cardinality(Carrying) > QueueCap - NumEntries

(* Each target gets the messages of one producer in the order they were      *)
(* logged. Large messages are left out: they queue a second time.            *)
ProducerOrder ==
  \A t \in Targets : \A i, j \in 1 .. Len(written[t]) :
    LET a == written[t][i]
        b == written[t][j]
    IN i < j /\ a.from = b.from /\ "large" \notin {a.size, b.size} => a.n < b.n

(* A target gets only what the queue took, and nothing twice: a message that *)
(* fits a bank or has an overflow command of its own comes once, and a large *)
(* one, whose overflow handleInternalCmd() writes to every target whichever  *)
(* posted it, at most once for each target that sent it round again.         *)
OncePerPost ==
  \A t \in Targets :
    /\ IsInjective(written[t])
    /\ \A m \in Range(written[t]) : Original(m) \in accepted /\ (m.by = 0 <=> m.size # "large")

(* A target gets a message at most once. *)
WrittenOnce ==
  \A t \in Targets : \A i, j \in 1 .. Len(written[t]) :
    Original(written[t][i]) = Original(written[t][j]) => i = j

(* Every command the queue took is dealt with, a shutdown included, and the  *)
(* overflows and rotations that messages cause: the logger thread comes to   *)
(* the end of its queue again and again, unless a shutdown closes the handle *)
(* first. (A shutdown that found no room is lost.)                           *)
Unhandled == logger = "write" \/ internalCmdQueue # <<>>
AcceptedIsHandled == Unhandled ~> ~Unhandled \/ closed

(* Entries of readers that wait for input, or left their loop with one. *)
Kept == {hold[p] : p \in {r \in Readers : pc[r] \in {"read", "left"}}}

(* No entry is away from the pool for ever while the logger runs, so that    *)
(* logging recovers from a full pool; only a reader that waits for input or  *)
(* has left its loop may keep one.                                           *)
EntriesComeBack == \A e \in Entries : []<>(e \in Range(masterBufferAvail) \cup Kept \/ closed)

=============================================================================
