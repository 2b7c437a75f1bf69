------------------------------- MODULE LogTarget -------------------------------
(***************************************************************************)
(* One log target and its buffer banks: class logTarget of logger.h with   *)
(* the flush behaviour of ttyTarget, fileTarget and callbackTarget.        *)
(*                                                                         *)
(* The logger thread (a libuv loop) copies messages into the current bank, *)
(* rotates full banks out, submits them for writing and takes them back    *)
(* when the write is done. With a callback set a written bank first goes   *)
(* to the library thread, which hands it to the user, who gives it back    *)
(* with GreaseLib_cleanup_GreaseLibBuf. User threads may also call         *)
(* GreaseLib_flush, which runs flushAll() on the caller's own thread.      *)
(*                                                                         *)
(* A step is a stretch of code between two accesses to state that another  *)
(* thread can change (writeMutex, a bank's mutex, a queue, the reference   *)
(* count). Messages too long for a bank leave by the overflow path before  *)
(* they reach the banks and are not modelled here.                         *)
(***************************************************************************)
EXTENDS Integers, Sequences, FiniteSets, Queues

CONSTANTS
  NumBanks,     \* num_banks: logBufs owned by the target
  BankSize,     \* bankSize: bytes in a logBuf
  MaxPrefix,    \* GREASE_MAX_PREFIX_HEADER: bytes reserved for header and footer
  Header,       \* bytes putsHeader() produces with this target's formats
  Footer,       \* bytes putsFooter() produces
  Delim,        \* length of the delimiter
  Lens,         \* lengths of the messages offered
  CallbackCap,  \* V8_LOG_CALLBACK_QUEUE_SIZE
  Kinds,        \* which targets, a subset of AllKinds
  IsDefault,    \* TRUE: the default target (id 0), which the target table never holds
  Flushers,     \* user threads that call GreaseLib_flush
  OthersActive, \* TRUE: other targets share the flush timer and the callback queue
  MayShutdown,  \* TRUE: INTERNAL_SHUTDOWN may be queued
  MaxMsgs       \* bound: messages offered in one behaviour

Banks == 0 .. NumBanks - 1
Logger == "logger"
Threads == {Logger} \cup Flushers
NoBank == -1
Ids == 1 .. MaxMsgs
AllKinds == {"tty", "file", "callback"}

ASSUME ConstantsAssumption ==
  /\ NumBanks \in Nat \ {0}
  /\ BankSize \in Nat /\ MaxPrefix \in Nat /\ Delim \in Nat
  /\ Header \in Nat /\ Footer \in Nat /\ Header + Footer <= MaxPrefix
  /\ Lens \subseteq Nat /\ \A len \in Lens : len + MaxPrefix <= BankSize
  /\ CallbackCap \in Nat
  /\ Kinds \subseteq AllKinds
  /\ IsDefault \in BOOLEAN /\ OthersActive \in BOOLEAN /\ MayShutdown \in BOOLEAN
  /\ Logger \notin Flushers
  /\ IsDefault => Flushers = {} /\ "callback" \notin Kinds
  /\ MaxMsgs \in Nat

VARIABLES
  currentBuffer,      \* the bank being filled
  availBuffers,       \* free banks
  writeOutBuffers,    \* rotated out, waiting to be written
  writing,            \* submitted to libuv, in submission order
  callerLogCallbacks, \* written, waiting for the library thread
  user,               \* handed to the user's callback
  stranded,           \* given back by the user, yet in none of the queues
  used,               \* handle.len of each bank
  data,               \* ids of the messages in each bank
  needGreaseThread,   \* references that keep the flush timer running
  flushTimer,         \* TRUE while the flush timer is started
  kind,               \* the class of the target: ttyTarget, fileTarget, callbackTarget
  disabled,           \* _disabled
  logCallbackSet,     \* a user callback is installed
  pc, hold,           \* per thread: where it is, and the bank it carries
  msg,                \* the message write() is working on
  rotateCmds,         \* TARGET_ROTATE_BUFFER commands queued
  closed,             \* INTERNAL_SHUTDOWN was handled
  aborted,            \* the assertion of unrefGreaseInGrease() failed
  nextId,             \* history: messages offered so far, plus one
  out,                \* history: ids in the order they reached the device
  delivered,          \* history: ids in the order the user's callback got them
  dropped             \* history: ids lost on the way

places == <<currentBuffer, availBuffers, writeOutBuffers, writing,
            callerLogCallbacks, user, stranded, hold>>
bytes == <<used, data>>
refs == <<needGreaseThread, flushTimer, aborted>>
flags == <<kind, disabled, logCallbackSet, closed>>
history == <<nextId, out, delivered, dropped>>
vars == <<places, bytes, refs, flags, history, pc, msg, rotateCmds>>

NoMsg == [id |-> 0, len |-> 0]
LoggerPcs == {"loop", "isEmpty", "copyIn", "rotate", "post", "drain", "flush",
              "drainSync", "flushSync", "stuck"}
UserPcs == {"idle", "drain", "flush"}

-----------------------------------------------------------------------------
(* The constructor: bank 0 is current, the others are free. *)
Init ==
  /\ currentBuffer = 0
  /\ availBuffers = [i \in 1 .. NumBanks - 1 |-> i]
  /\ writeOutBuffers = <<>> /\ writing = <<>> /\ callerLogCallbacks = <<>>
  /\ user = {} /\ stranded = {}
  /\ used = [b \in Banks |-> 0] /\ data = [b \in Banks |-> <<>>]
  /\ needGreaseThread = 0 /\ flushTimer = FALSE /\ aborted = FALSE
  /\ kind \in Kinds /\ disabled = FALSE /\ logCallbackSet = FALSE /\ closed = FALSE
  /\ pc = [t \in Threads |-> IF t = Logger THEN "loop" ELSE "idle"]
  /\ hold = [t \in Threads |-> NoBank]
  /\ msg = NoMsg /\ rotateCmds = 0
  /\ nextId = 1 /\ out = <<>> /\ delivered = <<>> /\ dropped = {}

-----------------------------------------------------------------------------
(* Space in a bank. *)

(* Mutant of Remain: no room set aside for the delimiter. *)
RemainNoDelim(b) == BankSize - used[b]

(* logBuf::remain(): room left once a delimiter is set aside, never negative. *)
Remain(b) == IF BankSize - used[b] < Delim THEN 0 ELSE BankSize - used[b] - Delim

Fits(b, len) == Remain(b) >= len + Header + Footer

(* The bytes the copyIn() calls of write() add: a delimiter follows the      *)
(* footer, or the message when there is no footer, and nothing follows an    *)
(* empty piece.                                                              *)
EntrySize(len) ==
  Header + len + Footer + (IF Footer > 0 \/ len > 0 THEN Delim ELSE 0)

(* The copyIn() calls of write(), under writeMutex. An entry of no bytes     *)
(* leaves no trace in the bank.                                              *)
CopyIn(b) ==
  /\ used' = [used EXCEPT ![b] = @ + EntrySize(msg.len)]
  /\ IF EntrySize(msg.len) > 0
     THEN data' = [data EXCEPT ![b] = Append(@, msg.id)] /\ UNCHANGED dropped
     ELSE dropped' = dropped \cup {msg.id} /\ UNCHANGED data

-----------------------------------------------------------------------------
(* The reference count that keeps the flush timer running. *)

(* Mutant of Ref: the timer is not started. *)
RefNoTimer == needGreaseThread' = needGreaseThread + 1 /\ UNCHANGED <<flushTimer, aborted>>

(* refGreaseInGrease() *)
Ref ==
  /\ needGreaseThread' = needGreaseThread + 1
  /\ flushTimer' = (flushTimer \/ needGreaseThread = 0)
  /\ UNCHANGED aborted

(* unrefGreaseInGrease(): assert(needGreaseThread > 0) comes first. *)
Unref ==
  IF needGreaseThread = 0
  THEN aborted' = TRUE /\ UNCHANGED <<needGreaseThread, flushTimer>>
  ELSE /\ needGreaseThread' = needGreaseThread - 1
       /\ flushTimer' = (flushTimer /\ needGreaseThread > 1)
       /\ UNCHANGED aborted

-----------------------------------------------------------------------------
(* rotate(), under writeMutex. *)

(* What rotate() returns. *)
Rotated ==
  /\ used[currentBuffer] > 0
  /\ availBuffers # <<>>
  /\ Len(writeOutBuffers) < NumBanks - 1

(* A bank with data moves to writeOutBuffers if a free bank can take its     *)
(* place and there is room; otherwise it is cleared where it is, and the     *)
(* free bank, if one was taken, is put back.                                 *)
Rotate ==
  LET overwritten == used[currentBuffer] > 0 /\ ~Rotated
      taken == used[currentBuffer] > 0 /\ availBuffers # <<>>
  IN /\ currentBuffer' = IF Rotated THEN Head(availBuffers) ELSE currentBuffer
     /\ availBuffers' = IF Rotated THEN Tail(availBuffers)
                        ELSE IF taken THEN Append(Tail(availBuffers), Head(availBuffers))
                        ELSE availBuffers
     /\ writeOutBuffers' = IF Rotated THEN Append(writeOutBuffers, currentBuffer)
                           ELSE writeOutBuffers
     /\ used' = [used EXCEPT ![currentBuffer] = IF overwritten THEN 0 ELSE @]
     /\ data' = [data EXCEPT ![currentBuffer] = IF overwritten THEN <<>> ELSE @]
     /\ UNCHANGED <<writing, callerLogCallbacks, user, stranded>>

(* The messages rotate() overwrites. *)
Overwritten ==
  IF used[currentBuffer] > 0 /\ ~Rotated THEN Range(data[currentBuffer]) ELSE {}

-----------------------------------------------------------------------------
(* returnBuffer(): the bank b, carried by the caller, is done with. *)

(* Mutant of Recycle: the bank is not cleared. *)
RecycleDirty(b) == availBuffers' = Append(availBuffers, b) /\ UNCHANGED bytes

(* b->clear(); availBuffers.add(b) *)
Recycle(b) ==
  /\ used' = [used EXCEPT ![b] = 0]
  /\ data' = [data EXCEPT ![b] = <<>>]
  /\ availBuffers' = Append(availBuffers, b)

(* callerLogCallbacks has room. The queue is shared by all targets. *)
QueueCallback(b) ==
  /\ Len(callerLogCallbacks) < CallbackCap
  /\ callerLogCallbacks' = Append(callerLogCallbacks, b)
  /\ UNCHANGED <<used, data, availBuffers>>

(* callerLogCallbacks is full: the callback is skipped. *)
SkipCallback(b) ==
  /\ Len(callerLogCallbacks) = CallbackCap \/ OthersActive
  /\ Recycle(b)
  /\ UNCHANGED callerLogCallbacks

(* Without a callback to call the bank is free at once. With one, a          *)
(* synchronous caller runs _doLibCallback() itself; others queue the bank.   *)
(* A callback target writes nowhere else, so a bank it recycles without a    *)
(* callback is lost.                                                         *)
ReturnBuffer(b, sync, nocallback) ==
  LET call == ~nocallback /\ logCallbackSet /\ used[b] > 0
  IN /\ IF used[b] > 0 THEN Unref ELSE UNCHANGED refs
     /\ \/ /\ ~call
           /\ Recycle(b)
           /\ UNCHANGED <<callerLogCallbacks, user, delivered>>
        \/ /\ call /\ sync
           /\ user' = user \cup {b}
           /\ delivered' = delivered \o data[b]
           /\ UNCHANGED <<used, data, availBuffers, callerLogCallbacks>>
        \/ /\ call /\ ~sync
           /\ QueueCallback(b) \/ SkipCallback(b)
           /\ UNCHANGED <<user, delivered>>

(* The messages of a bank that a callback target returns without a callback. *)
LostWithoutCallback(b) ==
  IF kind = "callback" /\ used'[b] = 0 THEN Range(data[b]) ELSE {}

-----------------------------------------------------------------------------
(* write() on the logger thread, called for NEW_LOG. *)

(* A disabled target ignores the message; otherwise remain() decides between *)
(* the current bank and a rotation.                                          *)
NewLog(len) ==
  /\ pc[Logger] = "loop" /\ nextId <= MaxMsgs
  /\ nextId' = nextId + 1
  /\ IF disabled
     THEN dropped' = dropped \cup {nextId} /\ UNCHANGED <<pc, msg>>
     ELSE /\ msg' = [id |-> nextId, len |-> len]
          /\ pc' = [pc EXCEPT ![Logger] = IF Fits(currentBuffer, len) THEN "isEmpty"
                                          ELSE "rotate"]
          /\ UNCHANGED dropped
  /\ UNCHANGED <<places, bytes, refs, flags, out, delivered, rotateCmds>>

(* if(currentBuffer->isEmpty()) owner->refGreaseInGrease() *)
CheckEmpty ==
  /\ pc[Logger] = "isEmpty"
  /\ IF used[currentBuffer] = 0 THEN Ref ELSE UNCHANGED refs
  /\ pc' = [pc EXCEPT ![Logger] = "copyIn"]
  /\ UNCHANGED <<places, bytes, flags, history, msg, rotateCmds>>

WriteCopyIn ==
  /\ pc[Logger] = "copyIn"
  /\ CopyIn(currentBuffer)
  /\ pc' = [pc EXCEPT ![Logger] = "loop"] /\ msg' = NoMsg
  /\ UNCHANGED <<places, refs, flags, nextId, out, delivered, rotateCmds>>

(* Mutant of WriteRotate: waits for a free bank instead of dropping. *)
WriteRotateWaits ==
  /\ pc[Logger] = "rotate" /\ Rotated
  /\ Rotate
  /\ pc' = [pc EXCEPT ![Logger] = "post"]
  /\ UNCHANGED <<hold, refs, flags, history, msg, rotateCmds>>

(* The message did not fit. When rotate() fails it is dropped as well. *)
WriteRotate ==
  /\ pc[Logger] = "rotate"
  /\ Rotate
  /\ IF Rotated
     THEN pc' = [pc EXCEPT ![Logger] = "post"] /\ UNCHANGED <<dropped, msg>>
     ELSE /\ pc' = [pc EXCEPT ![Logger] = "loop"] /\ msg' = NoMsg
          /\ dropped' = dropped \cup Overwritten \cup {msg.id}
  /\ UNCHANGED <<hold, refs, flags, nextId, out, delivered, rotateCmds>>

(* Mutant of WritePost: no reference for the fresh bank. *)
WritePostNoRef ==
  /\ pc[Logger] = "post"
  /\ rotateCmds' = rotateCmds + 1
  /\ CopyIn(currentBuffer)
  /\ pc' = [pc EXCEPT ![Logger] = "loop"] /\ msg' = NoMsg
  /\ UNCHANGED <<places, refs, flags, nextId, out, delivered>>

(* Room for TARGET_ROTATE_BUFFER in internalCmdQueue, which the producers    *)
(* share: the fresh bank gets a reference and the message.                   *)
WritePost ==
  /\ pc[Logger] = "post"
  /\ rotateCmds' = rotateCmds + 1
  /\ Ref
  /\ CopyIn(currentBuffer)
  /\ pc' = [pc EXCEPT ![Logger] = "loop"] /\ msg' = NoMsg
  /\ UNCHANGED <<places, flags, nextId, out, delivered>>

(* No room: the message is dropped, the rotated bank waits for the timer. *)
WritePostFull ==
  /\ pc[Logger] = "post"
  /\ dropped' = dropped \cup {msg.id}
  /\ pc' = [pc EXCEPT ![Logger] = "loop"] /\ msg' = NoMsg
  /\ UNCHANGED <<places, bytes, refs, flags, nextId, out, delivered, rotateCmds>>

-----------------------------------------------------------------------------
(* flushAll(): rotate, then write out every bank that waits. *)

(* flushTimer_cb() *)
FlushTimer ==
  /\ pc[Logger] = "loop" /\ (flushTimer \/ OthersActive)
  /\ Rotate
  /\ dropped' = dropped \cup Overwritten
  /\ pc' = [pc EXCEPT ![Logger] = "drain"]
  /\ UNCHANGED <<hold, refs, flags, nextId, out, delivered, msg, rotateCmds>>

(* TARGET_ROTATE_BUFFER: flushAll(false) does not rotate again. *)
RotateCmd ==
  /\ pc[Logger] = "loop" /\ rotateCmds > 0
  /\ rotateCmds' = rotateCmds - 1
  /\ pc' = [pc EXCEPT ![Logger] = "drain"]
  /\ UNCHANGED <<places, bytes, refs, flags, history, msg>>

(* GreaseLib_flush() on a user thread. *)
UserFlush(t) ==
  /\ pc[t] = "idle"
  /\ Rotate
  /\ dropped' = dropped \cup Overwritten
  /\ pc' = [pc EXCEPT ![t] = "drain"]
  /\ UNCHANGED <<hold, refs, flags, nextId, out, delivered, msg, rotateCmds>>

Resting(t) == IF t = Logger THEN "loop" ELSE "idle"

(* Mutant of TakeWriteOut: the bank rotated last is written first. *)
TakeWriteOutLast(t, flushing) ==
  /\ IF writeOutBuffers = <<>>
     THEN /\ pc' = [pc EXCEPT ![t] = Resting(t)]
          /\ UNCHANGED <<writeOutBuffers, hold>>
     ELSE /\ hold' = [hold EXCEPT ![t] = writeOutBuffers[Len(writeOutBuffers)]]
          /\ writeOutBuffers' = Without(writeOutBuffers, Len(writeOutBuffers))
          /\ pc' = [pc EXCEPT ![t] = flushing]
  /\ UNCHANGED <<currentBuffer, availBuffers, writing, callerLogCallbacks, user,
                 stranded, bytes, refs, flags, history, msg, rotateCmds>>

(* Mutant of TakeWriteOut: the bank stays in the queue. *)
TakeWriteOutPeeks(t, flushing) ==
  /\ IF writeOutBuffers = <<>>
     THEN pc' = [pc EXCEPT ![t] = Resting(t)] /\ UNCHANGED hold
     ELSE /\ hold' = [hold EXCEPT ![t] = Head(writeOutBuffers)]
          /\ pc' = [pc EXCEPT ![t] = flushing]
  /\ UNCHANGED <<currentBuffer, availBuffers, writeOutBuffers, writing,
                 callerLogCallbacks, user, stranded, bytes, refs, flags, history, msg,
                 rotateCmds>>

(* One turn of the loop: writeOutBuffers.remove(b), or the end and sync(). *)
TakeWriteOut(t, flushing) ==
  /\ IF writeOutBuffers = <<>>
     THEN /\ pc' = [pc EXCEPT ![t] = Resting(t)]
          /\ UNCHANGED <<writeOutBuffers, hold>>
     ELSE /\ hold' = [hold EXCEPT ![t] = Head(writeOutBuffers)]
          /\ writeOutBuffers' = Tail(writeOutBuffers)
          /\ pc' = [pc EXCEPT ![t] = flushing]
  /\ UNCHANGED <<currentBuffer, availBuffers, writing, callerLogCallbacks, user,
                 stranded, bytes, refs, flags, history, msg, rotateCmds>>

Drain(t) == pc[t] = "drain" /\ TakeWriteOut(t, "flush")

(* Mutant of Flush: the bank is free while it is being written. *)
FlushFrees(t) ==
  /\ pc[t] = "flush" /\ kind # "callback"
  /\ writing' = Append(writing, hold[t])
  /\ availBuffers' = Append(availBuffers, hold[t])
  /\ hold' = [hold EXCEPT ![t] = NoBank]
  /\ pc' = [pc EXCEPT ![t] = "drain"]
  /\ UNCHANGED <<currentBuffer, writeOutBuffers, callerLogCallbacks, user, stranded,
                 bytes, refs, flags, history, msg, rotateCmds>>

(* flush() of a TTY or a file: the bank goes to libuv. *)
Flush(t) ==
  /\ pc[t] = "flush" /\ kind # "callback"
  /\ writing' = Append(writing, hold[t])
  /\ hold' = [hold EXCEPT ![t] = NoBank]
  /\ pc' = [pc EXCEPT ![t] = "drain"]
  /\ UNCHANGED <<currentBuffer, availBuffers, writeOutBuffers, callerLogCallbacks,
                 user, stranded, bytes, refs, flags, history, msg, rotateCmds>>

(* flush() of a callback target is returnBuffer(). *)
FlushCallback(t) ==
  /\ pc[t] = "flush" /\ kind = "callback"
  /\ ReturnBuffer(hold[t], FALSE, FALSE)
  /\ dropped' = dropped \cup LostWithoutCallback(hold[t])
  /\ hold' = [hold EXCEPT ![t] = NoBank]
  /\ pc' = [pc EXCEPT ![t] = "drain"]
  /\ UNCHANGED <<currentBuffer, writeOutBuffers, writing, stranded,
                 flags, nextId, out, msg, rotateCmds>>

(* The i-th submitted write finishes and its callback, write_cb(), runs on   *)
(* the logger loop. TTY writes finish in order; file writes are done by a    *)
(* thread pool in any order. A failed write is only reported.                *)
WriteCb(i, ok) ==
  /\ pc[Logger] = "loop" /\ (kind = "tty" => i = 1)
  /\ LET b == writing[i]
     IN /\ writing' = Without(writing, i)
        /\ ReturnBuffer(b, FALSE, FALSE)
        /\ out' = IF ok THEN out \o data[b] ELSE out
        /\ dropped' = IF ok THEN dropped ELSE dropped \cup Range(data[b])
  /\ UNCHANGED <<currentBuffer, writeOutBuffers, stranded, hold, flags, nextId,
                 pc, msg, rotateCmds>>

-----------------------------------------------------------------------------
(* The library thread and the user. *)

(* callV8LogCallbacks(), _doLibCallback() *)
CallCallback ==
  /\ callerLogCallbacks # <<>>
  /\ LET b == Head(callerLogCallbacks)
     IN user' = user \cup {b} /\ delivered' = delivered \o data[b]
  /\ callerLogCallbacks' = Tail(callerLogCallbacks)
  /\ UNCHANGED <<currentBuffer, availBuffers, writeOutBuffers, writing, stranded, hold,
                 bytes, refs, flags, nextId, out, dropped, pc, msg, rotateCmds>>

(* GreaseLib_cleanup_GreaseLibBuf(): returnBufferToTarget() looks the target *)
(* up in the table of added targets, then finalizeV8Callback().              *)
Cleanup(b) ==
  /\ b \in user
  /\ user' = user \ {b}
  /\ IF IsDefault
     THEN stranded' = stranded \cup {b} /\ UNCHANGED <<availBuffers, bytes>>
     ELSE Recycle(b) /\ UNCHANGED stranded
  /\ UNCHANGED <<currentBuffer, writeOutBuffers, writing, callerLogCallbacks, hold,
                 refs, flags, history, pc, msg, rotateCmds>>

(* setCallback(), after the target was made ready. *)
SetCallback ==
  /\ ~logCallbackSet
  /\ logCallbackSet' = TRUE
  /\ UNCHANGED <<places, bytes, refs, kind, disabled, closed, history, pc, msg, rotateCmds>>

(* GreaseLib_disableTarget(), GreaseLib_enableTarget() *)
DisableWrites(v) ==
  /\ ~IsDefault
  /\ disabled' = v
  /\ UNCHANGED <<places, bytes, refs, kind, logCallbackSet, closed, history, pc, msg,
                 rotateCmds>>

-----------------------------------------------------------------------------
(* Mutant of ShutdownCmd: the current bank is not rotated out. *)
ShutdownNoRotate ==
  /\ MayShutdown /\ pc[Logger] = "loop" /\ ~closed
  /\ closed' = TRUE
  /\ flushTimer' = FALSE
  /\ pc' = [pc EXCEPT ![Logger] = "drainSync"]
  /\ UNCHANGED <<places, bytes, needGreaseThread, aborted, kind, disabled, logCallbackSet,
                 history, msg, rotateCmds>>

(* INTERNAL_SHUTDOWN: the timer is stopped and flushAllSync() runs. *)
ShutdownCmd ==
  /\ MayShutdown /\ pc[Logger] = "loop" /\ ~closed
  /\ closed' = TRUE
  /\ flushTimer' = FALSE
  /\ Rotate
  /\ dropped' = dropped \cup Overwritten
  /\ pc' = [pc EXCEPT ![Logger] = "drainSync"]
  /\ UNCHANGED <<hold, needGreaseThread, aborted, kind, disabled, logCallbackSet, nextId, out,
                 delivered, msg, rotateCmds>>

DrainSync == pc[Logger] = "drainSync" /\ TakeWriteOut(Logger, "flushSync")

(* flushSync() of a TTY locks the bank's mutex and calls returnBuffer(),     *)
(* whose isEmpty() locks it again: the thread never returns.                 *)
FlushSyncTty ==
  /\ pc[Logger] = "flushSync" /\ kind = "tty"
  /\ pc' = [pc EXCEPT ![Logger] = "stuck"]
  /\ UNCHANGED <<places, bytes, refs, flags, history, msg, rotateCmds>>

(* flushSync() of a file writes before it returns the bank; a callback       *)
(* target only returns it. Added targets are flushed without callbacks.      *)
FlushSync ==
  /\ pc[Logger] = "flushSync" /\ kind # "tty"
  /\ ReturnBuffer(hold[Logger], TRUE, ~IsDefault)
  /\ out' = IF kind = "file" THEN out \o data[hold[Logger]] ELSE out
  /\ dropped' = dropped \cup LostWithoutCallback(hold[Logger])
  /\ hold' = [hold EXCEPT ![Logger] = NoBank]
  /\ pc' = [pc EXCEPT ![Logger] = "drainSync"]
  /\ UNCHANGED <<currentBuffer, writeOutBuffers, writing, stranded,
                 flags, nextId, msg, rotateCmds>>

-----------------------------------------------------------------------------
WriteStep == CheckEmpty \/ WriteCopyIn \/ WriteRotate \/ WritePost \/ WritePostFull
FlushStep(t) == Drain(t) \/ Flush(t) \/ FlushCallback(t)
SyncStep == DrainSync \/ FlushSyncTty \/ FlushSync
SomeWriteCb == \E i \in 1 .. Len(writing), ok \in BOOLEAN : WriteCb(i, ok)

Next ==
  /\ ~aborted
  /\ \/ \E len \in Lens : NewLog(len)
     \/ WriteStep
     \/ FlushTimer
     \/ RotateCmd
     \/ ShutdownCmd
     \/ SyncStep
     \/ SomeWriteCb
     \/ CallCallback
     \/ SetCallback
     \/ \E t \in Flushers : UserFlush(t)
     \/ \E t \in Threads : FlushStep(t)
     \/ \E b \in user : Cleanup(b)
     \/ \E v \in BOOLEAN : DisableWrites(v)

Spec == Init /\ [][Next]_vars

(* The logger loop keeps turning: a thread inside a function goes on, a      *)
(* queued command is handled, a started timer fires, and each iteration of   *)
(* uv_run visits both the timers and the completed writes, so neither can    *)
(* starve the other. The library thread serves its queue. Nothing is assumed *)
(* of the producers, of the user's flushes or of the user's cleanup.         *)
Fairness ==
  /\ WF_vars(~aborted /\ WriteStep)
  /\ \A t \in Threads : WF_vars(~aborted /\ FlushStep(t))
  /\ WF_vars(~aborted /\ SyncStep)
  /\ SF_vars(~aborted /\ flushTimer /\ FlushTimer)
  /\ SF_vars(~aborted /\ RotateCmd)
  /\ SF_vars(~aborted /\ SomeWriteCb)
  /\ WF_vars(~aborted /\ CallCallback)

FairSpec == Spec /\ Fairness

-----------------------------------------------------------------------------
(* Properties. *)

TypeOK ==
  /\ currentBuffer \in Banks
  /\ availBuffers \in Seq(Banks) /\ writeOutBuffers \in Seq(Banks)
  /\ writing \in Seq(Banks) /\ callerLogCallbacks \in Seq(Banks)
  /\ user \subseteq Banks /\ stranded \subseteq Banks
  /\ used \in [Banks -> Nat] /\ data \in [Banks -> Seq(Ids)]
  /\ needGreaseThread \in Nat /\ flushTimer \in BOOLEAN /\ aborted \in BOOLEAN
  /\ kind \in Kinds /\ disabled \in BOOLEAN /\ logCallbackSet \in BOOLEAN
  /\ closed \in BOOLEAN
  /\ pc \in [Threads -> LoggerPcs \cup UserPcs]
  /\ hold \in [Threads -> Banks \cup {NoBank}]
  /\ msg \in [id : Ids \cup {0}, len : Lens \cup {0}]
  /\ rotateCmds \in Nat
  /\ nextId \in 1 .. MaxMsgs + 1
  /\ out \in Seq(Ids) /\ delivered \in Seq(Ids) /\ dropped \subseteq Ids

(* Where the banks are. *)
Places == {"current", "avail", "writeOut", "held", "writing", "callbacks", "user",
           "stranded"}

Held == {hold[t] : t \in Threads} \ {NoBank}

At == [p \in Places |->
         CASE p = "current" -> {currentBuffer}
           [] p = "avail" -> Range(availBuffers)
           [] p = "writeOut" -> Range(writeOutBuffers)
           [] p = "held" -> Held
           [] p = "writing" -> Range(writing)
           [] p = "callbacks" -> Range(callerLogCallbacks)
           [] p = "user" -> user
           [] p = "stranded" -> stranded]

(* A bank is at any time in exactly one place, once: no step of any thread   *)
(* duplicates a logBuf, loses it, or lets two owners have it. This is the    *)
(* flow drawn in the comment above availBuffers in logger.h, under user      *)
(* flushes, failed writes, full callback queues and shutdown.                *)
BankConservation ==
  /\ \A p, q \in Places : p # q => At[p] \cap At[q] = {}
  /\ UNION {At[p] : p \in Places} = Banks
  /\ IsInjective(availBuffers) /\ IsInjective(writeOutBuffers)
  /\ IsInjective(writing) /\ IsInjective(callerLogCallbacks)
  /\ \A t, u \in Threads : hold[t] # NoBank /\ hold[t] = hold[u] => t = u

(* What the threads' program counters say of the bank and the message they   *)
(* carry.                                                                    *)
CarriesBank(t) == pc[t] \in {"flush", "flushSync", "stuck"}
InWrite == pc[Logger] \in {"isEmpty", "copyIn", "rotate", "post"}

(* The inductive invariant behind BankConservation, QueuesHaveRoom and       *)
(* OnlyDelimiterOverruns: a thread holds a bank exactly inside flush() or    *)
(* flushSync(), write() has a message exactly until it is copied or dropped, *)
(* and the banks of availBuffers are empty.                                  *)
IndInv ==
  /\ TypeOK
  /\ BankConservation
  /\ pc[Logger] \in LoggerPcs /\ \A t \in Flushers : pc[t] \in UserPcs
  /\ \A t \in Threads : hold[t] # NoBank <=> CarriesBank(t)
  /\ InWrite => msg.id \in Ids /\ msg.len \in Lens
  /\ \A b \in Range(availBuffers) : used[b] = 0

(* The queues of a target never fill: availBuffers.add(), which would block  *)
(* the logger thread, always has room, and rotate() never meets a full       *)
(* writeOutBuffers while it has a free bank in hand.                         *)
QueuesHaveRoom ==
  /\ Len(availBuffers) < NumBanks
  /\ availBuffers # <<>> => Len(writeOutBuffers) < NumBanks - 1

(* The bytes of a bank stay inside it, although the space is measured before *)
(* the bank is locked and not measured again after a rotation; all but the   *)
(* delimiter of one message. Not measured again means that a message that    *)
(* passed the test at logger.h:3100, which has no room for the delimiter, is *)
(* copied into a bank it does not fit (logger.h:3146): only as the first,    *)
(* and then the only one of a fresh bank.                                    *)
OnlyDelimiterOverruns ==
  \A b \in Banks :
    used[b] > BankSize =>
      /\ used[b] <= BankSize + Delim
      /\ Len(data[b]) = 1 /\ \E len \in Lens : used[b] = EntrySize(len)

(* Banks that carry messages not yet written. *)
Unwritten == {currentBuffer} \cup Range(writeOutBuffers) \cup Held \cup Range(writing)

(* assert(needGreaseThread > 0) of unrefGreaseInGrease() never fails. *)
RefAssertHolds == ~aborted

(* While a bank holds unwritten bytes the flush timer is running, so that    *)
(* they cannot sit in the buffer for ever: every such bank has a reference   *)
(* of its own, taken when its first message came in.                         *)
BufferedDataHasTimer ==
  LET loaded == {b \in Unwritten : used[b] > 0}
  IN /\ needGreaseThread >= Cardinality(loaded)
     /\ loaded # {} /\ ~closed => flushTimer

Increasing(s) == \A i, j \in 1 .. Len(s) : i < j => s[i] < s[j]

(* Messages reach a TTY, and the user's callback, in the order they were     *)
(* logged, across bank rotations and skipped callbacks. (Writes of a file    *)
(* are requests of their own to libuv's thread pool, which may reorder them, *)
(* and with them the callbacks.)                                             *)
InOrder == kind # "file" => Increasing(out) /\ Increasing(delivered)

(* Banks whose messages still have a way to go. *)
Pending == IF kind = "callback" THEN Unwritten \cup Range(callerLogCallbacks) ELSE Unwritten
Final == IF kind = "callback" THEN delivered ELSE out

(* Every message offered to write() is in one and only one of: the hands of  *)
(* write(), one bank, the output, the lost ones. Nothing is written twice    *)
(* and nothing disappears without one of the code's reasons for dropping it. *)
AccountedOnce ==
  /\ IsInjective(Final)
  /\ \A id \in 1 .. nextId - 1 :
       LET banks == {b \in Pending : id \in Range(data[b])}
           others == {<<"write", msg.id>>} \cup {<<"dropped", d>> : d \in dropped}
                       \cup {<<"final", f>> : f \in Range(Final)}
       IN Cardinality(banks) + Cardinality({x \in others : x[2] = id}) = 1

(* A bank that libuv is writing, that waits for the callback or that the     *)
(* user is reading is not touched: its bytes change only once it is free.    *)
InFlightUntouched ==
  [][\A p \in {"writing", "callbacks", "user"} :
       \A b \in At[p] \cap At'[p] : data'[b] = data[b] /\ used'[b] = used[b]]_vars

(* Every message offered is written, delivered or dropped in the end, even   *)
(* when no further message comes and the user never gives a bank back, as    *)
(* long as the flush timer is not stopped for good by a shutdown.            *)
EveryMessageSettles ==
  \A id \in Ids : nextId > id ~> id \in Range(Final) \cup dropped \/ closed

(* Whatever the user and the device do, the logger thread gets back to its   *)
(* loop: the log path never blocks, except in flushSync() of a TTY.          *)
LoggerNeverBlocks == []<>(pc[Logger] \in {"loop", "stuck"})

(* INTERNAL_SHUTDOWN, "flush all queues": what is buffered when the command  *)
(* is handled is written or dropped in the end, if flushSync() returns.      *)
ShutdownFlushes ==
  \A id \in Ids :
    (pc[Logger] = "drainSync" /\ nextId > id) ~>
       id \in Range(Final) \cup dropped \/ pc[Logger] = "stuck"

=============================================================================
