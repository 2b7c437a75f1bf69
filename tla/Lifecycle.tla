------------------------------ MODULE Lifecycle ------------------------------
(***************************************************************************)
(* GreaseLib_start(), _shutdown() and _waitOnGreaseShutdown() of one        *)
(* thread, the library thread in its event loop, addTarget() and           *)
(* modifyDefaultTarget() of other threads, and the logger thread, which    *)
(* opens files, writes to the targets it finds and flushes them.  A        *)
(* target's banks are those of LogTarget; here it has data or has not.     *)
(* The descriptors of Redirect are read in the library thread's loop.      *)
(***************************************************************************)
EXTENDS Redirect, FiniteSets

CONSTANTS Adders,        \* threads that add or replace targets
          TargetKinds,   \* "tty", "file", "callback"
          MaxObjects,    \* bound: target objects
          MaxMsgs        \* bound: messages

ASSUME LifecycleAssumption ==
    /\ TargetKinds \subseteq {"tty", "file", "callback"}
    /\ MaxObjects \in Nat \ {0} /\ MaxMsgs \in Nat /\ IsFiniteSet(Adders)

VARIABLES main,          \* where the thread that starts the library is
          shut,          \* what shutdown() found: "no" (not called), "unstarted",
                         \* "unlocked", "running"
          libThread,     \* where libraryMain() is
          libStarted, idleTimer, runningLock,
          logger,        \* the logger thread: "none", "created", "polling", "draining"
          woken,         \* asyncInternalCommand is pending
          nextTargetId, targets, defaultTarget,
          objs,          \* the target objects made so far, deleted ones too
          pc, targ, infoId, \* of a thread in addTarget(): place, object, id
          queued,        \* messages for the logger thread: the target they name
          logged,        \* number of messages logged
          callbacks      \* callerLogCallbacks: objects with a bank for their callback

libVars == <<libThread, libStarted, idleTimer, runningLock>>
loggerVars == <<logger, woken, crashed>>
targetVars == <<nextTargetId, targets, defaultTarget, objs>>
callVars == <<pc, targ, infoId>>
msgVars == <<queued, logged, callbacks>>
vars == <<main, shut, libVars, loggerVars, targetVars, callVars, msgVars, redirectVars>>

DEFAULT_TARGET == 0
Ids == 1..MaxObjects

Init ==
    /\ main = "start" /\ shut = "no"
    /\ libThread = "none" /\ libStarted = FALSE
    /\ idleTimer = FALSE /\ runningLock = "free"
    /\ logger = "none" /\ woken = FALSE
    /\ InitRedirect
    /\ nextTargetId = 1 /\ targets = [id \in Ids |-> None] /\ defaultTarget = None
    /\ objs = <<>>
    /\ pc = [a \in Adders |-> "idle"] /\ targ = [a \in Adders |-> None]
    /\ infoId = [a \in Adders |-> DEFAULT_TARGET]
    /\ queued = <<>> /\ logged = 0 /\ callbacks = {}

(***************************************************************************)
(* Targets.  targetReady() publishes a target that is ready and deletes    *)
(* one that is not; what its maker is told depends on who made it: start() *)
(* is told nothing of a failure, modifyDefaultTarget() asks for no answer. *)
(***************************************************************************)
Told(maker, result) ==
    CASE maker = "start"     -> <<"ok">>
      [] maker = "addTarget" -> <<result>>
      [] OTHER               -> <<>>

Obj(maker, id, kind) ==
    [maker |-> maker, id |-> id, kind |-> kind, state |-> "opening",
     cbSet |-> FALSE, data |-> FALSE, reports |-> <<>>]

Reported(obj, state, result) ==
    [obj EXCEPT !.state = state, !.reports = @ \o Told(obj.maker, result)]

Publish(o, id) ==
    IF id = DEFAULT_TARGET
    THEN defaultTarget' = o /\ UNCHANGED targets
    ELSE targets' = [targets EXCEPT ![id] = o] /\ UNCHANGED defaultTarget

\* Mutant: a file target is published before its file is open, a TTY whatever happened.
ConstructPublished(maker, id, kind) ==
    LET obj == Obj(maker, id, kind) IN
    \/ /\ kind # "tty"
       /\ objs' = Append(objs, IF kind = "file" THEN obj ELSE Reported(obj, "ready", "ok"))
       /\ Publish(Len(objs) + 1, id)
    \/ /\ kind = "tty"
       /\ objs' = Append(objs, Reported(obj, "ready", "ok")) /\ Publish(Len(objs) + 1, id)

\* The constructor of a TTY or callback target calls targetReady() itself; a file
\* is only opened, by a worker of the logger's loop.
Construct(maker, id, kind) ==
    LET obj == Obj(maker, id, kind) IN
    \/ /\ kind = "file"
       /\ objs' = Append(objs, obj) /\ UNCHANGED <<targets, defaultTarget>>
    \/ /\ kind # "file"
       /\ objs' = Append(objs, Reported(obj, "ready", "ok")) /\ Publish(Len(objs) + 1, id)
    \/ /\ kind = "tty"
       /\ objs' = Append(objs, Reported(obj, "deleted", "failed"))
       /\ UNCHANGED <<targets, defaultTarget>>

\* Mutant: a file that cannot be opened is not reported.
OnOpenSilentFailure(o) ==
    /\ logger = "polling" /\ objs[o].state = "opening"
    /\ \/ /\ objs' = [objs EXCEPT ![o] = Reported(@, "ready", "ok")]
          /\ Publish(o, objs[o].id)
       \/ /\ objs' = [objs EXCEPT ![o].state = "deleted"]
          /\ UNCHANGED <<targets, defaultTarget>>
    /\ UNCHANGED <<main, shut, libVars, loggerVars, nextTargetId, callVars, msgVars>>

\* fileTarget::on_open(), on the logger thread.
OnOpen(o) ==
    /\ logger = "polling" /\ objs[o].state = "opening"
    /\ \/ /\ objs' = [objs EXCEPT ![o] = Reported(@, "ready", "ok")]
          /\ Publish(o, objs[o].id)
       \/ /\ objs' = [objs EXCEPT ![o] = Reported(@, "deleted", "failed")]
          /\ UNCHANGED <<targets, defaultTarget>>
    /\ UNCHANGED <<main, shut, libVars, loggerVars, nextTargetId, callVars, msgVars>>

\* The callback of start() runs before the logger thread exists, and others may
\* use the library from then on.
Usable == main \in {"default", "started", "done"}
CanMake == Len(objs) + Cardinality({a \in Adders : pc[a] = "new"}) < MaxObjects

\* Mutant: the id is taken without nextIdMutex, and an increment may be lost.
AddTargetLostIncrement(a) ==
    /\ pc[a] = "idle" /\ Usable /\ CanMake
    /\ infoId' = [infoId EXCEPT ![a] = nextTargetId] /\ nextTargetId' \in {nextTargetId, nextTargetId + 1}
    /\ pc' = [pc EXCEPT ![a] = "new"]
    /\ UNCHANGED <<main, shut, libVars, loggerVars, targets, defaultTarget, objs, targ, msgVars>>

\* addTarget() takes the id under nextIdMutex ...
AddTarget(a) ==
    /\ pc[a] = "idle" /\ Usable /\ CanMake
    /\ infoId' = [infoId EXCEPT ![a] = nextTargetId] /\ nextTargetId' = nextTargetId + 1
    /\ pc' = [pc EXCEPT ![a] = "new"]
    /\ UNCHANGED <<main, shut, libVars, loggerVars, targets, defaultTarget, objs, targ, msgVars>>

\* ... and modifyDefaultTarget() reads the default target.
ModifyDefaultTarget(a) ==
    /\ pc[a] = "idle" /\ Usable /\ CanMake
    /\ infoId' = [infoId EXCEPT ![a] = DEFAULT_TARGET]
    /\ targ' = [targ EXCEPT ![a] = defaultTarget]
    /\ pc' = [pc EXCEPT ![a] = "new"]
    /\ UNCHANGED <<main, shut, libVars, loggerVars, targetVars, msgVars>>

MakeDefault ==
    \E kind \in TargetKinds \ {"callback"} : Construct("modifyDefaultTarget", DEFAULT_TARGET, kind)
MakeAdded(id) == \E kind \in TargetKinds : Construct("addTarget", id, kind)

\* The target is made ...
NewTarget(a) ==
    /\ pc[a] = "new"
    /\ \/ infoId[a] = DEFAULT_TARGET /\ MakeDefault
       \/ infoId[a] # DEFAULT_TARGET /\ MakeAdded(infoId[a])
    /\ targ' = [targ EXCEPT ![a] = Len(objs) + 1]
    /\ pc' = [pc EXCEPT ![a] = "setup"]
    /\ UNCHANGED <<main, shut, libVars, loggerVars, nextTargetId, infoId, msgVars>>

\* ... or, for modifyDefaultTarget() with neither a TTY nor a file, is the one read.
KeepTarget(a) ==
    /\ pc[a] = "new" /\ infoId[a] = DEFAULT_TARGET
    /\ pc' = [pc EXCEPT ![a] = "setup"]
    /\ UNCHANGED <<main, shut, libVars, loggerVars, targetVars, targ, infoId, msgVars>>

\* Then flags, callback and formats are set: on a target that may be in use, that
\* may have been replaced, that was deleted, or (no default target) on NULL.
SetUp(a) ==
    /\ pc[a] = "setup"
    /\ IF targ[a] = None
       THEN crashed' = TRUE /\ UNCHANGED objs
       ELSE IF objs[targ[a]].state = "deleted"
       THEN crashed' \in BOOLEAN /\ UNCHANGED objs
       ELSE /\ \E cb \in BOOLEAN : objs' = [objs EXCEPT ![targ[a]].cbSet = @ \/ cb]
            /\ UNCHANGED crashed
    /\ pc' = [pc EXCEPT ![a] = "idle"] /\ targ' = [targ EXCEPT ![a] = None]
    /\ UNCHANGED <<main, shut, libVars, logger, woken, nextTargetId, targets, defaultTarget,
                   infoId, msgVars>>

(***************************************************************************)
(* start(): the library thread is created before the mutex it locks and    *)
(* the timer that keeps its loop alive are set up.                         *)
(***************************************************************************)
MainStep(from, to) == main = from /\ main' = to

CreateLib ==
    /\ MainStep("start", "created") /\ libThread' = "created"
    /\ UNCHANGED <<shut, libStarted, idleTimer, runningLock, loggerVars, targetVars, callVars, msgVars>>
InitMutex ==
    /\ MainStep("created", "mutexes") /\ runningLock' = "free"
    /\ UNCHANGED <<shut, libThread, libStarted, idleTimer, loggerVars, targetVars, callVars, msgVars>>
StartTimer ==
    /\ MainStep("mutexes", "timer") /\ idleTimer' = TRUE
    /\ UNCHANGED <<shut, libThread, libStarted, runningLock, loggerVars, targetVars, callVars, msgVars>>
SetupDefaultTarget ==
    /\ MainStep("timer", "default") /\ Construct("start", DEFAULT_TARGET, "tty")
    /\ UNCHANGED <<shut, libVars, loggerVars, nextTargetId, callVars, msgVars>>
CreateLogger ==
    /\ MainStep("default", "started") /\ logger' = "created"
    /\ UNCHANGED <<shut, libVars, woken, crashed, targetVars, callVars, msgVars>>

\* Mutant: runningLock stays locked.
ShutdownStillLocked ==
    /\ shut = "no" /\ main \in {"started", "done"}
    /\ IF libStarted
       THEN /\ idleTimer' = FALSE
            /\ shut' = IF libThread = "began" THEN "unlocked" ELSE "running"
       ELSE shut' = "unstarted" /\ UNCHANGED idleTimer
    /\ UNCHANGED <<main, runningLock, libThread, libStarted, loggerVars, targetVars, callVars, msgVars>>

\* shutdown(), by any thread, does nothing before libStarted is set.
Shutdown ==
    /\ shut = "no" /\ main \in {"started", "done"}
    /\ IF libStarted
       THEN /\ idleTimer' = FALSE /\ runningLock' = "free"
            /\ shut' = IF libThread = "began" THEN "unlocked" ELSE "running"
       ELSE shut' = "unstarted" /\ UNCHANGED <<idleTimer, runningLock>>
    /\ UNCHANGED <<main, libThread, libStarted, loggerVars, targetVars, callVars, msgVars>>

WaitOnGreaseShutdown ==
    /\ MainStep("started", "done") /\ runningLock = "free"
    /\ UNCHANGED <<shut, libVars, loggerVars, targetVars, callVars, msgVars, redirectVars>>

(***************************************************************************)
(* libraryMain().  uv_run() returns once no handle keeps the loop alive:    *)
(* neither the timer nor a descriptor that is polled.                      *)
(***************************************************************************)
LibBegin ==
    /\ libThread = "created" /\ libThread' = "began" /\ libStarted' = TRUE
    /\ UNCHANGED <<main, shut, idleTimer, runningLock, loggerVars, targetVars, callVars, msgVars>>
LibLock ==
    /\ libThread = "began" /\ runningLock = "free"
    /\ libThread' = "locked" /\ runningLock' = "held"
    /\ UNCHANGED <<main, shut, libStarted, idleTimer, loggerVars, targetVars, callVars, msgVars>>
PollsFds == \E t \in DOMAIN tickets : tickets[t].polling
LibRun ==
    /\ libThread \in {"locked", "polling"} /\ callback = NoCallback
    /\ libThread' = IF idleTimer \/ PollsFds THEN "polling" ELSE "ended"
    /\ UNCHANGED <<main, shut, libStarted, idleTimer, runningLock, loggerVars, targetVars, callVars, msgVars>>
CallV8LogCallbacks ==
    /\ libThread = "polling" /\ callback = NoCallback /\ callbacks # {} /\ callbacks' = {}
    /\ UNCHANGED <<main, shut, libVars, loggerVars, targetVars, callVars, queued, logged>>

(***************************************************************************)
(* Producers and the logger thread.  A signal to the logger thread before  *)
(* it has initialised the handle is lost, or follows a bad pointer.        *)
(***************************************************************************)
Submit(id) ==
    /\ queued' = Append(queued, id)
    /\ IF logger \in {"none", "created"}
       THEN crashed' \in BOOLEAN /\ UNCHANGED woken
       ELSE woken' = TRUE /\ UNCHANGED crashed

Log(id) ==
    /\ Usable /\ logged < MaxMsgs
    /\ Submit(id) /\ logged' = logged + 1
    /\ UNCHANGED <<main, shut, libVars, logger, targetVars, callVars, callbacks>>

\* The poll callback, and what it reads.
ReadRedirected ==
    /\ libThread = "polling" /\ ReadChunk /\ Submit(DEFAULT_TARGET)
    /\ UNCHANGED <<main, shut, libVars, logger, targetVars, callVars, logged, callbacks>>
PollRedirected ==
    /\ libThread = "polling"
    /\ (\E fd \in Fds : Poll(fd)) \/ ReadNoMore \/ ReadEnd \/ StopAndTell
    /\ UNCHANGED <<main, shut, libVars, logger, woken, targetVars, callVars, msgVars>>
CallRedirect ==
    /\ Usable
    /\ \E fd \in Fds : \/ OpenPipe(fd) \/ AddFDFails(fd)
                         \/ \E k \in RedirectKinds : AddFD(k, fd) \/ RemoveFD(k, fd)
    /\ UNCHANGED <<main, shut, libVars, logger, woken, targetVars, callVars, msgVars>>
OthersWrite ==
    /\ \E s \in DOMAIN streams : WritePipe(s)
    /\ UNCHANGED <<main, shut, libVars, logger, woken, targetVars, callVars, msgVars>>

LoggerStep(from, to) == logger = from /\ logger' = to

MainThread ==
    /\ LoggerStep("created", "polling")
    /\ UNCHANGED <<main, shut, libVars, woken, crashed, targetVars, callVars, msgVars>>
WakeUp ==
    /\ LoggerStep("polling", "draining") /\ woken /\ woken' = FALSE
    /\ UNCHANGED <<main, shut, libVars, crashed, targetVars, callVars, msgVars>>
Drained ==
    /\ LoggerStep("draining", "polling") /\ queued = <<>>
    /\ UNCHANGED <<main, shut, libVars, woken, crashed, targetVars, callVars, msgVars>>

\* A target that is not in the table leaves its messages to the default target.
Destination(id) ==
    IF id # DEFAULT_TARGET /\ targets[id] # None THEN targets[id] ELSE defaultTarget

HandleInternalCmd ==
    /\ logger = "draining" /\ queued # <<>> /\ queued' = Tail(queued)
    /\ LET o == Destination(Head(queued)) IN
         objs' = IF o = None THEN objs ELSE [objs EXCEPT ![o].data = TRUE]
    /\ UNCHANGED <<main, shut, libVars, loggerVars, nextTargetId, targets, defaultTarget,
                   callVars, logged, callbacks>>

\* Mutant: the default target is forgotten.
ReachedTable == {targets[id] : id \in Ids} \ {None}

\* flushAll() reaches the default target and those of the table.
Reached == ({defaultTarget} \cup {targets[id] : id \in Ids}) \ {None}

HasData(o) == o \in DOMAIN objs /\ objs[o].data

FlushTimer ==
    /\ logger = "polling" /\ \E o \in Reached : HasData(o)
    /\ objs' = [o \in DOMAIN objs |->
                  IF o \in Reached THEN [objs[o] EXCEPT !.data = FALSE] ELSE objs[o]]
    /\ callbacks' = callbacks \cup {o \in Reached : HasData(o) /\ objs[o].cbSet}
    /\ UNCHANGED <<main, shut, libVars, loggerVars, nextTargetId, targets, defaultTarget,
                   callVars, queued, logged>>

StartNext ==
    /\ CreateLib \/ InitMutex \/ StartTimer \/ SetupDefaultTarget \/ CreateLogger
    /\ UNCHANGED redirectVars
LibNext ==
    \/ (LibBegin \/ LibLock \/ LibRun \/ CallV8LogCallbacks) /\ UNCHANGED redirectVars
    \/ PollRedirected \/ ReadRedirected
LoggerNext ==
    /\ \/ MainThread \/ WakeUp \/ HandleInternalCmd \/ Drained \/ FlushTimer
       \/ \E o \in DOMAIN objs : OnOpen(o)
    /\ UNCHANGED redirectVars
AdderNext(a) == (NewTarget(a) \/ KeepTarget(a) \/ SetUp(a)) /\ UNCHANGED redirectVars
Calls ==
    \/ Shutdown
    \/ \E a \in Adders : AddTarget(a) \/ ModifyDefaultTarget(a)
    \/ \E id \in {DEFAULT_TARGET} \cup Ids : Log(id)

Next ==
    /\ ~crashed
    /\ \/ StartNext \/ WaitOnGreaseShutdown \/ LibNext \/ LoggerNext
       \/ \E a \in Adders : AdderNext(a)
       \/ Calls /\ UNCHANGED redirectVars
       \/ CallRedirect \/ OthersWrite

Spec == Init /\ [][Next]_vars

\* The scheduler runs every thread, an event loop serves its handles, and a thread
\* waits on the mutex until it has it; nobody has to call the library.
FairSpec ==
    /\ Spec
    /\ WF_vars(~crashed /\ StartNext) /\ WF_vars(~crashed /\ LibNext)
    /\ WF_vars(~crashed /\ LoggerNext) /\ WF_vars(~crashed /\ WaitOnGreaseShutdown)
    /\ \A a \in Adders : WF_vars(~crashed /\ AdderNext(a))

(***************************************************************************)
(* Properties.                                                             *)
(***************************************************************************)
\* What the logger thread can write to or flush, the default target and the table's
\* entries, is a target that is ready and was made for that id: never one still
\* being opened, or one targetReady() deleted.  (Includes the types of the state.)
RoutedTargetsAlive ==
    /\ main \in {"start", "created", "mutexes", "timer", "default", "started", "done"}
    /\ libThread \in {"none", "created", "began", "locked", "polling", "ended"}
    /\ logger \in {"none", "created", "polling", "draining"}
    /\ callbacks \subseteq DOMAIN objs /\ Len(objs) <= MaxObjects
    /\ \A id \in Ids : targets[id] # None =>
          objs[targets[id]].id = id /\ objs[targets[id]].state = "ready"
    /\ defaultTarget # None =>
          objs[defaultTarget].id = DEFAULT_TARGET /\ objs[defaultTarget].state = "ready"

\* The start callback of addTarget() is called at most once for a target and tells
\* the truth: with an id, the table has this very target under that id, whatever
\* other threads add; with an error, the target is nowhere.
StartReported ==
    \A o \in DOMAIN objs : objs[o].maker = "addTarget" =>
        /\ objs[o].reports = <<>> <=> objs[o].state = "opening"
        /\ objs[o].reports = <<"ok">> <=> targets[objs[o].id] = o
        /\ Len(objs[o].reports) <= 1

\* Every addTarget() is answered, though the file is opened on another thread and
\* may fail to open: none stays without an answer.
Unanswered ==
    \/ \E a \in Adders : pc[a] = "new" /\ infoId[a] # DEFAULT_TARGET
    \/ \E o \in DOMAIN objs : objs[o].maker = "addTarget" /\ objs[o].reports = <<>>
StartAnswered == Unanswered ~> (crashed \/ ~Unanswered)

\* A target that messages go to has data.
Buffered == \E id \in {DEFAULT_TARGET} \cup Ids : HasData(Destination(id))

\* A message the logger thread is signalled of gets to a target; data in a target
\* that messages go to gets flushed, unless that is replaced as the default target;
\* and banks for a callback are delivered as long as the library thread runs.
DataGetsOut ==
    /\ (woken /\ queued # <<>>) ~> (crashed \/ queued = <<>>)
    /\ Buffered ~> (crashed \/ ~Buffered)
    /\ (callbacks # {}) ~> (crashed \/ callbacks = {} \/ libThread = "ended" \/ ~idleTimer)

\* shutdown() once the library thread has its lock lets waitOnGreaseShutdown()
\* return, and ends that thread unless it polls a descriptor.
ShutdownReleasesWait ==
    (shut = "running") ~> (crashed \/ (main = "done" /\ (libThread = "ended" \/ PollsFds)))

\* "timer keeps uv_run up": once start() has returned, the library thread, in which
\* "callbacks will occur", runs its loop until shutdown() is called.
LibLoopStaysUp == (main \in {"started", "done"} /\ shut = "no") => libThread # "ended"
=============================================================================
