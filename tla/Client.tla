-------------------------------- MODULE Client --------------------------------
(***************************************************************************)
(* grease_client.c in a program of several threads.  grease_log and        *)
(* found_module belong to the process; sink_fd, err_cnt and my_tid to each *)
(* thread.  The build does not optimise, so that grease_printf() reads     *)
(* grease_log twice.                                                       *)
(***************************************************************************)
EXTENDS LogSocket, Functions

CONSTANTS Threads,      \* threads of the program
          SinkMaxErrors,\* SINK_MAX_ERRORS
          MaxLen,       \* cells of the longest message
          MaxMsgs,      \* bound: messages of a thread
          MaxInits,     \* bound: calls that set up a logger, of a thread
          Modules       \* whether greaseLog.node may be loaded in the program

ASSUME ClientAssumption ==
    /\ SinkMaxErrors \in Nat
    /\ MaxLen \in Nat /\ MaxMsgs \in Nat /\ MaxInits \in Nat
    /\ Modules \subseteq BOOLEAN

VARIABLES moduleLoaded, \* greaseLog.node is loaded in the program
          greaseLog,    \* grease_log: "null", "sink" or "local"
          foundModule,  \* found_module: -1, 0 or 1
          pc,           \* pc[t]: where thread t is
          sinkFd,       \* sinkFd[t]: "unset", "open", "failed" or "closed"
          addrSet,      \* addrSet[t]: sink_dgram_addr holds the path
          myTid,        \* myTid[t]: my_tid was set by thread t
          errCnt,       \* errCnt[t]: err_cnt
          ping,         \* ping[t]: the socket of ping_sink(), while there is one
          again,        \* again[t]: the sockets that got the number t is about to close again
          text,         \* text[t]: the string thread t is logging
          inits,        \* inits[t]: calls of thread t that set up a logger
          pings,        \* number of ping sockets made so far
          count,        \* count[t]: messages of t that were sent or printed
          viaLocal,     \* messages given to grease_logLocal()
          printed,      \* messages printed on stderr
          crashed       \* grease_log was called when it was NULL

initVars == <<greaseLog, foundModule, sinkFd, addrSet, myTid, errCnt, ping, again, inits, pings>>
printVars == <<text, count, viaLocal, printed, crashed>>
clientVars == <<socketVars, moduleLoaded, initVars, printVars, pc>>

NoPing == [addr |-> 0, serial |-> 0]

InitClient ==
    /\ moduleLoaded \in Modules
    /\ greaseLog = "null" /\ foundModule = -1
    /\ pc = [t \in Threads |-> "idle"]
    /\ sinkFd = [t \in Threads |-> "unset"]
    /\ addrSet = [t \in Threads |-> FALSE]
    /\ myTid = [t \in Threads |-> FALSE]
    /\ errCnt = [t \in Threads |-> 0]
    /\ ping = [t \in Threads |-> NoPing] /\ again = [t \in Threads |-> {}]
    /\ text = [t \in Threads |-> <<>>]
    /\ inits = [t \in Threads |-> 0] /\ pings = 0
    /\ count = [w \in Threads |-> 0]
    /\ viaLocal = {} /\ printed = {} /\ crashed = FALSE

Goto(t, l) == pc' = [pc EXCEPT ![t] = l]

\* What thread u uses a socket for, and the thread.  Its number is no longer u's.
Sink(u) == <<u, "sink">>
Ping(u) == <<u, "ping">>
Forget(s) == [t \in Threads |-> again[t] \ {s}]

\* socket() may return a number that other threads have closed and close again.
Opens(s) ==
    \E T \in SUBSET {t \in Threads : pc[t] = "closeAgain" /\ again[t] = {}} :
        again' = [t \in Threads |-> IF t \in T THEN {s} ELSE Forget(s)[t]]

(***************************************************************************)
(* Setting up: grease_initLogger() looks for the module if nobody has, and *)
(* pings the sink; grease_fastInitLogger() always looks and never pings.   *)
(***************************************************************************)
InitLogger(t) ==
    /\ pc[t] = "idle" /\ ~crashed /\ inits[t] < MaxInits
    /\ inits' = [inits EXCEPT ![t] = @ + 1]
    /\ \/ foundModule = -1 /\ Goto(t, "clear") /\ UNCHANGED greaseLog
       \/ foundModule = 1 /\ greaseLog' = "local" /\ UNCHANGED pc
       \/ foundModule = 0 /\ Goto(t, "setup") /\ UNCHANGED greaseLog
    /\ UNCHANGED <<socketVars, moduleLoaded, foundModule, sinkFd, addrSet, myTid, errCnt,
                   ping, again, pings, printVars>>

FastInitLogger(t) ==
    /\ pc[t] = "idle" /\ ~crashed /\ inits[t] < MaxInits
    /\ inits' = [inits EXCEPT ![t] = @ + 1]
    /\ Goto(t, "fastClear")
    /\ UNCHANGED <<socketVars, moduleLoaded, greaseLog, foundModule, sinkFd, addrSet, myTid,
                   errCnt, ping, again, pings, printVars>>

\* check_grease_symbols() clears found_module ...
ClearFound(t) ==
    /\ pc[t] \in {"clear", "fastClear"} /\ ~crashed
    /\ foundModule' = 0
    /\ Goto(t, IF pc[t] = "clear" THEN "search" ELSE "fastSearch")
    /\ UNCHANGED <<socketVars, moduleLoaded, greaseLog, sinkFd, addrSet, myTid, errCnt, ping,
                   again, inits, pings, printVars>>

\* ... searches with dl_iterate_phdr() and grease_plhdr_callback() ...
Search(t) ==
    /\ pc[t] \in {"search", "fastSearch"} /\ ~crashed
    /\ foundModule' = IF moduleLoaded THEN 1 ELSE foundModule
    /\ Goto(t, IF pc[t] = "search" THEN "searched" ELSE "fastSearched")
    /\ UNCHANGED <<socketVars, moduleLoaded, greaseLog, sinkFd, addrSet, myTid, errCnt, ping,
                   again, inits, pings, printVars>>

\* ... and returns found_module as it is then.
Searched(t) ==
    /\ pc[t] \in {"searched", "fastSearched"} /\ ~crashed
    /\ \/ /\ foundModule # 0 /\ greaseLog' = "local" /\ Goto(t, "idle")
       \/ /\ foundModule = 0 /\ UNCHANGED greaseLog
          /\ Goto(t, IF pc[t] = "searched" THEN "setup" ELSE "fastSetup")
    /\ UNCHANGED <<socketVars, moduleLoaded, foundModule, sinkFd, addrSet, myTid, errCnt, ping,
                   again, inits, pings, printVars>>

\* setup_sink_dgram_socket().  A socket() that fails is only reported.
SetupSink(t) ==
    /\ pc[t] \in {"setup", "fastSetup"} /\ ~crashed
    /\ errCnt' = [errCnt EXCEPT ![t] = 0]
    /\ \/ /\ myTid[t] /\ greaseLog' = "sink" /\ Goto(t, "idle")
          /\ UNCHANGED <<sinkFd, addrSet, myTid, again>>
       \/ /\ ~myTid[t]
          /\ \E fd \in {"open", "failed"} :
                /\ sinkFd' = [sinkFd EXCEPT ![t] = fd]
                /\ addrSet' = [addrSet EXCEPT ![t] = @ \/ fd = "open"]
                /\ IF fd = "open" THEN Opens(Sink(t)) ELSE again' = Forget(Sink(t))
          /\ IF pc[t] = "fastSetup"
             THEN /\ myTid' = [myTid EXCEPT ![t] = TRUE]
                  /\ greaseLog' = "sink" /\ Goto(t, "idle")
             ELSE Goto(t, "ping") /\ UNCHANGED <<myTid, greaseLog>>
    /\ UNCHANGED <<socketVars, moduleLoaded, foundModule, ping, inits, pings, printVars>>

(***************************************************************************)
(* ping_sink() makes a socket under a fresh path, so that an answer to an  *)
(* earlier ping finds nobody; it waits GREASE_SINK_ACK_TIMEOUT for one.    *)
(***************************************************************************)
\* Mutant: the path is the same for all pings of the process.
FixedPath == 1
FreshPath == pings + 1
PingSend(t) ==
    /\ pc[t] = "ping" /\ ~crashed /\ addrSet[t]
    /\ Deliver(PingDatagram(FreshPath, pings + 1))
    /\ ping' = [ping EXCEPT ![t] = [addr |-> FreshPath, serial |-> pings + 1]]
    /\ boxes' = boxes \cup {FreshPath} /\ UNCHANGED acks
    /\ Opens(Ping(t))
    /\ pings' = pings + 1
    /\ Goto(t, "pingWait")
    /\ UNCHANGED <<moduleLoaded, greaseLog, foundModule, sinkFd, addrSet, myTid, errCnt,
                   inits, printVars>>

AnswersTo(t) == {a \in acks : a.addr = ping[t].addr}

\* The ping's socket and its path are removed.
ClosePing(t) ==
    /\ ping' = [ping EXCEPT ![t] = NoPing]
    /\ boxes' = boxes \ {ping[t].addr}
    /\ acks' = acks \ AnswersTo(t)
    /\ again' = Forget(Ping(t))
    /\ UNCHANGED <<bound, queue>>

\* The answer is there: setup_sink_dgram_socket() returns 0.
PingAnswered(t) ==
    /\ pc[t] = "pingWait" /\ ~crashed /\ AnswersTo(t) # {}
    /\ ClosePing(t)
    /\ myTid' = [myTid EXCEPT ![t] = TRUE]
    /\ greaseLog' = "sink"
    /\ Goto(t, "idle")
    /\ UNCHANGED <<moduleLoaded, foundModule, sinkFd, addrSet, errCnt, inits, pings, printVars>>

\* The process goes back to stderr, all of its threads.
GiveUpSink(t) ==
    /\ ClosePing(t)
    /\ greaseLog' = "null"
    /\ Goto(t, "idle")
    /\ UNCHANGED <<moduleLoaded, foundModule, sinkFd, addrSet, myTid, errCnt, inits, pings,
                   printVars>>

\* Mutant: poll() without a timeout.
PingNeverFails(t) ==
    /\ pc[t] = "ping" /\ ~(bound /\ addrSet[t]) /\ ~crashed
    /\ GiveUpSink(t)

\* Nobody at the sink's path, or no answer in time.
PingFails(t) ==
    /\ pc[t] = "pingWait" \/ (pc[t] = "ping" /\ ~(bound /\ addrSet[t]))
    /\ ~crashed /\ AnswersTo(t) = {}
    /\ GiveUpSink(t)

\* No socket or directory for the ping's own address (without a directory, the
\* socket is never closed, and nobody uses it).
PingError(t) == pc[t] = "ping" /\ ~crashed /\ GiveUpSink(t)

\* bind() fails for the ping's own address: its socket is closed ...
PingBindFails(t) ==
    /\ pc[t] = "ping" /\ ~crashed
    /\ Goto(t, "closeAgain")
    /\ UNCHANGED <<socketVars, moduleLoaded, initVars, printVars>>

\* ... and at the end of ping_sink() its number is closed again, whoever has got
\* it since.  A thread already in recvfrom() keeps its socket until that returns.
CloseAgain(t) ==
    LET lost == {ping[u].addr : u \in {v \in Threads : Ping(v) \in again[t]}}
    IN /\ pc[t] = "closeAgain" /\ ~crashed
       /\ sinkFd' = [u \in Threads |-> IF Sink(u) \in again[t] THEN "closed" ELSE sinkFd[u]]
       /\ \/ boxes' = boxes \ lost /\ acks' = {a \in acks : a.addr \notin lost}
          \/ UNCHANGED <<boxes, acks>>
       /\ again' = [u \in Threads |-> again[u] \ again[t]]
       /\ greaseLog' = "null"
       /\ Goto(t, "idle")
       /\ UNCHANGED <<bound, queue, moduleLoaded, foundModule, addrSet, myTid, errCnt, ping,
                      inits, pings, printVars>>

\* grease_shutdown(): my_tid and grease_log stay as they are.
Shutdown(t) ==
    /\ pc[t] = "idle" /\ ~crashed /\ greaseLog = "sink" /\ sinkFd[t] # "closed"
    /\ sinkFd' = [sinkFd EXCEPT ![t] = "closed"] /\ again' = Forget(Sink(t))
    /\ UNCHANGED <<socketVars, moduleLoaded, greaseLog, foundModule, addrSet, myTid, errCnt,
                   ping, inits, pings, printVars, pc>>

(***************************************************************************)
(* grease_printf(): the pointer is compared with NULL, then called.        *)
(***************************************************************************)
Printf(t, n) ==
    /\ pc[t] = "idle" /\ ~crashed /\ count[t] < MaxMsgs
    /\ text' = [text EXCEPT ![t] = Text(t, count[t] + 1, n)]
    /\ Goto(t, "check")
    /\ UNCHANGED <<socketVars, moduleLoaded, initVars, count, viaLocal, printed, crashed>>

\* The message of t is out of its hands; a message of no cells is not counted.
Leaves(t) ==
    /\ count' = [count EXCEPT ![t] = @ + Len(MsgsOf(text[t]))]
    /\ text' = [text EXCEPT ![t] = <<>>]
    /\ Goto(t, "idle")

ToStderr(t) == Leaves(t) /\ printed' = printed \cup Range(MsgsOf(text[t]))

CheckLog(t) ==
    /\ pc[t] = "check" /\ ~crashed
    /\ \/ /\ greaseLog # "null" /\ Goto(t, "call")
          /\ UNCHANGED <<text, count, printed>>
       \/ greaseLog = "null" /\ ToStderr(t)
    /\ UNCHANGED <<socketVars, moduleLoaded, initVars, viaLocal, crashed>>

CallLog(t) ==
    /\ pc[t] = "call" /\ ~crashed
    /\ \/ greaseLog = "null" /\ crashed' = TRUE /\ UNCHANGED pc
       \/ greaseLog = "sink" /\ Goto(t, "sendmsg") /\ UNCHANGED crashed
       \/ greaseLog = "local" /\ Goto(t, "local") /\ UNCHANGED crashed
    /\ UNCHANGED <<socketVars, moduleLoaded, initVars, text, count, viaLocal, printed>>

\* grease_logLocal() of the module in this process, which may refuse.
LogLocal(t) ==
    /\ pc[t] = "local" /\ ~crashed
    /\ \/ /\ Leaves(t) /\ viaLocal' = viaLocal \cup Range(MsgsOf(text[t]))
          /\ UNCHANGED printed
       \/ ToStderr(t) /\ UNCHANGED viaLocal
    /\ UNCHANGED <<socketVars, moduleLoaded, initVars, crashed>>

\* grease_logToSink(): sendmsg() through the thread's own socket.
SendToSink(t) ==
    /\ pc[t] = "sendmsg" /\ ~crashed
    /\ sinkFd[t] = "open"
    /\ Deliver(Datagram(LogToSink(text[t]), MsgsOf(text[t])))
    /\ Leaves(t)
    /\ UNCHANGED <<boxes, acks, moduleLoaded, initVars, viaLocal, printed, crashed>>

\* sendmsg() fails: errors are counted, and too many of them in one thread take
\* grease_log away from all threads.  The message goes to stderr.
SendFails(t) ==
    /\ pc[t] = "sendmsg" /\ ~crashed
    /\ sinkFd[t] # "open" \/ ~bound
    /\ errCnt' = [errCnt EXCEPT ![t] = @ + 1]
    /\ greaseLog' = IF errCnt[t] + 1 > SinkMaxErrors THEN "null" ELSE greaseLog
    /\ ToStderr(t)
    /\ UNCHANGED <<socketVars, moduleLoaded, foundModule, sinkFd, addrSet, myTid, ping,
                   again, inits, pings, viaLocal, crashed>>

ThreadStep(t) ==
    \/ ClearFound(t) \/ Search(t) \/ Searched(t) \/ SetupSink(t)
    \/ PingSend(t) \/ PingAnswered(t) \/ PingFails(t) \/ CloseAgain(t)
    \/ CheckLog(t) \/ CallLog(t) \/ LogLocal(t) \/ SendToSink(t) \/ SendFails(t)
ThreadCall(t) ==
    \/ InitLogger(t) \/ FastInitLogger(t) \/ Shutdown(t)
    \/ \E n \in 0..MaxLen : Printf(t, n)
    \/ PingError(t) \/ PingBindFails(t)
ClientNext == \E t \in Threads : ThreadStep(t) \/ ThreadCall(t)
=============================================================================
