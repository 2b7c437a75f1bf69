--------------------------- MODULE ClientSinkProofs ---------------------------
(***************************************************************************)
(* Proofs about the client library and the datagram sink, for every number *)
(* of threads and of other programs, every size of the socket's queue and  *)
(* any number of set-ups, messages and starts of the logger.               *)
(***************************************************************************)
EXTENDS ClientSink, TLAPS

-----------------------------------------------------------------------------
(* stop() and the listener. *)

(* One datagram was read since stop() only if the thread has left select(),  *)
(* and the flag sends it out of its loop.                                    *)
StopInv ==
    /\ lateReads \in {0, 1}
    /\ lateReads = 1 => stopThread /\ listener \in {"test", "ended"}

(* The sink starts with nothing read. *)
LEMMA StopInit == Init => StopInv
BY DEF Init, InitSink, StopInv

(* Only Listen counts a late read, and after one the thread never waits again. *)
LEMMA StopStep == ASSUME StopInv, [Next]_vars PROVE StopInv'
<1>1. CASE UNCHANGED <<listener, stopThread, lateReads>>
  BY <1>1, Zenon DEF StopInv
<1>2. CASE SinkStep
  <2>1. CASE TestStop
    BY <2>1, Zenon DEF TestStop, StopInv
  <2>2. CASE Listen
    BY <2>2 DEF Listen, StopInv
  <2> QED BY <1>2, <2>1, <2>2, Zenon DEF SinkStep
<1>3. CASE LoggerCall
  <2>1. CASE AddSink
    BY <2>1, Zenon DEF AddSink, StopInv
  <2>2. CASE Stop
    BY <2>2, Zenon DEF Stop, StopInv
  <2>3. CASE LoggerDies
    BY <2>3 DEF LoggerDies, StopInv
  <2> QED BY <1>3, <2>1, <2>2, <2>3, Zenon DEF LoggerCall
<1>4. CASE \E t \in Threads : ClientStep(t) \/ ClientCall(t)
  BY <1>1, <1>4, Zenon DEF ClientStep, ClientCall, sinkVars
<1>5. ASSUME NEW u, SendRaw(u) \/ SendTwo(u) \/ Syslog(u) PROVE StopInv'
  BY <1>1, <1>5, Zenon DEF SendRaw, SendTwo, Syslog, OthersSend, sinkVars
<1>6. CASE UNCHANGED vars
  BY <1>1, <1>6, Zenon DEF vars, sinkVars
<1> QED BY <1>2, <1>3, <1>4, <1>5, <1>6, Zenon DEF Next

(* After stop() a listener reads at most one datagram more, whenever it is   *)
(* called and however many are waiting.                                      *)
THEOREM StopsPromptly == Spec => []StopIsPrompt
<1>1. StopInv => StopIsPrompt
  BY DEF StopInv, StopIsPrompt
<1> QED BY <1>1, StopInit, StopStep, PTL DEF Spec

-----------------------------------------------------------------------------
(* Pings and their answers.  The invariant has three parts: the types of the *)
(* control state, the socket's queue, and the sockets of pings.              *)

ControlTyped ==
    /\ bound \in BOOLEAN
    /\ greaseLog \in {"null", "sink", "local"} /\ foundModule \in {-1, 0, 1}
    /\ pc \in [Threads -> Labels]
    /\ sinkFd \in [Threads -> {"unset", "open", "failed", "closed"}]
    /\ myTid \in [Threads -> BOOLEAN] /\ addrSet \in [Threads -> BOOLEAN]
    /\ errCnt \in [Threads -> Nat]
    /\ listener \in {"off", "test", "select", "ended"} /\ stopThread \in BOOLEAN

(* What a datagram is to be answered to says which ping it is. *)
QueueInv ==
    /\ \E S : queue \in Seq(S)
    /\ Len(queue) <= QueueCap
    /\ \A i \in 1..Len(queue) : queue[i].replyTo = queue[i].serial

(* A thread has a ping socket only while it waits, each under its own path,  *)
(* and paths were given out in turn.                                         *)
PingInv ==
    /\ pings \in Nat
    /\ ping \in [Threads -> [addr : Nat, serial : Nat]]
    /\ \A t \in Threads : ping[t].addr = ping[t].serial /\ ping[t].addr <= pings
    /\ \A t \in Threads : ping[t].addr # 0 => pc[t] = "pingWait"
    /\ \A t, u \in Threads : ping[t].addr # 0 /\ ping[t].addr = ping[u].addr => t = u
    /\ boxes \subseteq {ping[t].addr : t \in Threads} \ {0}
    /\ \A a \in acks : a.addr = a.serial

AckInv == ControlTyped /\ QueueInv /\ PingInv

(* With path and serial equal on both sides, an answer found under the path  *)
(* of a ping is the answer to it.                                            *)
LEMMA AckInvIsEnough == AckInv => AckIsForThisPing
BY Zenon DEF AckInv, ControlTyped, QueueInv, PingInv, AckIsForThisPing, TypeOK, AnswersTo

(* Nobody has pinged yet. *)
LEMMA AckInit == Init => AckInv
<1> SUFFICES ASSUME Init PROVE AckInv
  BY Zenon
<1>1. ControlTyped
  BY Zenon DEF Init, InitSocket, InitClient, InitSink, ControlTyped, Labels
<1>2. QueueInv
  BY QueueCapAssumption DEF Init, InitSocket, QueueInv
<1>3. PingInv
  BY DEF Init, InitSocket, InitClient, PingInv, NoPing
<1> QED BY <1>1, <1>2, <1>3, Zenon DEF AckInv

(* Sending puts one datagram, with its reply path for serial, behind the     *)
(* others.                                                                   *)
LEMMA DeliverKeeps ==
  ASSUME QueueInv, NEW d, d.replyTo = d.serial, Deliver(d)
  PROVE  QueueInv'
<1>1. PICK S : queue \in Seq(S)
  BY Zenon DEF QueueInv
<1>2. queue \in Seq(S \cup {d}) /\ d \in S \cup {d}
  BY <1>1
<1>3. /\ queue' \in Seq(S \cup {d}) /\ Len(queue') = Len(queue) + 1
      /\ \A i \in 1..Len(queue) : queue'[i] = queue[i]
      /\ queue'[Len(queue) + 1] = d
  BY <1>2 DEF Deliver
<1>4. Len(queue) \in Nat /\ Len(queue) < QueueCap /\ QueueCap \in Nat
  BY <1>1, QueueCapAssumption DEF Deliver
<1>5. \A i \in 1..Len(queue') : queue'[i].replyTo = queue'[i].serial
  BY <1>3, <1>4 DEF QueueInv
<1>6. Len(queue') <= QueueCap
  BY <1>3, <1>4
<1> QED BY <1>3, <1>5, <1>6, Zenon DEF QueueInv

(* The socket's queue, through every step: clients and other programs append,  *)
(* the listener takes the head, the end of the logger empties it.              *)
LEMMA QueueStep == ASSUME AckInv, [Next]_vars PROVE QueueInv'
<1>0. QueueInv
  BY Zenon DEF AckInv
<1>1. CASE UNCHANGED queue
  BY <1>0, <1>1, Zenon DEF QueueInv
<1>2. ASSUME NEW cells, NEW msgs, Deliver(Datagram(cells, msgs)) PROVE QueueInv'
  BY <1>0, <1>2, DeliverKeeps, Zenon DEF Datagram
<1>3. ASSUME NEW t \in Threads, ClientStep(t) \/ ClientCall(t) PROVE QueueInv'
  <2>1. CASE SendToSink(t)
    BY <1>2, <2>1, Zenon DEF SendToSink
  <2>2. CASE PingSend(t)
    BY <1>0, <2>2, DeliverKeeps, Zenon DEF PingSend, PingDatagram, FreshPath
  <2>3. CASE UNCHANGED socketVars
    BY <1>1, <2>3, Zenon DEF socketVars
  <2>4. CASE PingAnswered(t) \/ PingFails(t) \/ PingError(t) \/ CloseAgain(t)
    BY <1>1, <2>4, Zenon DEF PingAnswered, PingFails, PingError, GiveUpSink, ClosePing,
                             CloseAgain
  <2>5. CASE ClearFound(t) \/ Search(t) \/ Searched(t) \/ SetupSink(t)
    BY <2>3, <2>5, Zenon DEF ClearFound, Search, Searched, SetupSink
  <2>6. CASE CheckLog(t) \/ CallLog(t) \/ LogLocal(t) \/ SendFails(t)
    BY <2>3, <2>6, Zenon DEF CheckLog, CallLog, LogLocal, SendFails
  <2>7. CASE InitLogger(t) \/ FastInitLogger(t) \/ Shutdown(t) \/ PingBindFails(t)
    BY <2>3, <2>7, Zenon DEF InitLogger, FastInitLogger, Shutdown, PingBindFails
  <2>8. ASSUME NEW n, Printf(t, n) PROVE QueueInv'
    BY <2>3, <2>8, Zenon DEF Printf
  <2>9. CASE ThreadStep(t)
    BY <2>1, <2>2, <2>4, <2>5, <2>6, <2>9, Zenon DEF ThreadStep
  <2>10. CASE ThreadCall(t)
    BY <2>4, <2>7, <2>8, <2>10, Zenon DEF ThreadCall
  <2> QED BY <1>3, <2>9, <2>10, Zenon DEF ClientStep, ClientCall
<1>4. CASE SinkStep
  <2>1. CASE TestStop
    BY <1>1, <2>1, Zenon DEF TestStop, socketVars
  <2>2. CASE Listen
    <3>1. PICK S : queue \in Seq(S)
      BY <1>0, Zenon DEF QueueInv
    <3>2. queue # <<>> /\ queue' = Tail(queue)
      BY <2>2, Zenon DEF Listen
    <3>3. /\ queue' \in Seq(S) /\ Len(queue') = Len(queue) - 1 /\ Len(queue) \in Nat
          /\ \A i \in 1..Len(queue') : queue'[i] = queue[i + 1]
      BY <3>1, <3>2
    <3> QED BY <1>0, <3>3, QueueCapAssumption DEF QueueInv
  <2> QED BY <1>4, <2>1, <2>2, Zenon DEF SinkStep
<1>5. CASE LoggerCall
  <2>1. CASE AddSink \/ Stop
    BY <1>1, <2>1, Zenon DEF AddSink, Stop, socketVars
  <2>2. CASE LoggerDies
    BY <2>2, QueueCapAssumption DEF LoggerDies, QueueInv
  <2> QED BY <1>5, <2>1, <2>2, Zenon DEF LoggerCall
<1>6. ASSUME NEW u, SendRaw(u) \/ SendTwo(u) \/ Syslog(u) PROVE QueueInv'
  BY <1>2, <1>6, Zenon DEF SendRaw, SendTwo, Syslog, OthersSend
<1>7. CASE UNCHANGED vars
  BY <1>1, <1>7, Zenon DEF vars, clientVars, socketVars
<1> QED BY <1>3, <1>4, <1>5, <1>6, <1>7, Zenon DEF Next

(* A step that leaves the sockets of pings alone and moves no thread that    *)
(* waits for an answer.                                                      *)
LEMMA PingQuiet ==
  ASSUME PingInv, UNCHANGED <<ping, pings, boxes, acks>>,
         \A t \in Threads : pc[t] = "pingWait" => pc'[t] = "pingWait"
  PROVE  PingInv'
BY DEF PingInv

(* The path of a new ping is nobody else's. *)
LEMMA PingSendKeeps ==
  ASSUME AckInv, NEW t \in Threads, PingSend(t)
  PROVE  PingInv'
<1>1. PingInv /\ pc \in [Threads -> Labels] /\ pc[t] = "ping"
  BY Zenon DEF AckInv, ControlTyped, PingSend
<1>2. /\ ping' = [ping EXCEPT ![t] = [addr |-> pings + 1, serial |-> pings + 1]]
      /\ boxes' = boxes \cup {pings + 1} /\ acks' = acks /\ pings' = pings + 1
      /\ pc' = [pc EXCEPT ![t] = "pingWait"]
  BY Zenon DEF PingSend, FreshPath, Goto
<1>3. ping[t].addr = 0
  BY <1>1, Zenon DEF PingInv
<1>4. /\ pings' \in Nat /\ ping' \in [Threads -> [addr : Nat, serial : Nat]]
      /\ \A u \in Threads : ping'[u].addr = ping'[u].serial /\ ping'[u].addr <= pings'
      /\ \A u \in Threads : ping'[u].addr # 0 => pc'[u] = "pingWait"
  BY <1>1, <1>2 DEF PingInv
<1>5. /\ ping'[t].addr = pings + 1
      /\ \A u \in Threads \ {t} : ping'[u].addr = ping[u].addr /\ ping[u].addr # pings + 1
  BY <1>1, <1>2 DEF PingInv
<1>6. \A u, v \in Threads : ping'[u].addr # 0 /\ ping'[u].addr = ping'[v].addr => u = v
  BY <1>1, <1>5 DEF PingInv
<1>7. boxes' \subseteq {ping'[u].addr : u \in Threads} \ {0}
  <2>1. boxes \subseteq {ping[u].addr : u \in Threads} \ {0} /\ pings + 1 # 0
    BY <1>1 DEF PingInv
  <2> QED BY <1>2, <1>3, <1>5, <2>1
<1> QED BY <1>1, <1>2, <1>4, <1>6, <1>7, Zenon DEF PingInv

(* A ping's socket goes, and the answers in it. *)
LEMMA ClosePingKeeps ==
  ASSUME AckInv, NEW t \in Threads, ClosePing(t), Goto(t, "idle"), pings' = pings
  PROVE  PingInv'
<1>1. PingInv /\ pc \in [Threads -> Labels]
  BY Zenon DEF AckInv, ControlTyped
<1>2. /\ ping' = [ping EXCEPT ![t] = [addr |-> 0, serial |-> 0]]
      /\ boxes' = boxes \ {ping[t].addr} /\ acks' \subseteq acks
      /\ pc' = [pc EXCEPT ![t] = "idle"]
  BY Zenon DEF ClosePing, NoPing, Goto
<1>3. /\ ping'[t].addr = 0 /\ ping'[t].serial = 0
      /\ \A u \in Threads \ {t} : ping'[u] = ping[u] /\ pc'[u] = pc[u]
      /\ ping' \in [Threads -> [addr : Nat, serial : Nat]]
  BY <1>1, <1>2, Zenon DEF PingInv
<1>4. /\ pings' \in Nat
      /\ \A u \in Threads : ping'[u].addr = ping'[u].serial /\ ping'[u].addr <= pings'
      /\ \A u \in Threads : ping'[u].addr # 0 => pc'[u] = "pingWait"
      /\ \A u, v \in Threads : ping'[u].addr # 0 /\ ping'[u].addr = ping'[v].addr => u = v
  BY <1>1, <1>3 DEF PingInv
<1>5. boxes' \subseteq {ping'[u].addr : u \in Threads} \ {0}
  <2>1. boxes \subseteq {ping[u].addr : u \in Threads} \ {0}
    BY <1>1, Zenon DEF PingInv
  <2> QED BY <1>2, <1>3, <2>1
<1> QED BY <1>1, <1>2, <1>3, <1>4, <1>5, Zenon DEF PingInv

(* The types of the control state, through the steps of a thread. *)
LEMMA ThreadTyped ==
  ASSUME ControlTyped, NEW t \in Threads, ThreadStep(t) \/ ThreadCall(t), UNCHANGED sinkVars
  PROVE  ControlTyped'
<1> USE DEF ControlTyped, Labels, Goto, initVars, sinkVars, socketVars
<1>1. CASE ClearFound(t)
  BY <1>1, Zenon DEF ClearFound
<1>2. CASE Search(t)
  BY <1>2, Zenon DEF Search
<1>3. CASE Searched(t)
  BY <1>3, Zenon DEF Searched
<1>4. CASE SetupSink(t)
  BY <1>4 DEF SetupSink
<1>5. CASE PingSend(t)
  BY <1>5, Zenon DEF PingSend, Deliver
<1>6. CASE PingAnswered(t)
  BY <1>6, Zenon DEF PingAnswered, ClosePing
<1>7. CASE GiveUpSink(t)
  BY <1>7, Zenon DEF GiveUpSink, ClosePing
<1>8. CASE CheckLog(t)
  BY <1>8, Zenon DEF CheckLog, ToStderr, Leaves
<1>9. CASE CallLog(t)
  BY <1>9, Zenon DEF CallLog
<1>10. CASE LogLocal(t)
  BY <1>10, Zenon DEF LogLocal, ToStderr, Leaves
<1>11. CASE SendToSink(t)
  BY <1>11, Zenon DEF SendToSink, Deliver, Leaves
<1>12. CASE SendFails(t)
  BY <1>12 DEF SendFails, ToStderr, Leaves
<1>13. CASE InitLogger(t)
  BY <1>13, Zenon DEF InitLogger
<1>14. CASE FastInitLogger(t)
  BY <1>14, Zenon DEF FastInitLogger
<1>15. CASE Shutdown(t)
  BY <1>15, Zenon DEF Shutdown
<1>16. ASSUME NEW n, Printf(t, n) PROVE ControlTyped'
  BY <1>16, Zenon DEF Printf
<1>19. CASE CloseAgain(t)
  BY <1>19, Zenon DEF CloseAgain
<1>20. CASE PingBindFails(t)
  BY <1>20, Zenon DEF PingBindFails
<1> HIDE DEF ControlTyped, Goto, initVars, sinkVars, socketVars
<1>17. CASE ThreadStep(t)
  BY <1>1, <1>2, <1>3, <1>4, <1>5, <1>6, <1>7, <1>8, <1>9, <1>10, <1>11, <1>12, <1>17,
     <1>19, Zenon DEF ThreadStep, PingFails
<1>18. CASE ThreadCall(t)
  BY <1>7, <1>13, <1>14, <1>15, <1>16, <1>18, <1>20, Zenon DEF ThreadCall, PingError
<1> QED BY <1>17, <1>18, Zenon

(* The types of the control state, through every step. *)
LEMMA ControlStep == ASSUME AckInv, [Next]_vars PROVE ControlTyped'
<1>0. ControlTyped
  BY Zenon DEF AckInv
<1>1. ASSUME NEW t \in Threads, ClientStep(t) \/ ClientCall(t) PROVE ControlTyped'
  BY <1>0, <1>1, ThreadTyped, Zenon DEF ClientStep, ClientCall
<1>2. CASE SinkStep
  BY <1>0, <1>2, Zenon DEF SinkStep, TestStop, Listen, ControlTyped, initVars, socketVars
<1>3. CASE LoggerCall
  BY <1>0, <1>3, Zenon DEF LoggerCall, AddSink, Bind, BindSyslog, StartUnix, StartSyslog, Stop,
     LoggerDies, ControlTyped, initVars, socketVars
<1>4. ASSUME NEW u, SendRaw(u) \/ SendTwo(u) \/ Syslog(u) PROVE ControlTyped'
  <2>1. UNCHANGED <<bound, initVars, pc, sinkVars>>
    BY <1>4, Zenon DEF SendRaw, SendTwo, Syslog, OthersSend, Deliver
  <2> QED BY <1>0, <2>1, Zenon DEF ControlTyped, initVars, sinkVars
<1>5. CASE UNCHANGED vars
  BY <1>0, <1>5, Zenon DEF vars, clientVars, ControlTyped, initVars, sinkVars, socketVars
<1> QED BY <1>1, <1>2, <1>3, <1>4, <1>5, Zenon DEF Next

(* The sockets of pings, through the steps of a thread: only PingSend makes  *)
(* one, and whoever leaves ping_sink() removes it; a second close() of its   *)
(* number by another thread takes the socket, but not the path.              *)
LEMMA ThreadPings ==
  ASSUME AckInv, NEW t \in Threads, ThreadStep(t) \/ ThreadCall(t)
  PROVE  PingInv'
<1>0. PingInv /\ pc \in [Threads -> Labels]
  BY Zenon DEF AckInv, ControlTyped
<1>1. ASSUME UNCHANGED <<ping, pings, boxes, acks>>, pc[t] # "pingWait",
             pc' = pc \/ \E l : Goto(t, l)
      PROVE  PingInv'
  BY <1>0, <1>1, PingQuiet, Zenon DEF Goto
<1>2. CASE PingSend(t)
  BY <1>2, PingSendKeeps, Zenon
<1>3. CASE PingAnswered(t)
  BY <1>3, ClosePingKeeps, Zenon DEF PingAnswered
<1>4. CASE GiveUpSink(t)
  BY <1>4, ClosePingKeeps, Zenon DEF GiveUpSink
<1> USE DEF initVars, socketVars
<1>5. CASE ClearFound(t) \/ Search(t)
  BY <1>1, <1>5, Zenon DEF ClearFound, Search
<1>6. CASE Searched(t)
  BY <1>1, <1>6, Zenon DEF Searched
<1>7. CASE SetupSink(t)
  BY <1>1, <1>7, Zenon DEF SetupSink
<1>8. CASE CheckLog(t) \/ CallLog(t) \/ LogLocal(t)
  BY <1>1, <1>8, Zenon DEF CheckLog, CallLog, LogLocal, ToStderr, Leaves
<1>9. CASE SendToSink(t) \/ SendFails(t)
  BY <1>1, <1>9, Zenon DEF SendToSink, SendFails, ToStderr, Leaves
<1>10. CASE InitLogger(t) \/ FastInitLogger(t) \/ Shutdown(t) \/ PingBindFails(t)
  BY <1>1, <1>10, Zenon DEF InitLogger, FastInitLogger, Shutdown, PingBindFails
<1>11. ASSUME NEW n, Printf(t, n) PROVE PingInv'
  BY <1>1, <1>11, Zenon DEF Printf
<1>14. CASE CloseAgain(t)
  <2>1. /\ pc[t] = "closeAgain" /\ pc' = [pc EXCEPT ![t] = "idle"] /\ UNCHANGED <<ping, pings>>
        /\ boxes' \subseteq boxes /\ acks' \subseteq acks
    BY <1>14, Zenon DEF CloseAgain, Goto
  <2>2. \A u \in Threads : pc[u] = "pingWait" => pc'[u] = "pingWait"
    BY <1>0, <2>1, Zenon
  <2>3. \A u \in Threads : ping'[u].addr # 0 => pc'[u] = "pingWait"
    BY <1>0, <2>1, <2>2, Zenon DEF PingInv
  <2>4. boxes' \subseteq {ping'[u].addr : u \in Threads} \ {0}
    <3>1. boxes \subseteq {ping[u].addr : u \in Threads} \ {0}
      BY <1>0, Zenon DEF PingInv
    <3> QED BY <2>1, <3>1
  <2> QED BY <1>0, <2>1, <2>3, <2>4, Zenon DEF PingInv
<1> HIDE DEF initVars, socketVars
<1>12. CASE ThreadStep(t)
  BY <1>2, <1>3, <1>4, <1>5, <1>6, <1>7, <1>8, <1>9, <1>12, <1>14, Zenon
     DEF ThreadStep, PingFails
<1>13. CASE ThreadCall(t)
  BY <1>4, <1>10, <1>11, <1>13, Zenon DEF ThreadCall, PingError
<1> QED BY <1>12, <1>13, Zenon

(* The sockets of pings, through every step: the listener answers with the   *)
(* serial of the datagram, which is its path.                                *)
LEMMA PingStep == ASSUME AckInv, [Next]_vars PROVE PingInv'
<1>0. PingInv /\ QueueInv
  BY Zenon DEF AckInv
<1>1. CASE UNCHANGED <<ping, pings, boxes, acks, pc>>
  BY <1>0, <1>1, PingQuiet, Zenon
<1>2. ASSUME NEW t \in Threads, ClientStep(t) \/ ClientCall(t) PROVE PingInv'
  BY <1>2, ThreadPings, Zenon DEF ClientStep, ClientCall
<1>3. CASE SinkStep
  <2>1. CASE TestStop
    BY <1>1, <1>3, <2>1, Zenon DEF SinkStep, TestStop, socketVars, initVars
  <2>2. CASE Listen
    <3>1. PICK S : queue \in Seq(S)
      BY <1>0, Zenon DEF QueueInv
    <3>2. queue # <<>> /\ (acks' = acks \/ acks' = Reply(Head(queue)))
      BY <2>2, Zenon DEF Listen
    <3>3. Head(queue).replyTo = Head(queue).serial
      BY <1>0, <3>1, <3>2 DEF QueueInv
    <3>4. \A a \in acks' : a.addr = a.serial
      BY <1>0, <3>2, <3>3 DEF Reply, PingInv
    <3>5. UNCHANGED <<ping, pings, boxes, pc>>
      BY <1>3, <2>2, Zenon DEF SinkStep, Listen, initVars
    <3>6. boxes' \subseteq {ping'[u].addr : u \in Threads} \ {0}
      <4>1. boxes \subseteq {ping[u].addr : u \in Threads} \ {0}
        BY <1>0, Zenon DEF PingInv
      <4> QED BY <3>5, <4>1
    <3> QED BY <1>0, <3>4, <3>5, <3>6, Zenon DEF PingInv
  <2> QED BY <1>3, <2>1, <2>2, Zenon DEF SinkStep
<1>4. CASE LoggerCall
  BY <1>1, <1>4, Zenon DEF LoggerCall, AddSink, Stop, LoggerDies, socketVars, initVars
<1>5. ASSUME NEW u, SendRaw(u) \/ SendTwo(u) \/ Syslog(u) PROVE PingInv'
  BY <1>1, <1>5, Zenon DEF SendRaw, SendTwo, Syslog, OthersSend, initVars
<1>6. CASE UNCHANGED vars
  BY <1>1, <1>6, Zenon DEF vars, clientVars, socketVars, initVars
<1> QED BY <1>2, <1>3, <1>4, <1>5, <1>6, Zenon DEF Next

(* ping_sink() never takes a late answer to a ping that timed out, its own   *)
(* or another thread's, for the answer to the ping it waits for.             *)
THEOREM AcksMatchPings == Spec => []AckIsForThisPing
<1>1. AckInv /\ [Next]_vars => AckInv'
  BY ControlStep, QueueStep, PingStep, Zenon DEF AckInv
<1> QED BY <1>1, AckInit, AckInvIsEnough, PTL DEF Spec
=============================================================================
