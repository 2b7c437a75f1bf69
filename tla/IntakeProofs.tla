----------------------------- MODULE IntakeProofs -----------------------------
(***************************************************************************)
(* Proofs about Intake, for every size of the pool and of the command      *)
(* queue, any number of callers, readers and targets, and any number of    *)
(* messages.                                                               *)
(***************************************************************************)
EXTENDS Intake, FiniteSetTheorems, TLAPS

-----------------------------------------------------------------------------
(* A pool that holds each entry at most once. *)

(* An entry comes back to the pool. *)
LEMMA AppendRange ==
  ASSUME NEW S, NEW s \in Seq(S), NEW x \in S
  PROVE  /\ Append(s, x) \in Seq(S)
         /\ Range(Append(s, x)) = Range(s) \cup {x}
         /\ IsInjective(s) /\ x \notin Range(s) => IsInjective(Append(s, x))
<1>1. Append(s, x) \in Seq(S) /\ Len(Append(s, x)) = Len(s) + 1
  OBVIOUS
<1>2. /\ \A i \in 1 .. Len(s) : Append(s, x)[i] = s[i]
      /\ Append(s, x)[Len(s) + 1] = x
  OBVIOUS
<1>3. Range(Append(s, x)) = Range(s) \cup {x}
  BY <1>1, <1>2 DEF Range
<1>4. IsInjective(s) /\ x \notin Range(s) => IsInjective(Append(s, x))
  BY <1>1, <1>2 DEF Range, IsInjective
<1> QED BY <1>1, <1>3, <1>4, Zenon

(* The first entry of the pool is taken. *)
LEMMA TailRange ==
  ASSUME NEW S, NEW s \in Seq(S), s # <<>>
  PROVE  /\ Head(s) \in S /\ Head(s) \in Range(s)
         /\ Tail(s) \in Seq(S)
         /\ Len(Tail(s)) = Len(s) - 1
         /\ IsInjective(s) => /\ Range(Tail(s)) = Range(s) \ {Head(s)}
                              /\ IsInjective(Tail(s))
<1>1. /\ Tail(s) \in Seq(S) /\ Len(Tail(s)) = Len(s) - 1
      /\ Len(s) \in Nat \ {0} /\ DOMAIN s = 1 .. Len(s)
      /\ DOMAIN Tail(s) = 1 .. Len(s) - 1
  OBVIOUS
<1>2. Head(s) = s[1] /\ \A i \in 1 .. Len(s) - 1 : Tail(s)[i] = s[i + 1]
  OBVIOUS
<1>3. Head(s) \in S /\ Head(s) \in Range(s)
  BY <1>1, <1>2 DEF Range
<1>4. ASSUME IsInjective(s)
      PROVE  Range(Tail(s)) = Range(s) \ {Head(s)} /\ IsInjective(Tail(s))
  <2>1. \A i \in 2 .. Len(s) : i - 1 \in 1 .. Len(s) - 1 /\ s[i] = Tail(s)[i - 1]
    BY <1>1, <1>2
  <2>2. \A i \in 2 .. Len(s) : s[i] # s[1]
    BY <1>1, <1>4 DEF IsInjective
  <2>3. \A x \in Range(s) \ {Head(s)} : x \in Range(Tail(s))
    <3> TAKE x \in Range(s) \ {Head(s)}
    <3>1. PICK i \in 1 .. Len(s) : x = s[i]
      BY <1>1, Zenon DEF Range
    <3>2. i \in 2 .. Len(s)
      BY <1>1, <1>2, <3>1
    <3> QED BY <1>1, <2>1, <3>1, <3>2, Zenon DEF Range
  <2>5. \A x \in Range(Tail(s)) : x \in Range(s) \ {Head(s)}
    <3> TAKE x \in Range(Tail(s))
    <3>1. PICK i \in 1 .. Len(s) - 1 : x = Tail(s)[i]
      BY <1>1, Zenon DEF Range
    <3> QED BY <1>1, <1>2, <2>2, <3>1 DEF Range
  <2>4. IsInjective(Tail(s))
    BY <1>1, <1>2, <1>4 DEF IsInjective
  <2> QED BY <2>3, <2>4, <2>5, Zenon
<1> QED BY <1>1, <1>3, <1>4, Zenon

(* A pool without repetition is no longer than the set it draws from. *)
LEMMA InjectiveLength ==
  ASSUME NEW S, NEW s \in Seq(S), IsFiniteSet(S), IsInjective(s)
  PROVE  Len(s) <= Cardinality(S)
<1>1. s \in [1 .. Len(s) -> Range(s)] /\ Len(s) \in Nat /\ Range(s) \subseteq S
  BY DEF Range
<1>2. s \in Bijection(1 .. Len(s), Range(s))
  BY <1>1, Zenon DEF Bijection, Injection, Surjection, IsInjective, Range
<1>3. IsFiniteSet(1 .. Len(s)) /\ Cardinality(1 .. Len(s)) = Len(s)
  <2>1. 1 \in Int /\ Len(s) \in Int
    BY <1>1
  <2>2. /\ IsFiniteSet(1 .. Len(s))
        /\ Cardinality(1 .. Len(s)) = IF 1 > Len(s) THEN 0 ELSE Len(s) - 1 + 1
    BY <2>1, FS_Interval, Zenon
  <2> QED BY <1>1, <2>2
<1>4. Cardinality(Range(s)) = Len(s)
  BY <1>2, <1>3, FS_Bijection, Zenon DEF ExistsBijection
<1>5. Cardinality(Range(s)) <= Cardinality(S)
  BY <1>1, FS_Subset, Zenon
<1> QED BY <1>4, <1>5, Zenon

-----------------------------------------------------------------------------
(* The inductive invariant. *)

(* What the place of a thread says of the entry and the message it carries. *)
ThreadInv ==
  \A p \in Threads :
    /\ pc[p] \in {"idle", "send"} => hold[p] = NoEntry
    /\ pc[p] \in {"read", "giveBack"} => hold[p] # NoEntry
    /\ pc[p] = "read" => p \in Producers /\ sent[p] < MaxMsgs
    /\ pc[p] = "enqueue" =>
         /\ p \in Producers /\ mine[p] \in Logged
         /\ mine[p].from = p /\ mine[p].n = sent[p] /\ mine[p].size \in Sizes
         /\ hold[p] = NoEntry <=> mine[p].size = "huge"

(* The command loop has a log entry in hand exactly while it writes it. *)
LoggerInv ==
  /\ logger # "write" => target = 1
  /\ logger = "write" => cmd \in [c : {"NEW_LOG"}, entry : Entries, m : Logged]

(* Every entry is in exactly one of four places. *)
Owners ==
  /\ Range(masterBufferAvail) \cup Queued \cup Held \cup Handling = Entries
  /\ Range(masterBufferAvail) \cap (Queued \cup Held \cup Handling) = {}
  /\ Queued \cap (Held \cup Handling) = {} /\ Held \cap Handling = {}

(* It is there once. *)
Once ==
  /\ IsInjective(masterBufferAvail)
  /\ \A i, j \in Carrying : internalCmdQueue[i].entry = internalCmdQueue[j].entry => i = j
  /\ \A p, q \in Threads : hold[p] # NoEntry /\ hold[p] = hold[q] => p = q

(* And it holds the message it was taken for, or queued with. *)
Intact ==
  /\ \A p \in Threads :
       pc[p] = "enqueue" /\ hold[p] # NoEntry => content[hold[p]] = mine[p]
  /\ \A i \in Carrying : content[internalCmdQueue[i].entry] = internalCmdQueue[i].m
  /\ logger = "write" => content[cmd.entry] = cmd.m

(* The message a command is about. *)
Messaging ==
  {i \in 1 .. Len(internalCmdQueue) :
     internalCmdQueue[i].c \in {"NEW_LOG", "WRITE_TARGET_OVERFLOW"}}

(* Messages the queue took: their producer begins none with that number again. *)
Known ==
  {m \in Logged \cup Posted :
     /\ Original(m) \in accepted
     /\ m.size \in Sizes /\ m.n <= sent[m.from]
     /\ pc[m.from] = "enqueue" => m.n < sent[m.from]}

(* a may come before b on the way to a target: b was logged later, or one of  *)
(* them is large and they are different messages, or overflows of one message *)
(* that different targets posted.                                             *)
Before(a, b) ==
  a.from = b.from =>
    IF "large" \in {a.size, b.size}
    THEN a.n # b.n \/ (a.by # 0 /\ b.by # 0 /\ a.by # b.by) ELSE a.n < b.n

KnownInv ==
  /\ \A i \in Messaging : internalCmdQueue[i].m \in Known
  /\ logger = "write" => cmd.m \in Known
  /\ \A t \in Targets : \A i \in 1 .. Len(written[t]) : written[t][i] \in Known

(* From what a target has got, over what the loop has in hand, to the end of  *)
(* the queue, messages are in order. A large message in hand has left a copy  *)
(* in the queue for each target it has passed, and no target has got one.     *)
WrittenOrder ==
  \A t \in Targets : \A i, j \in 1 .. Len(written[t]) :
    i < j => Before(written[t][i], written[t][j])
WrittenBeforeCmd ==
  \A t \in Targets : \A i \in 1 .. Len(written[t]) :
    logger = "write" /\ (target <= t \/ cmd.m.size = "large") => Before(written[t][i], cmd.m)
WrittenBeforeQueue ==
  \A t \in Targets : \A i \in 1 .. Len(written[t]) : \A j \in Messaging :
    Before(written[t][i], internalCmdQueue[j].m)
CopiesOf(m, k) == k.from = m.from /\ k.n = m.n => k.by \in 1 .. target - 1
CmdBeforeQueue ==
  logger = "write" =>
    \A j \in Messaging :
      IF cmd.m.size = "large" THEN CopiesOf(cmd.m, internalCmdQueue[j].m)
      ELSE Before(cmd.m, internalCmdQueue[j].m)
QueueOrder ==
  \A i, j \in Messaging : i < j => Before(internalCmdQueue[i].m, internalCmdQueue[j].m)

OrderInv ==
  /\ WrittenOrder /\ WrittenBeforeCmd /\ WrittenBeforeQueue
  /\ CmdBeforeQueue /\ QueueOrder

-----------------------------------------------------------------------------
(* Types, and the places of threads. *)

Control == TypeOK /\ ThreadInv /\ LoggerInv

(* The commands of the internal queue, and what each carries. *)
LEMMA CommandTypes ==
  /\ \A e \in Entries, m \in Logged : NewLog(e, m) \in Commands
  /\ \A m \in Posted : Overflow(m) \in Commands
  /\ RotateBuffer \in Commands /\ Shutdown \in Commands
  /\ \A c \in Commands : c.c = "NEW_LOG" =>
       c \in [c : {"NEW_LOG"}, entry : Entries, m : Logged]
  /\ \A c \in Commands : c.c = "WRITE_TARGET_OVERFLOW" => c.m \in Posted
<1>1. \A e \in Entries, m \in Logged : NewLog(e, m) \in Commands
  BY Zenon DEF NewLog, Commands
<1>2. \A m \in Posted : Overflow(m) \in Commands
  BY Zenon DEF Overflow, Commands
<1>3. RotateBuffer \in Commands /\ Shutdown \in Commands
  BY Zenon DEF RotateBuffer, Shutdown, Commands
<1>4. \A c \in Commands : c.c = "NEW_LOG" =>
       c \in [c : {"NEW_LOG"}, entry : Entries, m : Logged]
  BY Zenon DEF Commands
<1>5. \A c \in Commands : c.c = "WRITE_TARGET_OVERFLOW" => c.m \in Posted
  BY Zenon DEF Commands
<1> QED BY <1>1, <1>2, <1>3, <1>4, <1>5, Zenon

(* addMvIfRoom() of a command leaves a queue of commands. *)
LEMMA AddIfRoomType ==
  ASSUME internalCmdQueue \in Seq(Commands), NEW c \in Commands, AddIfRoom(c)
  PROVE  internalCmdQueue' \in Seq(Commands)
BY DEF AddIfRoom

(* No thread holds an entry at first. *)
LEMMA ControlInit == Init => Control
<1> SUFFICES ASSUME Init PROVE Control
  BY Zenon
<1> USE ConstantsAssumption DEF Init
<1>1. masterBufferAvail \in Seq(Entries)
  BY DEF Entries
<1>2. TypeOK
  <2>1. written \in [Targets -> Seq(Posted)] /\ internalCmdQueue \in Seq(Commands)
    OBVIOUS
  <2>2. target \in 1 .. NumTargets + 1 /\ sent \in [Producers -> 0 .. MaxMsgs]
    OBVIOUS
  <2> QED BY <1>1, <2>1, <2>2, Zenon DEF TypeOK
<1>3. ThreadInv
  BY Zenon DEF ThreadInv
<1> QED BY <1>2, <1>3, Zenon DEF Control, LoggerInv

(* The message a producer begins. *)
LEMMA NewMessage ==
  ASSUME Control, NEW p \in Producers, NEW size \in Sizes, sent[p] < MaxMsgs
  PROVE  /\ [from |-> p, n |-> sent[p] + 1, size |-> size, by |-> 0] \in Logged
         /\ sent[p] + 1 \in 0 .. MaxMsgs
<1>1. sent[p] \in 0 .. MaxMsgs /\ MaxMsgs \in Nat /\ size \in AllSizes
  BY ConstantsAssumption, Zenon DEF Control, TypeOK
<1>2. sent[p] + 1 \in 1 .. MaxMsgs /\ sent[p] + 1 \in 0 .. MaxMsgs
  BY <1>1
<1> QED BY <1>1, <1>2, Zenon DEF Logged

(* What overflow commands and targets get: a huge or a small message as it    *)
(* was logged, and a copy of a large one.                                     *)
LEMMA PostedMessage ==
  ASSUME NEW m \in Logged
  PROVE  /\ m.size = "small" \/ m.size = "huge" => m \in Posted
         /\ Original(m) = m /\ m.by = 0
         /\ \A t \in Targets :
              /\ m.size = "large" => Copy(m, t) \in Posted
              /\ Original(Copy(m, t)) = m
              /\ Copy(m, t).from = m.from /\ Copy(m, t).n = m.n
              /\ Copy(m, t).size = m.size /\ Copy(m, t).by = t
<1>1. PICK f \in Producers, n \in 1 .. MaxMsgs, z \in AllSizes :
        m = [from |-> f, n |-> n, size |-> z, by |-> 0]
  BY Zenon DEF Logged
<1>2. m.size = "small" \/ m.size = "huge" => m \in Posted
  BY <1>1 DEF Posted
<1>3. Original(m) = m /\ m.by = 0
  BY <1>1 DEF Original
<1>4. ASSUME NEW t \in Targets
      PROVE  Copy(m, t) = [from |-> f, n |-> n, size |-> z, by |-> t]
  BY <1>1 DEF Copy
<1>5. ASSUME NEW t \in Targets
      PROVE  /\ m.size = "large" => Copy(m, t) \in Posted
             /\ Copy(m, t).from = m.from /\ Copy(m, t).n = m.n
             /\ Copy(m, t).size = m.size /\ Copy(m, t).by = t
  <2>1. m.size = z /\ m.from = f /\ m.n = n
    BY <1>1
  <2>2. PICK k : k = [from |-> f, n |-> n, size |-> z, by |-> t]
    BY Zenon
  <2>3. k.from = f /\ k.n = n /\ k.size = z /\ k.by = t /\ (z = "large" => k \in Posted)
    BY <2>2 DEF Posted
  <2> QED BY <1>4, <2>1, <2>2, <2>3, Zenon
<1>6. ASSUME NEW t \in Targets PROVE Original(Copy(m, t)) = m
  <2>1. [[from |-> f, n |-> n, size |-> z, by |-> t] EXCEPT !.by = 0]
          = [from |-> f, n |-> n, size |-> z, by |-> 0]
    OBVIOUS
  <2> QED BY <1>1, <1>4, <2>1, Zenon DEF Original
<1> QED BY <1>2, <1>3, <1>5, <1>6, Zenon

(* An entry is a pointer, never NULL. *)
LEMMA EntryNotNone == \A e \in Entries : e # NoEntry
BY ConstantsAssumption DEF Entries, NoEntry

(* _log() takes an entry for a message that fits one. *)
LEMMA LogSmallControl ==
  ASSUME Control, NEW p \in Callers, NEW size \in Sizes, LogSmall(p, size)
  PROVE  Control'
<1> DEFINE m == [from |-> p, n |-> sent[p] + 1, size |-> size, by |-> 0]
           e == Head(masterBufferAvail)
<1> USE DEF Control, pool, threads, loop
<1>1. p \in Producers /\ p \in Threads /\ m \in Logged /\ sent[p] + 1 \in 0 .. MaxMsgs
  BY NewMessage, Zenon DEF LogSmall, Producers, Threads
<1>2. e \in Entries /\ Tail(masterBufferAvail) \in Seq(Entries) /\ e # NoEntry
  <2>1. masterBufferAvail \in Seq(Entries) /\ masterBufferAvail # <<>>
    BY Zenon DEF TypeOK, LogSmall, PoolTake
  <2>2. e \in Entries /\ Tail(masterBufferAvail) \in Seq(Entries)
    BY <2>1
  <2> QED BY <2>2, EntryNotNone, Zenon
<1> HIDE DEF m, e
<1>3. /\ hold' = [hold EXCEPT ![p] = e] /\ masterBufferAvail' = Tail(masterBufferAvail)
      /\ pc' = [pc EXCEPT ![p] = "enqueue"] /\ mine' = [mine EXCEPT ![p] = m]
      /\ sent' = [sent EXCEPT ![p] = @ + 1] /\ content' = [content EXCEPT ![e] = m]
      /\ UNCHANGED <<internalCmdQueue, asyncPending, closed, loop, accepted, written>>
  BY Zenon DEF LogSmall, PoolTake, m, e
<1>4. m.from = p /\ m.n = sent[p] + 1 /\ m.size = size /\ size # "huge"
  BY Zenon DEF m, LogSmall
<1>5. TypeOK'
  BY <1>1, <1>2, <1>3, Zenon DEF TypeOK
<1>6. ThreadInv'
  BY <1>1, <1>2, <1>3, <1>4 DEF TypeOK, ThreadInv
<1> QED BY <1>3, <1>5, <1>6, Zenon DEF LoggerInv

(* Steps of a producer that touch neither the pool nor the queue. *)
LEMMA PrivateControl ==
  ASSUME Control, NEW p \in Producers,
         \/ PoolEmpty(p) \/ LogHuge(p) \/ ReadNothing(p) \/ ReadIncomplete(p)
         \/ \E size \in Sizes : Read(p, size)
  PROVE  Control'
<1> USE DEF Control, pool, threads, loop
<1>0. p \in Threads
  BY Zenon DEF Threads
<1>1. CASE PoolEmpty(p)
  <2>1. sent[p] + 1 \in 0 .. MaxMsgs /\ sent[p] \in 0 .. MaxMsgs
    BY <1>1, ConstantsAssumption DEF PoolEmpty, TypeOK
  <2>2. PICK at \in {"idle", "left"} : pc' = [pc EXCEPT ![p] = at]
    BY <1>1, Zenon DEF PoolEmpty
  <2>3. TypeOK'
    BY <1>0, <1>1, <2>1, <2>2, Zenon DEF PoolEmpty, TypeOK
  <2>4. ThreadInv'
    BY <1>0, <1>1, <2>1, <2>2 DEF PoolEmpty, TypeOK, ThreadInv
  <2> QED BY <1>1, <2>3, <2>4, Zenon DEF PoolEmpty, LoggerInv
<1>2. CASE LogHuge(p)
  <2> DEFINE m == [from |-> p, n |-> sent[p] + 1, size |-> "huge", by |-> 0]
  <2>1. m \in Logged /\ sent[p] + 1 \in 0 .. MaxMsgs
    BY <1>2, NewMessage, Zenon DEF LogHuge
  <2>2. m.from = p /\ m.n = sent[p] + 1 /\ m.size = "huge"
    BY Zenon
  <2>3. mine' = [mine EXCEPT ![p] = m]
    BY <1>2, Zenon DEF LogHuge
  <2> HIDE DEF m
  <2>4. TypeOK'
    BY <1>0, <1>2, <2>1, <2>3, Zenon DEF LogHuge, TypeOK
  <2>5. ThreadInv'
    BY <1>0, <1>2, <2>1, <2>2, <2>3 DEF LogHuge, TypeOK, ThreadInv
  <2> QED BY <1>2, <2>4, <2>5, Zenon DEF LogHuge, LoggerInv
<1>3. ASSUME NEW size \in Sizes, Read(p, size) PROVE Control'
  <2> DEFINE m == [from |-> p, n |-> sent[p] + 1, size |-> size, by |-> 0]
  <2>1. m \in Logged /\ sent[p] + 1 \in 0 .. MaxMsgs
    BY <1>0, <1>3, NewMessage, Zenon DEF Read, ThreadInv
  <2>2. m.from = p /\ m.n = sent[p] + 1 /\ m.size = size
    BY Zenon
  <2>3. /\ pc[p] = "read" /\ size # "huge"
        /\ mine' = [mine EXCEPT ![p] = m] /\ content' = [content EXCEPT ![hold[p]] = m]
        /\ sent' = [sent EXCEPT ![p] = @ + 1] /\ pc' = [pc EXCEPT ![p] = "enqueue"]
        /\ UNCHANGED <<masterBufferAvail, internalCmdQueue, asyncPending, closed, hold, loop,
                       accepted, written>>
    BY <1>3, Zenon DEF Read
  <2> HIDE DEF m
  <2>4. TypeOK'
    BY <1>0, <2>1, <2>3, Zenon DEF TypeOK
  <2>5. ThreadInv'
    BY <1>0, <2>1, <2>2, <2>3 DEF TypeOK, ThreadInv
  <2> QED BY <1>3, <2>4, <2>5, Zenon DEF Read, LoggerInv
<1>4. CASE ReadNothing(p) \/ ReadIncomplete(p)
  <2>1. TypeOK'
    BY <1>0, <1>4, Zenon DEF ReadNothing, ReadIncomplete, TypeOK
  <2>2. ThreadInv'
    BY <1>0, <1>4 DEF ReadNothing, ReadIncomplete, TypeOK, ThreadInv
  <2> QED BY <1>4, <2>1, <2>2, Zenon DEF ReadNothing, ReadIncomplete, LoggerInv
<1> QED BY <1>1, <1>2, <1>3, <1>4, Zenon

(* Steps of a thread on the pool or on the queue. *)
LEMMA SharedControl ==
  ASSUME Control, NEW p \in Threads,
         (p \in Readers /\ Grab(p)) \/ Enqueue(p) \/ Send(p) \/ GiveBack(p)
  PROVE  Control'
<1> USE DEF Control, pool, threads, loop
<1>1. CASE p \in Readers /\ Grab(p)
  <2>0. p \in Producers
    BY <1>1, Zenon DEF Producers
  <2>1. masterBufferAvail \in Seq(Entries) /\ masterBufferAvail # <<>>
    BY <1>1, Zenon DEF TypeOK, Grab, PoolTake
  <2>2. /\ Head(masterBufferAvail) \in Entries /\ Tail(masterBufferAvail) \in Seq(Entries)
        /\ Head(masterBufferAvail) # NoEntry
    BY <2>1, EntryNotNone
  <2>3. TypeOK'
    BY <1>1, <2>2, Zenon DEF Grab, PoolTake, TypeOK
  <2>4. ThreadInv'
    BY <1>1, <2>0, <2>2 DEF Grab, PoolTake, TypeOK, ThreadInv
  <2> QED BY <1>1, <2>3, <2>4, Zenon DEF Grab, LoggerInv
<1>2. CASE Enqueue(p)
  <2> DEFINE c == IF mine[p].size # "huge" THEN NewLog(hold[p], mine[p]) ELSE Overflow(mine[p])
  <2>1. /\ p \in Producers /\ mine[p] \in Logged
        /\ hold[p] = NoEntry <=> mine[p].size = "huge"
    BY <1>2, Zenon DEF Enqueue, ThreadInv
  <2>2. c \in Commands
    <3>1. mine[p].size = "huge" => mine[p] \in Posted
      BY <2>1, PostedMessage, Zenon
    <3>2. mine[p].size # "huge" => hold[p] \in Entries
      BY <2>1, Zenon DEF TypeOK
    <3> QED BY <2>1, <3>1, <3>2, CommandTypes, Zenon
  <2>3. internalCmdQueue' \in Seq(Commands)
    BY <1>2, <2>2, AddIfRoomType, Zenon DEF Enqueue, TypeOK
  <2>4. TypeOK'
    BY <1>2, <2>1, <2>3, Zenon DEF Enqueue, TypeOK
  <2>5. ThreadInv'
    BY <1>2, <2>1 DEF Enqueue, TypeOK, ThreadInv
  <2> QED BY <1>2, <2>4, <2>5, Zenon DEF Enqueue, LoggerInv
<1>3. CASE Send(p)
  <2>1. TypeOK'
    BY <1>3, Zenon DEF Send, TypeOK
  <2>2. ThreadInv'
    BY <1>3 DEF Send, TypeOK, ThreadInv
  <2> QED BY <1>3, <2>1, <2>2, Zenon DEF Send, LoggerInv
<1>4. CASE GiveBack(p)
  <2>1. hold[p] \in Entries
    BY <1>4 DEF GiveBack, ThreadInv, TypeOK
  <2>2. masterBufferAvail' \in Seq(Entries)
    BY <1>4, <2>1 DEF GiveBack, PoolAdd, TypeOK
  <2>3. TypeOK'
    BY <1>4, <2>1, <2>2, Zenon DEF GiveBack, PoolAdd, TypeOK
  <2>4. ThreadInv'
    BY <1>4 DEF GiveBack, TypeOK, ThreadInv
  <2> QED BY <1>4, <2>3, <2>4, Zenon DEF GiveBack, LoggerInv
<1> QED BY <1>1, <1>2, <1>3, <1>4, Zenon

(* shutdown() only queues its command. *)
LEMMA ShutdownControl ==
  ASSUME Control, RequestShutdown
  PROVE  Control'
<1> USE DEF Control, pool, threads, loop
<1>0. Exiting \in Threads /\ internalCmdQueue' \in Seq(Commands)
  BY CommandTypes, AddIfRoomType, Zenon DEF RequestShutdown, TypeOK, Threads
<1>1. TypeOK'
  BY <1>0, Zenon DEF RequestShutdown, TypeOK
<1>2. ThreadInv'
  BY <1>0 DEF RequestShutdown, TypeOK, ThreadInv
<1> QED BY <1>1, <1>2, Zenon DEF RequestShutdown, LoggerInv

(* The command loop. *)
LEMMA LoggerControl ==
  ASSUME Control, Intact, LoggerStep
  PROVE  Control'
<1> USE DEF Control, pool, threads, loop
<1>0. ThreadInv'
  <2>1. UNCHANGED threads
    BY Zenon DEF LoggerStep, WriteStep, Wake, DrainEmpty, Take, WriteSmall, WriteLarge, Recycle
  <2> QED BY <2>1, Zenon DEF ThreadInv
<1>1. CASE Wake \/ DrainEmpty
  <2>1. TypeOK'
    BY <1>1, Zenon DEF Wake, DrainEmpty, TypeOK
  <2> QED BY <1>0, <1>1, <2>1, Zenon DEF Wake, DrainEmpty, LoggerInv
<1>2. CASE Take
  <2> DEFINE c == Head(internalCmdQueue)
  <2>1. c \in Commands /\ Tail(internalCmdQueue) \in Seq(Commands)
    <3>1. internalCmdQueue \in Seq(Commands) /\ internalCmdQueue # <<>>
      BY <1>2, Zenon DEF Take, TypeOK
    <3> QED BY <3>1
  <2> HIDE DEF c
  <2>2. /\ logger = "drain" /\ internalCmdQueue' = Tail(internalCmdQueue)
        /\ IF c.c = "NEW_LOG" THEN logger' = "write" /\ cmd' = c ELSE UNCHANGED <<logger, cmd>>
        /\ written' = IF c.c = "WRITE_TARGET_OVERFLOW"
                      THEN [t \in Targets |-> Append(written[t], c.m)] ELSE written
        /\ closed' \in BOOLEAN /\ asyncPending' \in BOOLEAN
        /\ UNCHANGED <<pool, threads, target, accepted>>
    BY <1>2, Zenon DEF Take, c
  <2>3. written' \in [Targets -> Seq(Posted)]
    <3>1. CASE c.c = "WRITE_TARGET_OVERFLOW"
      <4>1. c.m \in Posted
        BY <2>1, <3>1, CommandTypes, Zenon
      <4>2. \A t \in Targets : Append(written[t], c.m) \in Seq(Posted)
        BY <4>1 DEF TypeOK
      <4> QED BY <2>2, <3>1, <4>2, Zenon
    <3>2. CASE c.c # "WRITE_TARGET_OVERFLOW"
      BY <2>2, <3>2, Zenon DEF TypeOK
    <3> QED BY <3>1, <3>2, Zenon
  <2>4. TypeOK'
    BY <2>1, <2>2, <2>3, Zenon DEF TypeOK
  <2>5. LoggerInv'
    BY <2>1, <2>2, CommandTypes, Zenon DEF LoggerInv
  <2> QED BY <1>0, <2>4, <2>5, Zenon
<1>3. CASE WriteStep
  <2>1. /\ logger = "write" /\ target <= NumTargets /\ target' = target + 1
        /\ UNCHANGED <<pool, closed, threads, logger, cmd, accepted>>
    BY <1>3, Zenon DEF WriteStep, WriteSmall, WriteLarge
  <2>2. target' \in 1 .. NumTargets + 1 /\ target \in Targets
    BY <2>1, ConstantsAssumption DEF TypeOK, Targets
  <2>3. content[cmd.entry] = cmd.m /\ cmd.m \in Logged
    BY <2>1, Zenon DEF LoggerInv, Intact
  <2>4. internalCmdQueue' \in Seq(Commands) /\ asyncPending' \in BOOLEAN
    <3>1. CASE WriteLarge
      <4>1. Copy(cmd.m, target) \in Posted
        BY <2>2, <2>3, <3>1, PostedMessage, Zenon DEF WriteLarge
      <4>2. Overflow(Copy(cmd.m, target)) \in Commands
        BY <4>1, CommandTypes, Zenon
      <4> QED BY <2>3, <3>1, <4>2, AddIfRoomType, Zenon DEF WriteLarge, Post, TypeOK
    <3>2. CASE \E rotated \in BOOLEAN : WriteSmall(rotated)
      BY <3>2, CommandTypes, AddIfRoomType, Zenon DEF WriteSmall, Post, TypeOK
    <3> QED BY <1>3, <3>1, <3>2, Zenon DEF WriteStep
  <2>5. \/ /\ written' = [written EXCEPT ![target] = Append(@, cmd.m)]
           /\ cmd.m.size = "small"
        \/ written' = written
    BY <1>3, <2>3, Zenon DEF WriteStep, WriteSmall, WriteLarge
  <2>6. cmd.m.size = "small" => Append(written[target], cmd.m) \in Seq(Posted)
    <3> SUFFICES ASSUME cmd.m.size = "small" PROVE Append(written[target], cmd.m) \in Seq(Posted)
      BY Zenon
    <3>1. cmd.m \in Posted /\ written[target] \in Seq(Posted)
      BY <2>2, <2>3, PostedMessage DEF TypeOK
    <3> QED BY <3>1
  <2>7. written' \in [Targets -> Seq(Posted)]
    BY <2>2, <2>5, <2>6, Zenon DEF TypeOK
  <2>8. TypeOK'
    BY <2>1, <2>2, <2>4, <2>7, Zenon DEF TypeOK
  <2> QED BY <1>0, <2>1, <2>8, Zenon DEF LoggerInv
<1>4. CASE Recycle
  <2>1. cmd.entry \in Entries
    BY <1>4, Zenon DEF Recycle, LoggerInv
  <2>2. masterBufferAvail' \in Seq(Entries)
    BY <1>4, <2>1 DEF Recycle, PoolAdd, TypeOK
  <2>3. 1 \in 1 .. NumTargets + 1
    BY ConstantsAssumption
  <2>4. TypeOK'
    BY <1>4, <2>1, <2>2, <2>3, Zenon DEF Recycle, PoolAdd, TypeOK
  <2> QED BY <1>0, <1>4, <2>4, Zenon DEF Recycle, LoggerInv
<1> QED BY <1>1, <1>2, <1>3, <1>4, Zenon DEF LoggerStep

(* Every step keeps who holds an entry in line with where it is. *)
LEMMA ControlStep ==
  ASSUME Control, Intact, [Next]_vars
  PROVE  Control'
<1>1. CASE UNCHANGED vars
  BY <1>1, Zenon DEF vars, pool, threads, loop, Control, TypeOK, ThreadInv, LoggerInv
<1>2. ASSUME NEW p \in Callers, Log(p) \/ LogHuge(p) PROVE Control'
  BY <1>2, LogSmallControl, PrivateControl, Zenon DEF Log, Producers
<1>3. ASSUME NEW p \in Producers, PoolEmpty(p) PROVE Control'
  BY <1>3, PrivateControl, Zenon
<1>4. ASSUME NEW p \in Readers, Reader(p) PROVE Control'
  <2>1. p \in Producers /\ p \in Threads
    BY Zenon DEF Producers, Threads
  <2> QED BY <1>4, <2>1, PrivateControl, SharedControl, Zenon DEF Reader
<1>5. ASSUME NEW p \in Threads, Producer(p) PROVE Control'
  BY <1>5, SharedControl, Zenon DEF Producer
<1> QED BY <1>1, <1>2, <1>3, <1>4, <1>5, ShutdownControl, LoggerControl, Zenon DEF Next

-----------------------------------------------------------------------------
(* The command queue. *)

(* What a command at the end of the queue does to the entries in it. *)
LEMMA QueueGrows ==
  ASSUME internalCmdQueue \in Seq(Commands), NEW c \in Commands,
         internalCmdQueue' = Append(internalCmdQueue, c)
  PROVE  /\ Len(internalCmdQueue)' = Len(internalCmdQueue) + 1
         /\ Len(internalCmdQueue) \in Nat
         /\ \A i \in 1 .. Len(internalCmdQueue) : internalCmdQueue'[i] = internalCmdQueue[i]
         /\ internalCmdQueue'[Len(internalCmdQueue) + 1] = c
         /\ Carrying' = IF c.c = "NEW_LOG" THEN Carrying \cup {Len(internalCmdQueue) + 1}
                        ELSE Carrying
         /\ Queued' = IF c.c = "NEW_LOG" THEN Queued \cup {c.entry} ELSE Queued
<1> DEFINE q == internalCmdQueue
           n == Len(q)
<1>1. n \in Nat /\ Len(Append(q, c)) = n + 1 /\ Append(q, c)[n + 1] = c
  OBVIOUS
<1>2. \A i \in 1 .. n : Append(q, c)[i] = q[i]
  OBVIOUS
<1>3. Carrying' = IF c.c = "NEW_LOG" THEN Carrying \cup {n + 1} ELSE Carrying
  BY <1>1, <1>2 DEF Carrying
<1>4. Queued' = IF c.c = "NEW_LOG" THEN Queued \cup {c.entry} ELSE Queued
  <2>1. \A i \in Carrying : i \in 1 .. n /\ q'[i] = q[i]
    BY <1>2, Zenon DEF Carrying
  <2>2. q'[n + 1] = c
    BY <1>1, Zenon
  <2> HIDE DEF q, n
  <2>3. Queued = {q[i].entry : i \in Carrying} /\ Queued' = {q'[i].entry : i \in Carrying'}
    BY Zenon DEF Queued, q
  <2> QED BY <1>3, <2>1, <2>2, <2>3, Zenon
<1> QED BY <1>1, <1>2, <1>3, <1>4, Zenon

(* What taking the first command does. *)
LEMMA QueueShrinks ==
  ASSUME internalCmdQueue \in Seq(Commands), internalCmdQueue # <<>>,
         internalCmdQueue' = Tail(internalCmdQueue)
  PROVE  /\ Len(internalCmdQueue)' = Len(internalCmdQueue) - 1
         /\ Len(internalCmdQueue) \in Nat \ {0}
         /\ Head(internalCmdQueue) = internalCmdQueue[1]
         /\ \A i \in 1 .. Len(internalCmdQueue) - 1 :
              internalCmdQueue'[i] = internalCmdQueue[i + 1]
         /\ \A i \in Nat : i \in Carrying' <=> i > 0 /\ i + 1 \in Carrying
         /\ Queued = Queued' \cup (IF Head(internalCmdQueue).c = "NEW_LOG"
                                   THEN {Head(internalCmdQueue).entry} ELSE {})
<1> DEFINE q == internalCmdQueue
           n == Len(q)
<1>1. n \in Nat \ {0} /\ Len(Tail(q)) = n - 1 /\ Head(q) = q[1]
  OBVIOUS
<1>2. \A i \in 1 .. n - 1 : Tail(q)[i] = q[i + 1]
  OBVIOUS
<1>3. \A i \in Nat : i \in Carrying' <=> i > 0 /\ i + 1 \in Carrying
  BY <1>1, <1>2 DEF Carrying
<1>4. Queued = Queued' \cup (IF Head(q).c = "NEW_LOG" THEN {Head(q).entry} ELSE {})
  <2>1. 1 \in Carrying <=> Head(q).c = "NEW_LOG"
    BY <1>1 DEF Carrying
  <2>2. \A i \in Carrying : i = 1 \/ (i - 1 \in Carrying' /\ q'[i - 1] = q[i])
    BY <1>1, <1>2, <1>3 DEF Carrying
  <2>3. \A i \in Carrying' : i + 1 \in Carrying /\ q'[i] = q[i + 1]
    BY <1>1, <1>2, <1>3 DEF Carrying
  <2>4. Head(q) = q[1]
    BY <1>1, Zenon
  <2> HIDE DEF q, n
  <2>5. Queued = {q[i].entry : i \in Carrying} /\ Queued' = {q'[i].entry : i \in Carrying'}
    BY Zenon DEF Queued, q
  <2>6. \A x \in Queued : x \in Queued' \cup (IF Head(q).c = "NEW_LOG" THEN {Head(q).entry} ELSE {})
    BY <2>1, <2>2, <2>4, <2>5
  <2>7. Queued' \subseteq Queued
    BY <2>3, <2>5, Zenon
  <2>8. Head(q).c = "NEW_LOG" => Head(q).entry \in Queued
    BY <2>1, <2>4, <2>5, Zenon
  <2> QED BY <2>6, <2>7, <2>8, Zenon
<1> QED BY <1>1, <1>2, <1>3, <1>4, Zenon

-----------------------------------------------------------------------------
(* The owner of an entry. *)

Pools == Owners /\ Once /\ Intact

(* The message that a thread is about to queue is in the entry it holds. *)
CarriesMine(p) == pc[p] = "enqueue" /\ hold[p] # NoEntry => content[hold[p]] = mine[p]

(* A thread that takes an entry holds one more, ... *)
LEMMA HoldOne ==
  ASSUME TypeOK, NEW p \in Threads, hold[p] = NoEntry, NEW e \in Entries,
         hold' = [hold EXCEPT ![p] = e]
  PROVE  Held' = Held \cup {e}
<1>1. e # NoEntry /\ hold \in [Threads -> Entries \cup {NoEntry}]
  BY EntryNotNone, Zenon DEF TypeOK
<1> QED BY <1>1, Zenon DEF Held

(* ... and one that lets go of it holds one less. *)
LEMMA HoldNone ==
  ASSUME TypeOK, Once, NEW p \in Threads, hold[p] # NoEntry,
         hold' = [hold EXCEPT ![p] = NoEntry]
  PROVE  Held' = Held \ {hold[p]} /\ hold[p] \in Held
<1>1. hold \in [Threads -> Entries \cup {NoEntry}]
  BY Zenon DEF TypeOK
<1>2. \A q \in Threads : q # p => hold'[q] = hold[q] /\ (hold[q] # hold[p])
  BY <1>1, Zenon DEF Once
<1> QED BY <1>1, <1>2, Zenon DEF Held

(* Nothing moves. *)
LEMMA QuietPools ==
  ASSUME TypeOK, Pools, UNCHANGED <<masterBufferAvail, content, hold, internalCmdQueue>>,
         \A p \in Threads : CarriesMine(p)',
         UNCHANGED <<logger, cmd>> \/ "write" \notin {logger, logger'}
  PROVE  Pools'
<1>1. Queued' = Queued /\ Held' = Held /\ Handling' = Handling /\ Carrying' = Carrying
  BY Zenon DEF Queued, Held, Handling, Carrying
<1>2. Owners' /\ Once'
  BY <1>1, Zenon DEF Pools, Owners, Once
<1>3. Intact'
  BY <1>1, Zenon DEF Pools, Intact, CarriesMine
<1> QED BY <1>2, <1>3, Zenon DEF Pools

(* A thread takes an entry, and may write to it. *)
LEMMA TakePools ==
  ASSUME TypeOK, Pools, NEW p \in Threads, NEW at, PoolTake(p, at), hold[p] = NoEntry,
         \A x \in Entries \ {Head(masterBufferAvail)} : content'[x] = content[x],
         \A q \in Threads \ {p} : pc'[q] = pc[q] /\ mine'[q] = mine[q],
         CarriesMine(p)', UNCHANGED <<internalCmdQueue, logger, cmd>>, LoggerInv
  PROVE  Pools'
<1> DEFINE e == Head(masterBufferAvail)
<1>1. /\ e \in Entries /\ e \in Range(masterBufferAvail)
      /\ Range(masterBufferAvail') = Range(masterBufferAvail) \ {e}
      /\ IsInjective(masterBufferAvail')
  <2>1. masterBufferAvail \in Seq(Entries) /\ masterBufferAvail # <<>>
    BY Zenon DEF TypeOK, PoolTake
  <2> QED BY <2>1, TailRange, Zenon DEF Pools, Once, PoolTake
<1>2. Held' = Held \cup {e} /\ hold' = [hold EXCEPT ![p] = e]
  BY <1>1, HoldOne, Zenon DEF PoolTake
<1> HIDE DEF e
<1>3. Queued' = Queued /\ Handling' = Handling /\ Carrying' = Carrying
  BY Zenon DEF Queued, Handling, Carrying
<1>4. e \notin Queued \cup Held \cup Handling
  BY <1>1, Zenon DEF Pools, Owners
<1>5. Owners'
  BY <1>1, <1>2, <1>3, <1>4, Zenon DEF Pools, Owners
<1>6. \A q \in Threads : q # p => hold'[q] = hold[q] /\ hold[q] # e
  BY <1>1, <1>2, <1>4, EntryNotNone, Zenon DEF Held, TypeOK
<1>7. Once'
  BY <1>1, <1>2, <1>3, <1>6, Zenon DEF Pools, Once, TypeOK
<1>8. Intact'
  <2>1. \A q \in Threads : CarriesMine(q)'
    <3> SUFFICES ASSUME NEW q \in Threads, q # p PROVE CarriesMine(q)'
      BY Zenon
    <3>1. hold[q] \in Entries \cup {NoEntry}
      BY Zenon DEF TypeOK
    <3> QED BY <1>6, <3>1, SMTT(30) DEF Pools, Intact, CarriesMine, e
  <2>2. \A i \in Carrying : internalCmdQueue[i].entry \in Entries \ {e}
    <3>1. \A i \in Carrying : internalCmdQueue[i].entry \in Queued
      BY Zenon DEF Queued
    <3> QED BY <1>4, <3>1, Zenon DEF Pools, Owners
  <2>3. logger = "write" => cmd.entry \in Entries \ {e}
    BY <1>4, Zenon DEF Pools, Owners, Handling
  <2> QED BY <1>3, <2>1, <2>2, <2>3, Zenon DEF Pools, Intact, CarriesMine, e
<1> QED BY <1>5, <1>7, <1>8, Zenon DEF Pools

(* Entries that others have are not the one that goes back to the pool. *)
LEMMA PoolAddPools ==
  ASSUME TypeOK, Pools, LoggerInv, NEW e \in Held \cup Handling, PoolAdd(e),
         UNCHANGED <<internalCmdQueue, mine>>,
         \A p \in Threads : pc'[p] = "enqueue" => pc[p] = "enqueue",
         Held' = Held \ {e}, Handling' = Handling \ {e},
         \A p \in Threads : hold'[p] = IF hold[p] = e THEN NoEntry ELSE hold[p],
         logger' = "write" => logger = "write" /\ cmd' = cmd
  PROVE  Pools'
<1>1. e \in Entries /\ e \notin Range(masterBufferAvail) /\ e \notin Queued
  BY Zenon DEF Pools, Owners
<1>2. /\ Range(masterBufferAvail') = Range(masterBufferAvail) \cup {e}
      /\ IsInjective(masterBufferAvail')
  <2>1. masterBufferAvail \in Seq(Entries)
    BY ZenonT(30) DEF TypeOK
  <2> QED BY <1>1, <2>1, AppendRange DEF Pools, Once, PoolAdd
<1>3. Queued' = Queued /\ Carrying' = Carrying
  BY Zenon DEF Queued, Carrying
<1>4. Owners'
  BY <1>1, <1>2, <1>3, Zenon DEF Pools, Owners
<1>5. Once'
  BY <1>2, <1>3, Zenon DEF Pools, Once
<1>6. \A x \in Entries \ {e} : content'[x] = content[x]
  BY Zenon DEF PoolAdd, TypeOK
<1>7. Intact'
  <2>1. \A p \in Threads : CarriesMine(p)'
    <3> TAKE p \in Threads
    <3>1. hold[p] \in Entries \cup {NoEntry}
      BY Zenon DEF TypeOK
    <3> QED BY <1>6, <3>1 DEF Pools, Intact, CarriesMine
  <2>2. \A i \in Carrying : internalCmdQueue[i].entry \in Entries \ {e}
    <3>1. \A i \in Carrying : internalCmdQueue[i].entry \in Queued
      BY Zenon DEF Queued
    <3> QED BY <1>1, <3>1, Zenon DEF Pools, Owners
  <2>3. logger' = "write" => cmd.entry \in Entries \ {e}
    <3> SUFFICES ASSUME logger' = "write" PROVE cmd.entry \in Entries \ {e}
      BY Zenon
    <3>1. cmd.entry \in Handling' /\ cmd.entry \in Handling
      BY Zenon DEF Handling
    <3> QED BY <3>1, Zenon DEF Pools, Owners
  <2>4. \A i \in Carrying' : content'[internalCmdQueue'[i].entry] = internalCmdQueue'[i].m
    <3>1. \A i \in Carrying : content[internalCmdQueue[i].entry] = internalCmdQueue[i].m
      BY Zenon DEF Pools, Intact
    <3> QED BY <1>3, <1>6, <2>2, <3>1, Zenon
  <2>5. logger' = "write" => content'[cmd'.entry] = cmd'.m
    <3>1. logger = "write" => content[cmd.entry] = cmd.m
      BY Zenon DEF Pools, Intact
    <3> QED BY <1>6, <2>3, <3>1, Zenon
  <2> QED BY <2>1, <2>4, <2>5, Zenon DEF Intact, CarriesMine
<1> QED BY <1>4, <1>5, <1>7, Zenon DEF Pools

(* A reader that read nothing returns its entry. *)
LEMMA GiveBackPools ==
  ASSUME Control, Pools, NEW p \in Threads, GiveBack(p)
  PROVE  Pools'
<1> USE DEF Control, pool, threads, loop
<1>1. hold[p] # NoEntry /\ hold' = [hold EXCEPT ![p] = NoEntry] /\ PoolAdd(hold[p])
  BY Zenon DEF GiveBack, ThreadInv
<1>2. Held' = Held \ {hold[p]} /\ hold[p] \in Held
  BY <1>1, HoldNone, Zenon DEF Pools
<1>3. UNCHANGED <<internalCmdQueue, logger, cmd, mine>> /\ Handling' = Handling
  BY Zenon DEF GiveBack, Handling
<1>4. hold[p] \notin Handling
  BY <1>2, Zenon DEF Pools, Owners
<1>5. \A q \in Threads : hold'[q] = IF hold[q] = hold[p] THEN NoEntry ELSE hold[q]
  BY <1>1, Zenon DEF Pools, Once, TypeOK
<1>6. \A q \in Threads : pc'[q] = "enqueue" => pc[q] = "enqueue"
  BY Zenon DEF GiveBack, TypeOK
<1>7. Handling' = Handling \ {hold[p]}
  BY <1>3, <1>4, Zenon
<1> QED BY <1>1, <1>2, <1>3, <1>5, <1>6, <1>7, PoolAddPools, Zenon

(* The logger thread returns the entry that it has written. *)
LEMMA RecyclePools ==
  ASSUME Control, Pools, Recycle
  PROVE  Pools'
<1> USE DEF Control, pool, threads, loop
<1>1. Handling = {cmd.entry} /\ Handling' = {} /\ PoolAdd(cmd.entry)
  BY Zenon DEF Recycle, Handling
<1>2. cmd.entry \notin Held /\ UNCHANGED <<internalCmdQueue, pc, mine, hold>> /\ Held' = Held
  BY <1>1, Zenon DEF Recycle, Pools, Owners, Held
<1>3. \A q \in Threads : hold[q] # cmd.entry
  BY <1>1, <1>2, EntryNotNone, Zenon DEF Held, Pools, Owners
<1>4. Held' = Held \ {cmd.entry} /\ Handling' = Handling \ {cmd.entry}
  BY <1>1, <1>2, Zenon
<1>5. logger' # "write"
  BY Zenon DEF Recycle
<1> QED BY <1>1, <1>2, <1>3, <1>4, <1>5, PoolAddPools, Zenon

(* A reader writes into the entry it holds. *)
LEMMA ReadPools ==
  ASSUME Control, Pools, NEW p \in Readers, NEW size \in Sizes, Read(p, size)
  PROVE  Pools'
<1> USE DEF Control, pool, threads, loop
<1> DEFINE m == [from |-> p, n |-> sent[p] + 1, size |-> size, by |-> 0]
           e == hold[p]
<1>1. p \in Threads /\ e # NoEntry /\ e \in Entries /\ e \in Held
  BY DEF Read, ThreadInv, TypeOK, Threads, Producers, Held
<1>2. /\ mine' = [mine EXCEPT ![p] = m] /\ content' = [content EXCEPT ![e] = m]
      /\ pc' = [pc EXCEPT ![p] = "enqueue"]
      /\ UNCHANGED <<masterBufferAvail, hold, internalCmdQueue, logger, cmd>>
  BY Zenon DEF Read
<1>3. e \notin Queued /\ e \notin Handling
  BY <1>1, ZenonT(30) DEF Pools, Owners
<1> HIDE DEF m, e
<1>4. Queued' = Queued /\ Held' = Held /\ Handling' = Handling /\ Carrying' = Carrying
  BY <1>2, Zenon DEF Queued, Held, Handling, Carrying
<1>5. Owners' /\ Once'
  BY <1>2, <1>4, Zenon DEF Pools, Owners, Once
<1>6. content'[e] = m /\ \A x \in Entries \ {e} : content'[x] = content[x]
  BY <1>1, <1>2, Zenon DEF TypeOK
<1>7. \A q \in Threads : CarriesMine(q)'
  <2> TAKE q \in Threads
  <2>1. CASE q = p
    BY <1>1, <1>2, <1>6, <2>1, Zenon DEF CarriesMine, TypeOK, e
  <2>2. CASE q # p
    <3>1. hold[q] # NoEntry => hold[q] # e
      BY <1>1, <2>2, Zenon DEF Pools, Once, e
    <3>2. hold[q] \in Entries \cup {NoEntry}
      BY Zenon DEF TypeOK
    <3> QED BY <1>1, <1>2, <1>6, <2>2, <3>1, <3>2, Zenon DEF Pools, Intact, CarriesMine, TypeOK
  <2> QED BY <2>1, <2>2, Zenon
<1>8. \A i \in Carrying : internalCmdQueue[i].entry \in Entries \ {e}
  <2>1. \A i \in Carrying : internalCmdQueue[i].entry \in Queued
    BY Zenon DEF Queued
  <2> QED BY <1>3, <2>1, Zenon DEF Pools, Owners
<1>9. logger = "write" => cmd.entry \in Entries \ {e}
  BY <1>3, Zenon DEF Pools, Owners, Handling
<1> QED BY <1>2, <1>4, <1>5, <1>6, <1>7, <1>8, <1>9, SMTT(30) DEF Pools, Intact, CarriesMine

(* A command that carries no entry is queued, or refused. *)
LEMMA ExtraPools ==
  ASSUME TypeOK, Pools, NEW c \in Commands, c.c # "NEW_LOG",
         AddIfRoom(c) \/ UNCHANGED internalCmdQueue,
         UNCHANGED <<masterBufferAvail, content, hold, logger, cmd>>,
         \A p \in Threads : CarriesMine(p)'
  PROVE  Pools'
<1>1. /\ Queued' = Queued /\ Carrying' = Carrying
      /\ \A i \in Carrying : internalCmdQueue'[i] = internalCmdQueue[i]
  <2>1. CASE internalCmdQueue' = Append(internalCmdQueue, c)
    <3>1. internalCmdQueue \in Seq(Commands)
      BY Zenon DEF TypeOK
    <3>2. \A i \in Carrying : i \in 1 .. Len(internalCmdQueue)
      BY Zenon DEF Carrying
    <3> QED BY <2>1, <3>1, <3>2, QueueGrows, Zenon
  <2>2. CASE UNCHANGED internalCmdQueue
    BY <2>2, Zenon DEF Queued, Carrying
  <2> QED BY <2>1, <2>2, Zenon DEF AddIfRoom
<1>2. Held' = Held /\ Handling' = Handling
  BY Zenon DEF Held, Handling
<1>3. Owners' /\ Once'
  BY <1>1, <1>2 DEF Pools, Owners, Once
<1>4. Intact'
  BY <1>1, Zenon DEF Pools, Intact, CarriesMine
<1> QED BY <1>3, <1>4, Zenon DEF Pools

(* A message is queued with the entry of its thread, or refused. *)
LEMMA EnqueuePools ==
  ASSUME Control, Pools, NEW p \in Threads, Enqueue(p)
  PROVE  Pools'
<1> USE DEF Control, pool, threads, loop
<1> DEFINE m == mine[p]
           e == hold[p]
           n == Len(internalCmdQueue)
<1>1. m \in Logged /\ (e = NoEntry <=> m.size = "huge") /\ e \in Entries \cup {NoEntry}
  BY Zenon DEF Enqueue, ThreadInv, TypeOK
<1>2. /\ UNCHANGED <<masterBufferAvail, content, logger, cmd>>
      /\ AddIfRoom(IF m.size # "huge" THEN NewLog(e, m) ELSE Overflow(m))
      /\ hold' = [hold EXCEPT ![p] = IF HasRoom THEN NoEntry ELSE @]
      /\ pc' = [pc EXCEPT ![p] = IF HasRoom THEN "send"
                                ELSE IF m.size # "huge" THEN "giveBack" ELSE "idle"]
      /\ mine' = [mine EXCEPT ![p] = NoMsg]
  BY Zenon DEF Enqueue
<1>3. \A q \in Threads : CarriesMine(q)'
  BY <1>2, Zenon DEF Pools, Intact, CarriesMine, TypeOK
<1>4. CASE ~HasRoom
  <2>1. UNCHANGED <<internalCmdQueue, hold>>
    BY <1>2, <1>4, Zenon DEF AddIfRoom, TypeOK
  <2> QED BY <1>2, <1>3, <2>1, QuietPools, Zenon
<1>5. CASE HasRoom /\ e = NoEntry
  <2>1. hold' = hold
    BY <1>2, <1>5, Zenon DEF TypeOK
  <2>2. Overflow(m) \in Commands /\ Overflow(m).c # "NEW_LOG" /\ AddIfRoom(Overflow(m))
    <3>1. Overflow(m).c = "WRITE_TARGET_OVERFLOW"
      BY Zenon DEF Overflow
    <3>2. m \in Posted
      BY <1>1, <1>5, PostedMessage, Zenon
    <3> QED BY <1>1, <1>2, <1>5, <3>1, <3>2, CommandTypes, Zenon
  <2> QED BY <1>2, <1>3, <2>1, <2>2, ExtraPools, Zenon
<1>6. CASE HasRoom /\ e # NoEntry
  <2> DEFINE c == NewLog(e, m)
  <2>1. /\ c \in Commands /\ c.c = "NEW_LOG" /\ c.entry = e /\ c.m = m
        /\ internalCmdQueue' = Append(internalCmdQueue, c)
    <3>1. c \in Commands
      BY <1>1, <1>6, CommandTypes, Zenon
    <3> QED BY <1>1, <1>2, <1>6, <3>1, Zenon DEF NewLog, AddIfRoom
  <2> HIDE DEF c
  <2>2. internalCmdQueue \in Seq(Commands)
    BY Zenon DEF TypeOK
  <2>3. /\ Queued' = Queued \cup {e} /\ Carrying' = Carrying \cup {n + 1} /\ n \in Nat
        /\ internalCmdQueue'[n + 1] = c
        /\ \A i \in 1 .. n : internalCmdQueue'[i] = internalCmdQueue[i]
    BY <2>1, <2>2, QueueGrows, Zenon
  <2>4. Held' = Held \ {e} /\ e \in Held
    BY <1>2, <1>6, HoldNone, Zenon DEF Pools
  <2>5. Handling' = Handling
    BY <1>2, Zenon DEF Handling
  <2>6. Owners'
    BY <1>2, <2>3, <2>4, <2>5, Zenon DEF Pools, Owners
  <2>7. \A i \in Carrying : /\ i \in 1 .. n /\ i # n + 1
                            /\ internalCmdQueue'[i] = internalCmdQueue[i]
                            /\ internalCmdQueue[i].entry # e
    <3>1. \A i \in Carrying : i \in 1 .. n /\ internalCmdQueue[i].entry \in Queued
      BY Zenon DEF Carrying, Queued
    <3>2. e \notin Queued
      BY <2>4, Zenon DEF Pools, Owners
    <3> QED BY <2>3, <3>1, <3>2
  <2>8. Once'
    <3>1. \A i, j \in Carrying' :
            internalCmdQueue'[i].entry = internalCmdQueue'[j].entry => i = j
      BY <2>1, <2>3, <2>7 DEF Pools, Once
    <3>2. \A q, r \in Threads : hold'[q] # NoEntry /\ hold'[q] = hold'[r] => q = r
      BY <1>2, <1>6, Zenon DEF Pools, Once, TypeOK
    <3> QED BY <1>2, <3>1, <3>2, Zenon DEF Pools, Once
  <2>9. Intact'
    <3>1. content[e] = m
      BY <1>6, Zenon DEF Pools, Intact, Enqueue
    <3>2. \A i \in Carrying' : content[internalCmdQueue'[i].entry] = internalCmdQueue'[i].m
      <4>1. internalCmdQueue'[n + 1].entry = e /\ internalCmdQueue'[n + 1].m = m
        BY <2>1, <2>3, Zenon
      <4>2. \A i \in Carrying : content[internalCmdQueue[i].entry] = internalCmdQueue[i].m
        BY Zenon DEF Pools, Intact
      <4>3. \A i \in Carrying : content[internalCmdQueue'[i].entry] = internalCmdQueue'[i].m
        BY <2>7, <4>2, Zenon
      <4> QED BY <2>3, <3>1, <4>1, <4>3, Zenon
    <3> QED BY <1>2, <1>3, <3>2, Zenon DEF Pools, Intact, CarriesMine
  <2> QED BY <2>6, <2>8, <2>9, Zenon DEF Pools
<1> QED BY <1>4, <1>5, <1>6, Zenon

(* The loop takes a command, and the entry with it. *)
LEMMA TakeCommandPools ==
  ASSUME Control, Pools, Take
  PROVE  Pools'
<1> USE DEF Control, pool, threads, loop
<1> DEFINE c == Head(internalCmdQueue)
           n == Len(internalCmdQueue)
<1>1. /\ logger = "drain" /\ internalCmdQueue # <<>>
      /\ internalCmdQueue' = Tail(internalCmdQueue)
      /\ IF c.c = "NEW_LOG" THEN logger' = "write" /\ cmd' = c ELSE UNCHANGED <<logger, cmd>>
      /\ UNCHANGED <<masterBufferAvail, content, pc, hold, mine>>
  BY Zenon DEF Take
<1>2. /\ n \in Nat \ {0} /\ Len(internalCmdQueue)' = n - 1 /\ c = internalCmdQueue[1]
      /\ \A i \in 1 .. n - 1 : internalCmdQueue'[i] = internalCmdQueue[i + 1]
      /\ \A i \in Nat : i \in Carrying' <=> i > 0 /\ i + 1 \in Carrying
      /\ Queued = Queued' \cup (IF c.c = "NEW_LOG" THEN {c.entry} ELSE {})
  <2>1. internalCmdQueue \in Seq(Commands)
    BY Zenon DEF TypeOK
  <2> QED BY <1>1, <2>1, QueueShrinks, Zenon
<1>3. \A i \in Carrying : i \in 1 .. n
  BY Zenon DEF Carrying
<1>4. \A i \in Carrying' : i \in 1 .. n - 1
  BY <1>2, Zenon DEF Carrying
<1>5. 1 \in Carrying <=> c.c = "NEW_LOG"
  BY <1>2 DEF Carrying
<1> HIDE DEF c, n
<1>6. \A i \in Carrying' : /\ i + 1 \in Carrying /\ i \in Nat /\ i + 1 # 1
                           /\ internalCmdQueue'[i] = internalCmdQueue[i + 1]
  BY <1>2, <1>4
<1>7. c.c = "NEW_LOG" => c.entry \notin Queued'
  <2> SUFFICES ASSUME c.c = "NEW_LOG", NEW i \in Carrying'
               PROVE  internalCmdQueue'[i].entry # c.entry
    BY Zenon DEF Queued
  <2>1. internalCmdQueue[1].entry = internalCmdQueue[i + 1].entry => 1 = i + 1
    BY <1>5, <1>6, Zenon DEF Pools, Once
  <2> QED BY <1>2, <1>6, <2>1, Zenon
<1>8. Held' = Held /\ Handling = {}
      /\ Handling' = IF c.c = "NEW_LOG" THEN {c.entry} ELSE {}
  BY <1>1, Zenon DEF Held, Handling
<1>9. Owners'
  <2>1. Owners
    BY Zenon DEF Pools
  <2>2. PICK E : E = IF c.c = "NEW_LOG" THEN {c.entry} ELSE {}
    BY Zenon
  <2>3. Queued = Queued' \cup E /\ Handling' = E /\ E \cap Queued' = {}
    BY <1>2, <1>7, <1>8, <2>2, Zenon
  <2> QED BY <1>1, <1>8, <2>1, <2>3, Zenon DEF Owners
<1>10. Once'
  <2>1. \A i, j \in Carrying' :
           internalCmdQueue'[i].entry = internalCmdQueue'[j].entry => i = j
    <3> TAKE i, j \in Carrying'
    <3>1. internalCmdQueue[i + 1].entry = internalCmdQueue[j + 1].entry => i + 1 = j + 1
      BY <1>6, Zenon DEF Pools, Once
    <3> QED BY <1>6, <3>1
  <2> QED BY <1>1, <2>1, Zenon DEF Pools, Once
<1>11. Intact'
  <2>1. \A i \in Carrying' : content[internalCmdQueue'[i].entry] = internalCmdQueue'[i].m
    BY <1>6, Zenon DEF Pools, Intact
  <2>2. c.c = "NEW_LOG" => content[c.entry] = c.m
    BY <1>2, <1>5, Zenon DEF Pools, Intact
  <2> QED BY <1>1, <2>1, <2>2, ZenonT(30) DEF Pools, Intact
<1> QED BY <1>9, <1>10, <1>11, Zenon DEF Pools

(* All entries are in the pool at first. *)
LEMMA PoolsInit == Init => Pools
<1> SUFFICES ASSUME Init PROVE Pools
  BY Zenon
<1>1. Carrying = {} /\ Queued = {} /\ Handling = {} /\ Held = {}
  BY DEF Init, Carrying, Queued, Handling, Held
<1>2. Range(masterBufferAvail) = Entries /\ IsInjective(masterBufferAvail)
  BY Zenon DEF Init, Range, IsInjective
<1>3. Owners /\ Once
  BY <1>1, <1>2, Zenon DEF Owners, Once, Init
<1> QED BY <1>1, <1>3, Zenon DEF Pools, Intact, Init

(* No step loses, shares or overwrites an entry that is in use. *)
LEMMA PoolsStep ==
  ASSUME Control, Pools, [Next]_vars
  PROVE  Pools'
<1> USE DEF pool, threads, loop
<1>0. TypeOK /\ ThreadInv /\ LoggerInv /\ Producers \subseteq Threads
      /\ Callers \subseteq Producers /\ Readers \subseteq Producers
  BY Zenon DEF Control, Threads, Producers
<1>1. CASE UNCHANGED vars
  BY <1>1, <1>0, QuietPools, Zenon DEF vars, CarriesMine, Pools, Intact
<1>2. ASSUME NEW p \in Callers, NEW size \in Sizes, LogSmall(p, size) PROVE Pools'
  <2> DEFINE m == [from |-> p, n |-> sent[p] + 1, size |-> size, by |-> 0]
             e == Head(masterBufferAvail)
  <2>1. hold[p] = NoEntry /\ PoolTake(p, "enqueue") /\ p \in Threads
    BY <1>0, <1>2, Zenon DEF LogSmall, ThreadInv
  <2>2. e \in Entries
    <3>1. masterBufferAvail \in Seq(Entries) /\ masterBufferAvail # <<>>
      BY <1>0, <2>1, Zenon DEF TypeOK, PoolTake
    <3> QED BY <3>1
  <2>3. mine' = [mine EXCEPT ![p] = m] /\ content' = [content EXCEPT ![e] = m]
    BY <1>2, Zenon DEF LogSmall
  <2>4. \A x \in Entries \ {Head(masterBufferAvail)} : content'[x] = content[x]
    BY <1>0, <2>3, Zenon DEF TypeOK
  <2>5. CarriesMine(p)'
    BY <1>0, <2>1, <2>2, <2>3, Zenon DEF CarriesMine, TypeOK, PoolTake
  <2>6. \A q \in Threads \ {p} : pc'[q] = pc[q] /\ mine'[q] = mine[q]
    BY <1>0, <2>1, <2>3, Zenon DEF TypeOK, PoolTake
  <2>7. UNCHANGED <<internalCmdQueue, logger, cmd>>
    BY <1>2, Zenon DEF LogSmall
  <2> QED BY <1>0, <2>1, <2>4, <2>5, <2>6, <2>7, TakePools, ZenonT(30)
<1>3. ASSUME NEW p \in Readers, Grab(p) PROVE Pools'
  <2>1. hold[p] = NoEntry /\ PoolTake(p, "read") /\ p \in Threads
    BY <1>0, <1>3, Zenon DEF Grab, ThreadInv
  <2>2. UNCHANGED <<content, mine, internalCmdQueue, logger, cmd>>
    BY <1>3, Zenon DEF Grab
  <2>3. CarriesMine(p)'
    <3>1. pc'[p] = "read"
      BY <1>0, <2>1, Zenon DEF TypeOK, PoolTake
    <3> QED BY <3>1, Zenon DEF CarriesMine
  <2>4. \A q \in Threads \ {p} : pc'[q] = pc[q] /\ mine'[q] = mine[q]
    BY <1>0, <2>1, <2>2, Zenon DEF TypeOK, PoolTake
  <2> QED BY <1>0, <2>1, <2>2, <2>3, <2>4, TakePools, Zenon
<1>4. ASSUME NEW p \in Producers,
             PoolEmpty(p) \/ LogHuge(p) \/ ReadNothing(p) \/ ReadIncomplete(p)
      PROVE  Pools'
  <2>1. UNCHANGED <<masterBufferAvail, content, hold, internalCmdQueue, logger, cmd>>
    BY <1>4, Zenon DEF PoolEmpty, LogHuge, ReadNothing, ReadIncomplete
  <2>2. p \in Threads /\ pc[p] \in {"idle", "read"}
    BY <1>4, Zenon DEF PoolEmpty, LogHuge, ReadNothing, ReadIncomplete, Threads
  <2>3. ASSUME NEW q \in Threads, q # p PROVE CarriesMine(q)'
    <3>1. pc'[q] = pc[q] /\ mine'[q] = mine[q]
      BY <1>0, <1>4, <2>3, Zenon DEF PoolEmpty, LogHuge, ReadNothing, ReadIncomplete, TypeOK
    <3>2. CarriesMine(q)
      BY <1>0, Zenon DEF Pools, Intact, CarriesMine
    <3> QED BY <2>1, <3>1, <3>2, Zenon DEF CarriesMine
  <2>4. CarriesMine(p)'
    <3>1. CASE LogHuge(p)
      <4>1. hold[p] = NoEntry
        BY <1>0, <2>2, <3>1, Zenon DEF ThreadInv, LogHuge
      <4> QED BY <2>1, <4>1, Zenon DEF CarriesMine
    <3>2. CASE ~LogHuge(p)
      <4>1. pc'[p] # "enqueue"
        BY <1>0, <1>4, <2>2, <3>2, Zenon DEF PoolEmpty, ReadNothing, ReadIncomplete, TypeOK
      <4> QED BY <4>1, Zenon DEF CarriesMine
    <3> QED BY <3>1, <3>2, Zenon
  <2>5. \A q \in Threads : CarriesMine(q)'
    BY <2>3, <2>4, Zenon
  <2> QED BY <1>0, <2>1, <2>5, QuietPools, Zenon
<1>5. ASSUME NEW p \in Threads, Send(p) PROVE Pools'
  <2>1. UNCHANGED <<masterBufferAvail, content, hold, internalCmdQueue, logger, cmd>>
    BY <1>5, Zenon DEF Send
  <2>2. \A q \in Threads : CarriesMine(q)'
    BY <1>0, <1>5, Zenon DEF Send, CarriesMine, TypeOK, Pools, Intact
  <2> QED BY <1>0, <2>1, <2>2, QuietPools, Zenon
<1>6. CASE RequestShutdown
  <2>1. UNCHANGED <<masterBufferAvail, content, hold, logger, cmd>> /\ AddIfRoom(Shutdown)
    BY <1>6, Zenon DEF RequestShutdown
  <2>2. \A q \in Threads : CarriesMine(q)'
    BY <1>0, <1>6, Zenon DEF RequestShutdown, CarriesMine, TypeOK, Pools, Intact
  <2>3. Shutdown \in Commands /\ Shutdown.c # "NEW_LOG"
    BY CommandTypes, ZenonT(30) DEF Shutdown
  <2> QED BY <1>0, <2>1, <2>2, <2>3, ExtraPools, Zenon
<1>7. CASE Wake \/ DrainEmpty
  <2>1. UNCHANGED <<masterBufferAvail, content, pc, hold, mine, internalCmdQueue>>
        /\ "write" \notin {logger, logger'}
    BY <1>7, Zenon DEF Wake, DrainEmpty
  <2>2. \A q \in Threads : CarriesMine(q)'
    BY <2>1, Zenon DEF CarriesMine, Pools, Intact
  <2> QED BY <1>0, <2>1, <2>2, QuietPools, Zenon
<1>8. CASE WriteStep
  <2>1. UNCHANGED <<masterBufferAvail, content, pc, hold, mine, logger, cmd>> /\ logger = "write"
    BY <1>8, Zenon DEF WriteStep, WriteSmall, WriteLarge
  <2>2. \A q \in Threads : CarriesMine(q)'
    BY <2>1, Zenon DEF CarriesMine, Pools, Intact
  <2>3. RotateBuffer \in Commands /\ RotateBuffer.c # "NEW_LOG"
    BY CommandTypes, Zenon DEF RotateBuffer
  <2>4. cmd.m \in Logged /\ content[cmd.entry] = cmd.m
    BY <1>0, <2>1, Zenon DEF LoggerInv, Pools, Intact
  <2>5. CASE WriteLarge
    <3> DEFINE c == Overflow(Copy(cmd.m, target))
    <3>1. target \in Targets /\ cmd.m.size = "large"
      BY <1>0, <2>4, <2>5, ConstantsAssumption DEF WriteLarge, TypeOK, Targets
    <3>2. Copy(cmd.m, target) \in Posted
      BY <2>4, <3>1, PostedMessage, Zenon
    <3>3. c \in Commands /\ c.c # "NEW_LOG"
      BY <3>2, CommandTypes, Zenon DEF Overflow
    <3>4. AddIfRoom(c)
      BY <2>4, <2>5, Zenon DEF WriteLarge, Post
    <3> HIDE DEF c
    <3> QED BY <1>0, <2>1, <2>2, <3>3, <3>4, ExtraPools, Zenon
  <2>6. CASE \E rotated \in BOOLEAN : WriteSmall(rotated)
    <3>1. UNCHANGED internalCmdQueue \/ AddIfRoom(RotateBuffer)
      BY <2>6, Zenon DEF WriteSmall, Post
    <3> QED BY <1>0, <2>1, <2>2, <2>3, <3>1, ExtraPools, Zenon
  <2> QED BY <1>8, <2>5, <2>6, Zenon DEF WriteStep
<1> QED
  BY <1>0, <1>1, <1>2, <1>3, <1>4, <1>5, <1>6, <1>7, <1>8, ReadPools, EnqueuePools,
     GiveBackPools, TakeCommandPools, RecyclePools, Zenon
  DEF Next, Log, Reader, Producer, LoggerStep

(* The inductive invariant of the pool and of the places of threads. *)
THEOREM PoolInvariant == Spec => [](Control /\ Pools)
<1>1. Init => Control /\ Pools
  BY ControlInit, PoolsInit, Zenon
<1>2. Control /\ Pools /\ [Next]_vars => (Control /\ Pools)'
  BY ControlStep, PoolsStep, Zenon DEF Pools
<1> QED BY <1>1, <1>2, PTL DEF Spec

-----------------------------------------------------------------------------
(* What follows for the pool. *)

(* One entry less is left for the others. *)
LEMMA EntriesButOne ==
  ASSUME NEW e \in Entries
  PROVE  IsFiniteSet(Entries \ {e}) /\ Cardinality(Entries \ {e}) = NumEntries - 1
<1>1. NumEntries \in Nat \ {0} /\ 1 \in Int /\ NumEntries \in Int
  BY ConstantsAssumption
<1>2. IsFiniteSet(1 .. NumEntries)
      /\ Cardinality(1 .. NumEntries) = IF 1 > NumEntries THEN 0 ELSE NumEntries - 1 + 1
  BY <1>1, FS_Interval, Zenon
<1>3. IsFiniteSet(Entries) /\ Cardinality(Entries) = NumEntries
  BY <1>1, <1>2 DEF Entries
<1> QED BY <1>3, FS_RemoveElement, Zenon

(* No path loses an entry of the pool, returns one twice or overwrites a       *)
(* message on its way, for any number of entries, threads and messages; and    *)
(* masterBufferAvail.add() always finds room.                                  *)
THEOREM EntriesConserved == Spec => []EntryConservation
<1>1. ASSUME Control, Pools PROVE EntryConservation
  <2>1. Held \cup Handling # {} => Len(masterBufferAvail) < NumEntries
    <3> SUFFICES ASSUME NEW e \in Held \cup Handling PROVE Len(masterBufferAvail) < NumEntries
      BY Zenon
    <3>1. e \in Entries /\ e \notin Range(masterBufferAvail)
      BY <1>1, Zenon DEF Pools, Owners
    <3>2. masterBufferAvail \in Seq(Entries)
      BY <1>1, Zenon DEF Control, TypeOK
    <3>3. masterBufferAvail \in Seq(Entries \ {e})
      <4>1. \A i \in 1 .. Len(masterBufferAvail) : masterBufferAvail[i] \in Entries \ {e}
        BY <3>1, <3>2 DEF Range
      <4> QED BY <3>2, <4>1
    <3>4. Len(masterBufferAvail) <= NumEntries - 1
      <4>1. IsFiniteSet(Entries \ {e}) /\ Cardinality(Entries \ {e}) = NumEntries - 1
        BY <3>1, EntriesButOne, Zenon
      <4>2. IsInjective(masterBufferAvail)
        BY <1>1, Zenon DEF Pools, Once
      <4>3. Len(masterBufferAvail) <= Cardinality(Entries \ {e})
        BY <3>3, <4>1, <4>2, InjectiveLength, Zenon
      <4> QED BY <4>1, <4>3, Zenon
    <3> QED BY <3>2, <3>4, ConstantsAssumption
  <2> QED BY <1>1, <2>1, Zenon DEF EntryConservation, Control, Pools, Owners, Once, Intact
<1> QED BY <1>1, PoolInvariant, PTL

(* A queue as long as the pool is large refuses an entry only because of the   *)
(* rotations, overflows and the shutdown in it.                                *)
THEOREM RefusedByExtras == Spec => []RefusedOnlyByExtras
<1>1. ASSUME Control, Pools PROVE RefusedOnlyByExtras
  <2> SUFFICES ASSUME NEW p \in Producers, pc[p] = "enqueue", hold[p] # NoEntry, ~HasRoom
               PROVE  Len(internalCmdQueue) - Cardinality(Carrying) > QueueCap - NumEntries
    BY Zenon DEF RefusedOnlyByExtras
  <2> DEFINE n == Len(internalCmdQueue)
             e == hold[p]
             f == [i \in Carrying |-> internalCmdQueue[i].entry]
  <2>1. p \in Threads /\ e \in Held
    BY Zenon DEF Threads, Held
  <2>2. e \in Entries /\ e \notin Queued /\ Queued \subseteq Entries
    BY <1>1, <2>1, Zenon DEF Pools, Owners
  <2>3. f \in Injection(Carrying, Entries \ {e})
    <3>1. \A i \in Carrying : f[i] \in Queued
      BY Zenon DEF Queued
    <3>2. f \in [Carrying -> Entries \ {e}]
      BY <2>2, <3>1, Zenon
    <3>3. \A i, j \in Carrying : f[i] = f[j] => i = j
      BY <1>1, Zenon DEF Pools, Once
    <3> QED BY <3>2, <3>3, Zenon DEF Injection, IsInjective
  <2>4. Cardinality(Carrying) <= NumEntries - 1 /\ Cardinality(Carrying) \in Nat
    <3>1. IsFiniteSet(Entries \ {e}) /\ Cardinality(Entries \ {e}) = NumEntries - 1
      BY <2>2, EntriesButOne, Zenon
    <3>2. IsFiniteSet(Carrying) /\ Cardinality(Carrying) <= Cardinality(Entries \ {e})
      <4> HIDE DEF f
      <4> QED BY <2>3, <3>1, FS_Injection, Zenon
    <3> QED BY <3>1, <3>2, FS_CardinalityType, Zenon
  <2>5. n \in Nat /\ n >= QueueCap
    BY <1>1, ConstantsAssumption DEF HasRoom, Control, TypeOK
  <2> QED BY <2>4, <2>5, ConstantsAssumption
<1> QED BY <1>1, PoolInvariant, PTL

(* The logger thread never sleeps on a queue with commands unless a wake-up is *)
(* on its way, however sends are coalesced.                                    *)
THEOREM WakeupsNotLost == Spec => []NoLostWakeup
<1>1. Init => NoLostWakeup
  BY Zenon DEF Init, NoLostWakeup
<1>2. ASSUME Control, NoLostWakeup, [Next]_vars PROVE NoLostWakeup'
  <2> USE DEF pool, threads, loop
  <2>0. TypeOK /\ Callers \subseteq Threads /\ Producers \subseteq Threads
        /\ Readers \subseteq Threads /\ Exiting \in Threads
    BY <1>2, Zenon DEF Control, Threads, Producers
  <2>1. CASE UNCHANGED vars
    BY <1>2, <2>1, Zenon DEF vars, NoLostWakeup
  <2>2. ASSUME NEW p \in Threads,
               \/ \E size \in Sizes : LogSmall(p, size) \/ Read(p, size)
               \/ LogHuge(p) \/ PoolEmpty(p) \/ Grab(p)
               \/ ReadNothing(p) \/ ReadIncomplete(p) \/ GiveBack(p)
        PROVE  NoLostWakeup'
    <3>1. /\ UNCHANGED <<internalCmdQueue, asyncPending, closed, logger>>
          /\ pc[p] # "send" /\ \A q \in Threads \ {p} : pc'[q] = pc[q]
      BY <2>0, <2>2, Zenon DEF LogSmall, PoolTake, Read, LogHuge, PoolEmpty, Grab, ReadNothing,
                        ReadIncomplete, GiveBack, TypeOK
    <3> QED BY <1>2, <3>1, Zenon DEF NoLostWakeup
  <2>3. ASSUME NEW p \in Threads, Enqueue(p) PROVE NoLostWakeup'
    <3>1. CASE HasRoom
      BY <2>0, <2>3, <3>1, Zenon DEF Enqueue, NoLostWakeup, TypeOK
    <3>2. CASE ~HasRoom
      <4>1. /\ UNCHANGED <<internalCmdQueue, asyncPending, closed, logger>>
            /\ pc[p] # "send" /\ \A q \in Threads \ {p} : pc'[q] = pc[q]
        BY <2>0, <2>3, <3>2, Zenon DEF Enqueue, AddIfRoom, TypeOK
      <4> QED BY <1>2, <4>1, Zenon DEF NoLostWakeup
    <3> QED BY <3>1, <3>2, Zenon
  <2>4. ASSUME NEW p \in Threads, Send(p) PROVE NoLostWakeup'
    BY <2>4, ZenonT(30) DEF Send, NoLostWakeup
  <2>5. CASE RequestShutdown
    BY <2>0, <2>5, Zenon DEF RequestShutdown, NoLostWakeup, TypeOK
  <2>6. CASE LoggerStep
    <3>1. logger' # "poll" \/ DrainEmpty
      BY <2>6, <2>0, Zenon DEF LoggerStep, WriteStep, Wake, Take, WriteSmall, WriteLarge, Recycle
    <3> QED BY <3>1, Zenon DEF DrainEmpty, NoLostWakeup
  <2> QED BY <1>2, <2>0, <2>1, <2>2, <2>3, <2>4, <2>5, <2>6, Zenon DEF Next, Log, Reader, Producer
<1> QED BY <1>1, <1>2, PoolInvariant, PTL DEF Spec

-----------------------------------------------------------------------------
(* The order of messages. *)

(* The commands with a message, after one is queued or refused. *)
LEMMA MessagingGrows ==
  ASSUME internalCmdQueue \in Seq(Commands), NEW c \in Commands, AddIfRoom(c)
  PROVE  \A j \in Messaging' :
           \/ j \in Messaging /\ internalCmdQueue'[j] = internalCmdQueue[j]
           \/ /\ j = Len(internalCmdQueue) + 1 /\ internalCmdQueue'[j] = c
              /\ c.c \in {"NEW_LOG", "WRITE_TARGET_OVERFLOW"}
<1> DEFINE q == internalCmdQueue
           n == Len(q)
<1>1. CASE q' = Append(q, c)
  <2>1. n \in Nat /\ Len(q') = n + 1 /\ q'[n + 1] = c
    BY <1>1
  <2>2. \A i \in 1 .. n : q'[i] = q[i]
    BY <1>1
  <2> QED BY <2>1, <2>2 DEF Messaging
<1>2. CASE q' = q
  BY <1>2, Zenon DEF Messaging
<1> QED BY <1>1, <1>2, Zenon DEF AddIfRoom

(* ... and after the first is taken. *)
LEMMA MessagingShrinks ==
  ASSUME internalCmdQueue \in Seq(Commands), internalCmdQueue # <<>>,
         internalCmdQueue' = Tail(internalCmdQueue)
  PROVE  /\ Head(internalCmdQueue) = internalCmdQueue[1]
         /\ 1 \in Messaging <=>
              Head(internalCmdQueue).c \in {"NEW_LOG", "WRITE_TARGET_OVERFLOW"}
         /\ \A j \in Messaging' : /\ j \in Nat \ {0} /\ j + 1 \in Messaging
                                  /\ internalCmdQueue'[j] = internalCmdQueue[j + 1]
<1> DEFINE q == internalCmdQueue
           n == Len(q)
<1>1. n \in Nat \ {0} /\ Len(Tail(q)) = n - 1 /\ Head(q) = q[1]
  OBVIOUS
<1>2. \A i \in 1 .. n - 1 : Tail(q)[i] = q[i + 1]
  OBVIOUS
<1> QED BY <1>1, <1>2 DEF Messaging

(* A producer numbers its messages. *)
LEMMA NumbersGrow ==
  ASSUME Control, [Next]_vars, NEW q \in Producers
  PROVE  /\ sent'[q] \in {sent[q], sent[q] + 1}
         /\ pc'[q] = "enqueue" => \/ sent'[q] = sent[q] + 1
                                  \/ pc[q] = "enqueue"
         /\ accepted \subseteq accepted'
<1> USE DEF pool, threads, loop
<1>0. TypeOK /\ q \in Threads /\ Callers \subseteq Producers /\ Readers \subseteq Producers
      /\ Producers \subseteq Threads /\ Exiting \notin Producers
  BY ConstantsAssumption, Zenon DEF Control, Threads, Producers
<1>1. CASE UNCHANGED vars
  BY <1>1, Zenon DEF vars
<1>2. ASSUME NEW p \in Producers,
             \/ \E size \in Sizes : LogSmall(p, size) \/ Read(p, size)
             \/ LogHuge(p) \/ PoolEmpty(p) \/ Grab(p)
             \/ ReadNothing(p) \/ ReadIncomplete(p)
      PROVE  /\ sent'[q] \in {sent[q], sent[q] + 1}
             /\ pc'[q] = "enqueue" => sent'[q] = sent[q] + 1 \/ pc[q] = "enqueue"
             /\ accepted \subseteq accepted'
  <2>1. p = q \/ (sent'[q] = sent[q] /\ pc'[q] = pc[q])
    BY <1>0, <1>2, Zenon DEF LogSmall, PoolTake, Read, LogHuge, PoolEmpty, Grab, ReadNothing,
                      ReadIncomplete, TypeOK
  <2>2. sent' = [sent EXCEPT ![p] = @ + 1] \/ (sent' = sent /\ pc'[p] # "enqueue")
    BY <1>0, <1>2, Zenon DEF LogSmall, PoolTake, Read, LogHuge, PoolEmpty, Grab, ReadNothing,
                      ReadIncomplete, TypeOK
  <2>3. accepted' = accepted
    BY <1>2, ZenonT(30) DEF LogSmall, Read, LogHuge, PoolEmpty, Grab, ReadNothing, ReadIncomplete
  <2> QED BY <1>0, <2>1, <2>2, <2>3, Zenon DEF TypeOK
<1>3. ASSUME NEW p \in Threads, Producer(p)
      PROVE  UNCHANGED sent /\ (pc'[q] = "enqueue" => pc[q] = "enqueue")
             /\ accepted \subseteq accepted'
  BY <1>0, <1>3, Zenon DEF Producer, Enqueue, Send, GiveBack, TypeOK
<1>4. CASE RequestShutdown
  BY <1>0, <1>4, Zenon DEF RequestShutdown, TypeOK
<1>5. CASE LoggerStep
  BY <1>5, Zenon DEF LoggerStep, WriteStep, Wake, DrainEmpty, Take, WriteSmall, WriteLarge, Recycle
<1> QED BY <1>0, <1>1, <1>2, <1>3, <1>4, <1>5, Zenon DEF Next, Log, Reader

(* What is known of a message stays so. *)
LEMMA KnownStays ==
  ASSUME Control, Control', [Next]_vars
  PROVE  Known \subseteq Known'
<1> SUFFICES ASSUME NEW m \in Known PROVE m \in Known'
  BY Zenon
<1>1. m \in Logged \cup Posted /\ m.from \in Producers /\ m.n \in Nat
  BY ConstantsAssumption DEF Known, Logged, Posted
<1>2. sent[m.from] \in Nat /\ sent'[m.from] \in Nat
  BY <1>1, ConstantsAssumption DEF Control, TypeOK
<1>3. /\ sent'[m.from] \in {sent[m.from], sent[m.from] + 1}
      /\ pc'[m.from] = "enqueue" => \/ sent'[m.from] = sent[m.from] + 1
                                    \/ pc[m.from] = "enqueue"
      /\ accepted \subseteq accepted'
  BY <1>1, NumbersGrow, Zenon
<1>4. PICK n \in Nat, a \in Nat, b \in Nat : n = m.n /\ a = sent[m.from] /\ b = sent'[m.from]
  BY <1>1, <1>2, Zenon
<1>5. Original(m) \in accepted /\ m.size \in Sizes /\ n <= a /\ (pc[m.from] = "enqueue" => n < a)
  BY <1>4, Zenon DEF Known
<1>6. n <= b /\ (pc'[m.from] = "enqueue" => n < b)
  <2>1. b = a \/ b = a + 1
    BY <1>3, <1>4, Zenon
  <2>2. pc'[m.from] = "enqueue" => b = a + 1 \/ n < a
    BY <1>3, <1>4, <1>5, Zenon
  <2> QED BY <1>5, <2>1, <2>2, SMTT(30)
<1> QED BY <1>1, <1>3, <1>4, <1>5, <1>6, Zenon DEF Known

(* The message a thread is about to queue comes after all that are known. *)
LEMMA MineIsNew ==
  ASSUME Control, NEW p \in Threads, pc[p] = "enqueue", NEW m \in Known
  PROVE  Before(m, mine[p])
<1>1. p \in Producers /\ mine[p].from = p /\ mine[p].n = sent[p]
  BY Zenon DEF Control, ThreadInv
<1>2. m.n \in Nat /\ sent[p] \in Nat
  <2>1. m.n \in Nat
    BY ConstantsAssumption DEF Known, Logged, Posted
  <2> QED BY <1>1, <2>1, ConstantsAssumption DEF Control, TypeOK
<1>3. m.from = p => m.n < sent[p]
  BY Zenon DEF Known
<1> QED BY <1>1, <1>2, <1>3, SMTT(30) DEF Before

(* Steps that leave the queue and the targets alone. *)
LEMMA QuietOrder ==
  ASSUME KnownInv, OrderInv, UNCHANGED <<internalCmdQueue, written>>,
         UNCHANGED <<logger, cmd, target>> \/ logger' # "write",
         Known \subseteq Known'
  PROVE  KnownInv' /\ OrderInv'
<1>1. Messaging' = Messaging
  BY Zenon DEF Messaging
<1>2. KnownInv'
  BY <1>1, Zenon DEF KnownInv
<1>3. WrittenOrder' /\ WrittenBeforeQueue' /\ QueueOrder'
  BY <1>1, Zenon DEF OrderInv, WrittenOrder, WrittenBeforeQueue, QueueOrder
<1>4. WrittenBeforeCmd' /\ CmdBeforeQueue'
  BY <1>1, Zenon DEF OrderInv, WrittenBeforeCmd, CmdBeforeQueue, CopiesOf
<1> QED BY <1>2, <1>3, <1>4, Zenon DEF OrderInv

(* What comes after a large message, or before it, as it was logged, is not a *)
(* copy of it.                                                                *)
LEMMA NewIsNoCopy ==
  ASSUME NEW m, NEW k, m.by = 0, m.size = "large"
  PROVE  Before(m, k) \/ Before(k, m) => ~(k.from = m.from /\ k.n = m.n) /\ CopiesOf(m, k)
BY Zenon DEF Before, CopiesOf

(* A command is queued or refused, and the loop does nothing. *)
LEMMA GrowOrder ==
  ASSUME Control, KnownInv, OrderInv, NEW c \in Commands, AddIfRoom(c),
         UNCHANGED <<logger, cmd, target, written>>, Known \subseteq Known',
         HasRoom /\ c.c \in {"NEW_LOG", "WRITE_TARGET_OVERFLOW"} =>
           c.m \in Known' /\ \A m \in Known : Before(m, c.m)
  PROVE  KnownInv' /\ OrderInv'
<1> DEFINE q == internalCmdQueue
           new == Len(q) + 1
<1>1. \A j \in Messaging' :
        \/ j \in Messaging /\ q'[j] = q[j]
        \/ j = new /\ q'[j] = c /\ HasRoom /\ c.c \in {"NEW_LOG", "WRITE_TARGET_OVERFLOW"}
  <2>1. CASE HasRoom
    <3>1. q \in Seq(Commands)
      BY Zenon DEF Control, TypeOK
    <3> QED BY <2>1, <3>1, MessagingGrows, Zenon
  <2>2. CASE ~HasRoom
    BY <2>2, Zenon DEF AddIfRoom, Messaging
  <2> QED BY <2>1, <2>2, Zenon
<1>2. \A j \in Messaging : j \in Nat /\ j < new
  BY DEF Control, TypeOK, Messaging
<1>0. new \in Nat
  BY DEF Control, TypeOK
<1> HIDE DEF q, new
<1>3. \A j \in Messaging' : \/ j \in Messaging /\ q'[j].m = q[j].m
                            \/ /\ j = new /\ q'[j].m = c.m /\ c.m \in Known'
                               /\ \A m \in Known : Before(m, c.m)
  BY <1>1, Zenon
<1>4. KnownInv'
  <2>1. \A j \in Messaging' : q'[j].m \in Known'
    BY <1>3, Zenon DEF KnownInv, q
  <2> QED BY <2>1, Zenon DEF KnownInv, q
<1>5. WrittenOrder' /\ WrittenBeforeCmd'
  BY Zenon DEF OrderInv, WrittenOrder, WrittenBeforeCmd
<1>6. WrittenBeforeQueue'
  BY <1>3, Zenon DEF OrderInv, WrittenBeforeQueue, KnownInv, q
<1>7. CmdBeforeQueue'
  <2> SUFFICES ASSUME logger = "write", NEW j \in Messaging'
               PROVE  IF cmd.m.size = "large" THEN CopiesOf(cmd.m, q'[j].m)
                      ELSE Before(cmd.m, q'[j].m)
    BY Zenon DEF CmdBeforeQueue, CopiesOf, q
  <2>1. CASE j \in Messaging /\ q'[j].m = q[j].m
    BY <2>1, Zenon DEF OrderInv, CmdBeforeQueue, q
  <2>2. CASE q'[j].m = c.m /\ \A m \in Known : Before(m, c.m)
    <3>1. Before(cmd.m, q'[j].m)
      BY <2>2, Zenon DEF KnownInv
    <3>2. cmd.m.by = 0
      BY PostedMessage, Zenon DEF Control, LoggerInv
    <3> QED BY <3>1, <3>2, NewIsNoCopy, Zenon
  <2> QED BY <1>3, <2>1, <2>2, Zenon
<1>8. QueueOrder'
  <2> SUFFICES ASSUME NEW i \in Messaging', NEW j \in Messaging', i < j
               PROVE  Before(q'[i].m, q'[j].m)
    BY Zenon DEF QueueOrder, q
  <2>1. i \in Messaging /\ q'[i].m = q[i].m
    BY <1>0, <1>2, <1>3
  <2> QED BY <1>3, <2>1, Zenon DEF OrderInv, QueueOrder, KnownInv, q
<1> QED BY <1>4, <1>5, <1>6, <1>7, <1>8, Zenon DEF OrderInv

(* The loop takes a command. *)
LEMMA TakeOrder ==
  ASSUME Control, KnownInv, OrderInv, Take, Known \subseteq Known'
  PROVE  KnownInv' /\ OrderInv'
<1> USE DEF pool, threads, loop
<1> DEFINE q == internalCmdQueue
           c == Head(internalCmdQueue)
<1>0. /\ logger = "drain" /\ q # <<>> /\ q \in Seq(Commands) /\ q' = Tail(q) /\ target = 1
      /\ IF c.c = "NEW_LOG" THEN logger' = "write" /\ cmd' = c ELSE UNCHANGED <<logger, cmd>>
      /\ written' = IF c.c = "WRITE_TARGET_OVERFLOW"
                    THEN [t \in Targets |-> Append(written[t], c.m)] ELSE written
      /\ UNCHANGED target
  BY Zenon DEF Take, Control, TypeOK, LoggerInv
<1>1. /\ c = q[1] /\ (1 \in Messaging <=> c.c \in {"NEW_LOG", "WRITE_TARGET_OVERFLOW"})
      /\ \A j \in Messaging' : j \in Nat \ {0} /\ j + 1 \in Messaging /\ q'[j] = q[j + 1]
  BY <1>0, MessagingShrinks, Zenon
<1>2. \A t \in Targets : written[t] \in Seq(Posted)
  BY Zenon DEF Control, TypeOK
<1> HIDE DEF q, c
<1>3. QueueOrder'
  <2> SUFFICES ASSUME NEW i \in Messaging', NEW j \in Messaging', i < j
               PROVE  Before(q'[i].m, q'[j].m)
    BY Zenon DEF QueueOrder, q
  <2>1. i + 1 \in Messaging /\ j + 1 \in Messaging /\ i + 1 < j + 1
    BY <1>1
  <2>2. Before(q[i + 1].m, q[j + 1].m)
    BY <2>1, Zenon DEF OrderInv, QueueOrder, q
  <2> QED BY <1>1, <2>2, Zenon
<1>4. \A j \in Messaging' : 1 \in Messaging => Before(c.m, q'[j].m)
  <2> SUFFICES ASSUME NEW j \in Messaging', 1 \in Messaging PROVE Before(c.m, q'[j].m)
    BY Zenon
  <2>1. j + 1 \in Messaging /\ 1 < j + 1
    BY <1>1
  <2>2. Before(q[1].m, q[j + 1].m)
    BY <2>1, Zenon DEF OrderInv, QueueOrder, q
  <2> QED BY <1>1, <2>2, Zenon
<1>5. CmdBeforeQueue'
  <2> SUFFICES ASSUME logger' = "write", NEW j \in Messaging'
               PROVE  IF cmd'.m.size = "large"
                      THEN q'[j].m.from = cmd'.m.from /\ q'[j].m.n = cmd'.m.n =>
                             q'[j].m.by \in 1 .. target'- 1
                      ELSE Before(cmd'.m, q'[j].m)
    BY Zenon DEF CmdBeforeQueue, CopiesOf, q
  <2>1. cmd' = c /\ c.c = "NEW_LOG"
    BY <1>0, Zenon
  <2>2. Before(c.m, q'[j].m)
    BY <1>1, <1>4, <2>1, Zenon
  <2>3. c.m.by = 0
    BY <1>0, <2>1, CommandTypes, PostedMessage DEF c, q
  <2>4. c.m.size = "large" => ~(q'[j].m.from = c.m.from /\ q'[j].m.n = c.m.n)
    BY <2>2, <2>3, NewIsNoCopy, Zenon
  <2> QED BY <2>1, <2>2, <2>4, Zenon
<1>6. \A t \in Targets : \A i \in 1 .. Len(written[t]) :
        /\ \A j \in Messaging' : Before(written[t][i], q'[j].m)
        /\ 1 \in Messaging => Before(written[t][i], c.m)
  BY <1>1, Zenon DEF OrderInv, WrittenBeforeQueue, q
<1>7. \A j \in Messaging' : q'[j].m \in Known'
  BY <1>1, Zenon DEF KnownInv, q
<1>8. 1 \in Messaging => c.m \in Known'
  BY <1>1, Zenon DEF KnownInv, q
<1>9. CASE c.c = "WRITE_TARGET_OVERFLOW"
  <2>1. /\ 1 \in Messaging /\ UNCHANGED <<logger, cmd>> /\ logger' # "write"
        /\ written' = [t \in Targets |-> Append(written[t], c.m)]
    BY <1>0, <1>1, <1>9, Zenon
  <2>2. \A t \in Targets : \A i \in 1 .. Len(written'[t]) :
          \/ i \in 1 .. Len(written[t]) /\ written'[t][i] = written[t][i]
          \/ i = Len(written[t]) + 1 /\ written'[t][i] = c.m
    <3> TAKE t \in Targets
    <3>1. written'[t] = Append(written[t], c.m)
      BY <2>1, Zenon
    <3> QED BY <1>2, <3>1
  <2>3. KnownInv'
    <3>1. \A t \in Targets : \A i \in 1 .. Len(written'[t]) : written'[t][i] \in Known'
      BY <1>8, <2>1, <2>2, Zenon DEF KnownInv
    <3> QED BY <1>7, <2>1, <3>1, Zenon DEF KnownInv, q
  <2>4. WrittenBeforeCmd'
    BY <2>1, Zenon DEF WrittenBeforeCmd
  <2>5. WrittenBeforeQueue'
    BY <1>4, <1>6, <2>1, <2>2, Zenon DEF WrittenBeforeQueue, q
  <2>6. WrittenOrder'
    <3> SUFFICES ASSUME NEW t \in Targets, NEW i \in 1 .. Len(written'[t]),
                        NEW j \in 1 .. Len(written'[t]), i < j
                 PROVE  Before(written'[t][i], written'[t][j])
      BY Zenon DEF WrittenOrder
    <3>1. Len(written[t]) \in Nat
      BY <1>2
    <3>2. i \in 1 .. Len(written[t]) /\ written'[t][i] = written[t][i]
      BY <2>2, <3>1
    <3> QED BY <1>6, <2>1, <2>2, <3>2, Zenon DEF OrderInv, WrittenOrder
  <2> QED BY <1>3, <1>5, <2>3, <2>4, <2>5, <2>6, Zenon DEF OrderInv
<1>10. CASE c.c # "WRITE_TARGET_OVERFLOW"
  <2>1. logger' = "write" => 1 \in Messaging /\ cmd' = c
    BY <1>0, <1>1, <1>10, Zenon
  <2>2. written' = written
    BY <1>0, <1>10, Zenon
  <2>3. KnownInv'
    BY <1>7, <1>8, <2>1, <2>2, Zenon DEF KnownInv, q
  <2>4. WrittenOrder' /\ WrittenBeforeQueue'
    BY <1>6, <2>2, Zenon DEF OrderInv, WrittenOrder, WrittenBeforeQueue, q
  <2>5. WrittenBeforeCmd'
    BY <1>6, <2>1, <2>2, Zenon DEF WrittenBeforeCmd
  <2> QED BY <1>3, <1>5, <2>3, <2>4, <2>5, Zenon DEF OrderInv
<1> QED BY <1>9, <1>10, Zenon

(* A target gets a small message. *)
LEMMA WriteSmallOrder ==
  ASSUME Control, Intact, KnownInv, OrderInv, NEW rotated \in BOOLEAN, WriteSmall(rotated),
         Known \subseteq Known'
  PROVE  KnownInv' /\ OrderInv'
<1> USE DEF pool, threads, loop
<1> DEFINE q == internalCmdQueue
           m == cmd.m
<1>1. /\ logger = "write" /\ target <= NumTargets /\ m.size = "small" /\ target' = target + 1
      /\ written' = [written EXCEPT ![target] = Append(@, m)]
      /\ AddIfRoom(RotateBuffer) \/ UNCHANGED q
      /\ UNCHANGED <<logger, cmd>>
  BY Zenon DEF WriteSmall, Post, Intact
<1>2. /\ target \in Targets /\ target \in Nat /\ written \in [Targets -> Seq(Posted)]
      /\ \A t \in Targets : t \in Nat
  BY <1>1, ConstantsAssumption DEF Control, TypeOK, Targets
<1>3. \A j \in Messaging' : j \in Messaging /\ q'[j] = q[j]
  <2>1. CASE AddIfRoom(RotateBuffer)
    <3>1. RotateBuffer \in Commands /\ RotateBuffer.c = "TARGET_ROTATE_BUFFER"
      BY CommandTypes, Zenon DEF RotateBuffer
    <3>2. q \in Seq(Commands)
      BY Zenon DEF Control, TypeOK
    <3> QED BY <2>1, <3>1, <3>2, MessagingGrows, Zenon
  <2>2. CASE UNCHANGED q
    BY <2>2, Zenon DEF Messaging
  <2> QED BY <1>1, <2>1, <2>2, Zenon
<1>4. \A t \in Targets : \A i \in 1 .. Len(written'[t]) :
        \/ i \in 1 .. Len(written[t]) /\ written'[t][i] = written[t][i]
        \/ t = target /\ i = Len(written[t]) + 1 /\ written'[t][i] = m
  <2> TAKE t \in Targets
  <2>1. CASE t = target
    <3>1. written'[t] = Append(written[t], m) /\ written[t] \in Seq(Posted)
      BY <1>1, <1>2, <2>1, Zenon
    <3> QED BY <2>1, <3>1
  <2>2. CASE t # target
    BY <1>1, <1>2, <2>2, Zenon
  <2> QED BY <2>1, <2>2, Zenon
<1> HIDE DEF q, m
<1>5. m \in Known'
  BY <1>1, Zenon DEF KnownInv, m
<1>6. KnownInv'
  <2>1. \A t \in Targets : \A i \in 1 .. Len(written'[t]) : written'[t][i] \in Known'
    BY <1>4, <1>5, Zenon DEF KnownInv
  <2>2. \A j \in Messaging' : q'[j].m \in Known'
    BY <1>3, Zenon DEF KnownInv, q
  <2> QED BY <1>1, <1>5, <2>1, <2>2, Zenon DEF KnownInv, q, m
<1>7. WrittenOrder'
  <2> SUFFICES ASSUME NEW t \in Targets, NEW i \in 1 .. Len(written'[t]),
                      NEW j \in 1 .. Len(written'[t]), i < j
               PROVE  Before(written'[t][i], written'[t][j])
    BY Zenon DEF WrittenOrder
  <2>1. Len(written[t]) \in Nat
    BY <1>2
  <2>2. i \in 1 .. Len(written[t]) /\ written'[t][i] = written[t][i]
    BY <1>4, <2>1
  <2>3. CASE j \in 1 .. Len(written[t]) /\ written'[t][j] = written[t][j]
    BY <2>2, <2>3, Zenon DEF OrderInv, WrittenOrder
  <2>4. CASE t = target /\ written'[t][j] = m
    <3>1. target <= t
      BY <1>2, <2>4
    <3> QED BY <1>1, <2>2, <2>4, <3>1, Zenon DEF OrderInv, WrittenBeforeCmd, m
  <2> QED BY <1>4, <2>3, <2>4, Zenon
<1>8. WrittenBeforeCmd'
  <2>0. m.size # "large"
    BY <1>1
  <2> SUFFICES ASSUME NEW t \in Targets, NEW i \in 1 .. Len(written'[t]), target + 1 <= t
               PROVE  Before(written'[t][i], m)
    BY <1>1, <2>0, Zenon DEF WrittenBeforeCmd, m
  <2>1. t # target /\ target <= t
    BY <1>2
  <2> QED BY <1>1, <1>4, <2>1, Zenon DEF OrderInv, WrittenBeforeCmd, m
<1>9. WrittenBeforeQueue'
  <2>1. \A j \in Messaging : Before(m, q[j].m)
    BY <1>1 DEF OrderInv, CmdBeforeQueue, m, q
  <2> QED BY <1>3, <1>4, <2>1, Zenon DEF OrderInv, WrittenBeforeQueue, q
<1>10. CmdBeforeQueue' /\ QueueOrder'
  <2>1. m.size # "large"
    BY <1>1
  <2> QED BY <1>1, <1>3, <2>1, Zenon DEF OrderInv, CmdBeforeQueue, QueueOrder, m, q
<1> QED BY <1>6, <1>7, <1>8, <1>9, <1>10, Zenon DEF OrderInv

(* A target sends a large message round again. *)
LEMMA WriteLargeOrder ==
  ASSUME Control, Intact, KnownInv, OrderInv, WriteLarge, Known \subseteq Known'
  PROVE  KnownInv' /\ OrderInv'
<1> USE DEF pool, threads, loop
<1> DEFINE q == internalCmdQueue
           m == cmd.m
           k == Copy(cmd.m, target)
           n == Len(internalCmdQueue)
<1>1. /\ logger = "write" /\ target <= NumTargets /\ m.size = "large" /\ target' = target + 1
      /\ AddIfRoom(Overflow(k)) /\ UNCHANGED <<logger, cmd, written>>
  BY Zenon DEF WriteLarge, Post, Intact
<1>2. target \in Targets /\ target \in Nat /\ target >= 1 /\ n \in Nat
  BY <1>1, ConstantsAssumption DEF Control, TypeOK, Targets
<1>3. m \in Logged /\ m.by = 0 /\ Original(m) = m
  BY <1>1, PostedMessage, Zenon DEF Control, LoggerInv
<1>4. /\ k \in Posted /\ Original(k) = m /\ k.from = m.from /\ k.n = m.n
      /\ k.size = "large" /\ k.by = target
  BY <1>1, <1>2, <1>3, PostedMessage, Zenon
<1>5. \A j \in Messaging' :
        \/ j \in Messaging /\ q'[j].m = q[j].m
        \/ j = n + 1 /\ q'[j].m = k
  <2>1. Overflow(k) \in Commands /\ Overflow(k).m = k
    BY <1>4, CommandTypes, Zenon DEF Overflow
  <2>2. q \in Seq(Commands)
    BY Zenon DEF Control, TypeOK
  <2> QED BY <1>1, <2>1, <2>2, MessagingGrows, Zenon
<1>6. \A j \in Messaging : j \in 1 .. n
  BY Zenon DEF Messaging
<1>7. m \in Known
  BY <1>1, Zenon DEF KnownInv
<1> HIDE DEF q, m, k, n
<1>8. k \in Known
  BY <1>1, <1>3, <1>4, <1>7, Zenon DEF Known
<1>9. KnownInv'
  <2>1. \A j \in Messaging' : q'[j].m \in Known'
    BY <1>5, <1>8, Zenon DEF KnownInv, q
  <2> QED BY <1>1, <1>7, <2>1, ZenonT(30) DEF KnownInv, q, m
<1>10. WrittenOrder' /\ WrittenBeforeCmd'
  BY <1>1, Zenon DEF OrderInv, WrittenOrder, WrittenBeforeCmd, m
<1>11. \A t \in Targets : \A i \in 1 .. Len(written[t]) : Before(written[t][i], k)
  <2> TAKE t \in Targets
  <2> TAKE i \in 1 .. Len(written[t])
  <2>1. Before(written[t][i], m)
    BY <1>1, Zenon DEF OrderInv, WrittenBeforeCmd, m
  <2>2. ~(written[t][i].from = m.from /\ written[t][i].n = m.n)
    BY <1>1, <1>3, <2>1, NewIsNoCopy, Zenon
  <2> QED BY <1>4, <2>2, Zenon DEF Before
<1>12. WrittenBeforeQueue'
  BY <1>1, <1>5, <1>11, Zenon DEF OrderInv, WrittenBeforeQueue, q
<1>13. \A j \in Messaging : CopiesOf(m, q[j].m)
  BY <1>1, Zenon DEF OrderInv, CmdBeforeQueue, m, q
<1>14. CmdBeforeQueue'
  <2> SUFFICES ASSUME NEW j \in Messaging', q'[j].m.from = m.from, q'[j].m.n = m.n
               PROVE  q'[j].m.by \in 1 .. target'- 1
    BY <1>1, Zenon DEF CmdBeforeQueue, CopiesOf, m, q
  <2>1. CASE j \in Messaging /\ q'[j].m = q[j].m
    <3>1. q'[j].m.by \in 1 .. target - 1
      BY <1>13, <2>1, Zenon DEF CopiesOf
    <3> QED BY <1>1, <1>2, <3>1
  <2>2. CASE q'[j].m = k
    BY <1>1, <1>2, <1>4, <2>2
  <2> QED BY <1>5, <2>1, <2>2, Zenon
<1>15. \A j \in Messaging : Before(q[j].m, k)
  <2> SUFFICES ASSUME NEW j \in Messaging, q[j].m.from = k.from, q[j].m.n = k.n
               PROVE  q[j].m.by # 0 /\ k.by # 0 /\ q[j].m.by # k.by
    BY <1>4, Zenon DEF Before
  <2>1. q[j].m.by \in 1 .. target - 1
    BY <1>4, <1>13, Zenon DEF CopiesOf
  <2> QED BY <1>2, <1>4, <2>1
<1>16. QueueOrder'
  <2> SUFFICES ASSUME NEW i \in Messaging', NEW j \in Messaging', i < j
               PROVE  Before(q'[i].m, q'[j].m)
    BY Zenon DEF QueueOrder, q
  <2>1. i \in Messaging /\ q'[i].m = q[i].m
    BY <1>2, <1>5, <1>6
  <2> QED BY <1>5, <1>15, <2>1, Zenon DEF OrderInv, QueueOrder, q
<1> QED BY <1>9, <1>10, <1>12, <1>14, <1>16, Zenon DEF OrderInv

(* No message is known at first. *)
LEMMA OrderInit == Init => KnownInv /\ OrderInv
<1> SUFFICES ASSUME Init PROVE KnownInv /\ OrderInv
  BY Zenon
<1>1. Messaging = {} /\ logger # "write" /\ \A t \in Targets : Len(written[t]) = 0
  BY DEF Init, Messaging
<1>2. KnownInv
  BY <1>1 DEF KnownInv
<1> QED BY <1>1, <1>2 DEF OrderInv, WrittenOrder, WrittenBeforeCmd, WrittenBeforeQueue,
                          CmdBeforeQueue, QueueOrder

(* Every step keeps the messages of a producer in order on their way. *)
LEMMA OrderStep ==
  ASSUME Control, Control', Pools, KnownInv, OrderInv, [Next]_vars
  PROVE  KnownInv' /\ OrderInv'
<1> USE DEF pool, threads, loop
<1>0. /\ Known \subseteq Known' /\ Intact /\ TypeOK /\ Producers \subseteq Threads
      /\ Callers \subseteq Producers /\ Readers \subseteq Producers
  BY KnownStays, Zenon DEF Pools, Control, Threads, Producers
<1>1. CASE UNCHANGED vars
  BY <1>0, <1>1, QuietOrder, Zenon DEF vars
<1>2. ASSUME NEW p \in Threads,
             \/ \E size \in Sizes : LogSmall(p, size) \/ Read(p, size)
             \/ LogHuge(p) \/ PoolEmpty(p) \/ Grab(p) \/ ReadNothing(p)
             \/ ReadIncomplete(p) \/ Send(p) \/ GiveBack(p)
      PROVE  KnownInv' /\ OrderInv'
  <2>1. UNCHANGED <<internalCmdQueue, written, logger, cmd, target>>
    BY <1>2, Zenon DEF LogSmall, Read, LogHuge, PoolEmpty, Grab, ReadNothing, ReadIncomplete, Send,
                GiveBack
  <2> QED BY <1>0, <2>1, QuietOrder, Zenon
<1>3. CASE Wake \/ DrainEmpty \/ Recycle
  <2>1. UNCHANGED <<internalCmdQueue, written>> /\ logger' # "write"
    BY <1>3, Zenon DEF Wake, DrainEmpty, Recycle
  <2> QED BY <1>0, <2>1, QuietOrder, Zenon
<1>4. CASE RequestShutdown
  <2>1. Shutdown \in Commands /\ Shutdown.c \notin {"NEW_LOG", "WRITE_TARGET_OVERFLOW"}
    BY CommandTypes, Zenon DEF Shutdown
  <2>2. AddIfRoom(Shutdown) /\ UNCHANGED <<logger, cmd, target, written>>
    BY <1>4, Zenon DEF RequestShutdown
  <2> QED BY <1>0, <2>1, <2>2, GrowOrder, Zenon
<1>5. ASSUME NEW p \in Threads, Enqueue(p) PROVE KnownInv' /\ OrderInv'
  <2> DEFINE m == mine[p]
             c == IF m.size # "huge" THEN NewLog(hold[p], m) ELSE Overflow(m)
  <2>1. /\ pc[p] = "enqueue" /\ m \in Logged /\ m.from = p /\ m.n = sent[p]
        /\ m.size \in Sizes /\ p \in Producers
        /\ hold[p] = NoEntry <=> m.size = "huge"
    BY <1>5, Zenon DEF Enqueue, Control, ThreadInv
  <2>2. c \in Commands /\ Original(m) = m
    <3>1. (m.size = "huge" => m \in Posted) /\ Original(m) = m
      BY <2>1, PostedMessage, Zenon
    <3>2. m.size # "huge" => hold[p] \in Entries
      BY <1>0, <2>1, Zenon DEF TypeOK
    <3> QED BY <2>1, <3>1, <3>2, CommandTypes, Zenon
  <2>3. c.m = m
    BY ZenonT(30) DEF NewLog, Overflow
  <2>4. /\ AddIfRoom(c) /\ UNCHANGED <<logger, cmd, target, written, sent>>
        /\ pc'[p] # "enqueue" /\ (HasRoom => m \in accepted')
    BY <1>0, <1>5, Zenon DEF Enqueue, TypeOK
  <2>5. \A k \in Known : Before(k, m)
    BY <2>1, MineIsNew, ZenonT(30)
  <2>6. sent[p] \in Nat
    BY <1>0, <2>1, ConstantsAssumption DEF TypeOK
  <2> HIDE DEF m, c
  <2>7. HasRoom => m \in Known'
    <3>1. PICK n \in Nat : n = m.n /\ n = sent'[m.from]
      BY <2>1, <2>4, <2>6, Zenon
    <3>2. m.n <= sent'[m.from]
      BY <3>1
    <3>3. pc'[m.from] # "enqueue"
      BY <2>1, <2>4, Zenon
    <3> QED BY <2>1, <2>2, <2>4, <3>2, <3>3, Zenon DEF Known
  <2> QED BY <1>0, <2>2, <2>3, <2>4, <2>5, <2>7, GrowOrder, Zenon
<1> QED
  BY <1>0, <1>1, <1>2, <1>3, <1>4, <1>5, TakeOrder, WriteSmallOrder, WriteLargeOrder, Zenon
  DEF Next, Log, Reader, Producer, LoggerStep, WriteStep

(* The order of messages on the way to the targets is an invariant. *)
LEMMA OrderInvariant == Spec => [](KnownInv /\ OrderInv)
<1>1. Init => KnownInv /\ OrderInv
  BY OrderInit, Zenon
<1>2. Control /\ Pools /\ Control' /\ KnownInv /\ OrderInv /\ [Next]_vars
        => (KnownInv /\ OrderInv)'
  BY OrderStep, Zenon
<1> QED BY <1>1, <1>2, PoolInvariant, PTL DEF Spec

(* Each target gets the messages of one producer in the order they were       *)
(* logged, for any number of producers, targets and messages.                 *)
THEOREM ProducersInOrder == Spec => []ProducerOrder
<1>1. ASSUME OrderInv PROVE ProducerOrder
  BY <1>1, Zenon DEF OrderInv, WrittenOrder, ProducerOrder, Before
<1> QED BY <1>1, OrderInvariant, PTL

(* A target gets only what the queue took, and nothing twice: a large message *)
(* comes at most once for each target that sent it round again, any other     *)
(* message once, for any number of producers, targets and messages.           *)
THEOREM OneCopyPerPost == Spec => []OncePerPost
<1>1. Control /\ KnownInv /\ OrderInv => OncePerPost
  <2> SUFFICES ASSUME Control, KnownInv, OrderInv, NEW t \in Targets
               PROVE  /\ IsInjective(written[t])
                      /\ \A m \in Range(written[t]) :
                           Original(m) \in accepted /\ (m.by = 0 <=> m.size # "large")
    BY Zenon DEF OncePerPost
  <2>1. /\ written[t] \in Seq(Posted) /\ DOMAIN written[t] = 1 .. Len(written[t])
        /\ Len(written[t]) \in Nat
    BY DEF Control, TypeOK
  <2>2. \A m \in Range(written[t]) : Original(m) \in accepted
    BY <2>1, Zenon DEF KnownInv, Known, Range
  <2>3. \A m \in Posted : m.n \in Nat /\ (m.by = 0 <=> m.size # "large")
    BY ConstantsAssumption DEF Posted, Targets
  <2>4. \A m \in Range(written[t]) : m \in Posted
    BY <2>1 DEF Range
  <2>5. \A i, j \in 1 .. Len(written[t]) : i < j => written[t][i] # written[t][j]
    <3> SUFFICES ASSUME NEW i \in 1 .. Len(written[t]), NEW j \in 1 .. Len(written[t]), i < j
                 PROVE  written[t][i] # written[t][j]
      BY Zenon
    <3>1. Before(written[t][i], written[t][j])
      BY Zenon DEF OrderInv, WrittenOrder
    <3>2. written[t][i].n \in Nat
      <4>1. written[t][i] \in Posted
        BY <2>1
      <4> QED BY <2>3, <4>1
    <3>3. ~(written[t][i].n < written[t][i].n)
      BY <3>2
    <3> QED BY <3>1, <3>3, Zenon DEF Before
  <2>6. IsInjective(written[t])
    BY <2>1, <2>5 DEF IsInjective
  <2>7. \A m \in Range(written[t]) : m.by = 0 <=> m.size # "large"
    BY <2>3, <2>4
  <2> QED BY <2>2, <2>6, <2>7, Zenon
<1> QED BY <1>1, OrderInvariant, PoolInvariant, PTL

=============================================================================
