--------------------------- MODULE FileTargetProofs ---------------------------
(***************************************************************************)
(* Proofs about FileTarget: any number of rotated files, of users that     *)
(* flush, of writes and of starts, and any settings.                       *)
(***************************************************************************)
EXTENDS FileTarget, FiniteSetTheorems, TLAPS

-----------------------------------------------------------------------------
(* The inductive invariant: types. *)

Settings == [max_files : Nat, max_file_size : Nat, max_total_size : Nat, rotate_on_start : BOOLEAN]
Modes == {"down", "open", "unready", "idle", "rotate", "reopen", "stuck", "aborted"}

OptsInv == opts.enabled \in BOOLEAN /\ opts.asked \in Settings /\ (opts.enabled <=> Build = "node")

ControlTypes ==
  /\ mode \in Modes /\ starting \in BOOLEAN /\ closing \in BOOLEAN /\ opened \in BOOLEAN
  /\ starts \in 0 .. MaxStarts
  /\ opened => mode = "idle" /\ 0 \in DOMAIN disk

DiskTypes ==
  /\ DOMAIN disk \subseteq 0 .. MaxRotated - 1
  /\ \A n \in DOMAIN disk : disk[n].ids \subseteq 1 .. MaxWrites /\ disk[n].size \in Nat

ListTypes ==
  /\ rotatedFiles \in Seq(Nat) /\ tempFiles \in Seq(Nat)
  /\ Len(rotatedFiles) + Len(tempFiles) <= MaxRotated
  /\ mode \in {"down", "open", "idle", "reopen"} => tempFiles = <<>>

ThreadTypes ==
  /\ submittedWrites \in Int /\ current_size \in Nat
  /\ pc \in [Threads -> {"idle", "add", "submit", "overflow", "check"}]
  /\ job \in [Threads -> [len : Lens \cup {0}, read : Nat]]
  /\ \A t \in Threads : pc[t] \in {"add", "submit"} => job[t].len \in Lens
  /\ \A t \in Threads : pc[t] \in {"overflow", "check"} => t = Logger

(* A write has its number from when it is submitted, and a buffer that is    *)
(* being flushed will get one.                                               *)
Flushing == {t \in Threads : pc[t] \in {"add", "submit"}}

NumberInv ==
  /\ queued \subseteq Write /\ performed \subseteq Write
  /\ nextId \in Nat \ {0} /\ made \in 0 .. MaxWrites
  /\ IsFiniteSet(Flushing) /\ nextId + Cardinality(Flushing) <= made + 1
  /\ \A w \in queued \cup performed : w.id < nextId
  /\ \A v \in queued, w \in performed : v.id # w.id
  /\ \A v, w \in queued : v.id = w.id => v = w

HistoryTypes ==
  /\ overwritten \subseteq 1 .. MaxWrites
  /\ torn \in BOOLEAN /\ interrupted \in BOOLEAN /\ failed \in BOOLEAN /\ raced \in BOOLEAN

(* submittedWrites counts what the thread pool has, and the write of an      *)
(* overflow that is not checked yet; until the shutdown.                     *)
Overflowing == IF pc[Logger] \in {"overflow", "check"} THEN 1 ELSE 0

CountInv ==
  ~closing => /\ IsFiniteSet(queued) /\ IsFiniteSet(performed)
              /\ submittedWrites = Cardinality(queued) + Cardinality(performed) + Overflowing

(* All writes in files have their number; a file with a larger number holds  *)
(* older ones; what is queued is newer than the rotated files, and nothing   *)
(* is queued during a rotation.                                              *)
NumberedInv == \A n \in DOMAIN disk : \A j \in disk[n].ids : j < nextId
Sorted ==
  \A m, n \in DOMAIN disk : m < n => \A i \in disk[m].ids, j \in disk[n].ids : j < i
Behind == \A n \in DOMAIN disk : n # 0 => \A j \in disk[n].ids, w \in queued : j < w.id
OrderInv == ~torn => Sorted /\ Behind /\ (mode # "idle" => queued = {})

-----------------------------------------------------------------------------
(* Before the first start. *)
LEMMA TypesInit ==
  Init => OptsInv /\ ControlTypes /\ DiskTypes /\ ListTypes /\ ThreadTypes /\ HistoryTypes
<1> SUFFICES ASSUME Init
             PROVE  OptsInv /\ ControlTypes /\ DiskTypes /\ ListTypes /\ ThreadTypes /\ HistoryTypes
  BY Zenon
<1> USE ConstantsAssumption DEF Init
<1>1. OptsInv
  <2>1. PICK a \in Asked : opts = IF Build = "lib" THEN LibOpts(a) ELSE NodeOpts(a)
    BY Zenon
  <2>2. a \in Settings
    BY Zenon DEF Settings
  <2>3. CASE Build = "lib"
    BY <2>1, <2>2, <2>3, Zenon DEF OptsInv, LibOpts
  <2>4. CASE Build = "node"
    BY <2>1, <2>2, <2>4, Zenon DEF OptsInv, NodeOpts
  <2> QED BY <2>3, <2>4, Zenon
<1>2. ControlTypes
  <2>1. mode \in Modes /\ starts \in 0 .. MaxStarts
    BY DEF Modes
  <2>2. starting \in BOOLEAN /\ closing \in BOOLEAN /\ opened \in BOOLEAN /\ ~opened
    BY Zenon
  <2> QED BY <2>1, <2>2, Zenon DEF ControlTypes
<1>3. DiskTypes
  BY Zenon DEF DiskTypes
<1>4. ListTypes
  BY DEF ListTypes
<1>5. ThreadTypes
  BY DEF ThreadTypes, NoJob
<1>6. HistoryTypes
  BY Zenon DEF HistoryTypes
<1> QED BY <1>1, <1>2, <1>3, <1>4, <1>5, <1>6, Zenon

(* No write is numbered or outstanding when the target is made. *)
LEMMA CountInit == Init => NumberInv /\ CountInv
<1> SUFFICES ASSUME Init PROVE NumberInv /\ CountInv
  BY Zenon
<1>1. Flushing = {} /\ queued = {} /\ performed = {} /\ made = 0 /\ nextId = 1
  BY Zenon DEF Init, Flushing
<1>2. IsFiniteSet({}) /\ Cardinality({}) = 0
  BY FS_EmptySet, Zenon
<1>3. NumberInv
  BY <1>1, <1>2, ConstantsAssumption DEF NumberInv
<1>4. Overflowing = 0 /\ submittedWrites = 0
  BY Zenon DEF Init, Overflowing, Threads
<1>5. CountInv
  BY <1>1, <1>2, <1>4 DEF CountInv
<1> QED BY <1>3, <1>5, Zenon

-----------------------------------------------------------------------------
(* Types stay. *)

(* Options are set once, before the target is opened. *)
LEMMA OptsStep == OptsInv /\ [Next]_vars => OptsInv'
<1> SUFFICES ASSUME OptsInv, [Next]_vars PROVE OptsInv'
  BY Zenon
<1>1. UNCHANGED opts
  BY Zenon DEF Next, vars, Start, OnOpen, OnOpenError, Rotation, RemoveOldest, RenameOldest,
         RenameCurrent, Reopen, Flush, FlushRead, FlushAdd, FlushSubmit, Perform, WriteCb, Overflow,
         OverflowWrite, OverflowRead, OverflowCheck, Shutdown, FlushSync, Exit
<1> QED BY <1>1, Zenon DEF OptsInv

(* The file is closed, or nothing happens to it. *)
LEMMA CheckDoes ==
  ASSUME NEW size, Check(size)
  PROVE  \/ UNCHANGED <<mode, opened, queued, torn>>
         \/ /\ mode' = "rotate" /\ opened' = FALSE /\ torn' = (torn \/ queued # {})
            /\ queued' = {[w EXCEPT !.stale = TRUE] : w \in queued}
            /\ submittedWrites - 1 < 1 /\ opts.enabled /\ size > opts.asked.max_file_size
BY Zenon DEF Check, CloseFile

(* Every callback leaves the mode and the counters of the target well formed. *)
LEMMA ControlStep == DiskTypes /\ ControlTypes /\ [Next]_vars => ControlTypes'
<1> SUFFICES ASSUME DiskTypes, ControlTypes, [Next]_vars PROVE ControlTypes'
  BY Zenon
<1> USE DEF memory, control, threads, pool, history
<1>1. CASE UNCHANGED vars
  BY <1>1, Zenon DEF vars, ControlTypes
<1>2. CASE Start
  <2>1. starts' \in 0 .. MaxStarts
    BY <1>2, ConstantsAssumption DEF Start, ControlTypes
  <2>2. mode' \in Modes /\ ~opened
    BY <1>2, Zenon DEF Start, ControlTypes, Modes
  <2> QED BY <1>2, <2>1, <2>2, Zenon DEF Start, ControlTypes
<1>3. CASE OnOpen
  <2>1. 0 \in DOMAIN disk'
    BY <1>3, Zenon DEF OnOpen, Created
  <2> QED BY <1>3, <2>1, Zenon DEF OnOpen, ControlTypes, Modes
<1>4. CASE OnOpenError
  BY <1>4, Zenon DEF OnOpenError, ControlTypes, Modes
<1>5. CASE RemoveOldest
  <2>1. mode' \in Modes /\ ~opened
    BY <1>5, Zenon DEF RemoveOldest, ControlTypes, Modes
  <2> QED BY <1>5, <2>1, Zenon DEF RemoveOldest, ControlTypes
<1>6. CASE RenameOldest
  BY <1>6, Zenon DEF RenameOldest, ControlTypes
<1>7. CASE RenameCurrent
  <2>1. mode' \in Modes /\ ~opened
    BY <1>7, Zenon DEF RenameCurrent, ControlTypes, Modes
  <2> QED BY <1>7, <2>1, Zenon DEF RenameCurrent, ControlTypes
<1>8. CASE Reopen
  <2>1. opened' => 0 \in DOMAIN disk'
    BY <1>8, Zenon DEF Reopen, Created, ControlTypes
  <2> QED BY <1>8, <2>1, Zenon DEF Reopen, ControlTypes, Modes
<1>9. ASSUME NEW t \in Threads, Flush(t) PROVE ControlTypes'
  BY <1>9 DEF Flush, FlushRead, FlushAdd, FlushSubmit, ControlTypes
<1>10. ASSUME NEW w, Perform(w) PROVE ControlTypes'
  <2>1. DOMAIN disk' = DOMAIN disk
    BY <1>10, Zenon DEF Perform, Written
  <2> QED BY <1>10, <2>1, Zenon DEF Perform, ControlTypes
<1>11. ASSUME NEW w, WriteCb(w) PROVE ControlTypes'
  <2>1. Check(current_size)
    BY <1>11, Zenon DEF WriteCb
  <2>2. UNCHANGED <<disk, starting, closing, starts>>
    BY <1>11, Zenon DEF WriteCb
  <2> QED BY <2>1, <2>2, CheckDoes, Zenon DEF ControlTypes, Modes
<1>12. ASSUME NEW len, OverflowWrite(len) PROVE ControlTypes'
  <2>1. DOMAIN disk' = DOMAIN disk
    BY <1>12, Zenon DEF OverflowWrite, Written
  <2> QED BY <1>12, <2>1, Zenon DEF OverflowWrite, ControlTypes
<1>13. CASE OverflowRead
  BY <1>13, Zenon DEF OverflowRead, ControlTypes
<1>14. CASE OverflowCheck
  <2>1. PICK size : Check(size)
    BY <1>14, Zenon DEF OverflowCheck
  <2>2. UNCHANGED <<disk, starting, closing, starts>>
    BY <1>14, Zenon DEF OverflowCheck
  <2> QED BY <2>1, <2>2, CheckDoes, Zenon DEF ControlTypes, Modes
<1>15. CASE Shutdown
  BY <1>15, Zenon DEF Shutdown, ControlTypes
<1>16. ASSUME NEW len, FlushSync(len) PROVE ControlTypes'
  <2>1. Check(current_size)
    BY <1>16, Zenon DEF FlushSync
  <2>2. UNCHANGED <<starting, closing, starts>> /\ DOMAIN disk' = DOMAIN disk
    BY <1>16, Zenon DEF FlushSync, Written
  <2> QED BY <2>1, <2>2, CheckDoes, Zenon DEF ControlTypes, Modes
<1>17. CASE Exit
  BY <1>17, Zenon DEF Exit, ControlTypes, Modes
<1> QED BY <1>1, <1>2, <1>3, <1>4, <1>5, <1>6, <1>7, <1>8, <1>9, <1>10, <1>11, <1>12, <1>13,
           <1>14, <1>15, <1>16, <1>17, Zenon DEF Next, Rotation, Overflow

(* There is a first gap. *)
LEMMA LeastNumber ==
  ASSUME NEW S \in SUBSET Nat, S # {}
  PROVE  \E i \in S : \A j \in S : i <= j
<1> DEFINE R == OpToRel(<, Nat)
<1>1. IsWellFoundedOn(R, Nat)
  BY NatLessThanWellFounded, Zenon
<1>2. \A i, j \in Nat : <<j, i>> \in R <=> j < i
  BY Zenon DEF OpToRel
<1> HIDE DEF R
<1>3. \E i \in S : \A j \in S : ~(<<j, i>> \in R)
  BY <1>1, WFMin, Zenon
<1>4. PICK i \in S : \A j \in S : ~(<<j, i>> \in R)
  BY <1>3, Zenon
<1>5. \A j \in S : i \in Nat /\ j \in Nat /\ ~(j < i)
  BY <1>2, <1>4, Zenon
<1>6. \A j \in S : i <= j
  BY <1>5
<1> QED BY <1>6, Zenon

(* check_files() finds the rotated files up to the first gap. *)
LEMMA FoundIs ==
  \E l \in 0 .. MaxRotated - 1 :
    /\ Found = 1 .. l /\ Cardinality(Found) = l
    /\ l < MaxRotated - 1 => l + 1 \notin DOMAIN disk
<1> DEFINE Gaps == {n \in 1 .. MaxRotated : n = MaxRotated \/ n \notin DOMAIN disk}
<1>0. MaxRotated \in Nat \ {0}
  BY ConstantsAssumption, Zenon
<1>1. Gaps \in SUBSET Nat /\ Gaps # {}
  BY <1>0
<1>2. PICK g \in Gaps : \A n \in Gaps : g <= n
  BY <1>1, LeastNumber, Zenon
<1>3. g \in 1 .. MaxRotated /\ (g = MaxRotated \/ g \notin DOMAIN disk)
  BY Zenon
<1>4. \A n \in 1 .. g - 1 : n \in DOMAIN disk /\ n \in 1 .. MaxRotated - 1
  BY <1>0, <1>2, <1>3
<1> HIDE DEF Gaps
<1>5. Found = 1 .. g - 1
  <2>1. ASSUME NEW n \in Found PROVE n \in 1 .. g - 1
    <3>1. n \in 1 .. MaxRotated - 1 /\ \A i \in 1 .. n : i \in DOMAIN disk
      BY Zenon DEF Found, Exists
    <3>2. g \notin 1 .. n
      BY <1>0, <1>3, <3>1
    <3> QED BY <1>0, <1>3, <3>1, <3>2
  <2>2. ASSUME NEW n \in 1 .. g - 1 PROVE n \in Found
    <3>1. \A i \in 1 .. n : i \in 1 .. g - 1
      BY <1>3
    <3> QED BY <1>4, <3>1, Zenon DEF Found, Exists
  <2> QED BY <2>1, <2>2, Zenon
<1>6. Cardinality(1 .. g - 1) = g - 1
  BY <1>0, <1>3, FS_Interval
<1>7. g - 1 \in 0 .. MaxRotated - 1 /\ (g - 1 < MaxRotated - 1 => g - 1 + 1 \notin DOMAIN disk)
  BY <1>0, <1>3
<1> QED BY <1>5, <1>6, <1>7, Zenon

(* The lists of rotated files stay within max_files and MAX_ROTATED_FILES. *)
LEMMA ListStep == ControlTypes /\ ListTypes /\ [Next]_vars => ListTypes'
<1> SUFFICES ASSUME ControlTypes, ListTypes, [Next]_vars PROVE ListTypes'
  BY Zenon
<1> USE DEF memory, control, threads, pool, history
<1>0. MaxRotated \in Nat \ {0}
  BY ConstantsAssumption, Zenon
<1>1. CASE UNCHANGED <<rotatedFiles, tempFiles, mode>>
  BY <1>1, Zenon DEF ListTypes
<1>2. CASE Start
  <2>1. PICK l \in 0 .. MaxRotated - 1 : Cardinality(Found) = l
    BY FoundIs, Zenon
  <2>2. tempFiles = <<>> /\ tempFiles' = <<>>
    BY <1>2, Zenon DEF Start, ListTypes
  <2>3. CASE opts.enabled
    <3>1. rotatedFiles' = [i \in 1 .. l |-> l + 1 - i]
      BY <1>2, <2>1, <2>3, Zenon DEF Start
    <3>2. rotatedFiles' \in Seq(Nat) /\ Len(rotatedFiles') = l
      BY <1>0, <3>1
    <3> QED BY <1>0, <2>2, <3>2 DEF ListTypes
  <2>4. CASE ~opts.enabled
    BY <1>2, <2>2, <2>4, Zenon DEF Start, ListTypes
  <2> QED BY <2>3, <2>4, Zenon
<1>3. CASE RemoveOldest
  <2>1. rotatedFiles' = Tail(rotatedFiles) /\ rotatedFiles # <<>> /\ tempFiles' = tempFiles
        /\ mode' \in {"rotate", "aborted"}
    BY <1>3, Zenon DEF RemoveOldest
  <2>2. rotatedFiles' \in Seq(Nat) /\ Len(rotatedFiles') = Len(rotatedFiles) - 1
    BY <2>1 DEF ListTypes
  <2> QED BY <1>0, <2>1, <2>2 DEF ListTypes
<1>4. CASE RenameOldest
  <2>1. /\ rotatedFiles' = Tail(rotatedFiles) /\ rotatedFiles # <<>>
        /\ tempFiles' = Append(tempFiles, Head(rotatedFiles) + 1)
        /\ mode' = "rotate"
    BY <1>4, Zenon DEF RenameOldest, Oldest
  <2>2. /\ rotatedFiles' \in Seq(Nat) /\ Len(rotatedFiles') = Len(rotatedFiles) - 1
        /\ Head(rotatedFiles) \in Nat
    BY <2>1 DEF ListTypes
  <2>3. tempFiles' \in Seq(Nat) /\ Len(tempFiles') = Len(tempFiles) + 1
    BY <2>1, <2>2 DEF ListTypes
  <2> QED BY <1>0, <2>1, <2>2, <2>3 DEF ListTypes
<1>5. CASE RenameCurrent
  <2>1. /\ rotatedFiles = <<>> /\ mode = "rotate"
        /\ \/ rotatedFiles' = Append(tempFiles, 1) /\ tempFiles' = <<>> /\ Len(tempFiles) < MaxRotated
           \/ UNCHANGED <<rotatedFiles, tempFiles>> /\ mode' = "stuck"
           \/ rotatedFiles' = tempFiles /\ tempFiles' = <<>>
    BY <1>5, Zenon DEF RenameCurrent
  <2>2. CASE rotatedFiles' = Append(tempFiles, 1) /\ tempFiles' = <<>> /\ Len(tempFiles) < MaxRotated
    <3>1. rotatedFiles' \in Seq(Nat) /\ Len(rotatedFiles') = Len(tempFiles) + 1 /\ Len(tempFiles) \in Nat
      BY <2>2 DEF ListTypes
    <3> QED BY <1>0, <2>2, <3>1 DEF ListTypes
  <2>3. CASE UNCHANGED <<rotatedFiles, tempFiles>> /\ mode' = "stuck"
    BY <2>3, Zenon DEF ListTypes
  <2>4. CASE rotatedFiles' = tempFiles /\ tempFiles' = <<>>
    BY <1>0, <2>1, <2>4 DEF ListTypes
  <2> QED BY <2>1, <2>2, <2>3, <2>4, Zenon
<1>6. CASE UNCHANGED <<rotatedFiles, tempFiles>> /\ mode \in {"open", "idle", "reopen"}
  BY <1>6, Zenon DEF ListTypes
<1>7. CASE Exit
  BY <1>0, <1>7 DEF Exit, ListTypes
<1>8. CASE OnOpen \/ OnOpenError \/ Reopen \/ Shutdown
  BY <1>6, <1>8, Zenon DEF OnOpen, OnOpenError, Reopen, Shutdown, LoggerFree
<1>9. ASSUME NEW t, Flush(t) PROVE ListTypes'
  BY <1>1, <1>9, Zenon DEF Flush, FlushRead, FlushAdd, FlushSubmit
<1>10. ASSUME NEW w, Perform(w) PROVE ListTypes'
  BY <1>1, <1>10, Zenon DEF Perform
<1>11. ASSUME NEW w, WriteCb(w) PROVE ListTypes'
  BY <1>6, <1>11, Zenon DEF WriteCb, LoggerFree
<1>12. CASE Overflow
  <2>1. ASSUME NEW len, OverflowWrite(len) PROVE ListTypes'
    BY <1>1, <2>1, Zenon DEF OverflowWrite
  <2>2. CASE OverflowRead
    BY <1>1, <2>2, Zenon DEF OverflowRead
  <2>3. CASE OverflowCheck
    <3>1. UNCHANGED <<rotatedFiles, tempFiles>> /\ mode' \in {mode, "rotate"}
      BY <2>3, CheckDoes, Zenon DEF OverflowCheck
    <3> QED BY <3>1, Zenon DEF ListTypes
  <2> QED BY <1>12, <2>1, <2>2, <2>3, Zenon DEF Overflow
<1>13. ASSUME NEW len, FlushSync(len) PROVE ListTypes'
  BY <1>6, <1>13, Zenon DEF FlushSync, LoggerFree
<1>14. CASE UNCHANGED vars
  BY <1>1, <1>14, Zenon DEF vars
<1> QED BY <1>2, <1>3, <1>4, <1>5, <1>7, <1>8, <1>9, <1>10, <1>11, <1>12, <1>13, <1>14, Zenon
        DEF Next, Rotation

(* What a flush has read and will write are numbers. *)
LEMMA JobFields ==
  ASSUME ThreadTypes, NEW t \in Threads
  PROVE  job[t].read \in Nat /\ job[t].len \in Nat /\ job[t].len \in Lens \cup {0}
<1>1. job[t] \in [len : Lens \cup {0}, read : Nat]
  BY Zenon DEF ThreadTypes
<1>2. job[t].read \in Nat /\ job[t].len \in Lens \cup {0}
  BY <1>1, Zenon
<1>3. \A l \in Lens \cup {0} : l \in Nat
  BY ConstantsAssumption
<1> QED BY <1>2, <1>3, Zenon

(* Flushes, requests of the thread pool and overflow writes stay well formed. *)
LEMMA ThreadStep == DiskTypes /\ ThreadTypes /\ [Next]_vars => ThreadTypes'
<1> SUFFICES ASSUME DiskTypes, ThreadTypes, [Next]_vars PROVE ThreadTypes'
  BY Zenon
<1> USE DEF memory, control, threads, pool, history
<1>0. Lens \subseteq Nat /\ Logger \in Threads
  BY ConstantsAssumption, Zenon DEF Threads
<1>1. CASE UNCHANGED <<submittedWrites, current_size, pc, job>>
  BY <1>1, Zenon DEF ThreadTypes
<1>2. CASE UNCHANGED <<pc, job>> /\ submittedWrites' \in Int /\ current_size' \in Nat
  BY <1>2, Zenon DEF ThreadTypes
<1>3. CASE Start
  <2>1. UNCHANGED <<pc, job, submittedWrites>>
    BY <1>3, Zenon DEF Start
  <2>2. SizeOf(0) \in Nat
    BY Zenon DEF SizeOf, Exists, DiskTypes
  <2>3. current_size' \in Nat
    BY <1>3, <2>2, Zenon DEF Start, ThreadTypes
  <2> QED BY <1>2, <2>1, <2>3, Zenon DEF ThreadTypes
<1>4. CASE RenameCurrent
  <2>1. UNCHANGED <<pc, job, submittedWrites>> /\ current_size' \in {current_size, 0}
    BY <1>4, Zenon DEF RenameCurrent
  <2> QED BY <1>2, <2>1 DEF ThreadTypes
<1>5. CASE OnOpen \/ OnOpenError \/ RemoveOldest \/ RenameOldest \/ Reopen \/ Shutdown
  BY <1>1, <1>5, Zenon DEF OnOpen, OnOpenError, RemoveOldest, RenameOldest, Reopen, Shutdown
<1>6. ASSUME NEW t \in Threads, NEW len \in Lens, FlushRead(t, len) PROVE ThreadTypes'
  <2>1. PICK y : y = [len |-> len, read |-> current_size]
    BY Zenon
  <2>2. y \in [len : Lens \cup {0}, read : Nat] /\ y.len \in Lens
    BY <2>1, Zenon DEF ThreadTypes
  <2>3. /\ pc' = [pc EXCEPT ![t] = "add"] /\ job' = [job EXCEPT ![t] = y]
        /\ UNCHANGED <<submittedWrites, current_size>>
    BY <1>6, <2>1, Zenon DEF FlushRead
  <2> QED BY <2>2, <2>3, Zenon DEF ThreadTypes
<1>7. ASSUME NEW t \in Threads, FlushAdd(t) PROVE ThreadTypes'
  <2>1. /\ pc[t] = "add" /\ current_size' = job[t].read + job[t].len
        /\ pc' = [pc EXCEPT ![t] = "submit"] /\ UNCHANGED <<submittedWrites, job>>
    BY <1>7, Zenon DEF FlushAdd
  <2>2. job[t].read \in Nat /\ job[t].len \in Nat
    BY JobFields, Zenon
  <2>3. current_size' \in Nat
    BY <2>1, <2>2
  <2> QED BY <2>1, <2>3, Zenon DEF ThreadTypes
<1>8. ASSUME NEW t \in Threads, FlushSubmit(t) PROVE ThreadTypes'
  <2>1. /\ submittedWrites' = submittedWrites + 1 /\ UNCHANGED current_size
        /\ pc' = [pc EXCEPT ![t] = "idle"] /\ job' = [job EXCEPT ![t] = NoJob]
    BY <1>8, Zenon DEF FlushSubmit
  <2>2. NoJob \in [len : Lens \cup {0}, read : Nat]
    BY Zenon DEF NoJob
  <2> HIDE DEF NoJob
  <2>3. submittedWrites' \in Int
    BY <2>1 DEF ThreadTypes
  <2> QED BY <2>1, <2>2, <2>3, Zenon DEF ThreadTypes
<1>9. ASSUME NEW w, Perform(w) PROVE ThreadTypes'
  BY <1>1, <1>9, Zenon DEF Perform
<1>10. ASSUME NEW w, WriteCb(w) PROVE ThreadTypes'
  <2>1. UNCHANGED <<pc, job, current_size>> /\ submittedWrites' = submittedWrites - 1
    BY <1>10, Zenon DEF WriteCb
  <2> QED BY <1>2, <2>1 DEF ThreadTypes
<1>11. ASSUME NEW len \in Lens, OverflowWrite(len) PROVE ThreadTypes'
  <2>1. PICK y : y = [len |-> len, read |-> 0]
    BY Zenon
  <2>2. y \in [len : Lens \cup {0}, read : Nat]
    BY <2>1, Zenon
  <2>3. \/ UNCHANGED <<submittedWrites, current_size, pc, job>>
        \/ /\ pc' = [pc EXCEPT ![Logger] = "overflow"] /\ job' = [job EXCEPT ![Logger] = y]
           /\ submittedWrites' = submittedWrites + 1 /\ UNCHANGED current_size
    BY <1>11, <2>1, Zenon DEF OverflowWrite
  <2>4. ASSUME pc' = [pc EXCEPT ![Logger] = "overflow"], job' = [job EXCEPT ![Logger] = y],
               submittedWrites' = submittedWrites + 1, UNCHANGED current_size
        PROVE  ThreadTypes'
    BY <1>0, <2>2, <2>4 DEF ThreadTypes
  <2> QED BY <1>1, <2>3, <2>4, Zenon
<1>12. CASE OverflowRead
  <2>1. PICK j : j = job[Logger]
    BY Zenon
  <2>2. PICK y : y = [j EXCEPT !.read = current_size]
    BY Zenon
  <2>3. y \in [len : Lens \cup {0}, read : Nat]
    BY <1>0, <2>1, <2>2, Zenon DEF ThreadTypes
  <2>4. /\ pc' = [pc EXCEPT ![Logger] = "check"] /\ job' = [job EXCEPT ![Logger] = y]
        /\ UNCHANGED <<submittedWrites, current_size>>
    BY <1>12, <2>1, <2>2, Zenon DEF OverflowRead
  <2> QED BY <1>0, <2>3, <2>4, Zenon DEF ThreadTypes
<1>13. CASE OverflowCheck
  <2>1. /\ current_size' = job[Logger].read + job[Logger].len
        /\ submittedWrites' = submittedWrites - 1
        /\ pc' = [pc EXCEPT ![Logger] = "idle"] /\ job' = [job EXCEPT ![Logger] = NoJob]
    BY <1>13, Zenon DEF OverflowCheck
  <2>2. NoJob \in [len : Lens \cup {0}, read : Nat]
    BY Zenon DEF NoJob
  <2> HIDE DEF NoJob
  <2>3. job[Logger].read \in Nat /\ job[Logger].len \in Nat
    BY <1>0, JobFields, Zenon
  <2>4. submittedWrites' \in Int /\ current_size' \in Nat
    BY <2>1, <2>3 DEF ThreadTypes
  <2> QED BY <2>1, <2>2, <2>4, Zenon DEF ThreadTypes
<1>14. ASSUME NEW len, FlushSync(len) PROVE ThreadTypes'
  <2>1. UNCHANGED <<pc, job, current_size>> /\ submittedWrites' = submittedWrites - 1
    BY <1>14, Zenon DEF FlushSync
  <2> QED BY <1>2, <2>1 DEF ThreadTypes
<1>15. CASE Exit
  <2>1. NoJob \in [len : Lens \cup {0}, read : Nat]
    BY Zenon DEF NoJob
  <2> HIDE DEF NoJob
  <2> QED BY <1>15, <2>1 DEF Exit, ThreadTypes
<1>16. CASE UNCHANGED vars
  BY <1>1, <1>16, Zenon DEF vars
<1> QED BY <1>3, <1>4, <1>5, <1>6, <1>7, <1>8, <1>9, <1>10, <1>11, <1>12, <1>13, <1>14, <1>15,
           <1>16, Zenon DEF Next, Rotation, Flush, Overflow

(* What happens to the numbers of writes. *)

(* A step that moves no thread starts and ends no flush. *)
LEMMA FlushingSame == ASSUME UNCHANGED pc PROVE Flushing' = Flushing
BY Zenon DEF Flushing

(* A close marks the writes that are queued, and changes no number. *)
LEMMA QueuedKeep ==
  ASSUME queued \subseteq Write, \A v, w \in queued : v.id = w.id => v = w, NEW size, Check(size)
  PROVE  /\ queued' \subseteq Write
         /\ \A v \in queued' : \E x \in queued : v.id = x.id
         /\ \A v, x \in queued' : v.id = x.id => v = x
<1>1. CASE queued' = queued
  BY <1>1, Zenon
<1>2. CASE queued' = {[v EXCEPT !.stale = TRUE] : v \in queued}
  <2>1. \A v \in queued' : \E x \in queued : v = [x EXCEPT !.stale = TRUE]
    BY <1>2, Zenon
  <2>2. \A x \in Write : /\ [x EXCEPT !.stale = TRUE] \in Write
                          /\ [x EXCEPT !.stale = TRUE].id = x.id
    BY Zenon DEF Write
  <2>3. \A v \in queued' : v \in Write /\ \E x \in queued : v = [x EXCEPT !.stale = TRUE] /\ v.id = x.id
    <3> TAKE v \in queued'
    <3>1. PICK x \in queued : v = [x EXCEPT !.stale = TRUE]
      BY <2>1, Zenon
    <3>2. x \in Write
      BY Zenon
    <3> QED BY <2>2, <3>1, <3>2, Zenon
  <2> QED BY <2>3, Zenon
<1> QED BY <1>1, <1>2, CheckDoes, Zenon

(* Each write gets a number of its own, in the order of submission. *)
LEMMA NumberStep ==
  ThreadTypes /\ NumberInv /\ [Next]_vars => NumberInv'
<1> SUFFICES ASSUME ThreadTypes, NumberInv, [Next]_vars PROVE NumberInv'
  BY Zenon
<1> USE DEF memory, control, threads, pool, history
<1>0. /\ Lens \subseteq Nat /\ Logger \in Threads /\ MaxWrites \in Nat
      /\ Cardinality(Flushing) \in Nat
  BY ConstantsAssumption, FS_CardinalityType, Zenon DEF Threads, NumberInv
<1>1. CASE UNCHANGED <<queued, performed, nextId, made, pc>>
  BY <1>1, FlushingSame, Zenon DEF NumberInv
<1>2. CASE Start \/ OnOpen \/ OnOpenError \/ Rotation \/ Shutdown
  BY <1>1, <1>2, Zenon DEF Start, OnOpen, OnOpenError, Rotation, RemoveOldest, RenameOldest, RenameCurrent,
                    Reopen, Shutdown
<1>3. ASSUME NEW t \in Threads, NEW len \in Lens, FlushRead(t, len) PROVE NumberInv'
  <2>1. /\ made < MaxWrites /\ made' = made + 1 /\ pc[t] = "idle"
        /\ pc' = [pc EXCEPT ![t] = "add"] /\ UNCHANGED <<queued, performed, nextId>>
    BY <1>3, Zenon DEF FlushRead
  <2>2. Flushing' = Flushing \cup {t} /\ t \notin Flushing
    BY <2>1, Zenon DEF Flushing, ThreadTypes
  <2>3. IsFiniteSet(Flushing') /\ Cardinality(Flushing') = Cardinality(Flushing) + 1
    BY <2>2, FS_AddElement, Zenon DEF NumberInv
  <2> QED BY <1>0, <2>1, <2>3 DEF NumberInv
<1>4. ASSUME NEW t \in Threads, FlushAdd(t) PROVE NumberInv'
  <2>1. /\ pc[t] = "add" /\ pc' = [pc EXCEPT ![t] = "submit"]
        /\ UNCHANGED <<queued, performed, nextId, made>>
    BY <1>4, Zenon DEF FlushAdd
  <2>2. Flushing' = Flushing
    BY <2>1, Zenon DEF Flushing, ThreadTypes
  <2> QED BY <2>1, <2>2, Zenon DEF NumberInv
<1>5. ASSUME NEW t \in Threads, FlushSubmit(t) PROVE NumberInv'
  <2>1. PICK w : w = [id |-> nextId, len |-> job[t].len, stale |-> FALSE]
    BY Zenon
  <2>2. /\ pc[t] = "submit" /\ pc' = [pc EXCEPT ![t] = "idle"] /\ queued' = queued \cup {w}
        /\ nextId' = nextId + 1 /\ UNCHANGED <<performed, made>>
    BY <1>5, <2>1, Zenon DEF FlushSubmit
  <2>3. Flushing' = Flushing \ {t} /\ t \in Flushing
    BY <2>2, Zenon DEF Flushing, ThreadTypes
  <2>4. IsFiniteSet(Flushing') /\ Cardinality(Flushing') = Cardinality(Flushing) - 1
    BY <2>3, FS_RemoveElement, Zenon DEF NumberInv
  <2>5. Cardinality(Flushing') \in Nat
    BY <2>4, FS_CardinalityType, Zenon
  <2>6. nextId \in 1 .. MaxWrites /\ job[t].len \in Lens
    BY <1>0, <2>2, <2>4, <2>5 DEF NumberInv, ThreadTypes
  <2>7. w \in Write /\ w.id = nextId
    BY <2>1, <2>6, Zenon DEF Write
  <2>8. \A v \in queued \cup performed : v.id < nextId /\ v.id \in Nat /\ v.id # nextId
    BY <2>6 DEF NumberInv, Write
  <2>9. \A v \in queued' \cup performed' : v.id < nextId'
    BY <2>2, <2>6, <2>7, <2>8
  <2>10. nextId' \in Nat \ {0} /\ nextId' + Cardinality(Flushing') <= made' + 1
    BY <1>0, <2>2, <2>4, <2>6 DEF NumberInv
  <2>11. queued' \subseteq Write /\ performed' \subseteq Write /\ made' \in 0 .. MaxWrites
    BY <2>2, <2>7, Zenon DEF NumberInv
  <2>12. /\ \A v \in queued', x \in performed' : v.id # x.id
         /\ \A v, x \in queued' : v.id = x.id => v = x
    BY <2>2, <2>7, <2>8, Zenon DEF NumberInv
  <2> QED BY <2>4, <2>9, <2>10, <2>11, <2>12, Zenon DEF NumberInv
<1>6. ASSUME NEW w \in queued, Perform(w) PROVE NumberInv'
  <2>1. /\ queued' = queued \ {w} /\ performed' = performed \cup {w}
        /\ UNCHANGED <<pc, made, nextId>>
    BY <1>6, Zenon DEF Perform
  <2>2. \A v \in queued' : v.id # w.id
    BY <2>1, Zenon DEF NumberInv
  <2> QED BY <2>1, <2>2, FlushingSame, Zenon DEF NumberInv
<1>7. ASSUME NEW size, Check(size), Flushing' = Flushing, performed' \subseteq performed,
             \/ UNCHANGED <<made, nextId>>
             \/ nextId' = nextId + 1 /\ made < MaxWrites /\ made' = made + 1
      PROVE  NumberInv'
  <2>1. /\ nextId' \in Nat \ {0} /\ made' \in 0 .. MaxWrites /\ IsFiniteSet(Flushing')
        /\ nextId' + Cardinality(Flushing') <= made' + 1
    BY <1>0, <1>7 DEF NumberInv
  <2>2. \A w \in queued \cup performed : w.id < nextId'
    <3>1. \A w \in queued \cup performed : w.id \in Nat /\ w.id < nextId
      BY <1>0 DEF NumberInv, Write
    <3> QED BY <1>7, <3>1 DEF NumberInv
  <2>3. /\ queued' \subseteq Write
        /\ \A v \in queued' : \E x \in queued : v.id = x.id
        /\ \A v, x \in queued' : v.id = x.id => v = x
    BY <1>7, QueuedKeep, Zenon DEF NumberInv
  <2>4. \A v \in queued' \cup performed' : v.id < nextId'
    BY <1>7, <2>2, <2>3, Zenon
  <2>5. \A v \in queued', x \in performed' : v.id # x.id
    BY <1>7, <2>3 DEF NumberInv
  <2>6. performed' \subseteq Write
    BY <1>7, Zenon DEF NumberInv
  <2> QED BY <2>1, <2>3, <2>4, <2>5, <2>6, Zenon DEF NumberInv
<1>8. ASSUME NEW w, WriteCb(w) PROVE NumberInv'
  <2>1. /\ Check(current_size) /\ performed' \subseteq performed /\ UNCHANGED <<made, nextId>>
        /\ UNCHANGED pc
    BY <1>8, Zenon DEF WriteCb
  <2> QED BY <1>7, <2>1, FlushingSame, Zenon
<1>9. ASSUME nextId' = nextId + 1, made < MaxWrites, made' = made + 1, Flushing' = Flushing,
             UNCHANGED <<queued, performed>>
      PROVE  NumberInv'
  <2>1. /\ nextId' \in Nat \ {0} /\ made' \in 0 .. MaxWrites
        /\ nextId' + Cardinality(Flushing') <= made' + 1
    BY <1>0, <1>9 DEF NumberInv
  <2>2. \A w \in queued \cup performed : w.id < nextId'
    <3>1. \A w \in queued \cup performed : w.id \in Nat /\ w.id < nextId
      BY <1>0 DEF NumberInv, Write
    <3> QED BY <1>9, <3>1 DEF NumberInv
  <2> QED BY <1>9, <2>1, <2>2, Zenon DEF NumberInv
<1>10. ASSUME NEW len, OverflowWrite(len) PROVE NumberInv'
  <2>1. /\ nextId' = nextId + 1 /\ made < MaxWrites /\ made' = made + 1
        /\ pc[Logger] = "idle" /\ UNCHANGED <<queued, performed>>
        /\ pc' = pc \/ pc' = [pc EXCEPT ![Logger] = "overflow"]
    BY <1>10, Zenon DEF OverflowWrite, LoggerFree
  <2>2. Flushing' = Flushing
    BY <1>0, <2>1, Zenon DEF Flushing, ThreadTypes
  <2> QED BY <1>9, <2>1, <2>2, Zenon
<1>11. CASE OverflowRead
  <2>1. /\ pc[Logger] = "overflow" /\ pc' = [pc EXCEPT ![Logger] = "check"]
        /\ UNCHANGED <<queued, performed, nextId, made>>
    BY <1>11, Zenon DEF OverflowRead
  <2>2. Flushing' = Flushing
    BY <1>0, <2>1, Zenon DEF Flushing, ThreadTypes
  <2> QED BY <2>1, <2>2, Zenon DEF NumberInv
<1>12. CASE OverflowCheck
  <2>1. PICK size : Check(size)
    BY <1>12, Zenon DEF OverflowCheck
  <2>2. /\ pc[Logger] = "check" /\ pc' = [pc EXCEPT ![Logger] = "idle"]
        /\ UNCHANGED <<performed, nextId, made>>
    BY <1>12, Zenon DEF OverflowCheck
  <2>3. Flushing' = Flushing
    BY <1>0, <2>2, Zenon DEF Flushing, ThreadTypes
  <2> QED BY <1>7, <2>1, <2>2, <2>3, Zenon
<1>13. ASSUME NEW len, FlushSync(len) PROVE NumberInv'
  <2>1. /\ Check(current_size) /\ UNCHANGED <<performed, pc>>
        /\ nextId' = nextId + 1 /\ made < MaxWrites /\ made' = made + 1
    BY <1>13, Zenon DEF FlushSync
  <2> QED BY <1>7, <2>1, FlushingSame, Zenon
<1>14. CASE Exit
  <2>1. /\ queued' = {} /\ performed' = {} /\ UNCHANGED <<made, nextId>>
        /\ pc' = [t \in Threads |-> "idle"]
    BY <1>14, Zenon DEF Exit
  <2>2. Flushing' = {} /\ IsFiniteSet(Flushing') /\ Cardinality(Flushing') = 0
    BY <2>1, FS_EmptySet, Zenon DEF Flushing
  <2> QED BY <1>0, <2>1, <2>2 DEF NumberInv
<1>15. CASE UNCHANGED vars
  BY <1>1, <1>15, Zenon DEF vars
<1> QED BY <1>2, <1>3, <1>4, <1>5, <1>6, <1>8, <1>10, <1>11, <1>12, <1>13, <1>14, <1>15, Zenon
        DEF Next, Flush, Overflow

(* submittedWrites counts what is on its way. *)

(* submittedWrites counts the requests that were not called back, and the flushes between. *)
LEMMA CountStep ==
  ControlTypes /\ ThreadTypes /\ NumberInv /\ CountInv /\ [Next]_vars => CountInv'
<1> SUFFICES ASSUME ControlTypes, ThreadTypes, NumberInv, CountInv, [Next]_vars, ~closing'
             PROVE  CountInv'
  BY Zenon DEF CountInv
<1> USE DEF memory, control, threads, pool, history
<1>0. Logger \in Threads
  BY Zenon DEF Threads
<1>1. CASE UNCHANGED <<queued, performed, submittedWrites, pc>> /\ ~closing
  BY <1>1, Zenon DEF CountInv, Overflowing
<1>2. CASE Exit
  <2>1. queued' = {} /\ performed' = {} /\ submittedWrites' = 0 /\ Overflowing' = 0
    BY <1>0, <1>2, Zenon DEF Exit, Overflowing
  <2>2. IsFiniteSet({}) /\ Cardinality({}) = 0
    BY FS_EmptySet, Zenon
  <2> QED BY <2>1, <2>2 DEF CountInv
<1> SUFFICES ASSUME ~Exit PROVE CountInv'
  BY <1>2, Zenon
<1>3. ~closing
  <2>1. UNCHANGED closing \/ Shutdown
    BY Zenon DEF Next, vars, Start, OnOpen, OnOpenError, Rotation, RemoveOldest, RenameOldest,
           RenameCurrent, Reopen, Flush, FlushRead, FlushAdd, FlushSubmit, Perform, WriteCb,
           Overflow, OverflowWrite, OverflowRead, OverflowCheck, FlushSync
  <2> QED BY <2>1, Zenon DEF Shutdown
<1>4. /\ IsFiniteSet(queued) /\ IsFiniteSet(performed)
      /\ submittedWrites = Cardinality(queued) + Cardinality(performed) + Overflowing
      /\ Cardinality(queued) \in Nat /\ Cardinality(performed) \in Nat /\ Overflowing \in {0, 1}
  BY <1>3, FS_CardinalityType, Zenon DEF CountInv, Overflowing
<1>5. CASE Start \/ OnOpen \/ OnOpenError \/ Rotation \/ Shutdown
  BY <1>1, <1>3, <1>5, Zenon DEF Start, OnOpen, OnOpenError, Rotation, RemoveOldest, RenameOldest,
                          RenameCurrent, Reopen, Shutdown
<1>6. ASSUME NEW t \in Threads, NEW len, FlushRead(t, len) PROVE CountInv'
  <2>1. /\ UNCHANGED <<queued, performed, submittedWrites>>
        /\ pc[t] = "idle" /\ pc' = [pc EXCEPT ![t] = "add"]
    BY <1>6, Zenon DEF FlushRead
  <2>2. Overflowing' = Overflowing
    BY <1>0, <2>1, Zenon DEF Overflowing, ThreadTypes
  <2> QED BY <1>4, <2>1, <2>2, Zenon DEF CountInv
<1>7. ASSUME NEW t \in Threads, FlushAdd(t) PROVE CountInv'
  <2>1. /\ UNCHANGED <<queued, performed, submittedWrites>>
        /\ pc[t] = "add" /\ pc' = [pc EXCEPT ![t] = "submit"]
    BY <1>7, Zenon DEF FlushAdd
  <2>2. Overflowing' = Overflowing
    BY <1>0, <2>1, Zenon DEF Overflowing, ThreadTypes
  <2> QED BY <1>4, <2>1, <2>2, Zenon DEF CountInv
<1>8. ASSUME NEW t \in Threads, FlushSubmit(t) PROVE CountInv'
  <2>1. PICK w : w = [id |-> nextId, len |-> job[t].len, stale |-> FALSE]
    BY Zenon
  <2>2. /\ pc[t] = "submit" /\ pc' = [pc EXCEPT ![t] = "idle"] /\ queued' = queued \cup {w}
        /\ submittedWrites' = submittedWrites + 1 /\ UNCHANGED performed
    BY <1>8, <2>1, Zenon DEF FlushSubmit
  <2>3. Overflowing' = Overflowing
    BY <1>0, <2>2, Zenon DEF Overflowing, ThreadTypes
  <2>4. w.id = nextId /\ w \notin queued
    BY <2>1 DEF NumberInv
  <2>5. IsFiniteSet(queued') /\ Cardinality(queued') = Cardinality(queued) + 1
    BY <1>4, <2>2, <2>4, FS_AddElement, Zenon
  <2> QED BY <1>4, <2>2, <2>3, <2>5 DEF CountInv
<1>9. ASSUME NEW w \in queued, Perform(w) PROVE CountInv'
  <2>1. /\ queued' = queued \ {w} /\ performed' = performed \cup {w}
        /\ UNCHANGED <<pc, submittedWrites>>
    BY <1>9, Zenon DEF Perform
  <2>2. w \notin performed /\ Overflowing' = Overflowing
    BY <2>1, Zenon DEF NumberInv, Overflowing
  <2>3. /\ IsFiniteSet(queued') /\ Cardinality(queued') = Cardinality(queued) - 1
        /\ IsFiniteSet(performed') /\ Cardinality(performed') = Cardinality(performed) + 1
    BY <1>4, <2>1, <2>2, FS_AddElement, FS_RemoveElement, Zenon
  <2> QED BY <1>4, <2>1, <2>2, <2>3 DEF CountInv
<1>10. ASSUME NEW w \in performed, WriteCb(w) PROVE CountInv'
  <2>1. /\ performed' = performed \ {w} /\ submittedWrites' = submittedWrites - 1
        /\ Check(current_size) /\ pc[Logger] = "idle" /\ UNCHANGED pc
    BY <1>10, Zenon DEF WriteCb, LoggerFree
  <2>2. /\ IsFiniteSet(performed') /\ Cardinality(performed') = Cardinality(performed) - 1
        /\ Cardinality(performed') \in Nat
    BY <1>4, <2>1, FS_RemoveElement, FS_CardinalityType, Zenon
  <2>3. Overflowing = 0 /\ Overflowing' = 0
    BY <2>1, Zenon DEF Overflowing
  <2>4. queued' = queued
    <3>1. submittedWrites - 1 < 1 => queued = {}
      BY <1>4, <2>2, <2>3, FS_EmptySet
    <3> QED BY <2>1, <3>1, CheckDoes, Zenon
  <2> QED BY <1>4, <2>1, <2>2, <2>3, <2>4 DEF CountInv
<1>11. ASSUME NEW len, OverflowWrite(len) PROVE CountInv'
  <2>1. /\ UNCHANGED <<queued, performed>> /\ pc[Logger] = "idle"
        /\ \/ UNCHANGED <<submittedWrites, pc>>
           \/ /\ submittedWrites' = submittedWrites + 1
              /\ pc' = [pc EXCEPT ![Logger] = "overflow"]
    BY <1>11, Zenon DEF OverflowWrite, LoggerFree
  <2>2. submittedWrites' - submittedWrites = Overflowing' - Overflowing /\ Overflowing' \in {0, 1}
    BY <1>0, <1>4, <2>1 DEF Overflowing, ThreadTypes
  <2> QED BY <1>4, <2>1, <2>2 DEF CountInv, ThreadTypes
<1>12. CASE OverflowRead
  <2>1. /\ UNCHANGED <<queued, performed, submittedWrites>> /\ pc[Logger] = "overflow"
        /\ pc' = [pc EXCEPT ![Logger] = "check"]
    BY <1>12, Zenon DEF OverflowRead
  <2>2. Overflowing' = Overflowing
    BY <1>0, <2>1, Zenon DEF Overflowing, ThreadTypes
  <2> QED BY <1>4, <2>1, <2>2, Zenon DEF CountInv
<1>13. CASE OverflowCheck
  <2>1. PICK size : Check(size)
    BY <1>13, Zenon DEF OverflowCheck
  <2>2. /\ UNCHANGED performed /\ submittedWrites' = submittedWrites - 1 /\ pc[Logger] = "check"
        /\ pc' = [pc EXCEPT ![Logger] = "idle"]
    BY <1>13, Zenon DEF OverflowCheck
  <2>3. Overflowing = 1 /\ Overflowing' = 0
    BY <1>0, <2>2, Zenon DEF Overflowing, ThreadTypes
  <2>4. queued' = queued
    <3>1. submittedWrites - 1 < 1 => queued = {}
      BY <1>4, <2>3, FS_EmptySet
    <3> QED BY <2>1, <3>1, CheckDoes, Zenon
  <2> QED BY <1>4, <2>2, <2>3, <2>4 DEF CountInv
<1>14. ASSUME NEW len, FlushSync(len) PROVE CountInv'
  BY <1>3, <1>14, Zenon DEF FlushSync
<1>15. CASE UNCHANGED vars
  BY <1>1, <1>3, <1>15, Zenon DEF vars
<1> QED BY <1>5, <1>6, <1>7, <1>8, <1>9, <1>10, <1>11, <1>12, <1>13, <1>14, <1>15, Zenon
        DEF Next, Flush, Overflow

-----------------------------------------------------------------------------
(* The files. *)

DiskInv == DiskTypes /\ NumberedInv
StillSorted == Sorted => Sorted'

(* Each call to the file system keeps the files in order. *)
LEMMA RenameDisk ==
  ASSUME DiskInv, NEW a \in Nat, RenameDone(a, a + 1), UNCHANGED nextId
  PROVE  /\ DiskInv' /\ StillSorted
         /\ overwritten \subseteq 1 .. MaxWrites => overwritten' \subseteq 1 .. MaxWrites
<1>1. PICK b \in Nat : b = a + 1
  OBVIOUS
<1>2. a \in DOMAIN disk /\ b < MaxRotated /\ disk' = Renamed(a, b)
  BY <1>1, Zenon DEF RenameDone, Exists, HasName
<1>3. /\ DOMAIN disk' = (DOMAIN disk \ {a}) \cup {b} /\ disk'[b] = disk[a]
      /\ \A i \in DOMAIN disk \ {a, b} : disk'[i] = disk[i]
  BY <1>2, Zenon DEF Renamed
<1>4. DOMAIN disk \subseteq 0 .. MaxRotated - 1 /\ MaxRotated \in Nat
  BY ConstantsAssumption, Zenon DEF DiskInv, DiskTypes
<1>5. b \in 0 .. MaxRotated - 1
  BY <1>2, <1>4
<1>6. \A i \in DOMAIN disk' : \/ i = b /\ disk'[i] = disk[a]
                              \/ i \in DOMAIN disk \ {a, b} /\ disk'[i] = disk[i]
  BY <1>3, Zenon
<1>7. DiskTypes'
  BY <1>2, <1>3, <1>4, <1>5, <1>6, Zenon DEF DiskInv, DiskTypes
<1>8. NumberedInv'
  BY <1>2, <1>6, Zenon DEF DiskInv, NumberedInv
<1>9. ASSUME Sorted, NEW m \in DOMAIN disk', NEW n \in DOMAIN disk', m < n,
             NEW i \in disk'[m].ids, NEW j \in disk'[n].ids
      PROVE  j < i
  <2>1. m \in Nat /\ n \in Nat
    BY <1>3, <1>4
  <2>2. CASE n = b
    <3>1. m \in DOMAIN disk /\ m # a /\ disk'[m] = disk[m] /\ disk'[n] = disk[a]
      BY <1>3, <1>6, <1>9, <2>2
    <3>2. m < a
      BY <1>1, <1>9, <2>1, <2>2, <3>1
    <3> QED BY <1>2, <1>9, <3>1, <3>2, Zenon DEF Sorted
  <2>3. CASE m = b
    <3>1. n \in DOMAIN disk /\ disk'[n] = disk[n] /\ disk'[m] = disk[a]
      BY <1>3, <1>6, <1>9, <2>1, <2>3
    <3>2. a < n
      BY <1>1, <1>9, <2>1, <2>3
    <3> QED BY <1>2, <1>9, <3>1, <3>2, Zenon DEF Sorted
  <2>4. CASE m # b /\ n # b
    BY <1>6, <1>9, <2>4, Zenon DEF Sorted
  <2> QED BY <2>2, <2>3, <2>4, Zenon
<1>10. StillSorted
  BY <1>9, Zenon DEF Sorted, StillSorted
<1>11. overwritten \subseteq 1 .. MaxWrites => overwritten' \subseteq 1 .. MaxWrites
  BY Zenon DEF RenameDone, Exists, DiskInv, DiskTypes
<1> QED BY <1>7, <1>8, <1>10, <1>11, Zenon DEF DiskInv

(* Removing a file changes no other. *)
LEMMA RemovedDisk ==
  ASSUME DiskInv, NEW a, disk' = Removed(a), UNCHANGED nextId
  PROVE  DiskInv' /\ StillSorted
<1>1. DOMAIN disk' = DOMAIN disk \ {a} /\ \A i \in DOMAIN disk' : disk'[i] = disk[i]
  BY Zenon DEF Removed, Restrict
<1>2. DiskInv'
  BY <1>1, Zenon DEF DiskInv, DiskTypes, NumberedInv
<1>3. StillSorted
  BY <1>1, Zenon DEF Sorted, StillSorted
<1> QED BY <1>2, <1>3, Zenon

(* Opening a file makes an empty one, or leaves what is there. *)
LEMMA CreatedDisk ==
  ASSUME DiskInv, disk' = Created, UNCHANGED nextId
  PROVE  DiskInv' /\ StillSorted
<1>1. /\ DOMAIN disk' = DOMAIN disk \cup {0}
      /\ \A i \in DOMAIN disk : disk'[i] = disk[i]
      /\ 0 \notin DOMAIN disk => disk'[0] = NewFile
  BY Zenon DEF Created, Exists
<1>2. NewFile.ids = {} /\ NewFile.size = 0 /\ 0 \in 0 .. MaxRotated - 1
  BY ConstantsAssumption DEF NewFile
<1> HIDE DEF NewFile
<1>3. DiskInv'
  BY <1>1, <1>2 DEF DiskInv, DiskTypes, NumberedInv
<1>4. StillSorted
  BY <1>1, <1>2 DEF Sorted, StillSorted
<1> QED BY <1>3, <1>4, Zenon

(* A write goes to the end of the current file. *)
LEMMA WrittenDisk ==
  ASSUME DiskInv, 0 \in DOMAIN disk, NEW id \in 1 .. MaxWrites, NEW len \in Nat,
         disk' = Written(id, len), nextId' \in Nat, nextId \in Nat, nextId <= nextId', id < nextId'
  PROVE  /\ DiskInv'
         /\ (\A n \in DOMAIN disk : n # 0 => \A j \in disk[n].ids : j < id) => StillSorted
<1>1. PICK y : y = [ids |-> disk[0].ids \cup {id}, size |-> disk[0].size + len]
  BY Zenon
<1>2. disk' = [disk EXCEPT ![0] = y]
  BY <1>1, Zenon DEF Written
<1>3. /\ DOMAIN disk' = DOMAIN disk /\ disk'[0] = y
      /\ \A i \in DOMAIN disk : i # 0 => disk'[i] = disk[i]
  BY <1>2, Zenon
<1>4. y.ids = disk[0].ids \cup {id} /\ y.size = disk[0].size + len
  BY <1>1, Zenon
<1>5. y.ids \subseteq 1 .. MaxWrites /\ y.size \in Nat
  BY <1>4 DEF DiskInv, DiskTypes
<1>6. DiskTypes'
  BY <1>3, <1>5, Zenon DEF DiskInv, DiskTypes
<1>7. NumberedInv'
  <2>1. \A n \in DOMAIN disk : \A j \in disk[n].ids : j \in Nat /\ j < nextId'
    BY ConstantsAssumption DEF DiskInv, DiskTypes, NumberedInv
  <2> QED BY <1>3, <1>4, <2>1, Zenon DEF NumberedInv
<1>8. ASSUME \A n \in DOMAIN disk : n # 0 => \A j \in disk[n].ids : j < id, Sorted,
             NEW m \in DOMAIN disk, NEW n \in DOMAIN disk, m < n,
             NEW i \in disk'[m].ids, NEW j \in disk'[n].ids
      PROVE  j < i
  <2>1. m \in Nat /\ n \in Nat
    BY ConstantsAssumption DEF DiskInv, DiskTypes
  <2>2. n # 0 /\ disk'[n] = disk[n]
    BY <1>3, <1>8, <2>1
  <2>3. i \in disk[m].ids \/ (m = 0 /\ i = id)
    BY <1>3, <1>4, <1>8, Zenon
  <2> QED BY <1>8, <2>2, <2>3, Zenon DEF Sorted
<1> QED BY <1>3, <1>6, <1>7, <1>8, Zenon DEF DiskInv, StillSorted, Sorted

(* The number of a write that is done at once. *)
LEMMA NextIdFree ==
  ASSUME NumberInv, made < MaxWrites
  PROVE  nextId \in 1 .. MaxWrites
<1>1. Cardinality(Flushing) \in Nat /\ MaxWrites \in Nat
  BY FS_CardinalityType, ConstantsAssumption, Zenon DEF NumberInv
<1> QED BY <1>1 DEF NumberInv

(* No step puts an older write in front of a newer one, in a file or between files. *)
LEMMA DiskStep ==
  ControlTypes /\ ListTypes /\ NumberInv /\ DiskInv /\ OrderInv /\ HistoryTypes /\ [Next]_vars
    => DiskInv' /\ OrderInv' /\ overwritten' \subseteq 1 .. MaxWrites
<1> SUFFICES ASSUME ControlTypes, ListTypes, NumberInv, DiskInv, OrderInv, HistoryTypes, [Next]_vars
             PROVE  DiskInv' /\ OrderInv' /\ overwritten' \subseteq 1 .. MaxWrites
  BY Zenon
<1> DEFINE Kept == DiskInv' /\ OrderInv' /\ overwritten' \subseteq 1 .. MaxWrites
<1> USE DEF memory, control, threads, pool, history
<1>0. Lens \subseteq Nat /\ MaxWrites \in Nat
  BY ConstantsAssumption, Zenon
<1>1. overwritten \subseteq 1 .. MaxWrites
  BY Zenon DEF HistoryTypes
<1>2. ASSUME UNCHANGED <<disk, nextId, overwritten, torn, queued>>, mode # "idle" \/ mode' = "idle"
      PROVE  Kept
  BY <1>1, <1>2, Zenon DEF DiskInv, DiskTypes, NumberedInv, OrderInv, Sorted, Behind
<1>3. ASSUME DiskInv', StillSorted, overwritten' \subseteq 1 .. MaxWrites,
             mode # "idle", UNCHANGED <<queued, torn>>
      PROVE  Kept
  BY <1>3, Zenon DEF OrderInv, StillSorted, Behind
<1>4. CASE Start \/ OnOpenError \/ Shutdown
  BY <1>2, <1>4, Zenon DEF Start, OnOpenError, Shutdown
<1>5. CASE OnOpen
  BY <1>1, <1>3, <1>5, CreatedDisk, Zenon DEF OnOpen
<1>6. CASE RemoveOldest
  <2>1. /\ UNCHANGED <<nextId, overwritten, queued, torn>> /\ mode # "idle"
        /\ disk' = Removed(Oldest) \/ UNCHANGED disk
    BY <1>6, Zenon DEF RemoveOldest
  <2> QED BY <1>1, <1>2, <1>3, <2>1, RemovedDisk, Zenon
<1>7. CASE RenameOldest
  <2>1. /\ UNCHANGED <<nextId, queued, torn>> /\ mode # "idle" /\ Oldest \in Nat
        /\ RenameDone(Oldest, Oldest + 1) \/ UNCHANGED <<disk, overwritten>>
    BY <1>7 DEF RenameOldest, RenameRefused, Oldest, ListTypes
  <2> QED BY <1>1, <1>2, <1>3, <2>1, RenameDisk, Zenon
<1>8. CASE RenameCurrent
  <2>1. /\ UNCHANGED <<nextId, queued, torn>> /\ mode # "idle"
        /\ RenameDone(0, 0 + 1) \/ UNCHANGED <<disk, overwritten>>
    BY <1>8 DEF RenameCurrent, RenameRefused
  <2> QED BY <1>1, <1>2, <1>3, <2>1, RenameDisk, Zenon
<1>9. CASE Reopen
  <2>1. /\ UNCHANGED <<nextId, overwritten, queued, torn>> /\ mode # "idle"
        /\ disk' = Created \/ UNCHANGED disk
    BY <1>9, Zenon DEF Reopen
  <2> QED BY <1>1, <1>2, <1>3, <2>1, CreatedDisk, Zenon
<1>10. ASSUME NEW t, NEW len, FlushRead(t, len) PROVE Kept
  BY <1>2, <1>10, Zenon DEF FlushRead
<1>11. ASSUME NEW t, FlushAdd(t) PROVE Kept
  BY <1>2, <1>11, Zenon DEF FlushAdd
<1>12. ASSUME NEW t, FlushSubmit(t) PROVE Kept
  <2>1. PICK w : w = [id |-> nextId, len |-> job[t].len, stale |-> FALSE]
    BY Zenon
  <2>2. /\ queued' = queued \cup {w} /\ w.id = nextId /\ nextId' = nextId + 1 /\ mode' = "idle"
        /\ UNCHANGED <<disk, overwritten, torn>>
    BY <1>12, <2>1, Zenon DEF FlushSubmit
  <2>3. nextId \in Nat /\ \A n \in DOMAIN disk : \A j \in disk[n].ids : j \in Nat /\ j < nextId
    BY <1>0 DEF NumberInv, DiskInv, DiskTypes, NumberedInv
  <2>4. DiskInv'
    BY <2>2, <2>3 DEF DiskInv, DiskTypes, NumberedInv
  <2>5. Behind => Behind'
    BY <2>2, <2>3, Zenon DEF Behind
  <2>6. Sorted => Sorted'
    BY <2>2, Zenon DEF Sorted
  <2> QED BY <1>1, <2>2, <2>4, <2>5, <2>6, Zenon DEF OrderInv
<1>13. ASSUME NEW w \in queued, Perform(w) PROVE Kept
  <2>1. /\ queued' = queued \ {w} /\ UNCHANGED <<nextId, mode, overwritten, torn>>
        /\ UNCHANGED disk \/ (opened /\ disk' = Written(w.id, w.len))
    BY <1>13, Zenon DEF Perform
  <2>2. CASE UNCHANGED disk
    BY <1>1, <2>1, <2>2, Zenon DEF DiskInv, DiskTypes, NumberedInv, OrderInv, Sorted, Behind
  <2>3. CASE opened /\ disk' = Written(w.id, w.len)
    <3>1. /\ w.id \in 1 .. MaxWrites /\ w.len \in Nat /\ 0 \in DOMAIN disk
          /\ nextId \in Nat /\ w.id < nextId
      BY <1>0, <2>3, Zenon DEF NumberInv, Write, ControlTypes
    <3>2. /\ DiskInv'
          /\ (\A n \in DOMAIN disk : n # 0 => \A j \in disk[n].ids : j < w.id) => StillSorted
      BY <2>1, <2>3, <3>1, WrittenDisk
    <3>3. Behind => StillSorted
      BY <3>2, Zenon DEF Behind
    <3>4. DOMAIN disk' = DOMAIN disk /\ \A n \in DOMAIN disk : n # 0 => disk'[n] = disk[n]
      BY <2>3, Zenon DEF Written
    <3>5. Behind => Behind'
      BY <2>1, <3>4, Zenon DEF Behind
    <3> QED BY <1>1, <2>1, <3>2, <3>3, <3>5, Zenon DEF OrderInv, StillSorted
  <2> QED BY <2>1, <2>2, <2>3, Zenon
<1>14. ASSUME NEW size, Check(size), UNCHANGED <<disk, overwritten>>, nextId' \in {nextId, nextId + 1}
       PROVE  Kept
  <2>1. CASE UNCHANGED <<mode, opened, queued, torn>>
    <3>1. DiskInv'
      <4>1. nextId \in Nat /\ \A n \in DOMAIN disk : \A j \in disk[n].ids : j \in Nat /\ j < nextId
        BY <1>0 DEF NumberInv, DiskInv, DiskTypes, NumberedInv
      <4> QED BY <1>14, <4>1 DEF DiskInv, DiskTypes, NumberedInv
    <3> QED BY <1>1, <1>14, <2>1, <3>1, Zenon DEF OrderInv, Sorted, Behind
  <2>2. CASE /\ torn' = (torn \/ queued # {})
             /\ queued' = {[w EXCEPT !.stale = TRUE] : w \in queued}
    <3>1. DiskInv'
      <4>1. nextId \in Nat /\ \A n \in DOMAIN disk : \A j \in disk[n].ids : j \in Nat /\ j < nextId
        BY <1>0 DEF NumberInv, DiskInv, DiskTypes, NumberedInv
      <4> QED BY <1>14, <4>1 DEF DiskInv, DiskTypes, NumberedInv
    <3>2. ~torn' => ~torn /\ queued = {} /\ queued' = {}
      BY <2>2, Zenon
    <3> QED BY <1>1, <1>14, <3>1, <3>2, Zenon DEF OrderInv, Sorted, Behind
  <2> QED BY <1>14, <2>1, <2>2, CheckDoes, Zenon
<1>15. ASSUME NEW w, WriteCb(w) PROVE Kept
  BY <1>14, <1>15, Zenon DEF WriteCb
<1>16. CASE OverflowRead
  BY <1>2, <1>16, Zenon DEF OverflowRead
<1>17. CASE OverflowCheck
  BY <1>14, <1>17, Zenon DEF OverflowCheck
<1>18. ASSUME NEW len \in Lens, opened, disk' = Written(nextId, len), nextId' = nextId + 1,
              made < MaxWrites, UNCHANGED overwritten
       PROVE  DiskInv' /\ (Sorted => Sorted') /\ (UNCHANGED queued => (Behind => Behind'))
  <2>1. nextId \in 1 .. MaxWrites /\ len \in Nat /\ 0 \in DOMAIN disk /\ nextId \in Nat
    BY <1>0, <1>18, NextIdFree DEF ControlTypes
  <2>2. nextId' \in Nat /\ nextId <= nextId' /\ nextId < nextId'
    BY <1>18, <2>1
  <2>3. /\ DiskInv'
        /\ (\A n \in DOMAIN disk : n # 0 => \A j \in disk[n].ids : j < nextId) => StillSorted
    BY <1>18, <2>1, <2>2, WrittenDisk, Zenon
  <2>4. StillSorted
    BY <2>3, Zenon DEF DiskInv, NumberedInv
  <2>5. DOMAIN disk' = DOMAIN disk /\ \A n \in DOMAIN disk : n # 0 => disk'[n] = disk[n]
    BY <1>18, Zenon DEF Written
  <2> QED BY <2>3, <2>4, <2>5, Zenon DEF StillSorted, Behind
<1>19. ASSUME NEW len \in Lens, OverflowWrite(len) PROVE Kept
  <2>1. /\ made < MaxWrites /\ nextId' = nextId + 1 /\ UNCHANGED <<overwritten, torn, queued, mode>>
        /\ UNCHANGED disk \/ (opened /\ disk' = Written(nextId, len))
    BY <1>19, Zenon DEF OverflowWrite
  <2>2. CASE opened /\ disk' = Written(nextId, len)
    BY <1>1, <1>18, <2>1, <2>2, Zenon DEF OrderInv
  <2>3. CASE UNCHANGED disk
    <3>1. nextId \in Nat /\ \A n \in DOMAIN disk : \A j \in disk[n].ids : j \in Nat /\ j < nextId
      BY <1>0 DEF NumberInv, DiskInv, DiskTypes, NumberedInv
    <3>2. DiskInv'
      BY <2>1, <2>3, <3>1 DEF DiskInv, DiskTypes, NumberedInv
    <3> QED BY <1>1, <2>1, <2>3, <3>2, Zenon DEF OrderInv, Sorted, Behind
  <2> QED BY <2>1, <2>2, <2>3, Zenon
<1>20. ASSUME NEW len \in Lens, FlushSync(len) PROVE Kept
  <2>1. /\ made < MaxWrites /\ nextId' = nextId + 1 /\ UNCHANGED overwritten /\ Check(current_size)
        /\ UNCHANGED disk \/ (opened /\ disk' = Written(nextId, len))
    BY <1>20, Zenon DEF FlushSync
  <2>2. CASE opened /\ disk' = Written(nextId, len)
    <3>1. DiskInv' /\ (Sorted => Sorted') /\ (UNCHANGED queued => (Behind => Behind'))
      BY <1>18, <2>1, <2>2, Zenon
    <3>2. CASE UNCHANGED <<mode, opened, queued, torn>>
      BY <1>1, <2>1, <3>1, <3>2, Zenon DEF OrderInv
    <3>3. CASE /\ torn' = (torn \/ queued # {})
               /\ queued' = {[w EXCEPT !.stale = TRUE] : w \in queued}
      <4>1. ~torn' => ~torn /\ queued = {} /\ queued' = {}
        BY <3>3, Zenon
      <4> QED BY <1>1, <2>1, <3>1, <4>1, Zenon DEF OrderInv, Behind
    <3> QED BY <2>1, <3>2, <3>3, CheckDoes, Zenon
  <2>3. CASE UNCHANGED disk
    BY <1>14, <2>1, <2>3, Zenon
  <2> QED BY <2>1, <2>2, <2>3, Zenon
<1>21. CASE Exit
  <2>1. UNCHANGED <<disk, nextId, overwritten, torn>> /\ queued' = {}
    BY <1>21, Zenon DEF Exit
  <2> QED BY <1>1, <2>1, Zenon DEF DiskInv, DiskTypes, NumberedInv, OrderInv, Sorted, Behind
<1>22. CASE UNCHANGED vars
  BY <1>2, <1>22, Zenon DEF vars
<1> QED
  BY <1>4, <1>5, <1>6, <1>7, <1>8, <1>9, <1>10, <1>11, <1>12, <1>13, <1>15, <1>16, <1>17, <1>19,
     <1>20, <1>21, <1>22, Zenon DEF Next, Rotation, Flush, Overflow

(* What is remembered of failures and renames stays well formed. *)
LEMMA HistoryStep ==
  HistoryTypes /\ overwritten' \subseteq 1 .. MaxWrites /\ [Next]_vars => HistoryTypes'
<1> SUFFICES ASSUME HistoryTypes, overwritten' \subseteq 1 .. MaxWrites, [Next]_vars
             PROVE  HistoryTypes'
  BY Zenon
<1> USE DEF memory, control, threads, pool, history, HistoryTypes
<1>1. raced' \in BOOLEAN
  BY Zenon DEF Next, vars
<1>2. torn' \in BOOLEAN
  BY Zenon DEF Next, vars, Start, OnOpen, OnOpenError, Rotation, RemoveOldest, RenameOldest,
         RenameCurrent, Reopen, Flush, FlushRead, FlushAdd, FlushSubmit, Perform, WriteCb, Overflow,
         OverflowWrite, OverflowRead, OverflowCheck, Shutdown, FlushSync, Exit, Check, CloseFile
<1>3. interrupted' \in BOOLEAN
  BY Zenon DEF Next, vars, Start, OnOpen, OnOpenError, Rotation, RemoveOldest, RenameOldest,
         RenameCurrent, Reopen, Flush, FlushRead, FlushAdd, FlushSubmit, Perform, WriteCb, Overflow,
         OverflowWrite, OverflowRead, OverflowCheck, Shutdown, FlushSync, Exit
<1>4. failed' \in BOOLEAN
  BY Zenon DEF Next, vars, Start, OnOpen, OnOpenError, Rotation, RemoveOldest, RenameOldest,
         RenameCurrent, Reopen, RenameDone, RenameRefused, Flush, FlushRead, FlushAdd, FlushSubmit,
         Perform, WriteCb, Overflow, OverflowWrite, OverflowRead, OverflowCheck, Shutdown,
         FlushSync, Exit
<1> QED BY <1>1, <1>2, <1>3, <1>4, Zenon

-----------------------------------------------------------------------------
(* The results. *)

FileInv ==
  /\ OptsInv /\ ControlTypes /\ DiskInv /\ ListTypes /\ ThreadTypes /\ NumberInv /\ HistoryTypes
  /\ CountInv /\ OrderInv

(* The invariant of the file target holds before start(). *)
LEMMA FileInit == Init => FileInv
<1> SUFFICES ASSUME Init PROVE FileInv
  BY Zenon
<1>1. NumberedInv /\ OrderInv
  BY Zenon DEF Init, NumberedInv, OrderInv, Sorted, Behind
<1> QED BY <1>1, TypesInit, CountInit, Zenon DEF FileInv, DiskInv

(* ... and every step keeps it. *)
LEMMA FileStep == FileInv /\ [Next]_vars => FileInv'
<1> SUFFICES ASSUME FileInv, [Next]_vars PROVE FileInv'
  BY Zenon
<1> USE DEF FileInv
<1>1. OptsInv' /\ ControlTypes' /\ ListTypes' /\ ThreadTypes'
  BY OptsStep, ControlStep, ListStep, ThreadStep, Zenon DEF DiskInv
<1>2. NumberInv' /\ CountInv'
  BY NumberStep, CountStep, Zenon
<1>3. DiskInv' /\ OrderInv' /\ HistoryTypes'
  BY DiskStep, HistoryStep, Zenon
<1> QED BY <1>1, <1>2, <1>3, Zenon

(* The invariant that the theorems below rest on. *)
LEMMA FileInvariant == Spec => []FileInv
BY FileInit, FileStep, PTL DEF Spec

(* Rotated files hold older writes than the files before them, whatever the  *)
(* order in which the thread pool performs writes, whichever calls fail and  *)
(* wherever the process ends.                                                *)
THEOREM FilesStayInOrder == Spec => []FilesInOrder
<1>1. FileInv => FilesInOrder
  <2> SUFFICES ASSUME FileInv PROVE FilesInOrder
    BY Zenon
  <2> USE DEF FileInv
  <2>1. {torn, interrupted, failed, raced} \subseteq BOOLEAN
    BY Zenon DEF HistoryTypes
  <2>2. nextId \in 1 .. MaxWrites + 1
    <3>1. Cardinality(Flushing) \in Nat /\ MaxWrites \in Nat
      BY FS_CardinalityType, ConstantsAssumption, Zenon DEF NumberInv
    <3> QED BY <3>1 DEF NumberInv
  <2>3. opened => mode = "idle" /\ Exists(0)
    BY Zenon DEF ControlTypes, Exists
  <2>4. TypeOK
    BY <2>1, <2>2, <2>3, Zenon DEF TypeOK, ControlTypes, Modes, DiskInv, DiskTypes, ListTypes, ThreadTypes,
                            NumberInv, HistoryTypes
  <2> QED BY <2>4, Zenon DEF FilesInOrder, OrderInv, Sorted
<1> QED BY <1>1, FileInvariant, PTL

(* The file is closed by the last report, when the thread pool has nothing. *)
LEMMA CloseIsQuiet ==
  ASSUME FileInv, ~closing, mode' = "rotate", mode # "rotate",
         (\E w \in performed : WriteCb(w)) \/ OverflowCheck
  PROVE  queued = {}
<1>1. /\ IsFiniteSet(queued) /\ IsFiniteSet(performed)
      /\ submittedWrites = Cardinality(queued) + Cardinality(performed) + Overflowing
      /\ Cardinality(queued) \in Nat /\ Cardinality(performed) \in Nat /\ Overflowing \in {0, 1}
  BY FS_CardinalityType, Zenon DEF FileInv, CountInv, Overflowing
<1>2. ASSUME NEW w \in performed, WriteCb(w) PROVE queued = {}
  <2>1. submittedWrites - 1 < 1
    BY <1>2, CheckDoes, Zenon DEF WriteCb
  <2>2. Cardinality(performed) # 0
    BY <1>1, FS_EmptySet, Zenon
  <2>3. Cardinality(queued) = 0
    BY <1>1, <2>1, <2>2
  <2> QED BY <1>1, <2>3, FS_EmptySet, Zenon
<1>3. ASSUME OverflowCheck PROVE queued = {}
  <2>1. submittedWrites - 1 < 1 /\ Overflowing = 1
    BY <1>3, CheckDoes, Zenon DEF OverflowCheck, Overflowing
  <2>2. Cardinality(queued) = 0
    BY <1>1, <2>1
  <2> QED BY <1>1, <2>2, FS_EmptySet, Zenon
<1> QED BY <1>2, <1>3, Zenon

(* submittedWrites is what makes it safe to rotate: until the shutdown, the  *)
(* file is not closed while the thread pool has a write for it.              *)
THEOREM QuietWhenClosed == Spec => ClosedOnlyWhenQuiet
<1>1. FileInv /\ [Next]_vars =>
        [opened /\ ~opened' /\ ~closing /\ mode' = "rotate" => queued = {}]_vars
  <2> SUFFICES ASSUME FileInv, Next, opened, ~opened', ~closing, mode' = "rotate"
               PROVE  queued = {}
    BY Zenon DEF vars, control
  <2>1. mode # "rotate"
    BY Zenon DEF FileInv, ControlTypes
  <2>2. (\E w \in performed : WriteCb(w)) \/ OverflowCheck
    BY Zenon DEF Next, Start, OnOpen, OnOpenError, Rotation, RemoveOldest, RenameOldest, RenameCurrent,
           Reopen, Flush, FlushRead, FlushAdd, FlushSubmit, Perform, Overflow, OverflowWrite,
           OverflowRead, Shutdown, FlushSync, Exit, memory, control, threads, pool, history
  <2> QED BY <2>1, <2>2, CloseIsQuiet, Zenon
<1> QED BY <1>1, FileInvariant, PTL DEF Spec, ClosedOnlyWhenQuiet

=============================================================================
