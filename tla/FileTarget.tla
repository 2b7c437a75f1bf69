------------------------------- MODULE FileTarget -------------------------------
(***************************************************************************)
(* fileTarget: how buffers become bytes of a file, and how the file is     *)
(* rotated.                                                                *)
(*                                                                         *)
(* The current file is path 0, rotated file n is path n; a larger number   *)
(* is an older file. flush() hands a buffer to libuv's thread pool and     *)
(* counts it in submittedWrites; when a write is reported and the count is *)
(* below one, a current file that is too large is closed, each file is     *)
(* renamed to the next number and a new file is opened. All of this is     *)
(* done by the logger thread, but flush() also by users that flush, and    *)
(* its update of current_size takes no lock. The process may end at any    *)
(* step; what is on disk is found again at the next start.                 *)
(*                                                                         *)
(* A file is the set of writes in it and their length.                     *)
(***************************************************************************)
EXTENDS Integers, Sequences, FiniteSets, Functions

CONSTANTS
  MaxRotated,  \* MAX_ROTATED_FILES: capacity of rotatedFiles, bound of the numbers
  Asked,       \* rotation settings the program may ask for
  Build,       \* "lib" or "node": who turns them into rotationOpts
  Lens,        \* bytes of a buffer
  Logger,      \* the logger thread
  Flushers,    \* user threads that flush
  MayFail,     \* calls to the file system may fail
  MayShutdown, \* TRUE if the process may shut down in order
  MaxWrites,   \* bound: buffers written
  MaxStarts    \* bound: starts of the process

Threads == Flushers \cup {Logger}

ASSUME ConstantsAssumption ==
  /\ MaxRotated \in Nat \ {0} /\ Lens \subseteq Nat /\ Logger \notin Flushers
  /\ Build \in {"lib", "node"} /\ MayFail \in BOOLEAN /\ MayShutdown \in BOOLEAN
  /\ MaxWrites \in Nat /\ MaxStarts \in Nat /\ IsFiniteSet(Flushers)
  /\ Asked \subseteq [max_files : Nat, max_file_size : Nat, max_total_size : Nat,
                      rotate_on_start : BOOLEAN]

VARIABLES
  opts,            \* filerotation: <<enabled, what was asked for>>
  disk,            \* the files: from their numbers to what is in them
  mode,            \* the logger thread: see TypeOK
  starting,        \* the target was not opened yet
  closing,         \* INTERNAL_SHUTDOWN was handled
  opened,          \* fileHandle is open, on path 0
  submittedWrites,
  current_size,
  rotatedFiles,    \* numbers of the rotated files, oldest first
  tempFiles,       \* the same after the rotation that is going on
  pc, job,         \* per thread: its place in flush(), the bytes and current_size it read
  queued,          \* writes the thread pool has
  performed,       \* writes it has done, not yet reported
  nextId,          \* history: the next write
  made, starts,    \* history: buffers flushed, starts
  torn,            \* history: fileHandle was closed with writes queued
  interrupted,     \* history: the process ended with files half renamed
  failed,          \* history: a call of a rotation or an open failed
  raced,           \* history: two threads were in flush() or a rotation at once
  overwritten      \* history: writes in files that a rename replaced

memory == <<submittedWrites, current_size, rotatedFiles, tempFiles>>
control == <<mode, starting, closing, opened, starts>>
threads == <<pc, job, made>>
pool == <<queued, performed, nextId>>
history == <<torn, interrupted, failed, overwritten>>
vars == <<opts, disk, memory, control, threads, pool, history, raced>>

(* GreaseLib_addTarget(), GreaseLib_modifyDefaultTarget(): enabled stays as  *)
(* the constructor of rotationOpts leaves it.                                *)
LibOpts(asked) == [enabled |-> FALSE, asked |-> asked]

(* The Node.js binding sets enabled with any of the settings. *)
NodeOpts(asked) == [enabled |-> TRUE, asked |-> asked]

NoJob == [len |-> 0, read |-> 0]
NewFile == [ids |-> {}, size |-> 0]

Init ==
  /\ opts \in {IF Build = "lib" THEN LibOpts(a) ELSE NodeOpts(a) : a \in Asked}
  /\ submittedWrites = 0 /\ current_size = 0 /\ rotatedFiles = <<>> /\ tempFiles = <<>>
  /\ mode = "down" /\ starting = TRUE /\ closing = FALSE /\ opened = FALSE
  /\ pc = [t \in Threads |-> "idle"] /\ job = [t \in Threads |-> NoJob]
  /\ queued = {} /\ performed = {}
  /\ disk = [n \in {} |-> NewFile]
  /\ nextId = 1 /\ made = 0 /\ starts = 0
  /\ torn = FALSE /\ interrupted = FALSE /\ failed = FALSE /\ raced = FALSE
  /\ overwritten = {}

-----------------------------------------------------------------------------
(* The file system. *)

Exists(n) == n \in DOMAIN disk
(* strRotateName() has no name for larger numbers. *)
HasName(n) == n < MaxRotated

Removed(n) == Restrict(disk, DOMAIN disk \ {n})
Renamed(a, b) == [i \in (DOMAIN disk \ {a}) \cup {b} |-> disk[IF i = b THEN a ELSE i]]
Written(id, len) == [disk EXCEPT ![0] = [ids |-> @.ids \cup {id}, size |-> @.size + len]]
Created == [i \in DOMAIN disk \cup {0} |-> IF Exists(i) THEN disk[i] ELSE NewFile]

(* uv_fs_rename(): done, or refused with nothing changed. *)
RenameDone(a, b) ==
  /\ Exists(a) /\ HasName(b)
  /\ disk' = Renamed(a, b)
  /\ overwritten' = overwritten \cup (IF Exists(b) THEN disk[b].ids ELSE {})
  /\ UNCHANGED failed

RenameRefused(a, b) ==
  /\ ~(Exists(a) /\ HasName(b)) \/ MayFail
  /\ failed' = (failed \/ (Exists(a) /\ HasName(b)))
  /\ UNCHANGED <<disk, overwritten>>

-----------------------------------------------------------------------------
(* The constructor: check_files(). *)

(* The rotated files it finds: up to the first number that is missing. *)
Found == {n \in 1 .. MaxRotated - 1 : \A i \in 1 .. n : Exists(i)}

SizeOf(n) == IF Exists(n) THEN disk[n].size ELSE 0

AllFilesSize == FoldFunctionOnSet(+, 0, [n \in Found \cup {0} |-> SizeOf(n)], Found \cup {0})

(* Only the limit for one file is read as "no limit" when it is 0. *)
NeedsRotation ==
  \/ opts.asked.max_file_size # 0 /\ SizeOf(0) > opts.asked.max_file_size
  \/ AllFilesSize > opts.asked.max_total_size
  \/ opts.asked.rotate_on_start

(* Mutant: an existing file is opened without a look at its size. *)
StartBlind ==
  /\ mode = "down" /\ starts < MaxStarts
  /\ starts' = starts + 1
  /\ rotatedFiles' = [i \in 1 .. Cardinality(Found) |-> Cardinality(Found) + 1 - i]
  /\ mode' = "open"
  /\ UNCHANGED <<opts, disk, submittedWrites, current_size, tempFiles, starting, closing,
                 opened, threads, pool, history>>

(* post_cstor() up to the call of rotate_files() or uv_fs_open(). *)
Start ==
  /\ mode = "down" /\ starts < MaxStarts
  /\ starts' = starts + 1
  /\ IF opts.enabled
     THEN /\ rotatedFiles' = [i \in 1 .. Cardinality(Found) |-> Cardinality(Found) + 1 - i]
          /\ current_size' = SizeOf(0)
          /\ mode' = IF NeedsRotation THEN "rotate" ELSE "open"
     ELSE mode' = "open" /\ UNCHANGED <<rotatedFiles, current_size>>
  /\ UNCHANGED <<opts, disk, submittedWrites, tempFiles, starting, closing, opened, threads,
                 pool, history>>

(* on_open() on success: targetReady() puts the target into use. *)
OnOpen ==
  /\ mode = "open"
  /\ disk' = Created
  /\ mode' = "idle" /\ opened' = TRUE /\ starting' = FALSE
  /\ UNCHANGED <<opts, memory, closing, starts, threads, pool, history>>

(* And on failure: the target is never used. *)
OnOpenError ==
  /\ mode = "open" /\ MayFail
  /\ mode' = "unready" /\ failed' = TRUE
  /\ UNCHANGED <<opts, disk, memory, starting, closing, opened, starts, threads, pool, torn,
                 interrupted, overwritten>>

-----------------------------------------------------------------------------
(* rotate_files(), one call to the file system at a time. *)

Oldest == Head(rotatedFiles)

(* Mutant: one file too many before the oldest is removed. *)
TooManyLate == opts.asked.max_files # 0 /\ Len(rotatedFiles) > opts.asked.max_files

TooMany == opts.asked.max_files # 0 /\ Len(rotatedFiles) + 1 > opts.asked.max_files

(* uv_fs_unlink() asserts that there is a path. *)
RemoveOldest ==
  /\ mode = "rotate" /\ rotatedFiles # <<>> /\ TooMany
  /\ rotatedFiles' = Tail(rotatedFiles)
  /\ \/ HasName(Oldest) /\ disk' = Removed(Oldest) /\ UNCHANGED <<mode, failed>>
     \/ HasName(Oldest) /\ MayFail /\ failed' = TRUE /\ UNCHANGED <<mode, disk>>
     \/ ~HasName(Oldest) /\ mode' = "aborted" /\ UNCHANGED <<disk, failed>>
  /\ UNCHANGED <<opts, submittedWrites, current_size, tempFiles, starting, closing, opened,
                 starts, threads, pool, torn, interrupted, overwritten>>

(* The file keeps its place in the list even if it was not renamed. *)
RenameOldest ==
  /\ mode = "rotate" /\ rotatedFiles # <<>> /\ ~TooMany
  /\ rotatedFiles' = Tail(rotatedFiles) /\ tempFiles' = Append(tempFiles, Oldest + 1)
  /\ RenameDone(Oldest, Oldest + 1) \/ RenameRefused(Oldest, Oldest + 1)
  /\ UNCHANGED <<opts, submittedWrites, current_size, control, threads, pool, torn,
                 interrupted>>

(* Mutant: the current file gets the next free number. *)
RenameCurrentLast ==
  /\ mode = "rotate" /\ rotatedFiles = <<>>
  /\ RenameDone(0, Len(tempFiles) + 1)
  /\ rotatedFiles' = Append(tempFiles, 1) /\ tempFiles' = <<>> /\ current_size' = 0
  /\ mode' = IF starting THEN "open" ELSE "reopen"
  /\ UNCHANGED <<opts, submittedWrites, starting, closing, opened, starts, threads, pool,
                 torn, interrupted>>

(* The current file. A full list makes addMv() wait, with wrLock held, for   *)
(* room that nobody makes.                                                   *)
RenameCurrent ==
  LET done(files) == /\ rotatedFiles' = files /\ tempFiles' = <<>> /\ current_size' = 0
                     /\ mode' = IF starting THEN "open" ELSE "reopen"
  IN /\ mode = "rotate" /\ rotatedFiles = <<>>
     /\ \/ RenameDone(0, 1) /\ Len(tempFiles) < MaxRotated /\ done(Append(tempFiles, 1))
        \/ /\ RenameDone(0, 1) /\ Len(tempFiles) = MaxRotated
           /\ mode' = "stuck" /\ UNCHANGED <<rotatedFiles, tempFiles, current_size>>
        \/ RenameRefused(0, 1) /\ done(tempFiles)
     /\ UNCHANGED <<opts, submittedWrites, starting, closing, opened, starts, threads, pool,
                    torn, interrupted>>

(* The end of check_and_maybe_rotate(): on_open_for_rotate(), or an error    *)
(* that leaves fileHandle as it is, a descriptor that was closed.            *)
Reopen ==
  /\ mode = "reopen"
  /\ mode' = "idle"
  /\ \/ disk' = Created /\ opened' = TRUE /\ UNCHANGED failed
     \/ MayFail /\ failed' = TRUE /\ UNCHANGED <<disk, opened>>
  /\ UNCHANGED <<opts, memory, starting, closing, starts, threads, pool, torn, interrupted,
                 overwritten>>

-----------------------------------------------------------------------------
(* Writing. *)

LoggerFree == mode = "idle" /\ pc[Logger] = "idle"

(* flush() counts the bytes first: a read of current_size and a store. *)
FlushRead(t, len) ==
  /\ ~starting /\ mode \in {"idle", "rotate", "reopen", "stuck"} /\ pc[t] = "idle"
  /\ t = Logger => mode = "idle" /\ ~closing
  /\ made < MaxWrites
  /\ made' = made + 1
  /\ pc' = [pc EXCEPT ![t] = "add"]
  /\ job' = [job EXCEPT ![t] = [len |-> len, read |-> current_size]]
  /\ UNCHANGED <<opts, disk, memory, control, pool, history>>

FlushAdd(t) ==
  /\ pc[t] = "add"
  /\ current_size' = job[t].read + job[t].len
  /\ pc' = [pc EXCEPT ![t] = "submit"]
  /\ UNCHANGED <<opts, disk, submittedWrites, rotatedFiles, tempFiles, control, job, made,
                 pool, history>>

(* Then it submits the write under wrLock, which a rotation holds. *)
FlushSubmit(t) ==
  /\ pc[t] = "submit" /\ mode = "idle" /\ pc[Logger] # "check"
  /\ submittedWrites' = submittedWrites + 1
  /\ queued' = queued \cup {[id |-> nextId, len |-> job[t].len, stale |-> FALSE]}
  /\ nextId' = nextId + 1
  /\ pc' = [pc EXCEPT ![t] = "idle"] /\ job' = [job EXCEPT ![t] = NoJob]
  /\ UNCHANGED <<opts, disk, current_size, rotatedFiles, tempFiles, control, made, performed,
                 history>>

(* The thread pool performs a write, in any order. One whose descriptor was  *)
(* closed fails, or goes to the new file when that has the same descriptor.  *)
Perform(w) ==
  /\ queued' = queued \ {w} /\ performed' = performed \cup {w}
  /\ \/ opened /\ disk' = Written(w.id, w.len)
     \/ (MayFail \/ w.stale \/ ~opened) /\ UNCHANGED disk
  /\ UNCHANGED <<opts, memory, control, threads, nextId, history>>

CloseFile ==
  /\ mode' = "rotate" /\ opened' = FALSE
  /\ queued' = {[w EXCEPT !.stale = TRUE] : w \in queued}
  /\ torn' = (torn \/ queued # {})

(* Mutant: the writes still submitted are not looked at. *)
CheckAlways(size) ==
  IF opts.enabled /\ size > opts.asked.max_file_size
  THEN CloseFile ELSE UNCHANGED <<mode, opened, queued, torn>>

(* check_and_maybe_rotate() up to the call of rotate_files(): the file is    *)
(* closed when no write is counted any more and it is too large.             *)
Check(size) ==
  IF submittedWrites - 1 < 1 /\ opts.enabled /\ size > opts.asked.max_file_size
  THEN CloseFile ELSE UNCHANGED <<mode, opened, queued, torn>>

(* write_cb() *)
WriteCb(w) ==
  /\ LoggerFree
  /\ performed' = performed \ {w}
  /\ submittedWrites' = submittedWrites - 1
  /\ Check(current_size)
  /\ UNCHANGED <<opts, disk, current_size, rotatedFiles, tempFiles, starting, closing, starts,
                 threads, nextId, interrupted, failed, overwritten>>

(* writeAsyncOverflow(): counted, written at once, and checked. *)
OverflowWrite(len) ==
  /\ LoggerFree /\ ~closing /\ made < MaxWrites
  /\ made' = made + 1 /\ nextId' = nextId + 1
  /\ \/ /\ opened /\ disk' = Written(nextId, len)
        /\ submittedWrites' = submittedWrites + 1
        /\ pc' = [pc EXCEPT ![Logger] = "overflow"]
        /\ job' = [job EXCEPT ![Logger] = [len |-> len, read |-> 0]]
     \/ /\ MayFail \/ ~opened
        /\ UNCHANGED <<disk, submittedWrites, pc, job>>
  /\ UNCHANGED <<opts, current_size, rotatedFiles, tempFiles, control, queued, performed,
                 history>>

OverflowRead ==
  /\ pc[Logger] = "overflow"
  /\ pc' = [pc EXCEPT ![Logger] = "check"]
  /\ job' = [job EXCEPT ![Logger].read = current_size]
  /\ UNCHANGED <<opts, disk, memory, control, made, pool, history>>

OverflowCheck ==
  LET size == job[Logger].read + job[Logger].len
  IN /\ pc[Logger] = "check"
     /\ current_size' = size /\ submittedWrites' = submittedWrites - 1
     /\ Check(size)
     /\ pc' = [pc EXCEPT ![Logger] = "idle"] /\ job' = [job EXCEPT ![Logger] = NoJob]
     /\ UNCHANGED <<opts, disk, rotatedFiles, tempFiles, starting, closing, starts, made,
                    performed, nextId, interrupted, failed, overwritten>>

(* INTERNAL_SHUTDOWN: from here on only flushSync() by the logger thread. *)
Shutdown ==
  /\ MayShutdown /\ LoggerFree /\ ~closing
  /\ closing' = TRUE
  /\ UNCHANGED <<opts, disk, memory, mode, starting, opened, starts, threads, pool, history>>

(* flushSync() writes at once, counts neither the write nor its bytes, and   *)
(* ends with the check for counted writes.                                   *)
FlushSync(len) ==
  /\ closing /\ LoggerFree /\ made < MaxWrites
  /\ made' = made + 1 /\ nextId' = nextId + 1
  /\ \/ opened /\ disk' = Written(nextId, len)
     \/ (MayFail \/ ~opened) /\ UNCHANGED disk
  /\ submittedWrites' = submittedWrites - 1
  /\ Check(current_size)
  /\ UNCHANGED <<opts, current_size, rotatedFiles, tempFiles, starting, closing, starts, pc,
                 job, performed, interrupted, failed, overwritten>>

(* The process ends, in order or not, and with it all but the files. *)
Exit ==
  /\ mode # "down"
  /\ submittedWrites' = 0 /\ current_size' = 0 /\ rotatedFiles' = <<>> /\ tempFiles' = <<>>
  /\ mode' = "down" /\ starting' = TRUE /\ closing' = FALSE /\ opened' = FALSE
  /\ pc' = [t \in Threads |-> "idle"] /\ job' = [t \in Threads |-> NoJob]
  /\ queued' = {} /\ performed' = {}
  /\ interrupted' = \/ interrupted \/ tempFiles # <<>>
                    \/ ~Exists(0) /\ DOMAIN disk # {}
  /\ UNCHANGED <<opts, disk, starts, made, nextId, torn, failed, overwritten>>

-----------------------------------------------------------------------------
Rotation == RemoveOldest \/ RenameOldest \/ RenameCurrent \/ Reopen

Flush(t) == (\E len \in Lens : FlushRead(t, len)) \/ FlushAdd(t) \/ FlushSubmit(t)

Overflow == (\E len \in Lens : OverflowWrite(len)) \/ OverflowRead \/ OverflowCheck

(* Threads in flush() or a rotation. *)
Busy == {t \in Threads : pc[t] # "idle" \/ (t = Logger /\ mode \in {"rotate", "reopen"})}

Next ==
  /\ \/ Start \/ OnOpen \/ OnOpenError
     \/ Rotation
     \/ \E t \in Threads : Flush(t)
     \/ \E w \in queued : Perform(w)
     \/ \E w \in performed : WriteCb(w)
     \/ Overflow
     \/ Shutdown
     \/ \E len \in Lens : FlushSync(len)
     \/ Exit
  /\ raced' = (raced \/ Cardinality(Busy') > 1)

Spec == Init /\ [][Next]_vars

-----------------------------------------------------------------------------
(* Properties. *)

Write == [id : 1 .. MaxWrites, len : Lens, stale : BOOLEAN]

TypeOK ==
  /\ DOMAIN disk \subseteq 0 .. MaxRotated - 1
  /\ \A n \in DOMAIN disk : disk[n].ids \subseteq 1 .. MaxWrites /\ disk[n].size \in Nat
  /\ mode \in {"down",             \* not started
               "open", "unready",  \* waiting for on_open(), or it failed
               "idle",             \* in the loop, or in flush()
               "rotate", "reopen", \* in check_and_maybe_rotate()
               "stuck", "aborted"}
  /\ starting \in BOOLEAN /\ closing \in BOOLEAN /\ opened \in BOOLEAN
  /\ opened => mode = "idle" /\ Exists(0)
  /\ submittedWrites \in Int /\ current_size \in Nat
  /\ rotatedFiles \in Seq(Nat) /\ tempFiles \in Seq(Nat)
  /\ Len(rotatedFiles) + Len(tempFiles) <= MaxRotated
  /\ pc \in [Threads -> {"idle", "add", "submit", "overflow", "check"}]
  /\ job \in [Threads -> [len : Lens \cup {0}, read : Nat]]
  /\ queued \subseteq Write /\ performed \subseteq Write
  /\ nextId \in 1 .. MaxWrites + 1 /\ made \in 0 .. MaxWrites /\ starts \in 0 .. MaxStarts
  /\ overwritten \subseteq 1 .. MaxWrites
  /\ {torn, interrupted, failed, raced} \subseteq BOOLEAN

(* "this tracks the number of submitted async write calls. When it's zero    *)
(* ...it's safe to rotate": whatever users flush meanwhile, the file is not  *)
(* closed under a write the thread pool still has. At shutdown flushSync()   *)
(* counts down for writes it never counted up, and this is lost.             *)
ClosedOnlyWhenQuiet == [][opened /\ ~opened' /\ ~closing /\ mode' = "rotate" => queued = {}]_vars

(* A file with a larger number only holds writes submitted before all those  *)
(* in a file with a smaller one, though the pool performs them in any order, *)
(* renames fail, and the process ends between any two renames.               *)
FilesInOrder ==
  /\ TypeOK
  /\ ~torn => \A m, n \in DOMAIN disk :
               m < n => \A i \in disk[m].ids, j \in disk[n].ids : j < i

(* With a limit on their number, files are lost only by unlinking the oldest *)
(* beyond it: a rename never replaces one, the rotation neither waits nor    *)
(* aborts, and no number is above the limit. The limit is the one that       *)
(* rotate_files() tests, max_files rotated files beside the current one; its *)
(* declaration, "max files, including current", would allow one file less.   *)
(* After an end of the process half way through a rotation, which leaves a   *)
(* gap that check_files() does not look behind, the numbers still stay       *)
(* within one of the limit. Nothing is said without a limit, or with one     *)
(* that MAX_ROTATED_FILES does not cover.                                    *)
RenamesReplaceNothing ==
  opts.asked.max_files \in 1 .. MaxRotated - 1 /\ ~failed =>
    IF interrupted THEN DOMAIN disk \subseteq 0 .. opts.asked.max_files + 1
    ELSE /\ DOMAIN disk \subseteq 0 .. opts.asked.max_files
         /\ overwritten = {} /\ mode \notin {"stuck", "aborted"}

Quiet == mode = "idle" /\ Busy = {} /\ queued \cup performed = {} /\ ~closing

(* "max size for any one file": when all writes have been reported, the      *)
(* current file is within the limit asked for, also after a start that finds *)
(* a larger one; unless two threads updated current_size at once or a call   *)
(* failed.                                                                   *)
QuietWithinLimit ==
  Quiet /\ opts.asked.max_file_size # 0 /\ ~raced /\ ~failed =>
    disk[0].size <= opts.asked.max_file_size

=============================================================================
