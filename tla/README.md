# A TLA+ verification of greaseLib

greaseLib is an asynchronous logging library. Any thread may log; one logger
thread (a libuv loop) filters, formats, buffers and writes. This directory
holds TLA+ models of its parts, the TLC configurations that check them on small
instances, and theorems that TLAPS proves for every instance. All paths are
relative to the repository (`src/`); the library build (`GREASE_LIB`) is
meant, except where `FileTarget` takes the rotation settings of the Node.js
binding.

`PROJECT.json` is the index: for every definition the lines it models, for
every run its properties, the mutant that breaks each property, the
disagreements found between code and comments, and the hazards of the code.

## The system

### Parts

| Part | State | Operations | Where |
| --- | --- | --- | --- |
| log entries and command queue | `masterBufferAvail`, `internalCmdQueue`, `asyncInternalCommand` | `_log`, `_submitBuffer`, `_grabInLogBuffer`, `_returnBuffer`, `handleInternalCmd`, `shutdown` | logger.h, logger.cc |
| filters and routing | `filterHashTable`, `FilterList`, `levelFilterOutMask`, `defaultFilterOut`, the hash and list cache of a `logMeta` | `sift`, `_addFilter`, `disableFilter`, `enableFilter`, the masks and options, the walk in `handleInternalCmd` | logger.h, logger.cc, grease_lib.cc |
| log targets | `currentBuffer`, `availBuffers`, `writeOutBuffers`, `needGreaseThread`, the flush timer | `write`, `rotate`, `flushAll`, `flushAllSync`, `returnBuffer` | logger.h, logger.cc |
| target kinds | tty requests, file requests, callback queue `callerLogCallbacks` | `flush`, `flushSync`, `write_cb`, `_doLibCallback`, `GreaseLib_cleanup_GreaseLibBuf` | logger.h, grease_lib.cc |
| file rotation | `submittedWrites`, `current_size`, `all_files_size`, the file list | `check_and_maybe_rotate`, `rotate_files`, `sync_n_rotate` | logger.h |
| overflow messages | `overflowWriteOut`, reference counts of `singleLog` | `writeOverflow`, `flushOverflow`, `finalizeV8Callback` | logger.h, logger.cc |
| socket sinks | socket, dump buffer, pipe that stops the listener | `SyslogDgramSink`, `UnixDgramSink` listeners and parsers | logger.h |
| kernel log sinks | `/proc/kmsg`, `/dev/kmsg`, the entry being filled | `klog` listeners and parsers | logger.h, logger.cc |
| redirected descriptors | one poll handle for stdout and stderr each | `GreaseLib_addFDForStdout` and its relatives | grease_lib.cc |
| start, targets, sinks | the target, sink and start-up tables | `start`, `addTarget`, `modifyDefaultTarget`, `addSink`, `targetReady` | grease_lib.cc, logger.cc |
| labels and ids | tag, origin and level labels | `GreaseLib_getUnusedTagId` and its relatives | grease_lib.cc |
| client | plugin symbol or socket, ping and echo | `grease_initLogger`, `grease_logToSink` | grease_client.c |
| JSON escaping | none | `memcpy_and_json_escape` | local_strdup.c |

A message goes: producer, `sift()`, an entry of the pool, a `NEW_LOG` command,
the logger's own `sift()`, the walk of the filter lists, `write()` of each
target, a bank (`logBuf`), `rotate()`, the device, `returnBuffer()`, and with a
callback the user and `GreaseLib_cleanup_GreaseLibBuf()`.

### What is hard

The hazards are listed in `PROJECT.json` at the lines where they bite. The main
ones: user threads run `flushAll()` on the same banks as the logger thread;
`write()` tests a bank and fills it under two different lock sections; the
logger thread feeds a bounded queue that only it empties, and gives back
entries with an `add()` that waits for room; wake-ups are coalesced; static
metas are shared and cached without a lock; filter lists are walked while they
are changed; a shutdown command needs room in a queue; sizes are compared with
and without the delimiter; asynchronous writes finish late, out of order or not
at all.

## Modules

| Module | Models | Checked by |
| --- | --- | --- |
| `Queues` | a `tw_safeCircular` as a sequence | with its users |
| `LogTarget` | `logTarget` with the flush code of `ttyTarget`, `fileTarget`, `callbackTarget` | `MCLogTarget`, runs `LogTarget_*` |
| `LogTargetProofs`, `LogTargetSafety` | theorems about `LogTarget` | TLAPS |
| `Intake` | entry pool, command queue, wake-up, command loop, shutdown | `MCIntake`, runs `Intake_*` |
| `Filters` | filter lists, `sift()`, its cache, masks, routing | `MCFilters`, runs `Filters_*` |
| `FileTarget` | asynchronous file writes, size limits and rotation of `fileTarget` | `MCFileTarget`, run `FileTarget_safety` |
| `IntakeProofs`, `FiltersProofs` | theorems about `Intake` and `Filters` | TLAPS |
| `FileTargetProofs`, `FileTargetRotation` | theorems about `FileTarget` | TLAPS |
| `Framing`, `LogSocket` | the bytes of a datagram, and the socket they travel through (external) | with their users |
| `Client` | `grease_client.c` in a program of several threads | `ClientSink` |
| `DgramSink` | `UnixDgramSink`, `SyslogDgramSink`, `addSink()` | `ClientSink` |
| `LogChannel` | abstract: what client, socket and sink promise together | refined by `ClientSink` |
| `ClientSink` | `Client`, `DgramSink` and other programs, composed over the socket | `MCClientSink`, run `ClientSink_channel` |
| `ClientSinkProofs` | theorems about `ClientSink` | TLAPS |
| `KlogParse`, `KlogSink` | the two kernel log parsers, and the two sinks around them | `MCKlogSink`, run `Klog_sinks` |
| `Redirect` | redirected descriptors: tickets, tables, poll callbacks | `Lifecycle` |
| `Lifecycle` | start, shutdown, library thread, making and replacing targets, with `Redirect` in the library thread's loop | `MCLifecycle`, runs `Lifecycle_*` |
| `LifecycleProofs` | theorems about `Lifecycle` and `Redirect` | TLAPS |

In every module a step is a stretch of code between two accesses to state that
another thread can change: a mutex section, a queue operation, an
`uv_async_send()`, or an unlocked read or write. Operators whose name is
introduced by "Mutant of" are never part of a specification. They are variants
of a definition with a plausible bug, kept to show that a property notices it.

### LogTarget

State: `kind` says which of the three targets is modelled and never changes; the
constant `Kinds` says which ones an instance has. Each bank is in one of eight places (current, free, waiting to be
written, carried by a thread, given to libuv, in the callback queue, with the
user, or given back without a target to take it). `used` and `data` are the
bytes and the messages of a bank; `pc` and `hold` say where each thread is
within `write()` or `flushAll()`. Lengths of messages, header, footer and
delimiter are numbers, so the size tests of `write()`, `remain()` and
`copyIn()` are the code's.

Actions: `NewLog`, `CheckEmpty`, `WriteCopyIn`, `WriteRotate`, `WritePost` and
`WritePostFull` are `write()`; `FlushTimer`, `RotateCmd` and `UserFlush` start
`flushAll()`, and `Drain` and `Flush`/`FlushCallback` are its loop; `DrainSync`
and `FlushSync`/`FlushSyncTty` are `flushAllSync()` at `ShutdownCmd`; `WriteCb`
is the completion of a write; `CallCallback` and `Cleanup` are the library
thread and the user.

Completed TTY writes are served in order, completed file writes in any order
(libuv's thread pool), and a write may fail. A failed assertion ends the
process (`aborted`), after which nothing happens.

### Intake

State: the pool and the command queue as sequences, `asyncPending` for the
coalesced wake-up, per thread a program counter and the entry it carries, and
the logger's place in `handleInternalCmd()`. Message contents are "who sent it
and as which of its messages", sizes are "fits a bank", "fits an entry but no
bank" and "fits no entry". Targets are what they do to the queue: `write()` may
post `TARGET_ROTATE_BUFFER` and large messages post `WRITE_TARGET_OVERFLOW`. A
message carries the target that posted it again (`by`, the command's `myId`),
which the logger thread ignores: it writes the message to all targets once for
each of them. `OncePerPost` says that it does no more than that, and `WrittenOnce`,
which the code violates, that a target gets a message once.

### Filters

State: the lists with their slots and bloom masks, the global mask and options,
the cached hash and lists of each `logMeta`, and the entries between a caller's
`sift()` and the logger's. A filter is stored in several unlocked writes as the
logger sees it: while one is being stored (`adding`), the walk may see any
subset of its fields, and of the target, which it reads again, the old one when it
tests the ignore list and the new one when it writes. A level is one element of a set where the code has one
bit of a mask.

### FileTarget

State: the files on disk by number (0 is the current one), each with the writes
in it and its length; the members of `fileTarget`; the writes the thread pool
has (`queued`) and has done but not reported (`performed`); per thread the place
in `flush()`. A rotation is one step per call to the file system, because the
process may end between two of them; what it holds in memory is lost and
`check_files()` at the next start sees what is on disk. A write whose descriptor
was closed under it fails or reaches the new file, which may have the same
descriptor.

The guarantees have exceptions, and history variables say when one applies:

| Variable | Set when | What is no longer promised |
| --- | --- | --- |
| `torn` | the file was closed with writes queued, which happens at shutdown | `FilesInOrder` |
| `interrupted` | the process ended half way through a rotation | of `RenamesReplaceNothing`, all but a bound on the numbers in use |
| `failed` | opening, renaming or unlinking a file failed | `RenamesReplaceNothing`, `QuietWithinLimit` |
| `raced` | two threads were in `flush()` or a rotation at once | `QuietWithinLimit` |

`ClosedOnlyWhenQuiet` is about rotations before shutdown (`~closing`), and
`RenamesReplaceNothing` about settings with a limit on the number of files that
`MAX_ROTATED_FILES` covers. Its limit is the one `rotate_files()` keeps,
`max_files` rotated files beside the current one.

`Build` says who makes the settings: the library leaves `enabled` unset
(`LibOpts`), so that only with the settings of the Node.js binding (`NodeOpts`)
the rotation runs at all; the run uses the latter.

### Client, DgramSink and their composition

`Client` has the process-wide `grease_log` and `found_module` and, per thread,
the socket, its error count and the place within a call. `grease_printf()` reads
`grease_log` twice (`CheckLog`, `CallLog`), because the build does not optimise
and another thread may change it in between; calling it when it is null is
`crashed`. `PingSend`, `PingAnswered` and `PingFails` are `ping_sink()`, which
makes a socket of its own, so that `PingFails` is also the timeout. When `bind()`
fails, `ping_sink()` closes the socket and at its end closes the number again
(`PingBindFails`, `CloseAgain`, grease_client.c:438, 473); `again` has the socket
of another thread that got the number in between. A failing `mkdtemp()`
(`PingError`) leaves the socket open and unused.

A datagram (`Framing`) is a sequence of cells: preamble, length, meta, and the
characters of the message, each of which knows which message it belongs to and
where. The sink takes entries apart by the sizes it finds, and a mistake of one
cell is visible in what it hands over. The socket (`LogSocket`) holds `QueueCap`
datagrams, a sender waits while it is full and is refused when nobody has bound
the path, and what waits in it is lost with the logger process (`LoggerDies`).

`stop()` writes into the end of the pipe that is read, so that the listener is
not woken by it; it notices `stop_thread` after its next datagram.

`ClientSink` implements `LogChannel`: `pending` is what waits in the socket,
`taken` what was handed to `logP()`, `kept` what was printed or logged inside
the process. Users of `_grease_logToRaw()` are not writers of this channel: that
function sets `*buflen`, what is to be sent, to the length of the string alone
(grease_client.c:258), so that the listener gets a part of an entry and drops
it. They fill the socket all the same. Neither are lines that the syslog sink's
expression does not match, and datagrams that are too short or of no known kind.

### KlogParse and KlogSink

The parsers are functions over characters that follow the code's state machine,
one character at a time; `KlogSink` gives them what the kernel would write for
a line with a level and a body. The reference for the parsers (`LevelOf`,
`BodyOf`) is a property's, and is written without them. The ring buffer of the
kernel holds `RingCap` lines and forgets the oldest.

### Lifecycle and Redirect

`main` is the thread that calls `start()` and `waitOnGreaseShutdown()`, one step
per call that another thread can see. `libThread` is `libraryMain()` and ends
when nothing keeps its loop alive. `objs` has every target object ever made with
what was reported about it; `targets` and `defaultTarget` are what the logger
thread finds. A target has data or has not; its banks are those of `LogTarget`.
Signalling the logger thread before its handle is initialised, and using a
deleted target, may go well or be the end of the process (`crashed`).

A ticket of `Redirect` is one `fdRedirectorTicket`; `watchers` is the table of
libuv by descriptor number, which decides whether `uv_poll_stop()` and
`uv_poll_start()` assert. Numbers of descriptors are used again once closed.
`raced` records that a descriptor was added or removed while its callback ran.

## Runs

Each run states one question; `PROJECT.json` has a sentence on each, and each
`.cfg` says what its instance is.

Runs that pass:

| Run | Instance | Shows |
| --- | --- | --- |
| `LogTarget_flush` | any kind of target, 2 banks, a user thread that flushes, shutdown | the inductive invariant of the proofs, room in the queues and the account of messages in every interleaving; no bank holds more than its size, but for the delimiter of a message that is alone in it; a bank under way is not touched |
| `LogTarget_live` | any kind of target, 3 banks, 3 messages (4 for a callback target), empty ones too, shutdown | buffered bytes always have the flush timer; output and callbacks in order; every message is written, delivered or dropped; the logger thread always gets back to its loop, though the user returns no bank; what is buffered at shutdown is written or dropped |
| `Intake_pool` | a caller and a reader, or two callers, 2 targets, 2 entries, queue of 3, shutdown | each entry has one owner and is intact while queued; no wake-up is lost; a refusal has its reason; per-producer order, each message once, or once for each target that sent it round again; accepted messages are handled and entries come back |
| `Filters_safety` | 2 callers, 2 metas, up to 3 filters, lists of 2 slots, in three scenarios | cached lists are lists of the meta's own tag and origin; a message goes only to the default target or where a filter for it sends it, even while a filter is stored; slots, bloom masks and walk route as the filters added and switched say |
| `FileTarget_safety` | 2 starts, up to 6 writes of 1 and 2 bytes, 5 numbers for files, five settings, in three scenarios | older files hold older writes, whatever call fails and wherever the process ends; with a limit on their number no rename replaces a file and the rotation does not hang; the current file is within its limit once all writes are reported; a rotation does not close it under a write. The exceptions are listed under `FileTarget` above |
| `ClientSink_channel` | 2 threads or 1 thread and other programs, socket of 2 datagrams, up to 2 starts of the logger, in five scenarios | client, socket and sink are a `LogChannel`; an answer to a ping is to this ping; calls return; what was sent is read; after `stop()` at most one more datagram is read |
| `Klog_sinks` | both sinks, 3 lines of seven shapes, 2 entries, ring of 2 lines | every pool entry has one owner; lines reach the logger whole, in order, with their own level; a line that was read is lost only behind one the parser refuses, or for want of an entry (what `lseek()` skips was not read); `stop()` ends the thread |
| `Lifecycle_targets` | start and shutdown, up to 3 targets made by 2 threads, or 2 pipes on one descriptor number, in four scenarios | the logger thread finds only ready targets, under their own ids; `addTarget()` is answered once and truthfully, and always; data gets out; redirected data keeps its origin; a shutdown releases who waits for it |

A behaviour of `MCFilters` keeps to one scenario: callers race for the cache
while filters and options change (`race`), the logger walks a list while a
filter is stored in it (`torn`), or the administrator fills the lists (`lists`).
Each scenario restricts `Next`; none replaces a definition of `Filters`.
`MCFileTarget` does the same: users flush and calls fail (`users`), the logger
thread makes one write more and only writes fail (`alone`), or large messages fill
the list of rotated files (`full`). In
`MCIntake` a caller competes with a reader (`reader`) or two callers with each
other (`callers`). In `MCClientSink` two threads set up and log (`threads`), both
ping (`pingers`), one sets up again and again while the logger comes and goes (`pinging`), the socket
is kept full and the listener stopped (`traffic`), or the sink is one for
syslog (`syslog`). In `MCLifecycle` calls come while the library starts
(`starting`, `early`), targets are made and replaced once it runs (`adding`), or
descriptors come and go (`redirecting`). A scenario restricts only which calls
are made, never what a call does once it began.

Runs that end in a violation show where the code does something else than a
comment, an assertion or a header says. `findings` in `PROJECT.json` quotes the
line in each case.

| Run | What TLC shows |
| --- | --- |
| `LogTarget_flushAssert` | a user's flush between `isEmpty()` and `copyIn()` leaves bytes without a reference, and `assert(needGreaseThread > 0)` fails |
| `Intake_overflow` | a message too large for a bank reaches each of two targets twice |
| `Filters_filterOut` | `defaultFilterOut` rejects only the first message of a meta |
| `Lifecycle_loop` | a library thread that runs before `start()` has started the timer finds nothing in its loop and ends |

### Behaviour the models keep and no run is about

The models follow the code in these places too, where a comment or a name
suggests something else:

- the final flush of a TTY target locks a mutex it already holds
  (`FlushSyncTty`, logger.h:3291);
- a message that fills an empty bank but for the delimiter passes the test against
  the bank size, is never found to fit (logger.h:3125), and is dropped, or after a
  rotation copied without being measured again, one delimiter past the end
  (logger.h:3146);
- a filter whose mask was never set matches nothing (grease_lib.cc:962);
- the list for the origin alone is looked up before the one for the tag alone
  (`getHashes()`, logger.h:4060), the comments at logger.cc:92 and 96 have it the
  other way round; `RoutesAsRegistered` allows either;
- the logger's own `sift()` may reject a message that was already queued
  (logger.cc:204);
- the walk of a full list does not stop at its end (logger.cc:210); what it
  reads there is not defined, and a behaviour of the model ends (`overrun`);
- disabling a filter that was not added marks the first empty slot
  (logger.h:816);
- `unmaskOutByLevel()` unmasks nothing (grease_lib.cc:955);
- `max_files` ("including current", logger.h:3404) counts the rotated files
  only, so one more is kept (logger.h:3755); a `max_total_size` of 0 ("no
  setting", logger.h:3405) rotates at every start (logger.h:3871);
- without `max_files` the list of rotated files fills, and `addMv()` waits for
  ever with `wrLock` held (mode `stuck`, logger.h:3811);
- `flushSync()` decrements `submittedWrites`, which it never incremented, so a
  shutdown can close a file under pending writes (logger.h:3607);
- a bank of the default target that the user gives back is never used again,
  because the default target is not in the table (logger.cc:843);
- the library never sets `rotationOpts.enabled`, so that rotation asked for
  through it does not happen (grease_lib.cc:746, `LibOpts`);
- `check_grease_symbols()` clears the process-wide `found_module` before it
  searches, so that a second thread that sets up meanwhile goes to the socket
  although greaseLog.node is loaded (grease_client.c:190, 396);
- `grease_printf()` compares `grease_log` and reads it again to call it
  (grease_client.c:212), and too many errors of one thread, or a set-up that
  fails, take it away from all threads (grease_client.c:346, 602);
- a syslog line that the regular expression does not match is not logged
  (logger.h:1438);
- the listener of `/dev/kmsg` seeks to the end before it waits, which skips
  records (logger.h:1864), and ends when the pool is empty (logger.h:1910) or a
  priority has three digits;
- `shutdown()` before the library thread has started does nothing, and before
  that thread has its lock the wait is not released (grease_lib.cc:333);
- data of a default target that was replaced stays in it (`Reached`);
- a ticket whose stream has ended stays in its table; when its number was added
  again for the other kind of stream, removing it fails an assertion of libuv
  (grease_lib.cc:150);
- a ping whose `bind()` failed closes its socket's number twice, and one without a
  directory never does (grease_client.c:438, 473, 480);
- large messages may be overtaken by later small ones of the same producer, which
  `ProducerOrder` leaves out;
- `stop()` of a sink has no caller in the repository; the runs call it.

One line is in no model: when an added target fails, `addTarget()`'s action
callback calls `strncpy()` with its arguments swapped (grease_lib.cc:806), so that
the report has no text and the error's own is written over. `Lifecycle` has the
report (`Told`), and no texts.

### Bounds

`MaxMsgs` bounds the messages of a behaviour, `MaxFilters` the filters added,
`MaxWrites` the writes to a file, `MaxStarts` the starts of the process;
the other constants are sizes of the code's own arrays and queues. Two or three
banks are enough for a bank to be current, waiting and free at once; four
messages find no bank free when the user of a callback target keeps them
(`LastIsForCallback` of `MCLogTarget` gives the other kinds three).
A callback queue of one place is full with one bank. Two entries against three
places of the command queue let producers compete for the last entry and the
queue be filled by commands that carry none. Lists of two slots are full after
two filters, and a third is refused. Files 0 to 4 and four writes let limits of
one and of two be exceeded with numbers to spare, so that a file too many would
show; six writes fill the list without a limit; one restart lets each step of a
rotation be the last of a process. A message length of 7 against a bank of 8 is the
longest that passes the test of `write()`. Two targets let a large message be
posted twice.
A socket of two datagrams is full with a ping and a message; an error limit of
one is exceeded by the second failure; three set-ups let a late answer meet the
ping after the next. Three kernel lines let a ring of two lose one, and bodies of
up to three characters overflow an entry of two. Three objects let a target be
replaced while another is opened. Two pipes on one number are the least in which
a number is used again, and two tickets the least in which an old one is left
over.
Where the bound itself ends a behaviour, the `.cfg` says so and leaves the
deadlock check out; the other runs check it.

### Fairness

Weak fairness for a thread that is inside a function of the library: it goes
on. The logger loop handles a queued command (`asyncInternalCommand` is sent
after each command is queued), and a timer that is started fires. Each turn of
`uv_run` visits timers, wake-ups and finished writes, so none of the three can
keep the others from being served; this is why these actions have strong
fairness: other work of the loop disables them again and again, never for ever.
The listeners of the sinks are threads of their own that wait only for their
socket or the kernel; a timeout passes. Weak fairness of the library thread and
of the logger thread as a whole is enough in `Lifecycle`, as their loops serve
all handles. Nothing is assumed of the users: they may stop logging, never flush,
never give a bank back, never stop a sink or shut the library down.

## Proofs

TLAPS proves the following, for every value of the constants that satisfies the
assumptions below: any number and size of banks, entries, queues and filter
lists, any number of threads, messages, files, targets, descriptors and starts.

| Theorem | Module | Statement |
| --- | --- | --- |
| `InductiveInvariant` | `LogTargetProofs` | `Spec => []IndInv` |
| `TypeCorrect` | `LogTargetProofs` | `Spec => []TypeOK` |
| `BanksConserved` | `LogTargetProofs` | `Spec => []BankConservation` |
| `BytesStayInBank` | `LogTargetProofs` | `Spec => []OnlyDelimiterOverruns` |
| `QueuesNeverFill` | `LogTargetSafety` | `Spec => []QueuesHaveRoom` |
| `MessagesAccounted` | `LogTargetSafety` | `Spec => []AccountedOnce` |
| `BanksInFlightUntouched` | `LogTargetSafety` | `Spec => InFlightUntouched` |
| `TimerRunsForData` | `LogTargetSafety` | `Flushers = {}` gives `Spec => [](BufferedDataHasTimer /\ RefAssertHolds)` |
| `SentInOrder` | `LogTargetSafety` | `Flushers = {}` gives `Spec => []InOrder` |
| `EntriesConserved` | `IntakeProofs` | `Spec => []EntryConservation` |
| `RefusedByExtras` | `IntakeProofs` | `Spec => []RefusedOnlyByExtras` |
| `WakeupsNotLost` | `IntakeProofs` | `Spec => []NoLostWakeup` |
| `ProducersInOrder` | `IntakeProofs` | `Spec => []ProducerOrder` |
| `OneCopyPerPost` | `IntakeProofs` | `Spec => []OncePerPost` |
| `ListsStayWellFormed` | `FiltersProofs` | `Spec => []ListsWellFormed` |
| `CachesStayOwn` | `FiltersProofs` | `Spec => []CachedListsAreOwn` |
| `NothingMisrouted` | `FiltersProofs` | `Spec => []WrittenAsAdded` |
| `RoutedByRegistration` | `FiltersProofs` | `Spec => []RoutesAsRegistered` |
| `TargetsStayAlive` | `LifecycleProofs` | `Spec => []RoutedTargetsAlive` |
| `AnswersTrue` | `LifecycleProofs` | `Spec => []StartReported` |
| `OriginsKept` | `LifecycleProofs` | `Spec => []RedirectedAsOwn` |
| `FilesStayInOrder` | `FileTargetProofs` | `Spec => []FilesInOrder` |
| `QuietWhenClosed` | `FileTargetProofs` | `Spec => ClosedOnlyWhenQuiet` |
| `NothingReplaced` | `FileTargetRotation` | `Spec => []RenamesReplaceNothing` |
| `QuietStaysWithinLimit` | `FileTargetRotation` | `Build = "node"` and `MaxRotated > 1` give `Spec => []QuietWithinLimit` |
| `StopsPromptly` | `ClientSinkProofs` | `Spec => []StopIsPrompt` |
| `AcksMatchPings` | `ClientSinkProofs` | `Spec => []AckIsForThisPing` |

### Assumptions

Every module that declares constants names what it assumes of them
(`ConstantsAssumption`, `LifecycleAssumption`, `RedirectAssumption`,
`QueueCapAssumption`): they are numbers, sets and Booleans; there is at least one
bank, one entry, one slot in a filter list and one place in the socket; the logger
thread is none of the threads that flush; there is a meta; the threads that add
targets and those that flush a file are finitely many, which is what counting
them needs. TLC evaluates these in every run.

Three theorems say more in their statement:

- `Flushers = {}`: no user thread calls `GreaseLib_flush()`. With one, the
  assertion fails (run `LogTarget_flushAssert`), and of two threads that each carry
  a bank the later one may write first, so that neither conclusion holds.
- `Build = "node"`, `MaxRotated > 1`: the build rotates, and has a name for a
  rotated file. The library build does not rotate (`LibOpts`), so that it has no
  limit to keep.

What history variables such as `raced`, `failed` and `torn` exempt is part of the
properties and listed under `FileTarget` above.

### Arguments

**Banks.** `BankConservation` says that the eight places are disjoint, cover all
banks and hold none twice. It is not inductive alone: whether a thread that
runs `returnBuffer()` really has a bank depends on where the thread is. `IndInv`
adds that a thread carries a bank exactly inside `flush()` or `flushSync()`,
that `write()` has a message exactly until it is copied or dropped, and that
free banks are empty (which is what makes a rotated-in bank start at zero).
Each action moves at most one bank; `MoveBank` shows once that moving one bank
from one place to another keeps the conservation, `RotateKeeps` and
`ReturnBufferMoves` do it for `rotate()` and `returnBuffer()`, and `NextInv` has
one step per action of `Next`. `RecycleKeeps` carries the emptiness.

`QueuesNeverFill` follows by counting: a repetition-free queue that cannot hold
the current bank has at most `NumBanks - 1` entries, and one less when another
bank is free. So `availBuffers.add()`, which would wait, never waits, and the
branch of `rotate()` for a full `writeOutBuffers` is dead.

`BytesStayInBank` adds (`BytesInv`) that between measuring and copying the
current bank still has the room that was measured, since a user's flush in
between can only make it emptier, and that a bank without bytes has no message.
A message that did not fit passed the test against the bank size
(logger.h:3100), which leaves room for its header and footer; so the fresh bank it is
copied into without being measured is exceeded by the delimiter at most.

`BanksInFlightUntouched` is an action property. Each step writes to one bank at
most: the current one, the one a thread carries, the one whose write has just
finished, or the one the user gives back. By `BankConservation`, before or after
the step, that bank is not being written, not waiting for a callback and not with
the user (`NotInFlight`, `TouchedElsewhere`).

**Messages of a target.** `Carried` gives for every bank, for `write()`, for the
lost messages and for the output the set of messages there, and `MsgInv` says that
these sets are a `Partition` of the messages offered. Banks that are free or with
the user count as empty (`Idle`), because their bytes are only cleared later. A
step moves one message (`MessageCopied`), the content of a bank
(`BankEmptied`), drops one (`MessageLost`) or moves none (`AllStay`).
`MessagesAccounted` counts what the partition says.

**Flush timer.** `TimerInv`: the reference count is at least the number of banks
that are `Owed` a reference, those with unwritten bytes and the one `write()` is
about to copy into, and the timer runs while the count is positive. `isEmpty()`
adds the reference before the bytes are there; the second kind of bank is what
makes this inductive, and what a user's flush breaks.

**Order.** `LineInv` puts the banks in one line (`Ahead`: waiting for the callback,
being written, carried by the logger thread, waiting in `writeOutBuffers`,
current), along which the numbers
of messages increase and stay below the one that comes next; `SentInv` says that
what was sent precedes all of it.

**Intake.** `Control` says what a thread and the command loop carry at each place,
`Pools` that every entry is in one of four places, once, with the message it was
queued with. `RefusedByExtras` counts: commands with an entry are no more than the
pool has. `OrderInv` follows a message from its producer over the queue and the
loop to each target; `Before` relates two messages of one producer, and treats the
large ones, which queue a second time, as different rather than ordered. For
`OneCopyPerPost` a message that was sent round again carries the target that did
so: the commands in the queue and the loop are then different messages
(`CopiesOf`, `NewIsNoCopy`), although the code does not look at that target.

**Filters.** `FilterInv` says that the slots hold exactly what was registered, that
empty ones hold nothing, and that `add()`, between choosing a slot and having
stored the filter, holds the first empty one and an id that no other has. The walk
stops at the first empty slot; `LeastNumber`, from the library's theorem on
well-founded relations, shows that there is a first one. `CachedListsAreOwn` and
`WrittenAsAdded` are inductive on top of it: what a walk sees of a filter that is
being stored sends a message nowhere, to the default target or where that filter
was registered to send it (`HoldsAdded`); the target is read for the ignore list
before it is read to write.

**Lifecycle and Redirect.** `TargetInv`: an id is given to one target only, and the
tables have exactly the ready ones. Ids are given out before the object is made, so
that the invariant also counts the calls in between (`CountInv`).
`RedirectInv`: a descriptor is watched for the ticket of the stream it reads until
the callback has closed it, and a finished stream has no reader.

**File rotation.** `FilesStayInOrder` follows the numbers of writes through queue,
thread pool and files. `RenameInv` says where a rotation has its files: the lists
`rotatedFiles` and `tempFiles` are those of the disk, with one number missing
between those renamed and those not (`Numbers`), and at most one place off after
an interrupted rotation (`NearInv`). `SizeInv`: the bytes in the file and in the
queue are at most `current_size` (`Sum` is a sum over a finite set as a function
on its subsets, which avoids recursion), and `current_size` is beyond the limit
only while a write is still to be reported, whose report rotates.

**Client and sink.** `StopsPromptly` rests on `StopInv`: once a datagram was read
after `stop()`, the listener is at the test of its loop or has ended, so it reads
no other. `AcksMatchPings` rests on `AckInv`. An answer carries the path it was
sent to and the serial of its ping, and the waiting thread looks at the path only.
So the invariant says that path and serial agree in every queued datagram, every
answer and every open ping socket, that a thread has such a socket only while it
waits, and that no two threads share a path. `PingSendKeeps` needs that all paths
in use are at most `pings`; `ClosePingKeeps` needs that they differ. The second
`close()` of a ping whose `bind()` failed only takes answers and paths away.

### Only model-checked

- All liveness properties: fairness is out of the prover's reach.
- That `ClientSink` implements `LogChannel`: what waits in the socket is a fold over
  its queue, and what the sink reads from a datagram is computed by recursion over
  its cells. What these compute for every length needs induction over data.
- `EntriesAccounted`, `LinesIntact` and `LostOnlyBehindBadLine` of `KlogSink`, for
  the same reason: they depend on what the parsers compute for a text.

## Not modelled

- The wording and layout of messages (formats are lengths) and error strings.
- JSON escaping (`local_strdup.c`): a sequential loop over one string that only
  targets with `JSON_ESCAPE_STRINGS` use; `LogTarget` has none.
- Labels and generated ids: each call is one step under one mutex or in a
  thread-safe table, so that no interleaving is left to explore.
- The reference counts of `overflowWriteOut` and `singleLog`, which decide when
  memory of a large message is freed. Where such a message goes is in `Intake`.
- `PipeSink`, marked "NOT COMPLETE": it accepts connections and never reads.
- The socket and the file system below the calls the code makes; their failures
  are modelled as the failing of those calls.
- `grease_echo`, `standalone_test_logsink.cc`, `test-re.cc`, the Node.js binding,
  and the vendored dependencies other than through what the code relies on.
