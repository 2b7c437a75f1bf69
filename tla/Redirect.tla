------------------------------- MODULE Redirect -------------------------------
(***************************************************************************)
(* The descriptors of other processes' stdout and stderr that the library  *)
(* reads: addFDForStdout(), addFDForStderr() and their removal, on threads *)
(* of the user, and the poll callback on the library thread.  A descriptor *)
(* is the reading end of a pipe; its number is free again once it is       *)
(* closed, and the next pipe may get it.  Each stream has its own origin.  *)
(***************************************************************************)
EXTENDS Integers, Sequences

CONSTANTS Fds,           \* descriptor numbers
          MaxStreams,    \* bound: pipes
          MaxChunks,     \* bound: writes into one pipe
          MaxTickets     \* bound: calls of addFDForStdout() and addFDForStderr()

ASSUME RedirectAssumption ==
    MaxStreams \in Nat /\ MaxChunks \in Nat /\ MaxTickets \in Nat

VARIABLES pipe,          \* pipe[fd]: the stream that fd reads from
          streams,       \* the pipes so far: chunks written, chunks unread, end closed
          tickets,       \* the fdRedirectorTickets made so far, deleted ones too
          table,         \* stdoutRedirectTable and stderrRedirectTable
          watchers,      \* loop->watchers of libLoop
          callback,      \* the poll callback: its ticket, and where it is
          redirected,    \* what was submitted: origin it was given, stream it is of
          reported,      \* origins whose closed callback was called
          raced,         \* a call changed the descriptor of a callback that was running
          crashed        \* the process met a bad pointer or a failed assertion

redirectVars == <<pipe, streams, tickets, table, watchers, callback, redirected, reported, raced>>

None == 0
RedirectKinds == {"stdout", "stderr"}
NoCallback == [ticket |-> None, at |-> "none"]

InitRedirect ==
    /\ pipe = [fd \in Fds |-> None] /\ streams = <<>>
    /\ tickets = <<>> /\ table = [k \in RedirectKinds |-> [fd \in Fds |-> None]]
    /\ watchers = [fd \in Fds |-> None] /\ callback = NoCallback
    /\ redirected = {} /\ reported = <<>> /\ raced = FALSE /\ crashed = FALSE

(***************************************************************************)
(* The other processes.                                                    *)
(***************************************************************************)
OpenPipe(fd) ==
    /\ pipe[fd] = None /\ Len(streams) < MaxStreams
    /\ streams' = Append(streams, [written |-> 0, unread |-> 0, ended |-> FALSE])
    /\ pipe' = [pipe EXCEPT ![fd] = Len(streams) + 1]
    /\ UNCHANGED <<tickets, table, watchers, callback, redirected, reported, raced, crashed>>

WritePipe(s) ==
    /\ ~streams[s].ended
    /\ \/ /\ streams[s].written < MaxChunks
          /\ streams' = [streams EXCEPT ![s] = [written |-> @.written + 1,
                                                unread |-> @.unread + 1, ended |-> FALSE]]
       \/ streams' = [streams EXCEPT ![s].ended = TRUE]
    /\ UNCHANGED <<pipe, tickets, table, watchers, callback, redirected, reported, raced, crashed>>

(***************************************************************************)
(* Tickets.                                                                *)
(***************************************************************************)
Ticket(fd) ==
    [fd |-> fd, origin |-> pipe[fd], closed |-> FALSE, polling |-> TRUE, alive |-> TRUE]

\* uv_poll_stop() asserts that the loop watches the descriptor for this handle, if
\* it watches it at all.
StopAborts(t) == t # None /\ watchers[tickets[t].fd] \notin {None, t}
Unwatched(t) ==
    IF t = None THEN watchers
    ELSE [watchers EXCEPT ![tickets[t].fd] = IF @ = t THEN None ELSE @]
Deleted(t) ==
    IF t = None THEN tickets ELSE [tickets EXCEPT ![t].polling = FALSE, ![t].alive = FALSE]

\* The callback that runs is one of this descriptor's, or of this very ticket.
Busy(fd, t) ==
    callback.ticket # None /\ (callback.ticket = t \/ tickets[callback.ticket].fd = fd)

\* A ticket is deleted without uv_close(): the loop's list of handles still ends in
\* it when the next handle is linked to it.
ListEndsInFreed == tickets # <<>> /\ ~tickets[Len(tickets)].alive

Dies(aborts, undefined) ==
    crashed' \in CASE aborts -> {TRUE} [] ~aborts /\ undefined -> BOOLEAN [] OTHER -> {FALSE}

\* The old ticket of the descriptor is deleted before the new one is polled.
AddFD(kind, fd) ==
    LET old == table[kind][fd]
        new == Len(tickets) + 1
    IN /\ pipe[fd] # None /\ Len(tickets) < MaxTickets
       /\ tickets' = Append(Deleted(old), Ticket(fd))
       /\ table' = [table EXCEPT ![kind][fd] = new]
       /\ watchers' = [Unwatched(old) EXCEPT ![fd] = new]
       /\ raced' = (raced \/ Busy(fd, old))
       /\ Dies(StopAborts(old) \/ Unwatched(old)[fd] # None,
               ListEndsInFreed \/ (old # None /\ callback.ticket = old))
       /\ UNCHANGED <<pipe, streams, callback, redirected, reported>>

\* The handle cannot be initialised, and the destructor stops it all the same.
AddFDFails(fd) ==
    /\ pipe[fd] # None
    /\ Dies(FALSE, TRUE)
    /\ UNCHANGED redirectVars

\* Mutant: the ticket only leaves the table.
RemoveFDStillPolled(kind, fd) ==
    LET old == table[kind][fd]
    IN /\ old # None
       /\ pipe' = IF tickets[old].closed THEN pipe ELSE [pipe EXCEPT ![fd] = None]
       /\ table' = [table EXCEPT ![kind][fd] = None]
       /\ crashed' = FALSE
       /\ UNCHANGED <<streams, tickets, watchers, callback, redirected, reported, raced>>

\* A descriptor that is closed already is not closed again.
RemoveFD(kind, fd) ==
    LET old == table[kind][fd]
    IN /\ old # None
       /\ pipe' = IF tickets[old].closed THEN pipe ELSE [pipe EXCEPT ![fd] = None]
       /\ tickets' = Deleted(old)
       /\ table' = [table EXCEPT ![kind][fd] = None]
       /\ watchers' = Unwatched(old)
       /\ raced' = (raced \/ Busy(fd, old))
       /\ Dies(StopAborts(old), callback.ticket = old)
       /\ UNCHANGED <<streams, callback, redirected, reported>>

(***************************************************************************)
(* The poll callback.                                                      *)
(***************************************************************************)
Poll(fd) ==
    /\ callback = NoCallback /\ watchers[fd] # None /\ pipe[fd] # None
    /\ streams[pipe[fd]].unread > 0 \/ streams[pipe[fd]].ended
    /\ callback' = [ticket |-> watchers[fd], at |-> "read"]
    /\ UNCHANGED <<pipe, streams, tickets, table, watchers, redirected, reported, raced, crashed>>

Stream == pipe[tickets[callback.ticket].fd]

\* A chunk is read into an entry and submitted, and the loop goes on.
ReadChunk ==
    /\ callback.at = "read" /\ Stream # None /\ streams[Stream].unread > 0
    /\ streams' = [streams EXCEPT ![Stream].unread = @ - 1]
    /\ redirected' = redirected \cup {[origin |-> tickets[callback.ticket].origin, stream |-> Stream]}
    /\ UNCHANGED <<pipe, tickets, table, watchers, callback, reported, raced>>

\* No entry to read into, nothing to read for now, or not a descriptor.
ReadNoMore ==
    /\ callback.at = "read"
    /\ callback' = NoCallback
    /\ UNCHANGED <<pipe, streams, tickets, table, watchers, redirected, reported, raced, crashed>>

\* The end of the stream: the descriptor is closed, ...
ReadEnd ==
    /\ callback.at = "read" /\ Stream # None
    /\ streams[Stream].unread = 0 /\ streams[Stream].ended
    /\ LET t == callback.ticket IN
         /\ pipe' = IF tickets[t].closed THEN pipe ELSE [pipe EXCEPT ![tickets[t].fd] = None]
         /\ tickets' = [tickets EXCEPT ![t].closed = TRUE]
    /\ callback' = [callback EXCEPT !.at = "stop"]
    /\ UNCHANGED <<streams, table, watchers, redirected, reported, raced, crashed>>

\* ... the handle stopped, and the user told.
StopAndTell ==
    /\ callback.at = "stop"
    /\ LET t == callback.ticket IN
         /\ tickets' = [tickets EXCEPT ![t].polling = FALSE]
         /\ watchers' = Unwatched(t)
         /\ reported' = Append(reported, tickets[t].origin)
         /\ Dies(StopAborts(t), FALSE)
    /\ callback' = NoCallback
    /\ UNCHANGED <<pipe, streams, table, redirected, raced>>

(***************************************************************************)
(* Unless a descriptor is added or removed while its callback runs, what   *)
(* is read from a stream is logged under the origin it was added with,     *)
(* though numbers of descriptors are used again; and closed is reported    *)
(* once for a stream, after all of it was read.                            *)
(***************************************************************************)
RedirectedAsOwn ==
    ~raced /\ ~crashed =>
        /\ \A r \in redirected : r.origin = r.stream
        /\ \A i, j \in DOMAIN reported : reported[i] = reported[j] => i = j
        /\ \A i \in DOMAIN reported :
              LET s == streams[reported[i]] IN s.ended /\ s.unread = 0
=============================================================================
