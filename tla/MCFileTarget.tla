------------------------------ MODULE MCFileTarget ------------------------------
(***************************************************************************)
(* Small instances of FileTarget. A behaviour keeps to one scenario, which *)
(* leaves out some of what can happen.                                     *)
(***************************************************************************)
EXTENDS FileTarget

CONSTANT Scenarios

VARIABLE scenario

Settings(files, size, total, onStart) ==
  [max_files |-> files, max_file_size |-> size, max_total_size |-> total,
   rotate_on_start |-> onStart]

(* No limit on the number of files; a limit of one and of two; limits that   *)
(* were not set; a limit above the numbers that have a name.                 *)
SomeSettings ==
  {Settings(0, 1, 9, FALSE), Settings(1, 2, 0, FALSE), Settings(2, 2, 9, FALSE),
   Settings(2, 0, 9, TRUE), Settings(MaxRotated, 1, 9, FALSE)}

LoggerOnly == ~failed' /\ \A t \in Flushers : pc'[t] = "idle"

(* Users flush too and calls fail. *)
Users == made' <= 3 /\ opts.asked.max_files < MaxRotated

(* The logger thread alone, and only writes fail. *)
Alone == LoggerOnly /\ made' <= 4 /\ opts.asked.max_files < MaxRotated

(* Large messages one after the other, in one run of the process, with no    *)
(* limit on the number of files or too large a one: as many as rotatedFiles  *)
(* has places for, and one more.                                             *)
Full ==
  /\ LoggerOnly /\ starts' <= 1 /\ opts.asked.max_files \in {0, MaxRotated}
  /\ pc'[Logger] # "add" /\ ~closing'

MCInit == Init /\ scenario \in Scenarios
MCNext ==
  /\ Next
  /\ \/ scenario = "users" /\ Users
     \/ scenario = "alone" /\ Alone
     \/ scenario = "full" /\ Full
  /\ UNCHANGED scenario
MCSpec == MCInit /\ [][MCNext]_<<vars, scenario>>

=============================================================================
