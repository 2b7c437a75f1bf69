------------------------------- MODULE MCFilters -------------------------------
(***************************************************************************)
(* Small instances of Filters. All that the administrator, the callers and *)
(* the logger can do at once has too many states; a scenario leaves some   *)
(* of it out, and a behaviour keeps to one scenario.                       *)
(***************************************************************************)
EXTENDS Filters, TLC

CONSTANT Scenarios

VARIABLE scenario

Meta(tag, origin, level, ignore) ==
  [tag |-> tag, origin |-> origin, level |-> level, ignore |-> ignore]

(* A static meta with tag and origin, and one that ignores target 1. *)
Static == Meta(1, 1, 1, {})
TwoMetas == {Static, Meta(1, 0, 2, {1})}
TwoMasks == {{1}, {2}}
CallerSymmetry == Permutations(Callers)

OnlyStatic ==
  /\ \A c \in Callers : pc'[c] # "idle" => work'[c] = Static
  /\ \A i \in DOMAIN queue' : queue'[i].meta = Static

(* Callers race for the cache of one meta while two filters are added and    *)
(* the options change.                                                       *)
Race ==
  /\ nextFilterId' <= 3 /\ OnlyStatic
  /\ adding'.mask \in {{}, {1}} /\ adding'.target = Default /\ levelFilterOutMask' \subseteq {1}
  /\ \A h \in Hashes, n \in Slots : ~list'[h][n].disabled
  /\ UNCHANGED <<targets, defaultTarget>>

(* The logger walks a list for one message while a filter is stored in it,   *)
(* maybe in a slot that was disabled. The message may ignore the target.     *)
Torn ==
  /\ nextFilterId' <= 3 /\ sent' <= 1 /\ adding'.hash[1] = 0
  /\ off \subseteq off'
  /\ UNCHANGED <<levelFilterOutMask, newFilterOut, defaultFilterOut>>

(* The administrator alone: three filters on one or two lists of two slots. *)
Lists ==
  /\ sent' = 0
  /\ nextFilterId = 3 => UNCHANGED present
  /\ UNCHANGED <<levelFilterOutMask, newFilterOut, defaultFilterOut, defaultTarget>>

MCInit == Init /\ scenario \in Scenarios
MCNext ==
  /\ Next
  /\ \/ scenario = "race" /\ Race
     \/ scenario = "torn" /\ Torn
     \/ scenario = "lists" /\ Lists
  /\ UNCHANGED scenario
MCSpec == MCInit /\ [][MCNext]_<<vars, scenario>>

=============================================================================
