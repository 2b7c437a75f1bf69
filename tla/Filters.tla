-------------------------------- MODULE Filters --------------------------------
(***************************************************************************)
(* Routing: the filter lists, the global level mask, sift() and the part   *)
(* of handleInternalCmd() that finds the targets of a message.             *)
(*                                                                         *)
(* A message comes with a logMeta: tag, origin, level and targets to       *)
(* ignore. The meta is often a static variable that all calls of a macro   *)
(* share, and sift() caches the filter lists it found in it. Callers sift  *)
(* and queue a copy of the meta; the logger thread sifts the copy again    *)
(* and walks the cached lists.                                             *)
(*                                                                         *)
(* A step is a stretch of code between two accesses to shared state. One   *)
(* thread, the administrator, adds and switches filters, targets and       *)
(* options. The logger walks the lists without the lock modifyFilters: of  *)
(* a filter that is being added it may see any part, and of the field it   *)
(* reads more than once, the target, the old value first and the new later.*)
(***************************************************************************)
EXTENDS Integers, Sequences, FiniteSets, Queues

CONSTANTS
  Levels,       \* levels, one bit each in the code
  LevelLog,     \* GREASE_LEVEL_LOG, the lowest bit
  Tags,         \* nonzero tags
  Origins,      \* nonzero origins
  TargetIds,    \* nonzero ids of added targets
  MaxIdentical, \* MAX_IDENTICAL_FILTERS: slots of a filter list
  Metas,        \* the logMeta variables of the callers
  Masks,        \* level masks the administrator uses
  Callers,      \* threads that log
  MaxFilters,   \* bound: filters added
  MaxMsgs       \* bound: messages logged

Default == 0
Hashes == (Origins \cup {0}) \X (Tags \cup {0})
Slots == 1 .. MaxIdentical
AllMetas == [tag : Tags \cup {0}, origin : Origins \cup {0}, level : Levels,
             ignore : SUBSET TargetIds]
NoMeta == [tag |-> 0, origin |-> 0, level |-> 0, ignore |-> {}]
Slot == [id : 0 .. MaxFilters, mask : SUBSET Levels, target : TargetIds \cup {Default},
         disabled : BOOLEAN]
NoFilter == [id |-> 0, mask |-> {}, target |-> Default, disabled |-> FALSE]

(* What the walk reads of a filter that is being stored. The target is read  *)
(* for the ignore list ("ignore"), and again to write the message.           *)
Fields == {"bloom", "id", "mask", "ignore", "target"}

NoAdd == [hash |-> <<0, 0>>, slot |-> 0, id |-> 0, mask |-> {}, target |-> Default]

ASSUME ConstantsAssumption ==
  /\ MaxIdentical \in Nat \ {0} /\ MaxFilters \in Nat /\ MaxMsgs \in Nat
  /\ LevelLog \in Levels
  /\ 0 \notin Tags \cup Origins \cup TargetIds
  /\ Metas # {} /\ Metas \subseteq AllMetas /\ Masks \subseteq SUBSET Levels

VARIABLES
  present,            \* hashes in filterHashTable
  list,               \* the slots of each FilterList
  bloom,              \* and its bloom mask
  adding,             \* the filter add() is storing, with modifyFilters locked
  nextFilterId,
  levelFilterOutMask,
  defaultFilterOut,
  newFilterOut,       \* setGlobalOpts(): <<the defaultFilterOut to set>>, or <<>>
  targets,            \* ids in the target table
  defaultTarget,      \* TRUE once the default target is ready
  cached, lists,      \* of each meta: _cached_hash is set; the _cached_lists
  pc, work,           \* per caller: where it is, the meta it logs with
  queue,              \* entries queued for the logger
  entry,              \* the entry the logger works on
  logger,             \* "take", "sift" or "route"
  sent,               \* history: messages logged
  added,              \* history: filters added
  off,                \* history: ids disabled, by a call or by the slot they were stored in
  overrun,            \* the walk of a list went past its last slot
  last                \* history: the last message routed, the <<filter, target>>s it went
                      \* to, the filter that was being stored

filters == <<present, list, bloom, adding, nextFilterId, added, off>>
options == <<levelFilterOutMask, defaultFilterOut, newFilterOut, targets, defaultTarget>>
caches == <<cached, lists>>
callers == <<pc, work, sent>>
loop == <<queue, entry, logger, overrun, last>>
vars == <<filters, options, caches, callers, loop>>

NoEntry == [meta |-> NoMeta, cached |-> FALSE, lists |-> {}]
Entry == [meta : Metas, cached : BOOLEAN, lists : SUBSET Hashes]

Init ==
  /\ present = {} /\ bloom = [h \in Hashes |-> {}]
  /\ list = [h \in Hashes |-> [n \in Slots |-> NoFilter]]
  /\ adding = NoAdd /\ nextFilterId = 1
  /\ levelFilterOutMask = {} /\ defaultFilterOut = FALSE /\ newFilterOut = <<>>
  /\ targets = {} /\ defaultTarget = FALSE
  /\ cached = [m \in Metas |-> FALSE] /\ lists = [m \in Metas |-> {}]
  /\ pc = [c \in Callers |-> "idle"] /\ work \in [Callers -> {CHOOSE m \in Metas : TRUE}]
  /\ queue = <<>> /\ entry = NoEntry /\ logger = "take"
  /\ sent = 0 /\ added = {} /\ off = {}
  /\ overrun = FALSE /\ last = [meta |-> NoMeta, by |-> {}, storing |-> 0]

-----------------------------------------------------------------------------
(* The administrator. *)

Unlocked == adding = NoAdd
AdminIdle == Unlocked /\ newFilterOut = <<>>

(* _addFilter(): finds or makes the list, and its first empty slot. *)
AddFilter(h, mask, target) ==
  LET empty == {n \in Slots : list[h][n].id = 0}
      n == CHOOSE i \in empty : \A j \in empty : i <= j
  IN /\ AdminIdle /\ nextFilterId <= MaxFilters
     /\ nextFilterId' = nextFilterId + 1
     /\ present' = present \cup {h}
     /\ IF empty = {} THEN UNCHANGED <<adding, added, off>>
        ELSE /\ adding' = [hash |-> h, slot |-> n, id |-> nextFilterId,
                           mask |-> mask, target |-> target]
             /\ added' = added \cup {[hash |-> h, id |-> nextFilterId,
                                      mask |-> mask, target |-> target]}
             /\ off' = IF list[h][n].disabled THEN off \cup {nextFilterId} ELSE off
     /\ UNCHANGED <<list, bloom, options, caches, callers, loop>>

(* A slot, the lists and the bloom masks once the given fields of the filter *)
(* being added are stored. Filter::operator= leaves the slot's _disabled.    *)
SlotWith(s, fields) ==
  [id |-> IF "id" \in fields THEN adding.id ELSE s.id,
   mask |-> IF "mask" \in fields THEN adding.mask ELSE s.mask,
   target |-> IF "target" \in fields THEN adding.target ELSE s.target,
   disabled |-> s.disabled]

ListWith(fields) ==
  IF adding = NoAdd THEN list
  ELSE [list EXCEPT ![adding.hash][adding.slot] = SlotWith(@, fields)]

(* Mutant: add() assigns the bloom mask instead of adding to it. *)
BloomAssigned(fields) ==
  IF adding # NoAdd /\ "bloom" \in fields
  THEN [bloom EXCEPT ![adding.hash] = adding.mask] ELSE bloom

BloomWith(fields) ==
  IF adding # NoAdd /\ "bloom" \in fields
  THEN [bloom EXCEPT ![adding.hash] = @ \cup adding.mask] ELSE bloom

(* FilterList::add() stores the filter, and modifyFilters is unlocked. *)
AddDone ==
  /\ adding # NoAdd
  /\ list' = ListWith(Fields) /\ bloom' = BloomWith(Fields)
  /\ adding' = NoAdd
  /\ UNCHANGED <<present, nextFilterId, added, off, options, caches, callers, loop>>

(* GreaseLib_disableFilter(), GreaseLib_enableFilter(): FilterList::find()   *)
(* looks at all slots, the empty ones too.                                   *)
SwitchFilter(h, id, v) ==
  LET found == {n \in Slots : list[h][n].id = id}
      n == CHOOSE i \in found : \A j \in found : i <= j
  IN /\ AdminIdle /\ h \in present /\ found # {}
     /\ list' = [list EXCEPT ![h][n].disabled = v]
     /\ off' = IF id = 0 THEN off ELSE IF v THEN off \cup {id} ELSE off \ {id}
     /\ UNCHANGED <<present, bloom, adding, nextFilterId, added, options, caches, callers,
                    loop>>

(* maskOutByLevel() *)
MaskOut(mask) ==
  /\ AdminIdle
  /\ levelFilterOutMask' = levelFilterOutMask \cup mask
  /\ UNCHANGED <<filters, defaultFilterOut, newFilterOut, targets, defaultTarget, caches,
                 callers, loop>>

(* unmaskOutByLevel(): !val | levelFilterOutMask, where !val is 1 for a val  *)
(* of 0 and 0 for any other.                                                 *)
UnmaskOut(mask) ==
  /\ AdminIdle
  /\ levelFilterOutMask' = levelFilterOutMask \cup (IF mask = {} THEN {LevelLog} ELSE {})
  /\ UNCHANGED <<filters, defaultFilterOut, newFilterOut, targets, defaultTarget, caches,
                 callers, loop>>

(* setGlobalOpts(): the level mask without the lock, then the default with.  *)
SetGlobalOpts(mask, out) ==
  /\ AdminIdle
  /\ levelFilterOutMask' = mask /\ newFilterOut' = <<out>>
  /\ UNCHANGED <<filters, defaultFilterOut, targets, defaultTarget, caches, callers, loop>>

SetDefaultFilterOut ==
  /\ newFilterOut # <<>>
  /\ defaultFilterOut' = newFilterOut[1] /\ newFilterOut' = <<>>
  /\ UNCHANGED <<filters, levelFilterOutMask, targets, defaultTarget,
                 caches, callers, loop>>

(* targetReady() *)
TargetReady(t) ==
  /\ AdminIdle
  /\ IF t = Default THEN defaultTarget' = TRUE /\ UNCHANGED targets
     ELSE targets' = targets \cup {t} /\ UNCHANGED defaultTarget
  /\ UNCHANGED <<filters, levelFilterOutMask, defaultFilterOut, newFilterOut, caches, callers,
                 loop>>

-----------------------------------------------------------------------------
(* sift() *)

(* getHashes(): tag and origin, origin alone, tag alone; and the list for    *)
(* all messages.                                                             *)
HashesOf(m) == <<<<m.origin, m.tag>>, <<m.origin, 0>>, <<0, m.tag>>, <<0, 0>>>>

(* Mutant: the result of the table's find() is not looked at. *)
ChosenUnchecked(m) == {HashesOf(m)[1]}

(* The first of them in the table is the only one looked at. *)
Chosen(m) ==
  LET hits == {i \in 1 .. 4 : HashesOf(m)[i] \in present}
  IN IF hits = {} THEN {} ELSE {HashesOf(m)[CHOOSE i \in hits : \A j \in hits : i <= j]}

(* What remains of sift() once the lists were looked up. *)
Passes(found) == found # {} \/ ~defaultFilterOut

-----------------------------------------------------------------------------
(* Callers: logP() on a shared meta. *)

(* The level mask is read under modifyFilters. *)
LogP(c, m) ==
  /\ pc[c] = "idle" /\ Unlocked /\ sent < MaxMsgs
  /\ sent' = sent + 1
  /\ IF m.level \in levelFilterOutMask THEN UNCHANGED <<pc, work>>
     ELSE pc' = [pc EXCEPT ![c] = "check"] /\ work' = [work EXCEPT ![c] = m]
  /\ UNCHANGED <<filters, options, caches, loop>>

(* META_HAS_CACHE() *)
CheckCache(c) ==
  /\ pc[c] = "check"
  /\ pc' = [pc EXCEPT ![c] = IF cached[work[c]] THEN "copy" ELSE "hash"]
  /\ UNCHANGED <<filters, options, caches, work, sent, loop>>

(* getHashes(), outside the lock: from here on others see a cache. *)
SetHashes(c) ==
  /\ pc[c] = "hash"
  /\ cached' = [cached EXCEPT ![work[c]] = TRUE]
  /\ pc' = [pc EXCEPT ![c] = "find"]
  /\ UNCHANGED <<filters, options, lists, work, sent, loop>>

(* The lookup, under modifyFilters. *)
FindLists(c) ==
  LET m == work[c]
  IN /\ pc[c] = "find" /\ Unlocked
     /\ lists' = [lists EXCEPT ![m] = @ \cup Chosen(m)]
     /\ pc' = [pc EXCEPT ![c] = IF Passes(Chosen(m)) THEN "copy" ELSE "idle"]
     /\ UNCHANGED <<filters, options, cached, work, sent, loop>>

(* _log(): the entry gets a copy of the meta and is queued. *)
CopyMeta(c) ==
  LET m == work[c]
  IN /\ pc[c] = "copy"
     /\ queue' = Append(queue, [meta |-> m, cached |-> cached[m], lists |-> lists[m]])
     /\ pc' = [pc EXCEPT ![c] = "idle"]
     /\ UNCHANGED <<filters, options, caches, work, sent, entry, logger, overrun, last>>

(* _submitBuffer(): readers fill a fresh meta and do not sift. *)
SubmitUnsifted(m) ==
  /\ sent < MaxMsgs
  /\ sent' = sent + 1
  /\ queue' = Append(queue, [meta |-> m, cached |-> FALSE, lists |-> {}])
  /\ UNCHANGED <<filters, options, caches, pc, work, entry, logger, overrun, last>>

-----------------------------------------------------------------------------
(* The logger thread. *)

TakeEntry ==
  /\ logger = "take" /\ queue # <<>>
  /\ entry' = Head(queue) /\ queue' = Tail(queue) /\ logger' = "sift"
  /\ UNCHANGED <<filters, options, caches, callers, overrun, last>>

(* sift() on the entry's copy of the meta. *)
SiftEntry ==
  LET found == Chosen(entry.meta)
      pass == /\ entry.meta.level \notin levelFilterOutMask
              /\ entry.cached \/ Passes(found)
  IN /\ logger = "sift" /\ Unlocked
     /\ logger' = IF pass THEN "route" ELSE "take"
     /\ entry' = IF ~pass THEN NoEntry
                 ELSE IF entry.cached THEN entry
                 ELSE [entry EXCEPT !.cached = TRUE, !.lists = @ \cup found]
     /\ UNCHANGED <<filters, options, caches, callers, queue, overrun, last>>

(* Mutant: the walk ends at a disabled filter. *)
WalkedEnabled(l) == {n \in Slots : \A i \in 1 .. n : l[i].id # 0 /\ ~l[i].disabled}

(* The slots the walk of a list looks at: up to the first empty one. *)
Walked(l) == {n \in Slots : \A i \in 1 .. n : l[i].id # 0}

(* Mutant: the bloom mask alone decides. *)
MatchingBloom(l, b, m) ==
  IF m.level \notin b THEN {} ELSE {n \in Walked(l) : ~l[n].disabled}

(* The filters of a list that match meta m, and those of them that write it. *)
Matching(l, b, m) ==
  IF m.level \notin b THEN {}
  ELSE {n \in Walked(l) : m.level \in l[n].mask /\ ~l[n].disabled}

(* i is the list as the test of the ignore list reads it. *)
Writing(l, i, b, m) ==
  {n \in Matching(l, b, m) :
     l[n].target = Default \/ (l[n].target \in targets /\ i[n].target \notin m.ignore)}

(* Which filter writes the message to which target; the default filter, with *)
(* id 0, when none did.                                                      *)
Written(ls, is, bs, hs, m) ==
  LET from(h) == {<<ls[h][n].id, ls[h][n].target>> : n \in Writing(ls[h], is[h], bs[h], m)}
      by == UNION {from(h) : h \in hs}
  IN IF by = {} THEN {<<0, Default>>} ELSE by

(* Writes to a default target that is not ready go nowhere. *)
Reaching(by) == {w \in by : w[2] # Default \/ defaultTarget}

(* The walk holds no lock: it sees any of the fields that are being stored.  *)
(* The test of the ignore list may miss a target that is there when it is    *)
(* read again to write; once read, the new target does not go away.          *)
Route(seen) ==
  LET ls == ListWith(seen)
      is == ListWith(IF "ignore" \in seen THEN seen ELSE seen \ {"target"})
      bs == BloomWith(seen)
  IN /\ logger = "route"
     /\ Unlocked => seen = {}
     /\ "ignore" \in seen => "target" \in seen
     /\ last' = [meta |-> entry.meta, storing |-> adding.id,
                 by |-> Reaching(Written(ls, is, bs, entry.lists, entry.meta))]
     /\ overrun' = \E h \in entry.lists : entry.meta.level \in bs[h] /\ Walked(ls[h]) = Slots
     /\ logger' = "take" /\ entry' = NoEntry
     /\ UNCHANGED <<filters, options, caches, callers, queue>>

-----------------------------------------------------------------------------
Admin ==
  \/ \E h \in Hashes, mask \in Masks, t \in TargetIds \cup {Default} : AddFilter(h, mask, t)
  \/ AddDone
  \/ \E f \in added, v \in BOOLEAN : SwitchFilter(f.hash, f.id, v)
  \/ \E h \in Hashes, v \in BOOLEAN : SwitchFilter(h, 0, v)
  \/ \E mask \in Masks : MaskOut(mask) \/ UnmaskOut(mask)
  \/ \E mask \in Masks, out \in BOOLEAN : SetGlobalOpts(mask, out)
  \/ SetDefaultFilterOut
  \/ \E t \in TargetIds \cup {Default} : TargetReady(t)

Caller(c) ==
  (\E m \in Metas : LogP(c, m)) \/ CheckCache(c) \/ SetHashes(c) \/ FindLists(c) \/ CopyMeta(c)

Logger == TakeEntry \/ SiftEntry \/ \E seen \in SUBSET Fields : Route(seen)

Next ==
  /\ ~overrun
  /\ \/ Admin
     \/ \E c \in Callers : Caller(c)
     \/ \E m \in Metas : SubmitUnsifted(m)
     \/ Logger

Spec == Init /\ [][Next]_vars

-----------------------------------------------------------------------------
(* Properties. *)

TypeOK ==
  /\ present \subseteq Hashes /\ bloom \in [Hashes -> SUBSET Levels]
  /\ list \in [Hashes -> [Slots -> Slot]] /\ nextFilterId \in 1 .. MaxFilters + 1
  /\ levelFilterOutMask \subseteq Levels
  /\ defaultFilterOut \in BOOLEAN /\ newFilterOut \in {<<>>, <<TRUE>>, <<FALSE>>}
  /\ targets \subseteq TargetIds /\ defaultTarget \in BOOLEAN
  /\ cached \in [Metas -> BOOLEAN] /\ lists \in [Metas -> SUBSET Hashes]
  /\ pc \in [Callers -> {"idle", "check", "hash", "find", "copy"}]
  /\ work \in [Callers -> Metas]
  /\ queue \in Seq(Entry) /\ entry \in Entry \cup {NoEntry}
  /\ logger \in {"take", "sift", "route"}
  /\ logger # "take" => entry \in Entry
  /\ sent \in 0 .. MaxMsgs /\ overrun \in BOOLEAN
  /\ last.by \subseteq (0 .. MaxFilters) \X (TargetIds \cup {Default})

Own(m) == {HashesOf(m)[i] : i \in 1 .. 4}

(* Whatever callers, the administrator and the logger interleave, the lists  *)
(* cached in a shared meta or in a queued copy exist and belong to the       *)
(* meta's own tag and origin: a stale cache never sends a message through a  *)
(* filter for other tags or origins.                                         *)
CachedListsAreOwn ==
  /\ \A m \in Metas : lists[m] \subseteq Own(m) \cap present
  /\ \A i \in 1 .. Len(queue) : queue[i].lists \subseteq Own(queue[i].meta) \cap present
  /\ logger # "take" => entry.lists \subseteq Own(entry.meta) \cap present

(* The invariant of FilterList: the filters fill the slots from the front,   *)
(* no id is given twice, and the bloom mask covers every filter, so that     *)
(* valid() never hides one that matches.                                     *)
ListsWellFormed ==
  /\ TypeOK
  /\ \A h \in Hashes : \A n \in Slots :
       /\ list[h][n].id # 0 => /\ n \in Walked(list[h]) /\ h \in present
                               /\ list[h][n].mask \subseteq bloom[h]
       /\ list[h][n].id < nextFilterId
  /\ \A g, h \in Hashes : \A i, j \in Slots :
       list[g][i].id = list[h][j].id /\ list[g][i].id # 0 => g = h /\ i = j

Registered(h) == {f \in added : f.hash = h}

(* The lists that come before all others for a message: of its tag and       *)
(* origin; of one of the two; of all messages. Which of the two, when both   *)
(* have filters, is left open: the code takes the origin's, its comments at  *)
(* logger.cc:92 and 96 say the tag's.                                        *)
Ranks(m) == <<{<<m.origin, m.tag>>}, {<<m.origin, 0>>, <<0, m.tag>>}, {<<0, 0>>}>>
Preferred(m) ==
  LET some(r) == {h \in Ranks(m)[r] : Registered(h) # {}}
      ranks == {r \in 1 .. 3 : some(r) # {}}
  IN IF ranks = {} THEN {} ELSE some(CHOOSE r \in ranks : \A q \in ranks : r <= q)

(* What message m is written by if the filters of h are the ones that count. *)
ExpectedFrom(h, m) ==
  LET by == {f \in Registered(h) : /\ m.level \in f.mask /\ f.id \notin off
                                   /\ f.target = Default \/ f.target \in targets \ m.ignore}
  IN IF by = {} THEN {<<0, Default>>} ELSE {<<f.id, f.target>> : f \in by}

Full(h) == Cardinality(Registered(h)) >= MaxIdentical

(* The lists, their bloom masks, the walk that stops at the first empty slot *)
(* and the search for a filter to switch, taken together, route a message    *)
(* not yet sifted as the filters that were added and switched say: by those  *)
(* of one preferred list, or by the default filter if there is none. A call  *)
(* that disables a filter that was never added (its id is 0) has one effect: *)
(* the next filter stored in that list is off until it is enabled. And the   *)
(* walk only runs past the end of a list whose slots were all given out;     *)
(* what it does there is not said.                                           *)
RoutesAsRegistered ==
  /\ Unlocked =>
       \A m \in Metas :
         LET by == Written(list, list, bloom, Chosen(m), m)
         IN IF Preferred(m) = {} THEN by = {<<0, Default>>}
            ELSE \E h \in Preferred(m) : by = ExpectedFrom(h, m)
  /\ overrun => \E h \in Own(last.meta) : Full(h)

(* However the stores of a filter being added show to the logger's walk, a   *)
(* message only goes where a filter for its own tag and origin and its level *)
(* sends it, or to the default target. It goes to a target it ignores only   *)
(* by a filter that was being stored during the walk: the target is not yet  *)
(* there when the ignore list is tested (logger.cc:220), and there when the  *)
(* message is written (logger.cc:233).                                       *)
WrittenAsAdded ==
  \A w \in last.by :
    \/ w[2] = Default
    \/ /\ w[2] \in last.meta.ignore => w[1] = last.storing
       /\ \E f \in added : /\ f.id = w[1] /\ f.target = w[2] /\ f.hash \in Own(last.meta)
                          /\ last.meta.level \in f.mask

(* "if neither, then do we output by default?": with defaultFilterOut set, a *)
(* caller does not queue a message no filter list is for.                    *)
FilterOutHolds ==
  [][\A c \in Callers :
       pc[c] # "copy" /\ pc'[c] = "copy" /\ Chosen(work[c]) = {} => ~defaultFilterOut]_vars

=============================================================================
