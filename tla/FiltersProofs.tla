---------------------------- MODULE FiltersProofs ----------------------------
(***************************************************************************)
(* Proofs about Filters, for lists of any length and any number of tags,   *)
(* origins, levels, targets, callers, filters and messages.                *)
(***************************************************************************)
EXTENDS Filters, FiniteSetTheorems, TLAPS

-----------------------------------------------------------------------------
(* The inductive invariant. *)

Records == [hash : Hashes, id : 1 .. MaxFilters, mask : SUBSET Levels,
            target : TargetIds \cup {Default}]

(* What was registered as the filter in a slot, and as the one being added. *)
Stored(h, n) ==
  [hash |-> h, id |-> list[h][n].id, mask |-> list[h][n].mask, target |-> list[h][n].target]
Pending ==
  [hash |-> adding.hash, id |-> adding.id, mask |-> adding.mask, target |-> adding.target]

(* add() has found the first empty slot and given out an id; until it is done *)
(* nobody else gets modifyFilters.                                            *)
AddingInv ==
  adding # NoAdd =>
    /\ adding \in [hash : Hashes, slot : Slots, id : 1 .. MaxFilters, mask : SUBSET Levels,
                   target : TargetIds \cup {Default}]
    /\ adding.hash \in present /\ adding.id < nextFilterId
    /\ adding.id \in off <=> list[adding.hash][adding.slot].disabled
    /\ Pending \in added
    /\ list[adding.hash][adding.slot].id = 0
    /\ \A i \in Slots : i < adding.slot => list[adding.hash][i].id # 0
    /\ \A h \in Hashes : \A i \in Slots : list[h][i].id # adding.id

(* The slots hold what was added, and the empty ones nothing. *)
StoredInv ==
  /\ added \subseteq Records /\ IsFiniteSet(added) /\ off \subseteq 1 .. MaxFilters
  /\ \A i \in off : i < nextFilterId
  /\ \A f \in added : f.hash \in present
  /\ \A h \in present : \E f \in added : f.hash = h
  /\ \A h \in Hashes : \A n \in Slots :
       IF list[h][n].id = 0 THEN list[h][n].mask = {} /\ list[h][n].target = Default
       ELSE Stored(h, n) \in added
  /\ \A f \in added : \/ adding # NoAdd /\ f = Pending
                      \/ \E n \in Slots : f = Stored(f.hash, n)

(* A filter is disabled if it was switched off, or was stored in such a slot. *)
DisabledInv ==
  \A h \in Hashes : \A n \in Slots :
    list[h][n].id # 0 => (list[h][n].disabled <=> list[h][n].id \in off)

(* ListsWellFormed, but for the types of the other variables. *)
FilterTypes ==
  /\ present \subseteq Hashes /\ bloom \in [Hashes -> SUBSET Levels]
  /\ list \in [Hashes -> [Slots -> Slot]] /\ nextFilterId \in 1 .. MaxFilters + 1
ShapeInv ==
  /\ \A h \in Hashes : \A n \in Slots :
       /\ list[h][n].id # 0 => /\ n \in Walked(list[h]) /\ h \in present
                               /\ list[h][n].mask \subseteq bloom[h]
       /\ list[h][n].id < nextFilterId
  /\ \A g, h \in Hashes : \A i, j \in Slots :
       list[g][i].id = list[h][j].id /\ list[g][i].id # 0 => g = h /\ i = j

FilterInv == FilterTypes /\ ShapeInv /\ AddingInv /\ StoredInv /\ DisabledInv

-----------------------------------------------------------------------------
(* The filter lists. *)

(* The first of some places of a list. *)
LEMMA LeastNumber ==
  ASSUME NEW S \in SUBSET Nat, S # {}
  PROVE  \E i \in S : \A j \in S : i <= j
<1> DEFINE R == OpToRel(<, Nat)
<1>1. IsWellFoundedOn(R, Nat)
  BY NatLessThanWellFounded, Zenon
<1>2. \A i, j \in Nat : <<j, i>> \in R <=> j < i
  BY Zenon DEF OpToRel
<1> HIDE DEF R
<1>3. \E i \in S : \A j \in S : ~(<<j, i>> \in R)
  BY <1>1, WFMin, Zenon
<1>4. PICK i \in S : \A j \in S : ~(<<j, i>> \in R)
  BY <1>3, Zenon
<1>5. \A j \in S : i \in Nat /\ j \in Nat /\ ~(j < i)
  BY <1>2, <1>4, Zenon
<1>6. \A j \in S : i <= j
  BY <1>5
<1> QED BY <1>6, Zenon

(* Slots are counted from 1. *)
LEMMA SlotNumbers == Slots \subseteq Nat /\ 1 \in Slots /\ 0 \notin Slots
BY ConstantsAssumption DEF Slots

(* The search for a slot ends at the first that will do. *)
LEMMA FirstSlot ==
  ASSUME NEW S \in SUBSET Slots, S # {}
  PROVE  LET n == CHOOSE i \in S : \A j \in S : i <= j
         IN n \in S /\ \A j \in S : n <= j
<1>1. S \in SUBSET Nat
  BY SlotNumbers, Zenon
<1>2. \E i \in S : \A j \in S : i <= j
  BY <1>1, LeastNumber, Zenon
<1> QED BY <1>2, Zenon

(* A slot of a FilterList is a Filter. *)
LEMMA SlotFields ==
  ASSUME FilterTypes, NEW h \in Hashes, NEW n \in Slots
  PROVE  /\ list[h][n] \in Slot
         /\ list[h][n].id \in 0 .. MaxFilters /\ list[h][n].mask \subseteq Levels
         /\ list[h][n].target \in TargetIds \cup {Default}
         /\ list[h][n].disabled \in BOOLEAN
<1>1. list[h][n] \in Slot
  BY Zenon DEF FilterTypes
<1> QED BY <1>1, Zenon DEF Slot

(* The filter tables are empty at first. *)
LEMMA FilterInit == Init => FilterInv
<1> SUFFICES ASSUME Init PROVE FilterInv
  BY Zenon
<1> USE ConstantsAssumption
<1>1. NoFilter \in Slot
  BY DEF NoFilter, Slot
<1>2. FilterTypes
  BY <1>1 DEF Init, FilterTypes
<1>3. \A h \in Hashes : \A n \in Slots :
        list[h][n].id = 0 /\ list[h][n].mask = {} /\ list[h][n].target = Default
        /\ list[h][n].disabled = FALSE
  BY Zenon DEF Init, NoFilter
<1>4. ShapeInv
  BY <1>3 DEF Init, ShapeInv
<1>5. StoredInv
  BY <1>3, FS_EmptySet, Zenon DEF Init, StoredInv
<1>6. AddingInv /\ DisabledInv
  BY <1>3, Zenon DEF Init, AddingInv, DisabledInv
<1> QED BY <1>2, <1>4, <1>5, <1>6, Zenon DEF FilterInv

(* A step that leaves the tables alone keeps what is said of them. *)
LEMMA FilterQuiet ==
  ASSUME FilterInv, UNCHANGED filters
  PROVE  FilterInv'
<1> USE DEF filters
<1>1. FilterTypes' /\ ShapeInv'
  BY DEF FilterInv, FilterTypes, ShapeInv
<1>2. \A h \in Hashes, n \in Slots : Stored(h, n)' = Stored(h, n)
  BY Zenon DEF Stored
<1>3. Pending' = Pending
  BY Zenon DEF Pending
<1>4. AddingInv'
  BY <1>3, Zenon DEF FilterInv, AddingInv
<1>5. StoredInv'
  BY <1>2, <1>3, Zenon DEF FilterInv, StoredInv, Stored
<1>6. DisabledInv'
  BY Zenon DEF FilterInv, DisabledInv
<1> QED BY <1>1, <1>4, <1>5, <1>6, Zenon DEF FilterInv

(* _addFilter() finds a slot and gives out an id. *)
LEMMA AddFilterKeeps ==
  ASSUME FilterInv, NEW h \in Hashes, NEW mask \in Masks, NEW t \in TargetIds \cup {Default},
         AddFilter(h, mask, t)
  PROVE  FilterInv'
<1> DEFINE empty == {n \in Slots : list[h][n].id = 0}
           n == CHOOSE i \in empty : \A j \in empty : i <= j
           a == [hash |-> h, slot |-> n, id |-> nextFilterId, mask |-> mask, target |-> t]
           f == [hash |-> h, id |-> nextFilterId, mask |-> mask, target |-> t]
<1>0. FilterTypes /\ ShapeInv /\ AddingInv /\ StoredInv /\ DisabledInv
  BY Zenon DEF FilterInv
<1>1. /\ adding = NoAdd /\ nextFilterId \in 1 .. MaxFilters /\ nextFilterId' = nextFilterId + 1
      /\ present' = present \cup {h} /\ UNCHANGED <<list, bloom>>
  BY <1>0, ConstantsAssumption DEF AddFilter, AdminIdle, Unlocked, FilterTypes
<1>2. \/ empty = {} /\ UNCHANGED <<adding, added, off>>
      \/ /\ empty # {} /\ adding' = a /\ added' = added \cup {f}
         /\ off' = IF list[h][n].disabled THEN off \cup {nextFilterId} ELSE off
  BY Zenon DEF AddFilter
<1>3. empty # {} => n \in empty /\ \A j \in empty : n <= j
  <2>1. empty \in SUBSET Slots
    BY Zenon
  <2> HIDE DEF empty
  <2> QED BY <2>1, FirstSlot, Zenon
<1>4. mask \subseteq Levels /\ MaxFilters \in Nat
  BY ConstantsAssumption, Zenon
<1>5. \A g \in Hashes : \A i \in Slots : list[g][i].id \in Nat /\ list[g][i].id < nextFilterId
  BY <1>0, <1>4, SlotFields DEF ShapeInv
<1> HIDE DEF n
<1>6. FilterTypes'
  BY <1>0, <1>1, <1>4 DEF FilterTypes
<1>7. ShapeInv'
  <2>1. \A g \in Hashes : \A i \in Slots : list[g][i].id < nextFilterId + 1
    BY <1>1, <1>5
  <2> QED BY <1>0, <1>1, <2>1 DEF ShapeInv
<1>8. DisabledInv'
  <2>1. \A i \in off' : i \in off \/ i = nextFilterId
    BY <1>2, Zenon
  <2>2. off \subseteq off'
    BY <1>2, Zenon
  <2>3. \A g \in Hashes : \A i \in Slots : list[g][i].id # nextFilterId
    BY <1>1, <1>5
  <2> QED BY <1>0, <1>1, <2>1, <2>2, <2>3, Zenon DEF DisabledInv
<1>9. \A g \in Hashes, i \in Slots : Stored(g, i)' = Stored(g, i)
  BY <1>1, Zenon DEF Stored
<1>10. \A i \in off : i \in Nat /\ i < nextFilterId + 1 /\ i # nextFilterId
  BY <1>0, <1>1, <1>4 DEF StoredInv
<1>11. CASE empty = {}
  <2>1. UNCHANGED <<adding, added, off>>
    BY <1>2, <1>11, Zenon
  <2>2. AddingInv'
    BY <1>1, <2>1, Zenon DEF AddingInv
  <2>3. Stored(h, 1) \in added /\ Stored(h, 1).hash = h
    <3>1. list[h][1].id # 0
      BY <1>11, SlotNumbers, Zenon
    <3> QED BY <1>0, <3>1, SlotNumbers, Zenon DEF StoredInv, Stored
  <2>4. StoredInv'
    BY <1>0, <1>1, <1>9, <1>10, <2>1, <2>3 DEF StoredInv, Stored
  <2> QED BY <1>6, <1>7, <1>8, <2>2, <2>4, Zenon DEF FilterInv
<1>12. CASE empty # {}
  <2>1. /\ adding' = a /\ added' = added \cup {f} /\ n \in empty /\ \A j \in empty : n <= j
        /\ off' = IF list[h][n].disabled THEN off \cup {nextFilterId} ELSE off
    BY <1>2, <1>3, <1>12, Zenon
  <2>2. Pending' = f
    BY <2>1, Zenon DEF Pending
  <2>3. n \in Slots /\ list[h][n].id = 0
    BY <2>1, Zenon
  <2>4. \A i \in Slots : i < n => list[h][i].id # 0
    BY <2>1, <2>3, SlotNumbers
  <2>5. /\ a \in [hash : Hashes, slot : Slots, id : 1 .. MaxFilters, mask : SUBSET Levels,
                  target : TargetIds \cup {Default}]
        /\ f \in Records
    BY <1>1, <1>4, <2>3, Zenon DEF Records
  <2>6. AddingInv'
    <3>1. a.hash = h /\ a.slot = n /\ a.id = nextFilterId
      BY Zenon
    <3>2. \A g \in Hashes : \A i \in Slots : list[g][i].id # nextFilterId
      BY <1>1, <1>5
    <3>3. nextFilterId \in off' <=> list[h][n].disabled
      BY <1>10, <2>1, Zenon
    <3> HIDE DEF a, f
    <3> QED BY <1>1, <2>1, <2>2, <2>3, <2>4, <2>5, <3>1, <3>2, <3>3 DEF AddingInv
  <2>7. StoredInv'
    <3>1. adding' # NoAdd
      BY <1>1, <2>1 DEF NoAdd
    <3>2. f.hash = h
      BY Zenon
    <3> HIDE DEF f
    <3>3. /\ added' \subseteq Records /\ IsFiniteSet(added')
          /\ \A x \in added' : x.hash \in present'
          /\ \A g \in present' : \E x \in added' : x.hash = g
      BY <1>0, <1>1, <2>1, <2>5, <3>2, FS_AddElement, Zenon DEF StoredInv
    <3>6. off' \subseteq 1 .. MaxFilters /\ \A i \in off' : i < nextFilterId'
      <4>1. nextFilterId < nextFilterId + 1
        BY <1>1
      <4> QED BY <1>0, <1>1, <1>10, <2>1, <4>1, Zenon DEF StoredInv
    <3>4. \A g \in Hashes : \A i \in Slots :
            IF list'[g][i].id = 0 THEN list'[g][i].mask = {} /\ list'[g][i].target = Default
            ELSE Stored(g, i)' \in added'
      BY <1>0, <1>1, <1>9, <2>1, Zenon DEF StoredInv
    <3>5. \A x \in added' : \/ adding' # NoAdd /\ x = Pending'
                            \/ \E i \in Slots : x = Stored(x.hash, i)'
      <4> SUFFICES ASSUME NEW x \in added PROVE \E i \in Slots : x = Stored(x.hash, i)'
        BY <2>1, <2>2, <3>1, Zenon
      <4>1. x.hash \in Hashes
        BY <1>0, Zenon DEF StoredInv, Records
      <4> QED BY <1>0, <1>1, <1>9, <4>1 DEF StoredInv
    <3> QED BY <3>3, <3>4, <3>5, <3>6, Zenon DEF StoredInv
  <2> QED BY <1>6, <1>7, <1>8, <2>6, <2>7, Zenon DEF FilterInv
<1> QED BY <1>11, <1>12, Zenon

(* What some of the stores of add() leave in the slots. *)
LEMMA ListWithIs ==
  ASSUME FilterTypes, AddingInv, adding # NoAdd, NEW fields
  PROVE  LET ls == ListWith(fields)
             old == list[adding.hash][adding.slot]
             new == ls[adding.hash][adding.slot]
         IN /\ ls \in [Hashes -> [Slots -> Slot]]
            /\ \A g \in Hashes : \A i \in Slots :
                 g # adding.hash \/ i # adding.slot => ls[g][i] = list[g][i]
            /\ new.id = IF "id" \in fields THEN adding.id ELSE old.id
            /\ new.mask = IF "mask" \in fields THEN adding.mask ELSE old.mask
            /\ new.target = IF "target" \in fields THEN adding.target ELSE old.target
            /\ new.disabled = old.disabled
<1> DEFINE h == adding.hash
           n == adding.slot
           old == list[h][n]
           v == SlotWith(old, fields)
<1>1. h \in Hashes /\ n \in Slots /\ adding.id \in 1 .. MaxFilters
      /\ adding.mask \in SUBSET Levels /\ adding.target \in TargetIds \cup {Default}
  BY Zenon DEF AddingInv
<1>2. old \in Slot /\ list \in [Hashes -> [Slots -> Slot]]
  BY <1>1, Zenon DEF FilterTypes
<1>3. ListWith(fields) = [list EXCEPT ![h][n] = v]
  BY <1>1, <1>2, Zenon DEF ListWith
<1>4. /\ v \in Slot
      /\ v.id = IF "id" \in fields THEN adding.id ELSE old.id
      /\ v.mask = IF "mask" \in fields THEN adding.mask ELSE old.mask
      /\ v.target = IF "target" \in fields THEN adding.target ELSE old.target
      /\ v.disabled = old.disabled
  BY <1>1, <1>2, ConstantsAssumption DEF Slot, SlotWith
<1> HIDE DEF v
<1>5. /\ ListWith(fields) \in [Hashes -> [Slots -> Slot]]
      /\ ListWith(fields)[h][n] = v
      /\ \A g \in Hashes : \A i \in Slots :
           g # h \/ i # n => ListWith(fields)[g][i] = list[g][i]
  BY <1>1, <1>2, <1>3, <1>4
<1> QED BY <1>4, <1>5, Zenon

(* FilterList::add() has stored the filter. *)
LEMMA AddDoneKeeps ==
  ASSUME FilterInv, AddDone
  PROVE  FilterInv'
<1>0. FilterTypes /\ ShapeInv /\ AddingInv /\ StoredInv /\ DisabledInv
  BY Zenon DEF FilterInv
<1>1. /\ adding # NoAdd /\ list' = ListWith(Fields) /\ bloom' = BloomWith(Fields)
      /\ adding' = NoAdd /\ UNCHANGED <<present, nextFilterId, added, off>>
  BY Zenon DEF AddDone
<1>h. PICK h \in Hashes, n \in Slots : h = adding.hash /\ n = adding.slot
  BY <1>0, <1>1, Zenon DEF AddingInv
<1>2. /\ h \in Hashes /\ n \in Slots /\ adding.id \in 1 .. MaxFilters
      /\ adding.mask \in SUBSET Levels /\ h \in present
      /\ adding.id < nextFilterId /\ (adding.id \in off <=> list[h][n].disabled)
      /\ Pending \in added
      /\ list[h][n].id = 0 /\ \A i \in Slots : i < n => list[h][i].id # 0
      /\ \A g \in Hashes : \A i \in Slots : list[g][i].id # adding.id
  BY <1>0, <1>1, <1>h, Zenon DEF AddingInv
<1>3. /\ list' \in [Hashes -> [Slots -> Slot]]
      /\ \A g \in Hashes : \A i \in Slots : g # h \/ i # n => list'[g][i] = list[g][i]
      /\ list'[h][n].id = adding.id /\ list'[h][n].mask = adding.mask
      /\ list'[h][n].target = adding.target /\ list'[h][n].disabled = list[h][n].disabled
  BY <1>0, <1>1, <1>h, ListWithIs DEF Fields
<1>4. bloom' = [bloom EXCEPT ![h] = @ \cup adding.mask]
  BY <1>1, <1>h, Zenon DEF BloomWith, Fields
<1>5. adding.id # 0 /\ MaxFilters \in Nat
  BY <1>2, ConstantsAssumption, Zenon
<1>6. FilterTypes'
  BY <1>0, <1>1, <1>2, <1>3, <1>4, Zenon DEF FilterTypes
<1>7. \A g \in Hashes : \A i \in Slots : list[g][i].id # 0 => list'[g][i] = list[g][i]
  BY <1>2, <1>3, Zenon
<1>8. ShapeInv'
  <2>1. \A g \in Hashes : bloom[g] \subseteq bloom'[g]
    BY <1>0, <1>2, <1>4, Zenon DEF FilterTypes
  <2>2. adding.mask \subseteq bloom'[h]
    BY <1>0, <1>2, <1>4, Zenon DEF FilterTypes
  <2>3. \A g \in Hashes : \A i \in Slots :
          list'[g][i].id # 0 => i \in Walked(list'[g])
    <3> SUFFICES ASSUME NEW g \in Hashes, NEW i \in Slots, list'[g][i].id # 0
                 PROVE  \A j \in 1 .. i : list'[g][j].id # 0
      BY Zenon DEF Walked
    <3>1. \A j \in 1 .. i : j \in Slots
      BY SlotNumbers, ConstantsAssumption DEF Slots
    <3>2. CASE g = h /\ i = n
      <4>1. \A j \in 1 .. i : j < n \/ j = n
        BY <1>2, <3>2, SlotNumbers
      <4> QED BY <1>2, <1>3, <1>5, <1>7, <3>1, <3>2, <4>1
    <3>3. CASE ~(g = h /\ i = n)
      <4>1. i \in Walked(list[g])
        BY <1>0, <1>3, <3>3, Zenon DEF ShapeInv
      <4> QED BY <1>7, <3>1, <4>1, Zenon DEF Walked
    <3> QED BY <3>2, <3>3, Zenon
  <2>4. \A g \in Hashes : \A i \in Slots :
          /\ list'[g][i].id # 0 => g \in present' /\ list'[g][i].mask \subseteq bloom'[g]
          /\ list'[g][i].id < nextFilterId'
    <3> TAKE g \in Hashes
    <3> TAKE i \in Slots
    <3>1. CASE g = h /\ i = n
      BY <1>1, <1>2, <1>3, <2>2, <3>1, Zenon
    <3>2. CASE ~(g = h /\ i = n)
      BY <1>0, <1>1, <1>3, <2>1, <3>2, SMTT(30) DEF ShapeInv
    <3> QED BY <3>1, <3>2, Zenon
  <2>5. \A f, g \in Hashes : \A i, j \in Slots :
          list'[f][i].id = list'[g][j].id /\ list'[f][i].id # 0 => f = g /\ i = j
    BY <1>0, <1>2, <1>3 DEF ShapeInv
  <2> QED BY <2>3, <2>4, <2>5, Zenon DEF ShapeInv
<1>9. AddingInv'
  BY <1>1, Zenon DEF AddingInv
<1>10. DisabledInv'
  <2> SUFFICES ASSUME NEW g \in Hashes, NEW i \in Slots, list'[g][i].id # 0
               PROVE  list'[g][i].disabled <=> list'[g][i].id \in off
    BY <1>1, Zenon DEF DisabledInv
  <2>1. CASE g = h /\ i = n
    BY <1>2, <1>3, <2>1, Zenon
  <2>2. CASE ~(g = h /\ i = n)
    BY <1>0, <1>3, <2>2, Zenon DEF DisabledInv
  <2> QED BY <2>1, <2>2, Zenon
<1>11. StoredInv'
  <2>1. Stored(h, n)' = Pending
    BY <1>3, <1>h, Zenon DEF Stored, Pending
  <2>2. \A g \in Hashes : \A i \in Slots : list[g][i].id # 0 => Stored(g, i)' = Stored(g, i)
    BY <1>7, Zenon DEF Stored
  <2>3. \A g \in Hashes : \A i \in Slots :
          IF list'[g][i].id = 0 THEN list'[g][i].mask = {} /\ list'[g][i].target = Default
          ELSE Stored(g, i)' \in added
    <3> TAKE g \in Hashes
    <3> TAKE i \in Slots
    <3>1. CASE g = h /\ i = n
      BY <1>2, <1>3, <1>5, <2>1, <3>1, Zenon
    <3>2. CASE ~(g = h /\ i = n)
      <4>1. list'[g][i] = list[g][i]
        BY <1>3, <3>2, Zenon
      <4> QED BY <1>0, <2>2, <4>1, Zenon DEF StoredInv
    <3> QED BY <3>1, <3>2, Zenon
  <2>4. \A f \in added : \E i \in Slots : f = Stored(f.hash, i)'
    <3> TAKE f \in added
    <3>0. f.hash \in Hashes /\ f.id # 0
      BY <1>0 DEF StoredInv, Records
    <3>1. CASE f = Pending
      <4>1. f.hash = h
        BY <1>h, <3>1, Zenon DEF Pending
      <4> QED BY <1>2, <2>1, <3>1, <4>1, Zenon
    <3>2. CASE f # Pending
      <4>1. PICK i \in Slots : f = Stored(f.hash, i)
        BY <1>0, <3>2, Zenon DEF StoredInv
      <4>2. list[f.hash][i].id # 0
        BY <3>0, <4>1 DEF Stored
      <4> QED BY <2>2, <3>0, <4>1, <4>2, Zenon
    <3> QED BY <3>1, <3>2, Zenon
  <2> QED BY <1>0, <1>1, <2>3, <2>4, Zenon DEF StoredInv
<1> QED BY <1>6, <1>8, <1>9, <1>10, <1>11, Zenon DEF FilterInv

(* A filter, or an empty slot, is switched. *)
LEMMA SwitchFilterKeeps ==
  ASSUME FilterInv, NEW h \in Hashes, NEW id \in 0 .. MaxFilters, NEW v \in BOOLEAN,
         SwitchFilter(h, id, v)
  PROVE  FilterInv'
<1>0. FilterTypes /\ ShapeInv /\ AddingInv /\ StoredInv /\ DisabledInv
  BY Zenon DEF FilterInv
<1>1. PICK n \in Slots : /\ list[h][n].id = id
                        /\ list' = [list EXCEPT ![h][n].disabled = v]
  <2> DEFINE found == {i \in Slots : list[h][i].id = id}
             n == CHOOSE i \in found : \A j \in found : i <= j
  <2>1. found # {} /\ list' = [list EXCEPT ![h][n].disabled = v]
    BY Zenon DEF SwitchFilter
  <2>2. n \in found
    <3>1. found \in SUBSET Slots
      BY Zenon
    <3> HIDE DEF found
    <3> QED BY <2>1, <3>1, FirstSlot, Zenon
  <2> HIDE DEF n
  <2>3. n \in Slots /\ list[h][n].id = id
    BY <2>2, Zenon
  <2> QED BY <2>1, <2>3, Zenon
<1>2. /\ adding = NoAdd /\ off' = IF id = 0 THEN off ELSE IF v THEN off \cup {id} ELSE off \ {id}
      /\ UNCHANGED <<present, bloom, adding, nextFilterId, added>>
  BY Zenon DEF SwitchFilter, AdminIdle, Unlocked
<1>3. list \in [Hashes -> [Slots -> Slot]]
  BY <1>0, Zenon DEF FilterTypes
<1>4. /\ list' \in [Hashes -> [Slots -> Slot]]
      /\ \A g \in Hashes : \A i \in Slots : g # h \/ i # n => list'[g][i] = list[g][i]
      /\ list'[h][n] = [list[h][n] EXCEPT !.disabled = v]
  <2> DEFINE s == [list[h][n] EXCEPT !.disabled = v]
  <2>1. list[h][n] \in Slot
    BY <1>3, Zenon
  <2>2. s \in Slot
    BY <2>1, Zenon DEF Slot
  <2>3. list' = [list EXCEPT ![h] = [list[h] EXCEPT ![n] = s]]
    BY <1>1, Zenon
  <2> HIDE DEF s
  <2>4. [list[h] EXCEPT ![n] = s] \in [Slots -> Slot]
    BY <1>3, <2>2, Zenon
  <2>5. list' \in [Hashes -> [Slots -> Slot]]
    BY <1>3, <2>3, <2>4, Zenon
  <2>6. list'[h][n] = s
    BY <1>3, <2>3, Zenon
  <2>7. \A g \in Hashes : \A i \in Slots : g # h \/ i # n => list'[g][i] = list[g][i]
    BY <1>3, <2>3, Zenon
  <2> QED BY <2>5, <2>6, <2>7, Zenon DEF s
<1>5. /\ list'[h][n].id = id /\ list'[h][n].mask = list[h][n].mask
      /\ list'[h][n].target = list[h][n].target /\ list'[h][n].disabled = v
  <2>1. list[h][n] \in Slot
    BY <1>3, Zenon
  <2> QED BY <1>1, <1>4, <2>1, Zenon DEF Slot
<1>6. \A g \in Hashes : \A i \in Slots :
        /\ list'[g][i].id = list[g][i].id /\ list'[g][i].mask = list[g][i].mask
        /\ list'[g][i].target = list[g][i].target
  BY <1>1, <1>4, <1>5, Zenon
<1>7. FilterTypes'
  BY <1>0, <1>2, <1>4, Zenon DEF FilterTypes
<1>8. ShapeInv'
  <2>1. \A g \in Hashes : Walked(list'[g]) = Walked(list[g])
    <3>1. \A i \in Slots : \A j \in 1 .. i : j \in Slots
      BY ConstantsAssumption DEF Slots
    <3> QED BY <1>6, <3>1, Zenon DEF Walked
  <2> QED BY <1>0, <1>2, <1>6, <2>1 DEF ShapeInv
<1>9. AddingInv'
  BY <1>2, Zenon DEF AddingInv
<1>10. StoredInv'
  <2>1. \A g \in Hashes : \A i \in Slots : Stored(g, i)' = Stored(g, i)
    BY <1>6, Zenon DEF Stored
  <2>2. id < nextFilterId
    BY <1>0, <1>1, Zenon DEF ShapeInv
  <2>3. off' \subseteq 1 .. MaxFilters /\ \A i \in off' : i < nextFilterId
    <3>1. id # 0 => id \in 1 .. MaxFilters
      BY ConstantsAssumption
    <3> QED BY <1>0, <1>2, <2>2, <3>1, Zenon DEF StoredInv
  <2>4. \A g \in Hashes : \A i \in Slots :
          IF list'[g][i].id = 0 THEN list'[g][i].mask = {} /\ list'[g][i].target = Default
          ELSE Stored(g, i)' \in added
    BY <1>0, <1>6, <2>1, SMTT(30) DEF StoredInv
  <2>5. \A f \in added : \E i \in Slots : f = Stored(f.hash, i)'
    <3> TAKE f \in added
    <3>1. f.hash \in Hashes
      BY <1>0, Zenon DEF StoredInv, Records
    <3> QED BY <1>0, <1>2, <2>1, <3>1, SMTT(30) DEF StoredInv
  <2> QED BY <1>0, <1>2, <2>3, <2>4, <2>5, Zenon DEF StoredInv
<1>11. DisabledInv'
  <2> SUFFICES ASSUME NEW g \in Hashes, NEW i \in Slots, list'[g][i].id # 0
               PROVE  list'[g][i].disabled <=> list'[g][i].id \in off'
    BY Zenon DEF DisabledInv
  <2>2. CASE g = h /\ i = n
    BY <1>2, <1>5, <2>2, Zenon
  <2>3. CASE ~(g = h /\ i = n)
    <3>1. list[g][i].id # id
      BY <1>0, <1>1, <1>6, <2>3 DEF ShapeInv
    <3>2. list'[g][i] = list[g][i]
      BY <1>4, <2>3, Zenon
    <3>3. list[g][i].id \in off' <=> list[g][i].id \in off
      BY <1>2, <3>1, Zenon
    <3> QED BY <1>0, <3>2, <3>3, Zenon DEF DisabledInv
  <2> QED BY <2>2, <2>3, Zenon
<1> QED BY <1>7, <1>8, <1>9, <1>10, <1>11, Zenon DEF FilterInv

(* addFilter(), disableFilter() and enableFilter() keep every list well formed. *)
LEMMA FilterStep ==
  ASSUME FilterInv, [Next]_vars
  PROVE  FilterInv'
<1> USE DEF options, caches, callers, loop
<1>1. CASE UNCHANGED vars
  BY <1>1, FilterQuiet, Zenon DEF vars
<1>2. ASSUME NEW h \in Hashes, NEW mask \in Masks, NEW t \in TargetIds \cup {Default},
             AddFilter(h, mask, t)
      PROVE  FilterInv'
  BY <1>2, AddFilterKeeps, Zenon
<1>3. ASSUME NEW f \in added, NEW v \in BOOLEAN, SwitchFilter(f.hash, f.id, v)
      PROVE  FilterInv'
  <2>1. f.hash \in Hashes /\ f.id \in 0 .. MaxFilters
    BY DEF FilterInv, StoredInv, Records
  <2> QED BY <1>3, <2>1, SwitchFilterKeeps, Zenon
<1>4. ASSUME NEW h \in Hashes, NEW v \in BOOLEAN, SwitchFilter(h, 0, v) PROVE FilterInv'
  <2>1. 0 \in 0 .. MaxFilters
    BY ConstantsAssumption
  <2> QED BY <1>4, <2>1, SwitchFilterKeeps, Zenon
<1>5. ASSUME \/ \E mask \in Masks : MaskOut(mask) \/ UnmaskOut(mask)
             \/ \E mask \in Masks, out \in BOOLEAN : SetGlobalOpts(mask, out)
             \/ SetDefaultFilterOut \/ \E t \in TargetIds \cup {Default} : TargetReady(t)
             \/ \E m \in Metas : SubmitUnsifted(m)
             \/ \E c \in Callers : Caller(c)
             \/ Logger
      PROVE  FilterInv'
  <2>1. UNCHANGED filters
    BY <1>5, Zenon DEF MaskOut, UnmaskOut, SetGlobalOpts, SetDefaultFilterOut, TargetReady,
                SubmitUnsifted, Caller, LogP, CheckCache, SetHashes, FindLists, CopyMeta,
                Logger, TakeEntry, SiftEntry, Route
  <2> QED BY <2>1, FilterQuiet, Zenon
<1> QED BY <1>1, <1>2, <1>3, <1>4, <1>5, AddDoneKeeps, Zenon DEF Next, Admin

-----------------------------------------------------------------------------
(* The caches. *)

(* A message looks in the four lists of its own tag and origin. *)
LEMMA OwnHashes ==
  ASSUME NEW m \in Metas
  PROVE  Own(m) \subseteq Hashes /\ \A i \in 1 .. 4 : HashesOf(m)[i] \in Hashes
<1>1. m \in AllMetas
  BY ConstantsAssumption, Zenon
<1>2. m.tag \in Tags \cup {0} /\ m.origin \in Origins \cup {0}
  BY <1>1, Zenon DEF AllMetas
<1>3. \A i \in 1 .. 4 : HashesOf(m)[i] \in Hashes
  <2> TAKE i \in 1 .. 4
  <2>1. i = 1 \/ i = 2 \/ i = 3 \/ i = 4
    OBVIOUS
  <2>2. /\ HashesOf(m)[1] = <<m.origin, m.tag>> /\ HashesOf(m)[2] = <<m.origin, 0>>
        /\ HashesOf(m)[3] = <<0, m.tag>> /\ HashesOf(m)[4] = <<0, 0>>
    BY Zenon DEF HashesOf
  <2> QED BY <1>2, <2>1, <2>2 DEF Hashes
<1> QED BY <1>3, Zenon DEF Own

(* sift() finds at most one list, of a hash of the message that is in the table. *)
LEMMA ChosenIsOwn ==
  ASSUME NEW m \in Metas
  PROVE  Chosen(m) \subseteq Own(m) \cap present
<1> DEFINE hits == {i \in 1 .. 4 : HashesOf(m)[i] \in present}
           n == CHOOSE i \in hits : \A j \in hits : i <= j
<1>1. CASE hits = {}
  BY <1>1, Zenon DEF Chosen
<1>2. CASE hits # {}
  <2>1. n \in hits
    <3>1. hits \in SUBSET Nat
      OBVIOUS
    <3> HIDE DEF hits
    <3>2. \E i \in hits : \A j \in hits : i <= j
      BY <1>2, <3>1, LeastNumber, Zenon
    <3> QED BY <3>2, Zenon
  <2>2. Chosen(m) = {HashesOf(m)[n]}
    BY <1>2, Zenon DEF Chosen
  <2> HIDE DEF n
  <2> QED BY <2>1, <2>2, Zenon DEF Own
<1> QED BY <1>1, <1>2, Zenon

(* The types of the variables that are not filters. *)
OtherTypes ==
  /\ levelFilterOutMask \subseteq Levels
  /\ defaultFilterOut \in BOOLEAN /\ newFilterOut \in {<<>>, <<TRUE>>, <<FALSE>>}
  /\ targets \subseteq TargetIds /\ defaultTarget \in BOOLEAN
  /\ cached \in [Metas -> BOOLEAN] /\ lists \in [Metas -> SUBSET Hashes]
  /\ pc \in [Callers -> {"idle", "check", "hash", "find", "copy"}]
  /\ work \in [Callers -> Metas]
  /\ queue \in Seq(Entry) /\ entry \in Entry \cup {NoEntry}
  /\ logger \in {"take", "sift", "route"}
  /\ logger # "take" => entry \in Entry
  /\ sent \in 0 .. MaxMsgs /\ overrun \in BOOLEAN
  /\ last.by \subseteq (0 .. MaxFilters) \X (TargetIds \cup {Default})

(* No hash is cached and nothing is routed at first. *)
LEMMA OtherInit == Init => OtherTypes /\ CachedListsAreOwn /\ WrittenAsAdded /\ ~overrun
<1> SUFFICES ASSUME Init PROVE OtherTypes /\ CachedListsAreOwn /\ WrittenAsAdded /\ ~overrun
  BY Zenon
<1> USE ConstantsAssumption DEF Init
<1>1. (CHOOSE m \in Metas : TRUE) \in Metas
  BY Zenon
<1>2. work \in [Callers -> Metas]
  BY <1>1, Zenon
<1>3. OtherTypes
  <2>1. queue \in Seq(Entry) /\ sent \in 0 .. MaxMsgs /\ lists \in [Metas -> SUBSET Hashes]
    OBVIOUS
  <2>2. cached \in [Metas -> BOOLEAN] /\ last.by = {}
    BY Zenon
  <2> QED BY <1>2, <2>1, <2>2, Zenon DEF OtherTypes
<1> QED BY <1>3 DEF CachedListsAreOwn, WrittenAsAdded


(* The walk writes by filters it found in a slot, or by the default filter. *)
LEMMA WrittenBy ==
  ASSUME NEW ls, NEW is, NEW bs, NEW hs, NEW m, NEW w \in Written(ls, is, bs, hs, m)
  PROVE  \/ w = <<0, Default>>
         \/ \E h \in hs : \E n \in Writing(ls[h], is[h], bs[h], m) :
              w = <<ls[h][n].id, ls[h][n].target>>
BY Zenon DEF Written

(* A filter that writes is in use, enabled, and its target is there. *)
LEMMA WritingSlot ==
  ASSUME NEW l, NEW i, NEW b, NEW m, NEW n \in Writing(l, i, b, m)
  PROVE  /\ n \in Slots /\ n \in Walked(l) /\ m.level \in l[n].mask /\ m.level \in b
         /\ ~l[n].disabled
         /\ l[n].target = Default \/ (l[n].target \in targets /\ i[n].target \notin m.ignore)
BY Zenon DEF Writing, Matching, Walked

(* What the walk can see of the lists. *)
LEMMA SeenLists ==
  ASSUME FilterInv, NEW seen, Unlocked => seen = {}
  PROVE  ListWith(seen) \in [Hashes -> [Slots -> Slot]]
<1>1. CASE adding = NoAdd
  BY <1>1, Zenon DEF ListWith, FilterInv, FilterTypes
<1>2. CASE adding # NoAdd
  BY <1>2, ListWithIs, Zenon DEF FilterInv
<1> QED BY <1>1, <1>2, Zenon

(* A list that was made stays, and so does the record of what was added. *)
LEMMA TablesGrow ==
  ASSUME [Next]_vars
  PROVE  present \subseteq present' /\ added \subseteq added'
<1> USE DEF filters, options, caches, callers, loop
<1>1. CASE UNCHANGED vars
  BY <1>1, Zenon DEF vars
<1>2. CASE Admin
  BY <1>2, Zenon DEF Admin, AddFilter, AddDone, SwitchFilter, MaskOut, UnmaskOut, SetGlobalOpts,
              SetDefaultFilterOut, TargetReady
<1>3. ASSUME \/ \E m \in Metas : SubmitUnsifted(m)
             \/ \E c \in Callers : Caller(c)
             \/ Logger
      PROVE  UNCHANGED <<present, added>>
  BY <1>3, Zenon DEF SubmitUnsifted, Caller, LogP, CheckCache, SetHashes, FindLists, CopyMeta,
              Logger, TakeEntry, SiftEntry, Route
<1> QED BY <1>1, <1>2, <1>3, Zenon DEF Next

(* The administrator. *)
LEMMA AdminTypes ==
  ASSUME OtherTypes, Admin
  PROVE  OtherTypes' /\ UNCHANGED <<caches, callers, loop>>
<1> USE DEF filters, options, caches, callers, loop
<1>1. UNCHANGED <<caches, callers, loop>>
  BY Zenon DEF Admin, AddFilter, AddDone, SwitchFilter, MaskOut, UnmaskOut, SetGlobalOpts,
         SetDefaultFilterOut, TargetReady
<1>2. \/ UNCHANGED <<levelFilterOutMask, defaultFilterOut, newFilterOut>>
      \/ \E mask \in Masks : MaskOut(mask) \/ UnmaskOut(mask)
      \/ \E mask \in Masks, out \in BOOLEAN : SetGlobalOpts(mask, out)
      \/ SetDefaultFilterOut
  BY Zenon DEF Admin, AddFilter, AddDone, SwitchFilter, TargetReady
<1>3. /\ levelFilterOutMask' \subseteq Levels
      /\ defaultFilterOut' \in BOOLEAN /\ newFilterOut' \in {<<>>, <<TRUE>>, <<FALSE>>}
  <2> USE ConstantsAssumption DEF OtherTypes
  <2>1. CASE UNCHANGED <<levelFilterOutMask, defaultFilterOut, newFilterOut>>
    BY <2>1, Zenon
  <2>2. CASE \E mask \in Masks : MaskOut(mask) \/ UnmaskOut(mask)
    BY <2>2, Zenon DEF MaskOut, UnmaskOut
  <2>3. CASE \E mask \in Masks, out \in BOOLEAN : SetGlobalOpts(mask, out)
    <3>1. PICK mask \in Masks, out \in BOOLEAN : SetGlobalOpts(mask, out)
      BY <2>3, Zenon
    <3>2. out = TRUE \/ out = FALSE
      BY Zenon
    <3>3. newFilterOut' = <<TRUE>> \/ newFilterOut' = <<FALSE>>
      BY <3>1, <3>2, Zenon DEF SetGlobalOpts
    <3> QED BY <3>1, <3>3, Zenon DEF SetGlobalOpts
  <2>4. CASE SetDefaultFilterOut
    <3>1. newFilterOut = <<TRUE>> \/ newFilterOut = <<FALSE>>
      BY <2>4, Zenon DEF SetDefaultFilterOut
    <3>2. defaultFilterOut' = TRUE \/ defaultFilterOut' = FALSE
      BY <2>4, <3>1 DEF SetDefaultFilterOut
    <3> QED BY <2>4, <3>2, Zenon DEF SetDefaultFilterOut
  <2> QED BY <1>2, <2>1, <2>2, <2>3, <2>4, Zenon
<1>4. targets' \subseteq TargetIds /\ defaultTarget' \in BOOLEAN
  BY Zenon DEF Admin, AddFilter, AddDone, SwitchFilter, MaskOut, UnmaskOut, SetGlobalOpts,
         SetDefaultFilterOut, TargetReady, OtherTypes, Default
<1> QED BY <1>1, <1>3, <1>4, Zenon DEF OtherTypes

(* A step that adds to no queue, entry or cache. *)
LEMMA CachesQuiet ==
  ASSUME CachedListsAreOwn, present \subseteq present', UNCHANGED <<lists, queue, entry>>,
         logger' = "take" \/ logger # "take"
  PROVE  CachedListsAreOwn'
BY Zenon DEF CachedListsAreOwn

(* A step of a caller of logSync() or log() caches its own lists. *)
LEMMA CallerTypes ==
  ASSUME OtherTypes, CachedListsAreOwn, NEW c \in Callers, Caller(c)
  PROVE  OtherTypes' /\ CachedListsAreOwn' /\ UNCHANGED <<last, added>>
<1> USE DEF filters, options, caches, callers, loop
<1>0. work[c] \in Metas /\ UNCHANGED <<filters, options, last>>
  BY Zenon DEF OtherTypes, Caller, LogP, CheckCache, SetHashes, FindLists, CopyMeta
<1>1. ASSUME NEW m \in Metas, LogP(c, m) PROVE OtherTypes' /\ CachedListsAreOwn'
  <2>1. sent' \in 0 .. MaxMsgs
    BY <1>1, ConstantsAssumption DEF LogP, OtherTypes
  <2>2. OtherTypes'
    BY <1>0, <1>1, <2>1, ZenonT(30) DEF LogP, OtherTypes
  <2> QED BY <1>0, <1>1, <2>2, CachesQuiet, Zenon DEF LogP
<1>2. CASE CheckCache(c)
  <2>1. OtherTypes'
    BY <1>0, <1>2, Zenon DEF CheckCache, OtherTypes
  <2> QED BY <1>0, <1>2, <2>1, CachesQuiet, Zenon DEF CheckCache
<1>3. CASE SetHashes(c)
  <2>1. OtherTypes'
    BY <1>0, <1>3, Zenon DEF SetHashes, OtherTypes
  <2> QED BY <1>0, <1>3, <2>1, CachesQuiet, Zenon DEF SetHashes
<1>4. CASE FindLists(c)
  <2>1. PICK m \in Metas : m = work[c]
    BY <1>0, Zenon
  <2>2. lists' = [lists EXCEPT ![m] = @ \cup Chosen(m)]
    BY <1>4, <2>1, Zenon DEF FindLists
  <2>3. Chosen(m) \subseteq Own(m) \cap present /\ Chosen(m) \subseteq Hashes
    BY ChosenIsOwn, OwnHashes, Zenon
  <2>4. lists \in [Metas -> SUBSET Hashes]
    BY Zenon DEF OtherTypes
  <2>5. lists' \in [Metas -> SUBSET Hashes]
    BY <2>2, <2>3, <2>4, Zenon
  <2>6. OtherTypes'
    BY <1>0, <1>4, <2>5, Zenon DEF FindLists, OtherTypes
  <2>7. \A k \in Metas : lists'[k] \subseteq Own(k) \cap present
    BY <2>2, <2>3, <2>4, Zenon DEF CachedListsAreOwn
  <2>8. CachedListsAreOwn'
    BY <1>0, <1>4, <2>7, Zenon DEF FindLists, CachedListsAreOwn
  <2> QED BY <1>0, <2>6, <2>8, Zenon
<1>5. CASE CopyMeta(c)
  <2>1. PICK m \in Metas : m = work[c]
    BY <1>0, Zenon
  <2> DEFINE e == [meta |-> m, cached |-> cached[m], lists |-> lists[m]]
  <2>2. /\ queue' = Append(queue, e) /\ pc' = [pc EXCEPT ![c] = "idle"]
        /\ UNCHANGED <<caches, work, sent, entry, logger, overrun, last>>
    BY <1>5, <2>1, Zenon DEF CopyMeta
  <2>3. e \in Entry
    BY Zenon DEF OtherTypes, Entry
  <2>4. e.lists = lists[m] /\ e.meta = m
    BY Zenon
  <2> HIDE DEF e
  <2>5. queue \in Seq(Entry) /\ queue' \in Seq(Entry)
    <3>1. queue \in Seq(Entry)
      BY Zenon DEF OtherTypes
    <3> QED BY <2>2, <2>3, <3>1
  <2>6. OtherTypes'
    BY <1>0, <2>2, <2>5, Zenon DEF OtherTypes
  <2>7. \A i \in 1 .. Len(queue') : queue'[i].lists \subseteq Own(queue'[i].meta) \cap present
    <3>1. \A i \in 1 .. Len(queue') : queue'[i] = e \/ (i \in 1 .. Len(queue) /\ queue'[i] = queue[i])
      BY <2>2, <2>5, SMTT(30)
    <3> QED BY <2>4, <3>1, Zenon DEF CachedListsAreOwn
  <2>8. CachedListsAreOwn'
    BY <1>0, <2>2, <2>7, Zenon DEF CachedListsAreOwn
  <2> QED BY <1>0, <2>6, <2>8, Zenon
<1> QED BY <1>1, <1>2, <1>3, <1>4, <1>5, <1>0, Zenon DEF Caller

(* The logger. *)
LEMMA TakeTypes ==
  ASSUME OtherTypes, CachedListsAreOwn, TakeEntry
  PROVE  OtherTypes' /\ CachedListsAreOwn'
<1> USE DEF filters, options, caches, callers
<1>1. /\ entry' = Head(queue) /\ queue' = Tail(queue) /\ queue # <<>> /\ logger' = "sift"
      /\ UNCHANGED <<filters, options, caches, callers, overrun, last>>
  BY Zenon DEF TakeEntry
<1>2. queue \in Seq(Entry) /\ queue' \in Seq(Entry) /\ entry' \in Entry
  BY <1>1 DEF OtherTypes
<1>3. OtherTypes'
  BY <1>1, <1>2, Zenon DEF OtherTypes
<1>4. \A i \in 1 .. Len(queue') : i + 1 \in 1 .. Len(queue) /\ queue'[i] = queue[i + 1]
  BY <1>1, <1>2
<1>5. entry' = queue[1] /\ 1 \in 1 .. Len(queue)
  BY <1>1, <1>2
<1>6. entry'.lists \subseteq Own(entry'.meta) \cap present
  BY <1>5, Zenon DEF CachedListsAreOwn
<1>7. \A i \in 1 .. Len(queue') : queue'[i].lists \subseteq Own(queue'[i].meta) \cap present
  BY <1>4, Zenon DEF CachedListsAreOwn
<1>8. CachedListsAreOwn'
  BY <1>1, <1>6, <1>7, Zenon DEF CachedListsAreOwn
<1> QED BY <1>3, <1>8, Zenon

(* The library thread caches the lists of the entry it sifts. *)
LEMMA SiftTypes ==
  ASSUME OtherTypes, CachedListsAreOwn, SiftEntry
  PROVE  OtherTypes' /\ CachedListsAreOwn'
<1> USE DEF filters, options, caches, callers
<1>1. PICK m \in Metas, ls \in SUBSET Hashes, b \in BOOLEAN :
        entry = [meta |-> m, cached |-> b, lists |-> ls]
  BY Zenon DEF SiftEntry, OtherTypes, Entry
<1>2. Chosen(m) \subseteq Own(m) \cap present /\ Chosen(m) \subseteq Hashes
  BY ChosenIsOwn, OwnHashes, Zenon
<1>3. /\ UNCHANGED <<filters, options, caches, callers, queue, overrun, last>>
      /\ \/ logger' = "take" /\ entry' = NoEntry
         \/ logger' = "route" /\ entry' = entry
         \/ logger' = "route" /\ entry' = [meta |-> m, cached |-> TRUE, lists |-> ls \cup Chosen(m)]
  BY <1>1, Zenon DEF SiftEntry
<1>4. ls \subseteq Own(m) \cap present
  BY <1>1, Zenon DEF SiftEntry, CachedListsAreOwn
<1>5. logger' # "take" => entry' \in Entry /\ entry'.lists \subseteq Own(entry'.meta) \cap present
  <2>1. CASE logger' = "take" /\ entry' = NoEntry
    BY <2>1, Zenon
  <2>2. CASE entry' = entry
    <3>1. entry.lists = ls /\ entry.meta = m /\ entry \in Entry
      BY <1>1, Zenon DEF Entry
    <3> QED BY <1>4, <2>2, <3>1, Zenon
  <2>3. CASE entry' = [meta |-> m, cached |-> TRUE, lists |-> ls \cup Chosen(m)]
    <3>1. entry'.lists = ls \cup Chosen(m) /\ entry'.meta = m
      BY <2>3, Zenon
    <3>2. entry' \in Entry
      BY <1>2, <2>3, Zenon DEF Entry
    <3> QED BY <1>2, <1>4, <3>1, <3>2, Zenon
  <2> QED BY <1>3, <2>1, <2>2, <2>3, Zenon
<1>6. OtherTypes'
  BY <1>3, <1>5, Zenon DEF OtherTypes
<1>7. CachedListsAreOwn'
  BY <1>3, <1>5, Zenon DEF CachedListsAreOwn
<1> QED BY <1>6, <1>7, Zenon

(* An entry that was not sifted comes with nothing cached. *)
LEMMA SubmitTypes ==
  ASSUME OtherTypes, CachedListsAreOwn, NEW m \in Metas, SubmitUnsifted(m)
  PROVE  OtherTypes' /\ CachedListsAreOwn'
<1> USE DEF filters, options, caches, callers
<1> DEFINE e == [meta |-> m, cached |-> FALSE, lists |-> {}]
<1>1. /\ queue' = Append(queue, e) /\ sent' = sent + 1 /\ sent < MaxMsgs
      /\ UNCHANGED <<filters, options, caches, pc, work, entry, logger, overrun, last>>
  BY Zenon DEF SubmitUnsifted
<1>2. e \in Entry /\ e.lists = {}
  BY Zenon DEF Entry
<1> HIDE DEF e
<1>3. queue \in Seq(Entry) /\ queue' \in Seq(Entry) /\ sent' \in 0 .. MaxMsgs
  BY <1>1, <1>2, ConstantsAssumption, SMTT(30) DEF OtherTypes
<1>4. OtherTypes'
  BY <1>1, <1>3, Zenon DEF OtherTypes
<1>5. \A i \in 1 .. Len(queue') : queue'[i] = e \/ (i \in 1 .. Len(queue) /\ queue'[i] = queue[i])
  <2>1. /\ Len(queue') = Len(queue) + 1 /\ queue'[Len(queue) + 1] = e
        /\ \A i \in 1 .. Len(queue) : queue'[i] = queue[i]
    BY <1>1, <1>2, <1>3, SMTT(30)
  <2>2. \A l \in Nat : \A i \in 1 .. l + 1 : i \in 1 .. l \/ i = l + 1
    OBVIOUS
  <2>3. Len(queue) \in Nat
    BY <1>3, SMTT(30)
  <2> QED BY <2>1, <2>2, <2>3, Zenon
<1>6. \A i \in 1 .. Len(queue') : queue'[i].lists \subseteq Own(queue'[i].meta) \cap present
  BY <1>2, <1>5, Zenon DEF CachedListsAreOwn
<1>7. CachedListsAreOwn'
  BY <1>1, <1>6, ZenonT(30) DEF CachedListsAreOwn
<1> QED BY <1>4, <1>7, Zenon

(* A slot of the list of h that says nothing, or what a filter that was added says. *)
HoldsAdded(s, h) ==
  \/ s.id = 0 \/ s.target = Default \/ s.mask = {}
  \/ \E f \in added : f.hash = h /\ f.id = s.id /\ f.target = s.target /\ f.mask = s.mask

(* A slot of the list of h as the walk sees it: the slot itself, or parts of *)
(* the filter being stored in it; and its id, if any, is that of a filter.   *)
SeenAs(s, h, n) ==
  /\ HoldsAdded(s, h)
  /\ \/ s = list[h][n]
     \/ adding # NoAdd /\ h = adding.hash /\ n = adding.slot /\ s.id \in {0, adding.id}
  /\ s.id # 0 => \E f \in Registered(h) : f.id = s.id

(* What the logger's walk finds in a slot: a filter that was added, or parts *)
(* of the one being added, or nothing.                                       *)
LEMMA SeenSlot ==
  ASSUME FilterInv, NEW seen, NEW h \in Hashes, NEW n \in Slots,
         NEW s, s = ListWith(seen)[h][n]
  PROVE  SeenAs(s, h, n)
<1> USE DEF HoldsAdded, SeenAs
<1>1. s = ListWith(seen)[h][n]
  BY Zenon
<1>2. PICK o : o = list[h][n]
  BY Zenon
<1>3. CASE s = o
  <2>1. o.id = 0 \/ Stored(h, n) \in added
    BY <1>2, Zenon DEF FilterInv, StoredInv
  <2>2. PICK f : f = Stored(h, n)
    BY Zenon
  <2>3. f.hash = h /\ f.id = o.id /\ f.target = o.target /\ f.mask = o.mask
    BY <1>2, <2>2, Zenon DEF Stored
  <2>4. o.id # 0 => f \in Registered(h)
    BY <2>1, <2>2, <2>3, Zenon DEF Registered
  <2> QED BY <1>2, <1>3, <2>1, <2>2, <2>3, <2>4, Zenon
<1>4. CASE adding # NoAdd /\ h = adding.hash /\ n = adding.slot
  <2>1. o.id = 0 /\ o.mask = {} /\ o.target = Default
    BY <1>2, <1>4, Zenon DEF FilterInv, AddingInv, StoredInv
  <2>2. /\ s.id = adding.id \/ s.id = 0
        /\ s.mask = adding.mask \/ s.mask = {}
        /\ s.target = adding.target \/ s.target = Default
    <3>1. PICK ls : ls = ListWith(seen)
      BY Zenon
    <3>2. /\ ls[h][n].id = IF "id" \in seen THEN adding.id ELSE o.id
          /\ ls[h][n].mask = IF "mask" \in seen THEN adding.mask ELSE o.mask
          /\ ls[h][n].target = IF "target" \in seen THEN adding.target ELSE o.target
      BY <1>2, <1>4, <3>1, ListWithIs, Zenon DEF FilterInv
    <3> QED BY <1>1, <2>1, <3>1, <3>2, Zenon
  <2>3. Pending \in added
    BY <1>4, Zenon DEF FilterInv, AddingInv
  <2>4. PICK f : f = Pending
    BY Zenon
  <2>5. f.hash = h /\ f.id = adding.id /\ f.target = adding.target /\ f.mask = adding.mask
    BY <1>4, <2>4, Zenon DEF Pending
  <2>6. f \in added /\ f \in Registered(h)
    BY <2>3, <2>4, <2>5, Zenon DEF Registered
  <2>7. HoldsAdded(s, h)
    BY <2>2, <2>5, <2>6, Zenon
  <2> QED BY <1>4, <2>2, <2>5, <2>6, <2>7, Zenon
<1>5. s = o \/ (adding # NoAdd /\ h = adding.hash /\ n = adding.slot)
  BY <1>1, <1>2, ListWithIs, Zenon DEF FilterInv, ListWith
<1> QED BY <1>3, <1>4, <1>5, Zenon

(* Two reads of the target of a filter in use only differ if it is being stored. *)
LEMMA TornTarget ==
  ASSUME FilterInv, NEW a, NEW b, NEW h \in Hashes, NEW n \in Slots,
         ListWith(a)[h][n].id # 0, ListWith(a)[h][n].target # ListWith(b)[h][n].target
  PROVE  ListWith(a)[h][n].id = adding.id
<1>1. PICK s, t : s = ListWith(a)[h][n] /\ t = ListWith(b)[h][n]
  BY Zenon
<1>2. s.id # 0 /\ s.target # t.target
  BY <1>1, Zenon
<1>3. SeenAs(s, h, n) /\ SeenAs(t, h, n)
  BY <1>1, SeenSlot, Zenon
<1>4. s = list[h][n] => adding # NoAdd /\ h = adding.hash /\ n = adding.slot
  BY <1>2, <1>3, Zenon DEF SeenAs
<1>5. s # list[h][n]
  BY <1>2, <1>4, Zenon DEF FilterInv, AddingInv
<1> QED BY <1>1, <1>2, <1>3, <1>5, Zenon DEF SeenAs

(* A walk that finds no empty slot is in a list whose slots were all given out. *)
LEMMA OverrunIsFull ==
  ASSUME FilterInv, NEW seen, NEW h \in Hashes, Walked(ListWith(seen)[h]) = Slots
  PROVE  Full(h)
<1>1. PICK l : l = ListWith(seen)[h]
  BY Zenon
<1>2. \A n \in Slots : l[n].id # 0
  <2> TAKE n \in Slots
  <2>1. n \in 1 .. n
    BY SlotNumbers
  <2>2. n \in Walked(l)
    BY <1>1, Zenon
  <2> QED BY <2>1, <2>2, Zenon DEF Walked
<1>3. \A n \in Slots : \E f \in Registered(h) : f.id = l[n].id
  <2> TAKE n \in Slots
  <2>1. PICK s : s = ListWith(seen)[h][n]
    BY Zenon
  <2>2. s.id # 0 /\ s = l[n]
    BY <1>1, <1>2, <2>1, Zenon
  <2>3. SeenAs(s, h, n)
    BY <2>1, SeenSlot, Zenon
  <2> QED BY <2>2, <2>3, Zenon DEF SeenAs
<1>4. \A i, j \in Slots : l[i].id = l[j].id => i = j
  <2> SUFFICES ASSUME NEW i \in Slots, NEW j \in Slots, l[i].id = l[j].id PROVE i = j
    BY Zenon
  <2>1. PICK s, t : s = ListWith(seen)[h][i] /\ t = ListWith(seen)[h][j]
    BY Zenon
  <2>2. s = l[i] /\ t = l[j] /\ s.id # 0 /\ t.id # 0 /\ s.id = t.id
    BY <1>1, <1>2, <2>1, Zenon
  <2>3. SeenAs(s, h, i) /\ SeenAs(t, h, j)
    BY <2>1, SeenSlot, Zenon
  <2>4. CASE s = list[h][i] /\ t = list[h][j]
    <3>1. list[h][i].id = list[h][j].id /\ list[h][i].id # 0
      BY <2>2, <2>4, Zenon
    <3> QED BY <3>1, Zenon DEF FilterInv, ShapeInv
  <2>5. CASE s = list[h][i] /\ t # list[h][j]
    BY <2>2, <2>3, <2>5, Zenon DEF FilterInv, AddingInv, SeenAs
  <2>6. CASE s # list[h][i] /\ t = list[h][j]
    BY <2>2, <2>3, <2>6, Zenon DEF FilterInv, AddingInv, SeenAs
  <2>7. CASE s # list[h][i] /\ t # list[h][j]
    BY <2>3, <2>7, Zenon DEF SeenAs
  <2> QED BY <2>4, <2>5, <2>6, <2>7, Zenon
<1>5. PICK g : g = [n \in Slots |-> CHOOSE f \in Registered(h) : f.id = l[n].id]
  BY Zenon
<1>6. \A n \in Slots : g[n] \in Registered(h) /\ g[n].id = l[n].id
  BY <1>3, <1>5, Zenon
<1>7. g \in [Slots -> Registered(h)]
  BY <1>5, <1>6, Zenon
<1>8. \A i, j \in Slots : g[i] = g[j] => i = j
  <2> SUFFICES ASSUME NEW i \in Slots, NEW j \in Slots, g[i] = g[j] PROVE i = j
    BY Zenon
  <2>1. l[i].id = l[j].id
    BY <1>6, Zenon
  <2> QED BY <1>4, <2>1, Zenon
<1>9. g \in Injection(Slots, Registered(h))
  <2>1. DOMAIN g = Slots
    BY <1>7, Zenon
  <2> QED BY <1>7, <1>8, <2>1, Zenon DEF Injection, IsInjective
<1>10. IsFiniteSet(Registered(h))
  <2>1. Registered(h) \in SUBSET added /\ IsFiniteSet(added)
    BY Zenon DEF Registered, FilterInv, StoredInv
  <2> QED BY <2>1, FS_Subset, Zenon
<1>11. Cardinality(Slots) <= Cardinality(Registered(h))
  BY <1>9, <1>10, FS_Injection, Zenon
<1>12. Cardinality(Slots) = MaxIdentical
  <2>1. 1 \in Int /\ MaxIdentical \in Int /\ MaxIdentical >= 1
    BY ConstantsAssumption
  <2>2. Cardinality(1 .. MaxIdentical) = IF 1 > MaxIdentical THEN 0 ELSE MaxIdentical - 1 + 1
    BY <2>1, FS_Interval, Zenon
  <2> QED BY <2>1, <2>2 DEF Slots
<1>13. Cardinality(Registered(h)) \in Nat
  BY <1>10, FS_CardinalityType, Zenon
<1> QED BY <1>11, <1>12, <1>13, ConstantsAssumption DEF Full

OverrunInv == overrun => \E h \in Own(last.meta) : Full(h)

(* submitBuffer() writes to the targets of the filters that match. *)
LEMMA RouteKeeps ==
  ASSUME FilterInv, OtherTypes, CachedListsAreOwn, NEW seen \in SUBSET Fields, Route(seen)
  PROVE  OtherTypes' /\ CachedListsAreOwn' /\ WrittenAsAdded' /\ OverrunInv'
<1> USE DEF filters, options, caches, callers
<1>0. PICK test : test = IF "ignore" \in seen THEN seen ELSE seen \ {"target"}
  BY Zenon
<1>1. PICK ls, is, bs, m, hs : /\ ls = ListWith(seen) /\ is = ListWith(test)
                               /\ bs = BloomWith(seen) /\ m = entry.meta /\ hs = entry.lists
  BY Zenon
<1>2. /\ logger = "route" /\ (Unlocked => seen = {})
      /\ last' = [meta |-> m, storing |-> adding.id, by |-> Reaching(Written(ls, is, bs, hs, m))]
      /\ overrun' = \E h \in hs : m.level \in bs[h] /\ Walked(ls[h]) = Slots
      /\ logger' = "take" /\ entry' = NoEntry
      /\ UNCHANGED <<filters, options, caches, callers, queue>>
  BY <1>0, <1>1, Zenon DEF Route
<1>3. hs \subseteq Hashes /\ hs \subseteq Own(m)
  BY <1>1, <1>2, ZenonT(30) DEF OtherTypes, Entry, CachedListsAreOwn
<1>4. ls \in [Hashes -> [Slots -> Slot]]
  BY <1>1, <1>2, SeenLists, Zenon
<1>5. /\ last'.meta = m /\ last'.storing = adding.id
      /\ last'.by \subseteq Written(ls, is, bs, hs, m)
  BY <1>2, Zenon DEF Reaching
<1>6. ASSUME NEW w \in last'.by
      PROVE  /\ w \in (0 .. MaxFilters) \X (TargetIds \cup {Default})
             /\ \/ w[2] = Default
                \/ /\ w[2] \in m.ignore => w[1] = adding.id
                   /\ \E f \in added : /\ f.id = w[1] /\ f.target = w[2] /\ f.hash \in Own(m)
                                      /\ m.level \in f.mask
  <2>1. \/ w = <<0, Default>>
        \/ \E h \in hs : \E n \in Writing(ls[h], is[h], bs[h], m) :
              w = <<ls[h][n].id, ls[h][n].target>>
    <3>1. w \in Written(ls, is, bs, hs, m)
      BY <1>5, <1>6, Zenon
    <3> QED BY <3>1, Zenon DEF Written
  <2>2. CASE w = <<0, Default>>
    BY <2>2, ConstantsAssumption
  <2>3. ASSUME NEW h \in hs, NEW n \in Writing(ls[h], is[h], bs[h], m),
               w = <<ls[h][n].id, ls[h][n].target>>
        PROVE  /\ w \in (0 .. MaxFilters) \X (TargetIds \cup {Default})
               /\ \/ w[2] = Default
                  \/ /\ w[2] \in m.ignore => w[1] = adding.id
                     /\ \E f \in added : /\ f.id = w[1] /\ f.target = w[2] /\ f.hash \in Own(m)
                                        /\ m.level \in f.mask
    <3>1. n \in Slots /\ h \in Hashes /\ h \in Own(m)
      BY <1>3, WritingSlot, Zenon
    <3>2. PICK s \in Slot : s = ls[h][n]
      BY <1>4, <3>1, Zenon
    <3>3. /\ m.level \in s.mask /\ n \in Walked(ls[h])
          /\ s.target = Default \/ (s.target \in targets /\ is[h][n].target \notin m.ignore)
      BY <3>2, WritingSlot, Zenon
    <3>4. s.id # 0
      <4>1. n \in 1 .. n
        BY <3>1, SlotNumbers
      <4> QED BY <3>2, <3>3, <4>1, Zenon DEF Walked
    <3>5. \/ s.target = Default
          \/ \E f \in added : f.hash = h /\ f.id = s.id /\ f.target = s.target /\ f.mask = s.mask
      <4>1. s = ListWith(seen)[h][n]
        BY <1>1, <3>2, Zenon
      <4>2. SeenAs(s, h, n)
        BY <3>1, <4>1, SeenSlot, Zenon
      <4> QED BY <3>3, <3>4, <4>2, Zenon DEF SeenAs, HoldsAdded
    <3>6. s.target # Default /\ s.target \in m.ignore => s.id = adding.id
      <4> SUFFICES ASSUME s.target # Default, s.target \in m.ignore PROVE s.id = adding.id
        BY Zenon
      <4>1. ListWith(seen)[h][n].target # ListWith(test)[h][n].target
        BY <1>1, <3>2, <3>3, Zenon
      <4>2. ListWith(seen)[h][n].id # 0
        BY <1>1, <3>2, <3>4, Zenon
      <4> QED BY <1>1, <3>1, <3>2, <4>1, <4>2, TornTarget, Zenon
    <3>7. w = <<s.id, s.target>> /\ w[1] = s.id /\ w[2] = s.target
      <4>1. w = <<s.id, s.target>>
        BY <2>3, <3>2, Zenon
      <4> QED BY <4>1
    <3>8. s.id \in 0 .. MaxFilters /\ s.target \in TargetIds \cup {Default}
      BY Zenon DEF Slot
    <3> QED BY <3>1, <3>3, <3>5, <3>6, <3>7, <3>8, Zenon
  <2> QED BY <2>1, <2>2, <2>3, Zenon
<1>7. last'.by \subseteq (0 .. MaxFilters) \X (TargetIds \cup {Default})
  BY <1>6, Zenon
<1>8. OtherTypes'
  BY <1>2, <1>7, Zenon DEF OtherTypes
<1>9. CachedListsAreOwn'
  BY <1>2, ZenonT(30) DEF CachedListsAreOwn
<1>10. WrittenAsAdded'
  BY <1>2, <1>5, <1>6, Zenon DEF WrittenAsAdded
<1>11. OverrunInv'
  <2>1. added' = added
    BY <1>2, Zenon
  <2>2. \A h \in Hashes : Full(h)' <=> Full(h)
    BY <2>1, Zenon DEF Full, Registered
  <2>3. \A h \in hs : Walked(ls[h]) = Slots => Full(h)
    BY <1>1, <1>3, OverrunIsFull, Zenon
  <2> QED BY <1>2, <1>3, <1>5, <2>2, <2>3, Zenon DEF OverrunInv
<1> QED BY <1>8, <1>9, <1>10, <1>11, Zenon

RoutingInv == OtherTypes /\ CachedListsAreOwn /\ WrittenAsAdded /\ OverrunInv

(* Every step keeps the caches own and the messages routed as filters were added. *)
LEMMA RoutingStep == FilterInv /\ RoutingInv /\ [Next]_vars => RoutingInv'
<1> SUFFICES ASSUME FilterInv, RoutingInv, [Next]_vars PROVE RoutingInv'
  BY Zenon
<1> USE DEF RoutingInv
<1>1. present \subseteq present' /\ added \subseteq added'
  BY TablesGrow, Zenon
<1>2. last' = last => WrittenAsAdded'
  BY <1>1, Zenon DEF WrittenAsAdded
<1>3. CASE UNCHANGED vars
  <2>1. OtherTypes'
    BY <1>3, Zenon DEF vars, filters, options, caches, callers, loop, OtherTypes
  <2>2. OverrunInv'
    BY <1>3, Zenon DEF vars, filters, loop, OverrunInv, Full, Registered
  <2> QED BY <1>1, <1>2, <1>3, <2>1, <2>2, CachesQuiet, Zenon DEF vars, caches, loop
<1>4. Next => ~overrun
  BY Zenon DEF Next
<1>5. Next /\ overrun' = overrun => OverrunInv'
  BY <1>4, Zenon DEF OverrunInv
<1>6. CASE Next /\ Admin
  BY <1>1, <1>2, <1>5, <1>6, AdminTypes, CachesQuiet, Zenon DEF caches, loop
<1>7. ASSUME Next, NEW c \in Callers, Caller(c) PROVE RoutingInv'
  <2>1. overrun' = overrun
    BY <1>7, Zenon DEF Caller, LogP, CheckCache, SetHashes, FindLists, CopyMeta, loop
  <2> QED BY <1>2, <1>5, <1>7, <2>1, CallerTypes, Zenon
<1>8. ASSUME Next, NEW m \in Metas, SubmitUnsifted(m) PROVE RoutingInv'
  BY <1>2, <1>5, <1>8, SubmitTypes, Zenon DEF SubmitUnsifted
<1>9. CASE Next /\ TakeEntry
  BY <1>2, <1>5, <1>9, TakeTypes, Zenon DEF TakeEntry
<1>10. CASE Next /\ SiftEntry
  BY <1>2, <1>5, <1>10, SiftTypes, Zenon DEF SiftEntry
<1>11. ASSUME NEW seen \in SUBSET Fields, Route(seen) PROVE RoutingInv'
  BY <1>11, RouteKeeps, Zenon
<1> QED BY <1>3, <1>6, <1>7, <1>8, <1>9, <1>10, <1>11, Zenon DEF Next, Logger

(* The filters that were added for a hash and that write a message. *)
Willing(h, m) ==
  {f \in Registered(h) : /\ m.level \in f.mask /\ f.id \notin off
                         /\ f.target = Default \/ f.target \in targets \ m.ignore}

(* The record of a filter is the filter as addFilter() stored it. *)
LEMMA StoredFields ==
  ASSUME NEW h, NEW n
  PROVE  /\ Stored(h, n).hash = h /\ Stored(h, n).id = list[h][n].id
         /\ Stored(h, n).mask = list[h][n].mask /\ Stored(h, n).target = list[h][n].target
BY Zenon DEF Stored

(* The slots W write a message for the filters added for h. *)
WriteFor(W, h, m) ==
  /\ \A n \in W : n \in Slots /\ Stored(h, n) \in Willing(h, m)
  /\ \A f \in Willing(h, m) : \E n \in W : f = Stored(h, n)

(* The walk of a list writes by the filters that were added and are enabled. *)
LEMMA WalkWrites ==
  ASSUME FilterInv, Unlocked, NEW h \in Hashes, NEW m, NEW W,
         W = Writing(list[h], list[h], bloom[h], m)
  PROVE  WriteFor(W, h, m)
<1>1. ASSUME NEW n \in W
      PROVE  n \in Slots /\ Stored(h, n) \in Willing(h, m)
  <2>1. /\ n \in Slots /\ n \in Walked(list[h]) /\ m.level \in list[h][n].mask
        /\ ~list[h][n].disabled
        /\ list[h][n].target = Default \/ list[h][n].target \in targets \ m.ignore
    BY WritingSlot, Zenon
  <2>2. n \in 1 .. n
    BY <2>1, SlotNumbers
  <2>3. list[h][n].id # 0
    BY <2>1, <2>2, Zenon DEF Walked
  <2>4. Stored(h, n) \in added
    BY <2>1, <2>3, ZenonT(30) DEF FilterInv, StoredInv
  <2>5. list[h][n].id \notin off
    BY <2>1, <2>3, Zenon DEF FilterInv, DisabledInv
  <2>6. PICK f : f = Stored(h, n)
    BY Zenon
  <2>61. /\ f.hash = h /\ f.id = list[h][n].id /\ f.mask = list[h][n].mask
         /\ f.target = list[h][n].target
    BY <2>6, Zenon DEF Stored
  <2>7. /\ f \in added /\ f.hash = h /\ m.level \in f.mask /\ f.id \notin off
        /\ f.target = Default \/ f.target \in targets \ m.ignore
    BY <2>1, <2>4, <2>5, <2>6, <2>61, Zenon
  <2>8. f \in Willing(h, m)
    BY <2>7, Zenon DEF Willing, Registered
  <2> QED BY <2>1, <2>6, <2>8, Zenon
<1>2. ASSUME NEW f \in Willing(h, m)
      PROVE  \E n \in W : f = Stored(h, n)
  <2>1. /\ f \in added /\ f.hash = h /\ m.level \in f.mask /\ f.id \notin off
        /\ f.target = Default \/ f.target \in targets \ m.ignore
    BY Zenon DEF Willing, Registered
  <2>2. PICK n \in Slots : f = Stored(h, n)
    BY <2>1, Zenon DEF FilterInv, StoredInv, Unlocked
  <2>3. f.id = list[h][n].id /\ f.mask = list[h][n].mask /\ f.target = list[h][n].target
    BY <2>2, StoredFields, SMTT(30)
  <2>4. f.id # 0
    BY <2>1, SMTT(30) DEF FilterInv, StoredInv, Records
  <2>5. n \in Walked(list[h]) /\ list[h][n].mask \subseteq bloom[h]
    BY <2>3, <2>4, Zenon DEF FilterInv, ShapeInv
  <2>6. ~list[h][n].disabled
    BY <2>1, <2>3, <2>4, Zenon DEF FilterInv, DisabledInv
  <2>7. n \in W
    BY <2>1, <2>3, <2>5, <2>6, Zenon DEF Writing, Matching
  <2> QED BY <2>2, <2>7, Zenon
<1> QED BY <1>1, <1>2, Zenon DEF WriteFor

(* The walk of one list, as the filters that were added for it say. *)
LEMMA WalkedAsRegistered ==
  ASSUME FilterInv, Unlocked, NEW h \in Hashes, NEW m
  PROVE  Written(list, list, bloom, {h}, m) = ExpectedFrom(h, m)
<1>1. ExpectedFrom(h, m) = IF Willing(h, m) = {} THEN {<<0, Default>>}
                           ELSE {<<f.id, f.target>> : f \in Willing(h, m)}
  BY Zenon DEF ExpectedFrom, Willing
<1>2. PICK W : W = Writing(list[h], list[h], bloom[h], m)
  BY Zenon
<1>3. Written(list, list, bloom, {h}, m) =
        IF W = {} THEN {<<0, Default>>} ELSE {<<list[h][n].id, list[h][n].target>> : n \in W}
  <2> DEFINE from(g) == {<<list[g][n].id, list[g][n].target>> :
                         n \in Writing(list[g], list[g], bloom[g], m)}
  <2>1. Written(list, list, bloom, {h}, m) =
          IF UNION {from(g) : g \in {h}} = {} THEN {<<0, Default>>}
          ELSE UNION {from(g) : g \in {h}}
    BY ZenonT(30) DEF Written
  <2>2. from(h) = {<<list[h][n].id, list[h][n].target>> : n \in W}
    BY <1>2, Zenon
  <2>3. from(h) = {} <=> W = {}
    BY <2>2, Zenon
  <2> HIDE DEF from
  <2>4. UNION {from(g) : g \in {h}} = from(h)
    BY Zenon
  <2> QED BY <2>1, <2>2, <2>3, <2>4, Zenon
<1>4. WriteFor(W, h, m)
  BY <1>2, WalkWrites, Zenon
<1>5. W = {} <=> Willing(h, m) = {}
  BY <1>4, Zenon DEF WriteFor
<1>6. {<<list[h][n].id, list[h][n].target>> : n \in W}
         = {<<f.id, f.target>> : f \in Willing(h, m)}
  <2>1. \A n : /\ Stored(h, n).id = list[h][n].id
               /\ Stored(h, n).target = list[h][n].target
    BY StoredFields
  <2> QED BY <1>4, <2>1 DEF WriteFor
<1> QED BY <1>1, <1>3, <1>5, <1>6, Zenon

(* The first hash of a message that has filters comes before all others. *)
LEMMA FirstIsPreferred ==
  ASSUME NEW m, NEW k \in 1 .. 4, Registered(HashesOf(m)[k]) # {},
         \A i \in 1 .. 4 : Registered(HashesOf(m)[i]) # {} => k <= i
  PROVE  HashesOf(m)[k] \in Preferred(m)
<1> DEFINE some(r) == {h \in Ranks(m)[r] : Registered(h) # {}}
           ranks == {r \in 1 .. 3 : some(r) # {}}
           least == CHOOSE r \in ranks : \A q \in ranks : r <= q
<1>1. /\ HashesOf(m)[1] = <<m.origin, m.tag>> /\ HashesOf(m)[2] = <<m.origin, 0>>
      /\ HashesOf(m)[3] = <<0, m.tag>> /\ HashesOf(m)[4] = <<0, 0>>
  BY Zenon DEF HashesOf
<1>2. /\ Ranks(m)[1] = {HashesOf(m)[1]} /\ Ranks(m)[2] = {HashesOf(m)[2], HashesOf(m)[3]}
      /\ Ranks(m)[3] = {HashesOf(m)[4]}
  BY <1>1, Zenon DEF Ranks
<1>3. PICK r \in 1 .. 3 : (k = 1 /\ r = 1) \/ (k \in {2, 3} /\ r = 2) \/ (k = 4 /\ r = 3)
  <2>1. k = 1 \/ k = 2 \/ k = 3 \/ k = 4
    OBVIOUS
  <2>2. 1 \in 1 .. 3 /\ 2 \in 1 .. 3 /\ 3 \in 1 .. 3
    OBVIOUS
  <2> QED BY <2>1, <2>2, Zenon
<1>4. HashesOf(m)[k] \in Ranks(m)[r]
  BY <1>2, <1>3, Zenon
<1>5. HashesOf(m)[k] \in some(r)
  BY <1>4, Zenon
<1>6. \A q \in 1 .. 3 : q < r => some(q) = {}
  <2> SUFFICES ASSUME NEW q \in 1 .. 3, q < r, some(q) # {} PROVE FALSE
    BY Zenon
  <2>1. PICK h \in Ranks(m)[q] : Registered(h) # {}
    BY Zenon
  <2>2. \/ q = 1 /\ r \in {2, 3}
        \/ q = 2 /\ r = 3
    OBVIOUS
  <2>3. CASE q = 1 /\ r \in {2, 3}
    <3>1. Registered(HashesOf(m)[1]) # {}
      BY <1>2, <2>1, <2>3, Zenon
    <3>2. k <= 1
      <4>1. 1 \in 1 .. 4
        OBVIOUS
      <4> QED BY <3>1, <4>1, Zenon
    <3> QED BY <1>3, <2>3, <3>2
  <2>4. CASE q = 2 /\ r = 3
    <3>1. Registered(HashesOf(m)[2]) # {} \/ Registered(HashesOf(m)[3]) # {}
      BY <1>2, <2>1, <2>4, Zenon
    <3>2. k <= 2 \/ k <= 3
      <4>1. 2 \in 1 .. 4 /\ 3 \in 1 .. 4
        OBVIOUS
      <4> QED BY <3>1, <4>1, Zenon
    <3> QED BY <1>3, <2>4, <3>2
  <2> QED BY <2>2, <2>3, <2>4, Zenon
<1>7. Preferred(m) = IF ranks = {} THEN {} ELSE some(least)
  BY Zenon DEF Preferred
<1>8. r \in ranks /\ ranks \subseteq 1 .. 3
  BY <1>5, Zenon
<1>9. \A q \in ranks : ~(q < r)
  BY <1>6, <1>8, Zenon
<1> HIDE DEF ranks
<1>10. \A q \in ranks : r <= q
  BY <1>8, <1>9
<1>11. least \in ranks /\ \A q \in ranks : least <= q
  BY <1>8, <1>10, Zenon
<1> HIDE DEF least
<1>12. least = r
  <2>1. least <= r /\ r <= least /\ least \in 1 .. 3
    BY <1>8, <1>10, <1>11, Zenon
  <2> QED BY <2>1
<1> QED BY <1>5, <1>7, <1>8, <1>12, Zenon

(* A message for which a filter was added has a preferred list. *)
LEMMA NonePreferred ==
  ASSUME NEW m, \A i \in 1 .. 4 : Registered(HashesOf(m)[i]) = {}
  PROVE  Preferred(m) = {}
<1> DEFINE some(r) == {h \in Ranks(m)[r] : Registered(h) # {}}
           ranks == {r \in 1 .. 3 : some(r) # {}}
<1>1. /\ HashesOf(m)[1] = <<m.origin, m.tag>> /\ HashesOf(m)[2] = <<m.origin, 0>>
      /\ HashesOf(m)[3] = <<0, m.tag>> /\ HashesOf(m)[4] = <<0, 0>>
  BY Zenon DEF HashesOf
<1>2. /\ Ranks(m)[1] = {HashesOf(m)[1]} /\ Ranks(m)[2] = {HashesOf(m)[2], HashesOf(m)[3]}
      /\ Ranks(m)[3] = {HashesOf(m)[4]}
  BY <1>1, Zenon DEF Ranks
<1>3. 1 \in 1 .. 4 /\ 2 \in 1 .. 4 /\ 3 \in 1 .. 4 /\ 4 \in 1 .. 4
  OBVIOUS
<1>4. some(1) = {} /\ some(2) = {} /\ some(3) = {}
  BY <1>2, <1>3, Zenon
<1>5. \A r \in 1 .. 3 : r = 1 \/ r = 2 \/ r = 3
  OBVIOUS
<1>6. ranks = {}
  BY <1>4, <1>5, Zenon
<1> QED BY <1>6, Zenon DEF Preferred

(* The routing of a message looked up afresh. *)
LEMMA RoutedAsRegistered ==
  ASSUME FilterInv, OverrunInv
  PROVE  RoutesAsRegistered
<1> DEFINE by(m) == Written(list, list, bloom, Chosen(m), m)
<1> SUFFICES ASSUME Unlocked, NEW m \in Metas
             PROVE  IF Preferred(m) = {} THEN by(m) = {<<0, Default>>}
                    ELSE \E h \in Preferred(m) : by(m) = ExpectedFrom(h, m)
  BY Zenon DEF RoutesAsRegistered, OverrunInv
<1>2. \A i \in 1 .. 4 : HashesOf(m)[i] \in Hashes
  BY OwnHashes, Zenon DEF Own
<1>3. \A h \in Hashes : h \in present <=> Registered(h) # {}
  BY Zenon DEF FilterInv, StoredInv, Registered
<1>4. PICK hits : hits = {i \in 1 .. 4 : HashesOf(m)[i] \in present}
  BY Zenon
<1>5. hits = {i \in 1 .. 4 : Registered(HashesOf(m)[i]) # {}}
  BY <1>2, <1>3, <1>4, Zenon
<1>6. CASE hits = {}
  <2>1. Chosen(m) = {}
    BY <1>4, <1>6, Zenon DEF Chosen
  <2>2. Written(list, list, bloom, {}, m) = {<<0, Default>>}
    BY Zenon DEF Written
  <2>3. Preferred(m) = {}
    BY <1>5, <1>6, NonePreferred, Zenon
  <2> QED BY <2>1, <2>2, <2>3, Zenon
<1>7. CASE hits # {}
  <2>1. PICK k : k = CHOOSE i \in hits : \A j \in hits : i <= j
    BY Zenon
  <2>2. k \in hits /\ \A j \in hits : k <= j
    <3>1. hits \in SUBSET Nat
      BY <1>4
    <3>2. \E i \in hits : \A j \in hits : i <= j
      BY <1>7, <3>1, LeastNumber, Zenon
    <3> QED BY <2>1, <3>2, Zenon
  <2>3. PICK h \in Hashes : h = HashesOf(m)[k]
    BY <1>2, <1>4, <2>2, Zenon
  <2>4. Chosen(m) = {h}
    BY <1>4, <1>7, <2>1, <2>3, Zenon DEF Chosen
  <2>5. h \in Preferred(m)
    <3>1. k \in 1 .. 4 /\ Registered(HashesOf(m)[k]) # {}
      BY <1>5, <2>2, Zenon
    <3>2. \A i \in 1 .. 4 : Registered(HashesOf(m)[i]) # {} => k <= i
      BY <1>5, <2>2, Zenon
    <3> QED BY <2>3, <3>1, <3>2, FirstIsPreferred, Zenon
  <2>6. by(m) = ExpectedFrom(h, m)
    BY <2>4, WalkedAsRegistered, Zenon
  <2> QED BY <2>5, <2>6, Zenon
<1> QED BY <1>6, <1>7, Zenon

(* The inductive invariant holds. *)
LEMMA FiltersInvariant == Spec => [](FilterInv /\ RoutingInv)
<1>1. Init => FilterInv /\ RoutingInv
  BY FilterInit, OtherInit, Zenon DEF RoutingInv, OverrunInv
<1>2. FilterInv /\ RoutingInv /\ [Next]_vars => (FilterInv /\ RoutingInv)'
  BY FilterStep, RoutingStep, Zenon
<1> QED BY <1>1, <1>2, PTL DEF Spec

(* FilterList: with slots of any number, the filters fill a list from its    *)
(* front, no id is given out twice, and the bloom mask covers every filter.  *)
THEOREM ListsStayWellFormed == Spec => []ListsWellFormed
<1>1. FilterInv /\ RoutingInv => ListsWellFormed
  BY Zenon DEF RoutingInv, FilterInv, FilterTypes, ShapeInv, OtherTypes, ListsWellFormed, TypeOK
<1> QED BY <1>1, FiltersInvariant, PTL

(* sift(): the lists cached in a shared logMeta and in the queued copies of  *)
(* it exist and are for the meta's own tag and origin.                       *)
THEOREM CachesStayOwn == Spec => []CachedListsAreOwn
<1>1. FilterInv /\ RoutingInv => CachedListsAreOwn
  BY Zenon DEF RoutingInv
<1> QED BY <1>1, FiltersInvariant, PTL

(* handleInternalCmd(): whatever part of a filter that is being added its    *)
(* walk sees, a message goes only where an added filter for its own tag,     *)
(* origin and level sends it, or to the default target; and to a target it   *)
(* ignores only by the filter that was being added.                          *)
THEOREM NothingMisrouted == Spec => []WrittenAsAdded
<1>1. FilterInv /\ RoutingInv => WrittenAsAdded
  BY Zenon DEF RoutingInv
<1> QED BY <1>1, FiltersInvariant, PTL

(* The lists, bloom masks, walk and switches route a message not yet sifted  *)
(* as the filters that were added and switched say, and the walk runs past   *)
(* the end of a list only if as many filters were added for its hash as it   *)
(* has slots.                                                                *)
THEOREM RoutedByRegistration == Spec => []RoutesAsRegistered
<1>1. FilterInv /\ RoutingInv => RoutesAsRegistered
  BY RoutedAsRegistered, Zenon DEF RoutingInv
<1> QED BY <1>1, FiltersInvariant, PTL

=============================================================================
