--------------------------- MODULE LifecycleProofs ---------------------------
(***************************************************************************)
(* Proofs about Lifecycle and Redirect: any number of threads that add      *)
(* targets, of target objects, descriptors, pipes and tickets.             *)
(***************************************************************************)
EXTENDS Lifecycle, FiniteSetTheorems, TLAPS

-----------------------------------------------------------------------------
(* The inductive invariant of the targets. *)

Makers == {"start", "addTarget", "modifyDefaultTarget"}
ObjType == [maker : Makers, id : {DEFAULT_TARGET} \cup Ids, kind : {"tty", "file", "callback"},
            state : {"opening", "ready", "deleted"}, cbSet : BOOLEAN, data : BOOLEAN,
            reports : Seq({"ok", "failed"})]

(* Threads about to make a target, and those of them that were given an id. *)
New == {a \in Adders : pc[a] = "new"}
Given == {a \in New : infoId[a] # DEFAULT_TARGET}

Before == {"start", "created", "mutexes", "timer"}

TargetTypes ==
  /\ main \in {"start", "created", "mutexes", "timer", "default", "started", "done"}
  /\ libThread \in {"none", "created", "began", "locked", "polling", "ended"}
  /\ logger \in {"none", "created", "polling", "draining"}
  /\ objs \in Seq(ObjType) /\ nextTargetId \in Nat \ {0}
  /\ targets \in [Ids -> 0 .. Len(objs)] /\ defaultTarget \in 0 .. Len(objs)
  /\ callbacks \subseteq 1 .. Len(objs)
  /\ pc \in [Adders -> {"idle", "new", "setup"}] /\ targ \in [Adders -> 0 .. Len(objs)]
  /\ infoId \in [Adders -> {DEFAULT_TARGET} \cup Ids]

(* Ids are given out no faster than objects are made. *)
CountInv ==
  /\ nextTargetId <= Len(objs) + Cardinality(Given) + 1
  /\ Len(objs) + Cardinality(New) <= MaxObjects
  /\ main \in Before => objs = <<>> /\ New = {}

(* No two targets of addTarget() have the same id, now or later. *)
IdInv ==
  /\ \A o \in 1 .. Len(objs) :
       IF objs[o].maker = "addTarget" THEN objs[o].id \in Ids /\ objs[o].id < nextTargetId
       ELSE objs[o].id = DEFAULT_TARGET
  /\ \A o, p \in 1 .. Len(objs) :
       objs[o].id = objs[p].id /\ objs[o].id # DEFAULT_TARGET => o = p
  /\ \A a \in Given : /\ infoId[a] < nextTargetId
                      /\ \A o \in 1 .. Len(objs) : objs[o].id # infoId[a]
  /\ \A a, b \in Given : infoId[a] = infoId[b] => a = b

(* The tables have the targets that are ready, each under its id, and a      *)
(* target that is ready stays there.                                         *)
TableInv ==
  /\ \A id \in Ids : targets[id] # None =>
       objs[targets[id]].id = id /\ objs[targets[id]].state = "ready"
  /\ defaultTarget # None =>
       objs[defaultTarget].id = DEFAULT_TARGET /\ objs[defaultTarget].state = "ready"
  /\ \A o \in 1 .. Len(objs) :
       objs[o].id # DEFAULT_TARGET /\ objs[o].state = "ready" => targets[objs[o].id] = o

ReportInv ==
  \A o \in 1 .. Len(objs) : objs[o].maker = "addTarget" =>
    \/ objs[o].state = "opening" /\ objs[o].reports = <<>>
    \/ objs[o].state = "ready" /\ objs[o].reports = <<"ok">>
    \/ objs[o].state = "deleted" /\ objs[o].reports = <<"failed">>

TargetInv == TargetTypes /\ CountInv /\ IdInv /\ TableInv /\ ReportInv

-----------------------------------------------------------------------------

(* Finitely many threads add targets. *)
LEMMA NewFinite == IsFiniteSet(New) /\ Cardinality(New) \in Nat
                   /\ IsFiniteSet(Given) /\ Cardinality(Given) \in Nat
<1>1. New \in SUBSET Adders /\ Given \in SUBSET Adders /\ IsFiniteSet(Adders)
  BY LifecycleAssumption, Zenon DEF New, Given
<1>2. IsFiniteSet(New) /\ IsFiniteSet(Given)
  BY <1>1, FS_Subset, Zenon
<1> QED BY <1>2, FS_CardinalityType, Zenon

(* At the start no target has been made. *)
LEMMA TargetInit == Init => TargetInv
<1> SUFFICES ASSUME Init PROVE TargetInv
  BY Zenon
<1> USE LifecycleAssumption DEF Init
<1>1. objs \in Seq(ObjType) /\ Len(objs) = 0
  OBVIOUS
<1>2. New = {} /\ Given = {}
  BY Zenon DEF New, Given
<1>3. TargetTypes
  BY <1>1 DEF TargetTypes, None
<1>4. CountInv
  BY <1>1, <1>2, FS_EmptySet DEF CountInv
<1>5. IdInv /\ ReportInv
  BY <1>1, <1>2 DEF IdInv, ReportInv
<1>6. TableInv
  BY <1>1, <1>2 DEF TableInv, None
<1> QED BY <1>3, <1>4, <1>5, <1>6, Zenon DEF TargetInv

(* A step that leaves every object its maker, id, state and reports, and the *)
(* tables alone.                                                             *)
LEMMA ObjectsKept ==
  ASSUME TargetInv, objs' \in Seq(ObjType), Len(objs') = Len(objs),
         \A o \in 1 .. Len(objs) : /\ objs'[o].maker = objs[o].maker /\ objs'[o].id = objs[o].id
                                   /\ objs'[o].state = objs[o].state
                                   /\ objs'[o].reports = objs[o].reports,
         UNCHANGED <<nextTargetId, targets, defaultTarget, infoId>>,
         pc' = pc \/ \E a \in Adders : /\ pc' = [pc EXCEPT ![a] = "idle"] /\ pc[a] = "setup",
         targ' = targ \/ \E a \in Adders : targ' = [targ EXCEPT ![a] = None],
         callbacks' \subseteq 1 .. Len(objs),
         main' = main \/ (main \in Before /\ main' \in Before) \/ main' \notin Before,
         main' \in {"start", "created", "mutexes", "timer", "default", "started", "done"},
         libThread' \in {"none", "created", "began", "locked", "polling", "ended"},
         logger' \in {"none", "created", "polling", "draining"}
  PROVE  TargetInv'
<1>1. New' = New /\ Given' = Given
  BY DEF New, Given, TargetInv, TargetTypes
<1>2. TargetTypes'
  <2>1. Len(objs) \in Nat /\ pc \in [Adders -> {"idle", "new", "setup"}]
        /\ targ \in [Adders -> 0 .. Len(objs)]
    BY DEF TargetInv, TargetTypes
  <2>2. pc' \in [Adders -> {"idle", "new", "setup"}]
    BY <2>1, Zenon
  <2>3. targ' \in [Adders -> 0 .. Len(objs)]
    <3>1. None \in 0 .. Len(objs)
      BY <2>1 DEF None
    <3> QED BY <2>1, <3>1, Zenon
  <2> QED BY <2>2, <2>3, Zenon DEF TargetInv, TargetTypes
<1>3. objs = <<>> => objs' = <<>>
  BY DEF TargetInv, TargetTypes
<1>4. CountInv'
  BY <1>1, <1>3, Zenon DEF TargetInv, CountInv
<1>5. IdInv'
  BY <1>1 DEF TargetInv, IdInv
<1>6. TableInv'
  <2>1. \A id \in Ids : targets[id] # None => targets[id] \in 1 .. Len(objs)
    BY DEF TargetInv, TargetTypes, None
  <2>2. defaultTarget # None => defaultTarget \in 1 .. Len(objs)
    BY DEF TargetInv, TargetTypes, None
  <2>3. \A o \in 1 .. Len(objs) :
          objs[o].id # DEFAULT_TARGET /\ objs[o].state = "ready" => targets[objs[o].id] = o
    BY Zenon DEF TargetInv, TableInv
  <2> QED BY <2>1, <2>2, <2>3 DEF TargetInv, TableInv
<1>7. ReportInv'
  BY DEF TargetInv, ReportInv
<1> QED BY <1>2, <1>4, <1>5, <1>6, <1>7, Zenon DEF TargetInv

(* Reports are written into an object without other changes. *)
LEMMA ReportedFields ==
  ASSUME NEW obj \in ObjType, NEW state \in {"ready", "deleted"}, NEW result \in {"ok", "failed"}
  PROVE  LET r == Reported(obj, state, result)
         IN /\ r \in ObjType /\ r.maker = obj.maker /\ r.id = obj.id /\ r.state = state
            /\ obj.maker = "addTarget" /\ obj.reports = <<>> => r.reports = <<result>>
<1>1. Told(obj.maker, result) \in Seq({"ok", "failed"})
  <2>1. \/ Told(obj.maker, result) = <<"ok">> \/ Told(obj.maker, result) = <<result>>
        \/ Told(obj.maker, result) = <<>>
    BY Zenon DEF Told
  <2>2. <<"ok">> \in Seq({"ok", "failed"}) /\ <<result>> \in Seq({"ok", "failed"})
        /\ <<>> \in Seq({"ok", "failed"})
    OBVIOUS
  <2> QED BY <2>1, <2>2, Zenon
<1>2. obj.reports \in Seq({"ok", "failed"}) /\ obj.maker \in Makers
  BY Zenon DEF ObjType
<1>3. obj.reports \o Told(obj.maker, result) \in Seq({"ok", "failed"})
  BY <1>1, <1>2
<1>4. obj.maker = "addTarget" => Told(obj.maker, result) = <<result>>
  BY Zenon DEF Told
<1>5. obj.reports = <<>> => obj.reports \o Told(obj.maker, result) = Told(obj.maker, result)
  BY <1>1
<1> QED BY <1>3, <1>4, <1>5, Zenon DEF Reported, ObjType

(* A target that was just made is opening and has reported nothing. *)
LEMMA ObjFields ==
  ASSUME NEW maker \in Makers, NEW id \in {DEFAULT_TARGET} \cup Ids,
         NEW kind \in {"tty", "file", "callback"}
  PROVE  LET r == Obj(maker, id, kind)
         IN /\ r \in ObjType /\ r.maker = maker /\ r.id = id /\ r.state = "opening"
            /\ r.reports = <<>>
BY DEF Obj, ObjType

(* A target is made: by a thread that was given its id, by one that replaces *)
(* the default target, or by start().                                        *)
LEMMA ConstructIs ==
  ASSUME NEW maker \in Makers, NEW id \in {DEFAULT_TARGET} \cup Ids,
         NEW kind \in {"tty", "file", "callback"}, Construct(maker, id, kind)
  PROVE  \E x \in ObjType :
           /\ objs' = Append(objs, x) /\ x.maker = maker /\ x.id = id
           /\ maker = "addTarget" => \/ x.state = "opening" /\ x.reports = <<>>
                                     \/ x.state = "ready" /\ x.reports = <<"ok">>
                                     \/ x.state = "deleted" /\ x.reports = <<"failed">>
           /\ IF x.state # "ready" THEN UNCHANGED <<targets, defaultTarget>>
              ELSE Publish(Len(objs) + 1, id)
<1>1. PICK r \in ObjType : /\ r = Obj(maker, id, kind) /\ r.maker = maker /\ r.id = id
                           /\ r.state = "opening" /\ r.reports = <<>>
  BY ObjFields
<1>2. CASE objs' = Append(objs, r) /\ UNCHANGED <<targets, defaultTarget>>
  BY <1>1, <1>2, Zenon
<1>3. CASE objs' = Append(objs, Reported(r, "ready", "ok")) /\ Publish(Len(objs) + 1, id)
  <2>1. PICK x \in ObjType : /\ x = Reported(r, "ready", "ok") /\ x.maker = maker /\ x.id = id
                             /\ x.state = "ready" /\ (maker = "addTarget" => x.reports = <<"ok">>)
    BY <1>1, ReportedFields
  <2> QED BY <1>3, <2>1, Zenon
<1>4. CASE /\ objs' = Append(objs, Reported(r, "deleted", "failed"))
           /\ UNCHANGED <<targets, defaultTarget>>
  <2>1. PICK x \in ObjType :
          /\ x = Reported(r, "deleted", "failed") /\ x.maker = maker /\ x.id = id
          /\ x.state = "deleted" /\ (maker = "addTarget" => x.reports = <<"failed">>)
    BY <1>1, ReportedFields
  <2> QED BY <1>4, <2>1, Zenon
<1> QED BY <1>1, <1>2, <1>3, <1>4, Zenon DEF Construct

(* The new object takes its place behind the others. *)
LEMMA ConstructKeeps ==
  ASSUME TargetInv, NEW x \in ObjType, objs' = Append(objs, x),
         IF x.state # "ready" THEN UNCHANGED <<targets, defaultTarget>>
         ELSE Publish(Len(objs) + 1, x.id),
         IF x.maker = "addTarget" THEN x.id \in Ids /\ x.id < nextTargetId
         ELSE x.id = DEFAULT_TARGET,
         x.maker = "addTarget" => \/ x.state = "opening" /\ x.reports = <<>>
                                  \/ x.state = "ready" /\ x.reports = <<"ok">>
                                  \/ x.state = "deleted" /\ x.reports = <<"failed">>,
         x.id # DEFAULT_TARGET => \A o \in 1 .. Len(objs) : objs[o].id # x.id,
         UNCHANGED <<nextTargetId, infoId>>, Given' \subseteq Given,
         \A a \in Given' : infoId[a] # x.id
  PROVE  /\ objs' \in Seq(ObjType) /\ Len(objs') = Len(objs) + 1
         /\ targets' \in [Ids -> 0 .. Len(objs')] /\ defaultTarget' \in 0 .. Len(objs')
         /\ IdInv' /\ TableInv' /\ ReportInv'
<1>1. /\ objs \in Seq(ObjType) /\ Len(objs) \in Nat
      /\ targets \in [Ids -> 0 .. Len(objs)] /\ defaultTarget \in 0 .. Len(objs)
  BY DEF TargetInv, TargetTypes
<1>2. objs' \in Seq(ObjType) /\ Len(objs') = Len(objs) + 1
  BY <1>1
<1>3. /\ \A o \in 1 .. Len(objs) : objs'[o] = objs[o]
      /\ objs'[Len(objs) + 1] = x
      /\ \A o \in 1 .. Len(objs') : o \in 1 .. Len(objs) \/ o = Len(objs) + 1
  BY <1>1, <1>2
<1>4. /\ targets' \in [Ids -> 0 .. Len(objs')]
      /\ \A id \in Ids : targets'[id] = IF x.state = "ready" /\ id = x.id THEN Len(objs) + 1
                                        ELSE targets[id]
  <2>0. 0 .. Len(objs) \subseteq 0 .. Len(objs') /\ Len(objs) + 1 \in 0 .. Len(objs')
    BY <1>1, <1>2
  <2>1. DEFAULT_TARGET \notin Ids
    BY DEF DEFAULT_TARGET, Ids
  <2>2. CASE x.state # "ready" \/ x.id = DEFAULT_TARGET
    <3>1. targets' = targets
      BY <2>2, Zenon DEF Publish
    <3> QED BY <1>1, <2>0, <2>1, <2>2, <3>1, Zenon
  <2>3. CASE x.state = "ready" /\ x.id # DEFAULT_TARGET
    <3>1. targets' = [targets EXCEPT ![x.id] = Len(objs) + 1]
      BY <2>3, Zenon DEF Publish
    <3> QED BY <1>1, <2>0, <2>3, <3>1, Zenon
  <2> QED BY <2>2, <2>3, Zenon
<1>5. /\ defaultTarget' \in 0 .. Len(objs')
      /\ defaultTarget' = IF x.state = "ready" /\ x.id = DEFAULT_TARGET THEN Len(objs) + 1
                         ELSE defaultTarget
  BY <1>1, <1>2 DEF Publish
<1>6. IdInv'
  <2>1. \A o \in 1 .. Len(objs') :
          IF objs'[o].maker = "addTarget"
          THEN objs'[o].id \in Ids /\ objs'[o].id < nextTargetId
          ELSE objs'[o].id = DEFAULT_TARGET
    BY <1>3 DEF TargetInv, IdInv
  <2>2. \A o, p \in 1 .. Len(objs') :
          objs'[o].id = objs'[p].id /\ objs'[o].id # DEFAULT_TARGET => o = p
    BY <1>3 DEF TargetInv, IdInv
  <2>3. \A a \in Given' : /\ infoId[a] < nextTargetId
                          /\ \A o \in 1 .. Len(objs') : objs'[o].id # infoId[a]
    BY <1>3 DEF TargetInv, IdInv
  <2>4. \A a, b \in Given' : infoId[a] = infoId[b] => a = b
    BY Zenon DEF TargetInv, IdInv
  <2> QED BY <2>1, <2>2, <2>3, <2>4, Zenon DEF IdInv
<1>7. TableInv'
  <2>1. ASSUME NEW id \in Ids, targets'[id] # None
        PROVE  objs'[targets'[id]].id = id /\ objs'[targets'[id]].state = "ready"
    BY <1>1, <1>3, <1>4, <2>1 DEF TargetInv, TableInv, None
  <2>2. ASSUME defaultTarget' # None
        PROVE  /\ objs'[defaultTarget'].id = DEFAULT_TARGET
               /\ objs'[defaultTarget'].state = "ready"
    BY <1>1, <1>3, <1>5, <2>2 DEF TargetInv, TableInv, None
  <2>3. ASSUME NEW o \in 1 .. Len(objs'), objs'[o].id # DEFAULT_TARGET, objs'[o].state = "ready"
        PROVE  targets'[objs'[o].id] = o
    <3>1. objs'[o] \in ObjType
      BY <1>2
    <3>2. objs'[o].id \in Ids
      BY <2>3, <3>1, Zenon DEF ObjType
    <3> QED BY <1>3, <1>4, <2>3, <3>2 DEF TargetInv, TableInv
  <2> QED BY <2>1, <2>2, <2>3, Zenon DEF TableInv
<1>8. ReportInv'
  BY <1>3 DEF TargetInv, ReportInv
<1> QED BY <1>2, <1>4, <1>5, <1>6, <1>7, <1>8, Zenon

(* addTarget() and modifyDefaultTarget(), one thread at a time. *)
LEMMA NewAndGiven ==
  ASSUME TargetInv, NEW a \in Adders, UNCHANGED <<objs, targets, defaultTarget>>,
         pc[a] = "idle", pc' = [pc EXCEPT ![a] = "new"],
         NEW id, infoId' = [infoId EXCEPT ![a] = id]
  PROVE  /\ New' = New \cup {a} /\ a \notin New
         /\ Given' = IF id = DEFAULT_TARGET THEN Given ELSE Given \cup {a}
         /\ a \notin Given
         /\ Cardinality(New') = Cardinality(New) + 1
         /\ Cardinality(Given') = IF id = DEFAULT_TARGET THEN Cardinality(Given)
                                 ELSE Cardinality(Given) + 1
<1>1. pc \in [Adders -> {"idle", "new", "setup"}] /\ infoId \in [Adders -> {DEFAULT_TARGET} \cup Ids]
  BY Zenon DEF TargetInv, TargetTypes
<1>2. New' = New \cup {a} /\ a \notin New /\ a \notin Given
  BY <1>1, Zenon DEF New, Given
<1>3. Given' = IF id = DEFAULT_TARGET THEN Given ELSE Given \cup {a}
  BY <1>1, <1>2 DEF Given
<1>4. Cardinality(New \cup {a}) = Cardinality(New) + 1
  BY <1>2, NewFinite, FS_AddElement, Zenon
<1>5. Cardinality(Given \cup {a}) = Cardinality(Given) + 1
  BY <1>2, NewFinite, FS_AddElement, Zenon
<1> QED BY <1>2, <1>3, <1>4, <1>5, Zenon

(* addTarget() and modifyDefaultTarget() take an id. *)
LEMMA CallKeeps ==
  ASSUME TargetInv, NEW a \in Adders, AddTarget(a) \/ ModifyDefaultTarget(a)
  PROVE  TargetInv'
<1> USE DEF libVars, loggerVars, targetVars, msgVars
<1>1. /\ pc[a] = "idle" /\ Usable /\ CanMake /\ pc' = [pc EXCEPT ![a] = "new"]
      /\ UNCHANGED <<main, libThread, logger, callbacks, objs, targets, defaultTarget>>
  BY Zenon DEF AddTarget, ModifyDefaultTarget
<1>2. PICK id : /\ infoId' = [infoId EXCEPT ![a] = id]
                /\ \/ id = nextTargetId /\ nextTargetId' = nextTargetId + 1 /\ targ' = targ
                   \/ /\ id = DEFAULT_TARGET /\ nextTargetId' = nextTargetId
                      /\ targ' = [targ EXCEPT ![a] = defaultTarget]
  BY Zenon DEF AddTarget, ModifyDefaultTarget
<1>3. /\ New' = New \cup {a} /\ a \notin New
      /\ Given' = IF id = DEFAULT_TARGET THEN Given ELSE Given \cup {a}
      /\ a \notin Given
      /\ Cardinality(New') = Cardinality(New) + 1
      /\ Cardinality(Given') = IF id = DEFAULT_TARGET THEN Cardinality(Given)
                              ELSE Cardinality(Given) + 1
  BY <1>1, <1>2, NewAndGiven, Zenon
<1>4. Len(objs) \in Nat /\ Cardinality(New) \in Nat /\ Cardinality(Given) \in Nat
      /\ MaxObjects \in Nat /\ nextTargetId \in Nat \ {0}
  BY NewFinite, LifecycleAssumption DEF TargetInv, TargetTypes
<1>5. Cardinality(Given) <= Cardinality(New)
  <2>1. Given \in SUBSET New
    BY Zenon DEF Given
  <2> QED BY <2>1, NewFinite, FS_Subset, Zenon
<1>6. Len(objs) + Cardinality(New) < MaxObjects
  BY <1>1, Zenon DEF CanMake, New
<1>7. nextTargetId \in Ids /\ nextTargetId # DEFAULT_TARGET
  BY <1>4, <1>5, <1>6 DEF TargetInv, CountInv, Ids, DEFAULT_TARGET
<1>8. CountInv'
  BY <1>1, <1>2, <1>3, <1>4, <1>6, <1>7 DEF TargetInv, CountInv, Usable, Before
<1>9. TargetTypes'
  <2>1. pc' \in [Adders -> {"idle", "new", "setup"}]
    BY <1>1, Zenon DEF TargetInv, TargetTypes
  <2>2. infoId' \in [Adders -> {DEFAULT_TARGET} \cup Ids]
    BY <1>2, <1>7, Zenon DEF TargetInv, TargetTypes
  <2>3. targ' \in [Adders -> 0 .. Len(objs)]
    BY <1>2, Zenon DEF TargetInv, TargetTypes
  <2>4. nextTargetId' \in Nat \ {0}
    BY <1>2, <1>4
  <2> QED BY <1>1, <2>1, <2>2, <2>3, <2>4, Zenon DEF TargetInv, TargetTypes
<1>10. IdInv'
  <2>1. \A b \in Given : b # a /\ infoId'[b] = infoId[b]
    BY <1>2, <1>3, Zenon DEF Given, New, TargetInv, TargetTypes
  <2>2. infoId'[a] = id
    BY <1>2, Zenon DEF TargetInv, TargetTypes
  <2>3. nextTargetId' >= nextTargetId /\ (id # DEFAULT_TARGET => id = nextTargetId /\ id < nextTargetId')
    BY <1>2, <1>4
  <2>4. \A o \in 1 .. Len(objs) : objs[o].id < nextTargetId /\ objs[o].id \in Nat
    BY <1>4 DEF TargetInv, IdInv, DEFAULT_TARGET, Ids
  <2>5. \A b \in Given : infoId[b] < nextTargetId /\ infoId[b] \in Nat
    BY DEF TargetInv, IdInv, TargetTypes, Given, New, DEFAULT_TARGET, Ids
  <2>6. \A b \in Given' : b \in Given \/ (b = a /\ id # DEFAULT_TARGET)
    BY <1>3, Zenon
  <2>7. \A b \in Given' : /\ infoId'[b] < nextTargetId'
                          /\ \A o \in 1 .. Len(objs) : objs[o].id # infoId'[b]
    BY <1>2, <1>4, <2>1, <2>2, <2>3, <2>4, <2>5, <2>6, SMTT(30) DEF TargetInv, IdInv
  <2>8. \A b, c \in Given' : infoId'[b] = infoId'[c] => b = c
    BY <1>4, <2>1, <2>2, <2>3, <2>5, <2>6 DEF TargetInv, IdInv
  <2>9. \A o \in 1 .. Len(objs) :
          IF objs[o].maker = "addTarget" THEN objs[o].id \in Ids /\ objs[o].id < nextTargetId'
          ELSE objs[o].id = DEFAULT_TARGET
    BY <1>2, <1>4, <2>4 DEF TargetInv, IdInv
  <2> QED BY <1>1, <2>7, <2>8, <2>9, Zenon DEF TargetInv, IdInv
<1>11. TableInv' /\ ReportInv'
  BY <1>1, Zenon DEF TargetInv, TableInv, ReportInv
<1> QED BY <1>8, <1>9, <1>10, <1>11, Zenon DEF TargetInv

(* A thread that leaves "new". *)
LEMMA NoLongerNew ==
  ASSUME TargetInv, NEW a \in Adders, pc[a] = "new", pc' = [pc EXCEPT ![a] = "setup"],
         UNCHANGED infoId
  PROVE  /\ New' = New \ {a} /\ Given' = Given \ {a} /\ Cardinality(New') = Cardinality(New) - 1
         /\ Cardinality(Given') = IF infoId[a] = DEFAULT_TARGET THEN Cardinality(Given)
                                 ELSE Cardinality(Given) - 1
<1>1. pc \in [Adders -> {"idle", "new", "setup"}]
  BY Zenon DEF TargetInv, TargetTypes
<1>2. New' = New \ {a} /\ a \in New
  BY <1>1, Zenon DEF New
<1>3. Given' = Given \ {a} /\ (a \in Given <=> infoId[a] # DEFAULT_TARGET)
  BY <1>2, Zenon DEF Given
<1>4. Cardinality(New \ {a}) = Cardinality(New) - 1
  BY <1>2, NewFinite, FS_RemoveElement, Zenon
<1>5. Cardinality(Given \ {a}) = IF a \in Given THEN Cardinality(Given) - 1 ELSE Cardinality(Given)
  BY NewFinite, FS_RemoveElement, Zenon
<1> QED BY <1>2, <1>3, <1>4, <1>5, Zenon

(* addTarget() and modifyDefaultTarget() make the target that was asked for. *)
LEMMA NewTargetKeeps ==
  ASSUME TargetInv, NEW a \in Adders, NewTarget(a)
  PROVE  TargetInv'
<1> USE DEF libVars, loggerVars, targetVars, msgVars
<1>1. /\ pc[a] = "new" /\ pc' = [pc EXCEPT ![a] = "setup"]
      /\ targ' = [targ EXCEPT ![a] = Len(objs) + 1]
      /\ UNCHANGED <<main, libThread, logger, callbacks, nextTargetId, infoId>>
  BY Zenon DEF NewTarget
<1>2. PICK id \in {DEFAULT_TARGET} \cup Ids : id = infoId[a]
  BY Zenon DEF TargetInv, TargetTypes
<1>3. PICK maker \in Makers, kind \in {"tty", "file", "callback"} :
        /\ Construct(maker, id, kind)
        /\ maker = IF id = DEFAULT_TARGET THEN "modifyDefaultTarget" ELSE "addTarget"
  BY <1>2, LifecycleAssumption, Zenon DEF NewTarget, MakeDefault, MakeAdded, Makers
<1>4. PICK x \in ObjType :
           /\ objs' = Append(objs, x) /\ x.maker = maker /\ x.id = id
           /\ maker = "addTarget" => \/ x.state = "opening" /\ x.reports = <<>>
                                     \/ x.state = "ready" /\ x.reports = <<"ok">>
                                     \/ x.state = "deleted" /\ x.reports = <<"failed">>
           /\ IF x.state # "ready" THEN UNCHANGED <<targets, defaultTarget>>
              ELSE Publish(Len(objs) + 1, id)
  BY <1>3, ConstructIs
<1>5. /\ New' = New \ {a} /\ Given' = Given \ {a} /\ Cardinality(New') = Cardinality(New) - 1
      /\ Cardinality(Given') = IF id = DEFAULT_TARGET THEN Cardinality(Given)
                              ELSE Cardinality(Given) - 1
  BY <1>1, <1>2, NoLongerNew, Zenon
<1>6. id # DEFAULT_TARGET => a \in Given
  BY <1>1, <1>2, Zenon DEF Given, New
<1>7. \A b \in Given' : infoId[b] # id
  <2>1. \A b \in Given : infoId[b] # DEFAULT_TARGET
    BY Zenon DEF Given
  <2> QED BY <1>2, <1>5, <1>6, <2>1, Zenon DEF TargetInv, IdInv
<1>8. id # DEFAULT_TARGET => /\ id < nextTargetId
                             /\ \A o \in 1 .. Len(objs) : objs[o].id # id
  BY <1>2, <1>6, Zenon DEF TargetInv, IdInv
<1>9. /\ objs' \in Seq(ObjType) /\ Len(objs') = Len(objs) + 1
      /\ targets' \in [Ids -> 0 .. Len(objs')] /\ defaultTarget' \in 0 .. Len(objs')
      /\ IdInv' /\ TableInv' /\ ReportInv'
  BY <1>1, <1>3, <1>4, <1>5, <1>7, <1>8, ConstructKeeps, Zenon
<1>10. /\ Len(objs) \in Nat /\ Cardinality(New) \in Nat /\ Cardinality(Given) \in Nat
       /\ MaxObjects \in Nat /\ nextTargetId \in Nat \ {0}
  BY NewFinite, LifecycleAssumption DEF TargetInv, TargetTypes
<1>11. main' \notin Before
  BY <1>1, Zenon DEF TargetInv, CountInv, New
<1>12. CountInv'
  <2>1. CountInv
    BY Zenon DEF TargetInv
  <2>2. (nextTargetId <= Len(objs) + Cardinality(Given) + 1)'
    BY <1>1, <1>5, <1>9, <1>10, <2>1 DEF CountInv
  <2>3. (Len(objs) + Cardinality(New) <= MaxObjects)'
    BY <1>1, <1>5, <1>9, <1>10, <2>1 DEF CountInv
  <2> QED BY <1>11, <2>2, <2>3, Zenon DEF CountInv
<1>13. TargetTypes'
  <2>1. pc' \in [Adders -> {"idle", "new", "setup"}]
    BY <1>1, Zenon DEF TargetInv, TargetTypes
  <2>2. targ' \in [Adders -> 0 .. Len(objs')]
    <3>1. targ \in [Adders -> 0 .. Len(objs)]
      BY Zenon DEF TargetInv, TargetTypes
    <3>2. 0 .. Len(objs) \subseteq 0 .. Len(objs') /\ Len(objs) + 1 \in 0 .. Len(objs')
      BY <1>9, <1>10
    <3> QED BY <1>1, <3>1, <3>2, Zenon
  <2>3. callbacks' \subseteq 1 .. Len(objs')
    BY <1>1, <1>9, <1>10 DEF TargetInv, TargetTypes
  <2> QED BY <1>1, <1>9, <2>1, <2>2, <2>3, Zenon DEF TargetInv, TargetTypes
<1> QED BY <1>9, <1>12, <1>13, Zenon DEF TargetInv

(* modifyDefaultTarget() without a TTY or a file makes no target. *)
LEMMA KeepTargetKeeps ==
  ASSUME TargetInv, NEW a \in Adders, KeepTarget(a)
  PROVE  TargetInv'
<1> USE DEF libVars, loggerVars, targetVars, msgVars
<1>1. /\ pc[a] = "new" /\ infoId[a] = DEFAULT_TARGET /\ pc' = [pc EXCEPT ![a] = "setup"]
      /\ UNCHANGED <<main, libThread, logger, callbacks, nextTargetId, infoId, targ, objs,
                     targets, defaultTarget>>
  BY Zenon DEF KeepTarget
<1>2. /\ New' = New \ {a} /\ Given' = Given \ {a} /\ Cardinality(New') = Cardinality(New) - 1
      /\ Cardinality(Given') = Cardinality(Given)
  BY <1>1, NoLongerNew, ZenonT(30)
<1>3. /\ Len(objs) \in Nat /\ Cardinality(New) \in Nat /\ MaxObjects \in Nat
  BY NewFinite, LifecycleAssumption DEF TargetInv, TargetTypes
<1>4. CountInv'
  BY <1>1, <1>2, <1>3 DEF TargetInv, CountInv
<1>5. TargetTypes'
  BY <1>1, Zenon DEF TargetInv, TargetTypes
<1>6. IdInv'
  BY <1>1, <1>2, Zenon DEF TargetInv, IdInv
<1>7. TableInv' /\ ReportInv'
  BY <1>1, Zenon DEF TargetInv, TableInv, ReportInv
<1> QED BY <1>4, <1>5, <1>6, <1>7, Zenon DEF TargetInv

(* The default target of start(). *)
LEMMA SetupDefaultKeeps ==
  ASSUME TargetInv, SetupDefaultTarget
  PROVE  TargetInv'
<1> USE DEF libVars, loggerVars, targetVars, callVars, msgVars
<1>1. /\ main = "timer" /\ main' = "default" /\ Construct("start", DEFAULT_TARGET, "tty")
      /\ UNCHANGED <<libThread, logger, callbacks, nextTargetId, infoId, targ, pc>>
  BY Zenon DEF SetupDefaultTarget, MainStep
<1>2. PICK x \in ObjType :
           /\ objs' = Append(objs, x) /\ x.maker = "start" /\ x.id = DEFAULT_TARGET
           /\ IF x.state # "ready" THEN UNCHANGED <<targets, defaultTarget>>
              ELSE Publish(Len(objs) + 1, DEFAULT_TARGET)
  BY <1>1, ConstructIs, SMTT(30) DEF Makers
<1>3. New' = New /\ Given' = Given
  BY <1>1, Zenon DEF New, Given
<1>4. \A b \in Given' : infoId[b] # DEFAULT_TARGET
  BY <1>3, Zenon DEF Given
<1>5. /\ objs' \in Seq(ObjType) /\ Len(objs') = Len(objs) + 1
      /\ targets' \in [Ids -> 0 .. Len(objs')] /\ defaultTarget' \in 0 .. Len(objs')
      /\ IdInv' /\ TableInv' /\ ReportInv'
  BY <1>1, <1>2, <1>3, <1>4, ConstructKeeps, ZenonT(30)
<1>6. objs = <<>> /\ New = {} /\ Given = {}
  BY <1>1, Zenon DEF TargetInv, CountInv, Before, Given
<1>7. CountInv'
  <2>1. Len(objs) = 0 /\ Cardinality(New) = 0 /\ Cardinality(Given) = 0
    BY <1>6, FS_EmptySet, Zenon
  <2>2. nextTargetId \in Nat /\ nextTargetId <= 1 /\ MaxObjects \in Nat \ {0}
    BY <2>1, LifecycleAssumption DEF TargetInv, TargetTypes, CountInv
  <2>3. main' \notin Before
    BY <1>1, Zenon DEF Before
  <2> QED BY <1>1, <1>3, <1>5, <2>1, <2>2, <2>3 DEF CountInv
<1>8. Len(objs) \in Nat /\ 0 .. Len(objs) \subseteq 0 .. Len(objs') /\ 1 .. Len(objs) \subseteq 1 .. Len(objs')
  BY <1>5 DEF TargetInv, TargetTypes
<1>9. targ' \in [Adders -> 0 .. Len(objs')]
  BY <1>1, <1>8, Zenon DEF TargetInv, TargetTypes
<1>10. TargetTypes'
  BY <1>1, <1>5, <1>8, <1>9, Zenon DEF TargetInv, TargetTypes
<1> QED BY <1>5, <1>7, <1>10, Zenon DEF TargetInv

(* The setup of a target only sets its callback flag. *)
LEMMA SetUpKeeps ==
  ASSUME TargetInv, NEW a \in Adders, SetUp(a)
  PROVE  TargetInv'
<1> USE DEF libVars, loggerVars, targetVars, msgVars
<1>1. /\ pc[a] = "setup" /\ pc' = [pc EXCEPT ![a] = "idle"] /\ targ' = [targ EXCEPT ![a] = None]
      /\ UNCHANGED <<main, libThread, logger, callbacks, nextTargetId, infoId,
                     targets, defaultTarget>>
  BY Zenon DEF SetUp
<1>2. objs \in Seq(ObjType)
  BY Zenon DEF TargetInv, TargetTypes
<1>3. /\ objs' \in Seq(ObjType) /\ Len(objs') = Len(objs)
      /\ \A o \in 1 .. Len(objs) : /\ objs'[o].maker = objs[o].maker /\ objs'[o].id = objs[o].id
                                   /\ objs'[o].state = objs[o].state
                                   /\ objs'[o].reports = objs[o].reports
  <2>1. CASE objs' = objs
    BY <1>2, <2>1, Zenon
  <2>2. CASE objs' # objs
    <3>1. PICK n \in 1 .. Len(objs), b \in BOOLEAN :
            objs' = [objs EXCEPT ![n].cbSet = objs[n].cbSet \/ b]
      <4>1. /\ targ[a] # None
            /\ \E b \in BOOLEAN : objs' = [objs EXCEPT ![targ[a]].cbSet = @ \/ b]
        BY <2>2, Zenon DEF SetUp
      <4>2. targ[a] \in 1 .. Len(objs)
        BY <1>2, <4>1 DEF TargetInv, TargetTypes, None
      <4> QED BY <4>1, <4>2, Zenon
    <3>2. objs[n] \in ObjType
      BY <1>2
    <3>3. PICK y : y = [objs[n] EXCEPT !.cbSet = objs[n].cbSet \/ b]
      BY Zenon
    <3>4. y \in ObjType /\ y.maker = objs[n].maker /\ y.id = objs[n].id
          /\ y.state = objs[n].state /\ y.reports = objs[n].reports
      BY <3>2, <3>3, Zenon DEF ObjType
    <3>5. objs' = [objs EXCEPT ![n] = y]
      BY <3>1, <3>3, Zenon
    <3> QED BY <1>2, <3>4, <3>5
  <2> QED BY <2>1, <2>2, Zenon
<1>4. callbacks \subseteq 1 .. Len(objs)
  BY Zenon DEF TargetInv, TargetTypes
<1> QED BY <1>1, <1>3, <1>4, ObjectsKept, Zenon DEF TargetInv, TargetTypes

(* handleInternalCmd() and the flush timer only change what a target holds. *)
LEMMA HandleKeeps ==
  ASSUME TargetInv, HandleInternalCmd
  PROVE  TargetInv'
<1> USE DEF libVars, loggerVars, targetVars, callVars, msgVars
<1>1. UNCHANGED <<main, libThread, logger, callbacks, nextTargetId, pc, targ, infoId,
                  targets, defaultTarget>>
  BY Zenon DEF HandleInternalCmd
<1>2. objs \in Seq(ObjType)
  BY Zenon DEF TargetInv, TargetTypes
<1>3. PICK n : objs' = IF n = None THEN objs ELSE [objs EXCEPT ![n].data = TRUE]
  BY Zenon DEF HandleInternalCmd
<1>4. \A r \in ObjType :
        LET y == [r EXCEPT !.data = TRUE]
        IN y \in ObjType /\ y.maker = r.maker /\ y.id = r.id /\ y.state = r.state
           /\ y.reports = r.reports
  BY Zenon DEF ObjType
<1>5. /\ objs' \in Seq(ObjType) /\ Len(objs') = Len(objs)
      /\ \A o \in 1 .. Len(objs) : /\ objs'[o].maker = objs[o].maker /\ objs'[o].id = objs[o].id
                                   /\ objs'[o].state = objs[o].state
                                   /\ objs'[o].reports = objs[o].reports
  <2>1. CASE objs' = objs
    BY <1>2, <2>1, Zenon
  <2>2. CASE objs' = [objs EXCEPT ![n].data = TRUE] /\ n \in 1 .. Len(objs)
    <3>1. PICK y \in ObjType : /\ y = [objs[n] EXCEPT !.data = TRUE] /\ y.maker = objs[n].maker
                               /\ y.id = objs[n].id /\ y.state = objs[n].state
                               /\ y.reports = objs[n].reports
      <4>1. PICK r \in ObjType : r = objs[n]
        BY <1>2, <2>2
      <4>2. PICK y : y = [r EXCEPT !.data = TRUE]
        BY Zenon
      <4>3. y \in ObjType /\ y.maker = r.maker /\ y.id = r.id /\ y.state = r.state
            /\ y.reports = r.reports
        BY <1>4, <4>2, Zenon
      <4> QED BY <4>1, <4>2, <4>3, Zenon
    <3>2. objs' = [objs EXCEPT ![n] = y]
      BY <2>2, <3>1, Zenon
    <3> QED BY <1>2, <2>2, <3>1, <3>2
  <2>3. CASE objs' = [objs EXCEPT ![n].data = TRUE] /\ n \notin 1 .. Len(objs)
    <3>1. objs' = [o \in 1 .. Len(objs) |-> objs[o]]
      <4>1. DOMAIN objs = 1 .. Len(objs)
        BY <1>2
      <4>2. objs' = [o \in DOMAIN objs |->
                       IF o = n THEN [objs[n] EXCEPT !.data = TRUE] ELSE objs[o]]
        BY <2>3, Zenon
      <4> QED BY <2>3, <4>1, <4>2, Zenon
    <3>2. objs = [o \in 1 .. Len(objs) |-> objs[o]]
      BY <1>2
    <3> QED BY <2>1, <3>1, <3>2, Zenon
  <2> QED BY <1>3, <2>1, <2>2, <2>3, Zenon
<1>6. callbacks \subseteq 1 .. Len(objs)
  BY Zenon DEF TargetInv, TargetTypes
<1> QED BY <1>1, <1>5, <1>6, ObjectsKept, Zenon DEF TargetInv, TargetTypes

(* The flush timer changes no target. *)
LEMMA FlushTimerKeeps ==
  ASSUME TargetInv, FlushTimer
  PROVE  TargetInv'
<1> USE DEF libVars, loggerVars, targetVars, callVars, msgVars
<1>1. UNCHANGED <<main, libThread, logger, nextTargetId, pc, targ, infoId, targets, defaultTarget>>
  BY Zenon DEF FlushTimer
<1>2. objs \in Seq(ObjType) /\ DOMAIN objs = 1 .. Len(objs)
  BY DEF TargetInv, TargetTypes
<1>3. PICK R : /\ objs' = [o \in 1 .. Len(objs) |->
                            IF o \in R THEN [objs[o] EXCEPT !.data = FALSE] ELSE objs[o]]
               /\ callbacks' = callbacks \cup {o \in R : HasData(o) /\ objs[o].cbSet}
  BY <1>2, Zenon DEF FlushTimer
<1>4. \A r \in ObjType :
        LET y == [r EXCEPT !.data = FALSE]
        IN y \in ObjType /\ y.maker = r.maker /\ y.id = r.id /\ y.state = r.state
           /\ y.reports = r.reports
  BY Zenon DEF ObjType
<1>5. \A o \in 1 .. Len(objs) : /\ objs'[o] \in ObjType
                                /\ objs'[o].maker = objs[o].maker /\ objs'[o].id = objs[o].id
                                /\ objs'[o].state = objs[o].state
                                /\ objs'[o].reports = objs[o].reports
  BY <1>2, <1>3, <1>4
<1>6. objs' \in Seq(ObjType) /\ Len(objs') = Len(objs)
  <2>1. Len(objs) \in Nat /\ objs' \in [1 .. Len(objs) -> ObjType]
    BY <1>2, <1>3, <1>5
  <2> QED BY <2>1
<1>7. callbacks' \subseteq 1 .. Len(objs)
  BY <1>2, <1>3, Zenon DEF TargetInv, TargetTypes, HasData
<1> QED BY <1>1, <1>5, <1>6, <1>7, ObjectsKept, Zenon DEF TargetInv, TargetTypes

(* A file is open, or could not be opened. *)
LEMMA OnOpenKeeps ==
  ASSUME TargetInv, NEW n \in DOMAIN objs, OnOpen(n)
  PROVE  TargetInv'
<1> USE DEF libVars, loggerVars, callVars, msgVars
<1>1. UNCHANGED <<main, libThread, logger, callbacks, nextTargetId, pc, targ, infoId>>
  BY Zenon DEF OnOpen
<1>2. /\ objs \in Seq(ObjType) /\ n \in 1 .. Len(objs) /\ Len(objs) \in Nat
      /\ targets \in [Ids -> 0 .. Len(objs)] /\ defaultTarget \in 0 .. Len(objs)
  BY DEF TargetInv, TargetTypes
<1>3. PICK r \in ObjType : r = objs[n] /\ r.state = "opening"
  BY <1>2 DEF OnOpen
<1>4. PICK y \in ObjType :
        /\ objs' = [objs EXCEPT ![n] = y] /\ y.maker = r.maker /\ y.id = r.id
        /\ \/ y.state = "ready" /\ Publish(n, r.id) /\ (r.maker = "addTarget" => y.reports = <<"ok">>)
           \/ /\ y.state = "deleted" /\ UNCHANGED <<targets, defaultTarget>>
              /\ r.maker = "addTarget" => y.reports = <<"failed">>
  <2>1. r.maker = "addTarget" => r.reports = <<>>
    BY <1>2, <1>3, Zenon DEF TargetInv, ReportInv
  <2>2. PICK y \in ObjType : /\ y = Reported(r, "ready", "ok") /\ y.maker = r.maker /\ y.id = r.id
                             /\ y.state = "ready" /\ (r.maker = "addTarget" => y.reports = <<"ok">>)
    BY <2>1, ReportedFields, Zenon
  <2>3. PICK z \in ObjType :
          /\ z = Reported(r, "deleted", "failed") /\ z.maker = r.maker /\ z.id = r.id
          /\ z.state = "deleted" /\ (r.maker = "addTarget" => z.reports = <<"failed">>)
    BY <2>1, ReportedFields, Zenon
  <2>4. \/ objs' = [objs EXCEPT ![n] = y] /\ Publish(n, r.id)
        \/ objs' = [objs EXCEPT ![n] = z] /\ UNCHANGED <<targets, defaultTarget>>
    BY <1>3, <2>2, <2>3, Zenon DEF OnOpen
  <2> QED BY <2>2, <2>3, <2>4, Zenon
<1>5. /\ objs' \in Seq(ObjType) /\ Len(objs') = Len(objs) /\ objs'[n] = y
      /\ \A o \in 1 .. Len(objs) : o # n => objs'[o] = objs[o]
      /\ \A o \in 1 .. Len(objs) : objs'[o].maker = objs[o].maker /\ objs'[o].id = objs[o].id
  BY <1>2, <1>3, <1>4
<1>6. DEFAULT_TARGET \notin Ids
  BY DEF DEFAULT_TARGET, Ids
<1>7. /\ targets' \in [Ids -> 0 .. Len(objs)]
      /\ \A id \in Ids : targets'[id] = IF y.state = "ready" /\ id = y.id THEN n ELSE targets[id]
  <2>1. CASE y.state = "ready" /\ y.id # DEFAULT_TARGET
    <3>1. targets' = [targets EXCEPT ![y.id] = n]
      BY <1>4, <2>1, Zenon DEF Publish
    <3>2. n \in 0 .. Len(objs)
      BY <1>2
    <3> QED BY <1>2, <2>1, <3>1, <3>2, Zenon
  <2>2. CASE y.state # "ready" \/ y.id = DEFAULT_TARGET
    <3>1. targets' = targets
      BY <1>4, <2>2, Zenon DEF Publish
    <3> QED BY <1>2, <1>6, <2>2, <3>1, Zenon
  <2> QED BY <2>1, <2>2, Zenon
<1>8. /\ defaultTarget' \in 0 .. Len(objs)
      /\ defaultTarget' = IF y.state = "ready" /\ y.id = DEFAULT_TARGET THEN n ELSE defaultTarget
  BY <1>2, <1>4 DEF Publish
<1>9. New' = New /\ Given' = Given
  BY <1>1, Zenon DEF New, Given
<1>10. TargetTypes'
  BY <1>1, <1>5, <1>7, <1>8, Zenon DEF TargetInv, TargetTypes
<1>11. CountInv'
  BY <1>1, <1>2, <1>5, <1>9 DEF TargetInv, CountInv
<1>12. IdInv'
  BY <1>1, <1>5, <1>9 DEF TargetInv, IdInv
<1>13. TableInv'
  <2>1. ASSUME NEW id \in Ids, targets'[id] # None
        PROVE  objs'[targets'[id]].id = id /\ objs'[targets'[id]].state = "ready"
    <3>1. CASE y.state = "ready" /\ id = y.id
      BY <1>5, <1>7, <3>1, Zenon
    <3>2. CASE targets'[id] = targets[id]
      <4>1. targets[id] \in 1 .. Len(objs) /\ objs[targets[id]].id = id
            /\ objs[targets[id]].state = "ready"
        BY <1>2, <2>1, <3>2 DEF TargetInv, TableInv, None
      <4>2. targets[id] # n
        BY <1>3, <4>1, Zenon
      <4>3. objs'[targets[id]] = objs[targets[id]]
        BY <1>5, <4>1, <4>2, Zenon
      <4> QED BY <3>2, <4>1, <4>3, Zenon
    <3> QED BY <1>7, <3>1, <3>2, Zenon
  <2>2. ASSUME defaultTarget' # None
        PROVE  /\ objs'[defaultTarget'].id = DEFAULT_TARGET
               /\ objs'[defaultTarget'].state = "ready"
    <3>1. CASE y.state = "ready" /\ y.id = DEFAULT_TARGET
      BY <1>5, <1>8, <3>1, Zenon
    <3>2. CASE defaultTarget' = defaultTarget
      <4>1. defaultTarget \in 1 .. Len(objs) /\ objs[defaultTarget].id = DEFAULT_TARGET
            /\ objs[defaultTarget].state = "ready"
        BY <1>2, <2>2, <3>2 DEF TargetInv, TableInv, None
      <4>2. defaultTarget # n
        BY <1>3, <4>1, Zenon
      <4>3. objs'[defaultTarget] = objs[defaultTarget]
        BY <1>5, <4>1, <4>2, Zenon
      <4> QED BY <3>2, <4>1, <4>3, Zenon
    <3> QED BY <1>8, <3>1, <3>2, Zenon
  <2>3. ASSUME NEW o \in 1 .. Len(objs), objs'[o].id # DEFAULT_TARGET, objs'[o].state = "ready"
        PROVE  targets'[objs'[o].id] = o
    <3>1. objs'[o].id = objs[o].id /\ objs[o] \in ObjType
      BY <1>2, <1>5
    <3>2. objs[o].id \in Ids
      BY <2>3, <3>1, Zenon DEF ObjType
    <3>3. CASE o = n
      BY <1>3, <1>4, <1>5, <1>7, <2>3, <3>1, <3>2, <3>3, Zenon
    <3>4. CASE o # n
      <4>1. objs[o].id # y.id
        BY <1>2, <1>3, <1>4, <2>3, <3>1, <3>4, Zenon DEF TargetInv, IdInv
      <4>2. targets[objs[o].id] = o
        BY <1>5, <2>3, <3>1, <3>4, ZenonT(30) DEF TargetInv, TableInv
      <4> QED BY <1>7, <3>1, <3>2, <4>1, <4>2, Zenon
    <3> QED BY <3>3, <3>4, Zenon
  <2> QED BY <1>5, <2>1, <2>2, <2>3, Zenon DEF TableInv
<1>14. ReportInv'
  BY <1>4, <1>5 DEF TargetInv, ReportInv
<1> QED BY <1>10, <1>11, <1>12, <1>13, <1>14, Zenon DEF TargetInv

(* Everything else leaves the targets alone. *)
LEMMA OthersKeep ==
  ASSUME TargetInv, UNCHANGED <<targetVars, callVars>>, callbacks' \subseteq callbacks,
         main' = main \/ (main \in Before /\ main' \in Before) \/ main' \notin Before,
         main' \in {"start", "created", "mutexes", "timer", "default", "started", "done"},
         libThread' \in {"none", "created", "began", "locked", "polling", "ended"},
         logger' \in {"none", "created", "polling", "draining"}
  PROVE  TargetInv'
<1> USE DEF targetVars, callVars
<1>1. objs \in Seq(ObjType) /\ callbacks \subseteq 1 .. Len(objs)
  BY Zenon DEF TargetInv, TargetTypes
<1> QED BY <1>1, ObjectsKept, Zenon

(* Every step keeps what is said of the targets. *)
LEMMA TargetStep == TargetInv /\ [Next]_vars => TargetInv'
<1> SUFFICES ASSUME TargetInv, [Next]_vars PROVE TargetInv'
  BY Zenon
<1>0. /\ main \in {"start", "created", "mutexes", "timer", "default", "started", "done"}
      /\ libThread \in {"none", "created", "began", "locked", "polling", "ended"}
      /\ logger \in {"none", "created", "polling", "draining"}
  BY Zenon DEF TargetInv, TargetTypes
<1>1. CASE UNCHANGED vars
  BY <1>0, <1>1, OthersKeep, Zenon DEF vars, libVars, loggerVars, msgVars
<1>2. CASE SetupDefaultTarget
  BY <1>2, SetupDefaultKeeps, Zenon
<1>3. CASE CreateLib \/ InitMutex \/ StartTimer \/ CreateLogger
  BY <1>0, <1>3, OthersKeep, Zenon
  DEF CreateLib, InitMutex, StartTimer, CreateLogger, MainStep, libVars, loggerVars, msgVars, Before
<1>4. CASE Shutdown \/ WaitOnGreaseShutdown
  BY <1>0, <1>4, OthersKeep, Zenon
  DEF Shutdown, WaitOnGreaseShutdown, MainStep, libVars, loggerVars, msgVars, Before
<1>5. CASE LibBegin \/ LibLock \/ LibRun \/ CallV8LogCallbacks
  BY <1>0, <1>5, OthersKeep, Zenon
  DEF LibBegin, LibLock, LibRun, CallV8LogCallbacks, libVars, loggerVars, msgVars
<1>6. CASE PollRedirected \/ ReadRedirected \/ CallRedirect \/ OthersWrite
  BY <1>0, <1>6, OthersKeep, Zenon
  DEF PollRedirected, ReadRedirected, CallRedirect, OthersWrite, libVars, msgVars
<1>7. CASE MainThread \/ WakeUp \/ Drained
  BY <1>0, <1>7, OthersKeep, Zenon
  DEF MainThread, WakeUp, Drained, LoggerStep, libVars, msgVars
<1>8. CASE HandleInternalCmd \/ FlushTimer \/ \E o \in DOMAIN objs : OnOpen(o)
  BY <1>8, HandleKeeps, FlushTimerKeeps, OnOpenKeeps, Zenon
<1>9. ASSUME NEW a \in Adders, AdderNext(a) PROVE TargetInv'
  BY <1>9, NewTargetKeeps, KeepTargetKeeps, SetUpKeeps, Zenon DEF AdderNext
<1>10. ASSUME NEW a \in Adders, AddTarget(a) \/ ModifyDefaultTarget(a) PROVE TargetInv'
  BY <1>10, CallKeeps, Zenon
<1>11. ASSUME NEW id, Log(id) PROVE TargetInv'
  BY <1>0, <1>11, OthersKeep, Zenon DEF Log, libVars
<1> QED BY <1>1, <1>2, <1>3, <1>4, <1>5, <1>6, <1>7, <1>8, <1>9, <1>10, <1>11, Zenon
        DEF Next, StartNext, LibNext, LoggerNext, Calls

(* The logger thread never finds a target that is being opened or that was   *)
(* deleted, nor one made for another id, whatever threads add targets and    *)
(* replace the default one.                                                  *)
THEOREM TargetsStayAlive == Spec => []RoutedTargetsAlive
<1>1. TargetInv => RoutedTargetsAlive
  <2> SUFFICES ASSUME TargetInv PROVE RoutedTargetsAlive
    BY Zenon
  <2>1. Len(objs) <= MaxObjects
    BY NewFinite, LifecycleAssumption DEF TargetInv, TargetTypes, CountInv
  <2>2. callbacks \subseteq DOMAIN objs
    BY DEF TargetInv, TargetTypes
  <2> QED BY <2>1, <2>2, Zenon DEF TargetInv, TargetTypes, TableInv, RoutedTargetsAlive
<1> QED BY <1>1, TargetInit, TargetStep, PTL DEF Spec

(* addTarget(): the callback with the new id is called at most once, and with *)
(* an id only if the table has this very target under it.                     *)
THEOREM AnswersTrue == Spec => []StartReported
<1>1. TargetInv => StartReported
  <2> SUFFICES ASSUME TargetInv, NEW o \in DOMAIN objs, objs[o].maker = "addTarget"
               PROVE  /\ objs[o].reports = <<>> <=> objs[o].state = "opening"
                      /\ objs[o].reports = <<"ok">> <=> targets[objs[o].id] = o
                      /\ Len(objs[o].reports) <= 1
    BY Zenon DEF StartReported
  <2>1. o \in 1 .. Len(objs)
    BY DEF TargetInv, TargetTypes
  <2>2. \/ objs[o].state = "opening" /\ objs[o].reports = <<>>
        \/ objs[o].state = "ready" /\ objs[o].reports = <<"ok">>
        \/ objs[o].state = "deleted" /\ objs[o].reports = <<"failed">>
    BY <2>1, Zenon DEF TargetInv, ReportInv
  <2>3. objs[o].id \in Ids /\ objs[o].id # DEFAULT_TARGET
    BY <2>1 DEF TargetInv, IdInv, Ids, DEFAULT_TARGET
  <2>4. objs[o].state = "ready" <=> targets[objs[o].id] = o
    BY <2>1, <2>3 DEF TargetInv, TableInv, None
  <2>5. <<"ok">> # <<"failed">> /\ <<"ok">> # <<>> /\ <<"failed">> # <<>>
    BY Zenon
  <2>6. Len(<<"ok">>) = 1 /\ Len(<<"failed">>) = 1 /\ Len(<<>>) = 0
    BY Zenon
  <2>7. Len(objs[o].reports) <= 1
    <3>1. Len(objs[o].reports) = 1 \/ Len(objs[o].reports) = 0
      BY <2>2, <2>6, Zenon
    <3>2. \A l : l = 1 \/ l = 0 => l <= 1
      OBVIOUS
    <3> QED BY <3>1, <3>2, Zenon
  <2>8. PICK st, rp : st = objs[o].state /\ rp = objs[o].reports
    BY Zenon
  <2>9. (rp = <<>> <=> st = "opening") /\ (rp = <<"ok">> <=> st = "ready")
    <3>1. PICK e, k, f : e = <<>> /\ k = <<"ok">> /\ f = <<"failed">>
      BY Zenon
    <3>2. e # k /\ k # f /\ e # f
      BY <2>5, <3>1, Zenon
    <3>3. \/ st = "opening" /\ rp = e
          \/ st = "ready" /\ rp = k
          \/ st = "deleted" /\ rp = f
      BY <2>2, <2>8, <3>1, Zenon
    <3>4. (rp = e <=> st = "opening") /\ (rp = k <=> st = "ready")
      BY <3>2, <3>3, Zenon
    <3> QED BY <3>1, <3>4, Zenon
  <2> QED BY <2>4, <2>7, <2>8, <2>9, Zenon
<1> QED BY <1>1, TargetInit, TargetStep, PTL DEF Spec

-----------------------------------------------------------------------------
(* The inductive invariant of the descriptors. *)

StreamType == [written : Nat, unread : Nat, ended : BOOLEAN]
TicketType == [fd : Fds, origin : Nat, closed : BOOLEAN, polling : BOOLEAN, alive : BOOLEAN]

RedirectTypes ==
  /\ streams \in Seq(StreamType) /\ tickets \in Seq(TicketType)
  /\ pipe \in [Fds -> 0 .. Len(streams)] /\ watchers \in [Fds -> 0 .. Len(tickets)]
  /\ table \in [RedirectKinds -> [Fds -> 0 .. Len(tickets)]]
  /\ callback \in [ticket : 0 .. Len(tickets), at : {"none", "read", "stop"}]
  /\ reported \in Seq(Nat) /\ raced \in BOOLEAN

(* A stream is read by one descriptor; tickets are where they belong. *)
PlaceInv ==
  /\ \A f, g \in Fds : pipe[f] = pipe[g] /\ pipe[f] # None => f = g
  /\ \A k \in RedirectKinds, fd \in Fds :
       table[k][fd] # None => tickets[table[k][fd]].fd = fd
  /\ \A fd \in Fds : watchers[fd] # None => tickets[watchers[fd]].fd = fd
  /\ callback.ticket = None <=> callback.at = "none"

(* All of a stream was read, and no descriptor reads it any more. *)
Finished(s) ==
  /\ s \in 1 .. Len(streams) /\ streams[s].ended /\ streams[s].unread = 0
  /\ \A fd \in Fds : pipe[fd] # s

(* A descriptor is watched for the ticket of the stream it reads, until the  *)
(* callback has closed it and stops the handle.                              *)
WatchInv ==
  /\ \A fd \in Fds : watchers[fd] # None =>
       IF tickets[watchers[fd]].closed
       THEN callback.ticket = watchers[fd] /\ callback.at = "stop"
       ELSE pipe[fd] # None /\ tickets[watchers[fd]].origin = pipe[fd]
  /\ callback.ticket # None =>
       /\ watchers[tickets[callback.ticket].fd] = callback.ticket
       /\ tickets[callback.ticket].closed <=> callback.at = "stop"

ToldInv ==
  /\ callback.at = "stop" =>
       /\ Finished(tickets[callback.ticket].origin)
       /\ \A i \in 1 .. Len(reported) : reported[i] # tickets[callback.ticket].origin
  /\ \A i \in 1 .. Len(reported) : Finished(reported[i])
  /\ \A i, j \in 1 .. Len(reported) : reported[i] = reported[j] => i = j
  /\ \A r \in redirected : r.origin = r.stream

RedirectInv == RedirectTypes /\ PlaceInv /\ (~raced /\ ~crashed => WatchInv /\ ToldInv)

-----------------------------------------------------------------------------

(* Before a descriptor is added. *)
LEMMA RedirectInit == Init => RedirectInv
<1> SUFFICES ASSUME Init PROVE RedirectInv
  BY Zenon
<1> USE DEF Init, InitRedirect
<1>1. RedirectTypes
  <2>1. /\ streams \in Seq(StreamType) /\ tickets \in Seq(TicketType) /\ reported \in Seq(Nat)
        /\ Len(streams) = 0 /\ Len(tickets) = 0
    OBVIOUS
  <2>2. pipe \in [Fds -> 0 .. Len(streams)] /\ watchers \in [Fds -> 0 .. Len(tickets)]
    BY <2>1 DEF None
  <2>3. table \in [RedirectKinds -> [Fds -> 0 .. Len(tickets)]]
    BY <2>1 DEF None
  <2>4. callback \in [ticket : 0 .. Len(tickets), at : {"none", "read", "stop"}]
    BY <2>1 DEF NoCallback, None
  <2> QED BY <2>1, <2>2, <2>3, <2>4, Zenon DEF RedirectTypes
<1>2. PlaceInv
  BY Zenon DEF PlaceInv, NoCallback, None
<1>3. WatchInv
  BY Zenon DEF WatchInv, NoCallback, None
<1>4. ToldInv
  BY DEF ToldInv, NoCallback
<1> QED BY <1>1, <1>2, <1>3, <1>4, Zenon DEF RedirectInv

(* The sequences have lengths, and None is the place before the first. *)
LEMMA Lengths ==
  ASSUME RedirectTypes
  PROVE  /\ Len(tickets) \in Nat /\ Len(streams) \in Nat /\ Len(reported) \in Nat
         /\ None \in 0 .. Len(tickets) /\ None \in 0 .. Len(streams)
<1>1. Len(tickets) \in Nat /\ Len(streams) \in Nat /\ Len(reported) \in Nat
  BY DEF RedirectTypes
<1>2. \A l \in Nat : 0 \in 0 .. l
  OBVIOUS
<1> QED BY <1>1, <1>2, Zenon DEF None

(* The fields of a ticket. *)
LEMMA TicketIs ==
  ASSUME RedirectTypes, NEW t \in 1 .. Len(tickets)
  PROVE  /\ tickets[t] \in TicketType /\ tickets[t].fd \in Fds /\ tickets[t].origin \in Nat
         /\ tickets[t].closed \in BOOLEAN
<1>1. tickets[t] \in TicketType
  BY DEF RedirectTypes
<1> QED BY <1>1, Zenon DEF TicketType

(* A descriptor in a table has a ticket, ... *)
LEMMA TableIn ==
  ASSUME RedirectTypes, NEW k \in RedirectKinds, NEW g \in Fds, table[k][g] # None
  PROVE  table[k][g] \in 1 .. Len(tickets)
<1>1. table[k][g] \in 0 .. Len(tickets) /\ Len(tickets) \in Nat
  BY DEF RedirectTypes
<1> QED BY <1>1 DEF None

(* ... so has a callback that runs, ... *)
LEMMA CallbackIn ==
  ASSUME RedirectTypes, callback.ticket # None
  PROVE  LET t == callback.ticket IN
         /\ t \in 1 .. Len(tickets) /\ tickets[t] \in TicketType
         /\ tickets[t].fd \in Fds /\ tickets[t].origin \in Nat /\ tickets[t].closed \in BOOLEAN
<1>1. callback.ticket \in 0 .. Len(tickets) /\ Len(tickets) \in Nat
  BY DEF RedirectTypes
<1>2. callback.ticket \in 1 .. Len(tickets)
  BY <1>1 DEF None
<1> QED BY <1>2, TicketIs, Zenon

(* ... and a descriptor that is watched. *)
LEMMA WatcherIn ==
  ASSUME RedirectTypes, NEW g \in Fds, watchers[g] # None
  PROVE  watchers[g] \in 1 .. Len(tickets)
BY DEF RedirectTypes, None

(* A step that leaves the descriptors alone. *)
LEMMA RedirectQuiet ==
  ASSUME RedirectInv, UNCHANGED redirectVars, ~crashed \/ UNCHANGED crashed
  PROVE  RedirectInv'
<1> USE DEF redirectVars
<1>1. RedirectTypes' /\ PlaceInv'
  BY Zenon DEF RedirectInv, RedirectTypes, PlaceInv
<1>2. \A s : Finished(s)' <=> Finished(s)
  BY Zenon DEF Finished
<1>3. WatchInv => WatchInv'
  BY Zenon DEF WatchInv
<1>4. ToldInv => ToldInv'
  BY <1>2, Zenon DEF ToldInv
<1> QED BY <1>1, <1>3, <1>4, Zenon DEF RedirectInv

(* Other processes open a pipe, ... *)
LEMMA OpenPipeKeeps ==
  ASSUME RedirectInv, ~crashed, NEW fd \in Fds, OpenPipe(fd)
  PROVE  RedirectInv'
<1> DEFINE x == [written |-> 0, unread |-> 0, ended |-> FALSE]
<1>1. /\ pipe[fd] = None /\ streams' = Append(streams, x)
      /\ pipe' = [pipe EXCEPT ![fd] = Len(streams) + 1]
      /\ UNCHANGED <<tickets, table, watchers, callback, redirected, reported, raced, crashed>>
  BY Zenon DEF OpenPipe
<1>2. x \in StreamType
  BY Zenon DEF StreamType
<1> HIDE DEF x
<1>3. streams \in Seq(StreamType) /\ Len(streams) \in Nat /\ pipe \in [Fds -> 0 .. Len(streams)]
  BY DEF RedirectInv, RedirectTypes
<1>4. /\ streams' \in Seq(StreamType) /\ Len(streams') = Len(streams) + 1
      /\ \A s \in 1 .. Len(streams) : streams'[s] = streams[s]
  BY <1>1, <1>2, <1>3
<1>5. /\ pipe' \in [Fds -> 0 .. Len(streams')] /\ pipe'[fd] = Len(streams) + 1
      /\ \A g \in Fds : g # fd => pipe'[g] = pipe[g]
  BY <1>1, <1>3, <1>4
<1>6. RedirectTypes'
  BY <1>1, <1>4, <1>5, Zenon DEF RedirectInv, RedirectTypes
<1>7. PlaceInv'
  <2>1. \A g \in Fds : pipe[g] # Len(streams) + 1
    BY <1>3
  <2> QED BY <1>1, <1>5, <2>1, Zenon DEF RedirectInv, PlaceInv
<1>8. ASSUME ~raced' /\ ~crashed' PROVE WatchInv' /\ ToldInv'
  <2>1. WatchInv /\ ToldInv
    BY <1>1, <1>8, Zenon DEF RedirectInv
  <2>2. \A s : Finished(s) => Finished(s)'
    BY <1>3, <1>4, <1>5, SMTT(30) DEF Finished
  <2>3. ASSUME NEW g \in Fds, watchers[g] # None, ~tickets[watchers[g]].closed
        PROVE  pipe'[g] # None /\ tickets[watchers[g]].origin = pipe'[g]
    BY <1>1, <1>5, <2>1, <2>3, Zenon DEF WatchInv
  <2>4. WatchInv'
    BY <1>1, <2>1, <2>3, Zenon DEF WatchInv
  <2>5. ToldInv'
    BY <1>1, <2>1, <2>2, Zenon DEF ToldInv
  <2> QED BY <2>4, <2>5, Zenon
<1> QED BY <1>6, <1>7, <1>8, Zenon DEF RedirectInv

(* ... write to it, or close their end. *)
LEMMA WritePipeKeeps ==
  ASSUME RedirectInv, ~crashed, NEW s \in DOMAIN streams, WritePipe(s)
  PROVE  RedirectInv'
<1>1. /\ ~streams[s].ended
      /\ UNCHANGED <<pipe, tickets, table, watchers, callback, redirected, reported, raced, crashed>>
  BY Zenon DEF WritePipe
<1>2. streams \in Seq(StreamType) /\ s \in 1 .. Len(streams) /\ streams[s] \in StreamType
  BY DEF RedirectInv, RedirectTypes
<1>3. PICK y \in StreamType : streams' = [streams EXCEPT ![s] = y]
  <2>1. PICK r \in StreamType : r = streams[s]
    BY <1>2, Zenon
  <2>2. CASE streams' = [streams EXCEPT ![s] = [written |-> @.written + 1, unread |-> @.unread + 1,
                                               ended |-> FALSE]]
    <3>1. [written |-> r.written + 1, unread |-> r.unread + 1, ended |-> FALSE] \in StreamType
      BY DEF StreamType
    <3> QED BY <2>1, <2>2, <3>1, Zenon
  <2>3. CASE streams' = [streams EXCEPT ![s].ended = TRUE]
    <3>1. streams' = [streams EXCEPT ![s] = [r EXCEPT !.ended = TRUE]]
      BY <1>2, <2>1, <2>3, Zenon
    <3>2. [r EXCEPT !.ended = TRUE] \in StreamType
      BY Zenon DEF StreamType
    <3> QED BY <3>1, <3>2, Zenon
  <2> QED BY <2>2, <2>3, Zenon DEF WritePipe
<1>4. /\ streams' \in Seq(StreamType) /\ Len(streams') = Len(streams)
      /\ \A i \in 1 .. Len(streams) : i # s => streams'[i] = streams[i]
  BY <1>2, <1>3
<1>5. RedirectTypes' /\ PlaceInv'
  BY <1>1, <1>4, Zenon DEF RedirectInv, RedirectTypes, PlaceInv
<1>6. \A i : Finished(i) => Finished(i)'
  BY <1>1, <1>4, Zenon DEF Finished
<1>7. WatchInv => WatchInv'
  BY <1>1, Zenon DEF WatchInv
<1>8. ToldInv => ToldInv'
  BY <1>1, <1>6, Zenon DEF ToldInv
<1> QED BY <1>1, <1>5, <1>7, <1>8, Zenon DEF RedirectInv


(* A deleted ticket keeps the descriptor, the origin and the closed flag it had. *)
LEMMA DeletedIs ==
  ASSUME RedirectTypes, NEW t \in 0 .. Len(tickets)
  PROVE  LET d == Deleted(t)
         IN /\ d \in Seq(TicketType) /\ Len(d) = Len(tickets)
            /\ \A i \in 1 .. Len(tickets) : /\ d[i].fd = tickets[i].fd /\ d[i].origin = tickets[i].origin
                                            /\ d[i].closed = tickets[i].closed
<1>1. tickets \in Seq(TicketType) /\ Len(tickets) \in Nat
  BY DEF RedirectTypes
<1>2. CASE t = None
  BY <1>1, <1>2, Zenon DEF Deleted
<1>3. CASE t # None
  <2>1. t \in 1 .. Len(tickets) /\ tickets[t] \in TicketType
    BY <1>1, <1>3 DEF None
  <2>2. PICK q : q = [tickets EXCEPT ![t].polling = FALSE]
    BY Zenon
  <2>3. /\ q \in Seq(TicketType) /\ Len(q) = Len(tickets)
        /\ \A i \in 1 .. Len(tickets) : /\ q[i].fd = tickets[i].fd /\ q[i].origin = tickets[i].origin
                                        /\ q[i].closed = tickets[i].closed
    <3>1. PICK r \in TicketType : r = tickets[t]
      BY <2>1, Zenon
    <3>2. PICK y : y = [r EXCEPT !.polling = FALSE]
      BY Zenon
    <3>3. y \in TicketType /\ y.fd = r.fd /\ y.origin = r.origin /\ y.closed = r.closed
      BY <3>2, Zenon DEF TicketType
    <3>4. q = [tickets EXCEPT ![t] = y]
      BY <2>2, <3>1, <3>2, Zenon
    <3> QED BY <1>1, <2>1, <3>1, <3>3, <3>4
  <2>4. PICK d : d = [q EXCEPT ![t].alive = FALSE]
    BY Zenon
  <2>5. /\ d \in Seq(TicketType) /\ Len(d) = Len(tickets)
        /\ \A i \in 1 .. Len(tickets) : /\ d[i].fd = q[i].fd /\ d[i].origin = q[i].origin
                                        /\ d[i].closed = q[i].closed
    <3>1. PICK r \in TicketType : r = q[t]
      BY <2>1, <2>3
    <3>2. PICK y : y = [r EXCEPT !.alive = FALSE]
      BY Zenon
    <3>3. y \in TicketType /\ y.fd = r.fd /\ y.origin = r.origin /\ y.closed = r.closed
      BY <3>2, Zenon DEF TicketType
    <3>4. d = [q EXCEPT ![t] = y]
      BY <2>4, <3>1, <3>2, Zenon
    <3>5. q \in Seq(TicketType) /\ t \in 1 .. Len(q) /\ Len(q) = Len(tickets)
      BY <2>1, <2>3, Zenon
    <3> QED BY <3>1, <3>3, <3>4, <3>5
  <2>6. d = Deleted(t)
    BY <1>3, <2>2, <2>4, Zenon DEF Deleted
  <2> QED BY <2>3, <2>5, <2>6, Zenon
<1> QED BY <1>2, <1>3, Zenon

(* A stopped handle leaves the loop, and no other does. *)
LEMMA UnwatchedIs ==
  ASSUME RedirectTypes, NEW t \in 0 .. Len(tickets)
  PROVE  /\ Unwatched(t) \in [Fds -> 0 .. Len(tickets)]
         /\ \A g \in Fds : Unwatched(t)[g] =
              IF t # None /\ g = tickets[t].fd /\ watchers[g] = t THEN None ELSE watchers[g]
<1>1. watchers \in [Fds -> 0 .. Len(tickets)] /\ None \in 0 .. Len(tickets)
  BY DEF RedirectTypes, None
<1> QED BY <1>1, Zenon DEF Unwatched


(* addFDForStdout(), addFDForStderr(): unless the process is told so by an   *)
(* assertion, the descriptor was watched for the old ticket or not at all.   *)
LEMMA AddFDKeeps ==
  ASSUME RedirectInv, ~crashed, NEW kind \in RedirectKinds, NEW fd \in Fds, AddFD(kind, fd)
  PROVE  RedirectInv'
<1>1. PICK old \in 0 .. Len(tickets) : old = table[kind][fd]
  BY Zenon DEF RedirectInv, RedirectTypes
<1>2. PICK new : new = Len(tickets) + 1
  BY Zenon
<1>3. PICK x : x = Ticket(fd)
  BY Zenon
<1>4. PICK d : d = Deleted(old)
  BY Zenon
<1>5. PICK u : u = Unwatched(old)
  BY Zenon
<1>6. /\ pipe[fd] # None /\ tickets' = Append(d, x)
      /\ table' = [table EXCEPT ![kind][fd] = new] /\ watchers' = [u EXCEPT ![fd] = new]
      /\ raced' = (raced \/ Busy(fd, old))
      /\ Dies(StopAborts(old) \/ u[fd] # None,
              ListEndsInFreed \/ (old # None /\ callback.ticket = old))
      /\ UNCHANGED <<pipe, streams, callback, redirected, reported>>
  BY <1>1, <1>2, <1>3, <1>4, <1>5, Zenon DEF AddFD
<1>7. RedirectTypes /\ PlaceInv
  BY Zenon DEF RedirectInv
<1>8. /\ d \in Seq(TicketType) /\ Len(d) = Len(tickets) /\ Len(tickets) \in Nat
      /\ \A i \in 1 .. Len(tickets) : /\ d[i].fd = tickets[i].fd /\ d[i].origin = tickets[i].origin
                                      /\ d[i].closed = tickets[i].closed
  BY <1>4, <1>7, DeletedIs, Lengths, ZenonT(30)
<1>9. /\ u \in [Fds -> 0 .. Len(tickets)]
      /\ \A g \in Fds : u[g] = IF old # None /\ g = tickets[old].fd /\ watchers[g] = old THEN None
                               ELSE watchers[g]
  BY <1>5, <1>7, UnwatchedIs, Zenon
<1>10. /\ x \in TicketType /\ x.fd = fd /\ x.origin = pipe[fd] /\ x.closed = FALSE
  BY <1>3, <1>7 DEF Ticket, TicketType, RedirectTypes
<1>11. /\ tickets' \in Seq(TicketType) /\ Len(tickets') = new /\ tickets'[new] = x
       /\ new \in 1 .. Len(tickets') /\ new # None
       /\ \A i \in 1 .. Len(tickets) :
            /\ tickets'[i].fd = tickets[i].fd /\ tickets'[i].origin = tickets[i].origin
            /\ tickets'[i].closed = tickets[i].closed
  <2>1. tickets' \in Seq(TicketType) /\ Len(tickets') = new /\ tickets'[new] = x
        /\ new \in 1 .. Len(tickets') /\ new # None
    BY <1>2, <1>6, <1>8, <1>10 DEF None
  <2>2. \A i \in 1 .. Len(tickets) : tickets'[i] = d[i]
    BY <1>6, <1>8
  <2> QED BY <1>8, <2>1, <2>2, Zenon
<1>12. 0 .. Len(tickets) \subseteq 0 .. Len(tickets') /\ new \in 0 .. Len(tickets')
  <2>1. PICK n \in Nat : n = Len(tickets)
    BY <1>8, Zenon
  <2>2. Len(tickets') = n + 1 /\ new = n + 1
    BY <1>2, <1>11, <2>1, Zenon
  <2>3. 0 .. n \subseteq 0 .. (n + 1) /\ n + 1 \in 0 .. (n + 1)
    OBVIOUS
  <2> QED BY <2>1, <2>2, <2>3, Zenon
<1>13. /\ watchers' \in [Fds -> 0 .. Len(tickets')] /\ watchers'[fd] = new
       /\ \A g \in Fds : g # fd => watchers'[g] = u[g]
  BY <1>6, <1>9, <1>12, Zenon
<1>14. /\ table' \in [RedirectKinds -> [Fds -> 0 .. Len(tickets')]]
       /\ \A k \in RedirectKinds, g \in Fds :
            table'[k][g] = IF k = kind /\ g = fd THEN new ELSE table[k][g]
  <2>1. table \in [RedirectKinds -> [Fds -> 0 .. Len(tickets')]]
    BY <1>7, <1>12 DEF RedirectTypes
  <2> QED BY <1>6, <1>12, <2>1, Zenon
<1>15. RedirectTypes'
  <2>1. callback' \in [ticket : 0 .. Len(tickets'), at : {"none", "read", "stop"}]
    BY <1>6, <1>7, <1>12, Zenon DEF RedirectTypes
  <2>2. raced' \in BOOLEAN
    BY <1>6, <1>7, Zenon DEF RedirectTypes
  <2> QED BY <1>6, <1>7, <1>11, <1>13, <1>14, <2>1, <2>2, ZenonT(30) DEF RedirectTypes
<1>16. old # None => tickets[old].fd = fd
  BY <1>1, <1>7, Zenon DEF PlaceInv
<1>17. \A g \in Fds : g # fd => watchers'[g] = watchers[g]
  BY <1>9, <1>13, <1>16, Zenon
<1>18. PlaceInv'
  <2>1. \A k \in RedirectKinds, g \in Fds : table'[k][g] # None => tickets'[table'[k][g]].fd = g
    <3> SUFFICES ASSUME NEW k \in RedirectKinds, NEW g \in Fds, table'[k][g] # None
                 PROVE  tickets'[table'[k][g]].fd = g
      BY Zenon
    <3>1. CASE k = kind /\ g = fd
      BY <1>10, <1>11, <1>14, <3>1, ZenonT(30)
    <3>2. CASE ~(k = kind /\ g = fd)
      <4>1. table'[k][g] = table[k][g] /\ table[k][g] # None
        BY <1>14, <3>2, Zenon
      <4>2. table[k][g] \in 1 .. Len(tickets)
        BY <1>7, <4>1, TableIn, Zenon
      <4>3. tickets[table[k][g]].fd = g
        BY <1>7, <4>1, Zenon DEF PlaceInv
      <4>4. tickets'[table[k][g]].fd = tickets[table[k][g]].fd
        BY <1>11, <4>2, Zenon
      <4> QED BY <4>1, <4>3, <4>4, Zenon
    <3> QED BY <3>1, <3>2, Zenon
  <2>2. \A g \in Fds : watchers'[g] # None => tickets'[watchers'[g]].fd = g
    <3> SUFFICES ASSUME NEW g \in Fds, watchers'[g] # None
                 PROVE  tickets'[watchers'[g]].fd = g
      BY Zenon
    <3>1. CASE g = fd
      BY <1>10, <1>11, <1>13, <3>1, Zenon
    <3>2. CASE g # fd
      <4>1. watchers'[g] = watchers[g] /\ watchers[g] # None
        BY <1>17, <3>2, Zenon
      <4>2. watchers[g] \in 1 .. Len(tickets)
        BY <1>7, <4>1, WatcherIn, Zenon
      <4>3. tickets[watchers[g]].fd = g
        BY <1>7, <4>1, Zenon DEF PlaceInv
      <4>4. tickets'[watchers[g]].fd = tickets[watchers[g]].fd
        BY <1>11, <4>2, Zenon
      <4> QED BY <4>1, <4>3, <4>4, Zenon
    <3> QED BY <3>1, <3>2, Zenon
  <2> QED BY <1>6, <1>7, <2>1, <2>2, ZenonT(30) DEF PlaceInv
<1>19. ASSUME ~raced' /\ ~crashed' PROVE WatchInv' /\ ToldInv'
  <2>1. WatchInv /\ ToldInv /\ ~Busy(fd, old)
    BY <1>6, <1>7, <1>19, ZenonT(30) DEF RedirectInv, RedirectTypes
  <2>2. callback.ticket # None => /\ callback.ticket \in 1 .. Len(tickets)
                                 /\ tickets[callback.ticket].fd \in Fds
                                 /\ tickets[callback.ticket].fd # fd
    BY <1>7, <2>1, CallbackIn, Zenon DEF Busy
  <2>3. ASSUME NEW g \in Fds, watchers'[g] # None
        PROVE  IF tickets'[watchers'[g]].closed
               THEN callback.ticket = watchers'[g] /\ callback.at = "stop"
               ELSE pipe[g] # None /\ tickets'[watchers'[g]].origin = pipe[g]
    <3>1. CASE g = fd
      BY <1>6, <1>10, <1>11, <1>13, <3>1, Zenon
    <3>2. CASE g # fd
      <4>0. watchers'[g] = watchers[g] /\ watchers[g] # None
        BY <1>17, <2>3, <3>2, Zenon
      <4>1. watchers'[g] = watchers[g] /\ watchers[g] \in 1 .. Len(tickets)
        BY <1>7, <4>0, WatcherIn, Zenon
      <4>2. /\ tickets'[watchers[g]].closed = tickets[watchers[g]].closed
            /\ tickets'[watchers[g]].origin = tickets[watchers[g]].origin
        BY <1>11, <4>1, Zenon
      <4>3. watchers[g] # None
        BY <2>3, <4>1, Zenon
      <4> QED BY <2>1, <4>1, <4>2, <4>3, ZenonT(30) DEF WatchInv
    <3> QED BY <3>1, <3>2, Zenon
  <2>4. ASSUME callback.ticket # None
        PROVE  /\ watchers'[tickets'[callback.ticket].fd] = callback.ticket
               /\ tickets'[callback.ticket].closed <=> callback.at = "stop"
    <3>1. PICK c : c = callback.ticket
      BY Zenon
    <3>2. c \in 1 .. Len(tickets) /\ tickets[c].fd \in Fds /\ tickets[c].fd # fd
      BY <2>2, <2>4, <3>1, Zenon
    <3>3. tickets'[c].fd = tickets[c].fd /\ tickets'[c].closed = tickets[c].closed
      BY <1>11, <3>2, Zenon
    <3>4. watchers'[tickets[c].fd] = watchers[tickets[c].fd]
      BY <1>17, <3>2, Zenon
    <3>5. watchers[tickets[c].fd] = c /\ (tickets[c].closed <=> callback.at = "stop")
      BY <2>1, <2>4, <3>1, Zenon DEF WatchInv
    <3> QED BY <3>1, <3>3, <3>4, <3>5, Zenon
  <2>5. WatchInv'
    BY <1>6, <2>3, <2>4, Zenon DEF WatchInv
  <2>6. \A s : Finished(s)' <=> Finished(s)
    BY <1>6, Zenon DEF Finished
  <2>7. callback.at = "stop" => tickets'[callback.ticket].origin = tickets[callback.ticket].origin
    BY <1>7, <1>11, <2>2, Zenon DEF PlaceInv
  <2>8. ToldInv'
    BY <1>6, <2>1, <2>6, <2>7, Zenon DEF ToldInv
  <2> QED BY <2>5, <2>8, Zenon
<1> QED BY <1>15, <1>18, <1>19, Zenon DEF RedirectInv


(* Their removal: without the assertion, nothing watches the descriptor when *)
(* it is closed and its number free.                                         *)
LEMMA RemoveFDKeeps ==
  ASSUME RedirectInv, ~crashed, NEW kind \in RedirectKinds, NEW fd \in Fds, RemoveFD(kind, fd)
  PROVE  RedirectInv'
<1>1. PICK old \in 0 .. Len(tickets) : old = table[kind][fd] /\ old # None
  BY DEF RedirectInv, RedirectTypes, RemoveFD
<1>2. /\ pipe' = pipe \/ pipe' = [pipe EXCEPT ![fd] = None]
      /\ tickets' = Deleted(old) /\ table' = [table EXCEPT ![kind][fd] = None]
      /\ watchers' = Unwatched(old) /\ raced' = (raced \/ Busy(fd, old))
      /\ Dies(StopAborts(old), callback.ticket = old)
      /\ UNCHANGED <<streams, callback, redirected, reported>>
  BY <1>1, Zenon DEF RemoveFD
<1>3. RedirectTypes /\ PlaceInv
  BY Zenon DEF RedirectInv
<1>4. tickets[old].fd = fd /\ old \in 1 .. Len(tickets)
  BY <1>1, <1>3, TableIn, Zenon DEF PlaceInv
<1>5. /\ tickets' \in Seq(TicketType) /\ Len(tickets') = Len(tickets) /\ Len(tickets) \in Nat
      /\ \A i \in 1 .. Len(tickets) : /\ tickets'[i].fd = tickets[i].fd
                                      /\ tickets'[i].origin = tickets[i].origin
                                      /\ tickets'[i].closed = tickets[i].closed
  BY <1>2, <1>3, DeletedIs, Lengths, Zenon
<1>6. /\ watchers' \in [Fds -> 0 .. Len(tickets)]
      /\ \A g \in Fds : watchers'[g] = IF g = fd /\ watchers[g] = old THEN None ELSE watchers[g]
  BY <1>1, <1>2, <1>3, <1>4, UnwatchedIs, Zenon
<1>7. None \in 0 .. Len(tickets) /\ None \in 0 .. Len(streams)
  BY <1>3, Lengths, Zenon
<1>8. /\ table' \in [RedirectKinds -> [Fds -> 0 .. Len(tickets)]]
      /\ \A k \in RedirectKinds, g \in Fds : table'[k][g] = None \/ table'[k][g] = table[k][g]
  <2>1. table \in [RedirectKinds -> [Fds -> 0 .. Len(tickets)]]
    BY <1>3, Zenon DEF RedirectTypes
  <2> QED BY <1>2, <1>7, <2>1, Zenon
<1>9. /\ pipe' \in [Fds -> 0 .. Len(streams)]
      /\ \A g \in Fds : pipe'[g] = pipe[g] \/ pipe'[g] = None
      /\ \A g \in Fds : g # fd => pipe'[g] = pipe[g]
  <2>1. pipe \in [Fds -> 0 .. Len(streams)]
    BY <1>3, Zenon DEF RedirectTypes
  <2> QED BY <1>2, <1>7, <2>1, Zenon
<1>10. RedirectTypes'
  <2>1. raced' \in BOOLEAN
    BY <1>2, <1>3, Zenon DEF RedirectTypes
  <2> QED BY <1>2, <1>3, <1>5, <1>6, <1>8, <1>9, <2>1, ZenonT(30) DEF RedirectTypes
<1>11. PlaceInv'
  <2>1. \A k \in RedirectKinds, g \in Fds : table'[k][g] # None => tickets'[table'[k][g]].fd = g
    <3> SUFFICES ASSUME NEW k \in RedirectKinds, NEW g \in Fds, table'[k][g] # None
                 PROVE  tickets'[table'[k][g]].fd = g
      BY Zenon
    <3>1. table'[k][g] = table[k][g] /\ table[k][g] # None
      BY <1>8, Zenon
    <3>2. table[k][g] \in 1 .. Len(tickets)
      BY <1>3, <3>1, TableIn, Zenon
    <3> QED BY <1>3, <1>5, <3>1, <3>2, Zenon DEF PlaceInv
  <2>2. \A g \in Fds : watchers'[g] # None => tickets'[watchers'[g]].fd = g
    <3> SUFFICES ASSUME NEW g \in Fds, watchers'[g] # None
                 PROVE  tickets'[watchers'[g]].fd = g
      BY Zenon
    <3>1. watchers'[g] = watchers[g] /\ watchers[g] # None
      BY <1>6, Zenon
    <3>2. watchers[g] \in 1 .. Len(tickets)
      BY <1>3, <3>1, WatcherIn, Zenon
    <3> QED BY <1>3, <1>5, <3>1, <3>2, Zenon DEF PlaceInv
  <2>3. \A f, g \in Fds : pipe'[f] = pipe'[g] /\ pipe'[f] # None => f = g
    BY <1>3, <1>9, Zenon DEF PlaceInv
  <2> QED BY <1>2, <1>3, <2>1, <2>2, <2>3, Zenon DEF PlaceInv
<1>12. ASSUME ~raced' /\ ~crashed' PROVE WatchInv' /\ ToldInv'
  <2>1. WatchInv /\ ToldInv /\ ~Busy(fd, old)
    BY <1>2, <1>3, <1>12, Zenon DEF RedirectInv, RedirectTypes
  <2>2. ~StopAborts(old)
    BY <1>2, <1>12, Zenon DEF Dies
  <2>3. watchers[fd] = None \/ watchers[fd] = old
    BY <1>1, <1>4, <2>2, Zenon DEF StopAborts
  <2>4. watchers'[fd] = None /\ \A g \in Fds : g # fd => watchers'[g] = watchers[g]
    BY <1>6, <2>3, Zenon
  <2>5. callback.ticket # None => /\ callback.ticket \in 1 .. Len(tickets)
                                 /\ tickets[callback.ticket].fd \in Fds
                                 /\ tickets[callback.ticket].fd # fd
    BY <1>3, <2>1, CallbackIn, Zenon DEF Busy
  <2>6. ASSUME NEW g \in Fds, watchers'[g] # None
        PROVE  IF tickets'[watchers'[g]].closed
               THEN callback.ticket = watchers'[g] /\ callback.at = "stop"
               ELSE pipe'[g] # None /\ tickets'[watchers'[g]].origin = pipe'[g]
    <3>1. g # fd /\ watchers'[g] = watchers[g] /\ watchers[g] # None /\ pipe'[g] = pipe[g]
      BY <1>9, <2>4, <2>6, Zenon
    <3>2. watchers[g] \in 1 .. Len(tickets)
      BY <1>3, <3>1, WatcherIn, Zenon
    <3>3. /\ tickets'[watchers[g]].closed = tickets[watchers[g]].closed
          /\ tickets'[watchers[g]].origin = tickets[watchers[g]].origin
      BY <1>5, <3>2, Zenon
    <3> QED BY <2>1, <3>1, <3>3, ZenonT(30) DEF WatchInv
  <2>7. ASSUME callback.ticket # None
        PROVE  /\ watchers'[tickets'[callback.ticket].fd] = callback.ticket
               /\ tickets'[callback.ticket].closed <=> callback.at = "stop"
    <3>1. PICK c : c = callback.ticket
      BY Zenon
    <3>2. c \in 1 .. Len(tickets) /\ tickets[c].fd \in Fds /\ tickets[c].fd # fd
      BY <2>5, <2>7, <3>1, Zenon
    <3>3. tickets'[c].fd = tickets[c].fd /\ tickets'[c].closed = tickets[c].closed
      BY <1>5, <3>2, Zenon
    <3>4. watchers'[tickets[c].fd] = watchers[tickets[c].fd]
      BY <2>4, <3>2, Zenon
    <3>5. watchers[tickets[c].fd] = c /\ (tickets[c].closed <=> callback.at = "stop")
      BY <2>1, <2>7, <3>1, Zenon DEF WatchInv
    <3> QED BY <3>1, <3>3, <3>4, <3>5, Zenon
  <2>8. WatchInv'
    BY <1>2, <2>6, <2>7, Zenon DEF WatchInv
  <2>9. \A s : Finished(s) => Finished(s)'
    BY <1>2, <1>9 DEF Finished, None
  <2>10. callback.at = "stop" => tickets'[callback.ticket].origin = tickets[callback.ticket].origin
    BY <1>3, <1>5, <2>5, ZenonT(30) DEF PlaceInv
  <2>11. ToldInv'
    BY <1>2, <2>1, <2>9, <2>10, Zenon DEF ToldInv
  <2> QED BY <2>8, <2>11, Zenon
<1> QED BY <1>10, <1>11, <1>12, Zenon DEF RedirectInv


(* The poll callback starts for the ticket that is watched. *)
LEMMA PollKeeps ==
  ASSUME RedirectInv, ~crashed, NEW fd \in Fds, Poll(fd)
  PROVE  RedirectInv'
<1>1. /\ callback = NoCallback /\ watchers[fd] # None
      /\ callback' = [ticket |-> watchers[fd], at |-> "read"]
      /\ UNCHANGED <<pipe, streams, tickets, table, watchers, redirected, reported, raced, crashed>>
  BY Zenon DEF Poll
<1>2. RedirectTypes /\ PlaceInv
  BY Zenon DEF RedirectInv
<1>3. PICK w \in 1 .. Len(tickets) : w = watchers[fd] /\ w # None
  BY <1>1, <1>2, WatcherIn, Zenon
<1>4. callback'.ticket = w /\ callback'.at = "read"
      /\ callback.ticket = None /\ callback.at = "none"
  BY <1>1, <1>3, Zenon DEF NoCallback
<1>5. callback' \in [ticket : 0 .. Len(tickets), at : {"none", "read", "stop"}]
  BY <1>1, <1>3
<1>6. RedirectTypes'
  BY <1>1, <1>2, <1>5, Zenon DEF RedirectTypes
<1>7. PlaceInv'
  BY <1>1, <1>2, <1>3, <1>4, Zenon DEF PlaceInv
<1>8. ASSUME ~raced' /\ ~crashed' PROVE WatchInv' /\ ToldInv'
  <2>1. WatchInv /\ ToldInv
    BY <1>1, <1>8, Zenon DEF RedirectInv
  <2>2. \A g \in Fds : watchers[g] # None => /\ tickets[watchers[g]].closed = FALSE /\ pipe[g] # None
                                            /\ tickets[watchers[g]].origin = pipe[g]
    <3> SUFFICES ASSUME NEW g \in Fds, watchers[g] # None
                 PROVE  /\ tickets[watchers[g]].closed = FALSE /\ pipe[g] # None
                        /\ tickets[watchers[g]].origin = pipe[g]
      BY Zenon
    <3>1. watchers[g] \in 1 .. Len(tickets)
      BY <1>2, WatcherIn, Zenon
    <3>2. tickets[watchers[g]].closed \in BOOLEAN
      BY <1>2, <3>1, TicketIs, Zenon
    <3> QED BY <1>4, <2>1, <3>2, ZenonT(30) DEF WatchInv
  <2>3. tickets[w].fd = fd /\ tickets[w].closed = FALSE
    BY <1>2, <1>3, <2>2, Zenon DEF PlaceInv
  <2>4. WatchInv'
    BY <1>1, <1>3, <1>4, <2>2, <2>3, Zenon DEF WatchInv
  <2>5. \A s : Finished(s)' <=> Finished(s)
    BY <1>1, Zenon DEF Finished
  <2>6. ToldInv'
    BY <1>1, <1>4, <2>1, <2>5, Zenon DEF ToldInv
  <2> QED BY <2>4, <2>6, Zenon
<1> QED BY <1>6, <1>7, <1>8, Zenon DEF RedirectInv

(* What the callback reads is of the stream its ticket was made for. *)
LEMMA CallbackReads ==
  ASSUME RedirectTypes, PlaceInv, WatchInv, callback.at = "read"
  PROVE  LET t == callback.ticket
         IN /\ t \in 1 .. Len(tickets) /\ tickets[t].fd \in Fds /\ t # None
            /\ tickets[t].closed = FALSE /\ watchers[tickets[t].fd] = t
            /\ pipe[tickets[t].fd] # None /\ tickets[t].origin = pipe[tickets[t].fd]
            /\ \A g \in Fds : watchers[g] # None => tickets[watchers[g]].closed = FALSE
<1>1. PICK t : t = callback.ticket /\ t # None
  BY Zenon DEF PlaceInv
<1>2. t \in 1 .. Len(tickets) /\ tickets[t].fd \in Fds /\ tickets[t].closed \in BOOLEAN
  BY <1>1, CallbackIn, Zenon
<1>3. watchers[tickets[t].fd] = t /\ tickets[t].closed = FALSE
  BY <1>1, <1>2, Zenon DEF WatchInv
<1>4. pipe[tickets[t].fd] # None /\ tickets[t].origin = pipe[tickets[t].fd]
  BY <1>1, <1>2, <1>3, Zenon DEF WatchInv
<1>5. ASSUME NEW g \in Fds, watchers[g] # None
      PROVE  tickets[watchers[g]].closed = FALSE
  <2>1. watchers[g] \in 1 .. Len(tickets)
    BY <1>5, WatcherIn, Zenon
  <2>2. tickets[watchers[g]].closed \in BOOLEAN
    BY <2>1, TicketIs, Zenon
  <2> QED BY <1>5, <2>2, Zenon DEF WatchInv
<1> QED BY <1>1, <1>2, <1>3, <1>4, <1>5, ZenonT(30)

(* What is read is of the stream that the ticket was made for. *)
LEMMA ReadChunkKeeps ==
  ASSUME RedirectInv, ~crashed, ReadChunk
  PROVE  RedirectInv'
<1>1. PICK t, s : t = callback.ticket /\ s = Stream
  BY Zenon
<1>2. /\ callback.at = "read" /\ s # None /\ streams[s].unread > 0
      /\ streams' = [streams EXCEPT ![s].unread = @ - 1]
      /\ redirected' = redirected \cup {[origin |-> tickets[t].origin, stream |-> s]}
      /\ UNCHANGED <<pipe, tickets, table, watchers, callback, reported, raced>>
  BY <1>1, Zenon DEF ReadChunk
<1>3. RedirectTypes /\ PlaceInv
  BY Zenon DEF RedirectInv
<1>4. t \in 1 .. Len(tickets) /\ tickets[t].fd \in Fds /\ s = pipe[tickets[t].fd]
  <2>1. t # None
    BY <1>1, <1>2, <1>3, Zenon DEF PlaceInv
  <2> QED BY <1>1, <1>3, <2>1, CallbackIn, Zenon DEF Stream
<1>5. s \in 1 .. Len(streams) /\ streams \in Seq(StreamType)
  BY <1>2, <1>3, <1>4 DEF RedirectTypes, None
<1>6. /\ streams' \in Seq(StreamType) /\ Len(streams') = Len(streams)
      /\ \A i \in 1 .. Len(streams) : i # s => streams'[i] = streams[i]
  <2>1. PICK r \in StreamType : r = streams[s]
    BY <1>5
  <2>2. PICK y : y = [r EXCEPT !.unread = r.unread - 1]
    BY Zenon
  <2>3. y \in StreamType
    BY <1>2, <2>1, <2>2 DEF StreamType
  <2>4. streams' = [streams EXCEPT ![s] = y]
    BY <1>2, <2>1, <2>2, Zenon
  <2> QED BY <1>5, <2>3, <2>4
<1>7. RedirectTypes' /\ PlaceInv'
  BY <1>2, <1>3, <1>6, Zenon DEF RedirectTypes, PlaceInv
<1>8. ASSUME ~raced' /\ ~crashed' PROVE WatchInv' /\ ToldInv'
  <2>1. WatchInv /\ ToldInv
    BY <1>2, <1>8, Zenon DEF RedirectInv
  <2>2. tickets[t].origin = s
    BY <1>1, <1>2, <1>3, <1>4, <2>1, CallbackReads, Zenon
  <2>3. WatchInv'
    BY <1>2, <2>1, Zenon DEF WatchInv
  <2>4. \A i : Finished(i) => Finished(i)'
    BY <1>2, <1>4, <1>6, Zenon DEF Finished
  <2>5. \A r \in redirected' : r.origin = r.stream
    BY <1>2, <2>1, <2>2 DEF ToldInv
  <2>6. ToldInv'
    BY <1>2, <2>1, <2>4, <2>5, Zenon DEF ToldInv
  <2> QED BY <2>3, <2>6, Zenon
<1> QED BY <1>7, <1>8, Zenon DEF RedirectInv

(* The callback returns and changes nothing. *)
LEMMA ReadNoMoreKeeps ==
  ASSUME RedirectInv, ~crashed, ReadNoMore
  PROVE  RedirectInv'
<1>1. /\ callback.at = "read" /\ callback'.ticket = None /\ callback'.at = "none"
      /\ callback' = [ticket |-> None, at |-> "none"]
      /\ UNCHANGED <<pipe, streams, tickets, table, watchers, redirected, reported, raced, crashed>>
  BY Zenon DEF ReadNoMore, NoCallback
<1>2. RedirectTypes /\ PlaceInv
  BY Zenon DEF RedirectInv
<1>3. callback' \in [ticket : 0 .. Len(tickets), at : {"none", "read", "stop"}]
  BY <1>1, <1>2, Lengths, Zenon
<1>4. RedirectTypes' /\ PlaceInv'
  BY <1>1, <1>2, <1>3, Zenon DEF RedirectTypes, PlaceInv
<1>5. ASSUME ~raced' /\ ~crashed' PROVE WatchInv' /\ ToldInv'
  <2>1. WatchInv /\ ToldInv
    BY <1>1, <1>5, Zenon DEF RedirectInv
  <2>2. \A g \in Fds : watchers[g] # None => tickets[watchers[g]].closed = FALSE
    BY <1>1, <1>2, <2>1, CallbackReads, ZenonT(30)
  <2>3. WatchInv'
    BY <1>1, <2>1, <2>2, Zenon DEF WatchInv
  <2>4. \A s : Finished(s)' <=> Finished(s)
    BY <1>1, Zenon DEF Finished
  <2>5. ToldInv'
    BY <1>1, <2>1, <2>4, Zenon DEF ToldInv
  <2> QED BY <2>3, <2>5, Zenon
<1> QED BY <1>4, <1>5, Zenon DEF RedirectInv


(* At its end, a stream is finished. *)
LEMMA ReadEndKeeps ==
  ASSUME RedirectInv, ~crashed, ReadEnd
  PROVE  RedirectInv'
<1>1. PICK t : t = callback.ticket
  BY Zenon
<1>2. RedirectTypes /\ PlaceInv
  BY Zenon DEF RedirectInv
<1>3. callback.at = "read" /\ t # None
  BY <1>1, <1>2, Zenon DEF ReadEnd, PlaceInv
<1>4. t \in 1 .. Len(tickets) /\ tickets[t] \in TicketType /\ tickets[t].fd \in Fds
  BY <1>1, <1>2, <1>3, CallbackIn, Zenon
<1>5. PICK fd \in Fds : fd = tickets[t].fd
  BY <1>4, Zenon
<1>6. PICK s \in 1 .. Len(streams) : s = pipe[fd]
  <2>1. pipe[fd] # None
    BY <1>1, <1>5, Zenon DEF ReadEnd, Stream
  <2> QED BY <1>2, <2>1 DEF RedirectTypes, None
<1>7. /\ streams[s].unread = 0 /\ streams[s].ended
      /\ pipe' = IF tickets[t].closed THEN pipe ELSE [pipe EXCEPT ![fd] = None]
      /\ tickets' = [tickets EXCEPT ![t].closed = TRUE]
      /\ callback' = [callback EXCEPT !.at = "stop"]
      /\ UNCHANGED <<streams, table, watchers, redirected, reported, raced, crashed>>
  BY <1>1, <1>5, <1>6, Zenon DEF ReadEnd, Stream
<1>8. callback' \in [ticket : 0 .. Len(tickets), at : {"none", "read", "stop"}]
      /\ callback'.ticket = t /\ callback'.at = "stop"
  BY <1>1, <1>2, <1>7, Zenon DEF RedirectTypes
<1>9. /\ tickets' \in Seq(TicketType) /\ Len(tickets') = Len(tickets)
      /\ \A i \in 1 .. Len(tickets) : tickets'[i].fd = tickets[i].fd /\ tickets'[i].origin = tickets[i].origin
      /\ \A i \in 1 .. Len(tickets) : i # t => tickets'[i].closed = tickets[i].closed
      /\ tickets'[t].closed = TRUE
  <2>1. tickets \in Seq(TicketType)
    BY <1>2, Zenon DEF RedirectTypes
  <2>2. PICK r \in TicketType : r = tickets[t]
    BY <1>4, Zenon
  <2>3. PICK y : y = [r EXCEPT !.closed = TRUE]
    BY Zenon
  <2>4. y \in TicketType /\ y.fd = r.fd /\ y.origin = r.origin /\ y.closed = TRUE
    BY <2>3, Zenon DEF TicketType
  <2>5. tickets' = [tickets EXCEPT ![t] = y]
    BY <1>7, <2>2, <2>3, Zenon
  <2> QED BY <1>4, <2>1, <2>2, <2>4, <2>5
<1>10. /\ pipe' \in [Fds -> 0 .. Len(streams)]
       /\ \A g \in Fds : pipe'[g] = pipe[g] \/ pipe'[g] = None
       /\ \A g \in Fds : g # fd => pipe'[g] = pipe[g]
  <2>1. pipe \in [Fds -> 0 .. Len(streams)] /\ None \in 0 .. Len(streams)
    BY <1>2 DEF RedirectTypes, None
  <2> QED BY <1>7, <2>1, Zenon
<1>11. RedirectTypes'
  BY <1>2, <1>7, <1>8, <1>9, <1>10, Zenon DEF RedirectTypes
<1>12. PlaceInv'
  <2>1. \A k \in RedirectKinds, g \in Fds : table'[k][g] # None => tickets'[table'[k][g]].fd = g
    <3> SUFFICES ASSUME NEW k \in RedirectKinds, NEW g \in Fds, table[k][g] # None
                 PROVE  tickets'[table[k][g]].fd = g
      BY <1>7, Zenon
    <3>1. table[k][g] \in 1 .. Len(tickets)
      BY <1>2, TableIn, Zenon
    <3> QED BY <1>2, <1>9, <3>1, Zenon DEF PlaceInv
  <2>2. \A g \in Fds : watchers'[g] # None => tickets'[watchers'[g]].fd = g
    <3> SUFFICES ASSUME NEW g \in Fds, watchers[g] # None
                 PROVE  tickets'[watchers[g]].fd = g
      BY <1>7, Zenon
    <3>1. watchers[g] \in 1 .. Len(tickets)
      BY <1>2, WatcherIn, Zenon
    <3> QED BY <1>2, <1>9, <3>1, Zenon DEF PlaceInv
  <2>3. \A f, g \in Fds : pipe'[f] = pipe'[g] /\ pipe'[f] # None => f = g
    BY <1>2, <1>10 DEF PlaceInv
  <2> QED BY <1>3, <1>8, <2>1, <2>2, <2>3, ZenonT(30) DEF PlaceInv
<1>13. ASSUME ~raced' /\ ~crashed' PROVE WatchInv' /\ ToldInv'
  <2>1. WatchInv /\ ToldInv
    BY <1>7, <1>13, Zenon DEF RedirectInv
  <2>2. /\ tickets[t].closed = FALSE /\ watchers[fd] = t /\ tickets[t].origin = s
        /\ \A g \in Fds : watchers[g] # None => tickets[watchers[g]].closed = FALSE
    BY <1>1, <1>2, <1>3, <1>5, <1>6, <2>1, CallbackReads, Zenon
  <2>3. pipe' = [pipe EXCEPT ![fd] = None]
    BY <1>7, <2>2, Zenon
  <2>4. \A g \in Fds : pipe'[g] # s
    <3>1. s # None
      BY <1>6 DEF None
    <3>2. pipe \in [Fds -> 0 .. Len(streams)]
      BY <1>2, Zenon DEF RedirectTypes
    <3> QED BY <1>2, <1>6, <2>3, <3>1, <3>2, Zenon DEF PlaceInv
  <2>5. Finished(s)'
    BY <1>7, <2>4, Zenon DEF Finished
  <2>6. \A i : Finished(i) => Finished(i)'
    BY <1>7, <1>10 DEF Finished, None
  <2>7. \A i \in 1 .. Len(reported) : reported[i] # s
    BY <1>6, <2>1, ZenonT(30) DEF ToldInv, Finished
  <2>8. ASSUME NEW g \in Fds, watchers[g] # None
        PROVE  IF tickets'[watchers[g]].closed
               THEN callback'.ticket = watchers[g] /\ callback'.at = "stop"
               ELSE pipe'[g] # None /\ tickets'[watchers[g]].origin = pipe'[g]
    <3>1. CASE watchers[g] = t
      BY <1>8, <1>9, <3>1, Zenon
    <3>2. CASE watchers[g] # t
      <4>1. watchers[g] \in 1 .. Len(tickets)
        BY <1>2, <2>8, WatcherIn, Zenon
      <4>2. g # fd /\ pipe'[g] = pipe[g]
        BY <1>10, <2>2, <3>2, Zenon
      <4>3. tickets[watchers[g]].closed = FALSE
        BY <2>2, <2>8, Zenon
      <4>4. pipe[g] # None /\ tickets[watchers[g]].origin = pipe[g]
        BY <2>1, <2>8, <4>3, Zenon DEF WatchInv
      <4>5. tickets'[watchers[g]].closed = FALSE
            /\ tickets'[watchers[g]].origin = tickets[watchers[g]].origin
        BY <1>9, <3>2, <4>1, <4>3, Zenon
      <4> QED BY <4>2, <4>4, <4>5, Zenon
    <3> QED BY <3>1, <3>2, Zenon
  <2>9. watchers[tickets'[t].fd] = t
    BY <1>4, <1>5, <1>9, <2>2, Zenon
  <2>10. WatchInv'
    BY <1>3, <1>7, <1>8, <1>9, <2>8, <2>9, SMTT(30) DEF WatchInv
  <2>11. tickets'[t].origin = s
    BY <1>4, <1>9, <2>2, Zenon
  <2>12. ToldInv'
    BY <1>7, <1>8, <2>1, <2>5, <2>6, <2>7, <2>11 DEF ToldInv
  <2> QED BY <2>10, <2>12, Zenon
<1> QED BY <1>11, <1>12, <1>13, Zenon DEF RedirectInv

(* The handle is stopped, and the user told once. *)
LEMMA StopAndTellKeeps ==
  ASSUME RedirectInv, ~crashed, StopAndTell
  PROVE  RedirectInv'
<1>1. PICK t : t = callback.ticket
  BY Zenon
<1>2. RedirectTypes /\ PlaceInv
  BY Zenon DEF RedirectInv
<1>3. callback.at = "stop" /\ t # None
  BY <1>1, <1>2, Zenon DEF StopAndTell, PlaceInv
<1>4. t \in 1 .. Len(tickets) /\ tickets[t] \in TicketType /\ tickets[t].fd \in Fds
      /\ tickets[t].origin \in Nat
  BY <1>1, <1>2, <1>3, CallbackIn, Zenon
<1>5. PICK s \in Nat : s = tickets[t].origin
  BY <1>4, Zenon
<1>6. /\ tickets' = [tickets EXCEPT ![t].polling = FALSE] /\ watchers' = Unwatched(t)
      /\ reported' = Append(reported, s)
      /\ callback' = [ticket |-> None, at |-> "none"]
      /\ UNCHANGED <<pipe, streams, table, redirected, raced>>
  BY <1>1, <1>5, Zenon DEF StopAndTell, NoCallback
<1>7. callback' \in [ticket : 0 .. Len(tickets), at : {"none", "read", "stop"}]
      /\ callback'.ticket = None /\ callback'.at = "none"
  BY <1>2, <1>6, Lengths, Zenon
<1>8. /\ tickets' \in Seq(TicketType) /\ Len(tickets') = Len(tickets)
      /\ \A i \in 1 .. Len(tickets) : /\ tickets'[i].fd = tickets[i].fd
                                      /\ tickets'[i].origin = tickets[i].origin
                                      /\ tickets'[i].closed = tickets[i].closed
  <2>1. tickets \in Seq(TicketType)
    BY <1>2, Zenon DEF RedirectTypes
  <2>2. PICK r \in TicketType : r = tickets[t]
    BY <1>4, Zenon
  <2>3. PICK y : y = [r EXCEPT !.polling = FALSE]
    BY Zenon
  <2>4. y \in TicketType /\ y.fd = r.fd /\ y.origin = r.origin /\ y.closed = r.closed
    BY <2>3, Zenon DEF TicketType
  <2>5. tickets' = [tickets EXCEPT ![t] = y]
    BY <1>6, <2>2, <2>3, Zenon
  <2> QED BY <1>4, <2>1, <2>2, <2>4, <2>5
<1>9. /\ watchers' \in [Fds -> 0 .. Len(tickets)]
      /\ \A g \in Fds : watchers'[g] = IF g = tickets[t].fd /\ watchers[g] = t THEN None ELSE watchers[g]
  <2>1. t \in 0 .. Len(tickets)
    BY <1>4
  <2> QED BY <1>2, <1>3, <1>6, <2>1, UnwatchedIs, Zenon
<1>10. /\ reported' \in Seq(Nat) /\ Len(reported') = Len(reported) + 1 /\ Len(reported) \in Nat
       /\ reported'[Len(reported) + 1] = s
       /\ \A i \in 1 .. Len(reported) : reported'[i] = reported[i]
       /\ \A i \in 1 .. Len(reported') : i \in 1 .. Len(reported) \/ i = Len(reported) + 1
  <2>1. reported \in Seq(Nat)
    BY <1>2, Zenon DEF RedirectTypes
  <2> QED BY <1>6, <2>1
<1>11. RedirectTypes'
  BY <1>2, <1>6, <1>7, <1>8, <1>9, <1>10, Zenon DEF RedirectTypes
<1>12. PlaceInv'
  <2>1. \A k \in RedirectKinds, g \in Fds : table'[k][g] # None => tickets'[table'[k][g]].fd = g
    <3> SUFFICES ASSUME NEW k \in RedirectKinds, NEW g \in Fds, table[k][g] # None
                 PROVE  tickets'[table[k][g]].fd = g
      BY <1>6, Zenon
    <3>1. table[k][g] \in 1 .. Len(tickets)
      BY <1>2, TableIn, Zenon
    <3> QED BY <1>2, <1>8, <3>1, Zenon DEF PlaceInv
  <2>2. \A g \in Fds : watchers'[g] # None => tickets'[watchers'[g]].fd = g
    <3> SUFFICES ASSUME NEW g \in Fds, watchers'[g] # None
                 PROVE  tickets'[watchers'[g]].fd = g
      BY Zenon
    <3>1. watchers'[g] = watchers[g] /\ watchers[g] # None
      BY <1>9, Zenon
    <3>2. watchers[g] \in 1 .. Len(tickets)
      BY <1>2, <3>1, WatcherIn, Zenon
    <3> QED BY <1>2, <1>8, <3>1, <3>2, Zenon DEF PlaceInv
  <2> QED BY <1>2, <1>6, <1>7, <2>1, <2>2, Zenon DEF PlaceInv
<1>13. ASSUME ~raced' /\ ~crashed' PROVE WatchInv' /\ ToldInv'
  <2>1. WatchInv /\ ToldInv
    BY <1>6, <1>13, Zenon DEF RedirectInv
  <2>2. watchers[tickets[t].fd] = t
    BY <1>1, <1>3, <2>1, Zenon DEF WatchInv
  <2>3. ASSUME NEW g \in Fds, watchers'[g] # None
        PROVE  IF tickets'[watchers'[g]].closed
               THEN callback'.ticket = watchers'[g] /\ callback'.at = "stop"
               ELSE pipe'[g] # None /\ tickets'[watchers'[g]].origin = pipe'[g]
    <3>1. watchers'[g] = watchers[g] /\ watchers[g] # None /\ watchers[g] # t
      BY <1>2, <1>3, <1>9, <2>2, <2>3, Zenon DEF PlaceInv
    <3>2. watchers[g] \in 1 .. Len(tickets)
      BY <1>2, <3>1, WatcherIn, Zenon
    <3>3. ~tickets[watchers[g]].closed
      BY <1>1, <2>1, <3>1, ZenonT(30) DEF WatchInv
    <3>4. pipe[g] # None /\ tickets[watchers[g]].origin = pipe[g]
      BY <2>1, <3>1, <3>3, Zenon DEF WatchInv
    <3>5. /\ tickets'[watchers[g]].closed = tickets[watchers[g]].closed
          /\ tickets'[watchers[g]].origin = tickets[watchers[g]].origin
      BY <1>8, <3>2, Zenon
    <3> QED BY <1>6, <3>1, <3>3, <3>4, <3>5, Zenon
  <2>4. WatchInv'
    BY <1>7, <2>3, Zenon DEF WatchInv
  <2>5. \A i : Finished(i)' <=> Finished(i)
    BY <1>6, Zenon DEF Finished
  <2>6. Finished(s) /\ \A i \in 1 .. Len(reported) : reported[i] # s
    BY <1>1, <1>3, <1>5, <2>1, Zenon DEF ToldInv
  <2>7. \A i \in 1 .. Len(reported') : Finished(reported'[i])
    BY <1>10, <2>1, <2>6, Zenon DEF ToldInv
  <2>8. \A i, j \in 1 .. Len(reported') : reported'[i] = reported'[j] => i = j
    BY <1>10, <2>1, <2>6 DEF ToldInv
  <2>9. \A i \in 1 .. Len(reported') : reported'[i] \in 1 .. Len(streams) /\ streams[reported'[i]].ended
          /\ streams[reported'[i]].unread = 0 /\ \A fd \in Fds : pipe[fd] # reported'[i]
    BY <2>7, Zenon DEF Finished
  <2>10. ToldInv'
    BY <1>6, <1>7, <2>1, <2>8, <2>9, Zenon DEF ToldInv, Finished
  <2> QED BY <2>4, <2>10, Zenon
<1> QED BY <1>11, <1>12, <1>13, Zenon DEF RedirectInv

(* Every step keeps what is said of redirected descriptors. *)
LEMMA RedirectStep == RedirectInv /\ [Next]_vars => RedirectInv'
<1> SUFFICES ASSUME RedirectInv, [Next]_vars PROVE RedirectInv'
  BY Zenon
<1>1. CASE UNCHANGED vars
  BY <1>1, RedirectQuiet, Zenon DEF vars, loggerVars
<1>2. CASE ~crashed /\ UNCHANGED redirectVars
  BY <1>2, RedirectQuiet, Zenon
<1>3. CASE ~crashed /\ PollRedirected
  BY <1>3, PollKeeps, ReadNoMoreKeeps, ReadEndKeeps, StopAndTellKeeps, Zenon DEF PollRedirected
<1>4. CASE ~crashed /\ ReadRedirected
  BY <1>4, ReadChunkKeeps, Zenon DEF ReadRedirected
<1>5. CASE ~crashed /\ CallRedirect
  BY <1>2, <1>5, OpenPipeKeeps, AddFDKeeps, RemoveFDKeeps, Zenon DEF CallRedirect, AddFDFails
<1>6. CASE ~crashed /\ OthersWrite
  BY <1>6, WritePipeKeeps, Zenon DEF OthersWrite
<1>7. ~UNCHANGED vars => /\ ~crashed
                         /\ \/ UNCHANGED redirectVars
                            \/ PollRedirected \/ ReadRedirected \/ CallRedirect \/ OthersWrite
  BY Zenon DEF Next, StartNext, WaitOnGreaseShutdown, LibNext, LoggerNext, AdderNext
<1> QED BY <1>1, <1>2, <1>3, <1>4, <1>5, <1>6, <1>7, Zenon

(* Unless a descriptor is added or removed while its callback runs, what is  *)
(* read from it is logged under the origin of its own stream, and the end of *)
(* a stream is told once, after all of it was read.                          *)
THEOREM OriginsKept == Spec => []RedirectedAsOwn
<1>1. RedirectInv => RedirectedAsOwn
  <2> SUFFICES ASSUME RedirectInv, ~raced, ~crashed
               PROVE  /\ \A r \in redirected : r.origin = r.stream
                      /\ \A i, j \in DOMAIN reported : reported[i] = reported[j] => i = j
                      /\ \A i \in DOMAIN reported :
                           LET s == streams[reported[i]] IN s.ended /\ s.unread = 0
    BY Zenon DEF RedirectedAsOwn
  <2>1. ToldInv /\ DOMAIN reported = 1 .. Len(reported)
    BY DEF RedirectInv, RedirectTypes
  <2> QED BY <2>1, Zenon DEF ToldInv, Finished
<1> QED BY <1>1, RedirectInit, RedirectStep, PTL DEF Spec

=============================================================================
