---------------------------- MODULE LogTargetSafety ----------------------------
(***************************************************************************)
(* What follows for a target from the conservation of its banks and        *)
(* messages: its queues never overflow, every message is counted once,     *)
(* buffered bytes have the flush timer, nobody touches a bank that is      *)
(* under way, and messages leave in the order they came.                   *)
(***************************************************************************)
EXTENDS LogTargetProofs, FiniteSetTheorems

-----------------------------------------------------------------------------
(* The queues of banks never overflow: counting, on top of the conservation. *)

(* There are NumBanks banks. *)
LEMMA BanksCounted == IsFiniteSet(Banks) /\ Cardinality(Banks) = NumBanks
<1>1. NumBanks \in Nat \ {0}
  BY ConstantsAssumption, Zenon
<1>2. /\ IsFiniteSet(0 .. NumBanks - 1)
      /\ Cardinality(0 .. NumBanks - 1) =
           IF 0 > NumBanks - 1 THEN 0 ELSE (NumBanks - 1) - 0 + 1
  <2>1. 0 \in Int /\ NumBanks - 1 \in Int
    BY <1>1
  <2> QED BY <2>1, FS_Interval, Zenon
<1>3. Cardinality(Banks) = NumBanks /\ IsFiniteSet(Banks)
  BY <1>1, <1>2 DEF Banks
<1> QED BY <1>3, Zenon

(* Counting: a repetition-free queue that misses n banks has at most         *)
(* NumBanks - n entries.                                                     *)
LEMMA RoomFromConservation == IndInv => QueuesHaveRoom
(* A queue without repetition is no longer than the set it draws from. *)
<1>InjectiveLength.
  ASSUME NEW S, NEW s \in Seq(S), IsFiniteSet(S), IsInjective(s)
  PROVE  Len(s) <= Cardinality(S)
  <2> USE <1>InjectiveLength
  <2>1. s \in [1 .. Len(s) -> Range(s)] /\ Len(s) \in Nat /\ Range(s) \subseteq S
    BY DEF Range
  <2>2. s \in Bijection(1 .. Len(s), Range(s))
    BY <2>1, Zenon DEF Bijection, Injection, Surjection, IsInjective, Range
  <2>3. IsFiniteSet(1 .. Len(s)) /\ Cardinality(1 .. Len(s)) = Len(s)
    <3>1. 1 \in Int /\ Len(s) \in Int
      BY <2>1
    <3>2. /\ IsFiniteSet(1 .. Len(s))
          /\ Cardinality(1 .. Len(s)) = IF 1 > Len(s) THEN 0 ELSE Len(s) - 1 + 1
      BY <3>1, FS_Interval, Zenon
    <3> QED BY <2>1, <3>2
  <2>4. Cardinality(Range(s)) = Len(s)
    BY <2>2, <2>3, FS_Bijection, Zenon DEF ExistsBijection
  <2>5. Cardinality(Range(s)) <= Cardinality(S)
    BY <2>1, FS_Subset, Zenon
  <2> QED BY <2>4, <2>5, Zenon
<1> SUFFICES ASSUME IndInv PROVE QueuesHaveRoom
  BY Zenon
<1>0. BanksTyped /\ BankConservation
  BY IndInvParts, Zenon
<1>1. NumBanks \in Nat \ {0} /\ IsFiniteSet(Banks) /\ Cardinality(Banks) = NumBanks
  BY BanksFacts, BanksCounted, Zenon
<1>2. "current" \in Places /\ "avail" \in Places /\ "writeOut" \in Places
  BY Zenon DEF Places
<1>3. /\ currentBuffer \in Banks /\ currentBuffer \notin Range(availBuffers)
      /\ currentBuffer \notin Range(writeOutBuffers)
  BY <1>0, <1>2, AtIs, Elsewhere, Zenon DEF BanksTyped
<1> DEFINE S == Banks \ {currentBuffer}
<1>4. IsFiniteSet(S) /\ Cardinality(S) = NumBanks - 1
  BY <1>1, <1>3, FS_RemoveElement, Zenon
<1>5. Len(availBuffers) < NumBanks
  <2>1. availBuffers \in Seq(S) /\ IsInjective(availBuffers)
    BY <1>0, <1>3 DEF BanksTyped, BankConservation, Range
  <2> HIDE DEF S
  <2>2. Len(availBuffers) <= NumBanks - 1
    BY <1>4, <2>1, <1>InjectiveLength, Zenon
  <2>3. Len(availBuffers) \in Nat
    BY <2>1
  <2> QED BY <1>1, <2>2, <2>3
<1>6. ASSUME availBuffers # <<>> PROVE Len(writeOutBuffers) < NumBanks - 1
  <2> DEFINE h == Head(availBuffers)
             R == S \ {h}
  <2>1. h \in Range(availBuffers) /\ h \in Banks
    BY <1>0, <1>6, TailRange, Zenon DEF BanksTyped
  <2>2. h \notin Range(writeOutBuffers) /\ h # currentBuffer
    BY <1>0, <1>2, <1>3, <2>1, AtIs, Elsewhere
  <2> HIDE DEF h
  <2>3. IsFiniteSet(R) /\ Cardinality(R) = NumBanks - 1 - 1
    <3>1. h \in S
      BY <2>1, <2>2, Zenon
    <3> HIDE DEF S
    <3> QED BY <1>4, <3>1, FS_RemoveElement, Zenon
  <2>4. writeOutBuffers \in Seq(R) /\ IsInjective(writeOutBuffers)
    <3>1. /\ writeOutBuffers \in [1 .. Len(writeOutBuffers) -> Banks]
          /\ Len(writeOutBuffers) \in Nat
      BY <1>0 DEF BanksTyped
    <3>2. \A i \in 1 .. Len(writeOutBuffers) : writeOutBuffers[i] \in R
      BY <1>3, <2>2, <3>1, Zenon DEF Range
    <3> HIDE DEF R
    <3>3. writeOutBuffers \in [1 .. Len(writeOutBuffers) -> R]
      BY <3>1, <3>2, Zenon
    <3> QED BY <1>0, <3>1, <3>3, QueueOf, Zenon DEF BankConservation
  <2> HIDE DEF R
  <2>5. Len(writeOutBuffers) <= NumBanks - 1 - 1 /\ Len(writeOutBuffers) \in Nat
    BY <2>3, <2>4, <1>InjectiveLength
  <2> QED BY <1>1, <2>5
<1> QED BY <1>5, <1>6, Zenon DEF QueuesHaveRoom

(* availBuffers.add() always finds room, and the branch of rotate() for a    *)
(* full writeOutBuffers is never taken: no message is lost there and the     *)
(* logger thread never waits for its own queue.                              *)
THEOREM QueuesNeverFill == Spec => []QueuesHaveRoom
BY RoomFromConservation, InductiveInvariant, PTL

-----------------------------------------------------------------------------
(* Every message is counted once. *)

(* A partition says that each message is counted once. *)
LEMMA OnceEach == IndInv /\ MsgInv => AccountedOnce
(* The messages under way are those of the banks that are not idle. *)
<1>PendingIs. IndInv => Pending = Banks \ Idle
  <2> SUFFICES ASSUME IndInv PROVE Pending = Banks \ Idle
    BY Zenon
  <2>0. /\ BankConservation
        /\ \A p, q \in Places : p # q => At[p] \cap At[q] = {}
        /\ UNION {At[p] : p \in Places} = Banks
    BY IndInvParts, Zenon DEF BankConservation
  <2>1. ASSUME NEW b \in Banks PROVE b \in Pending <=> b \notin Idle
    <3>1. PICK p \in Places : b \in At[p] /\ \A q \in Places : q # p => b \notin At[q]
      BY <2>0, Zenon
    <3>2. \A q \in Places : b \in At[q] <=> q = p
      BY <3>1, Zenon
    <3>3. /\ b = currentBuffer <=> p = "current"
          /\ b \in Range(availBuffers) <=> p = "avail"
          /\ b \in Range(writeOutBuffers) <=> p = "writeOut"
          /\ b \in Held <=> p = "held"
          /\ b \in Range(writing) <=> p = "writing"
          /\ b \in Range(callerLogCallbacks) <=> p = "callbacks"
          /\ b \in user <=> p = "user"
          /\ b \in stranded <=> p = "stranded"
      BY <3>2, AtIs, Zenon DEF Places
    <3> QED BY <3>1, <3>3, Zenon DEF Places, Pending, Unwritten, Idle
  <2>2. Pending \subseteq Banks
    <3>1. \A p \in Places : At[p] \subseteq Banks
      BY <2>0, Zenon
    <3>2. /\ {currentBuffer} \subseteq Banks /\ Range(writeOutBuffers) \subseteq Banks
          /\ Held \subseteq Banks /\ Range(writing) \subseteq Banks
          /\ Range(callerLogCallbacks) \subseteq Banks
      BY <3>1, AtIs, Zenon DEF Places
    <3> QED BY <3>2, Zenon DEF Pending, Unwritten
  <2> QED BY <2>1, <2>2, Zenon
<1> SUFFICES ASSUME IndInv, MsgInv, NEW id \in 1 .. nextId - 1
             PROVE  LET banks == {b \in Pending : id \in Range(data[b])}
                        others == {<<"write", msg.id>>} \cup {<<"dropped", d>> : d \in dropped}
                                    \cup {<<"final", f>> : f \in Range(Final)}
                    IN Cardinality(banks) + Cardinality({x \in others : x[2] = id}) = 1
  BY Zenon DEF AccountedOnce, MsgInv
<1> DEFINE banks == {b \in Pending : id \in Range(data[b])}
           others == {<<"write", msg.id>>} \cup {<<"dropped", d>> : d \in dropped}
                       \cup {<<"final", f>> : f \in Range(Final)}
           those == {x \in others : x[2] = id}
<1>0. id # 0
  OBVIOUS
<1>1. PICK k \in Slots : id \in Carried[k] /\ \A l \in Slots : id \in Carried[l] => l = k
  BY Zenon DEF MsgInv, Accounted, Partition, Offered
<1>2. banks = {b \in Banks : id \in Carried[b]}
  <2>1. \A b \in Banks : id \in Carried[b] <=> b \notin Idle /\ id \in Range(data[b])
    BY CarriedIs, Zenon DEF BankIds
  <2> QED BY <2>1, <1>PendingIs, Zenon
<1>3. those = (IF id \in Carried[AtWrite] THEN {<<"write", id>>} ELSE {})
              \cup (IF id \in Carried[AtDropped] THEN {<<"dropped", id>>} ELSE {})
              \cup (IF id \in Carried[AtFinal] THEN {<<"final", id>>} ELSE {})
  BY <1>0, CarriedIs
<1> HIDE DEF banks, others, those
<1>4. Cardinality({}) = 0 /\ \A x : Cardinality({x}) = 1
  BY FS_EmptySet, FS_Singleton, Zenon
<1>5. CASE k \in Banks
  <2>1. banks = {k} /\ those = {}
    BY <1>1, <1>2, <1>3, <1>5, SlotFacts, Zenon
  <2>2. Cardinality(banks) + Cardinality(those) = 1
    BY <1>4, <2>1
  <2> QED BY <2>2, Zenon DEF banks, others, those
<1>6. CASE k \notin Banks
  <2>1. banks = {}
    BY <1>1, <1>2, <1>6, SlotFacts, Zenon
  <2>2. \E x : those = {x}
    BY <1>1, <1>3, <1>6, SlotFacts, Zenon
  <2>3. Cardinality(those) = 1
    BY <1>4, <2>2, Zenon
  <2>4. Cardinality(banks) + Cardinality(those) = 1
    BY <1>4, <2>1, <2>3
  <2> QED BY <2>4, Zenon DEF banks, others, those
<1> QED BY <1>5, <1>6, Zenon

(* Every message that was offered to write() is with write(), in one bank,   *)
(* where it was meant to go, or lost: none is written twice and none is      *)
(* forgotten, whatever the threads that flush do, for every kind of target.  *)
THEOREM MessagesAccounted == Spec => []AccountedOnce
<1>1. Init => MsgInv /\ WriteInv
  BY MsgInit, Zenon
<1>2. IndInv /\ MsgInv /\ WriteInv /\ [Next]_vars => (MsgInv /\ WriteInv)'
  BY MsgStep, WriteInvStep, Zenon
<1>3. IndInv /\ MsgInv => AccountedOnce
  BY OnceEach, Zenon
<1> QED BY <1>1, <1>2, <1>3, InductiveInvariant, PTL DEF Spec

-----------------------------------------------------------------------------
(* The flush timer runs while there is something to flush. *)

(* Banks that need a reference: those with unwritten bytes, and the one      *)
(* write() is about to copy into.                                            *)
Owed == {b \in Unwritten : used[b] > 0 \/ (b = currentBuffer /\ pc[Logger] = "copyIn")}

(* Every such bank has a reference, and the timer runs while there is one. *)
TimerInv ==
  /\ ~aborted
  /\ needGreaseThread >= Cardinality(Owed)
  /\ needGreaseThread > 0 /\ ~closed => flushTimer

(* The banks with unwritten bytes are banks, and none is free, with the      *)
(* callbacks or with the user.                                               *)
LEMMA UnwrittenApart ==
  IndInv => /\ Unwritten \subseteq Banks
            /\ Unwritten \cap (Range(availBuffers) \cup Range(callerLogCallbacks) \cup user) = {}
<1> SUFFICES ASSUME IndInv
             PROVE  /\ Unwritten \subseteq Banks
                    /\ Unwritten \cap (Range(availBuffers) \cup Range(callerLogCallbacks) \cup user) = {}
  BY Zenon
<1>1. \A p, q \in Places : p # q => At[p] \cap At[q] = {}
  BY Zenon DEF IndInv, BankConservation
<1>2. UNION {At[p] : p \in Places} = Banks
  BY Zenon DEF IndInv, BankConservation
<1>3. Unwritten = At["current"] \cup At["writeOut"] \cup At["held"] \cup At["writing"]
  BY AtIs, Zenon DEF Unwritten
<1>4. Unwritten \subseteq Banks
  BY <1>2, <1>3, Zenon DEF Places
<1>5. \A q \in {"avail", "callbacks", "user"} : Unwritten \cap At[q] = {}
  <2> TAKE q \in {"avail", "callbacks", "user"}
  <2>1. /\ At["current"] \cap At[q] = {} /\ At["writeOut"] \cap At[q] = {}
        /\ At["held"] \cap At[q] = {} /\ At["writing"] \cap At[q] = {}
    BY <1>1, Zenon DEF Places
  <2> QED BY <1>3, <2>1, Zenon
<1> QED BY <1>4, <1>5, AtIs, Zenon

(* Fewer banks need no more references; one bank less, one less. *)
LEMMA OwedFewer ==
  ASSUME NEW S \in SUBSET Banks, NEW T \in SUBSET Banks, S \subseteq T
  PROVE  /\ Cardinality(S) <= Cardinality(T) /\ Cardinality(S) \in Nat /\ Cardinality(T) \in Nat
         /\ \A b \in T : b \notin S => Cardinality(S) <= Cardinality(T) - 1
<1>1. IsFiniteSet(S) /\ IsFiniteSet(T) /\ Cardinality(S) <= Cardinality(T)
  BY BanksCounted, FS_Subset, Zenon
<1>2. Cardinality(S) \in Nat /\ Cardinality(T) \in Nat
  BY <1>1, FS_CardinalityType, Zenon
<1>3. ASSUME NEW b \in T, b \notin S PROVE Cardinality(S) <= Cardinality(T) - 1
  <2>1. IsFiniteSet(T \ {b}) /\ Cardinality(T \ {b}) = Cardinality(T) - 1
    BY <1>1, FS_RemoveElement, Zenon
  <2>2. S \subseteq T \ {b}
    BY <1>3, Zenon
  <2> QED BY <2>1, <2>2, FS_Subset, Zenon
<1> QED BY <1>1, <1>2, <1>3, Zenon

(* Where only the logger thread flushes, every step keeps the references. *)
LEMMA TimerStep == Flushers = {} /\ IndInv /\ IndInv' /\ TimerInv /\ [Next]_vars => TimerInv'
(* The same after a step. *)
<1>ReturnedApart.
  ASSUME IndInv', NEW b, b \in Range(availBuffers') \cup Range(callerLogCallbacks') \cup user'
  PROVE  b \notin Unwritten'
  <2> USE <1>ReturnedApart
  <2>1. \A p, q \in Places : p # q => At'[p] \cap At'[q] = {}
    BY Zenon DEF IndInv, BankConservation
  <2>2. Unwritten' = At'["current"] \cup At'["writeOut"] \cup At'["held"] \cup At'["writing"]
    BY AtIs, Zenon DEF Unwritten
  <2>3. PICK q \in {"avail", "callbacks", "user"} : b \in At'[q]
    BY AtIs, Zenon
  <2>4. /\ At'["current"] \cap At'[q] = {} /\ At'["writeOut"] \cap At'[q] = {}
        /\ At'["held"] \cap At'[q] = {} /\ At'["writing"] \cap At'[q] = {}
    BY <2>1, Zenon DEF Places
  <2> QED BY <2>2, <2>3, <2>4, Zenon
(* One bank more needs at most one reference more. *)
<1>OwedOneMore.
  ASSUME NEW S \in SUBSET Banks, NEW T \in SUBSET Banks, NEW b \in Banks, S \subseteq T \cup {b}
  PROVE  Cardinality(S) <= Cardinality(T) + 1 /\ Cardinality(S) \in Nat /\ Cardinality(T) \in Nat
  <2> USE <1>OwedOneMore
  <2>1. IsFiniteSet(S) /\ IsFiniteSet(T)
    BY BanksCounted, FS_Subset, Zenon
  <2>2. IsFiniteSet(T \cup {b}) /\ Cardinality(T \cup {b}) = IF b \in T THEN Cardinality(T) ELSE Cardinality(T) + 1
    BY <2>1, FS_AddElement, Zenon
  <2>3. Cardinality(S) <= Cardinality(T \cup {b})
    BY <2>2, FS_Subset, Zenon
  <2>4. Cardinality(S) \in Nat /\ Cardinality(T) \in Nat
    BY <2>1, FS_CardinalityType, Zenon
  <2> QED BY <2>2, <2>3, <2>4
(* A step that takes no reference and leaves no more banks that need one. *)
<1>TimerKept.
  ASSUME IndInv, IndInv', TimerInv, UNCHANGED <<needGreaseThread, aborted>>, Owed' \subseteq Owed,
         closed' \/ UNCHANGED <<flushTimer, closed>>
  PROVE  TimerInv'
  <2> USE <1>TimerKept
  <2>1. Owed \in SUBSET Banks /\ Owed' \in SUBSET Banks
    BY UnwrittenApart, Zenon DEF Owed
  <2>2. PICK S, T : S = Owed' /\ T = Owed
    BY Zenon
  <2>3. Cardinality(S) <= Cardinality(T) /\ Cardinality(S) \in Nat /\ Cardinality(T) \in Nat
    BY <2>1, <2>2, OwedFewer, Zenon
  <2>4. needGreaseThread \in Nat
    BY Zenon DEF IndInv, TypeOK
  <2> QED BY <2>2, <2>3, <2>4 DEF TimerInv
(* A step that takes a reference, for one bank. *)
<1>TimerRef.
  ASSUME IndInv, IndInv', TimerInv, Ref, UNCHANGED closed, Owed' \subseteq Owed \cup {currentBuffer}
  PROVE  TimerInv'
  <2> USE <1>TimerRef
  <2>1. Owed \in SUBSET Banks /\ Owed' \in SUBSET Banks /\ currentBuffer \in Banks
    BY UnwrittenApart, Zenon DEF Owed, Unwritten
  <2>2. PICK S, T, c : S = Owed' /\ T = Owed /\ c = currentBuffer
    BY Zenon
  <2>3. Cardinality(S) <= Cardinality(T) + 1 /\ Cardinality(S) \in Nat /\ Cardinality(T) \in Nat
    BY <2>1, <2>2, <1>OwedOneMore, Zenon
  <2>4. needGreaseThread \in Nat /\ needGreaseThread' = needGreaseThread + 1
    BY Zenon DEF IndInv, TypeOK, Ref
  <2>5. needGreaseThread' >= Cardinality(S)
    BY <2>2, <2>3, <2>4 DEF TimerInv
  <2>6. ~aborted' /\ (~closed' => flushTimer')
    <3>1. needGreaseThread = 0 \/ needGreaseThread > 0
      BY <2>4
    <3> QED BY <3>1, Zenon DEF Ref, TimerInv
  <2> QED BY <2>2, <2>5, <2>6, Zenon DEF TimerInv
(* returnBuffer() gives back the reference that the bank has, if it has one, *)
(* and then finds the count above zero.                                      *)
<1>TimerReturned.
  ASSUME IndInv, IndInv', TimerInv, UNCHANGED closed, NEW b \in Unwritten, b \notin Unwritten',
         Owed' \subseteq Owed, used[b] > 0 => Unref, ~(used[b] > 0) => UNCHANGED refs
  PROVE  TimerInv'
  <2> USE <1>TimerReturned
  <2>1. CASE ~(used[b] > 0)
    BY <2>1, <1>TimerKept, Zenon DEF refs
  <2>2. CASE used[b] > 0
    <3>1. Owed \in SUBSET Banks /\ Owed' \in SUBSET Banks /\ b \in Owed /\ b \notin Owed'
      BY <2>2, UnwrittenApart, Zenon DEF Owed
    <3>2. PICK S, T : S = Owed' /\ T = Owed
      BY Zenon
    <3>3. Cardinality(S) <= Cardinality(T) - 1 /\ Cardinality(S) \in Nat /\ Cardinality(T) \in Nat
      BY <3>1, <3>2, OwedFewer, Zenon
    <3>4. needGreaseThread \in Nat /\ needGreaseThread >= Cardinality(T)
      BY <3>2, Zenon DEF IndInv, TypeOK, TimerInv
    <3>5. needGreaseThread # 0
      BY <3>3, <3>4
    <3>6. /\ needGreaseThread' = needGreaseThread - 1 /\ aborted' = aborted
          /\ flushTimer' = (flushTimer /\ needGreaseThread > 1)
      BY <2>2, <3>5, Zenon DEF Unref
    <3>7. needGreaseThread' >= Cardinality(S)
      BY <3>3, <3>4, <3>6
    <3>8. ~aborted' /\ (needGreaseThread' > 0 /\ ~closed' => flushTimer')
      <4>1. needGreaseThread' > 0 => needGreaseThread > 1 /\ needGreaseThread > 0
        BY <3>4, <3>6
      <4> QED BY <3>6, <4>1, Zenon DEF TimerInv
    <3> QED BY <3>2, <3>7, <3>8, Zenon DEF TimerInv
  <2> QED BY <2>1, <2>2, Zenon
(* rotate() between two messages. *)
<1>TimerRotated.
  ASSUME IndInv, IndInv', TimerInv, Rotate, UNCHANGED <<hold, needGreaseThread, aborted>>,
         pc'[Logger] # "copyIn", closed' \/ UNCHANGED <<flushTimer, closed>>
  PROVE  TimerInv'
  <2> USE <1>TimerRotated
  <2>0. BanksTyped /\ FreeEmpty /\ BankConservation
    BY IndInvParts, Zenon
  <2>1. Held' = Held /\ writing' = writing
    BY Zenon DEF Held, Rotate
  <2>2. CASE Rotated
    <3>1. PICK h : h = Head(availBuffers)
      BY Zenon
    <3>2. /\ availBuffers # <<>> /\ used' = used /\ currentBuffer' = h
          /\ writeOutBuffers' = Append(writeOutBuffers, currentBuffer)
      BY <2>0, <2>2, <3>1, Zenon DEF Rotate, Rotated, BanksTyped
    <3>3. h \in Range(availBuffers) /\ used[h] = 0
      BY <2>0, <3>1, <3>2, TailRange, Zenon DEF BanksTyped, FreeEmpty
    <3>4. Range(writeOutBuffers') = Range(writeOutBuffers) \cup {currentBuffer}
      BY <2>0, <3>2, AppendRange DEF BanksTyped
    <3>5. \A b \in Unwritten' : b # h => b \in Unwritten
      BY <2>1, <3>2, <3>4, Zenon DEF Unwritten
    <3>6. Owed' \subseteq Owed
      BY <3>2, <3>3, <3>5 DEF Owed
    <3> QED BY <3>6, <1>TimerKept, Zenon
  <2>3. CASE ~Rotated
    <3>1. UNCHANGED <<currentBuffer, writeOutBuffers>>
      BY <2>3, Zenon DEF Rotate
    <3>2. Unwritten' = Unwritten
      BY <2>1, <3>1, Zenon DEF Unwritten
    <3>3. \A b \in Banks : used'[b] = used[b] \/ used'[b] = 0
      BY <2>0, Zenon DEF Rotate, BanksTyped
    <3>4. Unwritten \subseteq Banks
      BY UnwrittenApart, Zenon
    <3>5. Owed' \subseteq Owed
      BY <3>2, <3>3, <3>4 DEF Owed
    <3> QED BY <3>5, <1>TimerKept, Zenon
  <2> QED BY <2>2, <2>3, Zenon
(* A bank that a thread has, or whose write is done, is returned. *)
<1>TimerReturns.
  ASSUME IndInv, IndInv', TimerInv, UNCHANGED <<currentBuffer, writeOutBuffers, closed>>,
         pc'[Logger] = "copyIn" => pc[Logger] = "copyIn",
         Held' \subseteq Held, Range(writing)' \subseteq Range(writing), NEW b \in Unwritten,
         NEW sync, NEW nocallback, ReturnBuffer(b, sync, nocallback)
  PROVE  TimerInv'
  <2> USE <1>TimerReturns
  <2>0. BanksTyped /\ b \in Banks /\ Unwritten \subseteq Banks
    BY IndInvParts, UnwrittenApart, Zenon
  <2>1. Unwritten' \subseteq Unwritten
    BY Zenon DEF Unwritten
  <2>2. \A c \in Banks : used'[c] = used[c] \/ used'[c] = 0
    BY <2>0, Zenon DEF ReturnBuffer, Recycle, QueueCallback, SkipCallback, BanksTyped
  <2>3. Owed' \subseteq Owed
    BY <2>0, <2>1, <2>2, SMTT(30) DEF Owed
  <2>4. b \in Range(availBuffers') \cup Range(callerLogCallbacks') \cup user'
    <3>1. /\ Range(Append(availBuffers, b)) = Range(availBuffers) \cup {b}
          /\ Range(Append(callerLogCallbacks, b)) = Range(callerLogCallbacks) \cup {b}
      BY <2>0, AppendRange, SMTT(30) DEF BanksTyped
    <3> QED BY <3>1, Zenon DEF ReturnBuffer, Recycle, QueueCallback, SkipCallback
  <2>5. b \notin Unwritten'
    BY <2>4, <1>ReturnedApart, Zenon
  <2>6. (used[b] > 0 => Unref) /\ (~(used[b] > 0) => UNCHANGED refs)
    <3>1. IF used[b] > 0 THEN Unref ELSE UNCHANGED refs
      BY Zenon DEF ReturnBuffer
    <3> QED BY <3>1, Zenon
  <2> QED BY <2>3, <2>5, <2>6, <1>TimerReturned, Zenon
(* The steps of write(). *)
<1>TimerWrite. ASSUME IndInv, IndInv', TimerInv, WriteStep PROVE TimerInv'
  <2> USE <1>TimerWrite
  <2>0. /\ Logger \in Threads /\ pc \in [Threads -> LoggerPcs \cup UserPcs] /\ BanksTyped
        /\ currentBuffer \in Banks /\ Unwritten \subseteq Banks
    BY IndInvParts, UnwrittenApart, Zenon DEF Threads, IndInv, TypeOK
  <2>1. CASE CheckEmpty
    <3>1. Unwritten' = Unwritten /\ used' = used /\ currentBuffer' = currentBuffer
      BY <2>1, Zenon DEF CheckEmpty, Unwritten, Held, places, bytes
    <3>2. Owed' \subseteq Owed \cup {currentBuffer}
      BY <3>1, Zenon DEF Owed
    <3>3. CASE used[currentBuffer] = 0
      <4>1. Ref /\ UNCHANGED closed
        BY <2>1, <3>3, Zenon DEF CheckEmpty, flags
      <4> QED BY <3>2, <4>1, <1>TimerRef, Zenon
    <3>4. CASE used[currentBuffer] # 0
      <4>1. UNCHANGED <<refs, closed>>
        BY <2>1, <3>4, Zenon DEF CheckEmpty, flags
      <4>2. currentBuffer \in Owed
        BY <2>0, <3>4 DEF Owed, Unwritten, BanksTyped
      <4> QED BY <3>2, <4>1, <4>2, <1>TimerKept, Zenon DEF refs
    <3> QED BY <3>3, <3>4, Zenon
  <2>2. CASE WriteCopyIn
    <3>1. Unwritten' = Unwritten /\ currentBuffer' = currentBuffer /\ pc[Logger] = "copyIn"
      BY <2>2, Zenon DEF WriteCopyIn, Unwritten, Held, places
    <3>2. \A b \in Banks : b # currentBuffer => used'[b] = used[b]
      BY <2>0, <2>2, Zenon DEF WriteCopyIn, CopyIn, BanksTyped
    <3>3. currentBuffer \in Owed
      BY <3>1, Zenon DEF Owed, Unwritten
    <3>4. Owed' \subseteq Owed
      BY <2>0, <3>1, <3>2, <3>3, Zenon DEF Owed
    <3> QED BY <2>2, <3>4, <1>TimerKept, Zenon DEF WriteCopyIn, refs, flags
  <2>3. CASE WriteRotate
    <3>1. pc'[Logger] # "copyIn"
      BY <2>0, <2>3, Zenon DEF WriteRotate
    <3>2. Rotate /\ UNCHANGED <<hold, needGreaseThread, aborted, flushTimer, closed>>
      BY <2>3, Zenon DEF WriteRotate, refs, flags
    <3> QED BY <3>1, <3>2, <1>TimerRotated, Zenon
  <2>4. CASE WritePost
    <3>1. /\ Unwritten' = Unwritten /\ currentBuffer' = currentBuffer /\ Ref /\ UNCHANGED closed
      BY <2>4, Zenon DEF WritePost, Unwritten, Held, places, flags
    <3>2. \A b \in Banks : b # currentBuffer => used'[b] = used[b]
      BY <2>0, <2>4, Zenon DEF WritePost, CopyIn, BanksTyped
    <3>4. Owed' \subseteq Owed \cup {currentBuffer}
      BY <2>0, <3>1, <3>2, Zenon DEF Owed
    <3> QED BY <3>1, <3>4, <1>TimerRef, Zenon
  <2>5. CASE WritePostFull
    <3>1. Unwritten' = Unwritten /\ used' = used /\ currentBuffer' = currentBuffer
      BY <2>5, Zenon DEF WritePostFull, Unwritten, Held, places, bytes
    <3>2. pc'[Logger] # "copyIn"
      BY <2>0, <2>5, Zenon DEF WritePostFull
    <3>3. Owed' \subseteq Owed
      BY <3>1, <3>2, Zenon DEF Owed
    <3> QED BY <2>5, <3>3, <1>TimerKept, Zenon DEF WritePostFull, refs, flags
  <2> QED BY <2>1, <2>2, <2>3, <2>4, <2>5, Zenon DEF WriteStep
(* A step of flushAll() or flushAllSync(). *)
<1>TimerFlush.
  ASSUME IndInv, IndInv', TimerInv, NEW t \in Threads,
         Drain(t) \/ Flush(t) \/ FlushCallback(t) \/ (t = Logger /\ (DrainSync \/ FlushSync))
  PROVE  TimerInv'
  <2> USE <1>TimerFlush
  <2>0. /\ Logger \in Threads /\ pc \in [Threads -> LoggerPcs \cup UserPcs] /\ BanksTyped
        /\ hold \in [Threads -> Banks \cup {NoBank}]
        /\ hold[t] # NoBank <=> pc[t] \in {"flush", "flushSync", "stuck"}
    BY IndInvParts, Zenon DEF Threads, IndInv, TypeOK, CarriesBank
  <2>1. hold[t] # NoBank => hold[t] \in Held
    BY Zenon DEF Held
  <2>2. pc'[Logger] = "copyIn" => pc[Logger] = "copyIn"
    BY <2>0, Zenon DEF Drain, DrainSync, TakeWriteOut, Resting, Flush, FlushCallback, FlushSync
  <2>3. CASE Drain(t) \/ (t = Logger /\ DrainSync)
    <3>1. UNCHANGED <<currentBuffer, writing, used, refs, closed>>
      BY <2>3, Zenon DEF Drain, DrainSync, TakeWriteOut, bytes, flags
    <3>2. Unwritten' \subseteq Unwritten
      <4>1. CASE writeOutBuffers = <<>>
        BY <2>3, <3>1, <4>1, Zenon DEF Drain, DrainSync, TakeWriteOut, Unwritten, Held
      <4>2. CASE writeOutBuffers # <<>>
        <5>1. PICK h : h = Head(writeOutBuffers)
          BY Zenon
        <5>2. /\ h \in Range(writeOutBuffers) /\ hold' = [hold EXCEPT ![t] = h]
              /\ writeOutBuffers' = Tail(writeOutBuffers)
          BY <2>0, <2>3, <4>2, <5>1, TailRange, Zenon DEF Drain, DrainSync, TakeWriteOut, BanksTyped
        <5>3. Held' \subseteq Held \cup {h}
          BY <2>0, <5>2, Zenon DEF Held
        <5>4. Range(writeOutBuffers') \subseteq Range(writeOutBuffers)
          <6>1. writeOutBuffers \in Seq(Banks) /\ IsInjective(writeOutBuffers)
            BY <2>0, Zenon DEF BanksTyped, IndInv, BankConservation
          <6>2. Range(Tail(writeOutBuffers)) = Range(writeOutBuffers) \ {h}
            BY <4>2, <5>1, <6>1, TailRange, Zenon
          <6> QED BY <5>2, <6>2, Zenon
        <5> QED BY <3>1, <5>2, <5>3, <5>4, Zenon DEF Unwritten
      <4> QED BY <4>1, <4>2, Zenon
    <3>3. Owed' \subseteq Owed
      BY <2>2, <3>1, <3>2, Zenon DEF Owed
    <3> QED BY <3>1, <3>3, <1>TimerKept, Zenon DEF refs
  <2>4. CASE Flush(t)
    <3>1. UNCHANGED <<currentBuffer, writeOutBuffers, used, refs, closed>>
      BY <2>4, Zenon DEF Flush, bytes, flags
    <3>2. /\ writing' = Append(writing, hold[t]) /\ hold' = [hold EXCEPT ![t] = NoBank]
          /\ hold[t] \in Held /\ hold[t] \in Banks
      BY <2>0, <2>1, <2>4, Zenon DEF Flush
    <3>3. Range(writing') = Range(writing) \cup {hold[t]}
      BY <2>0, <3>2, AppendRange DEF BanksTyped
    <3>4. Held' \subseteq Held
      BY <2>0, <3>2, Zenon DEF Held
    <3>5. Unwritten' \subseteq Unwritten
      BY <3>1, <3>2, <3>3, <3>4, Zenon DEF Unwritten
    <3>6. Owed' \subseteq Owed
      BY <2>2, <3>1, <3>5, Zenon DEF Owed
    <3> QED BY <3>1, <3>6, <1>TimerKept, Zenon DEF refs
  <2>5. CASE FlushCallback(t) \/ (t = Logger /\ FlushSync)
    <3>1. PICK b, sync, nocallback : b = hold[t] /\ ReturnBuffer(b, sync, nocallback)
      BY <2>5, Zenon DEF FlushCallback, FlushSync
    <3>2. /\ UNCHANGED <<currentBuffer, writeOutBuffers, writing, closed>>
          /\ hold' = [hold EXCEPT ![t] = NoBank] /\ pc[t] \in {"flush", "flushSync"}
      BY <2>5, Zenon DEF FlushCallback, FlushSync, flags
    <3>3. b \in Unwritten
      BY <2>0, <2>1, <3>1, <3>2, Zenon DEF Unwritten
    <3>4. Held' \subseteq Held /\ Range(writing)' \subseteq Range(writing)
      BY <2>0, <3>2, Zenon DEF Held
    <3> QED BY <2>2, <3>1, <3>2, <3>3, <3>4, <1>TimerReturns, Zenon
  <2> QED BY <2>3, <2>4, <2>5, Zenon
(* A write is done. *)
<1>TimerWriteCb.
  ASSUME IndInv, IndInv', TimerInv, NEW i \in 1 .. Len(writing), NEW ok \in BOOLEAN, WriteCb(i, ok)
  PROVE  TimerInv'
  <2> USE <1>TimerWriteCb
  <2>1. PICK b : b = writing[i] /\ ReturnBuffer(b, FALSE, FALSE) /\ writing' = Without(writing, i)
    BY Zenon DEF WriteCb
  <2>2. /\ b \in Range(writing) /\ Range(writing)' \subseteq Range(writing)
    <3>1. writing \in Seq(Banks) /\ IsInjective(writing)
      BY Zenon DEF IndInv, TypeOK, BankConservation
    <3>2. b \in Range(writing) /\ Range(Without(writing, i)) = Range(writing) \ {b}
      BY <2>1, <3>1, WithoutRange, Zenon
    <3> QED BY <2>1, <3>2, Zenon
  <2>3. UNCHANGED <<currentBuffer, writeOutBuffers, closed, pc>> /\ Held' = Held
    BY Zenon DEF WriteCb, flags, Held
  <2>4. b \in Unwritten
    BY <2>2, Zenon DEF Unwritten
  <2> QED BY <2>1, <2>2, <2>3, <2>4, <1>TimerReturns, Zenon
(* Steps that leave the banks with unwritten bytes alone. *)
<1>TimerQuiet.
  ASSUME IndInv, IndInv', TimerInv, UNCHANGED <<refs, closed, Unwritten, currentBuffer>>,
         pc'[Logger] = "copyIn" => pc[Logger] = "copyIn",
         \A b \in Unwritten : used'[b] = used[b]
  PROVE  TimerInv'
  <2> USE <1>TimerQuiet
  <2>1. Owed' \subseteq Owed
    BY Zenon DEF Owed
  <2> QED BY <2>1, <1>TimerKept, Zenon DEF refs
<1> SUFFICES ASSUME Flushers = {}, IndInv, IndInv', TimerInv, [Next]_vars PROVE TimerInv'
  BY Zenon
<1>0. Logger \in Threads /\ pc \in [Threads -> LoggerPcs \cup UserPcs] /\ BanksTyped
  BY IndInvParts, Zenon DEF Threads, IndInv, TypeOK
<1>1. CASE UNCHANGED vars
  BY <1>1, <1>TimerQuiet, Zenon DEF vars, places, bytes, flags, Unwritten, Held
<1>2. ASSUME NEW len \in Lens, NewLog(len) PROVE TimerInv'
  <2>1. UNCHANGED <<refs, closed, Unwritten, currentBuffer, used>>
    BY <1>2, Zenon DEF NewLog, places, bytes, flags, Unwritten, Held
  <2>2. pc'[Logger] # "copyIn"
    BY <1>0, <1>2, Zenon DEF NewLog
  <2> QED BY <2>1, <2>2, <1>TimerQuiet, Zenon
<1>3. CASE WriteStep
  BY <1>3, <1>TimerWrite, Zenon
<1>4. CASE FlushTimer \/ ShutdownCmd
  <2>1. pc'[Logger] # "copyIn"
    BY <1>0, <1>4, Zenon DEF FlushTimer, ShutdownCmd
  <2>2. /\ Rotate /\ UNCHANGED <<hold, needGreaseThread, aborted>>
        /\ closed' \/ UNCHANGED <<flushTimer, closed>>
    BY <1>4, Zenon DEF FlushTimer, ShutdownCmd, refs, flags
  <2> QED BY <2>1, <2>2, <1>TimerRotated, Zenon
<1>5. CASE RotateCmd \/ FlushSyncTty
  <2>1. UNCHANGED <<refs, closed, Unwritten, currentBuffer, used>>
    BY <1>5, Zenon DEF RotateCmd, FlushSyncTty, places, bytes, flags, Unwritten, Held
  <2>2. pc'[Logger] # "copyIn"
    BY <1>0, <1>5, Zenon DEF RotateCmd, FlushSyncTty
  <2> QED BY <2>1, <2>2, <1>TimerQuiet, Zenon
<1>6. CASE SetCallback \/ \E v \in BOOLEAN : DisableWrites(v)
  <2>1. UNCHANGED <<refs, closed, Unwritten, currentBuffer, used, pc>>
    BY <1>6, Zenon DEF SetCallback, DisableWrites, places, bytes, Unwritten, Held
  <2> QED BY <2>1, <1>TimerQuiet, Zenon
<1>7. CASE DrainSync \/ FlushSync \/ \E t \in Threads : FlushStep(t)
  BY <1>0, <1>7, <1>TimerFlush, Zenon DEF FlushStep
<1>8. CASE SomeWriteCb
  BY <1>8, <1>TimerWriteCb, Zenon DEF SomeWriteCb
<1>9. CASE CallCallback
  <2>1. UNCHANGED <<refs, closed, Unwritten, currentBuffer, used, pc>>
    BY <1>9, Zenon DEF CallCallback, bytes, flags, Unwritten, Held
  <2> QED BY <2>1, <1>TimerQuiet, Zenon
<1>10. ASSUME NEW b \in user, Cleanup(b) PROVE TimerInv'
  <2>1. UNCHANGED <<refs, closed, Unwritten, currentBuffer, pc>>
    BY <1>10, Zenon DEF Cleanup, flags, Unwritten, Held
  <2>2. \A c \in Unwritten : c # b /\ c \in Banks
    BY UnwrittenApart, Zenon
  <2>3. \A c \in Unwritten : used'[c] = used[c]
    BY <1>0, <1>10, <2>2, Zenon DEF Cleanup, Recycle, bytes, BanksTyped
  <2> QED BY <2>1, <2>3, <1>TimerQuiet, Zenon
<1> QED BY <1>1, <1>2, <1>3, <1>4, <1>5, <1>6, <1>7, <1>8, <1>9, <1>10, Zenon DEF Next, SyncStep

(* At the start no bank needs a reference. *)
LEMMA TimerInit == Init => TimerInv
<1> SUFFICES ASSUME Init PROVE TimerInv
  BY Zenon
<1>1. Unwritten = {0} /\ 0 \in Banks
  <2>1. Held = {}
    BY Zenon DEF Init, Held
  <2>2. Range(<<>>) = {}
    BY DEF Range
  <2> QED BY <2>1, <2>2, BanksFacts, Zenon DEF Init, Unwritten
<1>2. Owed = {}
  BY <1>1 DEF Init, Owed, Logger, Threads
<1>3. Cardinality(Owed) = 0
  BY <1>2, FS_EmptySet, Zenon
<1> QED BY <1>3 DEF Init, TimerInv

(* With only the logger thread to flush, the assertion of                    *)
(* unrefGreaseInGrease() holds, every bank with unwritten bytes has a        *)
(* reference of its own, and the flush timer runs as long as there is one.   *)
THEOREM TimerRunsForData ==
  ASSUME Flushers = {} PROVE Spec => [](BufferedDataHasTimer /\ RefAssertHolds)
<1>1. Init => TimerInv
  BY TimerInit, Zenon
<1>2. IndInv /\ IndInv' /\ TimerInv /\ [Next]_vars => TimerInv'
  BY TimerStep, Zenon
<1>3. IndInv /\ TimerInv => BufferedDataHasTimer /\ RefAssertHolds
  <2> SUFFICES ASSUME IndInv, TimerInv PROVE BufferedDataHasTimer /\ RefAssertHolds
    BY Zenon
  <2>1. PICK S, T : S = {b \in Unwritten : used[b] > 0} /\ T = Owed
    BY Zenon
  <2>2. S \subseteq T /\ S \in SUBSET Banks /\ T \in SUBSET Banks
    BY <2>1, UnwrittenApart, Zenon DEF Owed
  <2>3. /\ Cardinality(S) <= Cardinality(T) /\ Cardinality(S) \in Nat /\ Cardinality(T) \in Nat
        /\ \A b \in T : b \notin {} => Cardinality({}) <= Cardinality(T) - 1
    BY <2>2, OwedFewer, Zenon
  <2>4. needGreaseThread \in Nat /\ needGreaseThread >= Cardinality(T)
    BY <2>1, Zenon DEF IndInv, TypeOK, TimerInv
  <2>5. S # {} => needGreaseThread > 0
    BY <2>2, <2>3, <2>4, FS_EmptySet
  <2>6. needGreaseThread >= Cardinality(S)
    BY <2>3, <2>4
  <2> QED BY <2>1, <2>5, <2>6, Zenon DEF BufferedDataHasTimer, RefAssertHolds, TimerInv
<1> QED BY <1>1, <1>2, <1>3, InductiveInvariant, PTL DEF Spec

-----------------------------------------------------------------------------
(* Banks under way are not touched. *)

(* Only the bytes of bank c change. *)
OnlyTouches(c) ==
  \A b \in Banks \ {c} : data'[b] = data[b] /\ used'[b] = used[b]

(* What InFlightUntouched says of a step. *)
Untouched ==
  \A p \in {"writing", "callbacks", "user"} :
    \A b \in At[p] \cap At'[p] : data'[b] = data[b] /\ used'[b] = used[b]

(* No step of any thread touches a bank in flight. *)
LEMMA StepUntouched == ASSUME IndInv, [Next]_vars PROVE Untouched
(* It is enough that the bank a step writes to is in no place in flight both *)
(* before and after the step.                                                *)
<1>TouchedElsewhere.
  ASSUME IndInv, NEW c, OnlyTouches(c),
         c \notin Range(writing) \cap Range(writing'),
         c \notin Range(callerLogCallbacks) \cap Range(callerLogCallbacks'),
         c \notin user \cap user'
  PROVE  Untouched
  <2> USE <1>TouchedElsewhere
  <2>1. Range(writing) \subseteq Banks /\ Range(callerLogCallbacks) \subseteq Banks /\ user \subseteq Banks
    <3>1. /\ writing \in Seq(Banks) /\ callerLogCallbacks \in Seq(Banks) /\ user \subseteq Banks
      <4>1. BanksTyped
        BY IndInvParts, Zenon
      <4> QED BY <4>1, Zenon DEF BanksTyped
    <3> QED BY <3>1 DEF Range
  <2> SUFFICES ASSUME NEW p \in {"writing", "callbacks", "user"}, NEW b \in At[p] \cap At'[p]
               PROVE  b \in Banks \ {c}
    BY Zenon DEF Untouched, OnlyTouches
  <2> QED BY <2>1, AtIs, Zenon
(* A bank in a place that is not in flight is in none that is. *)
<1>NotInFlight.
  ASSUME IndInv, NEW c, c = currentBuffer \/ c \in Held
  PROVE  c \notin Range(writing) /\ c \notin Range(callerLogCallbacks) /\ c \notin user
  <2> USE <1>NotInFlight
  <2>1. BankConservation /\ "current" \in Places /\ "held" \in Places
        /\ "writing" \in Places /\ "callbacks" \in Places /\ "user" \in Places
    BY IndInvParts, Zenon DEF Places
  <2> QED BY <2>1, AtIs, Elsewhere, Zenon
(* A step that writes to no bank at all. *)
<1>BytesUnchanged.
  ASSUME UNCHANGED bytes
  PROVE  Untouched
  BY <1>BytesUnchanged, Zenon DEF bytes, Untouched
(* The current bank is the only one that write() and rotate() change. *)
<1>CurrentTouched.
  ASSUME IndInv, CopyIn(currentBuffer) \/ Rotate
  PROVE  Untouched
  <2> USE <1>CurrentTouched
  <2>1. used \in [Banks -> Nat] /\ data \in [Banks -> Seq(Ids)]
    BY IndInvParts, Zenon DEF BanksTyped
  <2>2. OnlyTouches(currentBuffer)
    <3>1. CASE CopyIn(currentBuffer)
      BY <2>1, <3>1, Zenon DEF CopyIn, OnlyTouches
    <3>2. CASE Rotate
      BY <2>1, <3>2, Zenon DEF Rotate, OnlyTouches
    <3> QED BY <3>1, <3>2, Zenon
  <2> QED BY <2>2, <1>NotInFlight, <1>TouchedElsewhere, Zenon
(* returnBuffer() changes the bank it is called with, or none. *)
<1>ReturnedTouched.
  ASSUME IndInv, NEW b, NEW sync, NEW nocallback, ReturnBuffer(b, sync, nocallback)
  PROVE  OnlyTouches(b)
  <2> USE <1>ReturnedTouched
  <2>1. used \in [Banks -> Nat] /\ data \in [Banks -> Seq(Ids)]
    BY IndInvParts, Zenon DEF BanksTyped
  <2>2. Recycle(b) \/ UNCHANGED <<used, data>>
    BY Zenon DEF ReturnBuffer, QueueCallback, SkipCallback
  <2>3. CASE Recycle(b)
    BY <2>1, <2>3, Zenon DEF Recycle, OnlyTouches
  <2>4. CASE UNCHANGED <<used, data>>
    BY <2>4, Zenon DEF OnlyTouches
  <2> QED BY <2>2, <2>3, <2>4, Zenon
(* The bank a thread carries is in no place in flight. *)
<1>HeldTouched.
  ASSUME IndInv, NEW t \in Threads, CarriesBank(t), NEW sync, NEW nocallback,
         ReturnBuffer(hold[t], sync, nocallback)
  PROVE  Untouched
  <2> USE <1>HeldTouched
  <2>1. hold[t] \in Held
    BY Zenon DEF IndInv, Held
  <2> QED BY <2>1, <1>ReturnedTouched, <1>NotInFlight, <1>TouchedElsewhere, Zenon
(* write_cb() changes the bank whose write has just finished. *)
<1>WriteCbTouched.
  ASSUME IndInv, NEW i \in 1 .. Len(writing), NEW ok \in BOOLEAN, WriteCb(i, ok)
  PROVE  Untouched
  <2> USE <1>WriteCbTouched
  <2> DEFINE b == writing[i]
  <2>0. BanksTyped /\ BankConservation
    BY IndInvParts, Zenon
  <2>1. writing' = Without(writing, i) /\ ReturnBuffer(b, FALSE, FALSE)
    BY Zenon DEF WriteCb
  <2>2. b \in Range(writing) /\ Range(writing') = Range(writing) \ {b}
    BY <2>0, <2>1, WithoutRange, Zenon DEF BanksTyped, BankConservation
  <2>3. OnlyTouches(b)
    BY <2>1, <1>ReturnedTouched, Zenon
  <2> HIDE DEF b
  <2>4. "writing" \in Places /\ "callbacks" \in Places /\ "user" \in Places
    BY Zenon DEF Places
  <2>5. b \notin Range(callerLogCallbacks) /\ b \notin user
    <3>1. b \in At["writing"]
      BY <2>2, AtIs, Zenon
    <3>2. b \notin At["callbacks"] /\ b \notin At["user"]
      BY <2>0, <2>4, <3>1, Elsewhere, Zenon
    <3> QED BY <3>2, AtIs, Zenon
  <2> QED BY <2>2, <2>3, <2>5, <1>TouchedElsewhere, Zenon
(* The user gives back a bank and has it no longer. *)
<1>CleanupTouched.
  ASSUME IndInv, NEW b \in user, Cleanup(b)
  PROVE  Untouched
  <2> USE <1>CleanupTouched
  <2>0. BanksTyped /\ BankConservation
    BY IndInvParts, Zenon
  <2>1. OnlyTouches(b) /\ user' = user \ {b}
    BY <2>0, Zenon DEF Cleanup, Recycle, OnlyTouches, BanksTyped, bytes
  <2>2. "writing" \in Places /\ "callbacks" \in Places /\ "user" \in Places
    BY Zenon DEF Places
  <2>3. b \notin Range(callerLogCallbacks) /\ b \notin Range(writing)
    BY <2>0, <2>2, AtIs, Elsewhere, Zenon
  <2> QED BY <2>1, <2>3, <1>TouchedElsewhere, Zenon
<1>1. CASE UNCHANGED vars
  BY <1>1, <1>BytesUnchanged, Zenon DEF vars
<1>2. ASSUME NEW len \in Lens, NewLog(len) PROVE Untouched
  BY <1>2, <1>BytesUnchanged, Zenon DEF NewLog
<1>3. CASE WriteStep
  <2>1. CASE CheckEmpty \/ WritePostFull
    BY <2>1, <1>BytesUnchanged, Zenon DEF CheckEmpty, WritePostFull
  <2>2. CASE WriteCopyIn \/ WriteRotate \/ WritePost
    BY <2>2, <1>CurrentTouched, Zenon DEF WriteCopyIn, WriteRotate, WritePost
  <2> QED BY <1>3, <2>1, <2>2, Zenon DEF WriteStep
<1>4. CASE FlushTimer \/ ShutdownCmd \/ \E t \in Flushers : UserFlush(t)
  BY <1>4, <1>CurrentTouched, Zenon DEF FlushTimer, ShutdownCmd, UserFlush
<1>5. CASE RotateCmd \/ CallCallback \/ SetCallback \/ \E v \in BOOLEAN : DisableWrites(v)
  BY <1>5, <1>BytesUnchanged, Zenon DEF RotateCmd, CallCallback, SetCallback, DisableWrites
<1>6. CASE SyncStep
  <2>1. CASE DrainSync \/ FlushSyncTty
    BY <2>1, <1>BytesUnchanged, Zenon DEF DrainSync, TakeWriteOut, FlushSyncTty
  <2>2. CASE FlushSync
    <3>1. Logger \in Threads /\ CarriesBank(Logger) /\ ReturnBuffer(hold[Logger], TRUE, ~IsDefault)
      BY <2>2, Zenon DEF FlushSync, CarriesBank, Threads
    <3> QED BY <3>1, <1>HeldTouched, Zenon
  <2> QED BY <1>6, <2>1, <2>2, Zenon DEF SyncStep
<1>7. CASE SomeWriteCb
  BY <1>7, <1>WriteCbTouched, Zenon DEF SomeWriteCb
<1>8. ASSUME NEW t \in Threads, FlushStep(t) PROVE Untouched
  <2>1. CASE Drain(t) \/ Flush(t)
    BY <2>1, <1>BytesUnchanged, Zenon DEF Drain, TakeWriteOut, Flush
  <2>2. CASE FlushCallback(t)
    <3>1. CarriesBank(t) /\ ReturnBuffer(hold[t], FALSE, FALSE)
      BY <2>2, Zenon DEF FlushCallback, CarriesBank
    <3> QED BY <3>1, <1>HeldTouched, Zenon
  <2> QED BY <1>8, <2>1, <2>2, Zenon DEF FlushStep
<1>9. ASSUME NEW b \in user, Cleanup(b) PROVE Untouched
  BY <1>9, <1>CleanupTouched, Zenon
<1> QED BY <1>1, <1>2, <1>3, <1>4, <1>5, <1>6, <1>7, <1>8, <1>9, Zenon DEF Next

(* While libuv writes a bank, while it waits for its callback and while the  *)
(* user reads it, write(), rotate(), returnBuffer() and the flushes of other *)
(* threads leave its bytes as they are.                                      *)
THEOREM BanksInFlightUntouched == Spec => InFlightUntouched
<1>1. IndInv /\ [Next]_vars =>
        [\A p \in {"writing", "callbacks", "user"} :
           \A b \in At[p] \cap At'[p] : data'[b] = data[b] /\ used'[b] = used[b]]_vars
  BY StepUntouched, Zenon DEF Untouched
<1> QED BY <1>1, InductiveInvariant, PTL DEF Spec, InFlightUntouched

-----------------------------------------------------------------------------
(* Messages stay in order. *)

(* Bank b is before bank c in the queue q. *)
Precedes(q, b, c) == \E i, j \in 1 .. Len(q) : i < j /\ q[i] = b /\ q[j] = c

(* Bank b was filled before bank c: the way of a bank is from currentBuffer  *)
(* through writeOutBuffers, a thread and libuv to callerLogCallbacks.        *)
Ahead(b, c) ==
  \/ \E q \in {callerLogCallbacks, writing, writeOutBuffers} : Precedes(q, b, c)
  \/ b \in Range(callerLogCallbacks) /\ c \in Unwritten
  \/ b \in Range(writing) /\ c \in Held \cup Range(writeOutBuffers) \cup {currentBuffer}
  \/ b \in Held /\ c \in Range(writeOutBuffers) \cup {currentBuffer}
  \/ b \in Range(writeOutBuffers) /\ c = currentBuffer

(* The number of the next message to be copied or offered. *)
Coming == IF msg.id # 0 THEN msg.id ELSE nextId

(* The banks hold increasing numbers, in the order of the queues. *)
LineInv ==
  /\ \A b \in Banks : Increasing(data[b]) /\ \A x \in Range(data[b]) : x < Coming
  /\ \A b, c \in Banks : Ahead(b, c) => \A x \in Range(data[b]), y \in Range(data[c]) : x < y
  /\ msg.id < nextId

(* What was sent is in order, and before all that is in the banks B. *)
Sent(s, B) ==
  /\ Increasing(s) /\ \A x \in Range(s) : x < Coming
  /\ \A x \in Range(s), b \in B : \A y \in Range(data[b]) : x < y

(* This holds of the terminal, and of the callbacks, whose queue comes later. *)
SentInv ==
  /\ Sent(out, Unwritten)
  /\ Sent(delivered, Unwritten \cup Range(callerLogCallbacks))

(* Writes to a file may end in any order. *)
OrderInv == kind # "file" => LineInv /\ SentInv

-----------------------------------------------------------------------------
(* What a step has to do to keep the order. *)

(* Banks keep their messages or are cleared. *)
Clears == \A b \in Banks : data'[b] = data[b] \/ data'[b] = <<>>

(* No bank gets ahead of another, unless one of them is empty. *)
KeepsLine ==
  \A b, c \in Banks : Ahead(b, c)' => Ahead(b, c) \/ data'[b] = <<>> \/ data'[c] = <<>>

(* Messages have increasing numbers. *)
Counts == Coming <= Coming' /\ msg'.id < nextId'

(* A cleared bank has no numbers. *)
LEMMA NothingInEmpty == Range(<<>>) = {} /\ Increasing(<<>>)
BY DEF Range, Increasing

-----------------------------------------------------------------------------
(* The steps. *)

(* Every step keeps the order, for a target without threads that flush. *)
LEMMA OrderStep ==
  Flushers = {} /\ IndInv /\ IndInv' /\ MsgInv /\ WriteInv /\ OrderInv /\ [Next]_vars => OrderInv'
(* The last bank of a queue is behind the others. *)
<1>PrecedesAppend.
  ASSUME NEW S, NEW s \in Seq(S), NEW x \in S, NEW b, NEW c, Precedes(Append(s, x), b, c)
  PROVE  Precedes(s, b, c) \/ (b \in Range(s) /\ c = x)
  <2> USE <1>PrecedesAppend
  <2>1. Len(Append(s, x)) = Len(s) + 1 /\ Len(s) \in Nat /\ DOMAIN s = 1 .. Len(s)
    OBVIOUS
  <2>2. PICK i, j \in 1 .. Len(s) + 1 : i < j /\ Append(s, x)[i] = b /\ Append(s, x)[j] = c
    BY <2>1, Zenon DEF Precedes
  <2>3. i \in 1 .. Len(s) /\ s[i] = b
    BY <2>1, <2>2
  <2>4. CASE j = Len(s) + 1
    BY <2>1, <2>2, <2>3, <2>4 DEF Range
  <2>5. CASE j # Len(s) + 1
    <3>1. j \in 1 .. Len(s) /\ s[j] = c
      BY <2>1, <2>2, <2>5, SMTT(30)
    <3> QED BY <2>2, <2>3, <3>1, Zenon DEF Precedes
  <2> QED BY <2>4, <2>5, Zenon
(* The first bank of a queue is before the others. *)
<1>PrecedesTail.
  ASSUME NEW S, NEW s \in Seq(S), s # <<>>, NEW c
  PROVE  /\ \A b : Precedes(Tail(s), b, c) => Precedes(s, b, c)
         /\ c \in Range(Tail(s)) => Precedes(s, Head(s), c) /\ c \in Range(s)
  <2> USE <1>PrecedesTail
  <2>1. /\ Len(Tail(s)) = Len(s) - 1 /\ Len(s) \in Nat \ {0} /\ DOMAIN s = 1 .. Len(s)
        /\ Head(s) = s[1] /\ DOMAIN Tail(s) = 1 .. Len(s) - 1
        /\ \A i \in 1 .. Len(s) - 1 : Tail(s)[i] = s[i + 1]
    OBVIOUS
  <2>2. ASSUME NEW b, Precedes(Tail(s), b, c) PROVE Precedes(s, b, c)
    <3>1. PICK i, j \in 1 .. Len(s) - 1 : i < j /\ Tail(s)[i] = b /\ Tail(s)[j] = c
      BY <2>1, <2>2, Zenon DEF Precedes
    <3>2. /\ i + 1 \in 1 .. Len(s) /\ j + 1 \in 1 .. Len(s) /\ i + 1 < j + 1
          /\ s[i + 1] = b /\ s[j + 1] = c
      BY <2>1, <3>1
    <3> QED BY <3>2, Zenon DEF Precedes
  <2>3. ASSUME c \in Range(Tail(s)) PROVE Precedes(s, Head(s), c) /\ c \in Range(s)
    <3>1. PICK j \in 1 .. Len(s) - 1 : c = Tail(s)[j]
      BY <2>1, <2>3, Zenon DEF Range
    <3>2. 1 \in 1 .. Len(s) /\ j + 1 \in 1 .. Len(s) /\ 1 < j + 1 /\ s[1] = Head(s) /\ s[j + 1] = c
      BY <2>1, <3>1
    <3>3. Precedes(s, Head(s), c)
      BY <3>2, Zenon DEF Precedes
    <3> QED BY <2>1, <3>2, <3>3, Zenon DEF Range
  <2> QED BY <2>2, <2>3, Zenon
(* A TTY's writes finish in order: the first one leaves. *)
<1>WithoutFirst.
  ASSUME NEW S, NEW s \in Seq(S), s # <<>>
  PROVE  Without(s, 1) = Tail(s)
  <2> USE <1>WithoutFirst
  <2>1. PICK a, b : a = SubSeq(s, 1, 0) /\ b = SubSeq(s, 2, Len(s))
    BY Zenon
  <2>2. a = <<>> /\ b = Tail(s)
    BY <2>1
  <2>3. Without(s, 1) = a \o b
    BY <2>1 DEF Without
  <2>4. Tail(s) \in Seq(S)
    OBVIOUS
  <2> QED BY <2>2, <2>3, <2>4
(* Later messages follow earlier ones. *)
<1>IncreasingConcat.
  ASSUME NEW s \in Seq(Ids), NEW t \in Seq(Ids), Increasing(s), Increasing(t),
         \A x \in Range(s), y \in Range(t) : x < y
  PROVE  Increasing(s \o t)
  <2> USE <1>IncreasingConcat
  <2>1. /\ Len(s \o t) = Len(s) + Len(t) /\ Len(s) \in Nat /\ Len(t) \in Nat
        /\ DOMAIN s = 1 .. Len(s) /\ DOMAIN t = 1 .. Len(t)
    OBVIOUS
  <2>2. /\ \A i \in 1 .. Len(s) : (s \o t)[i] = s[i]
        /\ \A i \in 1 .. Len(s) + Len(t) : i > Len(s) => (s \o t)[i] = t[i - Len(s)]
    OBVIOUS
  <2>3. SUFFICES ASSUME NEW i \in 1 .. Len(s) + Len(t), NEW j \in 1 .. Len(s) + Len(t), i < j
                 PROVE  (s \o t)[i] < (s \o t)[j]
    BY <2>1, Zenon DEF Increasing
  <2>4. CASE j <= Len(s)
    BY <2>1, <2>2, <2>3, <2>4 DEF Increasing
  <2>5. CASE i <= Len(s) /\ j > Len(s)
    <3>1. s[i] \in Range(s) /\ j - Len(s) \in 1 .. Len(t) /\ t[j - Len(s)] \in Range(t)
      BY <2>1, <2>3, <2>5 DEF Range
    <3> QED BY <2>1, <2>2, <2>5, <3>1
  <2>6. CASE i > Len(s)
    <3>1. i - Len(s) \in 1 .. Len(t) /\ j - Len(s) \in 1 .. Len(t) /\ i - Len(s) < j - Len(s) /\ j > Len(s)
      BY <2>1, <2>3, <2>6
    <3>2. t[i - Len(s)] < t[j - Len(s)]
      BY <3>1, Zenon DEF Increasing
    <3> QED BY <2>2, <2>6, <3>1, <3>2, Zenon
  <2> QED BY <2>1, <2>4, <2>5, <2>6
(* Types, before and after a step. *)
<1>OrderTypes.
  /\ IndInv => /\ Coming \in Nat /\ data \in [Banks -> Seq(Ids)] /\ out \in Seq(Ids)
               /\ delivered \in Seq(Ids) /\ Unwritten \subseteq Banks
               /\ Range(callerLogCallbacks) \subseteq Banks
  /\ IndInv' => /\ Coming' \in Nat /\ data' \in [Banks -> Seq(Ids)]
                /\ Unwritten' \subseteq Banks /\ Range(callerLogCallbacks)' \subseteq Banks
  <2>1. ASSUME IndInv
        PROVE  /\ Coming \in Nat /\ data \in [Banks -> Seq(Ids)] /\ out \in Seq(Ids)
               /\ delivered \in Seq(Ids) /\ Unwritten \subseteq Banks
               /\ Range(callerLogCallbacks) \subseteq Banks
    <3>1. /\ msg \in [id : Ids \cup {0}, len : Lens \cup {0}] /\ nextId \in 1 .. MaxMsgs + 1
          /\ data \in [Banks -> Seq(Ids)] /\ out \in Seq(Ids) /\ delivered \in Seq(Ids)
      BY <2>1, Zenon DEF IndInv, TypeOK
    <3>2. Coming \in Nat
      BY <3>1, ConstantsAssumption DEF Coming, Ids
    <3>3. /\ currentBuffer \in Banks /\ writeOutBuffers \in Seq(Banks) /\ writing \in Seq(Banks)
          /\ callerLogCallbacks \in Seq(Banks) /\ hold \in [Threads -> Banks \cup {NoBank}]
      BY <2>1, Zenon DEF IndInv, TypeOK
    <3>4. Unwritten \subseteq Banks /\ Range(callerLogCallbacks) \subseteq Banks
      BY <3>3 DEF Unwritten, Held, Range
    <3> QED BY <3>1, <3>2, <3>4, Zenon
  <2>2. ASSUME IndInv'
        PROVE  /\ Coming' \in Nat /\ data' \in [Banks -> Seq(Ids)]
               /\ Unwritten' \subseteq Banks /\ Range(callerLogCallbacks)' \subseteq Banks
    <3>1. /\ msg' \in [id : Ids \cup {0}, len : Lens \cup {0}] /\ nextId' \in 1 .. MaxMsgs + 1
          /\ data' \in [Banks -> Seq(Ids)]
      BY <2>2, Zenon DEF IndInv, TypeOK
    <3>2. Coming' \in Nat
      BY <3>1, ConstantsAssumption DEF Coming, Ids
    <3>3. /\ currentBuffer' \in Banks /\ writeOutBuffers' \in Seq(Banks) /\ writing' \in Seq(Banks)
          /\ callerLogCallbacks' \in Seq(Banks) /\ hold' \in [Threads -> Banks \cup {NoBank}]
      BY <2>2, Zenon DEF IndInv, TypeOK
    <3>4. Unwritten' \subseteq Banks /\ Range(callerLogCallbacks)' \subseteq Banks
      BY <3>3 DEF Unwritten, Held, Range
    <3> QED BY <3>1, <3>2, <3>4, Zenon
  <2> QED BY <2>1, <2>2, Zenon
(* The numbers in a bank are numbers. *)
<1>IdsAreNat.
  ASSUME NEW s \in Seq(Ids)
  PROVE  \A x \in Range(s) : x \in Nat
  BY <1>IdsAreNat, ConstantsAssumption DEF Range, Ids
(* The banks stay in order. *)
<1>LineKept.
  ASSUME IndInv, IndInv', LineInv, Clears, KeepsLine, Counts
  PROVE  LineInv'
  <2> USE <1>LineKept
  <2>0. Coming \in Nat /\ Coming' \in Nat /\ \A b \in Banks : data[b] \in Seq(Ids)
    BY <1>OrderTypes, Zenon
  <2>1. ASSUME NEW b \in Banks
        PROVE  Increasing(data'[b]) /\ \A x \in Range(data'[b]) : x < Coming'
    <3>1. CASE data'[b] = <<>>
      BY <3>1, NothingInEmpty, Zenon
    <3>2. CASE data'[b] = data[b]
      <4>1. \A x \in Range(data[b]) : x < Coming /\ x \in Nat
        BY <2>0, <1>IdsAreNat, Zenon DEF LineInv
      <4>2. \A x \in Range(data[b]) : x < Coming'
        BY <2>0, <4>1 DEF Counts
      <4> QED BY <3>2, <4>2, Zenon DEF LineInv
    <3> QED BY <3>1, <3>2, Zenon DEF Clears
  <2>2. ASSUME NEW b \in Banks, NEW c \in Banks, Ahead(b, c)',
               NEW x \in Range(data'[b]), NEW y \in Range(data'[c])
        PROVE  x < y
    <3>1. data'[b] # <<>> /\ data'[c] # <<>>
      BY <2>2, NothingInEmpty, Zenon
    <3>2. data'[b] = data[b] /\ data'[c] = data[c] /\ Ahead(b, c)
      BY <2>2, <3>1, Zenon DEF Clears, KeepsLine
    <3> QED BY <3>2, Zenon DEF LineInv
  <2> QED BY <2>1, <2>2, Zenon DEF LineInv, Counts
(* What was sent stays before what is in the banks. *)
<1>SentKept.
  ASSUME IndInv, IndInv', Clears, Coming <= Coming', NEW s \in Seq(Ids),
         NEW B \in SUBSET Banks, NEW C \in SUBSET Banks, Sent(s, B),
         \A c \in C : c \in B \/ data'[c] = <<>>
  PROVE  Sent(s, C)'
  <2> USE <1>SentKept
  <2>0. Coming \in Nat /\ Coming' \in Nat /\ \A x \in Range(s) : x \in Nat
    BY <1>OrderTypes, <1>IdsAreNat, Zenon
  <2>1. \A x \in Range(s) : x < Coming'
    BY <2>0, SMTT(30) DEF Sent
  <2>2. ASSUME NEW x \in Range(s), NEW c \in C, NEW y \in Range(data'[c]) PROVE x < y
    <3>1. data'[c] # <<>>
      BY NothingInEmpty, Zenon
    <3>2. c \in B /\ data'[c] = data[c]
      BY <3>1, Zenon DEF Clears
    <3> QED BY <3>2, Zenon DEF Sent
  <2> QED BY <2>1, <2>2, Zenon DEF Sent
(* What bank b has is sent. *)
<1>SentMore.
  ASSUME IndInv, IndInv', LineInv, Clears, Coming <= Coming', NEW s \in Seq(Ids),
         NEW B \in SUBSET Banks, NEW C \in SUBSET B, Sent(s, B), NEW b \in B,
         NEW t, t = data[b], \A c \in C : Ahead(b, c)
  PROVE  Sent(s \o t, C)'
  <2> USE <1>SentMore
  <2>0. /\ Coming \in Nat /\ Coming' \in Nat /\ t \in Seq(Ids) /\ b \in Banks
        /\ (\A x \in Range(s) : x \in Nat) /\ \A x \in Range(t) : x \in Nat
    BY <1>OrderTypes, <1>IdsAreNat, Zenon
  <2>1. Increasing(s \o t)
    <3>1. Increasing(s) /\ Increasing(t) /\ \A x \in Range(s), y \in Range(t) : x < y
      BY <2>0, Zenon DEF Sent, LineInv
    <3> QED BY <2>0, <3>1, <1>IncreasingConcat, Zenon
  <2>2. Range(s \o t) = Range(s) \cup Range(t)
    BY <2>0, ConcatRange
  <2>3. \A x \in Range(s \o t) : x < Coming'
    <3>1. \A x \in Range(s \o t) : x \in Nat /\ x < Coming
      BY <2>0, <2>2, Zenon DEF Sent, LineInv
    <3> QED BY <2>0, <3>1
  <2>4. ASSUME NEW x \in Range(s \o t), NEW c \in C, NEW y \in Range(data'[c]) PROVE x < y
    <3>1. data'[c] # <<>>
      BY NothingInEmpty, Zenon
    <3>2. c \in B /\ c \in Banks /\ data'[c] = data[c] /\ Ahead(b, c)
      BY <3>1, Zenon DEF Clears
    <3>3. CASE x \in Range(s)
      BY <3>2, <3>3, Zenon DEF Sent
    <3>4. CASE x \in Range(t)
      BY <2>0, <3>2, <3>4, Zenon DEF LineInv
    <3> QED BY <2>2, <3>3, <3>4, Zenon
  <2> QED BY <2>1, <2>3, <2>4, Zenon DEF Sent
(* A step that sends nothing. *)
<1>OrderKept.
  ASSUME IndInv, IndInv', LineInv, SentInv, Clears, KeepsLine, Counts, UNCHANGED <<out, delivered>>,
         \A b \in Unwritten' : b \in Unwritten \/ data'[b] = <<>>,
         \A b \in Range(callerLogCallbacks)' : b \in Unwritten \cup Range(callerLogCallbacks)
  PROVE  LineInv' /\ SentInv'
  <2> USE <1>OrderKept
  <2>1. PICK s, d, B, C, D, E : /\ s = out /\ d = delivered /\ B = Unwritten /\ C = Unwritten'
                                /\ D = Unwritten \cup Range(callerLogCallbacks)
                                /\ E = (Unwritten \cup Range(callerLogCallbacks))'
    BY Zenon
  <2>2. /\ s \in Seq(Ids) /\ d \in Seq(Ids) /\ B \in SUBSET Banks /\ C \in SUBSET Banks
        /\ D \in SUBSET Banks /\ E \in SUBSET Banks
    BY <2>1, <1>OrderTypes, Zenon
  <2>3. Sent(s, B) /\ Sent(d, D) /\ Coming <= Coming'
    BY <2>1, Zenon DEF SentInv, Counts
  <2>4. (\A c \in C : c \in B \/ data'[c] = <<>>) /\ \A c \in E : c \in D \/ data'[c] = <<>>
    BY <2>1, Zenon
  <2>5. Sent(s, C)' /\ Sent(d, E)'
    BY <2>2, <2>3, <2>4, <1>SentKept, Zenon
  <2>6. SentInv'
    BY <2>1, <2>5, Zenon DEF SentInv, Sent
  <2> QED BY <2>6, <1>LineKept, Zenon
(* No bank moves along the line. *)
<1>OrderQuiet.
  ASSUME IndInv, IndInv', LineInv, SentInv, Clears, Counts,
         UNCHANGED <<currentBuffer, writeOutBuffers, writing, callerLogCallbacks, hold, out, delivered>>
  PROVE  LineInv' /\ SentInv'
  <2> USE <1>OrderQuiet
  <2>1. Held' = Held /\ Unwritten' = Unwritten /\ Range(callerLogCallbacks)' = Range(callerLogCallbacks)
    BY Zenon DEF Held, Unwritten
  <2>2. KeepsLine
    BY <2>1, Zenon DEF KeepsLine, Ahead
  <2> QED BY <2>1, <2>2, <1>OrderKept, Zenon
(* rotate() puts the current bank behind those that wait; the new one is     *)
(* empty.                                                                    *)
<1>OrderRotated.
  ASSUME IndInv, IndInv', LineInv, SentInv, DataInv, Rotate, Counts, UNCHANGED <<hold, out, delivered>>
  PROVE  LineInv' /\ SentInv'
  <2> USE <1>OrderRotated
  <2>0. BanksTyped /\ FreeEmpty
    BY IndInvParts, Zenon
  <2>1. Clears
    BY <2>0, Zenon DEF Clears, Rotate, BanksTyped
  <2>2. UNCHANGED <<writing, callerLogCallbacks>> /\ Held' = Held
    BY Zenon DEF Rotate, Held
  <2>3. CASE ~Rotated
    <3>1. UNCHANGED <<currentBuffer, writeOutBuffers>>
      BY <2>3, Zenon DEF Rotate
    <3> QED BY <2>1, <2>2, <3>1, <1>OrderQuiet, Zenon
  <2>4. CASE Rotated
    <3>1. PICK h, c : h = Head(availBuffers) /\ c = currentBuffer
      BY Zenon
    <3>2. availBuffers # <<>> /\ currentBuffer' = h /\ writeOutBuffers' = Append(writeOutBuffers, c)
      BY <2>4, <3>1, Zenon DEF Rotate, Rotated
    <3>3. h \in Range(availBuffers) /\ h \in Banks
      BY <2>0, <3>1, <3>2, TailRange, Zenon DEF BanksTyped
    <3>4. data'[h] = <<>>
      BY <2>0, <2>1, <3>3, Zenon DEF FreeEmpty, DataInv, Clears
    <3>5. Range(writeOutBuffers') = Range(writeOutBuffers) \cup {c}
      BY <2>0, <3>1, <3>2, AppendRange DEF BanksTyped
    <3>6. \A x, y : Precedes(writeOutBuffers', x, y) =>
                      Precedes(writeOutBuffers, x, y) \/ (x \in Range(writeOutBuffers) /\ y = c)
      BY <2>0, <3>1, <3>2, <1>PrecedesAppend, Zenon DEF BanksTyped
    <3>7. Unwritten' = Unwritten \cup {h}
      BY <2>2, <3>1, <3>2, <3>5, Zenon DEF Unwritten
    <3>8. ASSUME NEW x \in Banks, NEW y \in Banks, Ahead(x, y)', x # h, y # h PROVE Ahead(x, y)
      <4>1. CASE \E q \in {callerLogCallbacks, writing, writeOutBuffers'} : Precedes(q, x, y)
        BY <3>1, <3>6, <4>1 DEF Ahead
      <4>2. CASE x \in Range(callerLogCallbacks) /\ y \in Unwritten'
        BY <3>7, <3>8, <4>2, Zenon DEF Ahead
      <4>3. CASE x \in Range(writing) /\ y \in Held \cup Range(writeOutBuffers') \cup {h}
        BY <3>1, <3>5, <3>8, <4>3, Zenon DEF Ahead
      <4>4. CASE x \in Held /\ y \in Range(writeOutBuffers') \cup {h}
        BY <3>1, <3>5, <3>8, <4>4, Zenon DEF Ahead
      <4> QED BY <2>2, <3>2, <3>8, <4>1, <4>2, <4>3, <4>4, Zenon DEF Ahead
    <3>9. KeepsLine
      BY <3>4, <3>8, Zenon DEF KeepsLine
    <3> QED BY <2>1, <2>2, <3>4, <3>7, <3>9, <1>OrderKept, Zenon
  <2> QED BY <2>3, <2>4, Zenon
(* Only the logger thread has a bank in its hands. *)
<1>HeldOne.
  ASSUME Flushers = {}
  PROVE  Held = {hold[Logger]} \ {NoBank} /\ Held' = {hold'[Logger]} \ {NoBank}
  BY <1>HeldOne, Zenon DEF Held, Threads
(* The first bank that waits is taken. *)
<1>OrderTaken.
  ASSUME IndInv, IndInv', LineInv, SentInv, Flushers = {}, hold[Logger] = NoBank,
         NEW flushing, TakeWriteOut(Logger, flushing)
  PROVE  LineInv' /\ SentInv'
  <2> USE <1>OrderTaken
  <2>0. BanksTyped /\ hold \in [Threads -> Banks \cup {NoBank}] /\ Logger \in Threads
    BY IndInvParts, Zenon DEF IndInv, TypeOK, Threads
  <2>1. /\ UNCHANGED <<currentBuffer, writing, callerLogCallbacks, out, delivered, msg, nextId, data>>
    BY Zenon DEF TakeWriteOut, history, bytes
  <2>2. Clears /\ Counts
    BY <2>1, <1>OrderTypes DEF Clears, Counts, Coming, LineInv
  <2>3. CASE writeOutBuffers = <<>>
    BY <2>1, <2>2, <2>3, <1>OrderQuiet, Zenon DEF TakeWriteOut
  <2>4. CASE writeOutBuffers # <<>>
    <3>1. PICK h : h = Head(writeOutBuffers)
      BY Zenon
    <3>2. hold' = [hold EXCEPT ![Logger] = h] /\ writeOutBuffers' = Tail(writeOutBuffers)
      BY <2>4, <3>1, Zenon DEF TakeWriteOut
    <3>3. h \in Range(writeOutBuffers) /\ h \in Banks
      BY <2>0, <2>4, <3>1, TailRange, Zenon DEF BanksTyped
    <3>4. Held = {} /\ Held' = {h}
      BY <2>0, <3>2, <3>3, <1>HeldOne, BanksFacts, Zenon
    <3>5. \A x, y : Precedes(writeOutBuffers', x, y) => Precedes(writeOutBuffers, x, y)
      BY <2>0, <2>4, <3>2, <1>PrecedesTail, Zenon DEF BanksTyped
    <3>6. \A y \in Range(writeOutBuffers') : Precedes(writeOutBuffers, h, y) /\ y \in Range(writeOutBuffers)
      BY <2>0, <2>4, <3>1, <3>2, <1>PrecedesTail, Zenon DEF BanksTyped
    <3>7. Unwritten' \subseteq Unwritten
      BY <2>1, <3>3, <3>4, <3>6, Zenon DEF Unwritten
    <3>8. ASSUME NEW x \in Banks, NEW y \in Banks, Ahead(x, y)' PROVE Ahead(x, y)
      <4>1. CASE \E q \in {callerLogCallbacks, writing, writeOutBuffers'} : Precedes(q, x, y)
        BY <3>5, <4>1, Zenon DEF Ahead
      <4>2. CASE x \in Range(callerLogCallbacks) /\ y \in Unwritten'
        BY <3>7, <4>2, Zenon DEF Ahead
      <4>3. CASE x \in Range(writing) /\ y \in {h} \cup Range(writeOutBuffers') \cup {currentBuffer}
        BY <3>3, <3>6, <4>3, Zenon DEF Ahead
      <4>4. CASE x = h /\ y \in Range(writeOutBuffers') \cup {currentBuffer}
        BY <3>3, <3>6, <4>4, Zenon DEF Ahead
      <4>5. CASE x \in Range(writeOutBuffers') /\ y = currentBuffer
        BY <3>6, <4>5, Zenon DEF Ahead
      <4> QED BY <2>1, <3>4, <3>8, <4>1, <4>2, <4>3, <4>4, <4>5, Zenon DEF Ahead
    <3>9. KeepsLine
      BY <3>8, Zenon DEF KeepsLine
    <3> QED BY <2>1, <2>2, <3>7, <3>9, <1>OrderKept, Zenon
  <2> QED BY <2>3, <2>4, Zenon
(* A bank goes to libuv. *)
<1>OrderFlushed.
  ASSUME IndInv, IndInv', LineInv, SentInv, Flushers = {}, Flush(Logger)
  PROVE  LineInv' /\ SentInv'
  <2> USE <1>OrderFlushed
  <2>0. BanksTyped /\ hold \in [Threads -> Banks \cup {NoBank}] /\ Logger \in Threads
    BY IndInvParts, Zenon DEF IndInv, TypeOK, Threads
  <2>1. UNCHANGED <<currentBuffer, writeOutBuffers, callerLogCallbacks, out, delivered, msg, nextId, data>>
    BY Zenon DEF Flush, history, bytes
  <2>2. Clears /\ Counts
    BY <2>1, <1>OrderTypes DEF Clears, Counts, Coming, LineInv
  <2>3. PICK h : h = hold[Logger]
    BY Zenon
  <2>4. h \in Banks
    BY <2>0, <2>3, Zenon DEF IndInv, CarriesBank, Flush
  <2>5. Held = {h} /\ Held' = {} /\ writing' = Append(writing, h)
    BY <2>0, <2>3, <2>4, <1>HeldOne, BanksFacts, Zenon DEF Flush
  <2>6. Range(writing') = Range(writing) \cup {h}
    BY <2>0, <2>4, <2>5, AppendRange DEF BanksTyped
  <2>7. \A x, y : Precedes(writing', x, y) => Precedes(writing, x, y) \/ (x \in Range(writing) /\ y = h)
    BY <2>0, <2>4, <2>5, <1>PrecedesAppend, Zenon DEF BanksTyped
  <2>8. Unwritten' = Unwritten
    BY <2>1, <2>5, <2>6, Zenon DEF Unwritten
  <2>9. ASSUME NEW x \in Banks, NEW y \in Banks, Ahead(x, y)' PROVE Ahead(x, y)
    <3>1. CASE \E q \in {callerLogCallbacks, writing', writeOutBuffers} : Precedes(q, x, y)
      <4>1. Precedes(writing', x, y) => Precedes(writing, x, y) \/ (x \in Range(writing) /\ y \in Held)
        BY <2>5, <2>7
      <4> QED BY <3>1, <4>1, Zenon DEF Ahead
    <3>2. CASE x \in Range(callerLogCallbacks) /\ y \in Unwritten
      BY <3>2, Zenon DEF Ahead
    <3>3. CASE x \in Range(writing') /\ y \in Range(writeOutBuffers) \cup {currentBuffer}
      BY <2>5, <2>6, <3>3, Zenon DEF Ahead
    <3>4. CASE x \in Range(writeOutBuffers) /\ y = currentBuffer
      BY <3>4, Zenon DEF Ahead
    <3> QED BY <2>1, <2>5, <2>8, <2>9, <3>1, <3>2, <3>3, <3>4, Zenon DEF Ahead
  <2>10. KeepsLine
    BY <2>9, Zenon DEF KeepsLine
  <2> QED BY <2>1, <2>2, <2>8, <2>10, <1>OrderKept, Zenon
(* A bank that is ahead of all the others is returned: it is free, or it is  *)
(* the last to wait for the callback.                                        *)
<1>OrderReturned.
  ASSUME IndInv, IndInv', LineInv, Clears, NEW b \in Unwritten,
         UNCHANGED <<currentBuffer, writeOutBuffers, msg, nextId, delivered>>,
         callerLogCallbacks' \in {callerLogCallbacks, Append(callerLogCallbacks, b)},
         Held' \subseteq Held, Range(writing') \subseteq Range(writing),
         \A x, y : Precedes(writing', x, y) => Precedes(writing, x, y),
         \A c \in Unwritten' : Ahead(b, c)
  PROVE  /\ LineInv' /\ Unwritten' \subseteq Unwritten /\ Counts
         /\ Range(callerLogCallbacks)' \subseteq Unwritten \cup Range(callerLogCallbacks)
         /\ KeepsLine
  <2> USE <1>OrderReturned
  <2>0. BanksTyped /\ b \in Banks
    BY IndInvParts, <1>OrderTypes, Zenon
  <2>1. Counts
    BY <1>OrderTypes, SMTT(30) DEF Counts, Coming, LineInv
  <2>2. Range(callerLogCallbacks') \subseteq Range(callerLogCallbacks) \cup {b}
    <3>1. Range(Append(callerLogCallbacks, b)) = Range(callerLogCallbacks) \cup {b}
      BY <2>0, AppendRange DEF BanksTyped
    <3> QED BY <3>1, Zenon
  <2>3. \A x, y : Precedes(callerLogCallbacks', x, y) =>
                    \/ Precedes(callerLogCallbacks, x, y)
                    \/ x \in Range(callerLogCallbacks) /\ y = b
    BY <2>0, <1>PrecedesAppend, Zenon DEF BanksTyped
  <2>4. Unwritten' \subseteq Unwritten
    BY Zenon DEF Unwritten
  <2>5. ASSUME NEW x \in Banks, NEW y \in Banks, Ahead(x, y)' PROVE Ahead(x, y)
    <3>1. CASE \E q \in {callerLogCallbacks', writing', writeOutBuffers} : Precedes(q, x, y)
      BY <2>3, <3>1 DEF Ahead
    <3>2. CASE x \in Range(callerLogCallbacks') /\ y \in Unwritten'
      BY <2>2, <2>4, <3>2, Zenon DEF Ahead
    <3>3. CASE x \in Range(writing') /\ y \in Held' \cup Range(writeOutBuffers) \cup {currentBuffer}
      BY <3>3, Zenon DEF Ahead
    <3>4. CASE x \in Held' /\ y \in Range(writeOutBuffers) \cup {currentBuffer}
      BY <3>4, Zenon DEF Ahead
    <3>5. CASE x \in Range(writeOutBuffers) /\ y = currentBuffer
      BY <3>5, Zenon DEF Ahead
    <3> QED BY <2>5, <3>1, <3>2, <3>3, <3>4, <3>5, Zenon DEF Ahead
  <2>6. KeepsLine
    BY <2>5, Zenon DEF KeepsLine
  <2> QED BY <2>1, <2>2, <2>4, <2>6, <1>LineKept, Zenon
(* What returnBuffer() does when nobody waits for the callback. *)
<1>ReturnDoes.
  ASSUME IndInv, NEW b \in Banks, NEW sync, NEW nocallback, ReturnBuffer(b, sync, nocallback),
         ~sync \/ nocallback
  PROVE  /\ Clears /\ delivered' = delivered
         /\ callerLogCallbacks' \in {callerLogCallbacks, Append(callerLogCallbacks, b)}
  <2> USE <1>ReturnDoes
  <2>1. BanksTyped
    BY IndInvParts, Zenon
  <2>2. Clears
    BY <2>1, Zenon DEF Clears, ReturnBuffer, Recycle, QueueCallback, SkipCallback, BanksTyped
  <2>3. delivered' = delivered
    BY Zenon DEF ReturnBuffer
  <2>4. callerLogCallbacks' \in {callerLogCallbacks, Append(callerLogCallbacks, b)}
    BY Zenon DEF ReturnBuffer, QueueCallback, SkipCallback
  <2> QED BY <2>2, <2>3, <2>4, Zenon
(* A callback target returns the bank in its hands: nothing is with libuv. *)
<1>OrderHeldReturned.
  ASSUME IndInv, IndInv', LineInv, SentInv, Flushers = {}, kind = "callback", writing = <<>>,
         FlushCallback(Logger) \/ FlushSync
  PROVE  LineInv' /\ SentInv'
  <2> USE <1>OrderHeldReturned
  <2>0. BanksTyped /\ hold \in [Threads -> Banks \cup {NoBank}] /\ Logger \in Threads /\ ~IsDefault
    BY IndInvParts, ConstantsAssumption, Zenon DEF IndInv, TypeOK, Threads
  <2>1. UNCHANGED <<currentBuffer, writeOutBuffers, writing, msg, nextId, out>>
    BY Zenon DEF FlushCallback, FlushSync
  <2>2. PICK b, sync, nocallback : /\ b = hold[Logger] /\ ReturnBuffer(b, sync, nocallback)
                                   /\ ~sync \/ nocallback
    BY <2>0, Zenon DEF FlushCallback, FlushSync
  <2>3. b \in Banks
    BY <2>0, <2>2, Zenon DEF IndInv, CarriesBank, FlushCallback, FlushSync
  <2>4. Held = {b} /\ Held' = {}
    BY <2>0, <2>2, <2>3, <1>HeldOne, BanksFacts, Zenon DEF FlushCallback, FlushSync
  <2>5. b \in Unwritten /\ \A c \in Unwritten' : Ahead(b, c)
    <3>1. Range(<<>>) = {}
      BY NothingInEmpty, Zenon
    <3> QED BY <2>1, <2>4, <3>1, Zenon DEF Unwritten, Ahead
  <2>6. /\ Clears /\ delivered' = delivered
        /\ callerLogCallbacks' \in {callerLogCallbacks, Append(callerLogCallbacks, b)}
    BY <2>2, <2>3, <1>ReturnDoes
  <2>7. /\ LineInv' /\ Unwritten' \subseteq Unwritten /\ Counts /\ KeepsLine
        /\ Range(callerLogCallbacks)' \subseteq Unwritten \cup Range(callerLogCallbacks)
    BY <2>1, <2>4, <2>5, <2>6, <1>OrderReturned, Zenon
  <2> QED BY <2>1, <2>6, <2>7, <1>OrderKept, Zenon
(* A message is copied to the current bank, the last of the line. *)
<1>OrderCopied.
  ASSUME IndInv, IndInv', LineInv, SentInv, InWrite, CopyIn(currentBuffer), msg' = NoMsg,
         UNCHANGED <<currentBuffer, writeOutBuffers, writing, callerLogCallbacks, hold, nextId,
                     out, delivered>>
  PROVE  LineInv' /\ SentInv'
  <2> USE <1>OrderCopied
  <2>0. /\ BanksTyped /\ BankConservation /\ msg.id \in Ids /\ msg.id \in Nat \ {0} /\ nextId \in Nat
        /\ \A c \in Banks : data[c] \in Seq(Ids)
    <3>1. msg.id \in Ids /\ nextId \in 1 .. MaxMsgs + 1 /\ data \in [Banks -> Seq(Ids)]
      BY IndInvParts, Zenon DEF Control, OtherTyped, BanksTyped
    <3> QED BY <3>1, IndInvParts, ConstantsAssumption DEF Ids
  <2>1. PICK b, m : b = currentBuffer /\ m = msg.id
    BY Zenon
  <2>2. b \in Banks /\ m \in Nat \ {0} /\ m \in Ids /\ Coming = m /\ Coming' = nextId /\ m < nextId
    BY <2>0, <2>1, Zenon DEF BanksTyped, Coming, NoMsg, LineInv
  <2>3. /\ Held' = Held /\ Unwritten' = Unwritten
        /\ \A x, y : Ahead(x, y)' <=> Ahead(x, y)
    BY Zenon DEF Held, Unwritten, Ahead
  <2>4. \A y : ~Ahead(b, y)
    <3>1. /\ b \in At["current"] /\ "current" \in Places /\ "writeOut" \in Places /\ "held" \in Places
          /\ "writing" \in Places /\ "callbacks" \in Places
      BY <2>1, AtIs, Zenon DEF Places
    <3>2. /\ b \notin At["writeOut"] /\ b \notin At["held"] /\ b \notin At["writing"]
          /\ b \notin At["callbacks"]
      BY <2>0, <3>1, Elsewhere, Zenon
    <3>3. /\ b \notin Range(writeOutBuffers) /\ b \notin Held /\ b \notin Range(writing)
          /\ b \notin Range(callerLogCallbacks)
      BY <3>2, AtIs, Zenon
    <3>4. \A q \in {callerLogCallbacks, writing, writeOutBuffers} : \A y : ~Precedes(q, b, y)
      <4>1. \A q \in Seq(Banks) : \A y : Precedes(q, b, y) => b \in Range(q)
        BY DEF Precedes, Range
      <4> QED BY <2>0, <3>3, <4>1, Zenon DEF BanksTyped
    <3> QED BY <3>3, <3>4, Zenon DEF Ahead
  <2>5. /\ \A c \in Banks \ {b} : data'[c] = data[c]
        /\ data'[b] = data[b] \/ data'[b] = Append(data[b], m)
    BY <2>0, <2>1, <2>2, Zenon DEF CopyIn, BanksTyped
  <2>6. /\ \A c \in Banks : \A x \in Range(data[c]) : x \in Nat /\ x < m
        /\ \A c \in Banks : Increasing(data[c])
    BY <2>0, <2>2, <1>IdsAreNat, Zenon DEF LineInv
  <2>7. Range(data'[b]) \subseteq Range(data[b]) \cup {m} /\ Increasing(data'[b])
    <3>1. PICK s : s = data[b]
      BY Zenon
    <3>2. s \in Seq(Ids) /\ Increasing(s) /\ \A x \in Range(s) : x \in Nat /\ x < m
      BY <2>0, <2>2, <2>6, <3>1, Zenon
    <3>3. Range(Append(s, m)) = Range(s) \cup {m}
      BY <2>2, <3>2, AppendRange
    <3>4. Increasing(Append(s, m))
      <4>1. /\ Len(s) \in Nat /\ Len(Append(s, m)) = Len(s) + 1 /\ DOMAIN s = 1 .. Len(s)
            /\ Append(s, m)[Len(s) + 1] = m /\ \A i \in 1 .. Len(s) : Append(s, m)[i] = s[i]
        BY <3>2, SMTT(30)
      <4>2. \A i \in 1 .. Len(s) : s[i] < m
        BY <3>2, <4>1, Zenon DEF Range
      <4> QED BY <3>2, <4>1, <4>2 DEF Increasing
    <3> QED BY <2>5, <3>1, <3>2, <3>3, <3>4, Zenon
  <2>8. \A c \in Banks : Range(data'[c]) \subseteq Range(data[c]) \cup (IF c = b THEN {m} ELSE {})
    BY <2>5, <2>7, Zenon
  <2>9. ASSUME NEW c \in Banks PROVE Increasing(data'[c]) /\ \A x \in Range(data'[c]) : x < Coming'
    <3>1. \A x \in Range(data'[c]) : x \in Nat /\ x <= m
      <4> SUFFICES ASSUME NEW x \in Range(data'[c]) PROVE x \in Nat /\ x <= m
        BY Zenon
      <4>1. x \in Range(data[c]) \/ x = m
        BY <2>8, Zenon
      <4>2. x \in Range(data[c]) => x \in Nat /\ x < m
        BY <2>6, Zenon
      <4> QED BY <2>2, <4>1, <4>2
    <3> QED BY <2>0, <2>2, <2>5, <2>6, <2>7, <3>1, SMTT(30)
  <2>10. ASSUME NEW c \in Banks, NEW d \in Banks, Ahead(c, d)',
                NEW x \in Range(data'[c]), NEW y \in Range(data'[d])
         PROVE  x < y
    <3>1. c # b /\ Ahead(c, d) /\ x \in Range(data[c])
      BY <2>3, <2>4, <2>8, <2>10, Zenon
    <3>2. y \in Range(data[d]) => x < y
      BY <3>1, Zenon DEF LineInv
    <3>3. x < m /\ (y \in Range(data[d]) \/ y = m)
      BY <2>6, <2>8, <3>1, Zenon
    <3> QED BY <3>2, <3>3, Zenon
  <2>11. LineInv'
    <3>1. msg'.id < nextId'
      BY <2>0 DEF LineInv, NoMsg
    <3> QED BY <2>9, <2>10, <3>1, Zenon DEF LineInv
  <2>12. ASSUME NEW s \in Seq(Ids), NEW B \in SUBSET Banks, Sent(s, B) PROVE Sent(s, B)'
    <3>1. \A x \in Range(s) : x \in Nat /\ x < m
      BY <2>2, <2>12, <1>IdsAreNat, Zenon DEF Sent
    <3>2. \A x \in Range(s) : x < Coming'
      BY <2>0, <2>2, <3>1
    <3>3. \A x \in Range(s), c \in B : \A y \in Range(data'[c]) : x < y
      BY <2>8, <2>12, <3>1, Zenon DEF Sent
    <3> QED BY <2>12, <3>2, <3>3, Zenon DEF Sent
  <2>13. PICK s, d, B, D : /\ s = out /\ d = delivered /\ B = Unwritten
                           /\ D = Unwritten \cup Range(callerLogCallbacks)
    BY Zenon
  <2>14. Sent(s, B)' /\ Sent(d, D)'
    BY <2>12, <2>13, <1>OrderTypes, Zenon DEF SentInv
  <2> QED BY <2>3, <2>11, <2>13, <2>14, Zenon DEF SentInv, Sent
(* A bank is delivered to the callback. *)
<1>OrderDelivered.
  ASSUME IndInv, IndInv', LineInv, SentInv, CallCallback
  PROVE  LineInv' /\ SentInv'
  <2> USE <1>OrderDelivered
  <2>0. BanksTyped
    BY IndInvParts, Zenon
  <2>1. PICK b : b = Head(callerLogCallbacks)
    BY Zenon
  <2>2. /\ callerLogCallbacks # <<>> /\ callerLogCallbacks' = Tail(callerLogCallbacks)
        /\ delivered' = delivered \o data[b]
        /\ UNCHANGED <<currentBuffer, writeOutBuffers, writing, hold, data, nextId, out, msg>>
    BY <2>1, Zenon DEF CallCallback, bytes
  <2>3. Clears /\ Counts /\ Held' = Held /\ Unwritten' = Unwritten
    <3>1. Clears
      BY <2>2, Zenon DEF Clears
    <3>2. Coming' = Coming /\ Held' = Held
      BY <2>2, Zenon DEF Coming, Held
    <3>3. Coming \in Nat
      BY <1>OrderTypes, Zenon
    <3>4. Counts
      BY <2>2, <3>2, <3>3 DEF Counts, LineInv
    <3> QED BY <2>2, <3>1, <3>2, <3>4, Zenon DEF Unwritten
  <2>4. /\ b \in Range(callerLogCallbacks)
        /\ Range(callerLogCallbacks') \subseteq Range(callerLogCallbacks)
        /\ \A x, y : Precedes(callerLogCallbacks', x, y) => Precedes(callerLogCallbacks, x, y)
        /\ \A c \in Range(callerLogCallbacks') : Precedes(callerLogCallbacks, b, c)
    BY <2>0, <2>1, <2>2, <1>PrecedesTail, TailRange, Zenon DEF BanksTyped
  <2>5. KeepsLine
    BY <2>2, <2>3, <2>4, Zenon DEF KeepsLine, Ahead
  <2>6. PICK s, d, B, D, E, u : /\ s = out /\ d = delivered /\ B = Unwritten /\ u = data[b]
                                /\ D = Unwritten \cup Range(callerLogCallbacks)
                                /\ E = Unwritten \cup Range(callerLogCallbacks')
    BY Zenon
  <2>7. /\ s \in Seq(Ids) /\ d \in Seq(Ids) /\ B \in SUBSET Banks /\ D \in SUBSET Banks
        /\ E \in SUBSET D /\ b \in D /\ Sent(s, B) /\ Sent(d, D) /\ Coming <= Coming'
        /\ \A c \in E : Ahead(b, c)
    BY <2>3, <2>4, <2>6, <1>OrderTypes, Zenon DEF SentInv, Counts, Ahead
  <2>8. Sent(s, B)'
    BY <2>3, <2>7, <1>SentKept, Zenon
  <2>9. Sent(d \o u, E)'
    BY <2>3, <2>6, <2>7, <1>SentMore, Zenon
  <2>10. SentInv'
    BY <2>2, <2>3, <2>6, <2>8, <2>9, Zenon DEF SentInv, Sent
  <2> QED BY <2>3, <2>5, <2>10, <1>LineKept, Zenon
(* libuv is done with the bank it was given first. *)
<1>OrderWritten.
  ASSUME IndInv, IndInv', LineInv, SentInv, writing # <<>>, NEW ok \in BOOLEAN, WriteCb(1, ok)
  PROVE  LineInv' /\ SentInv'
  <2> USE <1>OrderWritten
  <2>0. BanksTyped
    BY IndInvParts, Zenon
  <2>1. PICK b : b = writing[1]
    BY Zenon
  <2>2. /\ writing' = Without(writing, 1) /\ ReturnBuffer(b, FALSE, FALSE)
        /\ out' = (IF ok THEN out \o data[b] ELSE out)
        /\ UNCHANGED <<currentBuffer, writeOutBuffers, hold, nextId, msg>>
    BY <2>1, Zenon DEF WriteCb
  <2>3. writing' = Tail(writing) /\ b = Head(writing) /\ Held' = Held
    <3>1. writing \in Seq(Banks) /\ Without(writing, 1) = Tail(writing)
      BY <2>0, <1>WithoutFirst, Zenon DEF BanksTyped
    <3>2. Held' = Held
      BY <2>2, Zenon DEF Held
    <3> QED BY <2>1, <2>2, <3>1, <3>2
  <2>4. /\ b \in Range(writing) /\ Range(writing') \subseteq Range(writing)
        /\ \A x, y : Precedes(writing', x, y) => Precedes(writing, x, y)
        /\ \A c \in Range(writing') : Precedes(writing, b, c)
    BY <2>0, <2>3, <1>PrecedesTail, TailRange, Zenon DEF BanksTyped
  <2>5. b \in Unwritten /\ b \in Banks
    BY <2>4, <1>OrderTypes, Zenon DEF Unwritten
  <2>6. \A c \in Unwritten' : Ahead(b, c)
    BY <2>2, <2>3, <2>4, Zenon DEF Unwritten, Ahead
  <2>7. /\ Clears /\ delivered' = delivered
        /\ callerLogCallbacks' \in {callerLogCallbacks, Append(callerLogCallbacks, b)}
    BY <2>2, <2>5, <1>ReturnDoes, Zenon
  <2>8. /\ LineInv' /\ Unwritten' \subseteq Unwritten /\ Counts
        /\ Range(callerLogCallbacks)' \subseteq Unwritten \cup Range(callerLogCallbacks)
    BY <2>2, <2>3, <2>4, <2>5, <2>6, <2>7, <1>OrderReturned, Zenon
  <2>9. PICK s, d, B, C, D, E, u :
          /\ s = out /\ d = delivered /\ B = Unwritten /\ C = Unwritten' /\ u = data[b]
          /\ D = Unwritten \cup Range(callerLogCallbacks)
          /\ E = (Unwritten \cup Range(callerLogCallbacks))'
    BY Zenon
  <2>10. /\ s \in Seq(Ids) /\ d \in Seq(Ids) /\ B \in SUBSET Banks /\ D \in SUBSET Banks
         /\ C \in SUBSET B /\ E \in SUBSET D /\ b \in B /\ Sent(s, B) /\ Sent(d, D)
         /\ Coming <= Coming' /\ \A c \in C : Ahead(b, c)
    BY <2>5, <2>6, <2>8, <2>9, <1>OrderTypes, Zenon DEF SentInv, Counts
  <2>11. Sent(d, E)' /\ Sent(s, C)'
    BY <2>7, <2>10, <1>SentKept, Zenon
  <2>12. Sent(s \o u, C)'
    BY <2>7, <2>9, <2>10, <1>SentMore, Zenon
  <2> QED BY <2>2, <2>7, <2>8, <2>9, <2>11, <2>12, Zenon DEF SentInv, Sent
<1> SUFFICES ASSUME Flushers = {}, IndInv, IndInv', MsgInv, WriteInv, OrderInv, [Next]_vars,
                    kind' # "file"
             PROVE  LineInv' /\ SentInv'
  BY Zenon DEF OrderInv
<1>0. /\ Logger \in Threads /\ Threads = {Logger} /\ Control /\ DataInv
      /\ writing \in Seq(Banks) /\ kind \in Kinds /\ Coming \in Nat
  BY IndInvParts, <1>OrderTypes, Zenon DEF Threads, MsgInv, OtherTyped, BanksTyped
<1>1. kind' = kind
  BY Zenon DEF Next, NewLog, WriteStep, CheckEmpty, WriteCopyIn, WriteRotate, WritePost, WritePostFull,
         FlushTimer, RotateCmd, ShutdownCmd, SyncStep, DrainSync, TakeWriteOut, FlushSyncTty, FlushSync,
         SomeWriteCb, WriteCb, CallCallback, SetCallback, UserFlush, FlushStep, Drain, Flush,
         FlushCallback, Cleanup, DisableWrites, vars, flags
<1>2. LineInv /\ SentInv /\ kind \in {"tty", "callback"}
  <2>1. kind \in {"tty", "file", "callback"} /\ kind # "file"
    BY <1>0, <1>1, ConstantsAssumption, Zenon DEF AllKinds
  <2> QED BY <2>1, Zenon DEF OrderInv
<1>3. msg' = msg /\ nextId' = nextId => Counts
  BY <1>0, <1>2 DEF Counts, Coming, LineInv
<1>4. msg'.id = 0 /\ nextId' = nextId => Counts
  <2>1. nextId \in Nat /\ nextId > 0 /\ msg.id \in Nat
    BY IndInvParts, ConstantsAssumption, SMTT(30) DEF OtherTyped, Ids
  <2> QED BY <1>2, <2>1 DEF Counts, Coming, LineInv
<1>5. CASE \/ UNCHANGED vars \/ CheckEmpty \/ RotateCmd \/ SetCallback \/ FlushSyncTty
           \/ \E v \in BOOLEAN : DisableWrites(v)
  <2>1. UNCHANGED <<places, bytes, history, msg>>
    BY <1>5, Zenon DEF vars, CheckEmpty, RotateCmd, SetCallback, FlushSyncTty, DisableWrites
  <2> QED BY <1>2, <1>3, <2>1, <1>OrderQuiet, Zenon DEF places, bytes, history, Clears
<1>6. ASSUME NEW len \in Lens, NewLog(len) PROVE LineInv' /\ SentInv'
  <2>1. UNCHANGED <<places, bytes, out, delivered>> /\ nextId' = nextId + 1
        /\ (msg' = msg \/ msg' = [id |-> nextId, len |-> len])
    BY <1>6, Zenon DEF NewLog
  <2>2. msg.id = 0
    BY <1>0, <1>6, Zenon DEF WriteInv, InWrite, NewLog
  <2>3. Counts
    BY <2>1, <2>2, IndInvParts, SMTT(30) DEF Counts, Coming, OtherTyped
  <2> QED BY <1>2, <2>1, <2>3, <1>OrderQuiet, Zenon DEF places, bytes, Clears
<1>7. CASE WriteCopyIn \/ WritePost
  <2>1. InWrite /\ CopyIn(currentBuffer) /\ msg' = NoMsg /\ UNCHANGED <<places, nextId, out, delivered>>
    BY <1>7, Zenon DEF WriteCopyIn, WritePost, InWrite
  <2> QED BY <1>2, <2>1, <1>OrderCopied, Zenon DEF places
<1>8. CASE WritePostFull
  <2>1. UNCHANGED <<places, bytes, out, delivered, nextId>> /\ msg'.id = 0
    BY <1>8, Zenon DEF WritePostFull, NoMsg
  <2> QED BY <1>2, <1>4, <2>1, <1>OrderQuiet, Zenon DEF places, bytes, Clears
<1>9. CASE WriteRotate \/ FlushTimer \/ ShutdownCmd
  <2>1. Rotate /\ UNCHANGED <<hold, out, delivered, nextId>> /\ (msg' = msg \/ msg'.id = 0)
    BY <1>9, SMTT(30) DEF WriteRotate, FlushTimer, ShutdownCmd, NoMsg
  <2> QED BY <1>0, <1>2, <1>3, <1>4, <2>1, <1>OrderRotated, Zenon
<1>10. CASE DrainSync \/ Drain(Logger)
  <2>1. hold[Logger] = NoBank
    BY <1>0, <1>10, Zenon DEF Control, CarriesBank, DrainSync, Drain
  <2>2. PICK v : TakeWriteOut(Logger, v)
    BY <1>10, Zenon DEF DrainSync, Drain
  <2> QED BY <1>2, <2>1, <2>2, <1>OrderTaken, Zenon
<1>11. CASE Flush(Logger)
  BY <1>2, <1>11, <1>OrderFlushed, Zenon
<1>12. CASE FlushCallback(Logger) \/ FlushSync
  <2>1. kind = "callback" /\ writing = <<>>
    BY <1>2, <1>12, Zenon DEF FlushCallback, FlushSync, WriteInv
  <2> QED BY <1>2, <1>12, <2>1, <1>OrderHeldReturned, Zenon
<1>13. CASE SomeWriteCb
  <2>1. PICK i \in 1 .. Len(writing), ok \in BOOLEAN : WriteCb(i, ok)
    BY <1>13, Zenon DEF SomeWriteCb
  <2>2. writing # <<>>
    BY <1>0, <2>1
  <2>3. kind = "tty" /\ i = 1
    BY <1>2, <2>1, <2>2, Zenon DEF WriteInv, WriteCb
  <2> QED BY <1>2, <2>1, <2>2, <2>3, <1>OrderWritten, Zenon
<1>14. CASE CallCallback
  BY <1>2, <1>14, <1>OrderDelivered, Zenon
<1>15. ASSUME NEW b \in user, Cleanup(b) PROVE LineInv' /\ SentInv'
  <2>1. UNCHANGED <<currentBuffer, writeOutBuffers, writing, callerLogCallbacks, hold, history, msg>>
    BY <1>15, Zenon DEF Cleanup
  <2>2. Clears
    BY <1>15, IndInvParts, Zenon DEF Cleanup, Recycle, bytes, Clears, BanksTyped
  <2> QED BY <1>2, <1>3, <2>1, <2>2, <1>OrderQuiet, Zenon DEF history
<1> QED BY <1>0, <1>5, <1>6, <1>7, <1>8, <1>9, <1>10, <1>11, <1>12, <1>13, <1>14, <1>15, Zenon
        DEF Next, WriteStep, SyncStep, FlushStep

(* The banks are empty at first. *)
LEMMA OrderInit == Init => OrderInv
<1> SUFFICES ASSUME Init PROVE LineInv /\ SentInv
  BY Zenon DEF OrderInv
<1>1. /\ (\A b \in Banks : data[b] = <<>>) /\ msg.id = 0 /\ nextId = 1 /\ out = <<>> /\ delivered = <<>>
  BY Zenon DEF Init, NoMsg
<1>2. Range(<<>>) = {} /\ Increasing(<<>>)
  BY NothingInEmpty, Zenon
<1> QED BY <1>1, <1>2, SMTT(30) DEF LineInv, SentInv, Sent, Coming

(* Messages reach a terminal, and the callback, in the order in which they   *)
(* were logged, for a target that no user thread flushes: the banks and the  *)
(* numbers in them go through the queues in one line, and what was sent      *)
(* comes before all of it.                                                   *)
THEOREM SentInOrder ==
  ASSUME Flushers = {}
  PROVE  Spec => []InOrder
<1>1. Init => IndInv /\ MsgInv /\ WriteInv /\ OrderInv
  BY InitInv, MsgInit, OrderInit, Zenon
<1>2. IndInv /\ MsgInv /\ WriteInv /\ OrderInv /\ [Next]_vars =>
        IndInv' /\ MsgInv' /\ WriteInv' /\ OrderInv'
  BY NextInv, MsgStep, WriteInvStep, OrderStep, Zenon
<1>3. OrderInv => InOrder
  BY Zenon DEF OrderInv, SentInv, Sent, InOrder
<1> QED BY <1>1, <1>2, <1>3, PTL DEF Spec

================================================================================
