---------------------------- MODULE LogTargetProofs ----------------------------
(***************************************************************************)
(* Proofs about LogTarget, for every number of banks, every bank size and  *)
(* set of message lengths, any number of flushing user threads and every   *)
(* kind of target: banks are conserved, every message is in one place, and *)
(* no bank holds more bytes than its heap block.                           *)
(***************************************************************************)
EXTENDS LogTarget, TLAPS

-----------------------------------------------------------------------------
(* Queues that hold each element at most once. *)

(* A queue is its length and its elements. *)
LEMMA QueueOf ==
  ASSUME NEW S, NEW n \in Nat, NEW s \in [1 .. n -> S]
  PROVE  s \in Seq(S)
OBVIOUS

(* Appending a new element to a queue of banks. *)
LEMMA AppendRange ==
  ASSUME NEW S, NEW s \in Seq(S), NEW x \in S
  PROVE  /\ Append(s, x) \in Seq(S)
         /\ Range(Append(s, x)) = Range(s) \cup {x}
         /\ IsInjective(s) /\ x \notin Range(s) => IsInjective(Append(s, x))
<1>1. Append(s, x) \in Seq(S) /\ Len(Append(s, x)) = Len(s) + 1
  OBVIOUS
<1>2. /\ \A i \in 1 .. Len(s) : Append(s, x)[i] = s[i]
      /\ Append(s, x)[Len(s) + 1] = x
  OBVIOUS
<1>3. Range(Append(s, x)) = Range(s) \cup {x}
  BY <1>1, <1>2 DEF Range
<1>4. IsInjective(s) /\ x \notin Range(s) => IsInjective(Append(s, x))
  BY <1>1, <1>2 DEF Range, IsInjective
<1> QED BY <1>1, <1>3, <1>4, Zenon

(* Taking the first bank of a queue. *)
LEMMA TailRange ==
  ASSUME NEW S, NEW s \in Seq(S), s # <<>>
  PROVE  /\ Head(s) \in S /\ Head(s) \in Range(s)
         /\ Tail(s) \in Seq(S)
         /\ Len(Tail(s)) = Len(s) - 1
         /\ IsInjective(s) => /\ Range(Tail(s)) = Range(s) \ {Head(s)}
                              /\ IsInjective(Tail(s))
<1>1. /\ Tail(s) \in Seq(S) /\ Len(Tail(s)) = Len(s) - 1
      /\ Len(s) \in Nat \ {0} /\ DOMAIN s = 1 .. Len(s)
      /\ DOMAIN Tail(s) = 1 .. Len(s) - 1
  OBVIOUS
<1>2. Head(s) = s[1] /\ \A i \in 1 .. Len(s) - 1 : Tail(s)[i] = s[i + 1]
  OBVIOUS
<1>3. Head(s) \in S /\ Head(s) \in Range(s)
  BY <1>1, <1>2 DEF Range
<1>4. ASSUME IsInjective(s)
      PROVE  Range(Tail(s)) = Range(s) \ {Head(s)} /\ IsInjective(Tail(s))
  <2>1. \A i \in 2 .. Len(s) : i - 1 \in 1 .. Len(s) - 1 /\ s[i] = Tail(s)[i - 1]
    BY <1>1, <1>2
  <2>2. \A i \in 2 .. Len(s) : s[i] # s[1]
    BY <1>1, <1>4 DEF IsInjective
  <2>3. \A x \in Range(s) \ {Head(s)} : x \in Range(Tail(s))
    <3> TAKE x \in Range(s) \ {Head(s)}
    <3>1. PICK i \in 1 .. Len(s) : x = s[i]
      BY <1>1, Zenon DEF Range
    <3>2. i \in 2 .. Len(s)
      BY <1>1, <1>2, <3>1
    <3> QED BY <1>1, <2>1, <3>1, <3>2, Zenon DEF Range
  <2>5. \A x \in Range(Tail(s)) : x \in Range(s) \ {Head(s)}
    <3> TAKE x \in Range(Tail(s))
    <3>1. PICK i \in 1 .. Len(s) - 1 : x = Tail(s)[i]
      BY <1>1, Zenon DEF Range
    <3> QED BY <1>1, <1>2, <2>2, <3>1 DEF Range
  <2>4. IsInjective(Tail(s))
    BY <1>1, <1>2, <1>4 DEF IsInjective
  <2> QED BY <2>3, <2>4, <2>5, Zenon
<1> QED BY <1>1, <1>3, <1>4, Zenon

(* Taking the i-th bank out of a queue. *)
LEMMA WithoutRange ==
  ASSUME NEW S, NEW s \in Seq(S), NEW i \in 1 .. Len(s)
  PROVE  /\ s[i] \in S /\ s[i] \in Range(s)
         /\ Without(s, i) \in Seq(S)
         /\ IsInjective(s) => /\ Range(Without(s, i)) = Range(s) \ {s[i]}
                              /\ IsInjective(Without(s, i))
<1> DEFINE r == Without(s, i)
           n == Len(s)
<1>0. n \in Nat /\ DOMAIN s = 1 .. n /\ i \in 1 .. n
  OBVIOUS
<1>p. PICK a, b : a = SubSeq(s, 1, i - 1) /\ b = SubSeq(s, i + 1, Len(s))
  BY Zenon
<1>a. a \in Seq(S) /\ Len(a) = i - 1 /\ \A j \in 1 .. i - 1 : a[j] = s[j]
  BY <1>p
<1>b. b \in Seq(S) /\ Len(b) = n - i /\ \A j \in 1 .. n - i : b[j] = s[i + j]
  BY <1>p
<1>c. r = a \o b
  BY <1>p, Zenon DEF Without
<1> HIDE DEF r
<1>1. r \in Seq(S) /\ Len(r) = n - 1
  <2>1. r \in Seq(S) /\ Len(r) = Len(a) + Len(b)
    <3>1. a \in Seq(S) /\ b \in Seq(S)
      BY <1>a, <1>b, Zenon
    <3>2. a \o b \in Seq(S) /\ Len(a \o b) = Len(a) + Len(b)
      BY <3>1
    <3> QED BY <1>c, <3>2, Zenon
  <2>2. (i - 1) + (n - i) = n - 1
    BY <1>0
  <2> QED BY <1>a, <1>b, <2>1, <2>2, Zenon
<1>2. DOMAIN r = 1 .. n - 1
  BY <1>1
<1>3. \A j \in 1 .. n - 1 : r[j] = IF j < i THEN s[j] ELSE s[j + 1]
  <2> TAKE j \in 1 .. n - 1
  <2>1. r[j] = IF j < i THEN a[j] ELSE b[j - (i - 1)]
    BY <1>0, <1>a, <1>b, <1>c
  <2>2. j < i => j \in 1 .. i - 1
    BY <1>0
  <2>3. ~(j < i) => j - (i - 1) \in 1 .. n - i /\ i + (j - (i - 1)) = j + 1
    BY <1>0
  <2> QED BY <1>a, <1>b, <2>1, <2>2, <2>3, Zenon
<1>4. s[i] \in S /\ s[i] \in Range(s)
  BY <1>0 DEF Range
<1>5. ASSUME IsInjective(s)
      PROVE  Range(r) = Range(s) \ {s[i]} /\ IsInjective(r)
  <2>1. \A j \in 1 .. n : j < i => j \in 1 .. n - 1 /\ r[j] = s[j]
    BY <1>0, <1>3
  <2>2. \A j \in 1 .. n : j > i => j - 1 \in 1 .. n - 1 /\ r[j - 1] = s[j]
    BY <1>0, <1>3
  <2>3. \A j \in 1 .. n : j # i => s[j] # s[i]
    BY <1>0, <1>5, Zenon DEF IsInjective
  <2>4. \A x \in Range(s) \ {s[i]} : x \in Range(r)
    <3> TAKE x \in Range(s) \ {s[i]}
    <3>1. PICK j \in 1 .. n : x = s[j]
      BY <1>0, Zenon DEF Range
    <3>2. j < i \/ j > i
      BY <1>0, <3>1
    <3> QED BY <3>1, <3>2, <2>1, <2>2, <1>2, Zenon DEF Range
  <2>5. \A x \in Range(r) : x \in Range(s) \ {s[i]}
    <3> TAKE x \in Range(r)
    <3>1. PICK j \in 1 .. n - 1 : x = r[j]
      BY <1>2, Zenon DEF Range
    <3> QED BY <3>1, <1>0, <1>3, <2>3 DEF Range
  <2>6. IsInjective(r)
    <3> SUFFICES ASSUME NEW j \in 1 .. n - 1, NEW k \in 1 .. n - 1, r[j] = r[k]
                 PROVE  j = k
      BY <1>2, Zenon DEF IsInjective
    <3> DEFINE at(m) == IF m < i THEN m ELSE m + 1
    <3>1. at(j) \in 1 .. n /\ at(k) \in 1 .. n /\ s[at(j)] = s[at(k)]
      BY <1>0, <1>3
    <3>2. at(j) = at(k)
      BY <3>1, <1>0, <1>5, Zenon DEF IsInjective
    <3> QED BY <3>2, <1>0
  <2> QED BY <2>4, <2>5, <2>6, Zenon
<1> QED BY <1>1, <1>4, <1>5, Zenon DEF r

-----------------------------------------------------------------------------
(* Where a message is. *)

(* Banks without a message that still has a way to go. *)
Idle == Range(availBuffers) \cup user \cup stranded
          \cup (IF kind = "callback" THEN {} ELSE Range(callerLogCallbacks))
BankIds(b) == IF b \in Idle THEN {} ELSE Range(data[b])

(* A message is with write(), in a bank, lost, or where it was meant to go. *)
AtWrite == -1
AtDropped == -2
AtFinal == -3
Slots == Banks \cup {AtWrite, AtDropped, AtFinal}
Carried == [k \in Slots |->
              IF k = AtWrite THEN {msg.id} \ {0}
              ELSE IF k = AtDropped THEN dropped
              ELSE IF k = AtFinal THEN Range(Final)
              ELSE BankIds(k)]

(* The sets C[k] are disjoint, and together they are R. *)
Partition(C, R) ==
  /\ \A k \in Slots : C[k] \subseteq R
  /\ \A i \in R : \E k \in Slots : i \in C[k]
  /\ \A k, l \in Slots : k # l => C[k] \cap C[l] = {}

(* The messages offered to write() so far, each of them in one place. *)
Offered == 1 .. nextId - 1
Accounted == Partition(Carried, Offered)

(* A bank has a message once, and one without bytes has none. *)
DataInv ==
  \A b \in Banks : IsInjective(data[b]) /\ (used[b] = 0 => data[b] = <<>>)

(* A callback target has no request of libuv, and a message is with write()  *)
(* only while write() runs.                                                  *)
WriteInv ==
  /\ kind = "callback" => writing = <<>>
  /\ ~InWrite => msg.id = 0

(* The slots are different. *)
LEMMA SlotFacts ==
  /\ Banks \subseteq Slots /\ AtWrite \in Slots /\ AtDropped \in Slots /\ AtFinal \in Slots
  /\ AtWrite \notin Banks /\ AtDropped \notin Banks /\ AtFinal \notin Banks
  /\ AtWrite # AtDropped /\ AtWrite # AtFinal /\ AtDropped # AtFinal
  /\ \A k \in Slots : k \in Banks \/ k = AtWrite \/ k = AtDropped \/ k = AtFinal
BY DEF Slots, Banks, AtWrite, AtDropped, AtFinal

(* The slots one by one, before and after a step. *)
LEMMA CarriedIs ==
  /\ Carried[AtWrite] = {msg.id} \ {0} /\ Carried[AtDropped] = dropped
  /\ Carried[AtFinal] = Range(Final) /\ \A b \in Banks : Carried[b] = BankIds(b)
  /\ Carried'[AtWrite] = {msg'.id} \ {0} /\ Carried'[AtDropped] = dropped'
  /\ Carried'[AtFinal] = Range(Final)' /\ \A b \in Banks : Carried'[b] = BankIds(b)'
BY SlotFacts, Zenon DEF Carried

(* All that slot p has moves to slot q. *)
LEMMA Shift ==
  ASSUME NEW C, NEW D, NEW R, Partition(C, R), NEW p \in Slots, NEW q \in Slots, p # q,
         D[p] = {}, D[q] = C[q] \cup C[p], \A k \in Slots \ {p, q} : D[k] = C[k]
  PROVE  Partition(D, R)
<1>1. /\ \A k \in Slots : C[k] \subseteq R
      /\ \A i \in R : \E k \in Slots : i \in C[k]
      /\ \A k, l \in Slots : k # l => C[k] \cap C[l] = {}
  BY Zenon DEF Partition
<1>2. \A k \in Slots : D[k] \subseteq R
  BY <1>1, Zenon
<1>3. ASSUME NEW i \in R PROVE \E k \in Slots : i \in D[k]
  <2>1. PICK k \in Slots : i \in C[k]
    BY <1>1, Zenon
  <2>2. k \in {p, q} => i \in D[q]
    BY <2>1, Zenon
  <2> QED BY <2>1, <2>2, Zenon
<1>4. ASSUME NEW k \in Slots, NEW l \in Slots, k # l PROVE D[k] \cap D[l] = {}
  <2>1. C[k] \cap C[l] = {} /\ (l # p => C[p] \cap C[l] = {}) /\ (k # p => C[p] \cap C[k] = {})
    BY <1>1, <1>4, Zenon
  <2>2. CASE k = p \/ l = p
    BY <2>2, Zenon
  <2>3. CASE k = q /\ l # p
    BY <1>4, <2>1, <2>3, Zenon
  <2>4. CASE l = q /\ k # p
    BY <1>4, <2>1, <2>4, Zenon
  <2>5. CASE k \notin {p, q} /\ l \notin {p, q}
    BY <2>1, <2>5, Zenon
  <2> QED BY <2>2, <2>3, <2>4, <2>5, Zenon
<1> QED BY <1>2, <1>3, <1>4, Zenon DEF Partition

(* A new message comes to slot q. *)
LEMMA Grow ==
  ASSUME NEW C, NEW D, NEW R, NEW x, x \notin R, Partition(C, R), NEW q \in Slots,
         D[q] = C[q] \cup {x}, \A k \in Slots \ {q} : D[k] = C[k]
  PROVE  Partition(D, R \cup {x})
<1>1. /\ \A k \in Slots : C[k] \subseteq R
      /\ \A i \in R : \E k \in Slots : i \in C[k]
      /\ \A k, l \in Slots : k # l => C[k] \cap C[l] = {}
  BY Zenon DEF Partition
<1>2. \A k \in Slots : D[k] \subseteq R \cup {x}
  BY <1>1, Zenon
<1>3. ASSUME NEW i \in R \cup {x} PROVE \E k \in Slots : i \in D[k]
  BY <1>1, Zenon
<1>4. ASSUME NEW k \in Slots, NEW l \in Slots, k # l PROVE D[k] \cap D[l] = {}
  <2>1. C[k] \cap C[l] = {} /\ x \notin C[k] /\ x \notin C[l]
    BY <1>1, <1>4, Zenon
  <2> QED BY <1>4, <2>1, Zenon
<1> QED BY <1>2, <1>3, <1>4, Zenon DEF Partition

(* No message moves. *)
LEMMA AllStay ==
  ASSUME Accounted, UNCHANGED <<nextId, dropped>>, msg'.id = msg.id,
         Range(Final)' = Range(Final), \A b \in Banks : BankIds(b)' = BankIds(b)
  PROVE  Accounted'
<1>1. \A k \in Slots : Carried'[k] = Carried[k]
  BY CarriedIs, SlotFacts, Zenon
<1>2. Carried' = Carried
  BY <1>1, Zenon DEF Carried
<1> QED BY <1>2, Zenon DEF Accounted, Offered

(* What bank b has is lost, or gets where it was meant to go. *)
LEMMA BankEmptied ==
  ASSUME Accounted, NEW b \in Banks, BankIds(b)' = {}, UNCHANGED nextId, msg'.id = msg.id,
         \A c \in Banks \ {b} : BankIds(c)' = BankIds(c),
         \/ dropped' = dropped \cup BankIds(b) /\ Range(Final)' = Range(Final)
         \/ UNCHANGED dropped /\ Range(Final)' = Range(Final) \cup BankIds(b)
  PROVE  Accounted'
<1>1. PICK C, D, R : /\ C = Carried /\ D = Carried' /\ R = Offered
                     /\ Partition(C, R) /\ Offered' = R
  BY Zenon DEF Accounted, Offered
<1>2. PICK q \in Slots \ Banks : q # AtWrite /\ D[q] = C[q] \cup C[b]
                                 /\ \A k \in Slots \ {b, q} : D[k] = C[k]
  <2>1. CASE dropped' = dropped \cup BankIds(b) /\ Range(Final)' = Range(Final)
    <3>1. D[AtDropped] = C[AtDropped] \cup C[b]
      BY <1>1, <2>1, CarriedIs, Zenon
    <3>2. \A k \in Slots \ {b, AtDropped} : D[k] = C[k]
      BY <1>1, <2>1, CarriedIs, SlotFacts, Zenon
    <3> QED BY <3>1, <3>2, SlotFacts, Zenon
  <2>2. CASE UNCHANGED dropped /\ Range(Final)' = Range(Final) \cup BankIds(b)
    <3>1. D[AtFinal] = C[AtFinal] \cup C[b]
      BY <1>1, <2>2, CarriedIs, Zenon
    <3>2. \A k \in Slots \ {b, AtFinal} : D[k] = C[k]
      BY <1>1, <2>2, CarriedIs, SlotFacts, Zenon
    <3> QED BY <3>1, <3>2, SlotFacts, Zenon
  <2> QED BY <2>1, <2>2, Zenon
<1>3. D[b] = {} /\ b \in Slots /\ b # q
  BY <1>1, <1>2, CarriedIs, SlotFacts, Zenon
<1>4. Partition(D, R)
  BY <1>1, <1>2, <1>3, Shift
<1> QED BY <1>1, <1>4, Zenon DEF Accounted

(* The message that write() has goes to bank b, ... *)
LEMMA MessageCopied ==
  ASSUME Accounted, msg.id # 0, msg'.id = 0, UNCHANGED <<nextId, dropped>>,
         Range(Final)' = Range(Final), NEW b \in Banks, BankIds(b)' = BankIds(b) \cup {msg.id},
         \A c \in Banks \ {b} : BankIds(c)' = BankIds(c)
  PROVE  Accounted'
<1>1. PICK C, D, R : /\ C = Carried /\ D = Carried' /\ R = Offered
                     /\ Partition(C, R) /\ Offered' = R
  BY Zenon DEF Accounted, Offered
<1>2. D[AtWrite] = {} /\ D[b] = C[b] \cup C[AtWrite]
  BY <1>1, CarriedIs
<1>3. \A k \in Slots \ {AtWrite, b} : D[k] = C[k]
  BY <1>1, CarriedIs, SlotFacts
<1>4. Partition(D, R)
  BY <1>1, <1>2, <1>3, SlotFacts, Shift
<1> QED BY <1>1, <1>4, Zenon DEF Accounted

(* ... or is lost, with what was in the bank b that rotate() cleared. *)
LEMMA MessageLost ==
  ASSUME Accounted, msg.id # 0, msg'.id = 0, UNCHANGED nextId, Range(Final)' = Range(Final),
         NEW b \in Banks, NEW lost, dropped' = dropped \cup lost \cup {msg.id},
         \/ lost = {} /\ BankIds(b)' = BankIds(b)
         \/ lost = BankIds(b) /\ BankIds(b)' = {},
         \A c \in Banks \ {b} : BankIds(c)' = BankIds(c)
  PROVE  Accounted'
<1>1. PICK C, D, R : /\ C = Carried /\ D = Carried' /\ R = Offered
                     /\ Partition(C, R) /\ Offered' = R
  BY Zenon DEF Accounted, Offered
<1> DEFINE E == [k \in Slots |-> IF k = b THEN D[b] ELSE IF k = AtDropped THEN C[k] \cup lost ELSE C[k]]
<1>2. Partition(E, R)
  <2>1. E[b] = D[b] /\ E[AtDropped] = C[AtDropped] \cup lost
        /\ \A k \in Slots \ {b, AtDropped} : E[k] = C[k]
    BY SlotFacts, Zenon
  <2>2. b \in Slots /\ AtDropped \in Slots /\ b # AtDropped
    BY SlotFacts, Zenon
  <2> HIDE DEF E
  <2>3. CASE lost = {} /\ BankIds(b)' = BankIds(b)
    <3>1. D[b] = C[b]
      BY <1>1, <2>3, CarriedIs, Zenon
    <3>2. \A k \in Slots : E[k] = C[k]
      BY <2>1, <2>3, <3>1, Zenon
    <3> QED BY <1>1, <3>2, Zenon DEF Partition
  <2>4. CASE lost = BankIds(b) /\ BankIds(b)' = {}
    <3>1. E[b] = {} /\ E[AtDropped] = C[AtDropped] \cup C[b]
      BY <1>1, <2>1, <2>4, CarriedIs, Zenon
    <3> QED BY <1>1, <2>1, <2>2, <3>1, Shift
  <2> QED BY <2>3, <2>4, Zenon
<1>3. D[AtWrite] = {} /\ D[AtDropped] = E[AtDropped] \cup E[AtWrite]
  BY <1>1, CarriedIs, SlotFacts
<1>4. \A k \in Slots \ {AtWrite, AtDropped} : D[k] = E[k]
  BY <1>1, CarriedIs, SlotFacts
<1> HIDE DEF E
<1>5. Partition(D, R)
  BY <1>2, <1>3, <1>4, SlotFacts, Shift
<1> QED BY <1>1, <1>5, Zenon DEF Accounted

-----------------------------------------------------------------------------
(* Constants and operators. *)

(* There is a first bank, and no bank is NoBank. *)
LEMMA BanksFacts == NumBanks \in Nat \ {0} /\ 0 \in Banks /\ NoBank \notin Banks
BY ConstantsAssumption DEF Banks, NoBank

(* An entry takes a number of bytes. *)
LEMMA EntrySizeNat == \A len \in Lens \cup {0} : EntrySize(len) \in Nat
BY ConstantsAssumption DEF EntrySize

(* Moving one bank from a place p to another place q keeps every bank in     *)
(* exactly one place.                                                        *)
LEMMA MoveBank ==
  ASSUME NEW W, NEW V, NEW p \in Places, NEW q \in Places, NEW b,
         p # q, b \in W[p],
         \A r, s \in Places : r # s => W[r] \cap W[s] = {},
         UNION {W[r] : r \in Places} = Banks,
         V[p] = W[p] \ {b}, V[q] = W[q] \cup {b},
         \A r \in Places \ {p, q} : V[r] = W[r]
  PROVE  /\ \A r, s \in Places : r # s => V[r] \cap V[s] = {}
         /\ UNION {V[r] : r \in Places} = Banks
<1>0. \A r \in Places : r # p => b \notin W[r]
  BY Zenon
<1>1. ASSUME NEW r \in Places, NEW s \in Places, r # s
      PROVE  V[r] \cap V[s] = {}
  <2>1. W[r] \cap W[s] = {}
    BY <1>1, Zenon
  <2>2. CASE r = q
    BY <2>1, <2>2, <1>0, <1>1
  <2>3. CASE s = q
    BY <2>1, <2>3, <1>0, <1>1, Zenon
  <2>4. CASE r # q /\ s # q
    <3>1. V[r] \subseteq W[r] /\ V[s] \subseteq W[s]
      BY <2>4, Zenon
    <3> QED BY <3>1, <2>1, Zenon
  <2> QED BY <2>2, <2>3, <2>4, Zenon
<1>2. ASSUME NEW x PROVE (\E r \in Places : x \in V[r]) <=> (\E r \in Places : x \in W[r])
  <2>1. ASSUME NEW r \in Places, x \in V[r] PROVE \E s \in Places : x \in W[s]
    BY <2>1
  <2>2. ASSUME NEW r \in Places, x \in W[r] PROVE \E s \in Places : x \in V[s]
    BY <2>2, Zenon
  <2> QED BY <2>1, <2>2, Zenon
<1> QED BY <1>1, <1>2

-----------------------------------------------------------------------------
(* What the operators that move banks do to the invariant. *)

(* The state that a step of the flow may change, typed. *)
BanksTyped ==
  /\ currentBuffer \in Banks
  /\ availBuffers \in Seq(Banks) /\ writeOutBuffers \in Seq(Banks)
  /\ writing \in Seq(Banks) /\ callerLogCallbacks \in Seq(Banks)
  /\ user \subseteq Banks /\ stranded \subseteq Banks
  /\ used \in [Banks -> Nat] /\ data \in [Banks -> Seq(Ids)]

FreeEmpty == \A b \in Range(availBuffers) : used[b] = 0

(* The places one by one, before and after a step. *)
LEMMA AtIs ==
  /\ At["current"] = {currentBuffer} /\ At["avail"] = Range(availBuffers)
  /\ At["writeOut"] = Range(writeOutBuffers) /\ At["held"] = Held
  /\ At["writing"] = Range(writing) /\ At["callbacks"] = Range(callerLogCallbacks)
  /\ At["user"] = user /\ At["stranded"] = stranded
  /\ At'["current"] = {currentBuffer'} /\ At'["avail"] = Range(availBuffers')
  /\ At'["writeOut"] = Range(writeOutBuffers') /\ At'["held"] = Held'
  /\ At'["writing"] = Range(writing') /\ At'["callbacks"] = Range(callerLogCallbacks')
  /\ At'["user"] = user' /\ At'["stranded"] = stranded'
BY Zenon DEF At, Places

(* rotate() keeps the banks apart, and the free ones empty. *)
LEMMA RotateKeeps ==
  ASSUME IndInv, Rotate, hold' = hold
  PROVE  BanksTyped' /\ BankConservation' /\ FreeEmpty' /\ Overwritten \subseteq Ids
<1> DEFINE c == currentBuffer
           h == Head(availBuffers)
<1>0. BanksTyped /\ BankConservation /\ FreeEmpty
  BY Zenon DEF IndInv, TypeOK, BanksTyped, FreeEmpty
<1>1. Overwritten \subseteq Ids
  BY <1>0 DEF Overwritten, BanksTyped, Range
<1>2. CASE Rotated
  <2>1. availBuffers # <<>>
    BY <1>2, Zenon DEF Rotated
  <2>2. /\ currentBuffer' = h
        /\ availBuffers' = Tail(availBuffers)
        /\ writeOutBuffers' = Append(writeOutBuffers, c)
        /\ used' = used /\ data' = data
        /\ UNCHANGED <<writing, callerLogCallbacks, user, stranded>>
    BY <1>0, <1>2, Zenon DEF Rotate, BanksTyped
  <2>3. /\ h \in Banks /\ h \in Range(availBuffers)
        /\ availBuffers' \in Seq(Banks)
        /\ Range(availBuffers') = Range(availBuffers) \ {h}
        /\ IsInjective(availBuffers')
    BY <1>0, <2>1, <2>2, TailRange, Zenon DEF BanksTyped, BankConservation
  <2>4. c \notin Range(writeOutBuffers) /\ c # h
    <3>1. At["current"] \cap At["writeOut"] = {} /\ At["current"] \cap At["avail"] = {}
      BY <1>0, Zenon DEF BankConservation, Places
    <3> QED BY <3>1, <2>3, Zenon DEF At, Places
  <2>5. /\ writeOutBuffers' \in Seq(Banks)
        /\ Range(writeOutBuffers') = Range(writeOutBuffers) \cup {c}
        /\ IsInjective(writeOutBuffers')
    BY <1>0, <2>2, <2>4, AppendRange DEF BanksTyped, BankConservation
  <2>6. BanksTyped'
    BY <1>0, <2>2, <2>3, <2>5, Zenon DEF BanksTyped
  <2> DEFINE W == [p \in Places |-> IF p = "avail" THEN At[p] \ {h}
                                    ELSE IF p = "current" THEN At[p] \cup {h} ELSE At[p]]
  <2>7. /\ \A r, s \in Places : r # s => W[r] \cap W[s] = {}
        /\ UNION {W[r] : r \in Places} = Banks
    <3>1. "avail" \in Places /\ "current" \in Places
      BY Zenon DEF Places
    <3>2. h \in At["avail"]
      BY <2>3, <3>1, Zenon DEF At
    <3> HIDE DEF h
    <3> QED BY <1>0, <3>1, <3>2, MoveBank DEF BankConservation
  <2>8. /\ At'["current"] = W["current"] \ {c}
        /\ At'["writeOut"] = W["writeOut"] \cup {c}
        /\ \A r \in Places \ {"current", "writeOut"} : At'[r] = W[r]
        /\ c \in W["current"]
    <3> HIDE DEF h
    <3>1. /\ W["current"] = {c, h} /\ W["writeOut"] = At["writeOut"]
          /\ W["avail"] = At["avail"] \ {h}
          /\ \A r \in Places \ {"current", "avail"} : W[r] = At[r]
      BY AtIs, Zenon DEF Places
    <3> HIDE DEF W
    <3>2. At'["current"] = W["current"] \ {c} /\ c \in W["current"]
      BY <2>2, <2>4, <3>1, AtIs, Zenon
    <3>3. At'["writeOut"] = W["writeOut"] \cup {c}
      BY <2>5, <3>1, AtIs, Zenon
    <3>4. At'["avail"] = W["avail"]
      BY <2>3, <3>1, AtIs, Zenon
    <3>5. /\ At'["held"] = At["held"] /\ At'["writing"] = At["writing"]
          /\ At'["callbacks"] = At["callbacks"] /\ At'["user"] = At["user"]
          /\ At'["stranded"] = At["stranded"]
      BY <2>2, AtIs DEF Held
    <3> QED BY <3>1, <3>2, <3>3, <3>4, <3>5, Zenon DEF Places
  <2>9. /\ \A r, s \in Places : r # s => At'[r] \cap At'[s] = {}
        /\ UNION {At'[r] : r \in Places} = Banks
    <3> HIDE DEF W
    <3>1. "writeOut" \in Places /\ "current" \in Places
      BY Zenon DEF Places
    <3> QED BY <2>7, <2>8, <3>1, MoveBank, Zenon
  <2>10. BankConservation'
    BY <1>0, <2>2, <2>3, <2>5, <2>9, Zenon DEF BankConservation
  <2> QED BY <1>0, <1>1, <2>2, <2>3, <2>6, <2>10, Zenon DEF FreeEmpty
<1>3. CASE ~Rotated
  <2>1. /\ currentBuffer' = c
        /\ writeOutBuffers' = writeOutBuffers
        /\ UNCHANGED <<writing, callerLogCallbacks, user, stranded>>
    BY <1>3, Zenon DEF Rotate
  <2>a. used' \in [Banks -> Nat] /\ \A b \in Banks : used[b] = 0 => used'[b] = 0
    BY <1>0, Zenon DEF Rotate, BanksTyped
  <2>b. data' \in [Banks -> Seq(Ids)]
    BY <1>0 DEF Rotate, BanksTyped
  <2>2. /\ availBuffers' \in Seq(Banks)
        /\ Range(availBuffers') = Range(availBuffers)
        /\ IsInjective(availBuffers')
    <3>1. CASE availBuffers' = availBuffers
      BY <1>0, <3>1, Zenon DEF BanksTyped, BankConservation
    <3>2. CASE availBuffers # <<>> /\ availBuffers' = Append(Tail(availBuffers), h)
      <4>1. /\ h \in Banks /\ h \in Range(availBuffers)
            /\ Tail(availBuffers) \in Seq(Banks)
            /\ Range(Tail(availBuffers)) = Range(availBuffers) \ {h}
            /\ IsInjective(Tail(availBuffers))
        BY <1>0, <3>2, TailRange, Zenon DEF BanksTyped, BankConservation
      <4>2. /\ availBuffers' \in Seq(Banks)
            /\ Range(availBuffers') = Range(Tail(availBuffers)) \cup {h}
            /\ IsInjective(availBuffers')
        <5> DEFINE T == Tail(availBuffers)
        <5>1. T \in Seq(Banks) /\ IsInjective(T) /\ h \notin Range(T) /\ h \in Banks
          BY <4>1, Zenon
        <5>2. availBuffers' = Append(T, h)
          BY <3>2, Zenon
        <5> HIDE DEF T, h
        <5>3. /\ Append(T, h) \in Seq(Banks)
              /\ Range(Append(T, h)) = Range(T) \cup {h}
              /\ IsInjective(Append(T, h))
          BY <5>1, AppendRange
        <5> QED BY <5>2, <5>3, Zenon DEF T, h
      <4> QED BY <4>1, <4>2, Zenon
    <3>3. \/ availBuffers' = availBuffers
          \/ availBuffers # <<>> /\ availBuffers' = Append(Tail(availBuffers), h)
      BY <1>3, Zenon DEF Rotate
    <3> QED BY <3>1, <3>2, <3>3, Zenon
  <2>3. At' = At
    BY <2>1, <2>2 DEF At, Held
  <2>4. BankConservation'
    BY <1>0, <2>1, <2>2, <2>3, Zenon DEF BankConservation
  <2>5. FreeEmpty'
    <3>1. Range(availBuffers') \subseteq Banks
      BY <2>2 DEF Range
    <3> QED BY <1>0, <2>a, <2>2, <3>1, Zenon DEF FreeEmpty
  <2> QED BY <1>0, <1>1, <2>1, <2>a, <2>b, <2>2, <2>4, <2>5, Zenon DEF BanksTyped
<1> QED BY <1>2, <1>3, Zenon

(* Clearing a bank and adding it to availBuffers. *)
LEMMA RecycleKeeps ==
  ASSUME BanksTyped, FreeEmpty, IsInjective(availBuffers),
         NEW b \in Banks, b \notin Range(availBuffers), Recycle(b)
  PROVE  /\ availBuffers' \in Seq(Banks) /\ IsInjective(availBuffers')
         /\ Range(availBuffers') = Range(availBuffers) \cup {b}
         /\ used' \in [Banks -> Nat] /\ data' \in [Banks -> Seq(Ids)]
         /\ FreeEmpty'
<1>1. /\ availBuffers' \in Seq(Banks) /\ IsInjective(availBuffers')
      /\ Range(availBuffers') = Range(availBuffers) \cup {b}
  BY AppendRange DEF Recycle, BanksTyped
<1>2. used' \in [Banks -> Nat] /\ data' \in [Banks -> Seq(Ids)]
  BY DEF Recycle, BanksTyped
<1>3. used'[b] = 0 /\ \A c \in Banks \ {b} : used'[c] = used[c]
  BY Zenon DEF Recycle, BanksTyped
<1>4. Range(availBuffers) \subseteq Banks
  BY DEF BanksTyped, Range
<1> QED BY <1>1, <1>2, <1>3, <1>4, Zenon DEF FreeEmpty

-----------------------------------------------------------------------------
(* The invariant in parts. *)

(* Everything else of the state, typed. *)
OtherTyped ==
  /\ needGreaseThread \in Nat /\ flushTimer \in BOOLEAN /\ aborted \in BOOLEAN
  /\ kind \in Kinds /\ disabled \in BOOLEAN /\ logCallbackSet \in BOOLEAN /\ closed \in BOOLEAN
  /\ pc \in [Threads -> LoggerPcs \cup UserPcs]
  /\ hold \in [Threads -> Banks \cup {NoBank}]
  /\ msg \in [id : Ids \cup {0}, len : Lens \cup {0}]
  /\ rotateCmds \in Nat
  /\ nextId \in 1 .. MaxMsgs + 1
  /\ out \in Seq(Ids) /\ delivered \in Seq(Ids) /\ dropped \subseteq Ids

(* What a thread carries, by where it is. *)
Control ==
  /\ pc[Logger] \in LoggerPcs /\ \A t \in Flushers : pc[t] \in UserPcs
  /\ \A t \in Threads : hold[t] # NoBank <=> CarriesBank(t)
  /\ InWrite => msg.id \in Ids /\ msg.len \in Lens

(* The conjuncts of IndInv, one by one. *)
LEMMA IndInvParts ==
  /\ IndInv <=> BanksTyped /\ OtherTyped /\ BankConservation /\ Control /\ FreeEmpty
  /\ IndInv' <=> BanksTyped' /\ OtherTyped' /\ BankConservation' /\ Control' /\ FreeEmpty'
BY Zenon DEF IndInv, TypeOK, BanksTyped, OtherTyped, Control, FreeEmpty

-----------------------------------------------------------------------------
(* A bank is in no second place. *)
LEMMA Elsewhere ==
  ASSUME BankConservation, NEW p \in Places, NEW b \in At[p]
  PROVE  \A q \in Places : q # p => b \notin At[q]
BY Zenon DEF BankConservation

-----------------------------------------------------------------------------
(* The invariant of the banks, action by action, and what follows. *)

(* The invariant holds initially: one bank is current, the others are free. *)
LEMMA InitInv == Init => IndInv
<1> SUFFICES ASSUME Init PROVE IndInv
  BY Zenon
<1>0. NumBanks \in Nat \ {0} /\ 0 \in Banks /\ NoBank \notin Banks
  BY BanksFacts, Zenon
<1>1. availBuffers \in Seq(Banks) /\ DOMAIN availBuffers = 1 .. NumBanks - 1
  <2>1. \A i \in 1 .. NumBanks - 1 : i \in Banks
    BY <1>0 DEF Banks
  <2>2. NumBanks - 1 \in Nat
    BY <1>0
  <2>3. availBuffers \in [1 .. NumBanks - 1 -> Banks]
    BY <2>1, Zenon DEF Init
  <2>4. availBuffers \in Seq(Banks)
    BY <2>2, <2>3, QueueOf, Zenon
  <2> QED BY <2>3, <2>4, Zenon
<1>2. Range(availBuffers) = Banks \ {0} /\ IsInjective(availBuffers)
  <2>1. \A i \in 1 .. NumBanks - 1 : availBuffers[i] = i
    BY <1>0, Zenon DEF Init
  <2>2. Banks \ {0} = 1 .. NumBanks - 1
    BY <1>0 DEF Banks
  <2>3. Range(availBuffers) = {i : i \in 1 .. NumBanks - 1}
    BY <1>1, <2>1, Zenon DEF Range
  <2> QED BY <1>1, <2>1, <2>2, <2>3 DEF IsInjective
<1>3. BanksTyped
  BY <1>0, <1>1 DEF Init, BanksTyped
<1>4. FreeEmpty
  BY <1>0, <1>2, Zenon DEF Init, FreeEmpty
<1>5. OtherTyped
  <2>1. pc \in [Threads -> LoggerPcs \cup UserPcs] /\ hold \in [Threads -> Banks \cup {NoBank}]
    BY Zenon DEF Init, LoggerPcs, UserPcs
  <2>2. /\ msg \in [id : Ids \cup {0}, len : Lens \cup {0}]
        /\ nextId \in 1 .. MaxMsgs + 1
    BY ConstantsAssumption DEF Init, NoMsg
  <2>3. out \in Seq(Ids) /\ delivered \in Seq(Ids) /\ dropped \subseteq Ids
    <3>1. out = <<>> /\ delivered = <<>> /\ dropped = {}
      BY Zenon DEF Init
    <3> QED BY <3>1
  <2>4. /\ needGreaseThread \in Nat /\ rotateCmds \in Nat
        /\ flushTimer \in BOOLEAN /\ aborted \in BOOLEAN
        /\ kind \in Kinds /\ disabled \in BOOLEAN /\ logCallbackSet \in BOOLEAN /\ closed \in BOOLEAN
    BY Zenon DEF Init
  <2> QED BY <2>1, <2>2, <2>3, <2>4, Zenon DEF OtherTyped
<1>6. Control
  <2>1. Logger \in Threads /\ Logger \notin Flushers /\ Flushers \subseteq Threads
    BY ConstantsAssumption, Zenon DEF Threads
  <2>2. pc[Logger] = "loop" /\ \A t \in Flushers : pc[t] = "idle"
    BY <2>1, Zenon DEF Init
  <2>3. \A t \in Threads : hold[t] = NoBank /\ pc[t] \in {"loop", "idle"}
    BY Zenon DEF Init
  <2> QED BY <2>2, <2>3, Zenon DEF Control, CarriesBank, InWrite, LoggerPcs, UserPcs
<1>7. BankConservation
  <2>1. Held = {}
    BY Zenon DEF Held, Init
  <2>2. /\ At["current"] = {0} /\ At["avail"] = Banks \ {0} /\ At["writeOut"] = {}
        /\ At["held"] = {} /\ At["writing"] = {} /\ At["callbacks"] = {}
        /\ At["user"] = {} /\ At["stranded"] = {}
    <3>1. /\ currentBuffer = 0 /\ user = {} /\ stranded = {}
          /\ writeOutBuffers = <<>> /\ writing = <<>> /\ callerLogCallbacks = <<>>
      BY Zenon DEF Init
    <3>2. Range(<<>>) = {}
      BY DEF Range
    <3> QED BY <1>2, <2>1, <3>1, <3>2, AtIs, Zenon
  <2>3. \A p, q \in Places : p # q => At[p] \cap At[q] = {}
    BY <2>2 DEF Places
  <2>4. UNION {At[p] : p \in Places} = Banks
    <3>1. \A p \in Places : At[p] \subseteq Banks
      BY <1>0, <2>2, Zenon DEF Places
    <3>2. "current" \in Places /\ "avail" \in Places
      BY Zenon DEF Places
    <3>3. \A b \in Banks : b \in At["current"] \/ b \in At["avail"]
      BY <2>2, Zenon
    <3> QED BY <3>1, <3>2, <3>3, Zenon
  <2>5. /\ IsInjective(writeOutBuffers) /\ IsInjective(writing)
        /\ IsInjective(callerLogCallbacks)
    BY DEF Init, IsInjective
  <2>6. \A t, u \in Threads : hold[t] # NoBank /\ hold[t] = hold[u] => t = u
    BY Zenon DEF Init
  <2> QED BY <1>2, <2>3, <2>4, <2>5, <2>6, Zenon DEF BankConservation
<1> QED BY <1>3, <1>4, <1>5, <1>6, <1>7, IndInvParts, Zenon

(* Every step keeps the invariant: one case per action. *)
LEMMA NextInv == IndInv /\ [Next]_vars => IndInv'
(* returnBuffer() hands the bank to exactly one of availBuffers, the         *)
(* callback queue and the user.                                              *)
<1>ReturnBufferMoves.
  ASSUME BanksTyped, BankConservation, FreeEmpty,
         NEW b \in Banks, NEW sync, NEW nocallback,
         b \notin Range(availBuffers), b \notin Range(callerLogCallbacks),
         ReturnBuffer(b, sync, nocallback)
  PROVE  /\ availBuffers' \in Seq(Banks) /\ IsInjective(availBuffers')
         /\ callerLogCallbacks' \in Seq(Banks) /\ IsInjective(callerLogCallbacks')
         /\ used' \in [Banks -> Nat] /\ data' \in [Banks -> Seq(Ids)]
         /\ FreeEmpty'
         /\ \E q \in {"avail", "callbacks", "user"} :
              /\ Range(availBuffers') =
                   IF q = "avail" THEN Range(availBuffers) \cup {b} ELSE Range(availBuffers)
              /\ Range(callerLogCallbacks') =
                   IF q = "callbacks" THEN Range(callerLogCallbacks) \cup {b}
                   ELSE Range(callerLogCallbacks)
              /\ user' = IF q = "user" THEN user \cup {b} ELSE user
  <2> USE <1>ReturnBufferMoves
  <2>0. IsInjective(availBuffers) /\ IsInjective(callerLogCallbacks)
    BY Zenon DEF BankConservation
  <2>1. CASE Recycle(b) /\ UNCHANGED <<callerLogCallbacks, user>>
    BY <2>0, <2>1, RecycleKeeps, Zenon DEF BanksTyped
  <2>2. CASE user' = user \cup {b} /\ UNCHANGED <<used, data, availBuffers, callerLogCallbacks>>
    BY <2>0, <2>2, Zenon DEF BanksTyped, FreeEmpty
  <2>3. CASE /\ callerLogCallbacks' = Append(callerLogCallbacks, b)
             /\ UNCHANGED <<used, data, availBuffers, user>>
    <3>1. /\ callerLogCallbacks' \in Seq(Banks) /\ IsInjective(callerLogCallbacks')
          /\ Range(callerLogCallbacks') = Range(callerLogCallbacks) \cup {b}
      BY <2>0, <2>3, AppendRange DEF BanksTyped
    <3> QED BY <2>0, <2>3, <3>1, Zenon DEF BanksTyped, FreeEmpty
  <2>4. \/ Recycle(b) /\ UNCHANGED <<callerLogCallbacks, user>>
        \/ user' = user \cup {b} /\ UNCHANGED <<used, data, availBuffers, callerLogCallbacks>>
        \/ /\ callerLogCallbacks' = Append(callerLogCallbacks, b)
           /\ UNCHANGED <<used, data, availBuffers, user>>
    BY Zenon DEF ReturnBuffer, QueueCallback, SkipCallback
  <2> QED BY <2>1, <2>2, <2>3, <2>4, Zenon
(* refGreaseInGrease() and unrefGreaseInGrease() keep their variables' types. *)
<1>RefsTyped.
  ASSUME OtherTyped, Ref \/ Unref \/ UNCHANGED refs
  PROVE  needGreaseThread' \in Nat /\ flushTimer' \in BOOLEAN /\ aborted' \in BOOLEAN
  <2> USE <1>RefsTyped
  <2>0. needGreaseThread \in Nat /\ flushTimer \in BOOLEAN /\ aborted \in BOOLEAN
    BY Zenon DEF OtherTyped
  <2>1. needGreaseThread' \in Nat
    <3>1. CASE Ref
      BY <2>0, <3>1 DEF Ref
    <3>2. CASE Unref
      BY <2>0, <3>2 DEF Unref
    <3> QED BY <2>0, <3>1, <3>2, Zenon DEF refs
  <2>2. \/ \E x \in BOOLEAN : flushTimer' = (flushTimer \/ x)
        \/ \E x \in BOOLEAN : flushTimer' = (flushTimer /\ x)
        \/ flushTimer' = flushTimer
    BY Zenon DEF Ref, Unref, refs
  <2>3. aborted' = aborted \/ aborted' = TRUE
    BY Zenon DEF Ref, Unref, refs
  <2> QED BY <2>0, <2>1, <2>2, <2>3, Zenon
(* Control when the thread t goes on and carries no bank before and after. *)
<1>ControlStep.
  ASSUME OtherTyped, Control, NEW t \in Threads, NEW v,
         pc' = [pc EXCEPT ![t] = v], hold' = hold, ~CarriesBank(t),
         v \notin {"flush", "flushSync", "stuck"},
         IF t = Logger THEN v \in LoggerPcs ELSE v \in UserPcs,
         msg' = msg \/ t = Logger,
         t = Logger /\ v \in {"isEmpty", "copyIn", "rotate", "post"} =>
           msg'.id \in Ids /\ msg'.len \in Lens
  PROVE  Control' /\ pc' \in [Threads -> LoggerPcs \cup UserPcs]
  <2> USE <1>ControlStep
  <2>1. Logger \in Threads /\ Logger \notin Flushers /\ Flushers \subseteq Threads
    BY ConstantsAssumption, Zenon DEF Threads
  <2>2. pc'[t] = v /\ \A u \in Threads \ {t} : pc'[u] = pc[u]
    BY Zenon DEF OtherTyped
  <2>3. pc' \in [Threads -> LoggerPcs \cup UserPcs]
    BY Zenon DEF OtherTyped
  <2>4. \A u \in Threads : CarriesBank(u)' <=> CarriesBank(u)
    BY <2>2, Zenon DEF CarriesBank
  <2>5. pc'[Logger] \in LoggerPcs /\ \A u \in Flushers : pc'[u] \in UserPcs
    BY <2>1, <2>2, Zenon DEF Control
  <2>6. InWrite' => msg'.id \in Ids /\ msg'.len \in Lens
    <3>1. CASE t = Logger
      BY <2>2, <3>1, Zenon DEF InWrite
    <3>2. CASE t # Logger
      BY <2>1, <2>2, <3>2, Zenon DEF InWrite, Control
    <3> QED BY <3>1, <3>2, Zenon
  <2> QED BY <2>3, <2>4, <2>5, <2>6, Zenon DEF Control
(* A step that moves no bank keeps every bank where it is. *)
<1>NoMove.
  ASSUME BankConservation, UNCHANGED places
  PROVE  BankConservation'
  <2> USE <1>NoMove
  <2>1. At' = At
    BY DEF places, At, Held
  <2> QED BY <2>1, Zenon DEF BankConservation, places
(* write() begins: only its message and its program counter change. *)
<1>NewLogStep. ASSUME IndInv, NEW len \in Lens, NewLog(len) PROVE IndInv'
  <2> USE <1>NewLogStep
  <2>0. BanksTyped /\ OtherTyped /\ BankConservation /\ Control /\ FreeEmpty
    BY IndInvParts, Zenon
  <2>1. UNCHANGED <<places, bytes, refs, flags, out, delivered, rotateCmds>>
    BY Zenon DEF NewLog
  <2>2. BanksTyped' /\ FreeEmpty' /\ BankConservation'
    BY <2>0, <2>1, <1>NoMove, Zenon DEF places, bytes, BanksTyped, FreeEmpty
  <2>3. nextId \in Ids /\ nextId' \in 1 .. MaxMsgs + 1
    BY <2>0, ConstantsAssumption DEF NewLog, Ids, OtherTyped
  <2>4. CASE disabled
    <3>1. UNCHANGED <<pc, msg>> /\ dropped' = dropped \cup {nextId}
      BY <2>4, Zenon DEF NewLog
    <3>2. Control'
      BY <2>0, <2>1, <3>1, Zenon DEF Control, CarriesBank, InWrite, places
    <3>3. OtherTyped'
      BY <2>0, <2>1, <2>3, <3>1, Zenon DEF OtherTyped, places, refs, flags
    <3> QED BY <2>2, <3>2, <3>3, IndInvParts, Zenon
  <2>5. CASE ~disabled
    <3> DEFINE v == IF Fits(currentBuffer, len) THEN "isEmpty" ELSE "rotate"
    <3>1. /\ pc[Logger] = "loop" /\ pc' = [pc EXCEPT ![Logger] = v]
          /\ msg' = [id |-> nextId, len |-> len] /\ UNCHANGED dropped
      BY <2>5, Zenon DEF NewLog
    <3>2. v \in {"isEmpty", "rotate"}
      BY Zenon
    <3> HIDE DEF v
    <3>3. Logger \in Threads /\ ~CarriesBank(Logger) /\ v \in LoggerPcs
      BY <3>1, <3>2, Zenon DEF Threads, CarriesBank, LoggerPcs
    <3>4. msg'.id \in Ids /\ msg'.len \in Lens /\ msg' \in [id : Ids \cup {0}, len : Lens \cup {0}]
      BY <2>3, <3>1, Zenon
    <3>5. hold' = hold
      BY <2>1, Zenon DEF places
    <3>6. Control' /\ pc' \in [Threads -> LoggerPcs \cup UserPcs]
      BY <2>0, <3>1, <3>2, <3>3, <3>4, <3>5, <1>ControlStep, Zenon
    <3>7. OtherTyped'
      BY <2>0, <2>1, <2>3, <3>1, <3>4, <3>6, Zenon DEF OtherTyped, places, refs, flags
    <3> QED BY <2>2, <3>6, <3>7, IndInvParts, Zenon
  <2> QED BY <2>4, <2>5, Zenon
(* The steps of write() that leave the banks alone. *)
<1>QuietLoggerStep.
  ASSUME IndInv, UNCHANGED <<places, bytes, kind, disabled, logCallbackSet, closed, nextId, out,
                             delivered>>,
         rotateCmds' \in Nat, dropped' \subseteq Ids,
         Ref \/ Unref \/ UNCHANGED refs,
         NEW v \in {"loop", "copyIn", "drain"},
         pc' = [pc EXCEPT ![Logger] = v], ~CarriesBank(Logger),
         msg' = msg \/ msg' = NoMsg,
         v = "copyIn" => msg' = msg /\ InWrite
  PROVE  IndInv'
  <2> USE <1>QuietLoggerStep
  <2>0. BanksTyped /\ OtherTyped /\ BankConservation /\ Control /\ FreeEmpty
    BY IndInvParts, Zenon
  <2>1. BanksTyped' /\ FreeEmpty' /\ BankConservation'
    BY <2>0, <1>NoMove, Zenon DEF places, bytes, BanksTyped, FreeEmpty
  <2>2. Logger \in Threads /\ v \in LoggerPcs /\ hold' = hold
    BY Zenon DEF Threads, LoggerPcs, places
  <2>3. v = "copyIn" => msg'.id \in Ids /\ msg'.len \in Lens
    BY <2>0, Zenon DEF Control
  <2>4. Control' /\ pc' \in [Threads -> LoggerPcs \cup UserPcs]
    BY <2>0, <2>2, <2>3, <1>ControlStep, Zenon
  <2>5. msg' \in [id : Ids \cup {0}, len : Lens \cup {0}]
    BY <2>0 DEF OtherTyped, NoMsg
  <2>6. needGreaseThread' \in Nat /\ flushTimer' \in BOOLEAN /\ aborted' \in BOOLEAN
    BY <2>0, <1>RefsTyped, Zenon
  <2>7. OtherTyped'
    BY <2>0, <2>2, <2>4, <2>5, <2>6, Zenon DEF OtherTyped
  <2> QED BY <2>1, <2>4, <2>7, IndInvParts, Zenon
(* The test of isEmpty() changes references alone. *)
<1>CheckEmptyStep. ASSUME IndInv, CheckEmpty PROVE IndInv'
  <2> USE <1>CheckEmptyStep
  <2>1. rotateCmds' \in Nat /\ dropped' \subseteq Ids
    BY Zenon DEF CheckEmpty, history, IndInv, TypeOK
  <2>2. ~CarriesBank(Logger) /\ InWrite
    BY Zenon DEF CheckEmpty, CarriesBank, InWrite
  <2>3. Ref \/ Unref \/ UNCHANGED refs
    BY Zenon DEF CheckEmpty
  <2>4. /\ UNCHANGED <<places, bytes, kind, disabled, logCallbackSet, closed, nextId, out, delivered>>
        /\ pc' = [pc EXCEPT ![Logger] = "copyIn"] /\ msg' = msg
    BY Zenon DEF CheckEmpty, flags, history
  <2> QED BY <2>1, <2>2, <2>3, <2>4, <1>QuietLoggerStep, Zenon
(* A message dropped at a full command queue moves no bank. *)
<1>WritePostFullStep. ASSUME IndInv, WritePostFull PROVE IndInv'
  <2> USE <1>WritePostFullStep
  <2>1. ~CarriesBank(Logger) /\ InWrite
    BY Zenon DEF WritePostFull, CarriesBank, InWrite
  <2>2. rotateCmds' \in Nat /\ dropped' \subseteq Ids
    BY <2>1, Zenon DEF WritePostFull, IndInv, TypeOK
  <2>3. /\ UNCHANGED <<places, bytes, kind, disabled, logCallbackSet, closed, nextId, out, delivered>>
        /\ UNCHANGED refs
        /\ pc' = [pc EXCEPT ![Logger] = "loop"] /\ msg' = NoMsg
    BY Zenon DEF WritePostFull, flags
  <2> QED BY <2>1, <2>2, <2>3, <1>QuietLoggerStep, Zenon
(* TARGET_ROTATE_BUFFER brings the logger to its flush loop. *)
<1>RotateCmdStep. ASSUME IndInv, RotateCmd PROVE IndInv'
  <2> USE <1>RotateCmdStep
  <2>1. ~CarriesBank(Logger)
    BY Zenon DEF RotateCmd, CarriesBank
  <2>2. rotateCmds' \in Nat /\ dropped' \subseteq Ids
    BY DEF RotateCmd, IndInv, TypeOK, history
  <2>3. /\ UNCHANGED <<places, bytes, kind, disabled, logCallbackSet, closed, nextId, out, delivered>>
        /\ UNCHANGED refs
        /\ pc' = [pc EXCEPT ![Logger] = "drain"] /\ msg' = msg
    BY Zenon DEF RotateCmd, flags, history
  <2> QED BY <2>1, <2>2, <2>3, <1>QuietLoggerStep, Zenon
(* Calls that only set a flag of the target. *)
<1>FlagStep.
  ASSUME IndInv, SetCallback \/ \E v \in BOOLEAN : DisableWrites(v)
  PROVE  IndInv'
  <2> USE <1>FlagStep
  <2>0. BanksTyped /\ OtherTyped /\ BankConservation /\ Control /\ FreeEmpty
    BY IndInvParts, Zenon
  <2>1. UNCHANGED <<places, bytes, refs, closed, history, pc, msg, rotateCmds>>
    BY Zenon DEF SetCallback, DisableWrites
  <2>2. BanksTyped' /\ FreeEmpty' /\ BankConservation'
    BY <2>0, <2>1, <1>NoMove, Zenon DEF places, bytes, BanksTyped, FreeEmpty
  <2>3. Control'
    BY <2>0, <2>1, Zenon DEF Control, CarriesBank, InWrite, places
  <2>4. kind' = kind /\ disabled' \in BOOLEAN /\ logCallbackSet' \in BOOLEAN
    BY <2>0, Zenon DEF SetCallback, DisableWrites, OtherTyped
  <2>5. OtherTyped'
    BY <2>0, <2>1, <2>4, Zenon DEF OtherTyped, places, refs, history
  <2> QED BY <2>2, <2>3, <2>5, IndInvParts, Zenon
(* copyIn() fills the current bank, which is not free. *)
<1>CopyInStep.
  ASSUME IndInv, CopyIn(currentBuffer), InWrite,
         UNCHANGED <<places, flags, nextId, out, delivered>>,
         Ref \/ UNCHANGED refs, rotateCmds' \in Nat,
         pc' = [pc EXCEPT ![Logger] = "loop"], msg' = NoMsg
  PROVE  IndInv'
  <2> USE <1>CopyInStep
  <2>0. BanksTyped /\ OtherTyped /\ BankConservation /\ Control /\ FreeEmpty
    BY IndInvParts, Zenon
  <2>1. BankConservation' /\ hold' = hold
    BY <2>0, <1>NoMove, Zenon DEF places
  <2>2. msg.id \in Ids /\ EntrySize(msg.len) \in Nat
    BY <2>0, EntrySizeNat, Zenon DEF Control
  <2>3. used' \in [Banks -> Nat] /\ \A b \in Banks \ {currentBuffer} : used'[b] = used[b]
    BY <2>0, <2>2 DEF CopyIn, BanksTyped
  <2>4. data' \in [Banks -> Seq(Ids)] /\ dropped' \subseteq Ids
    <3>0. data \in [Banks -> Seq(Ids)] /\ dropped \subseteq Ids /\ currentBuffer \in Banks
      BY <2>0, Zenon DEF BanksTyped, OtherTyped
    <3>1. CASE EntrySize(msg.len) > 0
      <4>1. /\ data' = [data EXCEPT ![currentBuffer] = Append(@, msg.id)]
            /\ dropped' = dropped
        BY <3>1, Zenon DEF CopyIn
      <4>2. Append(data[currentBuffer], msg.id) \in Seq(Ids)
        BY <2>2, <3>0
      <4> QED BY <3>0, <4>1, <4>2, Zenon
    <3>2. CASE ~(EntrySize(msg.len) > 0)
      BY <2>2, <3>0, <3>2, Zenon DEF CopyIn
    <3> QED BY <3>1, <3>2, Zenon
  <2>5. BanksTyped'
    BY <2>0, <2>3, <2>4, Zenon DEF BanksTyped, places
  <2>6. FreeEmpty'
    <3>1. currentBuffer \notin Range(availBuffers)
      <4>1. At["current"] \cap At["avail"] = {}
        BY <2>0, Zenon DEF BankConservation, Places
      <4> QED BY <4>1, AtIs, Zenon
    <3>2. Range(availBuffers) \subseteq Banks
      BY <2>0 DEF BanksTyped, Range
    <3> QED BY <2>0, <2>3, <3>1, <3>2, Zenon DEF FreeEmpty, places
  <2>7. Logger \in Threads /\ "loop" \in LoggerPcs /\ ~CarriesBank(Logger)
    BY Zenon DEF Threads, LoggerPcs, CarriesBank, InWrite
  <2>8. Control' /\ pc' \in [Threads -> LoggerPcs \cup UserPcs]
    BY <2>0, <2>1, <2>7, <1>ControlStep, Zenon
  <2>9. needGreaseThread' \in Nat /\ flushTimer' \in BOOLEAN /\ aborted' \in BOOLEAN
    BY <2>0, <1>RefsTyped, Zenon
  <2>10. msg' \in [id : Ids \cup {0}, len : Lens \cup {0}]
    BY Zenon DEF NoMsg
  <2>11. OtherTyped'
    BY <2>0, <2>1, <2>4, <2>8, <2>9, <2>10, Zenon DEF OtherTyped, flags
  <2> QED BY <2>1, <2>5, <2>6, <2>8, <2>11, IndInvParts, Zenon
(* copyIn() into the bank that was measured. *)
<1>WriteCopyInStep. ASSUME IndInv, WriteCopyIn PROVE IndInv'
  <2> USE <1>WriteCopyInStep
  <2>1. InWrite /\ rotateCmds' \in Nat
    BY Zenon DEF WriteCopyIn, InWrite, IndInv, TypeOK
  <2> QED BY <2>1, <1>CopyInStep, Zenon DEF WriteCopyIn
(* copyIn() into the bank that a rotation made current. *)
<1>WritePostStep. ASSUME IndInv, WritePost PROVE IndInv'
  <2> USE <1>WritePostStep
  <2>1. InWrite /\ rotateCmds' \in Nat
    BY DEF WritePost, InWrite, IndInv, TypeOK
  <2> QED BY <2>1, <1>CopyInStep, Zenon DEF WritePost
(* The steps that call rotate(), on the logger thread or on a user's. *)
<1>RotateStep.
  ASSUME IndInv, Rotate, NEW t \in Threads, NEW v,
         hold' = hold, needGreaseThread' = needGreaseThread, aborted' = aborted,
         flushTimer' \in BOOLEAN, closed' \in BOOLEAN,
         UNCHANGED <<kind, disabled, logCallbackSet, nextId, out, delivered, rotateCmds>>,
         dropped' \subseteq Ids,
         pc' = [pc EXCEPT ![t] = v], ~CarriesBank(t),
         v \in {"post", "loop", "drain", "drainSync"}, v # "drain" => t = Logger,
         v = "post" => InWrite /\ msg' = msg,
         msg' = msg \/ (t = Logger /\ msg' = NoMsg)
  PROVE  IndInv'
  <2> USE <1>RotateStep
  <2>0. OtherTyped /\ Control
    BY IndInvParts, Zenon
  <2>1. BanksTyped' /\ BankConservation' /\ FreeEmpty'
    BY RotateKeeps, Zenon
  <2>2. v \in LoggerPcs /\ (t # Logger => v \in UserPcs)
    BY Zenon DEF LoggerPcs, UserPcs
  <2>3. v = "post" => msg'.id \in Ids /\ msg'.len \in Lens
    BY <2>0, Zenon DEF Control
  <2>4. Control' /\ pc' \in [Threads -> LoggerPcs \cup UserPcs]
    BY <2>0, <2>2, <2>3, <1>ControlStep, Zenon
  <2>5. msg' \in [id : Ids \cup {0}, len : Lens \cup {0}]
    BY <2>0 DEF OtherTyped, NoMsg
  <2>6. OtherTyped'
    BY <2>0, <2>4, <2>5, Zenon DEF OtherTyped
  <2> QED BY <2>1, <2>4, <2>6, IndInvParts, Zenon
(* rotate(), called by write(). *)
<1>WriteRotateStep. ASSUME IndInv, WriteRotate PROVE IndInv'
  <2> USE <1>WriteRotateStep
  <2>1. Logger \in Threads /\ ~CarriesBank(Logger) /\ InWrite
    BY Zenon DEF WriteRotate, CarriesBank, InWrite, Threads
  <2>2. Overwritten \subseteq Ids /\ msg.id \in Ids /\ dropped \subseteq Ids
    BY <2>1, RotateKeeps, Zenon DEF WriteRotate, IndInv, TypeOK
  <2>3. /\ Rotate /\ hold' = hold /\ UNCHANGED <<needGreaseThread, flushTimer, aborted>>
        /\ UNCHANGED <<kind, disabled, logCallbackSet, closed, nextId, out, delivered, rotateCmds>>
    BY Zenon DEF WriteRotate, refs, flags
  <2>4. flushTimer' \in BOOLEAN /\ closed' \in BOOLEAN
    BY <2>3, Zenon DEF IndInv, TypeOK
  <2>5. CASE Rotated
    <3>1. pc' = [pc EXCEPT ![Logger] = "post"] /\ UNCHANGED <<dropped, msg>>
      BY <2>5, Zenon DEF WriteRotate
    <3> QED BY <2>1, <2>2, <2>3, <2>4, <3>1, <1>RotateStep, Zenon
  <2>6. CASE ~Rotated
    <3>1. /\ pc' = [pc EXCEPT ![Logger] = "loop"] /\ msg' = NoMsg
          /\ dropped' = dropped \cup Overwritten \cup {msg.id}
      BY <2>6, Zenon DEF WriteRotate
    <3> QED BY <2>1, <2>2, <2>3, <2>4, <3>1, <1>RotateStep, Zenon
  <2> QED BY <2>5, <2>6, Zenon
(* rotate(), called by the flush timer. *)
<1>FlushTimerStep. ASSUME IndInv, FlushTimer PROVE IndInv'
  <2> USE <1>FlushTimerStep
  <2>1. Logger \in Threads /\ ~CarriesBank(Logger)
    BY Zenon DEF FlushTimer, CarriesBank, Threads
  <2>2. /\ Rotate /\ hold' = hold /\ UNCHANGED <<needGreaseThread, flushTimer, aborted>>
        /\ UNCHANGED <<kind, disabled, logCallbackSet, closed, nextId, out, delivered, rotateCmds>>
        /\ pc' = [pc EXCEPT ![Logger] = "drain"] /\ msg' = msg
    BY Zenon DEF FlushTimer, refs, flags
  <2>3. dropped' \subseteq Ids /\ flushTimer' \in BOOLEAN /\ closed' \in BOOLEAN
    BY <2>2, RotateKeeps, Zenon DEF FlushTimer, IndInv, TypeOK
  <2> QED BY <2>1, <2>2, <2>3, <1>RotateStep, Zenon
(* rotate(), called by GreaseLib_flush() on a user thread. *)
<1>UserFlushStep. ASSUME IndInv, NEW t \in Flushers, UserFlush(t) PROVE IndInv'
  <2> USE <1>UserFlushStep
  <2>1. t \in Threads /\ ~CarriesBank(t)
    BY Zenon DEF UserFlush, CarriesBank, Threads
  <2>2. /\ Rotate /\ hold' = hold /\ UNCHANGED <<needGreaseThread, flushTimer, aborted>>
        /\ UNCHANGED <<kind, disabled, logCallbackSet, closed, nextId, out, delivered, rotateCmds>>
        /\ pc' = [pc EXCEPT ![t] = "drain"] /\ msg' = msg
    BY Zenon DEF UserFlush, refs, flags
  <2>3. dropped' \subseteq Ids /\ flushTimer' \in BOOLEAN /\ closed' \in BOOLEAN
    BY <2>2, RotateKeeps, Zenon DEF UserFlush, IndInv, TypeOK
  <2> QED BY <2>1, <2>2, <2>3, <1>RotateStep, Zenon
(* rotate(), called at shutdown. *)
<1>ShutdownCmdStep. ASSUME IndInv, ShutdownCmd PROVE IndInv'
  <2> USE <1>ShutdownCmdStep
  <2>1. Logger \in Threads /\ ~CarriesBank(Logger)
    BY Zenon DEF ShutdownCmd, CarriesBank, Threads
  <2>2. /\ Rotate /\ hold' = hold /\ UNCHANGED <<needGreaseThread, aborted>>
        /\ UNCHANGED <<kind, disabled, logCallbackSet, nextId, out, delivered, rotateCmds>>
        /\ pc' = [pc EXCEPT ![Logger] = "drainSync"] /\ msg' = msg
        /\ closed' \in BOOLEAN /\ flushTimer' \in BOOLEAN
    BY Zenon DEF ShutdownCmd
  <2>3. dropped' \subseteq Ids
    BY <2>2, RotateKeeps, Zenon DEF ShutdownCmd, IndInv, TypeOK
  <2> QED BY <2>1, <2>2, <2>3, <1>RotateStep, Zenon
(* Held when thread t picks up b, or puts down the bank it has. *)
<1>HoldUpdate.
  ASSUME OtherTyped, BankConservation, NEW t \in Threads, NEW b \in Banks \cup {NoBank},
         hold' = [hold EXCEPT ![t] = b],
         hold[t] = NoBank \/ b = NoBank,
         b # NoBank => b \notin Held
  PROVE  /\ hold' \in [Threads -> Banks \cup {NoBank}]
         /\ \A r, u \in Threads : hold'[r] # NoBank /\ hold'[r] = hold'[u] => r = u
         /\ Held' = IF b = NoBank THEN Held \ {hold[t]} ELSE Held \cup {b}
  <2> USE <1>HoldUpdate
  <2>1. hold' \in [Threads -> Banks \cup {NoBank}] /\ hold \in [Threads -> Banks \cup {NoBank}]
    BY Zenon DEF OtherTyped
  <2>2. hold'[t] = b /\ \A r \in Threads \ {t} : hold'[r] = hold[r]
    BY <2>1, Zenon
  <2>3. \A r, u \in Threads : hold[r] # NoBank /\ hold[r] = hold[u] => r = u
    BY Zenon DEF BankConservation
  <2>4. \A r, u \in Threads : hold'[r] # NoBank /\ hold'[r] = hold'[u] => r = u
    <3> TAKE r, u \in Threads
    <3>1. CASE r = t /\ u # t
      BY <2>2, <3>1, Zenon DEF Held
    <3>2. CASE r # t /\ u = t
      BY <2>2, <3>2, Zenon DEF Held
    <3>3. CASE r # t /\ u # t
      BY <2>2, <2>3, <3>3, Zenon
    <3> QED BY <3>1, <3>2, <3>3, Zenon
  <2>5. CASE b = NoBank
    <3>1. \A x \in Held' : x \in Held \ {hold[t]}
      BY <2>2, <2>3, <2>5 DEF Held
    <3>2. \A x \in Held \ {hold[t]} : x \in Held'
      BY <2>2, <2>5, Zenon DEF Held
    <3> QED BY <2>1, <2>4, <2>5, <3>1, <3>2, Zenon
  <2>6. CASE b # NoBank
    <3>1. \A x \in Held' : x \in Held \cup {b}
      BY <2>2, <2>6, Zenon DEF Held
    <3>2. \A x \in Held \cup {b} : x \in Held'
      BY <2>2, <2>6, Zenon DEF Held
    <3> QED BY <2>1, <2>4, <2>6, <3>1, <3>2, Zenon
  <2> QED BY <2>5, <2>6, Zenon
(* Control when thread t picks a bank up or puts one down. *)
<1>ControlHold.
  ASSUME OtherTyped, Control, NEW t \in Threads, NEW b \in Banks \cup {NoBank}, NEW v,
         pc' = [pc EXCEPT ![t] = v], hold' = [hold EXCEPT ![t] = b],
         b # NoBank <=> v \in {"flush", "flushSync", "stuck"},
         IF t = Logger THEN v \in LoggerPcs ELSE v \in UserPcs,
         v \in {"flush", "flushSync", "stuck", "drain", "drainSync", "loop", "idle"},
         msg' = msg
  PROVE  Control' /\ pc' \in [Threads -> LoggerPcs \cup UserPcs]
  <2> USE <1>ControlHold
  <2>1. Logger \in Threads /\ Logger \notin Flushers /\ Flushers \subseteq Threads
    BY ConstantsAssumption, Zenon DEF Threads
  <2>2. /\ pc'[t] = v /\ \A u \in Threads \ {t} : pc'[u] = pc[u]
        /\ hold'[t] = b /\ \A u \in Threads \ {t} : hold'[u] = hold[u]
    BY Zenon DEF OtherTyped
  <2>3. pc' \in [Threads -> LoggerPcs \cup UserPcs]
    BY Zenon DEF OtherTyped
  <2>4. \A u \in Threads : hold'[u] # NoBank <=> CarriesBank(u)'
    <3> TAKE u \in Threads
    <3>1. CASE u = t
      BY <2>2, <3>1, Zenon DEF CarriesBank
    <3>2. CASE u # t
      BY <2>2, <3>2, Zenon DEF CarriesBank, Control
    <3> QED BY <3>1, <3>2, Zenon
  <2>5. pc'[Logger] \in LoggerPcs /\ \A u \in Flushers : pc'[u] \in UserPcs
    BY <2>1, <2>2, Zenon DEF Control
  <2>6. InWrite' => msg'.id \in Ids /\ msg'.len \in Lens
    <3>1. CASE t = Logger
      BY <2>2, <3>1, Zenon DEF InWrite
    <3>2. CASE t # Logger
      BY <2>1, <2>2, <3>2, Zenon DEF InWrite, Control
    <3> QED BY <3>1, <3>2, Zenon
  <2> QED BY <2>3, <2>4, <2>5, <2>6, Zenon DEF Control
(* MoveBank for the places of this target. *)
<1>MoveBetween.
  ASSUME BankConservation, NEW p \in Places, NEW q \in Places, NEW b,
         p # q, b \in At[p], At'[p] = At[p] \ {b}, At'[q] = At[q] \cup {b},
         \A r \in Places \ {p, q} : At'[r] = At[r],
         IsInjective(availBuffers'), IsInjective(writeOutBuffers'),
         IsInjective(writing'), IsInjective(callerLogCallbacks'),
         \A t, u \in Threads : hold'[t] # NoBank /\ hold'[t] = hold'[u] => t = u
  PROVE  BankConservation'
  <2> USE <1>MoveBetween
  <2>1. /\ \A r, s \in Places : r # s => At[r] \cap At[s] = {}
        /\ UNION {At[r] : r \in Places} = Banks
    BY Zenon DEF BankConservation
  <2>2. /\ \A r, s \in Places : r # s => At'[r] \cap At'[s] = {}
        /\ UNION {At'[r] : r \in Places} = Banks
    <3> DEFINE Apart(W) == \A r, s \in Places : r # s => W[r] \cap W[s] = {}
               All(W) == UNION {W[r] : r \in Places} = Banks
               Moved(W, V) == /\ V[p] = W[p] \ {b} /\ V[q] = W[q] \cup {b}
                              /\ \A r \in Places \ {p, q} : V[r] = W[r]
    <3>1. \A W, V : b \in W[p] /\ Apart(W) /\ All(W) /\ Moved(W, V) => Apart(V) /\ All(V)
      BY MoveBank
    <3>2. Apart(At) /\ All(At) /\ Moved(At, At')
      BY <2>1, Zenon
    <3> HIDE DEF Apart, All, Moved
    <3>3. Apart(At') /\ All(At')
      BY <3>1, <3>2, Zenon
    <3> QED BY <3>3, Zenon DEF Apart, All
  <2> QED BY <2>2, Zenon DEF BankConservation
(* A thread takes the first bank that waits, or leaves the loop. *)
<1>TakeWriteOutStep.
  ASSUME IndInv, NEW t \in Threads, NEW v, TakeWriteOut(t, v), ~CarriesBank(t),
         v = "flush" \/ (v = "flushSync" /\ t = Logger)
  PROVE  IndInv'
  <2> USE <1>TakeWriteOutStep
  <2>0. BanksTyped /\ OtherTyped /\ BankConservation /\ Control /\ FreeEmpty
    BY IndInvParts, Zenon
  <2>1. /\ UNCHANGED <<currentBuffer, availBuffers, writing, callerLogCallbacks, user, stranded>>
        /\ UNCHANGED <<bytes, refs, flags, history, msg, rotateCmds>>
    BY Zenon DEF TakeWriteOut
  <2>2. FreeEmpty'
    BY <2>0, <2>1, Zenon DEF FreeEmpty, bytes
  <2>3. CASE writeOutBuffers = <<>>
    <3>1. /\ pc' = [pc EXCEPT ![t] = Resting(t)]
          /\ UNCHANGED <<writeOutBuffers, hold>>
      BY <2>3, Zenon DEF TakeWriteOut
    <3>2. BankConservation' /\ BanksTyped'
      BY <2>0, <2>1, <3>1, <1>NoMove, Zenon DEF places, BanksTyped, bytes
    <3>3. /\ IF t = Logger THEN Resting(t) \in LoggerPcs ELSE Resting(t) \in UserPcs
          /\ Resting(t) \in {"loop", "idle"}
      BY Zenon DEF Resting, LoggerPcs, UserPcs
    <3>4. Control' /\ pc' \in [Threads -> LoggerPcs \cup UserPcs]
      BY <2>0, <2>1, <3>1, <3>3, <1>ControlStep, Zenon
    <3>5. OtherTyped'
      BY <2>0, <2>1, <3>1, <3>4, Zenon DEF OtherTyped, refs, flags, history
    <3> QED BY <2>2, <3>2, <3>4, <3>5, IndInvParts, Zenon
  <2>4. CASE writeOutBuffers # <<>>
    <3> DEFINE b == Head(writeOutBuffers)
    <3>1. /\ hold' = [hold EXCEPT ![t] = b]
          /\ writeOutBuffers' = Tail(writeOutBuffers)
          /\ pc' = [pc EXCEPT ![t] = v]
      BY <2>4, Zenon DEF TakeWriteOut
    <3>2. /\ b \in Banks /\ b \in Range(writeOutBuffers)
          /\ writeOutBuffers' \in Seq(Banks)
          /\ Range(writeOutBuffers') = Range(writeOutBuffers) \ {b}
          /\ IsInjective(writeOutBuffers')
      BY <2>0, <2>4, <3>1, TailRange, Zenon DEF BanksTyped, BankConservation
    <3> HIDE DEF b
    <3>3. b \notin Held /\ b # NoBank /\ hold[t] = NoBank
      <4>1. "writeOut" \in Places /\ "held" \in Places
        BY Zenon DEF Places
      <4>2. b \notin At["held"]
        BY <2>0, <3>2, <4>1, AtIs, Elsewhere, Zenon
      <4> QED BY <2>0, <3>2, <4>2, AtIs, BanksFacts, Zenon DEF Control
    <3>4. /\ hold' \in [Threads -> Banks \cup {NoBank}]
          /\ \A r, u \in Threads : hold'[r] # NoBank /\ hold'[r] = hold'[u] => r = u
          /\ Held' = Held \cup {b}
      BY <2>0, <3>1, <3>2, <3>3, <1>HoldUpdate, Zenon
    <3>5. BankConservation'
      <4>1. "writeOut" \in Places /\ "held" \in Places
        BY Zenon DEF Places
      <4>2. \A r \in Places \ {"writeOut", "held"} : At'[r] = At[r]
        BY <2>1, AtIs, Zenon DEF Places
      <4>3. b \in At["writeOut"] /\ At'["writeOut"] = At["writeOut"] \ {b}
        BY <3>2, AtIs, Zenon
      <4>4. At'["held"] = At["held"] \cup {b}
        BY <3>4, AtIs, Zenon
      <4>5. /\ IsInjective(availBuffers') /\ IsInjective(writing')
            /\ IsInjective(callerLogCallbacks')
        BY <2>0, <2>1, Zenon DEF BankConservation
      <4> QED BY <2>0, <3>2, <3>4, <4>1, <4>2, <4>3, <4>4, <4>5, <1>MoveBetween, Zenon
    <3>6. BanksTyped'
      BY <2>0, <2>1, <3>2, Zenon DEF BanksTyped, bytes
    <3>7. Control' /\ pc' \in [Threads -> LoggerPcs \cup UserPcs]
      <4>1. IF t = Logger THEN v \in LoggerPcs ELSE v \in UserPcs
        BY Zenon DEF LoggerPcs, UserPcs
      <4> QED BY <2>0, <2>1, <3>1, <3>2, <3>3, <4>1, <1>ControlHold, Zenon
    <3>8. OtherTyped'
      BY <2>0, <2>1, <3>4, <3>7, Zenon DEF OtherTyped, refs, flags, history
    <3> QED BY <2>2, <3>5, <3>6, <3>7, <3>8, IndInvParts, Zenon
  <2> QED BY <2>3, <2>4, Zenon
(* flush() gives the bank to libuv. *)
<1>FlushBankStep. ASSUME IndInv, NEW t \in Threads, Flush(t) PROVE IndInv'
  <2> USE <1>FlushBankStep
  <2> DEFINE b == hold[t]
  <2>0. BanksTyped /\ OtherTyped /\ BankConservation /\ Control /\ FreeEmpty
    BY IndInvParts, Zenon
  <2>1. /\ pc[t] = "flush" /\ pc' = [pc EXCEPT ![t] = "drain"]
        /\ writing' = Append(writing, b) /\ hold' = [hold EXCEPT ![t] = NoBank]
        /\ UNCHANGED <<currentBuffer, availBuffers, writeOutBuffers, callerLogCallbacks, user,
                       stranded>>
        /\ UNCHANGED <<bytes, refs, flags, history, msg, rotateCmds>>
    BY Zenon DEF Flush
  <2>2. b \in Banks /\ b \in Held /\ b # NoBank
    BY <2>0, <2>1, Zenon DEF Control, CarriesBank, OtherTyped, Held
  <2>3. "writing" \in Places /\ "held" \in Places
    BY Zenon DEF Places
  <2>4. b \notin Range(writing)
    BY <2>0, <2>2, <2>3, AtIs, Elsewhere, Zenon
  <2>5. /\ writing' \in Seq(Banks) /\ Range(writing') = Range(writing) \cup {b}
        /\ IsInjective(writing')
    <3>1. writing \in Seq(Banks) /\ IsInjective(writing) /\ writing' = Append(writing, b)
      BY <2>0, <2>1, Zenon DEF BanksTyped, BankConservation
    <3> HIDE DEF b
    <3> QED BY <2>2, <2>4, <3>1, AppendRange
  <2>6. /\ hold' \in [Threads -> Banks \cup {NoBank}]
        /\ \A r, u \in Threads : hold'[r] # NoBank /\ hold'[r] = hold'[u] => r = u
        /\ Held' = Held \ {b}
    BY <2>0, <2>1, <1>HoldUpdate, Zenon
  <2>7. BankConservation'
    <3>1. \A r \in Places \ {"held", "writing"} : At'[r] = At[r]
      BY <2>1, AtIs, Zenon DEF Places
    <3>2. b \in At["held"] /\ At'["held"] = At["held"] \ {b}
      BY <2>2, <2>6, AtIs, Zenon
    <3>3. At'["writing"] = At["writing"] \cup {b}
      BY <2>5, AtIs, Zenon
    <3>4. /\ IsInjective(availBuffers') /\ IsInjective(writeOutBuffers')
          /\ IsInjective(callerLogCallbacks')
      BY <2>0, <2>1, Zenon DEF BankConservation
    <3> HIDE DEF b
    <3> QED BY <2>0, <2>3, <2>5, <2>6, <3>1, <3>2, <3>3, <3>4, <1>MoveBetween, Zenon
  <2>8. BanksTyped' /\ FreeEmpty'
    BY <2>0, <2>1, <2>5, Zenon DEF BanksTyped, FreeEmpty, bytes
  <2>9. Control' /\ pc' \in [Threads -> LoggerPcs \cup UserPcs]
    <3>1. "drain" \in LoggerPcs /\ "drain" \in UserPcs
      BY Zenon DEF LoggerPcs, UserPcs
    <3> QED BY <2>0, <2>1, <3>1, <1>ControlHold, Zenon
  <2>10. OtherTyped'
    BY <2>0, <2>1, <2>6, <2>9, Zenon DEF OtherTyped, refs, flags, history
  <2> QED BY <2>7, <2>8, <2>9, <2>10, IndInvParts, Zenon
(* Typing of the history after messages of a bank were written or lost. *)
<1>HistoryTyped.
  ASSUME BanksTyped, OtherTyped, NEW b \in Banks
  PROVE  /\ out \o data[b] \in Seq(Ids) /\ delivered \o data[b] \in Seq(Ids)
         /\ dropped \cup Range(data[b]) \subseteq Ids
         /\ dropped \cup LostWithoutCallback(b) \subseteq Ids
  <2> USE <1>HistoryTyped
  <2>1. data[b] \in Seq(Ids) /\ out \in Seq(Ids) /\ delivered \in Seq(Ids) /\ dropped \subseteq Ids
    BY Zenon DEF BanksTyped, OtherTyped
  <2>2. Range(data[b]) \subseteq Ids
    BY <2>1 DEF Range
  <2>3. out \o data[b] \in Seq(Ids) /\ delivered \o data[b] \in Seq(Ids)
    BY <2>1
  <2> QED BY <2>1, <2>2, <2>3, Zenon DEF LostWithoutCallback
(* returnBuffer() keeps the types of what it changes. *)
<1>ReturnBufferTypes.
  ASSUME BanksTyped, OtherTyped, NEW b \in Banks, NEW sync, NEW nocallback,
         ReturnBuffer(b, sync, nocallback)
  PROVE  /\ needGreaseThread' \in Nat /\ flushTimer' \in BOOLEAN /\ aborted' \in BOOLEAN
         /\ delivered' \in Seq(Ids)
  <2> USE <1>ReturnBufferTypes
  <2>1. Ref \/ Unref \/ UNCHANGED refs
    BY Zenon DEF ReturnBuffer
  <2>2. delivered' = delivered \/ delivered' = delivered \o data[b]
    BY Zenon DEF ReturnBuffer
  <2>3. delivered \in Seq(Ids)
    BY Zenon DEF OtherTyped
  <2> QED BY <2>1, <2>2, <2>3, <1>RefsTyped, <1>HistoryTyped, Zenon
(* A thread gives the bank it holds to returnBuffer(). *)
<1>ReturnHeldStep.
  ASSUME IndInv, NEW t \in Threads, NEW sync, NEW nocallback, NEW v,
         CarriesBank(t), ReturnBuffer(hold[t], sync, nocallback),
         v = "drain" \/ (v = "drainSync" /\ t = Logger),
         pc' = [pc EXCEPT ![t] = v], hold' = [hold EXCEPT ![t] = NoBank],
         UNCHANGED <<currentBuffer, writeOutBuffers, writing, stranded>>,
         UNCHANGED <<flags, nextId, msg, rotateCmds>>,
         out' \in Seq(Ids), dropped' \subseteq Ids
  PROVE  IndInv'
  <2> USE <1>ReturnHeldStep
  <2> DEFINE b == hold[t]
  <2>0. BanksTyped /\ OtherTyped /\ BankConservation /\ Control /\ FreeEmpty
    BY IndInvParts, Zenon
  <2>1. b \in Banks /\ b \in Held /\ b # NoBank
    BY <2>0, Zenon DEF Control, OtherTyped, Held
  <2>2. /\ "held" \in Places /\ "avail" \in Places /\ "callbacks" \in Places /\ "user" \in Places
        /\ b \in At["held"]
    BY <2>1, AtIs, Zenon DEF Places
  <2>3. b \notin Range(availBuffers) /\ b \notin Range(callerLogCallbacks) /\ b \notin user
    <3> HIDE DEF b
    <3>1. b \notin At["avail"] /\ b \notin At["callbacks"] /\ b \notin At["user"]
      BY <2>0, <2>2, Elsewhere, Zenon
    <3> QED BY <3>1, AtIs, Zenon
  <2>4. /\ availBuffers' \in Seq(Banks) /\ IsInjective(availBuffers')
        /\ callerLogCallbacks' \in Seq(Banks) /\ IsInjective(callerLogCallbacks')
        /\ used' \in [Banks -> Nat] /\ data' \in [Banks -> Seq(Ids)]
        /\ FreeEmpty'
    BY <2>0, <2>1, <2>3, <1>ReturnBufferMoves, Zenon
  <2>5. PICK q \in {"avail", "callbacks", "user"} :
          /\ Range(availBuffers') =
               IF q = "avail" THEN Range(availBuffers) \cup {b} ELSE Range(availBuffers)
          /\ Range(callerLogCallbacks') =
               IF q = "callbacks" THEN Range(callerLogCallbacks) \cup {b}
               ELSE Range(callerLogCallbacks)
          /\ user' = IF q = "user" THEN user \cup {b} ELSE user
    BY <2>0, <2>1, <2>3, <1>ReturnBufferMoves, Zenon
  <2>6. /\ hold' \in [Threads -> Banks \cup {NoBank}]
        /\ \A r, u \in Threads : hold'[r] # NoBank /\ hold'[r] = hold'[u] => r = u
        /\ Held' = Held \ {b}
    BY <2>0, <1>HoldUpdate, Zenon
  <2> HIDE DEF b
  <2>7. BankConservation'
    <3>1. \A r \in Places \ {"held", q} : At'[r] = At[r]
      BY <2>5, AtIs, Zenon DEF Places
    <3>2. At'["held"] = At["held"] \ {b}
      BY <2>6, AtIs, Zenon
    <3>3. At'[q] = At[q] \cup {b}
      BY <2>5, AtIs, Zenon
    <3>4. IsInjective(writeOutBuffers') /\ IsInjective(writing')
      BY <2>0, Zenon DEF BankConservation
    <3>5. q \in Places /\ q # "held"
      BY <2>2, Zenon
    <3> QED BY <2>0, <2>2, <2>4, <2>6, <3>1, <3>2, <3>3, <3>4, <3>5, <1>MoveBetween, Zenon
  <2>8. BanksTyped'
    BY <2>0, <2>1, <2>4, <2>5, Zenon DEF BanksTyped
  <2>9. Control' /\ pc' \in [Threads -> LoggerPcs \cup UserPcs]
    <3>1. v \in LoggerPcs /\ (t # Logger => v \in UserPcs)
      BY Zenon DEF LoggerPcs, UserPcs
    <3> QED BY <2>0, <3>1, <1>ControlHold, Zenon
  <2>10. /\ needGreaseThread' \in Nat /\ flushTimer' \in BOOLEAN /\ aborted' \in BOOLEAN
         /\ delivered' \in Seq(Ids)
    BY <2>0, <2>1, <1>ReturnBufferTypes, Zenon DEF b
  <2>11. OtherTyped'
    BY <2>0, <2>6, <2>9, <2>10, Zenon DEF OtherTyped, flags
  <2> QED BY <2>4, <2>7, <2>8, <2>9, <2>11, IndInvParts, Zenon
(* flush() of a callback target. *)
<1>FlushCallbackStep. ASSUME IndInv, NEW t \in Threads, FlushCallback(t) PROVE IndInv'
  <2> USE <1>FlushCallbackStep
  <2>1. CarriesBank(t) /\ hold[t] \in Banks
    BY Zenon DEF FlushCallback, CarriesBank, IndInv, TypeOK
  <2>2. out' \in Seq(Ids) /\ dropped' \subseteq Ids
    BY <2>1, <1>HistoryTyped, IndInvParts, Zenon DEF FlushCallback, OtherTyped
  <2> QED BY <2>1, <2>2, <1>ReturnHeldStep, Zenon DEF FlushCallback
(* flushSync() of a file or a callback target. *)
<1>FlushSyncStep. ASSUME IndInv, FlushSync PROVE IndInv'
  <2> USE <1>FlushSyncStep
  <2>1. Logger \in Threads /\ CarriesBank(Logger) /\ hold[Logger] \in Banks
    BY Zenon DEF FlushSync, CarriesBank, IndInv, TypeOK, Threads
  <2>2. out' \in Seq(Ids) /\ dropped' \subseteq Ids
    BY <2>1, <1>HistoryTyped, IndInvParts, Zenon DEF FlushSync, OtherTyped
  <2> QED BY <2>1, <2>2, <1>ReturnHeldStep, Zenon DEF FlushSync
(* flushSync() of a TTY stops the thread with the bank in hand. *)
<1>FlushSyncTtyStep. ASSUME IndInv, FlushSyncTty PROVE IndInv'
  <2> USE <1>FlushSyncTtyStep
  <2>0. BanksTyped /\ OtherTyped /\ BankConservation /\ Control /\ FreeEmpty
    BY IndInvParts, Zenon
  <2>1. /\ pc[Logger] = "flushSync" /\ pc' = [pc EXCEPT ![Logger] = "stuck"]
        /\ UNCHANGED <<places, bytes, refs, flags, history, msg, rotateCmds>>
    BY Zenon DEF FlushSyncTty
  <2>2. BanksTyped' /\ FreeEmpty' /\ BankConservation'
    BY <2>0, <2>1, <1>NoMove, Zenon DEF places, bytes, BanksTyped, FreeEmpty
  <2>3. Logger \in Threads /\ hold[Logger] \in Banks /\ hold[Logger] # NoBank
    BY <2>0, <2>1, Zenon DEF Control, CarriesBank, OtherTyped, Threads
  <2>4. hold' = [hold EXCEPT ![Logger] = hold[Logger]]
    BY <2>0, <2>1, Zenon DEF places, OtherTyped
  <2>5. Control' /\ pc' \in [Threads -> LoggerPcs \cup UserPcs]
    <3>1. "stuck" \in LoggerPcs
      BY Zenon DEF LoggerPcs
    <3> QED BY <2>0, <2>1, <2>3, <2>4, <3>1, <1>ControlHold, Zenon
  <2>6. OtherTyped'
    BY <2>0, <2>1, <2>5, Zenon DEF OtherTyped, places, refs, flags, history
  <2> QED BY <2>2, <2>5, <2>6, IndInvParts, Zenon
(* write_cb(): a bank comes back from libuv. *)
<1>WriteCbStep.
  ASSUME IndInv, NEW i \in 1 .. Len(writing), NEW ok \in BOOLEAN, WriteCb(i, ok)
  PROVE  IndInv'
  <2> USE <1>WriteCbStep
  <2> DEFINE b == writing[i]
  <2>0. BanksTyped /\ OtherTyped /\ BankConservation /\ Control /\ FreeEmpty
    BY IndInvParts, Zenon
  <2>1. /\ writing' = Without(writing, i) /\ ReturnBuffer(b, FALSE, FALSE)
        /\ out' = (IF ok THEN out \o data[b] ELSE out)
        /\ dropped' = (IF ok THEN dropped ELSE dropped \cup Range(data[b]))
        /\ UNCHANGED <<currentBuffer, writeOutBuffers, stranded, hold>>
        /\ UNCHANGED <<flags, nextId, pc, msg, rotateCmds>>
    BY Zenon DEF WriteCb
  <2>2. /\ b \in Banks /\ b \in Range(writing) /\ writing' \in Seq(Banks)
        /\ Range(writing') = Range(writing) \ {b} /\ IsInjective(writing')
    BY <2>0, <2>1, WithoutRange, Zenon DEF BanksTyped, BankConservation
  <2> HIDE DEF b
  <2>3. /\ "writing" \in Places /\ "avail" \in Places /\ "callbacks" \in Places /\ "user" \in Places
        /\ b \in At["writing"]
    BY <2>2, AtIs, Zenon DEF Places
  <2>4. b \notin Range(availBuffers) /\ b \notin Range(callerLogCallbacks) /\ b \notin user
    BY <2>0, <2>3, AtIs, Elsewhere, Zenon
  <2>5. /\ availBuffers' \in Seq(Banks) /\ IsInjective(availBuffers')
        /\ callerLogCallbacks' \in Seq(Banks) /\ IsInjective(callerLogCallbacks')
        /\ used' \in [Banks -> Nat] /\ data' \in [Banks -> Seq(Ids)]
        /\ FreeEmpty'
    BY <2>0, <2>1, <2>2, <2>4, <1>ReturnBufferMoves, Zenon
  <2>6. PICK q \in {"avail", "callbacks", "user"} :
          /\ Range(availBuffers') =
               IF q = "avail" THEN Range(availBuffers) \cup {b} ELSE Range(availBuffers)
          /\ Range(callerLogCallbacks') =
               IF q = "callbacks" THEN Range(callerLogCallbacks) \cup {b}
               ELSE Range(callerLogCallbacks)
          /\ user' = IF q = "user" THEN user \cup {b} ELSE user
    BY <2>0, <2>1, <2>2, <2>4, <1>ReturnBufferMoves, Zenon
  <2>7. BankConservation'
    <3>1. \A r \in Places \ {"writing", q} : At'[r] = At[r]
      <4>1. Held' = Held
        BY <2>1, Zenon DEF Held
      <4> QED BY <2>1, <2>6, <4>1, AtIs, Zenon DEF Places
    <3>2. At'["writing"] = At["writing"] \ {b}
      BY <2>2, AtIs, Zenon
    <3>3. At'[q] = At[q] \cup {b}
      BY <2>6, AtIs, Zenon
    <3>4. /\ IsInjective(writeOutBuffers')
          /\ \A t, u \in Threads : hold'[t] # NoBank /\ hold'[t] = hold'[u] => t = u
      BY <2>0, <2>1, Zenon DEF BankConservation
    <3>5. q \in Places /\ q # "writing"
      BY <2>3, Zenon
    <3> QED BY <2>0, <2>2, <2>3, <2>5, <3>1, <3>2, <3>3, <3>4, <3>5, <1>MoveBetween, Zenon
  <2>8. BanksTyped'
    BY <2>0, <2>1, <2>2, <2>5, <2>6, Zenon DEF BanksTyped
  <2>9. Control'
    BY <2>0, <2>1, Zenon DEF Control, CarriesBank, InWrite
  <2>10. /\ needGreaseThread' \in Nat /\ flushTimer' \in BOOLEAN /\ aborted' \in BOOLEAN
         /\ delivered' \in Seq(Ids)
    BY <2>0, <2>1, <2>2, <1>ReturnBufferTypes, Zenon
  <2>11. out' \in Seq(Ids) /\ dropped' \subseteq Ids
    BY <2>0, <2>1, <2>2, <1>HistoryTyped, Zenon DEF OtherTyped
  <2>12. OtherTyped'
    BY <2>0, <2>1, <2>10, <2>11, Zenon DEF OtherTyped, flags
  <2> QED BY <2>5, <2>7, <2>8, <2>9, <2>12, IndInvParts, Zenon
(* The bank at the head of the callback queue goes to the user. *)
<1>CallCallbackStep. ASSUME IndInv, CallCallback PROVE IndInv'
  <2> USE <1>CallCallbackStep
  <2> DEFINE b == Head(callerLogCallbacks)
  <2>0. BanksTyped /\ OtherTyped /\ BankConservation /\ Control /\ FreeEmpty
    BY IndInvParts, Zenon
  <2>1. /\ callerLogCallbacks # <<>> /\ callerLogCallbacks' = Tail(callerLogCallbacks)
        /\ user' = user \cup {b} /\ delivered' = delivered \o data[b]
        /\ UNCHANGED <<currentBuffer, availBuffers, writeOutBuffers, writing, stranded, hold>>
        /\ UNCHANGED <<bytes, refs, flags, nextId, out, dropped, pc, msg, rotateCmds>>
    BY Zenon DEF CallCallback
  <2>2. /\ b \in Banks /\ b \in Range(callerLogCallbacks)
        /\ callerLogCallbacks' \in Seq(Banks)
        /\ Range(callerLogCallbacks') = Range(callerLogCallbacks) \ {b}
        /\ IsInjective(callerLogCallbacks')
    BY <2>0, <2>1, TailRange, Zenon DEF BanksTyped, BankConservation
  <2> HIDE DEF b
  <2>3. BankConservation'
    <3>1. "callbacks" \in Places /\ "user" \in Places
      BY Zenon DEF Places
    <3>2. \A r \in Places \ {"callbacks", "user"} : At'[r] = At[r]
      <4>1. Held' = Held
        BY <2>1, Zenon DEF Held
      <4> QED BY <2>1, <4>1, AtIs, Zenon DEF Places
    <3>3. /\ b \in At["callbacks"] /\ At'["callbacks"] = At["callbacks"] \ {b}
          /\ At'["user"] = At["user"] \cup {b}
      BY <2>1, <2>2, AtIs, Zenon
    <3>4. /\ IsInjective(availBuffers') /\ IsInjective(writeOutBuffers') /\ IsInjective(writing')
          /\ \A t, u \in Threads : hold'[t] # NoBank /\ hold'[t] = hold'[u] => t = u
      BY <2>0, <2>1, Zenon DEF BankConservation
    <3> QED BY <2>0, <2>2, <3>1, <3>2, <3>3, <3>4, <1>MoveBetween, Zenon
  <2>4. BanksTyped' /\ FreeEmpty'
    BY <2>0, <2>1, <2>2, Zenon DEF BanksTyped, FreeEmpty, bytes
  <2>5. Control'
    BY <2>0, <2>1, Zenon DEF Control, CarriesBank, InWrite
  <2>6. OtherTyped'
    <3>1. delivered' \in Seq(Ids)
      BY <2>0, <2>1, <2>2, <1>HistoryTyped, Zenon
    <3> QED BY <2>0, <2>1, <3>1, Zenon DEF OtherTyped, refs, flags
  <2> QED BY <2>3, <2>4, <2>5, <2>6, IndInvParts, Zenon
(* The user gives a bank back. *)
<1>CleanupStep. ASSUME IndInv, NEW b \in user, Cleanup(b) PROVE IndInv'
  <2> USE <1>CleanupStep
  <2>0. BanksTyped /\ OtherTyped /\ BankConservation /\ Control /\ FreeEmpty
    BY IndInvParts, Zenon
  <2>1. /\ user' = user \ {b}
        /\ UNCHANGED <<currentBuffer, writeOutBuffers, writing, callerLogCallbacks, hold>>
        /\ UNCHANGED <<refs, flags, history, pc, msg, rotateCmds>>
    BY Zenon DEF Cleanup
  <2>2. /\ "user" \in Places /\ "avail" \in Places /\ "stranded" \in Places
        /\ b \in At["user"] /\ b \in Banks
    BY <2>0, AtIs, Zenon DEF Places, BanksTyped
  <2>3. b \notin Range(availBuffers)
    BY <2>0, <2>2, AtIs, Elsewhere, Zenon
  <2>4. At'["user"] = At["user"] \ {b}
    BY <2>1, AtIs, Zenon
  <2>5. /\ IsInjective(writeOutBuffers') /\ IsInjective(writing') /\ IsInjective(callerLogCallbacks')
        /\ \A t, u \in Threads : hold'[t] # NoBank /\ hold'[t] = hold'[u] => t = u
    BY <2>0, <2>1, Zenon DEF BankConservation
  <2>6. Control' /\ OtherTyped'
    BY <2>0, <2>1, Zenon DEF Control, CarriesBank, InWrite, OtherTyped, refs, flags, history
  <2>7. CASE IsDefault
    <3>1. stranded' = stranded \cup {b} /\ UNCHANGED <<availBuffers, bytes>>
      BY <2>7, Zenon DEF Cleanup
    <3>2. BankConservation'
      <4>1. \A r \in Places \ {"user", "stranded"} : At'[r] = At[r]
        <5>1. Held' = Held
          BY <2>1, Zenon DEF Held
        <5> QED BY <2>1, <3>1, <5>1, AtIs, Zenon DEF Places
      <4>2. At'["stranded"] = At["stranded"] \cup {b} /\ IsInjective(availBuffers')
        BY <2>0, <3>1, AtIs, Zenon DEF BankConservation
      <4> QED BY <2>0, <2>2, <2>4, <2>5, <4>1, <4>2, <1>MoveBetween, Zenon
    <3>3. BanksTyped' /\ FreeEmpty'
      BY <2>0, <2>1, <2>2, <3>1, Zenon DEF BanksTyped, FreeEmpty, bytes
    <3> QED BY <2>6, <3>2, <3>3, IndInvParts, Zenon
  <2>8. CASE ~IsDefault
    <3>1. Recycle(b) /\ UNCHANGED stranded
      BY <2>8, Zenon DEF Cleanup
    <3>2. /\ availBuffers' \in Seq(Banks) /\ IsInjective(availBuffers')
          /\ Range(availBuffers') = Range(availBuffers) \cup {b}
          /\ used' \in [Banks -> Nat] /\ data' \in [Banks -> Seq(Ids)]
          /\ FreeEmpty'
      BY <2>0, <2>2, <2>3, <3>1, RecycleKeeps, Zenon DEF BankConservation
    <3>3. BankConservation'
      <4>1. \A r \in Places \ {"user", "avail"} : At'[r] = At[r]
        <5>1. Held' = Held
          BY <2>1, Zenon DEF Held
        <5> QED BY <2>1, <3>1, <5>1, AtIs, Zenon DEF Places
      <4>2. At'["avail"] = At["avail"] \cup {b}
        BY <3>2, AtIs, Zenon
      <4> QED BY <2>0, <2>2, <2>4, <2>5, <3>2, <4>1, <4>2, <1>MoveBetween, Zenon
    <3>4. BanksTyped'
      BY <2>0, <2>1, <3>1, <3>2, Zenon DEF BanksTyped
    <3> QED BY <2>6, <3>2, <3>3, <3>4, IndInvParts, Zenon
  <2> QED BY <2>7, <2>8, Zenon
<1> SUFFICES ASSUME IndInv, [Next]_vars PROVE IndInv'
  BY Zenon
<1>1. CASE UNCHANGED vars
  <2>1. UNCHANGED <<places, bytes, refs, flags, history, pc, msg, rotateCmds>>
    BY <1>1, Zenon DEF vars
  <2>2. BankConservation'
    BY <2>1, <1>NoMove, IndInvParts, Zenon
  <2>3. BanksTyped' /\ OtherTyped' /\ FreeEmpty'
    BY <2>1, IndInvParts, Zenon
    DEF BanksTyped, OtherTyped, FreeEmpty, places, bytes, refs, flags, history
  <2>4. Control'
    BY <2>1, IndInvParts, Zenon DEF Control, CarriesBank, InWrite, places
  <2> QED BY <2>2, <2>3, <2>4, IndInvParts, Zenon
<1>2. CASE \E len \in Lens : NewLog(len)
  BY <1>2, <1>NewLogStep, Zenon
<1>3. CASE WriteStep
  BY <1>3, <1>CheckEmptyStep, <1>WriteCopyInStep, <1>WriteRotateStep, <1>WritePostStep, <1>WritePostFullStep, Zenon
  DEF WriteStep
<1>4. CASE FlushTimer \/ RotateCmd \/ ShutdownCmd
  BY <1>4, <1>FlushTimerStep, <1>RotateCmdStep, <1>ShutdownCmdStep, Zenon
<1>5. CASE SyncStep
  <2>1. CASE DrainSync
    <3>1. Logger \in Threads /\ ~CarriesBank(Logger) /\ TakeWriteOut(Logger, "flushSync")
      BY <2>1, Zenon DEF DrainSync, CarriesBank, Threads
    <3> QED BY <3>1, <1>TakeWriteOutStep, Zenon
  <2> QED BY <1>5, <2>1, <1>FlushSyncTtyStep, <1>FlushSyncStep, Zenon DEF SyncStep
<1>6. CASE SomeWriteCb
  BY <1>6, <1>WriteCbStep, Zenon DEF SomeWriteCb
<1>7. CASE CallCallback
  BY <1>7, <1>CallCallbackStep, Zenon
<1>8. CASE SetCallback \/ \E v \in BOOLEAN : DisableWrites(v)
  BY <1>8, <1>FlagStep, Zenon
<1>9. CASE \E t \in Flushers : UserFlush(t)
  BY <1>9, <1>UserFlushStep, Zenon
<1>10. CASE \E t \in Threads : FlushStep(t)
  <2> SUFFICES ASSUME NEW t \in Threads, FlushStep(t) PROVE IndInv'
    BY <1>10, Zenon
  <2>1. CASE Drain(t)
    <3>1. ~CarriesBank(t) /\ TakeWriteOut(t, "flush")
      BY <2>1, Zenon DEF Drain, CarriesBank
    <3> QED BY <3>1, <1>TakeWriteOutStep, Zenon
  <2> QED BY <2>1, <1>FlushBankStep, <1>FlushCallbackStep, Zenon DEF FlushStep
<1>11. CASE \E b \in user : Cleanup(b)
  BY <1>11, <1>CleanupStep, Zenon
<1> QED BY <1>1, <1>2, <1>3, <1>4, <1>5, <1>6, <1>7, <1>8, <1>9, <1>10, <1>11, Zenon DEF Next

(* The inductive invariant holds in every reachable state, for any number of *)
(* banks, message lengths, target kind and flushing user threads.            *)
THEOREM InductiveInvariant == Spec => []IndInv
BY InitInv, NextInv, PTL DEF Spec

(* Every variable keeps its type; in particular the reference count of       *)
(* unrefGreaseInGrease() never becomes negative.                             *)
THEOREM TypeCorrect == Spec => []TypeOK
<1>1. IndInv => TypeOK
  BY Zenon DEF IndInv
<1> QED BY <1>1, InductiveInvariant, PTL

(* A logBuf is always in exactly one place: rotate(), flushAll(), write_cb(), *)
(* returnBuffer() and finalizeV8Callback(), interleaved in any order with     *)
(* GreaseLib_flush() on user threads, neither lose nor duplicate one.         *)
THEOREM BanksConserved == Spec => []BankConservation
<1>1. IndInv => BankConservation
  BY Zenon DEF IndInv
<1> QED BY <1>1, InductiveInvariant, PTL

-----------------------------------------------------------------------------
(* Every message stays in one place. *)

(* What a write adds to the output. *)
LEMMA ConcatRange ==
  ASSUME NEW S, NEW s \in Seq(S), NEW t \in Seq(S)
  PROVE  /\ Range(s \o t) = Range(s) \cup Range(t)
         /\ IsInjective(s) /\ IsInjective(t) /\ Range(s) \cap Range(t) = {} => IsInjective(s \o t)
<1> DEFINE u == s \o t
<1>1. /\ Len(s) \in Nat /\ Len(t) \in Nat /\ DOMAIN s = 1 .. Len(s) /\ DOMAIN t = 1 .. Len(t)
      /\ DOMAIN u = 1 .. Len(s) + Len(t)
      /\ \A i \in 1 .. Len(s) : u[i] = s[i]
      /\ \A i \in 1 .. Len(t) : u[Len(s) + i] = t[i]
  OBVIOUS
<1> HIDE DEF u
<1>2. \A i \in DOMAIN u : \/ i \in DOMAIN s /\ u[i] = s[i]
                          \/ i - Len(s) \in DOMAIN t /\ u[i] = t[i - Len(s)]
  <2> SUFFICES ASSUME NEW i \in 1 .. Len(s) + Len(t), i \notin 1 .. Len(s)
               PROVE  i - Len(s) \in 1 .. Len(t) /\ u[i] = t[i - Len(s)]
    BY <1>1, Zenon
  <2>1. i - Len(s) \in 1 .. Len(t) /\ Len(s) + (i - Len(s)) = i
    BY <1>1
  <2> QED BY <1>1, <2>1, Zenon
<1>3. /\ \A i \in DOMAIN s : i \in DOMAIN u /\ u[i] = s[i]
      /\ \A i \in DOMAIN t : Len(s) + i \in DOMAIN u /\ u[Len(s) + i] = t[i]
  BY <1>1
<1>4. Range(u) = Range(s) \cup Range(t)
  BY <1>2, <1>3 DEF Range
<1>5. ASSUME IsInjective(s), IsInjective(t), Range(s) \cap Range(t) = {},
             NEW i \in DOMAIN u, NEW j \in DOMAIN u, u[i] = u[j]
      PROVE  i = j
  <2>0. i \in Int /\ j \in Int /\ Len(s) \in Int
    BY <1>1
  <2>1. CASE i \in DOMAIN s /\ j \in DOMAIN s
    BY <1>3, <1>5, <2>1, Zenon DEF IsInjective
  <2>2. CASE i \notin DOMAIN s /\ j \notin DOMAIN s
    <3>1. i - Len(s) = j - Len(s)
      BY <1>2, <1>5, <2>2, Zenon DEF IsInjective
    <3> QED BY <2>0, <3>1
  <2>3. \A k \in DOMAIN u : IF k \in DOMAIN s THEN u[k] \in Range(s) ELSE u[k] \in Range(t)
    BY <1>2, <1>3, Zenon DEF Range
  <2> QED BY <1>5, <2>1, <2>2, <2>3, Zenon
<1> QED BY <1>4, <1>5, Zenon DEF u, IsInjective

-----------------------------------------------------------------------------
(* The invariant, step by step. *)

(* What is proved of the messages, whatever threads flush. *)
MsgInv == Accounted /\ DataInv /\ IsInjective(Final)

(* The slots have no message in common. *)
LEMMA Apart ==
  ASSUME Accounted
  PROVE  /\ \A b \in Banks : Range(Final) \cap BankIds(b) = {}
         /\ \A b \in Banks : msg.id # 0 => msg.id \notin BankIds(b)
<1>1. \A k, l \in Slots : k # l => Carried[k] \cap Carried[l] = {}
  BY Zenon DEF Accounted, Partition
<1>2. ASSUME NEW b \in Banks
      PROVE  Carried[AtFinal] \cap Carried[b] = {} /\ Carried[AtWrite] \cap Carried[b] = {}
  <2>1. AtFinal # b /\ AtWrite # b /\ b \in Slots
    BY SlotFacts, Zenon
  <2> QED BY <1>1, <2>1, SlotFacts, Zenon
<1> QED BY <1>2, CarriedIs

(* Every step keeps the messages where they are, or moves them as a whole. *)
LEMMA MsgStep == IndInv /\ MsgInv /\ WriteInv /\ [Next]_vars => MsgInv'
(* A bank that write() fills, or that a thread or libuv writes, is not idle. *)
<1>NotIdle.
  ASSUME IndInv, NEW b, b = currentBuffer \/ b \in Held \/ b \in Range(writing)
  PROVE  b \in Banks /\ b \notin Idle /\ b \notin Range(callerLogCallbacks)
  <2> USE <1>NotIdle
  <2>0. BanksTyped /\ BankConservation /\ \A p \in Places : At[p] \subseteq Banks
    BY IndInvParts, Zenon DEF BankConservation
  <2>1. PICK p \in {"current", "held", "writing"} : b \in At[p]
    BY AtIs, Zenon
  <2>2. /\ "current" \in Places /\ "held" \in Places /\ "writing" \in Places /\ "avail" \in Places
        /\ "callbacks" \in Places /\ "user" \in Places /\ "stranded" \in Places
    BY Zenon DEF Places
  <2>3. p \in Places /\ b \in Banks
    BY <2>0, <2>1, <2>2, Zenon
  <2>4. \A q \in Places : q # p => b \notin At[q]
    BY <2>0, <2>1, <2>3, Elsewhere, Zenon
  <2>5. b \notin At["avail"] /\ b \notin At["user"] /\ b \notin At["stranded"] /\ b \notin At["callbacks"]
    BY <2>1, <2>2, <2>4, Zenon
  <2> QED BY <2>3, <2>5, AtIs, Zenon DEF Idle
(* rotate() moves no message but those it overwrites. *)
<1>RotateCarries.
  ASSUME IndInv, DataInv, Rotate, UNCHANGED <<kind, hold>>, NEW c, c = currentBuffer
  PROVE  /\ c \in Banks /\ DataInv'
         /\ \/ Overwritten = {} /\ BankIds(c)' = BankIds(c)
            \/ Overwritten = BankIds(c) /\ BankIds(c)' = {}
         /\ \A b \in Banks \ {c} : BankIds(b)' = BankIds(b)
  <2> USE <1>RotateCarries
  <2>0. /\ BanksTyped /\ BankConservation /\ FreeEmpty /\ BanksTyped' /\ BankConservation'
        /\ c \in Banks /\ c \notin Idle
    BY IndInvParts, RotateKeeps, <1>NotIdle, Zenon
  <2>2. CASE Rotated
    <3>1. PICK h : h = Head(availBuffers)
      BY Zenon
    <3>2. /\ availBuffers # <<>> /\ availBuffers' = Tail(availBuffers)
          /\ used' = used /\ data' = data /\ UNCHANGED <<callerLogCallbacks, user, stranded>>
      BY <2>0, <2>2, Zenon DEF Rotate, Rotated, BanksTyped
    <3>3. h \in Range(availBuffers) /\ Range(availBuffers)' = Range(availBuffers) \ {h} /\ h \in Banks
      BY <2>0, <3>1, <3>2, TailRange, Zenon DEF BanksTyped, BankConservation
    <3>4. \A b \in Banks : BankIds(b)' = BankIds(b)
      <4>1. data[h] = <<>>
        BY <2>0, <3>3, Zenon DEF FreeEmpty, DataInv
      <4>2. Range(data[h]) = {}
        BY <4>1 DEF Range
      <4>3. \A b \in Banks \ {h} : b \in Idle' <=> b \in Idle
        BY <3>2, <3>3, Zenon DEF Idle
      <4> QED BY <3>2, <4>1, <4>2, <4>3, Zenon DEF BankIds
    <3> QED BY <2>0, <2>2, <3>2, <3>4, Zenon DEF DataInv, Overwritten
  <2>3. CASE ~Rotated
    <3>1. UNCHANGED <<currentBuffer, writeOutBuffers, writing, callerLogCallbacks, user, stranded>>
      BY <2>3, Zenon DEF Rotate
    <3>2. Range(availBuffers)' = Range(availBuffers)
      <4>1. \A p \in Places \ {"avail"} : At'[p] = At[p]
        <5>1. Held' = Held
          BY Zenon DEF Held
        <5>2. /\ At'["current"] = At["current"] /\ At'["writeOut"] = At["writeOut"]
              /\ At'["held"] = At["held"] /\ At'["writing"] = At["writing"]
              /\ At'["callbacks"] = At["callbacks"] /\ At'["user"] = At["user"]
              /\ At'["stranded"] = At["stranded"]
          BY <3>1, <5>1, AtIs, Zenon
        <5> QED BY <5>2, Zenon DEF Places
      <4>2. /\ \A p \in Places \ {"avail"} : At'[p] \cap At'["avail"] = {} /\ At[p] \cap At["avail"] = {}
            /\ UNION {At[p] : p \in Places} = Banks /\ UNION {At'[p] : p \in Places} = Banks
        BY <2>0, Zenon DEF BankConservation, Places
      <4>4. "avail" \in Places
        BY Zenon DEF Places
      <4>3. ASSUME NEW x PROVE x \in At'["avail"] <=> x \in At["avail"]
        <5>1. ASSUME x \in At'["avail"] PROVE x \in At["avail"]
          <6>1. PICK p \in Places : x \in At[p]
            BY <4>2, <5>1, <4>4
          <6> QED BY <4>1, <4>2, <5>1, <6>1, Zenon
        <5>2. ASSUME x \in At["avail"] PROVE x \in At'["avail"]
          <6>1. PICK p \in Places : x \in At'[p]
            BY <4>2, <5>2, <4>4
          <6> QED BY <4>1, <4>2, <5>2, <6>1, Zenon
        <5> QED BY <5>1, <5>2, Zenon
      <4>5. At'["avail"] = At["avail"]
        BY <4>3, Zenon
      <4> QED BY <4>5, AtIs, Zenon
    <3>3. Idle' = Idle
      BY <3>1, <3>2, Zenon DEF Idle
    <3>4. CASE used[c] = 0
      <4>1. used' = used /\ data' = data /\ Overwritten = {}
        BY <2>0, <3>4 DEF Rotate, Overwritten, BanksTyped
      <4> QED BY <2>0, <3>3, <4>1, Zenon DEF BankIds, DataInv
    <3>5. CASE used[c] # 0
      <4>1. /\ data'[c] = <<>> /\ Overwritten = Range(data[c])
            /\ \A b \in Banks \ {c} : data'[b] = data[b] /\ used'[b] = used[b]
        BY <2>0, <2>3, <3>5 DEF Rotate, Overwritten, BanksTyped
      <4>2. IsInjective(<<>>) /\ Range(<<>>) = {}
        BY DEF IsInjective, Range
      <4>3. DataInv'
        BY <4>1, <4>2, Zenon DEF DataInv
      <4> QED BY <2>0, <3>3, <4>1, <4>2, <4>3, Zenon DEF BankIds
    <3> QED BY <3>4, <3>5, Zenon
  <2> QED BY <2>2, <2>3, Zenon
(* returnBuffer() ends the way of the bank's messages, unless a callback     *)
(* target queues the bank for its callback.                                  *)
<1>ReturnCarries.
  ASSUME IndInv, DataInv, NEW b, b \in Held \/ b \in Range(writing), NEW sync, NEW nocallback,
         ReturnBuffer(b, sync, nocallback), UNCHANGED <<kind, stranded>>
  PROVE  /\ b \in Banks /\ DataInv' /\ BankIds(b) = Range(data[b])
         /\ \A c \in Banks \ {b} : BankIds(c)' = BankIds(c)
         /\ \/ /\ BankIds(b)' = {}
               /\ used'[b] = 0 \/ kind # "callback" \/ (sync /\ ~nocallback)
            \/ /\ kind = "callback" /\ used'[b] # 0 /\ ~nocallback
               /\ BankIds(b)' = BankIds(b)
  <2> USE <1>ReturnCarries
  <2>0. BanksTyped /\ BankConservation /\ FreeEmpty
    BY IndInvParts, Zenon
  <2>1. b \in Banks /\ b \notin Idle /\ b \notin Range(callerLogCallbacks)
    BY <1>NotIdle, Zenon
  <2>2. BankIds(b) = Range(data[b])
    BY <2>1, Zenon DEF BankIds
  <2>3. IsInjective(<<>>) /\ Range(<<>>) = {}
    BY DEF IsInjective, Range
  <2>4. CASE Recycle(b) /\ UNCHANGED <<callerLogCallbacks, user>>
    <3>1. Range(availBuffers)' = Range(availBuffers) \cup {b}
      BY <2>0, <2>1, <2>4, RecycleKeeps, Zenon DEF BankConservation, Idle
    <3>2. Idle' = Idle \cup {b}
      BY <2>4, <3>1, Zenon DEF Idle
    <3>3. /\ used'[b] = 0 /\ data'[b] = <<>>
          /\ \A c \in Banks \ {b} : used'[c] = used[c] /\ data'[c] = data[c]
      BY <2>0, <2>1, <2>4, Zenon DEF Recycle, BanksTyped
    <3>4. DataInv'
      BY <2>3, <3>3, Zenon DEF DataInv
    <3> QED BY <2>1, <2>2, <3>2, <3>3, <3>4, Zenon DEF BankIds
  <2>5. CASE /\ sync /\ ~nocallback /\ user' = user \cup {b}
             /\ UNCHANGED <<used, data, availBuffers, callerLogCallbacks>>
    <3>1. Idle' = Idle \cup {b}
      BY <2>5, Zenon DEF Idle
    <3>2. DataInv'
      BY <2>5, Zenon DEF DataInv
    <3> QED BY <2>1, <2>2, <2>5, <3>1, <3>2, Zenon DEF BankIds
  <2>6. CASE ~nocallback /\ used[b] > 0 /\ QueueCallback(b) /\ UNCHANGED user
    <3>1. Range(callerLogCallbacks)' = Range(callerLogCallbacks) \cup {b} /\ used' = used /\ data' = data
      BY <2>0, <2>1, <2>6, AppendRange DEF QueueCallback, BanksTyped
    <3>2. Idle' = IF kind = "callback" THEN Idle ELSE Idle \cup {b}
      BY <2>6, <3>1, Zenon DEF Idle, QueueCallback
    <3>3. DataInv'
      BY <3>1, Zenon DEF DataInv
    <3>4. used[b] # 0
      BY <2>0, <2>1, <2>6 DEF BanksTyped
    <3> QED BY <2>1, <2>2, <2>6, <3>1, <3>2, <3>3, <3>4, Zenon DEF BankIds
  <2> QED BY <2>4, <2>5, <2>6, Zenon DEF ReturnBuffer, SkipCallback
(* A step that moves no message. *)
<1>QuietMsg.
  ASSUME MsgInv, msg'.id = msg.id,
         UNCHANGED <<nextId, out, delivered, dropped, kind, used, data, availBuffers, user, stranded,
                     callerLogCallbacks>>
  PROVE  MsgInv'
  <2> USE <1>QuietMsg
  <2>1. Final' = Final /\ Range(Final)' = Range(Final) /\ IsInjective(Final)'
    BY Zenon DEF Final, MsgInv
  <2>2. \A b \in Banks : BankIds(b)' = BankIds(b)
    BY Zenon DEF BankIds, Idle
  <2>3. DataInv'
    BY Zenon DEF MsgInv, DataInv
  <2>4. Accounted'
    BY <2>1, <2>2, AllStay, Zenon DEF MsgInv
  <2> QED BY <2>1, <2>3, <2>4, Zenon DEF MsgInv
(* write() takes the message it is called with, or drops it. *)
<1>NewLogMsg.
  ASSUME IndInv, MsgInv, WriteInv, NEW len \in Lens, NewLog(len)
  PROVE  MsgInv'
  <2> USE <1>NewLogMsg
  <2>1. /\ pc[Logger] = "loop" /\ nextId' = nextId + 1 /\ nextId \in Nat \ {0}
        /\ \/ dropped' = dropped \cup {nextId} /\ msg' = msg
           \/ dropped' = dropped /\ msg'.id = nextId
        /\ UNCHANGED <<out, delivered, kind, used, data, availBuffers, user, stranded,
                       callerLogCallbacks>>
    <3>1. nextId \in Nat \ {0}
      <4>1. nextId \in 1 .. MaxMsgs + 1
        BY Zenon DEF IndInv, TypeOK
      <4> QED BY <4>1, ConstantsAssumption
    <3>2. /\ pc[Logger] = "loop" /\ nextId' = nextId + 1
          /\ UNCHANGED <<out, delivered, kind, used, data, availBuffers, user, stranded,
                         callerLogCallbacks>>
      BY Zenon DEF NewLog, places, bytes, flags
    <3>3. \/ dropped' = dropped \cup {nextId} /\ msg' = msg
          \/ dropped' = dropped /\ msg' = [id |-> nextId, len |-> len]
      BY Zenon DEF NewLog
    <3> QED BY <3>1, <3>2, <3>3
  <2>2. msg.id = 0
    BY <2>1, Zenon DEF WriteInv, InWrite
  <2>3. Final' = Final /\ Range(Final)' = Range(Final) /\ IsInjective(Final)'
    BY <2>1, Zenon DEF Final, MsgInv
  <2>4. \A b \in Banks : BankIds(b)' = BankIds(b)
    BY <2>1, Zenon DEF BankIds, Idle
  <2>5. DataInv'
    BY <2>1, Zenon DEF MsgInv, DataInv
  <2>6. PICK C, D, R, x : /\ C = Carried /\ D = Carried' /\ R = Offered /\ x = nextId
                          /\ Partition(C, R)
    BY Zenon DEF MsgInv, Accounted
  <2>7. Offered' = R \cup {x} /\ x \notin R
    BY <2>1, <2>6 DEF Offered
  <2>8. PICK q \in Slots : D[q] = C[q] \cup {x} /\ \A k \in Slots \ {q} : D[k] = C[k]
    <3>1. CASE dropped' = dropped \cup {nextId} /\ msg' = msg
      <4>1. D[AtDropped] = C[AtDropped] \cup {x}
        BY <2>6, <3>1, CarriedIs, Zenon
      <4>2. \A k \in Slots \ {AtDropped} : D[k] = C[k]
        BY <2>3, <2>4, <2>6, <3>1, CarriedIs, SlotFacts, Zenon
      <4> QED BY <4>1, <4>2, SlotFacts, Zenon
    <3>2. CASE dropped' = dropped /\ msg'.id = nextId
      <4>1. D[AtWrite] = C[AtWrite] \cup {x}
        BY <2>1, <2>2, <2>6, <3>2, CarriedIs, Zenon
      <4>2. \A k \in Slots \ {AtWrite} : D[k] = C[k]
        BY <2>3, <2>4, <2>6, <3>2, CarriedIs, SlotFacts, Zenon
      <4> QED BY <4>1, <4>2, SlotFacts, Zenon
    <3> QED BY <2>1, <3>1, <3>2, Zenon
  <2>9. Partition(D, R \cup {x})
    BY <2>6, <2>7, <2>8, Grow, SMTT(30)
  <2> QED BY <2>3, <2>5, <2>6, <2>7, <2>9, Zenon DEF MsgInv, Accounted
(* The current bank gets the message, unless it leaves no byte. *)
<1>CopyMsg.
  ASSUME IndInv, MsgInv, InWrite, CopyIn(currentBuffer), msg' = NoMsg,
         UNCHANGED <<nextId, out, delivered, kind, availBuffers, user, stranded, callerLogCallbacks>>
  PROVE  MsgInv'
  <2> USE <1>CopyMsg
  <2>0. /\ BanksTyped /\ msg.id \in Ids /\ EntrySize(msg.len) \in Nat /\ msg.id # 0 /\ msg'.id = 0
        /\ Accounted /\ DataInv
    <3>1. BanksTyped /\ msg.id \in Ids /\ msg.len \in Lens /\ Accounted /\ DataInv
      BY IndInvParts, Zenon DEF Control, MsgInv
    <3>2. EntrySize(msg.len) \in Nat
      BY <3>1, EntrySizeNat, Zenon
    <3>3. msg.id # 0
      BY <3>1 DEF Ids
    <3>4. msg'.id = 0
      BY Zenon DEF NoMsg
    <3> QED BY <3>1, <3>2, <3>3, <3>4, Zenon
  <2>1. PICK b \in Banks : b = currentBuffer /\ b \notin Idle
    BY <1>NotIdle, Zenon
  <2>2. Final' = Final /\ Range(Final)' = Range(Final) /\ IsInjective(Final)'
    BY Zenon DEF Final, MsgInv
  <2>3. Idle' = Idle
    BY Zenon DEF Idle
  <2>4. CASE EntrySize(msg.len) > 0
    <3>1. /\ data' = [data EXCEPT ![b] = Append(@, msg.id)] /\ dropped' = dropped
          /\ used' = [used EXCEPT ![b] = @ + EntrySize(msg.len)]
      BY <2>1, <2>4, Zenon DEF CopyIn
    <3>2. data[b] \in Seq(Ids) /\ data'[b] = Append(data[b], msg.id) /\ used'[b] # 0
          /\ \A c \in Banks \ {b} : data'[c] = data[c] /\ used'[c] = used[c]
      BY <2>0, <2>4, <3>1 DEF BanksTyped
    <3>3. msg.id \notin Range(data[b])
      BY <2>0, <2>1, Apart, Zenon DEF BankIds
    <3>4. Range(data'[b]) = Range(data[b]) \cup {msg.id} /\ IsInjective(data'[b])
      <4>1. IsInjective(data[b])
        BY <2>0, Zenon DEF DataInv
      <4>2. PICK s : s = data[b]
        BY Zenon
      <4>3. /\ s \in Seq(Ids) /\ msg.id \in Ids /\ IsInjective(s) /\ msg.id \notin Range(s)
            /\ data'[b] = Append(s, msg.id)
        BY <2>0, <3>2, <3>3, <4>1, <4>2, Zenon
      <4>4. Range(Append(s, msg.id)) = Range(s) \cup {msg.id} /\ IsInjective(Append(s, msg.id))
        BY <4>3, AppendRange
      <4> QED BY <4>2, <4>3, <4>4, Zenon
    <3>5. DataInv'
      BY <2>0, <3>2, <3>4, Zenon DEF DataInv
    <3>6. BankIds(b)' = BankIds(b) \cup {msg.id} /\ \A c \in Banks \ {b} : BankIds(c)' = BankIds(c)
      BY <2>1, <2>3, <3>2, <3>4, Zenon DEF BankIds
    <3>7. Accounted'
      BY <2>0, <2>2, <3>1, <3>6, MessageCopied, Zenon
    <3> QED BY <2>2, <3>5, <3>7, Zenon DEF MsgInv
  <2>5. CASE EntrySize(msg.len) = 0
    <3>1. data' = data /\ dropped' = dropped \cup {msg.id}
      <4>1. ~(EntrySize(msg.len) > 0)
        BY <2>5
      <4> QED BY <4>1, Zenon DEF CopyIn
    <3>2. \A c \in Banks : used'[c] = used[c]
      BY <2>0, <2>5 DEF CopyIn, BanksTyped
    <3>3. DataInv'
      BY <2>0, <3>1, <3>2, Zenon DEF DataInv
    <3>4. \A c \in Banks : BankIds(c)' = BankIds(c)
      BY <2>3, <3>1, Zenon DEF BankIds
    <3>5. PICK lost : lost = {}
      BY Zenon
    <3>51. dropped' = dropped \cup lost \cup {msg.id}
      BY <3>1, <3>5, Zenon
    <3>6. Accounted'
      <4>1. BankIds(b)' = BankIds(b) /\ \A c \in Banks \ {b} : BankIds(c)' = BankIds(c)
        BY <3>4, Zenon
      <4>2. UNCHANGED nextId
        BY Zenon
      <4> QED BY <2>0, <2>2, <3>5, <3>51, <4>1, <4>2, MessageLost, Zenon
    <3> QED BY <2>2, <3>3, <3>6, Zenon DEF MsgInv
  <2> QED BY <2>0, <2>4, <2>5
(* write() has no room for the message. *)
<1>PostFullMsg.
  ASSUME IndInv, MsgInv, WritePostFull
  PROVE  MsgInv'
  <2> USE <1>PostFullMsg
  <2>0. /\ msg.id # 0 /\ msg'.id = 0 /\ dropped' = dropped \cup {msg.id} /\ Accounted
        /\ UNCHANGED <<nextId, out, delivered, kind, used, data, availBuffers, user, stranded,
                       callerLogCallbacks>>
    BY IndInvParts, SMTT(30) DEF Control, InWrite, WritePostFull, MsgInv, NoMsg, Ids, places, bytes, flags
  <2>1. PICK lost : lost = {}
    BY Zenon
  <2>11. dropped' = dropped \cup lost \cup {msg.id}
    BY <2>0, <2>1, Zenon
  <2>2. Final' = Final /\ Range(Final)' = Range(Final) /\ IsInjective(Final)'
    BY <2>0, Zenon DEF Final, MsgInv
  <2>3. \A c \in Banks : BankIds(c)' = BankIds(c)
    BY <2>0, Zenon DEF BankIds, Idle
  <2>4. DataInv'
    BY <2>0, Zenon DEF MsgInv, DataInv
  <2>5. Accounted'
    <3>1. PICK b \in Banks : BankIds(b)' = BankIds(b)
      BY <2>3, BanksFacts, Zenon
    <3>2. \A c \in Banks \ {b} : BankIds(c)' = BankIds(c)
      BY <2>3, Zenon
    <3> QED BY <2>0, <2>1, <2>11, <2>2, <3>1, <3>2, MessageLost, Zenon
  <2> QED BY <2>2, <2>4, <2>5, Zenon DEF MsgInv
(* rotate() on its own, ... *)
<1>RotateMsg.
  ASSUME IndInv, MsgInv, Rotate, dropped' = dropped \cup Overwritten,
         UNCHANGED <<hold, kind, nextId, out, delivered, msg>>
  PROVE  MsgInv'
  <2> USE <1>RotateMsg
  <2>0. Accounted /\ DataInv
    BY Zenon DEF MsgInv
  <2>1. PICK c : c = currentBuffer
    BY Zenon
  <2>2. /\ c \in Banks /\ DataInv'
        /\ \/ Overwritten = {} /\ BankIds(c)' = BankIds(c)
           \/ Overwritten = BankIds(c) /\ BankIds(c)' = {}
        /\ \A b \in Banks \ {c} : BankIds(b)' = BankIds(b)
    BY <2>0, <2>1, <1>RotateCarries, Zenon
  <2>3. Final' = Final /\ Range(Final)' = Range(Final) /\ IsInjective(Final)'
    BY Zenon DEF Final, MsgInv
  <2>4. CASE Overwritten = {} /\ BankIds(c)' = BankIds(c)
    <3>1. dropped' = dropped /\ \A b \in Banks : BankIds(b)' = BankIds(b)
      BY <2>2, <2>4, Zenon
    <3> QED BY <2>0, <2>2, <2>3, <3>1, AllStay, Zenon DEF MsgInv
  <2>5. CASE Overwritten = BankIds(c) /\ BankIds(c)' = {}
    BY <2>0, <2>2, <2>3, <2>5, BankEmptied, Zenon DEF MsgInv
  <2> QED BY <2>2, <2>4, <2>5, Zenon
(* ... and for a message that did not fit. *)
<1>WriteRotateMsg.
  ASSUME IndInv, MsgInv, WriteRotate
  PROVE  MsgInv'
  <2> USE <1>WriteRotateMsg
  <2>0. /\ Rotate /\ Accounted /\ DataInv /\ msg.id # 0
        /\ UNCHANGED <<hold, kind, nextId, out, delivered>>
        /\ \/ Rotated /\ msg' = msg /\ dropped' = dropped
           \/ ~Rotated /\ msg'.id = 0 /\ dropped' = dropped \cup Overwritten \cup {msg.id}
    BY IndInvParts, SMTT(30) DEF Control, InWrite, WriteRotate, MsgInv, NoMsg, Ids, flags
  <2>1. CASE Rotated /\ msg' = msg /\ dropped' = dropped
    <3>1. dropped' = dropped \cup Overwritten
      BY <2>1, Zenon DEF Overwritten
    <3> QED BY <2>0, <2>1, <3>1, <1>RotateMsg, Zenon
  <2>2. CASE msg'.id = 0 /\ dropped' = dropped \cup Overwritten \cup {msg.id}
    <3>1. PICK c, lost : c = currentBuffer /\ lost = Overwritten
      BY Zenon
    <3>2. /\ c \in Banks /\ DataInv'
          /\ \/ lost = {} /\ BankIds(c)' = BankIds(c)
             \/ lost = BankIds(c) /\ BankIds(c)' = {}
          /\ \A b \in Banks \ {c} : BankIds(b)' = BankIds(b)
      BY <2>0, <3>1, <1>RotateCarries, Zenon
    <3>3. Final' = Final /\ Range(Final)' = Range(Final) /\ IsInjective(Final)'
      BY <2>0, Zenon DEF Final, MsgInv
    <3>4. Accounted'
      BY <2>0, <2>2, <3>1, <3>2, <3>3, MessageLost, Zenon
    <3> QED BY <3>2, <3>3, <3>4, Zenon DEF MsgInv
  <2> QED BY <2>0, <2>1, <2>2, Zenon
(* A bank is written or handed over: its messages join those that got there. *)
<1>FinalGrows.
  ASSUME IndInv, MsgInv, NEW b \in Banks, BankIds(b) = Range(data[b]), Final' = Final \o data[b]
  PROVE  Range(Final)' = Range(Final) \cup BankIds(b) /\ IsInjective(Final)'
  <2> USE <1>FinalGrows
  <2>1. Final \in Seq(Ids) /\ data[b] \in Seq(Ids)
    BY Zenon DEF IndInv, TypeOK, Final
  <2>2. IsInjective(Final) /\ IsInjective(data[b]) /\ Range(Final) \cap Range(data[b]) = {}
    BY Apart, Zenon DEF MsgInv, DataInv
  <2> QED BY <2>1, <2>2, ConcatRange
(* flush() of a callback target, and flushSync(). *)
<1>ReturnHeldMsg.
  ASSUME IndInv, MsgInv, NEW t \in Threads, FlushCallback(t) \/ (t = Logger /\ FlushSync)
  PROVE  MsgInv'
  <2> USE <1>ReturnHeldMsg
  <2>0. Accounted /\ DataInv
    BY Zenon DEF MsgInv
  <2>1. PICK b : b = hold[t] /\ b \in Held
    BY Zenon DEF FlushCallback, FlushSync, IndInv, CarriesBank, Held
  <2>2. UNCHANGED <<kind, stranded, nextId, msg>>
    BY Zenon DEF FlushCallback, FlushSync, flags
  <2>3. CASE FlushCallback(t)
    <3>1. /\ ReturnBuffer(b, FALSE, FALSE) /\ kind = "callback" /\ UNCHANGED delivered
          /\ dropped' = dropped \cup (IF used'[b] = 0 THEN Range(data[b]) ELSE {})
      BY <2>1, <2>3, Zenon DEF FlushCallback, LostWithoutCallback, ReturnBuffer
    <3>2. /\ b \in Banks /\ DataInv' /\ BankIds(b) = Range(data[b])
          /\ \A c \in Banks \ {b} : BankIds(c)' = BankIds(c)
          /\ \/ BankIds(b)' = {} /\ used'[b] = 0
             \/ used'[b] # 0 /\ BankIds(b)' = BankIds(b)
      BY <2>0, <2>1, <2>2, <3>1, <1>ReturnCarries, Zenon
    <3>3. Final' = Final /\ Range(Final)' = Range(Final) /\ IsInjective(Final)'
      BY <2>2, <3>1, Zenon DEF Final, MsgInv
    <3>4. CASE BankIds(b)' = {} /\ used'[b] = 0
      <4>1. dropped' = dropped \cup BankIds(b)
        BY <3>1, <3>2, <3>4, Zenon
      <4>2. Accounted'
        BY <2>0, <2>2, <3>2, <3>3, <3>4, <4>1, BankEmptied, Zenon
      <4> QED BY <3>2, <3>3, <4>2, Zenon DEF MsgInv
    <3>5. CASE used'[b] # 0 /\ BankIds(b)' = BankIds(b)
      <4>1. dropped' = dropped /\ \A c \in Banks : BankIds(c)' = BankIds(c)
        BY <3>1, <3>2, <3>5, Zenon
      <4>2. Accounted'
        BY <2>0, <2>2, <3>3, <4>1, AllStay, Zenon
      <4> QED BY <3>2, <3>3, <4>2, Zenon DEF MsgInv
    <3> QED BY <3>2, <3>4, <3>5, Zenon
  <2>4. CASE t = Logger /\ FlushSync
    <3>1. PICK nocallback \in BOOLEAN : nocallback = ~IsDefault
      BY ConstantsAssumption, Zenon
    <3>2. /\ ReturnBuffer(b, TRUE, nocallback) /\ kind \in {"file", "callback"}
          /\ out' = IF kind = "file" THEN out \o data[b] ELSE out
          /\ dropped' = dropped \cup LostWithoutCallback(b)
      BY <2>1, <2>4, <3>1, ConstantsAssumption, Zenon DEF FlushSync, IndInv, TypeOK, AllKinds
    <3>3. kind = "callback" => nocallback /\ UNCHANGED delivered
      <4>1. kind \in Kinds
        BY Zenon DEF IndInv, TypeOK
      <4> QED BY <3>1, <3>2, <4>1, ConstantsAssumption, Zenon DEF ReturnBuffer
    <3>4. /\ b \in Banks /\ DataInv' /\ BankIds(b) = Range(data[b])
          /\ \A c \in Banks \ {b} : BankIds(c)' = BankIds(c)
          /\ BankIds(b)' = {} /\ (kind = "callback" => used'[b] = 0)
      BY <2>0, <2>1, <2>2, <3>2, <3>3, <1>ReturnCarries, Zenon
    <3>5. CASE kind = "callback"
      <4>1. dropped' = dropped \cup BankIds(b)
        BY <3>2, <3>4, <3>5, Zenon DEF LostWithoutCallback
      <4>2. Final' = Final /\ Range(Final)' = Range(Final) /\ IsInjective(Final)'
        BY <2>2, <3>3, <3>5, Zenon DEF Final, MsgInv
      <4>3. Accounted'
        BY <2>0, <2>2, <3>4, <4>1, <4>2, BankEmptied, Zenon
      <4> QED BY <3>4, <4>2, <4>3, Zenon DEF MsgInv
    <3>6. CASE kind = "file"
      <4>1. dropped' = dropped /\ Final' = Final \o data[b]
        BY <2>2, <3>2, <3>6, Zenon DEF LostWithoutCallback, Final
      <4>2. Range(Final)' = Range(Final) \cup BankIds(b) /\ IsInjective(Final)'
        BY <3>4, <4>1, <1>FinalGrows, Zenon
      <4>3. Accounted'
        BY <2>0, <2>2, <3>4, <4>1, <4>2, BankEmptied, Zenon
      <4> QED BY <3>4, <4>2, <4>3, Zenon DEF MsgInv
    <3> QED BY <3>2, <3>5, <3>6, Zenon
  <2> QED BY <2>3, <2>4, Zenon
(* write_cb(): the bank was written, or the write failed. *)
<1>WriteCbMsg.
  ASSUME IndInv, MsgInv, WriteInv, NEW i \in 1 .. Len(writing), NEW ok \in BOOLEAN, WriteCb(i, ok)
  PROVE  MsgInv'
  <2> USE <1>WriteCbMsg
  <2>0. Accounted /\ DataInv /\ BanksTyped
    BY IndInvParts, Zenon DEF MsgInv
  <2>1. PICK b : b = writing[i]
    BY Zenon
  <2>2. /\ ReturnBuffer(b, FALSE, FALSE) /\ UNCHANGED <<kind, stranded, nextId, msg>>
        /\ out' = IF ok THEN out \o data[b] ELSE out
        /\ dropped' = IF ok THEN dropped ELSE dropped \cup Range(data[b])
    BY <2>1, Zenon DEF WriteCb, flags
  <2>3. b \in Range(writing) /\ kind # "callback"
    BY <2>0, <2>1, WithoutRange DEF BanksTyped, WriteInv
  <2>4. /\ b \in Banks /\ DataInv' /\ BankIds(b) = Range(data[b]) /\ BankIds(b)' = {}
        /\ \A c \in Banks \ {b} : BankIds(c)' = BankIds(c)
    BY <2>0, <2>2, <2>3, <1>ReturnCarries, Zenon
  <2>5. CASE ok
    <3>1. dropped' = dropped /\ Final' = Final \o data[b]
      BY <2>2, <2>3, <2>5, Zenon DEF Final
    <3>2. Range(Final)' = Range(Final) \cup BankIds(b) /\ IsInjective(Final)'
      BY <2>4, <3>1, <1>FinalGrows, Zenon
    <3>3. Accounted'
      BY <2>0, <2>2, <2>4, <3>1, <3>2, BankEmptied, Zenon
    <3> QED BY <2>4, <3>2, <3>3, Zenon DEF MsgInv
  <2>6. CASE ~ok
    <3>1. dropped' = dropped \cup BankIds(b)
      BY <2>2, <2>4, <2>6, Zenon
    <3>2. Final' = Final /\ Range(Final)' = Range(Final) /\ IsInjective(Final)'
      BY <2>2, <2>3, <2>6, Zenon DEF Final, MsgInv
    <3>3. Accounted'
      BY <2>0, <2>2, <2>4, <3>1, <3>2, BankEmptied, Zenon
    <3> QED BY <2>4, <3>2, <3>3, Zenon DEF MsgInv
  <2> QED BY <2>5, <2>6, Zenon
(* The user gets a bank. *)
<1>CallCallbackMsg.
  ASSUME IndInv, MsgInv, CallCallback
  PROVE  MsgInv'
  <2> USE <1>CallCallbackMsg
  <2>0. Accounted /\ DataInv /\ BanksTyped /\ BankConservation
    BY IndInvParts, Zenon DEF MsgInv
  <2>1. PICK b : b = Head(callerLogCallbacks)
    BY Zenon
  <2>2. /\ callerLogCallbacks # <<>> /\ callerLogCallbacks' = Tail(callerLogCallbacks)
        /\ user' = user \cup {b} /\ delivered' = delivered \o data[b]
        /\ UNCHANGED <<availBuffers, stranded, used, data, kind, nextId, out, dropped, msg>>
    BY <2>1, Zenon DEF CallCallback, bytes, flags
  <2>3. /\ b \in Banks /\ b \in Range(callerLogCallbacks)
        /\ Range(callerLogCallbacks)' = Range(callerLogCallbacks) \ {b}
    BY <2>0, <2>1, <2>2, TailRange, Zenon DEF BanksTyped, BankConservation
  <2>4. DataInv'
    BY <2>0, <2>2, Zenon DEF DataInv
  <2>5. CASE kind # "callback"
    <3>1. Idle' = Idle
      BY <2>2, <2>3, <2>5, Zenon DEF Idle
    <3>2. \A c \in Banks : BankIds(c)' = BankIds(c)
      BY <2>2, <3>1, Zenon DEF BankIds
    <3>3. Final' = Final /\ Range(Final)' = Range(Final) /\ IsInjective(Final)'
      BY <2>2, <2>5, Zenon DEF Final, MsgInv
    <3>4. Accounted'
      BY <2>0, <2>2, <3>2, <3>3, AllStay, Zenon
    <3> QED BY <2>4, <3>3, <3>4, Zenon DEF MsgInv
  <2>6. CASE kind = "callback"
    <3>1. Idle' = Idle \cup {b} /\ Idle = Range(availBuffers) \cup user \cup stranded
      BY <2>2, <2>6, Zenon DEF Idle
    <3>2. b \notin Idle
      <4>1. /\ "callbacks" \in Places /\ "avail" \in Places /\ "user" \in Places
            /\ "stranded" \in Places
        BY Zenon DEF Places
      <4>2. b \in At["callbacks"]
        BY <2>3, AtIs, Zenon
      <4>3. b \notin At["avail"] /\ b \notin At["user"] /\ b \notin At["stranded"]
        BY <2>0, <4>1, <4>2, Elsewhere, Zenon
      <4> QED BY <3>1, <4>3, AtIs, Zenon
    <3>3. /\ BankIds(b) = Range(data[b]) /\ BankIds(b)' = {}
          /\ \A c \in Banks \ {b} : BankIds(c)' = BankIds(c)
      BY <2>2, <3>1, <3>2, Zenon DEF BankIds
    <3>4. Final' = Final \o data[b]
      BY <2>2, <2>6, Zenon DEF Final
    <3>5. Range(Final)' = Range(Final) \cup BankIds(b) /\ IsInjective(Final)'
      BY <2>3, <3>3, <3>4, <1>FinalGrows, Zenon
    <3>6. Accounted'
      BY <2>0, <2>2, <2>3, <3>3, <3>5, BankEmptied, Zenon
    <3> QED BY <2>4, <3>5, <3>6, Zenon DEF MsgInv
  <2> QED BY <2>5, <2>6, Zenon
(* The user gives a bank back. *)
<1>CleanupMsg.
  ASSUME IndInv, MsgInv, NEW b \in user, Cleanup(b)
  PROVE  MsgInv'
  <2> USE <1>CleanupMsg
  <2>0. Accounted /\ DataInv /\ BanksTyped /\ BankConservation /\ FreeEmpty /\ b \in Banks
    BY IndInvParts, Zenon DEF MsgInv, BanksTyped
  <2>1. user' = user \ {b} /\ UNCHANGED <<callerLogCallbacks, kind, nextId, out, delivered, dropped, msg>>
    BY Zenon DEF Cleanup, flags, history
  <2>2. Final' = Final /\ Range(Final)' = Range(Final) /\ IsInjective(Final)'
    BY <2>1, Zenon DEF Final, MsgInv
  <2>3. CASE stranded' = stranded \cup {b} /\ UNCHANGED <<availBuffers, used, data>>
    <3>1. Idle' = Idle
      BY <2>1, <2>3, Zenon DEF Idle
    <3>2. DataInv' /\ \A c \in Banks : BankIds(c)' = BankIds(c)
      BY <2>0, <2>3, <3>1, Zenon DEF BankIds, DataInv
    <3> QED BY <2>0, <2>1, <2>2, <3>2, AllStay, Zenon DEF MsgInv
  <2>4. CASE Recycle(b) /\ UNCHANGED stranded
    <3>1. b \notin Range(availBuffers)
      <4>1. "user" \in Places /\ "avail" \in Places /\ b \in At["user"]
        BY AtIs, Zenon DEF Places
      <4>2. b \notin At["avail"]
        BY <2>0, <4>1, Elsewhere, Zenon
      <4> QED BY <4>2, AtIs, Zenon
    <3>2. Range(availBuffers)' = Range(availBuffers) \cup {b}
      BY <2>0, <2>4, <3>1, RecycleKeeps, Zenon DEF BankConservation
    <3>3. Idle' = Idle /\ b \in Idle
      BY <2>1, <2>4, <3>2, Zenon DEF Idle
    <3>4. /\ used'[b] = 0 /\ data'[b] = <<>> /\ IsInjective(<<>>)
          /\ \A c \in Banks \ {b} : used'[c] = used[c] /\ data'[c] = data[c]
      BY <2>0, <2>4 DEF Recycle, BanksTyped, IsInjective
    <3>5. DataInv'
      BY <2>0, <3>4, Zenon DEF DataInv
    <3>6. \A c \in Banks : BankIds(c)' = BankIds(c)
      BY <3>3, <3>4, Zenon DEF BankIds
    <3> QED BY <2>0, <2>1, <2>2, <3>5, <3>6, AllStay, Zenon DEF MsgInv
  <2> QED BY <2>3, <2>4, Zenon DEF Cleanup, bytes
<1> SUFFICES ASSUME IndInv, MsgInv, WriteInv, [Next]_vars PROVE MsgInv'
  BY Zenon
<1>1. CASE UNCHANGED vars
  BY <1>1, <1>QuietMsg, Zenon DEF vars, places, bytes, flags, history
<1>2. ASSUME NEW len \in Lens, NewLog(len) PROVE MsgInv'
  BY <1>2, <1>NewLogMsg, Zenon
<1>3. CASE WriteStep
  <2>1. CASE CheckEmpty
    BY <2>1, <1>QuietMsg, Zenon DEF CheckEmpty, places, bytes, flags, history
  <2>2. CASE WriteCopyIn
    BY <2>2, <1>CopyMsg, Zenon DEF WriteCopyIn, InWrite, places, flags
  <2>3. CASE WriteRotate
    BY <2>3, <1>WriteRotateMsg, Zenon
  <2>4. CASE WritePost
    BY <2>4, <1>CopyMsg, Zenon DEF WritePost, InWrite, places, flags
  <2>5. CASE WritePostFull
    BY <2>5, <1>PostFullMsg, Zenon
  <2> QED BY <1>3, <2>1, <2>2, <2>3, <2>4, <2>5, Zenon DEF WriteStep
<1>4. CASE FlushTimer \/ ShutdownCmd \/ \E t \in Flushers : UserFlush(t)
  <2>1. /\ Rotate /\ dropped' = dropped \cup Overwritten
        /\ UNCHANGED <<hold, kind, nextId, out, delivered, msg>>
    BY <1>4, Zenon DEF FlushTimer, ShutdownCmd, UserFlush, flags
  <2> QED BY <2>1, <1>RotateMsg, Zenon
<1>5. CASE RotateCmd \/ SetCallback \/ \E v \in BOOLEAN : DisableWrites(v)
  BY <1>5, <1>QuietMsg, Zenon DEF RotateCmd, SetCallback, DisableWrites, places, bytes, flags, history
<1>6. CASE SyncStep
  <2>1. CASE DrainSync \/ FlushSyncTty
    BY <2>1, <1>QuietMsg, Zenon DEF DrainSync, TakeWriteOut, FlushSyncTty, places, bytes, flags, history
  <2>2. CASE FlushSync
    BY <2>2, <1>ReturnHeldMsg, Zenon DEF Threads
  <2> QED BY <1>6, <2>1, <2>2, Zenon DEF SyncStep
<1>7. CASE SomeWriteCb
  BY <1>7, <1>WriteCbMsg, Zenon DEF SomeWriteCb
<1>8. CASE CallCallback
  BY <1>8, <1>CallCallbackMsg, Zenon
<1>9. ASSUME NEW t \in Threads, FlushStep(t) PROVE MsgInv'
  <2>1. CASE Drain(t) \/ Flush(t)
    BY <2>1, <1>QuietMsg, Zenon DEF Drain, TakeWriteOut, Flush, bytes, flags, history
  <2>2. CASE FlushCallback(t)
    BY <2>2, <1>ReturnHeldMsg, Zenon
  <2> QED BY <1>9, <2>1, <2>2, Zenon DEF FlushStep
<1>10. ASSUME NEW b \in user, Cleanup(b) PROVE MsgInv'
  BY <1>10, <1>CleanupMsg, Zenon
<1> QED BY <1>1, <1>2, <1>3, <1>4, <1>5, <1>6, <1>7, <1>8, <1>9, <1>10, Zenon DEF Next

(* write() lets go of its message when it returns, and a callback target     *)
(* never has a write with libuv.                                             *)
LEMMA WriteInvStep == IndInv /\ WriteInv /\ [Next]_vars => WriteInv'
<1> SUFFICES ASSUME IndInv, WriteInv, [Next]_vars PROVE WriteInv'
  BY Zenon
<1>0. Logger \in Threads /\ pc \in [Threads -> LoggerPcs \cup UserPcs] /\ Logger \notin Flushers
      /\ writing \in Seq(Banks)
  BY ConstantsAssumption, Zenon DEF Threads, IndInv, TypeOK
<1>1. kind' = kind
  BY Zenon DEF Next, NewLog, WriteStep, CheckEmpty, WriteCopyIn, WriteRotate, WritePost, WritePostFull,
         FlushTimer, RotateCmd, ShutdownCmd, SyncStep, DrainSync, TakeWriteOut, FlushSyncTty, FlushSync,
         SomeWriteCb, WriteCb, CallCallback, SetCallback, UserFlush, FlushStep, Drain, Flush,
         FlushCallback, Cleanup, DisableWrites, vars, flags
<1>2. ASSUME kind = "callback" PROVE writing' = <<>>
  <2>1. writing = <<>> /\ Len(writing) = 0
    BY <1>2, Zenon DEF WriteInv
  <2>2. ~SomeWriteCb
    BY <2>1 DEF SomeWriteCb
  <2>3. UNCHANGED writing
    BY <1>2, <2>2, Zenon
       DEF Next, NewLog, WriteStep, CheckEmpty, WriteCopyIn, WriteRotate, WritePost, WritePostFull,
         FlushTimer, RotateCmd, ShutdownCmd, SyncStep, DrainSync, TakeWriteOut, FlushSyncTty, FlushSync,
         CallCallback, SetCallback, UserFlush, FlushStep, Drain, Flush, FlushCallback, Cleanup,
         DisableWrites, vars, places, Rotate
  <2> QED BY <2>1, <2>3, Zenon
<1>3. (~InWrite => msg.id = 0)'
  <2>1. CASE msg' = NoMsg
    BY <2>1, Zenon DEF NoMsg
  <2>2. CASE msg' = msg /\ (InWrite => InWrite')
    BY <2>2, Zenon DEF WriteInv
  <2>3. ASSUME NEW len \in Lens, NewLog(len) PROVE (~InWrite => msg.id = 0)'
    <3>1. pc' = pc \/ pc'[Logger] \in {"isEmpty", "rotate"}
      BY <1>0, <2>3, Zenon DEF NewLog
    <3>2. pc' = pc => msg' = msg
      BY <1>0, <2>3, Zenon DEF NewLog
    <3> QED BY <2>2, <3>1, <3>2, Zenon DEF InWrite
  <2>4. CASE WriteStep
    <3>1. CASE CheckEmpty \/ WriteRotate
      <4>1. pc'[Logger] \in {"copyIn", "post"} \/ msg' = NoMsg
        BY <1>0, <3>1, Zenon DEF CheckEmpty, WriteRotate
      <4> QED BY <2>1, <4>1, Zenon DEF InWrite
    <3>2. CASE WriteCopyIn \/ WritePost \/ WritePostFull
      BY <2>1, <3>2, Zenon DEF WriteCopyIn, WritePost, WritePostFull
    <3> QED BY <2>4, <3>1, <3>2, Zenon DEF WriteStep
  <2>5. CASE FlushTimer \/ RotateCmd \/ ShutdownCmd \/ SyncStep
    <3>1. msg' = msg /\ ~InWrite
      BY <2>5, Zenon DEF FlushTimer, RotateCmd, ShutdownCmd, SyncStep, DrainSync, TakeWriteOut, FlushSyncTty,
                  FlushSync, InWrite
    <3> QED BY <2>2, <3>1, Zenon
  <2>6. CASE SomeWriteCb \/ CallCallback \/ SetCallback \/ (\E b \in user : Cleanup(b))
             \/ \E v \in BOOLEAN : DisableWrites(v)
    <3>1. msg' = msg /\ pc' = pc
      BY <2>6, Zenon DEF SomeWriteCb, WriteCb, CallCallback, SetCallback, Cleanup, DisableWrites
    <3> QED BY <2>2, <3>1, Zenon DEF InWrite
  <2>7. ASSUME NEW t \in Threads, UserFlush(t) \/ FlushStep(t)
        PROVE  (~InWrite => msg.id = 0)'
    <3>1. /\ msg' = msg /\ \E v : pc' = [pc EXCEPT ![t] = v]
          /\ pc[t] \in {"idle", "drain", "flush"}
      BY <2>7, Zenon DEF UserFlush, FlushStep, Drain, TakeWriteOut, Flush, FlushCallback
    <3>2. InWrite => pc'[Logger] = pc[Logger]
      BY <1>0, <3>1, Zenon DEF InWrite
    <3> QED BY <2>2, <3>1, <3>2, Zenon DEF InWrite
  <2>8. CASE UNCHANGED vars
    BY <2>2, <2>8, Zenon DEF vars, InWrite
  <2> QED BY <2>3, <2>4, <2>5, <2>6, <2>7, <2>8, Zenon DEF Next, Threads
<1> QED BY <1>1, <1>2, <1>3, Zenon DEF WriteInv

(* Before the first message there is none. *)
LEMMA MsgInit == Init => MsgInv /\ WriteInv
<1> SUFFICES ASSUME Init PROVE MsgInv /\ WriteInv
  BY Zenon
<1>1. Range(<<>>) = {} /\ IsInjective(<<>>)
  BY DEF Range, IsInjective
<1>2. Final = <<>> /\ dropped = {} /\ msg.id = 0 /\ writing = <<>> /\ Offered = {}
      /\ \A b \in Banks : data[b] = <<>>
  BY DEF Init, Final, NoMsg, Offered
<1>3. \A k \in Slots : Carried[k] = {}
  <2>1. \A b \in Banks : BankIds(b) = {}
    BY <1>1, <1>2, Zenon DEF BankIds
  <2> QED BY <1>1, <1>2, <2>1, CarriedIs, SlotFacts, Zenon
<1>4. Accounted
  BY <1>2, <1>3, Zenon DEF Accounted, Partition
<1> QED BY <1>1, <1>2, <1>4, Zenon DEF MsgInv, DataInv, WriteInv

-----------------------------------------------------------------------------
(* A bank holds no more bytes than its heap block, or one edge message. *)

(* OnlyDelimiterOverruns with what write() knows between measuring the bank  *)
(* and filling it. A user's flush in between can only make the current bank  *)
(* emptier; and an empty bank has no message in it.                          *)
BytesInv ==
  /\ OnlyDelimiterOverruns
  /\ \A b \in Banks : used[b] = 0 => data[b] = <<>>
  /\ pc[Logger] \in {"isEmpty", "copyIn"} =>
       EntrySize(msg.len) = 0 \/ used[currentBuffer] + EntrySize(msg.len) <= BankSize
  /\ pc[Logger] = "post" => used[currentBuffer] = 0

Measured == {"isEmpty", "copyIn", "post"}

(* The step leaves bank b as it is, or empties it. *)
KeptOrCleared(b) ==
  (used'[b] = used[b] /\ data'[b] = data[b]) \/ (used'[b] = 0 /\ data'[b] = <<>>)

(* Every step keeps the byte bound: only copyIn() fills a bank. *)
LEMMA BytesStep == IndInv /\ IndInv' /\ BytesInv /\ [Next]_vars => BytesInv'
(* remain() leaves room for the entry that passes the test of write(). *)
<1>FitsBytes.
  ASSUME NEW b \in Banks, NEW len \in Lens, used[b] \in Nat, Fits(b, len)
  PROVE  EntrySize(len) = 0 \/ used[b] + EntrySize(len) <= BankSize
  <2> USE <1>FitsBytes
  <2>1. /\ BankSize \in Nat /\ Delim \in Nat /\ Header \in Nat /\ Footer \in Nat /\ len \in Nat
    BY ConstantsAssumption, Zenon
  <2>2. CASE BankSize - used[b] < Delim
    <3>1. len + Header + Footer <= 0
      BY <2>2, Zenon DEF Fits, Remain
    <3>2. len = 0 /\ Header = 0 /\ Footer = 0
      BY <2>1, <3>1
    <3>3. EntrySize(len) = 0
      BY <3>2 DEF EntrySize
    <3> QED BY <3>3, Zenon
  <2>3. CASE ~(BankSize - used[b] < Delim)
    <3>1. len + Header + Footer <= BankSize - used[b] - Delim
      BY <2>3, Zenon DEF Fits, Remain
    <3>2. EntrySize(len) <= Header + len + Footer + Delim /\ EntrySize(len) \in Nat
      BY <2>1 DEF EntrySize
    <3> QED BY <2>1, <3>1, <3>2
  <2> QED BY <2>2, <2>3, Zenon
(* rotate() fills no bank, and leaves the current one as it is or empty. *)
<1>RotateBytes.
  ASSUME IndInv, Rotate
  PROVE  /\ \A b \in Banks : KeptOrCleared(b)
         /\ \/ currentBuffer' = currentBuffer /\ used' = used
            \/ used'[currentBuffer'] = 0
         /\ Rotated => used'[currentBuffer'] = 0
         /\ used[currentBuffer] = 0 => currentBuffer' = currentBuffer /\ used' = used
  <2> USE <1>RotateBytes
  <2>0. BanksTyped /\ FreeEmpty
    BY IndInvParts, Zenon
  <2>1. CASE Rotated
    <3>1. /\ currentBuffer' = Head(availBuffers) /\ used' = used /\ data' = data
          /\ used[currentBuffer] > 0
      BY <2>0, <2>1, Zenon DEF Rotate, BanksTyped, Rotated
    <3>4. \A b \in Banks : KeptOrCleared(b)
      BY <3>1, Zenon DEF KeptOrCleared
    <3>2. Head(availBuffers) \in Range(availBuffers)
      BY <2>0, <2>1, TailRange, Zenon DEF BanksTyped, Rotated
    <3>3. used[Head(availBuffers)] = 0
      BY <2>0, <3>2, Zenon DEF FreeEmpty
    <3> QED BY <2>0, <3>1, <3>3, <3>4 DEF BanksTyped
  <2>2. CASE ~Rotated
    <3>1. /\ currentBuffer' = currentBuffer
          /\ used' = [used EXCEPT ![currentBuffer] =
                        IF used[currentBuffer] > 0 /\ ~Rotated THEN 0 ELSE @]
          /\ data' = [data EXCEPT ![currentBuffer] =
                        IF used[currentBuffer] > 0 /\ ~Rotated THEN <<>> ELSE @]
      BY <2>2, Zenon DEF Rotate
    <3>4. \A b \in Banks : KeptOrCleared(b)
      BY <2>0, <3>1, Zenon DEF KeptOrCleared, BanksTyped
    <3>2. CASE used[currentBuffer] > 0
      BY <2>0, <2>2, <3>1, <3>2, <3>4 DEF BanksTyped
    <3>3. CASE ~(used[currentBuffer] > 0)
      BY <2>0, <2>2, <3>1, <3>3, <3>4 DEF BanksTyped
    <3> QED BY <3>2, <3>3, Zenon
  <2> QED BY <2>1, <2>2, Zenon
(* Returning a bank fills none. *)
<1>RecycleBytes.
  ASSUME BanksTyped, NEW b \in Banks,
         Recycle(b) \/ \E x, n \in BOOLEAN : ReturnBuffer(b, x, n)
  PROVE  \A c \in Banks : KeptOrCleared(c)
  <2> USE <1>RecycleBytes
  <2>1. Recycle(b) \/ (used' = used /\ data' = data)
    BY Zenon DEF ReturnBuffer, QueueCallback, SkipCallback
  <2>2. CASE Recycle(b)
    BY <2>2, Zenon DEF Recycle, BanksTyped, KeptOrCleared
  <2>3. CASE used' = used /\ data' = data
    BY <2>3, Zenon DEF KeptOrCleared
  <2> QED BY <2>1, <2>2, <2>3, Zenon
(* A bank that is left alone or emptied is no fuller. *)
<1>StillFit.
  ASSUME BytesInv, \A b \in Banks : KeptOrCleared(b), BankSize \in Nat
  PROVE  OnlyDelimiterOverruns' /\ \A b \in Banks : used'[b] = 0 => data'[b] = <<>>
  <2> USE <1>StillFit
  <2>1. ~(0 > BankSize)
    OBVIOUS
  <2>2. \A len : EntrySize(len)' = EntrySize(len)
    BY Zenon DEF EntrySize
  <2>3. OnlyDelimiterOverruns'
    BY <2>1, <2>2, Zenon DEF BytesInv, KeptOrCleared, OnlyDelimiterOverruns
  <2>4. \A b \in Banks : used'[b] = 0 => data'[b] = <<>>
    BY Zenon DEF BytesInv, KeptOrCleared
  <2> QED BY <2>3, <2>4, Zenon
(* Steps that fill no bank and do not bring write() to a measured bank. *)
<1>BytesKept.
  ASSUME IndInv, IndInv', BytesInv, \A b \in Banks : KeptOrCleared(b),
         \/ pc'[Logger] \notin Measured
         \/ currentBuffer' = currentBuffer /\ pc'[Logger] = pc[Logger] /\ msg' = msg
  PROVE  BytesInv'
  <2> USE <1>BytesKept
  <2>0. /\ used \in [Banks -> Nat] /\ used' \in [Banks -> Nat]
        /\ currentBuffer \in Banks /\ BankSize \in Nat
    BY ConstantsAssumption, Zenon DEF IndInv, TypeOK
  <2>1. OnlyDelimiterOverruns' /\ \A b \in Banks : used'[b] = 0 => data'[b] = <<>>
    BY <2>0, <1>StillFit, Zenon
  <2>2. CASE pc'[Logger] \notin Measured
    BY <2>1, <2>2, Zenon DEF BytesInv, Measured
  <2>3. CASE currentBuffer' = currentBuffer /\ pc'[Logger] = pc[Logger] /\ msg' = msg
    <3>1. EntrySize(msg.len) \in Nat
      BY EntrySizeNat, Zenon DEF IndInv, TypeOK
    <3>2. (EntrySize(msg.len))' = EntrySize(msg.len)
      BY <2>3, Zenon DEF EntrySize
    <3>3. used'[currentBuffer] = used[currentBuffer] \/ used'[currentBuffer] = 0
      BY <2>0, Zenon DEF KeptOrCleared
    <3>4. pc'[Logger] \in {"isEmpty", "copyIn"} =>
            EntrySize(msg'.len) = 0 \/ used'[currentBuffer'] + EntrySize(msg'.len) <= BankSize
      <4>1. pc[Logger] \in {"isEmpty", "copyIn"} =>
              EntrySize(msg.len) = 0 \/ used[currentBuffer] + EntrySize(msg.len) <= BankSize
        BY Zenon DEF BytesInv
      <4>2. used[currentBuffer] \in Nat /\ used'[currentBuffer] \in Nat
        BY <2>0, Zenon
      <4>3. used[currentBuffer] + EntrySize(msg.len) <= BankSize =>
              used'[currentBuffer] + EntrySize(msg.len) <= BankSize
        BY <2>0, <3>1, <3>3, <4>2
      <4> QED BY <2>3, <4>1, <4>3, Zenon
    <3>5. pc'[Logger] = "post" => used'[currentBuffer'] = 0
      BY <2>3, <3>3, Zenon DEF BytesInv
    <3> QED BY <2>1, <3>4, <3>5, Zenon DEF BytesInv
  <2> QED BY <2>2, <2>3, Zenon
(* Filling the current bank, or a fresh one without measuring it. *)
<1>BytesCopied.
  ASSUME IndInv, IndInv', BytesInv, CopyIn(currentBuffer), pc'[Logger] = "loop", msg.len \in Lens,
         \/ EntrySize(msg.len) = 0
         \/ used[currentBuffer] + EntrySize(msg.len) <= BankSize
         \/ used[currentBuffer] = 0
  PROVE  BytesInv'
  <2> USE <1>BytesCopied
  <2>1. /\ used \in [Banks -> Nat] /\ currentBuffer \in Banks /\ data \in [Banks -> Seq(Ids)]
        /\ EntrySize(msg.len) \in Nat /\ BankSize \in Nat
    BY EntrySizeNat, ConstantsAssumption, Zenon DEF IndInv, TypeOK
  <2>2. /\ used'[currentBuffer] = used[currentBuffer] + EntrySize(msg.len)
        /\ \A b \in Banks \ {currentBuffer} : used'[b] = used[b] /\ data'[b] = data[b]
    BY <2>1, Zenon DEF CopyIn
  <2>3. CASE EntrySize(msg.len) = 0
    <3>1. data' = data
      BY <2>3 DEF CopyIn
    <3>2. used'[currentBuffer] = used[currentBuffer]
      BY <2>1, <2>2, <2>3
    <3>3. \A b \in Banks : KeptOrCleared(b)
      BY <2>2, <3>1, <3>2, Zenon DEF KeptOrCleared
    <3> QED BY <3>3, <1>BytesKept, Zenon DEF Measured
  <2>4. CASE EntrySize(msg.len) # 0
    <3>1. data'[currentBuffer] = Append(data[currentBuffer], msg.id)
      <4>1. EntrySize(msg.len) > 0
        BY <2>1, <2>4
      <4> QED BY <2>1, <4>1, Zenon DEF CopyIn
    <3>2. used'[currentBuffer] # 0
      BY <2>1, <2>2, <2>4
    <3>3. \A b \in Banks : used'[b] = 0 => data'[b] = <<>>
      BY <2>2, <3>2, Zenon DEF BytesInv
    <3>4. CASE used[currentBuffer] + EntrySize(msg.len) <= BankSize
      <4>1. ~(used'[currentBuffer] > BankSize)
        BY <2>1, <2>2, <3>4
      <4>2. \A len : EntrySize(len)' = EntrySize(len)
        BY Zenon DEF EntrySize
      <4>3. OnlyDelimiterOverruns'
        BY <2>2, <4>1, <4>2, Zenon DEF BytesInv, OnlyDelimiterOverruns
      <4> QED BY <3>3, <4>3, Zenon DEF BytesInv
    <3>5. CASE used[currentBuffer] = 0
      <4>1. used'[currentBuffer] = EntrySize(msg.len)
        BY <2>1, <2>2, <3>5
      <4>2. Len(data'[currentBuffer]) = 1
        <5>1. data[currentBuffer] = <<>>
          BY <2>1, <3>5, Zenon DEF BytesInv
        <5>2. data'[currentBuffer] = <<msg.id>>
          BY <3>1, <5>1
        <5> QED BY <5>2
      <4>3. EntrySize(msg.len) <= BankSize + Delim
        <5>1. /\ BankSize \in Nat /\ MaxPrefix \in Nat /\ Delim \in Nat
              /\ Header \in Nat /\ Footer \in Nat /\ Header + Footer <= MaxPrefix
              /\ msg.len \in Nat /\ msg.len + MaxPrefix <= BankSize
          BY ConstantsAssumption, Zenon
        <5>2. EntrySize(msg.len) <= Header + msg.len + Footer + Delim
          BY <5>1 DEF EntrySize
        <5> QED BY <2>1, <5>1, <5>2
      <4>4. \A len : EntrySize(len)' = EntrySize(len)
        BY Zenon DEF EntrySize
      <4>5. OnlyDelimiterOverruns'
        BY <2>2, <4>1, <4>2, <4>3, <4>4, Zenon DEF BytesInv, OnlyDelimiterOverruns
      <4> QED BY <3>3, <4>5, Zenon DEF BytesInv
    <3> QED BY <2>4, <3>4, <3>5, Zenon
  <2> QED BY <2>3, <2>4, Zenon
<1> SUFFICES ASSUME IndInv, IndInv', BytesInv, [Next]_vars PROVE BytesInv'
  BY Zenon
<1>0. /\ BanksTyped /\ OtherTyped /\ BankConservation /\ Control /\ BankSize \in Nat
      /\ Logger \in Threads /\ Logger \notin Flushers /\ Flushers \subseteq Threads
      /\ pc \in [Threads -> LoggerPcs \cup UserPcs] /\ used \in [Banks -> Nat]
      /\ currentBuffer \in Banks
  BY IndInvParts, ConstantsAssumption, Zenon DEF Threads, BanksTyped, OtherTyped
<1>b. used' \in [Banks -> Nat]
  BY Zenon DEF IndInv, TypeOK
<1>a. used' = used /\ data' = data => \A b \in Banks : KeptOrCleared(b)
  BY Zenon DEF KeptOrCleared
<1>1. CASE UNCHANGED vars
  BY <1>1, <1>a, <1>BytesKept, Zenon DEF vars, places, bytes
<1>2. CASE \E len \in Lens : NewLog(len)
  <2> SUFFICES ASSUME NEW len \in Lens, NewLog(len) PROVE BytesInv'
    BY <1>2, Zenon
  <2>1. /\ used' = used /\ data' = data /\ currentBuffer' = currentBuffer
        /\ pc[Logger] = "loop" /\ \A b \in Banks : KeptOrCleared(b)
    BY <1>a, Zenon DEF NewLog, places, bytes
  <2>2. CASE disabled
    BY <2>1, <2>2, <1>BytesKept, Zenon DEF NewLog, Measured
  <2>3. CASE ~disabled /\ Fits(currentBuffer, len)
    <3>1. pc'[Logger] = "isEmpty" /\ msg'.len = len
      BY <1>0, <2>3 DEF NewLog
    <3>2. EntrySize(len) = 0 \/ used[currentBuffer] + EntrySize(len) <= BankSize
      BY <1>0, <2>3, <1>FitsBytes, Zenon
    <3>3. EntrySize(msg.len)' = EntrySize(len)
      BY <3>1, Zenon DEF EntrySize
    <3>4. OnlyDelimiterOverruns' /\ \A b \in Banks : used'[b] = 0 => data'[b] = <<>>
      BY <1>0, <2>1, <1>StillFit, Zenon
    <3> QED BY <2>1, <3>1, <3>2, <3>3, <3>4, Zenon DEF BytesInv
  <2>4. CASE ~disabled /\ ~Fits(currentBuffer, len)
    <3>1. pc'[Logger] = "rotate"
      BY <1>0, <2>4, Zenon DEF NewLog
    <3> QED BY <2>1, <3>1, <1>BytesKept, Zenon DEF Measured
  <2> QED BY <2>2, <2>3, <2>4, Zenon
<1>3. CASE WriteStep
  <2>1. CASE CheckEmpty
    <3>1. /\ used' = used /\ data' = data /\ currentBuffer' = currentBuffer /\ msg' = msg
          /\ pc[Logger] = "isEmpty" /\ pc'[Logger] = "copyIn"
      BY <1>0, <2>1, Zenon DEF CheckEmpty, places, bytes
    <3>2. OnlyDelimiterOverruns' /\ \A b \in Banks : used'[b] = 0 => data'[b] = <<>>
      BY <1>0, <1>a, <3>1, <1>StillFit, Zenon
    <3>3. EntrySize(msg.len)' = EntrySize(msg.len)
      BY <3>1, Zenon DEF EntrySize
    <3> QED BY <3>1, <3>2, <3>3, Zenon DEF BytesInv
  <2>2. CASE WriteCopyIn
    <3>1. CopyIn(currentBuffer) /\ pc[Logger] = "copyIn" /\ pc'[Logger] = "loop"
      BY <1>0, <2>2, Zenon DEF WriteCopyIn
    <3>2. msg.len \in Lens
      BY <1>0, <3>1, Zenon DEF Control, InWrite
    <3> QED BY <3>1, <3>2, <1>BytesCopied, Zenon DEF BytesInv
  <2>3. CASE WritePost
    <3>1. CopyIn(currentBuffer) /\ pc[Logger] = "post" /\ pc'[Logger] = "loop"
      BY <1>0, <2>3, Zenon DEF WritePost
    <3>2. used[currentBuffer] = 0 /\ msg.len \in Lens
      BY <1>0, <3>1, Zenon DEF BytesInv, Control, InWrite
    <3> QED BY <3>1, <3>2, <1>BytesCopied, Zenon
  <2>4. CASE WriteRotate
    <3>1. Rotate
      BY <2>4, Zenon DEF WriteRotate
    <3>2. \A b \in Banks : KeptOrCleared(b)
      BY <3>1, <1>RotateBytes, Zenon
    <3>3. CASE Rotated
      <4>1. used'[currentBuffer'] = 0 /\ pc'[Logger] = "post"
        BY <1>0, <2>4, <3>1, <3>3, <1>RotateBytes, Zenon DEF WriteRotate
      <4>2. OnlyDelimiterOverruns' /\ \A b \in Banks : used'[b] = 0 => data'[b] = <<>>
        BY <1>0, <3>2, <1>StillFit, Zenon
      <4> QED BY <4>1, <4>2, Zenon DEF BytesInv
    <3>4. CASE ~Rotated
      BY <1>0, <2>4, <3>2, <3>4, <1>BytesKept, Zenon DEF WriteRotate, Measured
    <3> QED BY <3>3, <3>4, Zenon
  <2>5. CASE WritePostFull
    BY <1>0, <1>a, <2>5, <1>BytesKept, Zenon DEF WritePostFull, Measured, bytes
  <2> QED BY <1>3, <2>1, <2>2, <2>3, <2>4, <2>5, Zenon DEF WriteStep
<1>4. CASE FlushTimer \/ ShutdownCmd
  <2>1. Rotate /\ pc'[Logger] \in {"drain", "drainSync"}
    BY <1>0, <1>4, Zenon DEF FlushTimer, ShutdownCmd
  <2>2. \A b \in Banks : KeptOrCleared(b)
    BY <2>1, <1>RotateBytes, Zenon
  <2> QED BY <2>1, <2>2, <1>BytesKept, Zenon DEF Measured
<1>5. CASE \E t \in Flushers : UserFlush(t)
  <2> SUFFICES ASSUME NEW t \in Flushers, UserFlush(t) PROVE BytesInv'
    BY <1>5, Zenon
  <2>1. Rotate /\ pc'[Logger] = pc[Logger] /\ msg' = msg
    BY <1>0, Zenon DEF UserFlush
  <2>2. \A b \in Banks : KeptOrCleared(b)
    BY <2>1, <1>RotateBytes, Zenon
  <2>3. CASE currentBuffer' = currentBuffer
    BY <2>1, <2>2, <2>3, <1>BytesKept, Zenon
  <2>4. CASE used'[currentBuffer'] = 0
    <3>1. OnlyDelimiterOverruns' /\ \A b \in Banks : used'[b] = 0 => data'[b] = <<>>
      BY <1>0, <2>2, <1>StillFit, Zenon
    <3>2. EntrySize(msg.len) \in Nat /\ EntrySize(msg.len)' = EntrySize(msg.len)
      <4>1. EntrySize(msg.len)' = EntrySize(msg.len)
        BY <2>1, Zenon DEF EntrySize
      <4> QED BY <4>1, EntrySizeNat, Zenon DEF IndInv, TypeOK
    <3>3. pc'[Logger] \in {"isEmpty", "copyIn"} =>
            EntrySize(msg'.len) = 0 \/ used'[currentBuffer'] + EntrySize(msg'.len) <= BankSize
      <4>1. used[currentBuffer] + EntrySize(msg.len) <= BankSize => 0 + EntrySize(msg.len) <= BankSize
        BY <1>0, <3>2
      <4> QED BY <2>1, <2>4, <3>2, <4>1, Zenon DEF BytesInv
    <3> QED BY <2>4, <3>1, <3>3, Zenon DEF BytesInv
  <2> QED BY <2>1, <2>3, <2>4, <1>RotateBytes, Zenon
<1>6. CASE RotateCmd \/ DrainSync \/ FlushSyncTty
  <2>1. used' = used /\ data' = data /\ pc'[Logger] \notin Measured
    BY <1>0, <1>6, Zenon
    DEF RotateCmd, DrainSync, TakeWriteOut, FlushSyncTty, Resting, bytes, Measured
  <2> QED BY <1>a, <2>1, <1>BytesKept, Zenon
<1>7. CASE CallCallback \/ SetCallback \/ \E v \in BOOLEAN : DisableWrites(v)
  <2>1. /\ used' = used /\ data' = data /\ currentBuffer' = currentBuffer
        /\ pc' = pc /\ msg' = msg
    BY <1>7, Zenon DEF CallCallback, SetCallback, DisableWrites, places, bytes
  <2> QED BY <1>a, <2>1, <1>BytesKept, Zenon
<1>8. CASE \E b \in user : Cleanup(b)
  <2> SUFFICES ASSUME NEW b \in user, Cleanup(b) PROVE BytesInv'
    BY <1>8, Zenon
  <2>1. currentBuffer' = currentBuffer /\ pc' = pc /\ msg' = msg /\ b \in Banks
    BY <1>0, Zenon DEF Cleanup, BanksTyped
  <2>2. Recycle(b) \/ (used' = used /\ data' = data)
    BY Zenon DEF Cleanup, bytes
  <2>3. \A c \in Banks : KeptOrCleared(c)
    BY <1>0, <1>a, <2>1, <2>2, <1>RecycleBytes, Zenon
  <2> QED BY <2>1, <2>3, <1>BytesKept, Zenon
<1>9. CASE SomeWriteCb
  <2> SUFFICES ASSUME NEW i \in 1 .. Len(writing), NEW ok \in BOOLEAN, WriteCb(i, ok)
               PROVE  BytesInv'
    BY <1>9, Zenon DEF SomeWriteCb
  <2>1. /\ currentBuffer' = currentBuffer /\ pc' = pc /\ msg' = msg
        /\ ReturnBuffer(writing[i], FALSE, FALSE)
    BY Zenon DEF WriteCb
  <2>3. writing[i] \in Banks
    BY <1>0 DEF BanksTyped
  <2>2. \A c \in Banks : KeptOrCleared(c)
    BY <1>0, <2>1, <2>3, <1>RecycleBytes, Zenon
  <2> QED BY <2>1, <2>2, <1>BytesKept, Zenon
<1>10. CASE FlushSync
  <2>1. /\ pc'[Logger] = "drainSync" /\ hold[Logger] \in Banks
        /\ ReturnBuffer(hold[Logger], TRUE, ~IsDefault)
    BY <1>0, <1>10, Zenon DEF FlushSync, Control, CarriesBank, OtherTyped
  <2>3. (~IsDefault) \in BOOLEAN
    BY ConstantsAssumption, Zenon
  <2>2. \A c \in Banks : KeptOrCleared(c)
    BY <1>0, <2>1, <2>3, <1>RecycleBytes, Zenon
  <2> QED BY <2>1, <2>2, <1>BytesKept, Zenon DEF Measured
<1>11. CASE \E t \in Threads : FlushStep(t)
  <2> SUFFICES ASSUME NEW t \in Threads, FlushStep(t) PROVE BytesInv'
    BY <1>11, Zenon
  <2>1. /\ currentBuffer' = currentBuffer /\ msg' = msg
        /\ pc'[Logger] = pc[Logger] \/ pc'[Logger] \notin Measured
    BY <1>0, Zenon
    DEF FlushStep, Drain, TakeWriteOut, Flush, FlushCallback, Resting, Measured
  <2>2. \A c \in Banks : KeptOrCleared(c)
    <3>1. CASE Drain(t) \/ Flush(t)
      BY <1>a, <3>1, Zenon DEF Drain, TakeWriteOut, Flush, bytes
    <3>2. CASE FlushCallback(t)
      <4>1. hold[t] \in Banks /\ ReturnBuffer(hold[t], FALSE, FALSE)
        BY <1>0, <3>2, Zenon DEF FlushCallback, Control, CarriesBank, OtherTyped
      <4> QED BY <1>0, <4>1, <1>RecycleBytes, Zenon
    <3> QED BY <3>1, <3>2, Zenon DEF FlushStep
  <2> QED BY <2>1, <2>2, <1>BytesKept, Zenon
<1> QED BY <1>1, <1>2, <1>3, <1>4, <1>5, <1>6, <1>7, <1>8, <1>9, <1>10, <1>11, Zenon
    DEF Next, SyncStep

(* copyIn() writes past the end of a bank by no more than the delimiter of   *)
(* one message that fills a fresh bank, also when GreaseLib_flush() swaps    *)
(* the current bank between remain() and copyIn().                           *)
THEOREM BytesStayInBank == Spec => []OnlyDelimiterOverruns
<1>1. Init => BytesInv
  BY ConstantsAssumption DEF Init, BytesInv, OnlyDelimiterOverruns, Threads
<1>2. IndInv /\ IndInv' /\ BytesInv /\ [Next]_vars => BytesInv'
  BY BytesStep, Zenon
<1>3. BytesInv => OnlyDelimiterOverruns
  BY Zenon DEF BytesInv
<1> QED BY <1>1, <1>2, <1>3, InductiveInvariant, PTL DEF Spec

================================================================================
