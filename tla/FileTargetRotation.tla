-------------------------- MODULE FileTargetRotation --------------------------
(***************************************************************************)
(* Proofs about the rotations of FileTarget: no rename replaces a file,    *)
(* and a target that is quiet has its current file within the limit.       *)
(***************************************************************************)
EXTENDS FileTargetProofs

-----------------------------------------------------------------------------
(* Renames: where a rotation has its files. *)

(* The rotation has a limit on the number of files, and no call failed. *)
Limit == opts.asked.max_files
Limited == Limit \in 1 .. MaxRotated - 1 /\ ~failed

(* Where a start and a rotation can be; without rotation there is one file. *)
PlaceInv ==
  /\ mode = "down" => rotatedFiles = <<>>
  /\ mode \in {"down", "open"} => starting
  /\ mode \in {"idle", "reopen"} => ~starting
  /\ mode = "unready" => failed
  /\ ~failed /\ mode \in {"idle", "rotate"} /\ ~starting => 0 \in DOMAIN disk
  /\ ~opts.enabled => /\ DOMAIN disk \subseteq {0} /\ rotatedFiles = <<>>
                      /\ mode \notin {"rotate", "reopen", "stuck", "aborted"}
  /\ \A i \in 1 .. Len(rotatedFiles) : rotatedFiles[i] # 0
  /\ \A j \in 1 .. Len(tempFiles) : tempFiles[j] # 0

(* A list that check_files() made has file n at place n from its end. Where  *)
(* there was no current file to rename, the rotation at the start leaves all *)
(* one place too high; later ones do not.                                    *)
Slack == IF starting THEN 0 ELSE 1
NearInv ==
  Limited =>
    /\ DOMAIN disk \subseteq 0 .. Limit + 1
    /\ mode = "rotate" =>
         /\ tempFiles # <<>> => Len(rotatedFiles) + 2 <= Limit
         /\ \A i \in 1 .. Len(rotatedFiles) :
              rotatedFiles[i] <= Len(rotatedFiles) + 1 - i + Slack
         /\ \A j \in 1 .. Len(tempFiles) :
              tempFiles[j] <= Len(tempFiles) - j + Len(rotatedFiles) + 2 + Slack
    /\ mode \in {"open", "idle", "reopen"} =>
         \A i \in 1 .. Len(rotatedFiles) : rotatedFiles[i] <= Len(rotatedFiles) + 2 - i

(* Unless a rotation was interrupted, the files have the numbers 1 to r,     *)
(* those not renamed yet, and r + 2 to r + k + 1, those that were.           *)
Numbers(D, r, k) ==
  \A n \in Nat \ {0} : n \in D <=> n <= r \/ (r + 2 <= n /\ n <= r + k + 1)
ExactLists ==
  /\ \A i \in 1 .. Len(rotatedFiles) : rotatedFiles[i] = Len(rotatedFiles) + 1 - i
  /\ \A j \in 1 .. Len(tempFiles) :
       tempFiles[j] = Len(tempFiles) - j + Len(rotatedFiles) + 2
ExactInv ==
  Limited /\ ~interrupted =>
    /\ overwritten = {} /\ mode \notin {"stuck", "aborted"}
    /\ mode \in {"open", "idle", "reopen", "rotate"} =>
         /\ ExactLists /\ Numbers(DOMAIN disk, Len(rotatedFiles), Len(tempFiles))
         /\ Len(rotatedFiles) <= Limit
         /\ tempFiles # <<>> => Len(rotatedFiles) + Len(tempFiles) + 1 <= Limit
    /\ mode = "down" => \E l \in 0 .. Limit : Numbers(DOMAIN disk, l, 0)
    /\ mode \in {"down", "rotate"} => 0 \in DOMAIN disk \/ DOMAIN disk = {}

(* A thread is in flush() only while the target is in use, and the logger    *)
(* thread only outside rotations.                                            *)
BusyInv ==
  /\ pc[Logger] # "idle" => mode = "idle"
  /\ starting => \A t \in Threads : pc[t] = "idle"

RenameInv == PlaceInv /\ NearInv /\ ExactInv

-----------------------------------------------------------------------------
(* Before the first start there is no file. *)
LEMMA RenameInit == Init => RenameInv
<1> SUFFICES ASSUME Init PROVE RenameInv
  BY Zenon
<1>1. /\ mode = "down" /\ starting /\ rotatedFiles = <<>> /\ tempFiles = <<>> /\ DOMAIN disk = {}
      /\ overwritten = {}
  BY Zenon DEF Init
<1>2. PlaceInv
  BY <1>1 DEF PlaceInv
<1>3. NearInv
  BY <1>1, Zenon DEF NearInv
<1>4. ExactInv
  <2> SUFFICES ASSUME Limited PROVE \E l \in 0 .. Limit : Numbers(DOMAIN disk, l, 0)
    BY <1>1, Zenon DEF ExactInv
  <2>1. Limit \in Nat /\ 0 \in 0 .. Limit
    BY ConstantsAssumption DEF Limited
  <2>2. Numbers(DOMAIN disk, 0, 0)
    BY <1>1 DEF Numbers
  <2> QED BY <2>1, <2>2, Zenon
<1> QED BY <1>2, <1>3, <1>4, Zenon DEF RenameInv

(* Writes, and all that a flush does, change no name. *)
LEMMA RenameQuiet ==
  ASSUME RenameInv, DOMAIN disk' = DOMAIN disk,
         UNCHANGED <<opts, rotatedFiles, tempFiles, mode, starting, failed, overwritten, interrupted>>
  PROVE  RenameInv'
<1>1. PlaceInv'
  BY Zenon DEF RenameInv, PlaceInv
<1>2. NearInv'
  BY Zenon DEF RenameInv, NearInv, Limited, Limit, Slack
<1>3. ExactInv'
  BY Zenon DEF RenameInv, ExactInv, Limited, Limit, ExactLists, Numbers
<1> QED BY <1>1, <1>2, <1>3, Zenon DEF RenameInv

(* A failure ends what is promised. *)
LEMMA RenameFailed ==
  ASSUME failed', PlaceInv'
  PROVE  RenameInv'
BY Zenon DEF RenameInv, NearInv, ExactInv, Limited

(* check_and_maybe_rotate() begins a rotation with all files in place. *)
LEMMA CloseKeeps ==
  ASSUME FileInv, RenameInv, mode = "idle", NEW size, Check(size), DOMAIN disk' = DOMAIN disk,
         UNCHANGED <<opts, rotatedFiles, tempFiles, starting, failed, overwritten, interrupted>>
  PROVE  RenameInv'
<1>1. CASE UNCHANGED mode
  BY <1>1, RenameQuiet, Zenon
<1>2. CASE mode' = "rotate" /\ opts.enabled
  <2>1. PlaceInv'
    BY <1>2, Zenon DEF RenameInv, PlaceInv
  <2>2. tempFiles = <<>> /\ ~starting /\ Len(tempFiles) = 0
    BY Zenon DEF RenameInv, PlaceInv, FileInv, ListTypes
  <2>3. NearInv'
    <3> SUFFICES ASSUME Limited, DOMAIN disk \subseteq 0 .. Limit + 1,
                        \A i \in 1 .. Len(rotatedFiles) : rotatedFiles[i] <= Len(rotatedFiles) + 2 - i
                 PROVE  \A i \in 1 .. Len(rotatedFiles) :
                          rotatedFiles[i] <= Len(rotatedFiles) + 1 - i + 1
      BY <1>2, <2>2 DEF RenameInv, NearInv, Limited, Limit, Slack
    <3>1. rotatedFiles \in Seq(Nat)
      BY Zenon DEF FileInv, ListTypes
    <3> QED BY <3>1
  <2>4. ExactInv'
    <3>1. ~failed => 0 \in DOMAIN disk
      BY <2>2, Zenon DEF RenameInv, PlaceInv
    <3> QED BY <1>2, <3>1, Zenon DEF RenameInv, ExactInv, Limited, Limit, ExactLists, Numbers
  <2> QED BY <2>1, <2>3, <2>4, Zenon DEF RenameInv
<1> QED BY <1>1, <1>2, CheckDoes, Zenon

(* Opening a file makes it if it is missing. *)
LEMMA OpenKeeps ==
  ASSUME FileInv, RenameInv, mode \in {"open", "reopen"}, mode' = "idle", starting' = FALSE,
         disk' = Created,
         UNCHANGED <<opts, rotatedFiles, tempFiles, failed, overwritten, interrupted>>
  PROVE  RenameInv'
<1>1. DOMAIN disk' = DOMAIN disk \cup {0}
  BY Zenon DEF Created
<1>2. PlaceInv'
  BY <1>1, Zenon DEF RenameInv, PlaceInv
<1>3. NearInv'
  <2> SUFFICES ASSUME Limited PROVE 0 \in 0 .. Limit + 1
    BY <1>1, Zenon DEF RenameInv, NearInv, Limited, Limit
  <2> QED BY ConstantsAssumption DEF Limited
<1>4. ExactInv'
  <2>1. Numbers(DOMAIN disk, Len(rotatedFiles), Len(tempFiles)) => Numbers(DOMAIN disk', Len(rotatedFiles), Len(tempFiles))
    BY <1>1, Zenon DEF Numbers
  <2> QED BY <2>1, Zenon DEF RenameInv, ExactInv, Limited, Limit, ExactLists
<1> QED BY <1>2, <1>3, <1>4, Zenon DEF RenameInv

(* The process ends; unless files were half renamed, their numbers have no gap. *)
LEMMA ExitKeeps == ASSUME FileInv, RenameInv, Exit PROVE RenameInv'
<1>1. /\ mode' = "down" /\ starting' = TRUE /\ rotatedFiles' = <<>> /\ tempFiles' = <<>>
      /\ UNCHANGED <<opts, disk, failed, overwritten>> /\ mode # "down"
      /\ interrupted' = (interrupted \/ tempFiles # <<>> \/ (0 \notin DOMAIN disk /\ DOMAIN disk # {}))
  BY Zenon DEF Exit, Exists
<1>2. PlaceInv'
  BY <1>1 DEF RenameInv, PlaceInv
<1>3. NearInv'
  BY <1>1, Zenon DEF RenameInv, NearInv, Limited, Limit
<1>4. ExactInv'
  <2> SUFFICES ASSUME Limited, ~interrupted'
               PROVE  /\ overwritten = {} /\ \E l \in 0 .. Limit : Numbers(DOMAIN disk, l, 0)
                      /\ 0 \in DOMAIN disk \/ DOMAIN disk = {}
    BY <1>1, Zenon DEF ExactInv, Limited, Limit, Numbers
  <2>1. ~interrupted /\ tempFiles = <<>> /\ (0 \in DOMAIN disk \/ DOMAIN disk = {})
    BY <1>1, Zenon DEF FileInv, HistoryTypes
  <2>2. mode \in {"open", "idle", "reopen", "rotate"} /\ overwritten = {}
    <3>1. mode \in Modes /\ mode \notin {"stuck", "aborted"} /\ mode # "unready" /\ overwritten = {}
      BY <2>1, Zenon DEF FileInv, ControlTypes, RenameInv, ExactInv, PlaceInv, Limited
    <3> QED BY <1>1, <3>1, Zenon DEF Modes
  <2>3. Numbers(DOMAIN disk, Len(rotatedFiles), Len(tempFiles)) /\ Len(rotatedFiles) <= Limit
    BY <2>1, <2>2, Zenon DEF RenameInv, ExactInv
  <2>4. Len(tempFiles) = 0 /\ Len(rotatedFiles) \in Nat
    BY <2>1 DEF FileInv, ListTypes
  <2>5. Len(rotatedFiles) \in 0 .. Limit
    BY <2>3, <2>4, ConstantsAssumption DEF Limited
  <2> QED BY <2>1, <2>2, <2>3, <2>4, <2>5, Zenon
<1> QED BY <1>2, <1>3, <1>4, Zenon DEF RenameInv

(* post_cstor(): check_files() makes the list of what it finds. *)
LEMMA StartKeeps == ASSUME FileInv, RenameInv, Start PROVE RenameInv'
<1>1. /\ mode = "down" /\ mode' \in {"rotate", "open"} /\ starting /\ rotatedFiles = <<>>
      /\ tempFiles = <<>> /\ tempFiles' = <<>>
      /\ UNCHANGED <<opts, disk, starting, failed, overwritten, interrupted>>
  BY Zenon DEF Start, RenameInv, PlaceInv, FileInv, ListTypes, history
<1>2. PICK l \in 0 .. MaxRotated - 1 : /\ Found = 1 .. l /\ Cardinality(Found) = l
                                       /\ l < MaxRotated - 1 => l + 1 \notin DOMAIN disk
  BY FoundIs, Zenon
<1>3. l \in Nat /\ \A n \in 1 .. l : n \in DOMAIN disk
  <2>1. l \in Nat
    BY ConstantsAssumption
  <2>2. ASSUME NEW n \in 1 .. l PROVE n \in DOMAIN disk
    <3>1. n \in Found /\ n \in 1 .. n
      BY <1>2, <2>1
    <3> QED BY <3>1, Zenon DEF Found, Exists
  <2> QED BY <2>1, <2>2, Zenon
<1>4. CASE ~opts.enabled
  <2>1. mode' = "open" /\ rotatedFiles' = <<>>
    BY <1>1, <1>4, Zenon DEF Start
  <2>2. PlaceInv'
    BY <1>1, <1>4, <2>1, Zenon DEF RenameInv, PlaceInv
  <2>3. NearInv'
    BY <1>1, <2>1 DEF RenameInv, NearInv, Limited, Limit
  <2>4. ExactInv'
    <3> SUFFICES ASSUME Limited, ~interrupted PROVE overwritten = {} /\ Numbers(DOMAIN disk, 0, 0) /\ 0 <= Limit
      BY <1>1, <2>1 DEF ExactInv, ExactLists, Limited, Limit, Numbers
    <3>1. Numbers(DOMAIN disk, 0, 0)
      BY <1>4 DEF RenameInv, PlaceInv, Numbers
    <3> QED BY <3>1, ConstantsAssumption DEF RenameInv, ExactInv, Limited
  <2> QED BY <2>2, <2>3, <2>4, Zenon DEF RenameInv
<1>5. CASE opts.enabled
  <2>1. rotatedFiles' = [i \in 1 .. l |-> l + 1 - i]
    BY <1>2, <1>5, Zenon DEF Start
  <2>2. /\ Len(rotatedFiles') = l /\ Len(tempFiles') = 0
        /\ \A i \in 1 .. l : rotatedFiles'[i] = l + 1 - i
    BY <1>1, <1>3, <2>1
  <2>3. PlaceInv'
    <3>1. \A i \in 1 .. l : rotatedFiles'[i] # 0
      BY <1>3, <2>2
    <3> QED BY <1>1, <1>5, <2>2, <3>1 DEF PlaceInv
  <2>4. NearInv'
    <3>1. \A i \in 1 .. l : rotatedFiles'[i] <= l + 1 - i + 0 /\ rotatedFiles'[i] <= l + 2 - i
      BY <1>3, <2>2
    <3> QED BY <1>1, <2>2, <3>1 DEF RenameInv, NearInv, Limited, Limit, Slack
  <2>5. ExactInv'
    <3> SUFFICES ASSUME Limited, ~interrupted
                 PROVE  /\ overwritten = {} /\ Numbers(DOMAIN disk, l, 0) /\ l <= Limit
                        /\ 0 \in DOMAIN disk \/ DOMAIN disk = {}
      BY <1>1, <2>2 DEF ExactInv, ExactLists, Limited, Limit, Numbers
    <3>1. /\ overwritten = {} /\ (0 \in DOMAIN disk \/ DOMAIN disk = {})
          /\ \E m \in 0 .. Limit : Numbers(DOMAIN disk, m, 0)
      BY <1>1, Zenon DEF RenameInv, ExactInv
    <3>2. PICK m \in 0 .. Limit : Numbers(DOMAIN disk, m, 0)
      BY <3>1, Zenon
    <3>3. Limit \in Nat /\ m \in Nat /\ m <= MaxRotated - 1
      BY ConstantsAssumption DEF Limited
    <3>4. m = l
      <4>1. CASE l < m
        <5>1. l + 1 \in DOMAIN disk
          BY <1>3, <3>2, <3>3, <4>1 DEF Numbers
        <5> QED BY <1>2, <1>3, <3>3, <4>1, <5>1, ConstantsAssumption
      <4>2. CASE m < l
        <5>1. m + 1 \in DOMAIN disk /\ m + 1 \in Nat \ {0}
          BY <1>3, <3>3, <4>2
        <5> QED BY <3>2, <3>3, <5>1 DEF Numbers
      <4> QED BY <1>3, <3>3, <4>1, <4>2
    <3> QED BY <3>1, <3>2, <3>4
  <2> QED BY <2>3, <2>4, <2>5, Zenon DEF RenameInv
<1> QED BY <1>4, <1>5, Zenon

(* The first of a list, and the rest. *)
LEMMA HeadAndTail ==
  ASSUME ListTypes, rotatedFiles # <<>>
  PROVE  /\ Len(rotatedFiles) \in Nat \ {0} /\ Oldest = rotatedFiles[1] /\ Oldest \in Nat
         /\ Tail(rotatedFiles) \in Seq(Nat) /\ Len(Tail(rotatedFiles)) = Len(rotatedFiles) - 1
         /\ \A i \in 1 .. Len(rotatedFiles) - 1 : Tail(rotatedFiles)[i] = rotatedFiles[i + 1]
BY DEF ListTypes, Oldest

(* The oldest file beyond the limit is unlinked, if any, before the first    *)
(* rename.                                                                   *)
LEMMA RemoveKeeps == ASSUME FileInv, RenameInv, RemoveOldest PROVE RenameInv'
<1>1. /\ mode = "rotate" /\ rotatedFiles # <<>> /\ TooMany
      /\ rotatedFiles' = Tail(rotatedFiles)
      /\ UNCHANGED <<opts, tempFiles, starting, overwritten, interrupted>>
      /\ \/ HasName(Oldest) /\ disk' = Removed(Oldest) /\ mode' = mode /\ failed' = failed
         \/ failed' = TRUE /\ mode' = mode /\ disk' = disk
         \/ ~HasName(Oldest) /\ mode' = "aborted" /\ disk' = disk /\ failed' = failed
  BY Zenon DEF RemoveOldest
<1>2. PICK r \in Nat \ {0} : r = Len(rotatedFiles)
  BY <1>1, HeadAndTail, Zenon DEF FileInv
<1>3. /\ Len(rotatedFiles') = r - 1 /\ Oldest = rotatedFiles[1] /\ Oldest \in Nat /\ Oldest # 0
      /\ \A i \in 1 .. r - 1 : /\ rotatedFiles'[i] = rotatedFiles[i + 1]
                               /\ i + 1 \in 1 .. r /\ rotatedFiles[i + 1] \in Nat
  <2>1. rotatedFiles \in Seq(Nat)
    BY Zenon DEF FileInv, ListTypes
  <2>2. 1 \in 1 .. r /\ \A i \in 1 .. r - 1 : i + 1 \in 1 .. r
    OBVIOUS
  <2>3. Oldest # 0
    BY <1>1, <1>2, <2>2, HeadAndTail, Zenon DEF FileInv, RenameInv, PlaceInv
  <2> QED BY <1>1, <1>2, <2>1, <2>2, <2>3, HeadAndTail DEF FileInv
<1>4. DOMAIN disk' \subseteq DOMAIN disk /\ (0 \in DOMAIN disk => 0 \in DOMAIN disk')
  BY <1>1, <1>3, Zenon DEF Removed, Restrict
<1>5. PlaceInv'
  <2>1. \A i \in 1 .. Len(rotatedFiles') : rotatedFiles'[i] # 0
    BY <1>2, <1>3 DEF RenameInv, PlaceInv
  <2> QED BY <1>1, <1>4, <2>1 DEF RenameInv, PlaceInv
<1>6. Limited => tempFiles = <<>>
  BY <1>1, <1>2, ConstantsAssumption DEF TooMany, Limited, Limit, RenameInv, NearInv
<1>7. NearInv'
  <2> SUFFICES ASSUME Limited' PROVE NearInv'
    BY Zenon DEF NearInv
  <2>1. Limited /\ Limit' = Limit /\ Slack' = Slack /\ Slack \in {0, 1} /\ tempFiles = <<>>
    BY <1>1, <1>6 DEF Limited, Limit, Slack, FileInv, HistoryTypes
  <2>2. DOMAIN disk' \subseteq 0 .. Limit' + 1
    BY <1>4, <2>1, Zenon DEF RenameInv, NearInv
  <2>3. \A i \in 1 .. r - 1 : rotatedFiles'[i] <= (r - 1) + 1 - i + Slack'
    <3> TAKE i \in 1 .. r - 1
    <3>1. rotatedFiles[i + 1] <= r + 1 - (i + 1) + Slack
      BY <1>1, <1>2, <1>3, <2>1, Zenon DEF RenameInv, NearInv
    <3> QED BY <1>3, <2>1, <3>1
  <2> QED BY <1>1, <1>3, <2>1, <2>2, <2>3 DEF NearInv
<1>8. ExactInv'
  <2> SUFFICES ASSUME Limited', ~interrupted' PROVE ExactInv'
    BY Zenon DEF ExactInv
  <2>1. Limited /\ Limit' = Limit /\ ~interrupted /\ Limit \in Nat /\ Limit < MaxRotated
    BY <1>1, ConstantsAssumption DEF Limited, Limit, FileInv, HistoryTypes
  <2>2. /\ overwritten = {} /\ ExactLists /\ Numbers(DOMAIN disk, r, Len(tempFiles)) /\ r <= Limit
        /\ 0 \in DOMAIN disk \/ DOMAIN disk = {}
    BY <1>1, <1>2, <2>1, Zenon DEF RenameInv, ExactInv
  <2>3. tempFiles = <<>> /\ Len(tempFiles) = 0
    BY <1>6, <2>1, Zenon
  <2>4. Oldest = r /\ HasName(r)
    <3>1. rotatedFiles[1] = r + 1 - 1
      BY <1>2, <2>2 DEF ExactLists
    <3> QED BY <1>3, <2>1, <2>2, <3>1, ConstantsAssumption DEF HasName
  <2>5. ~failed' /\ disk' = Removed(r) /\ mode' = mode
    BY <1>1, <2>4, Zenon DEF Limited
  <2>6. DOMAIN disk' = DOMAIN disk \ {r}
    BY <2>5, Zenon DEF Removed, Restrict
  <2>7. Numbers(DOMAIN disk', r - 1, 0)
    BY <2>2, <2>3, <2>6 DEF Numbers
  <2>8. \A i \in 1 .. r - 1 : rotatedFiles'[i] = (r - 1) + 1 - i
    <3> TAKE i \in 1 .. r - 1
    <3>1. rotatedFiles[i + 1] = r + 1 - (i + 1)
      BY <1>2, <1>3, <2>2, Zenon DEF ExactLists
    <3> QED BY <1>3, <3>1
  <2>9. ExactLists'
    BY <1>1, <1>3, <2>3, <2>8 DEF ExactLists
  <2>10. 0 \in DOMAIN disk' \/ DOMAIN disk' = {}
    BY <1>4, <2>2, Zenon
  <2>11. r - 1 <= Limit
    BY <2>1, <2>2
  <2> QED BY <1>1, <1>3, <2>1, <2>2, <2>3, <2>5, <2>7, <2>9, <2>10, <2>11, Zenon DEF ExactInv
<1> QED BY <1>5, <1>7, <1>8, Zenon DEF RenameInv

(* Each file gets the next number, the oldest first. *)
LEMMA RenameOldestKeeps == ASSUME FileInv, RenameInv, RenameOldest PROVE RenameInv'
<1>1. /\ mode = "rotate" /\ mode' = mode /\ rotatedFiles # <<>> /\ ~TooMany
      /\ rotatedFiles' = Tail(rotatedFiles) /\ tempFiles' = Append(tempFiles, Oldest + 1)
      /\ UNCHANGED <<opts, starting, interrupted>>
      /\ RenameDone(Oldest, Oldest + 1) \/ RenameRefused(Oldest, Oldest + 1)
  BY Zenon DEF RenameOldest, control
<1>2. PICK r \in Nat \ {0} : r = Len(rotatedFiles)
  BY <1>1, HeadAndTail, Zenon DEF FileInv
<1>3. PICK k \in Nat : k = Len(tempFiles)
  BY DEF FileInv, ListTypes
<1>4. /\ Len(rotatedFiles') = r - 1 /\ Oldest = rotatedFiles[1] /\ Oldest \in Nat /\ Oldest # 0
      /\ \A i \in 1 .. r - 1 : /\ rotatedFiles'[i] = rotatedFiles[i + 1]
                               /\ i + 1 \in 1 .. r /\ rotatedFiles[i + 1] \in Nat
  <2>1. rotatedFiles \in Seq(Nat)
    BY Zenon DEF FileInv, ListTypes
  <2>2. 1 \in 1 .. r /\ \A i \in 1 .. r - 1 : i + 1 \in 1 .. r
    OBVIOUS
  <2>3. Oldest # 0
    BY <1>1, <1>2, <2>2, HeadAndTail, Zenon DEF FileInv, RenameInv, PlaceInv
  <2> QED BY <1>1, <1>2, <2>1, <2>2, <2>3, HeadAndTail DEF FileInv
<1>5. /\ Len(tempFiles') = k + 1 /\ tempFiles'[k + 1] = Oldest + 1 /\ tempFiles' # <<>>
      /\ \A j \in 1 .. k : tempFiles'[j] = tempFiles[j] /\ tempFiles[j] \in Nat
  <2>1. tempFiles \in Seq(Nat)
    BY Zenon DEF FileInv, ListTypes
  <2>2. PICK x \in Nat : x = Oldest + 1
    BY <1>4
  <2>3. tempFiles' = Append(tempFiles, x)
    BY <1>1, <2>2, Zenon
  <2>4. Len(tempFiles') = k + 1 /\ tempFiles'[k + 1] = x
    BY <1>3, <2>1, <2>3
  <2>5. \A j \in 1 .. k : tempFiles'[j] = tempFiles[j] /\ tempFiles[j] \in Nat
    BY <1>3, <2>1, <2>3
  <2>6. tempFiles' # <<>>
    BY <1>3, <2>4
  <2> QED BY <2>2, <2>4, <2>5, <2>6, Zenon
<1>6. /\ DOMAIN disk' \subseteq DOMAIN disk \cup {Oldest + 1}
      /\ 0 \in DOMAIN disk => 0 \in DOMAIN disk'
      /\ failed => failed'
  <2>1. PICK a : a = Oldest
    BY Zenon
  <2>2. CASE RenameDone(Oldest, Oldest + 1)
    <3>1. DOMAIN disk' = (DOMAIN disk \ {a}) \cup {a + 1} /\ failed' = failed
      BY <2>1, <2>2, Zenon DEF RenameDone, Renamed
    <3> QED BY <1>4, <2>1, <3>1, Zenon
  <2>3. CASE RenameRefused(Oldest, Oldest + 1)
    BY <2>3, Zenon DEF RenameRefused
  <2> QED BY <1>1, <2>2, <2>3, Zenon
<1>7. PlaceInv'
  <2>1. \A i \in 1 .. Len(rotatedFiles') : rotatedFiles'[i] # 0
    BY <1>2, <1>4 DEF RenameInv, PlaceInv
  <2>2. opts.enabled
    BY <1>1, Zenon DEF RenameInv, PlaceInv
  <2>3. \A j \in 1 .. k + 1 : tempFiles'[j] # 0
    <3> TAKE j \in 1 .. k + 1
    <3>1. CASE j = k + 1
      BY <1>4, <1>5, <3>1
    <3>2. CASE j # k + 1
      <4>1. j \in 1 .. k
        BY <3>2
      <4> QED BY <1>3, <1>5, <4>1, Zenon DEF RenameInv, PlaceInv
    <3> QED BY <3>1, <3>2, Zenon
  <2> QED BY <1>1, <1>5, <1>6, <2>1, <2>2, <2>3, Zenon DEF RenameInv, PlaceInv
<1>8. NearInv'
  <2> SUFFICES ASSUME Limited' PROVE NearInv'
    BY Zenon DEF NearInv
  <2>1. /\ Limited /\ Limit' = Limit /\ Slack' = Slack /\ Slack \in {0, 1} /\ Limit \in Nat
        /\ r + 1 <= Limit
    <3>1. Limited /\ Limit' = Limit /\ Slack' = Slack /\ Slack \in {0, 1}
      BY <1>1, <1>6, Zenon DEF Limited, Limit, Slack
    <3>2. Limit \in Nat \ {0}
      BY <3>1, ConstantsAssumption DEF Limited
    <3> QED BY <1>1, <1>2, <3>1, <3>2 DEF TooMany, Limit
  <2>2. Oldest <= r + Slack
    <3>1. 1 \in 1 .. r /\ r + 1 - 1 + Slack = r + Slack
      BY <2>1
    <3> QED BY <1>1, <1>2, <1>4, <2>1, <3>1, Zenon DEF RenameInv, NearInv
  <2>3. DOMAIN disk' \subseteq 0 .. Limit' + 1
    <3>1. Oldest + 1 \in 0 .. Limit + 1
      BY <1>4, <2>1, <2>2
    <3> QED BY <1>6, <2>1, <3>1, Zenon DEF RenameInv, NearInv
  <2>4. \A i \in 1 .. r - 1 : rotatedFiles'[i] <= (r - 1) + 1 - i + Slack'
    <3> TAKE i \in 1 .. r - 1
    <3>1. rotatedFiles[i + 1] <= r + 1 - (i + 1) + Slack
      BY <1>1, <1>2, <1>4, <2>1, Zenon DEF RenameInv, NearInv
    <3> QED BY <1>4, <2>1, <3>1
  <2>5. \A j \in 1 .. k + 1 : tempFiles'[j] <= (k + 1) - j + (r - 1) + 2 + Slack'
    <3> TAKE j \in 1 .. k + 1
    <3>1. CASE j = k + 1
      BY <1>4, <1>5, <2>1, <2>2, <3>1
    <3>2. CASE j # k + 1
      <4>1. j \in 1 .. k
        BY <3>2
      <4>2. tempFiles[j] <= k - j + r + 2 + Slack
        BY <1>1, <1>2, <1>3, <2>1, <4>1, Zenon DEF RenameInv, NearInv
      <4> QED BY <1>5, <2>1, <4>1, <4>2
    <3> QED BY <3>1, <3>2, Zenon
  <2>6. (r - 1) + 2 <= Limit'
    BY <2>1
  <2> QED BY <1>1, <1>4, <1>5, <2>1, <2>3, <2>4, <2>5, <2>6, Zenon DEF NearInv
<1>9. ExactInv'
  <2> SUFFICES ASSUME Limited', ~interrupted' PROVE ExactInv'
    BY Zenon DEF ExactInv
  <2>1. Limited /\ Limit' = Limit /\ ~interrupted /\ Limit \in Nat \ {0} /\ Limit < MaxRotated
    BY <1>1, <1>6, ConstantsAssumption DEF Limited, Limit
  <2>2. /\ overwritten = {} /\ ExactLists /\ Numbers(DOMAIN disk, r, k)
        /\ 0 \in DOMAIN disk \/ DOMAIN disk = {}
        /\ tempFiles # <<>> => r + k + 1 <= Limit
    BY <1>1, <1>2, <1>3, <2>1, Zenon DEF RenameInv, ExactInv
  <2>3. r + 1 <= Limit
    BY <1>1, <1>2, <2>1 DEF TooMany, Limit
  <2>4. Oldest = r
    <3>1. rotatedFiles[1] = r + 1 - 1
      BY <1>2, <2>2 DEF ExactLists
    <3> QED BY <1>4, <3>1
  <2>5. r \in DOMAIN disk /\ r + 1 \notin DOMAIN disk /\ HasName(r + 1)
    BY <2>1, <2>2, <2>3, ConstantsAssumption DEF Numbers, HasName
  <2>6. disk' = Renamed(r, r + 1) /\ overwritten' = {}
    BY <1>1, <2>2, <2>4, <2>5, Zenon DEF RenameDone, RenameRefused, Exists, Limited
  <2>7. DOMAIN disk' = (DOMAIN disk \ {r}) \cup {r + 1}
    BY <2>6, Zenon DEF Renamed
  <2>8. Numbers(DOMAIN disk', r - 1, k + 1)
    BY <2>2, <2>7 DEF Numbers
  <2>9. \A i \in 1 .. r - 1 : rotatedFiles'[i] = (r - 1) + 1 - i
    <3> TAKE i \in 1 .. r - 1
    <3>1. rotatedFiles[i + 1] = r + 1 - (i + 1)
      BY <1>2, <1>4, <2>2, Zenon DEF ExactLists
    <3> QED BY <1>4, <3>1
  <2>10. \A j \in 1 .. k + 1 : tempFiles'[j] = (k + 1) - j + (r - 1) + 2
    <3> TAKE j \in 1 .. k + 1
    <3>1. CASE j = k + 1
      BY <1>5, <2>4, <3>1
    <3>2. CASE j # k + 1
      <4>1. j \in 1 .. k
        BY <3>2
      <4>2. tempFiles[j] = k - j + r + 2
        BY <1>2, <1>3, <2>2, <4>1, Zenon DEF ExactLists
      <4> QED BY <1>5, <4>1, <4>2
    <3> QED BY <3>1, <3>2, Zenon
  <2>11. ExactLists'
    BY <1>4, <1>5, <2>9, <2>10, Zenon DEF ExactLists
  <2>12. r - 1 <= Limit /\ (r - 1) + (k + 1) + 1 <= Limit
    <3>1. CASE tempFiles = <<>>
      <4>1. k = 0
        BY <1>3, <3>1, Zenon
      <4> QED BY <2>1, <2>3, <4>1
    <3>2. CASE tempFiles # <<>>
      BY <2>1, <2>2, <2>3, <3>2
    <3> QED BY <3>1, <3>2, Zenon
  <2>13. 0 \in DOMAIN disk'
    BY <1>6, <2>2, <2>5, Zenon
  <2> QED BY <1>1, <1>4, <1>5, <2>1, <2>6, <2>8, <2>11, <2>12, <2>13, Zenon DEF ExactInv
<1> QED BY <1>7, <1>8, <1>9, Zenon DEF RenameInv

(* The current file becomes number 1. Without one, at a start, the list      *)
(* stays a place short.                                                      *)
LEMMA RenameCurrentKeeps == ASSUME FileInv, RenameInv, RenameCurrent PROVE RenameInv'
<1>1. /\ mode = "rotate" /\ rotatedFiles = <<>> /\ Len(rotatedFiles) = 0
      /\ UNCHANGED <<opts, starting, interrupted>>
      /\ \/ /\ RenameDone(0, 1) /\ Len(tempFiles) < MaxRotated /\ rotatedFiles' = Append(tempFiles, 1)
            /\ tempFiles' = <<>> /\ mode' = IF starting THEN "open" ELSE "reopen"
         \/ /\ RenameDone(0, 1) /\ Len(tempFiles) = MaxRotated
            /\ mode' = "stuck" /\ UNCHANGED <<rotatedFiles, tempFiles>>
         \/ /\ RenameRefused(0, 1) /\ rotatedFiles' = tempFiles
            /\ tempFiles' = <<>> /\ mode' = IF starting THEN "open" ELSE "reopen"
  BY Zenon DEF RenameCurrent
<1>2. PICK k \in Nat : k = Len(tempFiles)
  BY DEF FileInv, ListTypes
<1>3. tempFiles \in Seq(Nat) /\ starting \in BOOLEAN /\ MaxRotated \in Nat \ {0} /\ opts.enabled
  BY <1>1, ConstantsAssumption, Zenon DEF FileInv, ListTypes, ControlTypes, RenameInv, PlaceInv
<1>4. failed => failed'
  BY <1>1, Zenon DEF RenameDone, RenameRefused
<1>5. ASSUME RenameDone(0, 1), k < MaxRotated, rotatedFiles' = Append(tempFiles, 1),
             tempFiles' = <<>>, mode' = IF starting THEN "open" ELSE "reopen"
      PROVE  RenameInv'
  <2>1. /\ DOMAIN disk' = (DOMAIN disk \ {0}) \cup {1} /\ failed' = failed /\ 0 \in DOMAIN disk
        /\ overwritten' = overwritten \cup (IF 1 \in DOMAIN disk THEN disk[1].ids ELSE {})
    BY <1>5, Zenon DEF RenameDone, Renamed, Exists
  <2>2. /\ Len(rotatedFiles') = k + 1 /\ rotatedFiles'[k + 1] = 1 /\ Len(tempFiles') = 0
        /\ \A j \in 1 .. k : rotatedFiles'[j] = tempFiles[j] /\ tempFiles[j] \in Nat
    BY <1>2, <1>3, <1>5
  <2>3. PlaceInv'
    <3>1. \A j \in 1 .. k + 1 : rotatedFiles'[j] # 0
      <4> TAKE j \in 1 .. k + 1
      <4>1. CASE j = k + 1
        BY <2>2, <4>1
      <4>2. CASE j # k + 1
        <5>1. j \in 1 .. k
          BY <4>2
        <5> QED BY <1>2, <2>2, <5>1, Zenon DEF RenameInv, PlaceInv
      <4> QED BY <4>1, <4>2, Zenon
    <3> QED BY <1>1, <1>3, <1>5, <2>2, <3>1 DEF PlaceInv
  <2>4. NearInv'
    <3> SUFFICES ASSUME Limited PROVE NearInv'
      BY <1>1, <2>1, Zenon DEF NearInv, Limited, Limit
    <3>1. 1 \in 0 .. Limit + 1 /\ Limit' = Limit /\ Slack \in {0, 1}
      BY <1>1, ConstantsAssumption DEF Limited, Limit, Slack
    <3>2. DOMAIN disk' \subseteq 0 .. Limit' + 1
      BY <2>1, <3>1, Zenon DEF RenameInv, NearInv
    <3>3. \A j \in 1 .. k + 1 : rotatedFiles'[j] <= (k + 1) + 2 - j
      <4> TAKE j \in 1 .. k + 1
      <4>1. CASE j = k + 1
        BY <2>2, <4>1
      <4>2. CASE j # k + 1
        <5>1. j \in 1 .. k
          BY <4>2
        <5>2. tempFiles[j] <= k - j + 0 + 2 + Slack
          BY <1>1, <1>2, <5>1, Zenon DEF RenameInv, NearInv
        <5> QED BY <2>2, <3>1, <5>1, <5>2
      <4> QED BY <4>1, <4>2, Zenon
    <3> QED BY <1>5, <2>2, <3>2, <3>3, Zenon DEF NearInv
  <2>5. ExactInv'
    <3> SUFFICES ASSUME Limited, ~interrupted PROVE ExactInv'
      BY <1>1, <2>1, Zenon DEF ExactInv, Limited, Limit
    <3>1. /\ overwritten = {} /\ ExactLists /\ Numbers(DOMAIN disk, 0, k)
          /\ tempFiles # <<>> => 0 + k + 1 <= Limit
      BY <1>1, <1>2, Zenon DEF RenameInv, ExactInv
    <3>2. Limit \in Nat \ {0} /\ Limit' = Limit
      BY <1>1, ConstantsAssumption DEF Limited, Limit
    <3>3. 1 \notin DOMAIN disk /\ overwritten' = {}
      BY <2>1, <3>1 DEF Numbers
    <3>4. Numbers(DOMAIN disk', k + 1, 0)
      BY <2>1, <3>1 DEF Numbers
    <3>5. \A j \in 1 .. k + 1 : rotatedFiles'[j] = (k + 1) + 1 - j
      <4> TAKE j \in 1 .. k + 1
      <4>1. CASE j = k + 1
        BY <2>2, <4>1
      <4>2. CASE j # k + 1
        <5>1. j \in 1 .. k
          BY <4>2
        <5>2. tempFiles[j] = k - j + 0 + 2
          BY <1>1, <1>2, <3>1, <5>1, Zenon DEF ExactLists
        <5> QED BY <2>2, <5>1, <5>2
      <4> QED BY <4>1, <4>2, Zenon
    <3>6. ExactLists'
      BY <2>2, <3>5 DEF ExactLists
    <3>7. k + 1 <= Limit
      <4>1. CASE tempFiles = <<>>
        <5>1. k = 0
          BY <1>2, <4>1, Zenon
        <5> QED BY <3>2, <5>1
      <4>2. CASE tempFiles # <<>>
        BY <3>1, <3>2, <4>2
      <4> QED BY <4>1, <4>2, Zenon
    <3> QED BY <1>3, <1>5, <2>2, <3>2, <3>3, <3>4, <3>6, <3>7, Zenon DEF ExactInv
  <2> QED BY <2>3, <2>4, <2>5, Zenon DEF RenameInv
<1>6. ASSUME RenameDone(0, 1), k = MaxRotated, mode' = "stuck", UNCHANGED <<rotatedFiles, tempFiles>>
      PROVE  RenameInv'
  <2>1. DOMAIN disk' = (DOMAIN disk \ {0}) \cup {1} /\ failed' = failed
    BY <1>6, Zenon DEF RenameDone, Renamed
  <2>2. PlaceInv'
    BY <1>1, <1>3, <1>6, Zenon DEF RenameInv, PlaceInv
  <2>3. NearInv'
    <3> SUFFICES ASSUME Limited PROVE DOMAIN disk' \subseteq 0 .. Limit + 1
      BY <1>1, <1>6, <2>1, Zenon DEF NearInv, Limited, Limit
    <3>1. 1 \in 0 .. Limit + 1
      BY ConstantsAssumption DEF Limited
    <3> QED BY <2>1, <3>1, Zenon DEF RenameInv, NearInv
  <2>4. ExactInv'
    <3> SUFFICES ASSUME Limited, ~interrupted PROVE FALSE
      BY <1>1, <2>1, Zenon DEF ExactInv, Limited, Limit
    <3>1. tempFiles # <<>>
      BY <1>2, <1>3, <1>6, Zenon
    <3>2. 0 + k + 1 <= Limit /\ Limit \in Nat /\ Limit < MaxRotated
      BY <1>1, <1>2, <3>1, ConstantsAssumption DEF RenameInv, ExactInv, Limited
    <3> QED BY <1>3, <1>6, <3>2
  <2> QED BY <2>2, <2>3, <2>4, Zenon DEF RenameInv
<1>7. ASSUME RenameRefused(0, 1), rotatedFiles' = tempFiles,
             tempFiles' = <<>>, mode' = IF starting THEN "open" ELSE "reopen"
      PROVE  RenameInv'
  <2>1. /\ disk' = disk /\ overwritten' = overwritten
        /\ failed' = (failed \/ (0 \in DOMAIN disk /\ 1 < MaxRotated))
    BY <1>7, Zenon DEF RenameRefused, Exists, HasName
  <2>2. PlaceInv'
    BY <1>1, <1>3, <1>7, Zenon DEF RenameInv, PlaceInv
  <2>3. ASSUME Limited' PROVE Limited /\ 0 \notin DOMAIN disk /\ starting /\ Limit' = Limit /\ Limit \in Nat
    <3>1. Limited /\ Limit' = Limit /\ Limit \in Nat /\ 1 < MaxRotated
      BY <1>1, <1>4, <2>3, ConstantsAssumption DEF Limited, Limit
    <3>2. 0 \notin DOMAIN disk
      BY <2>1, <2>3, <3>1, Zenon DEF Limited
    <3> QED BY <1>1, <3>1, <3>2, Zenon DEF RenameInv, PlaceInv, Limited
  <2>4. NearInv'
    <3> SUFFICES ASSUME Limited' PROVE NearInv'
      BY Zenon DEF NearInv
    <3>1. DOMAIN disk' \subseteq 0 .. Limit' + 1
      BY <2>1, <2>3, Zenon DEF RenameInv, NearInv
    <3>2. \A j \in 1 .. k : tempFiles[j] <= k + 2 - j
      <4> TAKE j \in 1 .. k
      <4>1. tempFiles[j] <= k - j + 0 + 2 + 0
        BY <1>1, <1>2, <2>3, Zenon DEF RenameInv, NearInv, Slack
      <4>2. tempFiles[j] \in Nat
        BY <1>2, <1>3
      <4> QED BY <4>1, <4>2
    <3> QED BY <1>2, <1>7, <3>1, <3>2, Zenon DEF NearInv
  <2>5. ExactInv'
    <3> SUFFICES ASSUME Limited', ~interrupted PROVE ExactInv'
      BY <1>1, Zenon DEF ExactInv
    <3>1. /\ overwritten = {} /\ Numbers(DOMAIN disk, 0, k)
          /\ 0 \in DOMAIN disk \/ DOMAIN disk = {}
      BY <1>1, <1>2, <2>3, Zenon DEF RenameInv, ExactInv
    <3>2. DOMAIN disk = {}
      BY <2>3, <3>1, Zenon
    <3>3. k = 0
      <4>1. 2 \in Nat \ {0} /\ (k # 0 => 0 + 2 <= 2 /\ 2 <= 0 + k + 1)
        OBVIOUS
      <4> QED BY <3>1, <3>2, <4>1, Zenon DEF Numbers
    <3>4. Len(rotatedFiles') = 0 /\ Len(tempFiles') = 0 /\ tempFiles' = <<>>
      BY <1>2, <1>7, <3>3, Zenon
    <3>5. ExactLists'
      BY <3>4 DEF ExactLists
    <3>6. Numbers(DOMAIN disk', 0, 0)
      BY <2>1, <3>2 DEF Numbers
    <3>7. 0 <= Limit'
      BY <2>3
    <3> QED BY <1>3, <1>7, <2>1, <3>1, <3>4, <3>5, <3>6, <3>7, Zenon DEF ExactInv
  <2> QED BY <2>2, <2>4, <2>5, Zenon DEF RenameInv
<1> QED BY <1>1, <1>2, <1>5, <1>6, <1>7, Zenon

(* A flush begins once the target was opened, and a rotation where the       *)
(* logger thread is not in one.                                              *)
LEMMA BusyStep == FileInv /\ PlaceInv /\ BusyInv /\ [Next]_vars => BusyInv'
<1> SUFFICES ASSUME FileInv, PlaceInv, BusyInv, [Next]_vars PROVE BusyInv'
  BY Zenon
<1> USE DEF memory, control, threads, pool, history
<1>0. Logger \in Threads /\ pc \in [Threads -> {"idle", "add", "submit", "overflow", "check"}]
  BY Zenon DEF Threads, FileInv, ThreadTypes
<1>1. CASE UNCHANGED <<pc, mode, starting>>
  BY <1>1, Zenon DEF BusyInv
<1>2. CASE UNCHANGED <<pc, starting>> /\ pc[Logger] = "idle"
  BY <1>2, Zenon DEF BusyInv
<1>3. CASE Start
  BY <1>0, <1>2, <1>3, Zenon DEF Start, BusyInv, PlaceInv
<1>4. CASE OnOpen
  BY <1>4, Zenon DEF OnOpen, BusyInv
<1>5. CASE OnOpenError \/ RemoveOldest \/ RenameCurrent
  <2>1. mode \in {"open", "rotate"} /\ UNCHANGED <<pc, starting>>
    BY <1>5, Zenon DEF OnOpenError, RemoveOldest, RenameCurrent
  <2>2. pc[Logger] = "idle"
    BY <2>1, Zenon DEF BusyInv
  <2> QED BY <1>2, <2>1, <2>2, Zenon
<1>6. CASE RenameOldest
  BY <1>1, <1>6, Zenon DEF RenameOldest
<1>7. CASE Reopen
  BY <1>7, Zenon DEF Reopen, BusyInv
<1>8. ASSUME NEW t \in Threads, NEW len, FlushRead(t, len) PROVE BusyInv'
  BY <1>0, <1>8, Zenon DEF FlushRead, BusyInv
<1>9. ASSUME NEW t \in Threads, FlushAdd(t) \/ FlushSubmit(t) PROVE BusyInv'
  BY <1>0, <1>9 DEF FlushAdd, FlushSubmit, BusyInv
<1>10. ASSUME NEW w, Perform(w) PROVE BusyInv'
  BY <1>1, <1>10, Zenon DEF Perform
<1>11. ASSUME NEW w, WriteCb(w) PROVE BusyInv'
  BY <1>2, <1>11, Zenon DEF WriteCb, LoggerFree
<1>12. ASSUME NEW len, OverflowWrite(len) PROVE BusyInv'
  BY <1>0, <1>12, Zenon DEF OverflowWrite, LoggerFree, BusyInv, PlaceInv
<1>13. CASE OverflowRead \/ OverflowCheck
  <2>1. ~starting /\ mode = "idle"
    BY <1>13, Zenon DEF OverflowRead, OverflowCheck, BusyInv, PlaceInv
  <2>2. UNCHANGED starting /\ (mode' = mode \/ pc'[Logger] = "idle")
    BY <1>0, <1>13, Zenon DEF OverflowRead, OverflowCheck
  <2> QED BY <2>1, <2>2, Zenon DEF BusyInv
<1>14. CASE Shutdown
  BY <1>1, <1>14, Zenon DEF Shutdown
<1>15. ASSUME NEW len, FlushSync(len) PROVE BusyInv'
  BY <1>2, <1>15, Zenon DEF FlushSync, LoggerFree
<1>16. CASE Exit
  BY <1>0, <1>16, Zenon DEF Exit, BusyInv
<1>17. CASE UNCHANGED vars
  BY <1>1, <1>17, Zenon DEF vars
<1> QED BY <1>3, <1>4, <1>5, <1>6, <1>7, <1>8, <1>9, <1>10, <1>11, <1>12, <1>13, <1>14, <1>15,
           <1>16, <1>17, Zenon DEF Next, Rotation, Flush, Overflow

(* Every step keeps the numbers of the files as the lists say. *)
LEMMA RenameStep == FileInv /\ BusyInv /\ RenameInv /\ [Next]_vars => RenameInv'
<1> SUFFICES ASSUME FileInv, BusyInv, RenameInv, [Next]_vars PROVE RenameInv'
  BY Zenon
<1> USE DEF memory, control, threads, pool, history
<1>1. CASE UNCHANGED vars
  BY <1>1, RenameQuiet, Zenon DEF vars
<1>2. CASE OnOpen
  BY <1>2, OpenKeeps, Zenon DEF OnOpen
<1>3. CASE OnOpenError
  <2>1. PlaceInv'
    BY <1>3, Zenon DEF OnOpenError, RenameInv, PlaceInv
  <2> QED BY <1>3, <2>1, RenameFailed, Zenon DEF OnOpenError
<1>4. CASE Reopen
  <2>1. CASE disk' = Created /\ UNCHANGED failed
    <3>1. starting = FALSE
      BY <1>4, Zenon DEF Reopen, RenameInv, PlaceInv, FileInv, ControlTypes
    <3> QED BY <1>4, <2>1, <3>1, OpenKeeps, Zenon DEF Reopen
  <2>2. CASE failed' = TRUE /\ UNCHANGED disk
    <3>1. PlaceInv'
      BY <1>4, <2>2, Zenon DEF Reopen, RenameInv, PlaceInv
    <3> QED BY <2>2, <3>1, RenameFailed, Zenon
  <2> QED BY <1>4, <2>1, <2>2, Zenon DEF Reopen
<1>5. ASSUME NEW t \in Threads, Flush(t) PROVE RenameInv'
  BY <1>5, RenameQuiet, Zenon DEF Flush, FlushRead, FlushAdd, FlushSubmit
<1>6. ASSUME NEW w, Perform(w) PROVE RenameInv'
  <2>1. DOMAIN disk' = DOMAIN disk
    BY <1>6, Zenon DEF Perform, Written
  <2> QED BY <1>6, <2>1, RenameQuiet, Zenon DEF Perform
<1>7. ASSUME NEW w, WriteCb(w) PROVE RenameInv'
  BY <1>7, CloseKeeps, Zenon DEF WriteCb, LoggerFree
<1>8. CASE Overflow
  <2>1. ASSUME NEW len, OverflowWrite(len) PROVE RenameInv'
    <3>1. DOMAIN disk' = DOMAIN disk
      BY <2>1, Zenon DEF OverflowWrite, Written
    <3> QED BY <2>1, <3>1, RenameQuiet, Zenon DEF OverflowWrite
  <2>2. CASE OverflowRead
    BY <2>2, RenameQuiet, Zenon DEF OverflowRead
  <2>3. CASE OverflowCheck
    <3>1. PICK size : size = job[Logger].read + job[Logger].len
      BY Zenon
    <3>2. /\ Check(size) /\ mode = "idle"
          /\ UNCHANGED <<opts, disk, rotatedFiles, tempFiles, starting, failed, overwritten, interrupted>>
      BY <2>3, <3>1, Zenon DEF OverflowCheck, BusyInv
    <3> QED BY <3>2, CloseKeeps, Zenon
  <2> QED BY <1>8, <2>1, <2>2, <2>3, Zenon DEF Overflow
<1>9. CASE Shutdown
  BY <1>9, RenameQuiet, Zenon DEF Shutdown
<1>10. ASSUME NEW len, FlushSync(len) PROVE RenameInv'
  <2>1. DOMAIN disk' = DOMAIN disk
    BY <1>10, Zenon DEF FlushSync, Written
  <2> QED BY <1>10, <2>1, CloseKeeps, Zenon DEF FlushSync, LoggerFree
<1> QED BY <1>1, <1>2, <1>3, <1>4, <1>5, <1>6, <1>7, <1>8, <1>9, <1>10, StartKeeps, RemoveKeeps,
           RenameOldestKeeps, RenameCurrentKeeps, ExitKeeps, Zenon DEF Next, Rotation

(* The numbers of files and the lists of them are as RenameInv says. *)
LEMMA RenameInvariant == Spec => [](FileInv /\ BusyInv /\ RenameInv)
<1>1. Init => BusyInv
  BY Zenon DEF Init, BusyInv, Threads
<1>2. FileInv /\ BusyInv /\ RenameInv /\ [Next]_vars => BusyInv'
  BY BusyStep, Zenon DEF RenameInv
<1> QED BY <1>1, <1>2, FileInvariant, RenameInit, RenameStep, PTL DEF Spec

(* With a limit on their number, files are lost only by unlinking the oldest *)
(* beyond it: no rename replaces a file and the rotation neither waits nor   *)
(* aborts, for any limit below MAX_ROTATED_FILES; and after an end of the    *)
(* process half way, the numbers stay within one of the limit.               *)
THEOREM NothingReplaced == Spec => []RenamesReplaceNothing
<1>1. FileInv /\ RenameInv => RenamesReplaceNothing
  <2> SUFFICES ASSUME FileInv, RenameInv, Limited PROVE RenamesReplaceNothing
    BY Zenon DEF RenamesReplaceNothing, Limited, Limit
  <2>1. CASE interrupted
    BY <2>1, Zenon DEF RenamesReplaceNothing, RenameInv, NearInv, Limit
  <2>2. CASE ~interrupted
    <3>1. overwritten = {} /\ mode \notin {"stuck", "aborted"}
      BY <2>2, Zenon DEF RenameInv, ExactInv
    <3>2. Limit \in Nat /\ DOMAIN disk \subseteq Nat
      BY ConstantsAssumption DEF Limited, FileInv, DiskInv, DiskTypes
    <3>3. PICK r \in Nat, k \in Nat : /\ Numbers(DOMAIN disk, r, k) /\ r <= Limit
                                      /\ k = 0 \/ r + k + 1 <= Limit
      <4>1. CASE mode = "down"
        <5>1. PICK l \in 0 .. Limit : Numbers(DOMAIN disk, l, 0)
          BY <2>2, <4>1, Zenon DEF RenameInv, ExactInv
        <5> QED BY <3>2, <5>1
      <4>2. CASE mode \in {"open", "idle", "reopen", "rotate"}
        <5>1. Len(rotatedFiles) \in Nat /\ Len(tempFiles) \in Nat /\ (tempFiles = <<>> => Len(tempFiles) = 0)
          BY DEF FileInv, ListTypes
        <5> QED BY <2>2, <4>2, <5>1, Zenon DEF RenameInv, ExactInv
      <4>3. mode \in {"down", "open", "idle", "reopen", "rotate"}
        BY <3>1, Zenon DEF FileInv, ControlTypes, Modes, RenameInv, PlaceInv, Limited
      <4> QED BY <4>1, <4>2, <4>3, Zenon
    <3>4. DOMAIN disk \subseteq 0 .. Limit
      BY <3>2, <3>3 DEF Numbers
    <3> QED BY <2>2, <3>1, <3>4, Zenon DEF RenamesReplaceNothing, Limit
  <2> QED BY <2>1, <2>2, Zenon
<1> QED BY <1>1, RenameInvariant, PTL

-----------------------------------------------------------------------------
(* The size of the current file. *)

(* s is the number of bytes in the writes of Q. *)
Sum(Q, s) ==
  \E f \in [SUBSET Q -> Nat] :
    /\ f[{}] = 0 /\ f[Q] = s
    /\ \A A \in SUBSET Q : \A w \in A : f[A] = f[A \ {w}] + w.len

(* r of the s bytes in Q are not in its write w. *)
Rest(Q, w, s, r) == Sum(Q \ {w}, r) /\ s = r + w.len

(* current_size is beyond the limit; some write is still to be reported. *)
Over == opts.asked.max_file_size # 0 /\ current_size > opts.asked.max_file_size
Outstanding ==
  queued \cup performed # {} \/ \E t \in Threads : pc[t] \in {"submit", "overflow", "check"}

(* Unless two threads were in flush() or a rotation at once, what a thread   *)
(* read of current_size is what it still is when it adds to it.              *)
OneInv ==
  ~raced => /\ \A s, t \in Busy : s = t
            /\ \A t \in Threads : pc[t] \in {"add", "check"} => job[t].read = current_size

(* Until the shutdown, the thread pool has no write during a rotation. *)
RestInv == ~closing /\ mode # "idle" => queued = {}

(* The bytes of an overflow are counted after they are written, those of a   *)
(* flush before.                                                             *)
Uncounted == IF pc[Logger] \in {"overflow", "check"} THEN job[Logger].len ELSE 0
Counted(s) ==
  /\ disk[0].size + s <= current_size + Uncounted
  /\ \A t \in Threads : pc[t] = "submit" => disk[0].size + s + job[t].len <= current_size

WithinInv ==
  ~raced /\ ~failed /\ ~closing =>
    /\ mode = "open" => SizeOf(0) <= current_size /\ ~Over
    /\ mode = "reopen" => 0 \notin DOMAIN disk /\ ~Over
    /\ mode = "idle" => /\ \E s \in Nat : Sum(queued, s) /\ Counted(s)
                        /\ Over => Outstanding

SizeInv == OneInv /\ RestInv /\ WithinInv

(* No write has no bytes. *)
LEMMA SumEmpty == Sum({}, 0)
<1> DEFINE f == [A \in SUBSET {} |-> 0]
<1>1. f \in [SUBSET {} -> Nat] /\ f[{}] = 0 /\ \A A \in SUBSET {} : \A w \in A : FALSE
  BY Zenon
<1> QED BY <1>1, Zenon DEF Sum

(* A write that is submitted adds its bytes, ... *)
LEMMA SumAdd ==
  ASSUME NEW Q, NEW w, w \notin Q, \A v \in Q \cup {w} : v.len \in Nat, NEW s, Sum(Q, s),
         NEW t, t = s + w.len
  PROVE  Sum(Q \cup {w}, t)
<1>1. PICK f \in [SUBSET Q -> Nat] : /\ f[{}] = 0 /\ f[Q] = s
                                    /\ \A A \in SUBSET Q : \A v \in A : f[A] = f[A \ {v}] + v.len
  BY Zenon DEF Sum
<1> DEFINE P == Q \cup {w}
           g == [A \in SUBSET P |-> IF w \in A THEN f[A \ {w}] + w.len ELSE f[A]]
<1>2. \A A \in SUBSET P : A \ {w} \in SUBSET Q /\ (w \notin A => A \in SUBSET Q)
  BY Zenon
<1>3. \A A \in SUBSET Q : f[A] \in Nat
  BY <1>1, Zenon
<1>4. g \in [SUBSET P -> Nat]
  BY <1>2, <1>3
<1>5. g[{}] = 0 /\ g[P] = s + w.len /\ s \in Nat
  <2>1. P \ {w} = Q /\ w \in P /\ {} \in SUBSET P /\ P \in SUBSET P /\ Q \in SUBSET Q
    BY Zenon
  <2> QED BY <1>1, <1>3, <2>1, Zenon
<1>6. ASSUME NEW A \in SUBSET P, NEW v \in A PROVE g[A] = g[A \ {v}] + v.len
  <2>0. A \ {v} \in SUBSET P
    BY Zenon
  <2>1. CASE w \notin A
    <3>1. A \in SUBSET Q /\ w \notin A \ {v}
      BY <2>1, Zenon
    <3>2. g[A] = f[A] /\ g[A \ {v}] = f[A \ {v}]
      BY <2>0, <2>1, <3>1, Zenon
    <3> QED BY <1>1, <3>1, <3>2, Zenon
  <2>2. CASE v = w
    <3>1. g[A] = f[A \ {w}] + w.len
      BY <2>2, Zenon
    <3>2. g[A \ {v}] = f[A \ {w}]
      BY <2>0, <2>2, Zenon
    <3> QED BY <2>2, <3>1, <3>2, Zenon
  <2>3. CASE w \in A /\ v # w
    <3>1. /\ A \ {w} \in SUBSET Q /\ v \in A \ {w} /\ w \in A \ {v}
          /\ (A \ {v}) \ {w} = (A \ {w}) \ {v}
      BY <2>3, Zenon
    <3>2. g[A] = f[A \ {w}] + w.len /\ g[A \ {v}] = f[(A \ {v}) \ {w}] + w.len
      BY <2>0, <2>3, <3>1, Zenon
    <3>3. f[A \ {w}] = f[(A \ {w}) \ {v}] + v.len
      BY <1>1, <3>1, Zenon
    <3>4. f[A \ {w}] \in Nat /\ f[(A \ {w}) \ {v}] \in Nat
      BY <1>3, <3>1, Zenon
    <3>5. g[A] = (f[(A \ {w}) \ {v}] + v.len) + w.len
      BY <3>2, <3>3, Zenon
    <3>6. g[A \ {v}] = f[(A \ {w}) \ {v}] + w.len
      BY <3>1, <3>2, Zenon
    <3>7. v.len \in Nat /\ w.len \in Nat
      BY Zenon
    <3> HIDE DEF g
    <3> QED BY <3>4, <3>5, <3>6, <3>7
  <2> QED BY <2>1, <2>2, <2>3, Zenon
<1> HIDE DEF g, P
<1>7. Sum(P, s + w.len)
  BY <1>4, <1>5, <1>6, Zenon DEF Sum
<1> QED BY <1>7, Zenon DEF P

(* ... and one that is performed takes them away. *)
LEMMA SumRemove ==
  ASSUME NEW Q, NEW w \in Q, NEW s, Sum(Q, s)
  PROVE  \E r \in Nat : Rest(Q, w, s, r)
<1>1. PICK f \in [SUBSET Q -> Nat] : /\ f[{}] = 0 /\ f[Q] = s
                                    /\ \A A \in SUBSET Q : \A v \in A : f[A] = f[A \ {v}] + v.len
  BY Zenon DEF Sum
<1> DEFINE P == Q \ {w}
           g == [A \in SUBSET P |-> f[A]]
<1>2. SUBSET P \subseteq SUBSET Q /\ P \in SUBSET P /\ {} \in SUBSET P /\ Q \in SUBSET Q
      /\ \A A \in SUBSET P : \A v \in A : A \ {v} \in SUBSET P
  BY Zenon
<1>3. g \in [SUBSET P -> Nat] /\ g[{}] = 0 /\ g[P] = f[P] /\ f[P] \in Nat
  BY <1>1, <1>2, Zenon
<1>4. \A A \in SUBSET P : \A v \in A : g[A] = g[A \ {v}] + v.len
  BY <1>1, <1>2, Zenon
<1>5. s = f[P] + w.len
  BY <1>1, <1>2, Zenon
<1>6. Sum(P, f[P])
  <2> HIDE DEF g, P
  <2> QED BY <1>3, <1>4, Zenon DEF Sum
<1> QED BY <1>3, <1>5, <1>6, Zenon DEF Rest

(* At most one thread is busy unless two were counted. *)
LEMMA OneOf ==
  ASSUME NEW S, IsFiniteSet(S), ~(Cardinality(S) > 1)
  PROVE  \A s, t \in S : s = t
<1> SUFFICES ASSUME NEW s \in S, NEW t \in S, s # t PROVE FALSE
  BY Zenon
<1>1. IsFiniteSet({s}) /\ Cardinality({s}) = 1
  BY FS_Singleton, Zenon
<1>2. IsFiniteSet({s} \cup {t}) /\ Cardinality({s} \cup {t}) = 1 + 1
  BY <1>1, FS_AddElement, Zenon
<1>3. {s} \cup {t} \subseteq S
  BY Zenon
<1>4. Cardinality({s} \cup {t}) <= Cardinality(S)
  BY <1>3, FS_Subset, Zenon
<1>5. Cardinality(S) \in Nat
  BY FS_CardinalityType, Zenon
<1> QED BY <1>2, <1>4, <1>5

(* After a step, unless raced says otherwise, no two threads are busy. *)
LEMMA OneBusy ==
  ASSUME Next, ~raced'
  PROVE  ~raced /\ \A s, t \in Busy' : s = t
<1>1. ~raced /\ ~(Cardinality(Busy') > 1)
  BY Zenon DEF Next
<1>2. IsFiniteSet(Threads)
  BY ConstantsAssumption, FS_AddElement, Zenon DEF Threads
<1>3. Busy' \subseteq Threads
  BY Zenon DEF Busy
<1>4. IsFiniteSet(Busy')
  BY <1>2, <1>3, FS_Subset, Zenon
<1> QED BY <1>1, <1>4, OneOf, Zenon

(* Nothing is submitted during a rotation. *)
LEMMA RestStep == FileInv /\ RestInv /\ [Next]_vars => RestInv'
<1> SUFFICES ASSUME FileInv, RestInv, [Next]_vars, ~closing', mode' # "idle" PROVE queued' = {}
  BY Zenon DEF RestInv
<1> USE DEF memory, control, threads, pool, history
<1>1. CASE Exit
  BY <1>1, Zenon DEF Exit
<1>2. CASE UNCHANGED queued /\ mode # "idle" /\ UNCHANGED closing
  BY <1>2, Zenon DEF RestInv
<1>3. CASE UNCHANGED vars
  BY <1>2, <1>3, Zenon DEF vars
<1>4. CASE Start \/ OnOpen \/ OnOpenError \/ RemoveOldest \/ RenameOldest \/ RenameCurrent \/ Reopen
  BY <1>2, <1>4, Zenon DEF Start, OnOpen, OnOpenError, RemoveOldest, RenameOldest, RenameCurrent, Reopen
<1>5. ASSUME NEW t, Flush(t) PROVE queued' = {}
  BY <1>2, <1>5, Zenon DEF Flush, FlushRead, FlushAdd, FlushSubmit
<1>6. ASSUME NEW w \in queued, Perform(w) PROVE queued' = {}
  BY <1>6, Zenon DEF Perform, RestInv
<1>7. CASE (\E w \in performed : WriteCb(w)) \/ OverflowCheck
  <2>1. UNCHANGED closing /\ \E size : Check(size)
    BY <1>7, Zenon DEF WriteCb, OverflowCheck
  <2>2. CASE UNCHANGED <<mode, queued>>
    BY <1>2, <2>1, <2>2, Zenon
  <2>3. CASE mode' = "rotate" /\ queued' = {[w EXCEPT !.stale = TRUE] : w \in queued}
    <3>1. queued = {}
      <4>1. CASE mode # "idle"
        BY <2>1, <4>1, Zenon DEF RestInv
      <4>2. CASE mode = "idle"
        BY <1>7, <2>1, <2>3, <4>2, CloseIsQuiet, Zenon
      <4> QED BY <4>1, <4>2, Zenon
    <3> QED BY <2>3, <3>1, Zenon
  <2> QED BY <2>1, <2>2, <2>3, CheckDoes, Zenon
<1>8. ASSUME NEW len, OverflowWrite(len) PROVE queued' = {}
  BY <1>8, Zenon DEF OverflowWrite, LoggerFree
<1>9. CASE OverflowRead
  BY <1>2, <1>9, Zenon DEF OverflowRead
<1>10. CASE Shutdown
  BY <1>10, Zenon DEF Shutdown
<1>11. ASSUME NEW len, FlushSync(len) PROVE queued' = {}
  BY <1>11, Zenon DEF FlushSync
<1> QED BY <1>1, <1>3, <1>4, <1>5, <1>6, <1>7, <1>8, <1>9, <1>10, <1>11, Zenon
        DEF Next, Rotation, Overflow

(* Only a thread that is busy changes current_size, or none is. *)
LEMMA OneStep == FileInv /\ PlaceInv /\ BusyInv /\ OneInv /\ [Next]_vars => OneInv'
<1> SUFFICES ASSUME FileInv, PlaceInv, BusyInv, OneInv, [Next]_vars, ~raced'
             PROVE  /\ \A s, t \in Busy' : s = t
                    /\ \A t \in Threads : pc'[t] \in {"add", "check"} => job'[t].read = current_size'
  BY Zenon DEF OneInv
<1> USE DEF memory, control, threads, pool, history
<1>1. CASE UNCHANGED vars
  BY <1>1, Zenon DEF vars, OneInv, Busy
<1>2. CASE Next
  <2>1. /\ ~raced /\ \A s, t \in Busy' : s = t
        /\ \A s, t \in Busy : s = t
        /\ \A t \in Threads : pc[t] \in {"add", "check"} => job[t].read = current_size
    BY <1>2, OneBusy, Zenon DEF OneInv
  <2>2. /\ pc \in [Threads -> {"idle", "add", "submit", "overflow", "check"}] /\ Logger \in Threads
        /\ job \in [Threads -> [len : Lens \cup {0}, read : Nat]]
    BY Zenon DEF FileInv, ThreadTypes, Threads
  <2>3. CASE UNCHANGED <<pc, job, current_size>>
    BY <2>1, <2>3, Zenon
  <2>4. CASE \A t \in Threads : pc'[t] \notin {"add", "check"}
    BY <2>1, <2>4, Zenon
  <2>5. CASE starting /\ UNCHANGED pc
    BY <2>4, <2>5, Zenon DEF BusyInv
  <2>6. CASE Start
    BY <2>5, <2>6, Zenon DEF Start, PlaceInv
  <2>7. CASE RenameCurrent
    <3>1. Logger \in Busy /\ pc[Logger] = "idle" /\ UNCHANGED pc
      BY <2>2, <2>7, Zenon DEF RenameCurrent, Busy, BusyInv
    <3>2. \A t \in Threads : pc[t] # "idle" => t \in Busy
      BY Zenon DEF Busy
    <3>3. \A t \in Threads : pc'[t] \notin {"add", "check"}
      BY <2>1, <3>1, <3>2, Zenon
    <3> QED BY <2>4, <3>3, Zenon
  <2>8. ASSUME NEW t \in Threads, NEW len \in Lens, FlushRead(t, len)
        PROVE  \A u \in Threads : pc'[u] \in {"add", "check"} => job'[u].read = current_size'
    BY <2>1, <2>2, <2>8, Zenon DEF FlushRead
  <2>9. ASSUME NEW t \in Threads, FlushAdd(t)
        PROVE  \A u \in Threads : pc'[u] \in {"add", "check"} => job'[u].read = current_size'
    <3>1. t \in Busy' /\ pc'[t] = "submit"
      BY <2>2, <2>9, Zenon DEF FlushAdd, Busy
    <3>2. \A u \in Threads : pc'[u] # "idle" => u \in Busy'
      BY Zenon DEF Busy
    <3> QED BY <2>1, <3>1, <3>2, Zenon
  <2>10. ASSUME NEW t \in Threads, FlushSubmit(t)
        PROVE  \A u \in Threads : pc'[u] \in {"add", "check"} => job'[u].read = current_size'
    BY <2>1, <2>2, <2>10, Zenon DEF FlushSubmit
  <2>11. ASSUME NEW len \in Lens, OverflowWrite(len)
        PROVE  \A u \in Threads : pc'[u] \in {"add", "check"} => job'[u].read = current_size'
    BY <2>1, <2>2, <2>11, Zenon DEF OverflowWrite
  <2>12. ASSUME OverflowRead
        PROVE  \A u \in Threads : pc'[u] \in {"add", "check"} => job'[u].read = current_size'
    <3>1. /\ pc' = [pc EXCEPT ![Logger] = "check"] /\ UNCHANGED current_size
          /\ job' = [job EXCEPT ![Logger].read = current_size]
      BY <2>12, Zenon DEF OverflowRead
    <3>2. \A u \in Threads \ {Logger} : pc'[u] = pc[u] /\ job'[u] = job[u]
      BY <2>2, <3>1, Zenon
    <3>3. job'[Logger].read = current_size
      BY <2>2, <3>1, Zenon
    <3> QED BY <2>1, <3>1, <3>2, <3>3, Zenon
  <2>13. ASSUME OverflowCheck
        PROVE  \A u \in Threads : pc'[u] \in {"add", "check"} => job'[u].read = current_size'
    <3>1. Logger \in Busy /\ pc' = [pc EXCEPT ![Logger] = "idle"]
      BY <2>2, <2>13, Zenon DEF OverflowCheck, Busy
    <3>2. \A t \in Threads : pc[t] # "idle" => t \in Busy
      BY Zenon DEF Busy
    <3>3. \A t \in Threads : pc'[t] = "idle"
      BY <2>1, <2>2, <3>1, <3>2, Zenon
    <3> QED BY <3>3, Zenon
  <2>14. CASE Exit
    BY <2>4, <2>14, Zenon DEF Exit
  <2>15. CASE \/ OnOpen \/ OnOpenError \/ RemoveOldest \/ RenameOldest \/ Reopen \/ Shutdown
              \/ \E w : Perform(w) \/ WriteCb(w)
              \/ \E len : FlushSync(len)
    BY <2>3, <2>15, Zenon DEF OnOpen, OnOpenError, RemoveOldest, RenameOldest, Reopen, Shutdown, Perform,
                       WriteCb, FlushSync
  <2> QED BY <1>2, <2>1, <2>6, <2>7, <2>8, <2>9, <2>10, <2>11, <2>12, <2>13, <2>14, <2>15, Zenon
          DEF Next, Rotation, Flush, Overflow
<1> QED BY <1>1, <1>2, Zenon

(* A thread that is in flush() is the only one, and the others are idle. *)
LEMMA OnlyOne ==
  ASSUME \A s, u \in Busy : s = u, NEW t \in Busy
  PROVE  \A u \in Threads : u # t => pc[u] = "idle"
BY Zenon DEF Busy

(* Nothing counted twice: what WithinInv says of a file that was just opened. *)
LEMMA FreshFile ==
  ASSUME FileInv', ~Over', queued' = {}, 0 \in DOMAIN disk', disk'[0].size <= current_size',
         \A t \in Threads : pc'[t] # "submit", pc'[Logger] = "idle"
  PROVE  (\E s \in Nat : Sum(queued, s) /\ Counted(s))' /\ (Over => Outstanding)'
<1>1. 0 \in Nat /\ Sum(queued', 0)
  BY SumEmpty, Zenon
<1>2. disk'[0].size \in Nat /\ current_size' \in Nat
  BY Zenon DEF FileInv, DiskInv, DiskTypes, ThreadTypes
<1>3. Uncounted' = 0
  BY Zenon DEF Uncounted
<1>4. Counted(0)'
  BY <1>2, <1>3 DEF Counted
<1> QED BY <1>1, <1>4, Zenon DEF Sum

(* The target opens a file within the limit, and a rotation leaves none. *)
LEMMA OpenWithin ==
  ASSUME FileInv, FileInv', PlaceInv, BusyInv, RestInv, OneInv, WithinInv, OnOpen \/ Reopen, ~raced
  PROVE  WithinInv'
<1> SUFFICES ASSUME ~failed', ~closing' PROVE WithinInv'
  BY Zenon DEF WithinInv
<1> USE DEF memory, control, threads, pool, history
<1>1. /\ ~failed /\ ~closing /\ mode \in {"open", "reopen"} /\ mode' = "idle"
      /\ disk' = Created /\ UNCHANGED <<opts, current_size, pc, queued>>
  BY DEF OnOpen, Reopen
<1>2. queued' = {} /\ 0 \in DOMAIN disk'
  BY <1>1, Zenon DEF RestInv, Created
<1>3. disk'[0].size = SizeOf(0) /\ SizeOf(0) <= current_size /\ ~Over
  <2>1. disk'[0].size = SizeOf(0)
    BY <1>1, Zenon DEF Created, SizeOf, Exists, NewFile
  <2>2. CASE mode = "open"
    BY <1>1, <2>1, <2>2, Zenon DEF WithinInv
  <2>3. CASE mode = "reopen"
    <3>1. 0 \notin DOMAIN disk /\ ~Over
      BY <1>1, <2>3, Zenon DEF WithinInv
    <3>2. current_size \in Nat
      BY Zenon DEF FileInv, ThreadTypes
    <3> QED BY <2>1, <3>1, <3>2 DEF SizeOf, Exists
  <2> QED BY <1>1, <2>2, <2>3, Zenon
<1>4. Logger \in Threads /\ pc[Logger] = "idle"
  BY <1>1, Zenon DEF BusyInv, Threads
<1>5. \A t \in Threads : pc[t] # "submit"
  <2>1. CASE mode = "open"
    BY <2>1, Zenon DEF BusyInv, PlaceInv
  <2>2. CASE mode = "reopen"
    <3>1. Logger \in Busy
      BY <1>4, <2>2, Zenon DEF Busy
    <3> QED BY <1>4, <3>1, OnlyOne, Zenon DEF OneInv
  <2> QED BY <1>1, <2>1, <2>2, Zenon
<1>6. ~Over'
  BY <1>1, <1>3, Zenon DEF Over
<1> QED BY <1>1, <1>2, <1>3, <1>4, <1>5, <1>6, FreshFile, Zenon DEF WithinInv

(* check_files() and rotate_files() before the file is opened. *)
LEMMA StartWithin ==
  ASSUME FileInv, opts.enabled, MaxRotated > 1, Start \/ RenameCurrent
  PROVE  WithinInv'
<1> SUFFICES ASSUME ~failed', mode' \in {"open", "reopen", "idle"}
             PROVE  /\ mode' = "open" => SizeOf(0)' <= current_size' /\ ~Over'
                    /\ mode' = "reopen" => 0 \notin DOMAIN disk' /\ ~Over'
                    /\ mode' # "idle"
  BY Zenon DEF WithinInv
<1>0. /\ opts.asked.max_file_size \in Nat /\ current_size \in Nat
      /\ 0 \in DOMAIN disk => disk[0].size \in Nat
  BY Zenon DEF FileInv, OptsInv, Settings, ThreadTypes, DiskInv, DiskTypes
<1>1. CASE Start
  <2>1. /\ mode' = "open" /\ ~NeedsRotation /\ current_size' = SizeOf(0) /\ UNCHANGED <<opts, disk>>
    BY <1>1, Zenon DEF Start
  <2>2. SizeOf(0)' = SizeOf(0) /\ SizeOf(0) \in Nat
    BY <1>0, <2>1, Zenon DEF SizeOf, Exists
  <2>3. ~Over'
    BY <1>0, <2>1, <2>2, Zenon DEF NeedsRotation, Over
  <2> QED BY <2>1, <2>2, <2>3
<1>2. CASE RenameCurrent
  <2>1. /\ current_size' = 0 /\ UNCHANGED opts /\ mode' \in {"open", "reopen"}
        /\ RenameDone(0, 1) \/ RenameRefused(0, 1)
    BY <1>2, Zenon DEF RenameCurrent
  <2>2. 0 \notin DOMAIN disk'
    <3>1. CASE RenameDone(0, 1)
      BY <3>1 DEF RenameDone, Renamed
    <3>2. CASE RenameRefused(0, 1)
      BY <3>2, Zenon DEF RenameRefused, HasName, Exists
    <3> QED BY <2>1, <3>1, <3>2, Zenon
  <2>3. ~Over'
    BY <1>0, <2>1 DEF Over
  <2>4. SizeOf(0)' = 0
    BY <2>2, Zenon DEF SizeOf, Exists
  <2> QED BY <2>1, <2>2, <2>3, <2>4
<1> QED BY <1>1, <1>2, Zenon

(* The reports of writes: while the file is too large and is not closed,     *)
(* another report is to come.                                                *)
LEMMA ReportWithin ==
  ASSUME FileInv, FileInv', opts.enabled, ~closing', pc'[Logger] = "idle", UNCHANGED opts,
         submittedWrites' = submittedWrites - 1, Check(current_size'), mode' # "rotate", Over'
  PROVE  Outstanding'
<1>1. opts.asked.max_file_size \in Nat /\ current_size' \in Nat /\ submittedWrites \in Int
  BY Zenon DEF FileInv, OptsInv, Settings, ThreadTypes
<1>2. ~(submittedWrites - 1 < 1)
  BY <1>1, Zenon DEF Over, Check, CloseFile
<1>3. /\ IsFiniteSet(queued') /\ IsFiniteSet(performed') /\ Overflowing' = 0
      /\ submittedWrites' = Cardinality(queued') + Cardinality(performed') + 0
  BY Zenon DEF FileInv, CountInv, Overflowing
<1>4. ~(queued' = {} /\ performed' = {})
  <2> SUFFICES ASSUME queued' = {}, performed' = {} PROVE FALSE
    BY Zenon
  <2>1. Cardinality(queued') = 0 /\ Cardinality(performed') = 0
    BY FS_EmptySet, Zenon
  <2> QED BY <1>1, <1>2, <1>3, <2>1
<1> QED BY <1>4, Zenon DEF Outstanding

(* The bytes of flush() are counted, then submitted. *)
LEMMA FlushWithin ==
  ASSUME FileInv, PlaceInv, OneInv, WithinInv, ~raced, ~failed, ~closing, mode = "idle",
         NEW t \in Threads, Flush(t), OneInv', ~raced'
  PROVE  (\E s \in Nat : Sum(queued, s) /\ Counted(s))' /\ (Over => Outstanding)'
<1> USE DEF memory, control, threads, pool, history
<1>1. PICK s \in Nat : Sum(queued, s) /\ Counted(s)
  BY Zenon DEF WithinInv
<1>2. PICK d : d = disk[0].size
  BY Zenon
<1>0. /\ pc \in [Threads -> {"idle", "add", "submit", "overflow", "check"}] /\ Logger \in Threads
      /\ job \in [Threads -> [len : Lens \cup {0}, read : Nat]]
      /\ current_size \in Nat
  BY Zenon DEF FileInv, ThreadTypes, Threads
<1>3. ASSUME NEW len \in Lens, FlushRead(t, len)
      PROVE  (\E r \in Nat : Sum(queued, r) /\ Counted(r))' /\ (Over => Outstanding)'
  <2>1. /\ pc[t] = "idle" /\ pc' = [pc EXCEPT ![t] = "add"]
        /\ \A u \in Threads \ {t} : job'[u] = job[u]
        /\ UNCHANGED <<opts, disk, current_size, queued, performed>>
    BY <1>0, <1>3, Zenon DEF FlushRead
  <2>2. \A u \in Threads : \A p \in {"submit", "overflow", "check"} :
          (pc'[u] = p <=> pc[u] = p) /\ (pc[u] = p => job'[u] = job[u])
    BY <1>0, <2>1, Zenon
  <2>3. Uncounted' = Uncounted
    BY <1>0, <2>2, Zenon DEF Uncounted
  <2>4. Counted(s)'
    BY <1>1, <2>1, <2>2, <2>3, Zenon DEF Counted
  <2>5. Over => Outstanding
    BY Zenon DEF WithinInv
  <2>6. Outstanding => Outstanding'
    BY <2>1, <2>2, Zenon DEF Outstanding
  <2> QED BY <1>1, <2>1, <2>4, <2>5, <2>6, Zenon DEF Over, Sum
<1>4. CASE FlushAdd(t) \/ FlushSubmit(t)
  <2>1. t \in Busy /\ job[t].len \in Nat /\ job[t].read \in Nat
    BY <1>4, JobFields, Zenon DEF FlushAdd, FlushSubmit, Busy, FileInv
  <2>2. \A u \in Threads : u # t => pc[u] = "idle"
    BY <2>1, OnlyOne, Zenon DEF OneInv
  <2>3. Uncounted = 0 /\ d + s <= current_size
    <3>1. pc[Logger] \notin {"overflow", "check"}
      BY <1>0, <1>4, <2>2, Zenon DEF FlushAdd, FlushSubmit
    <3>2. Uncounted = 0
      BY <3>1, Zenon DEF Uncounted
    <3> QED BY <1>0, <1>1, <1>2, <3>2 DEF Counted
  <2>4. d \in Nat
    BY <1>2, Zenon DEF FileInv, DiskInv, DiskTypes, PlaceInv
  <2>5. CASE FlushAdd(t)
    <3>1. /\ pc[t] = "add" /\ pc' = [pc EXCEPT ![t] = "submit"] /\ job' = job
          /\ current_size' = current_size + job[t].len
          /\ UNCHANGED <<disk, queued>>
      BY <2>5, Zenon DEF FlushAdd, OneInv
    <3>2. \A u \in Threads : pc'[u] = (IF u = t THEN "submit" ELSE "idle")
      BY <1>0, <2>2, <3>1, Zenon
    <3>3. Uncounted' = 0
      BY <1>0, <3>2, Zenon DEF Uncounted
    <3>4. d + s + job[t].len <= current_size'
      BY <1>0, <2>1, <2>3, <2>4, <3>1
    <3>5. Counted(s)'
      BY <1>0, <1>2, <2>1, <2>3, <2>4, <3>1, <3>2, <3>3, <3>4 DEF Counted
    <3>6. Outstanding'
      BY <3>2, Zenon DEF Outstanding
    <3> QED BY <1>1, <3>1, <3>5, <3>6, Zenon DEF Sum
  <2>6. CASE FlushSubmit(t)
    <3>1. PICK w : w = [id |-> nextId, len |-> job[t].len, stale |-> FALSE]
      BY Zenon
    <3>2. /\ pc[t] = "submit" /\ pc' = [pc EXCEPT ![t] = "idle"]
          /\ queued' = queued \cup {w} /\ UNCHANGED <<disk, current_size>>
      BY <2>6, <3>1, Zenon DEF FlushSubmit
    <3>3. w.len = job[t].len /\ w.len \in Nat /\ w.id = nextId
      BY <2>1, <3>1, Zenon
    <3>4. w \notin queued
      BY <3>3 DEF FileInv, NumberInv
    <3>5. PICK r \in Nat : r = s + w.len
      BY <3>3
    <3>51. Sum(queued', r)
      <4>1. \A v \in queued \cup {w} : v.len \in Nat
        BY <3>3, ConstantsAssumption, Zenon DEF FileInv, NumberInv, Write
      <4>2. Sum(queued \cup {w}, r)
        BY <1>1, <3>4, <3>5, <4>1, SumAdd, Zenon
      <4> QED BY <3>2, <4>2, Zenon
    <3>6. \A u \in Threads : pc'[u] = "idle"
      BY <1>0, <2>2, <3>2, Zenon
    <3>7. Uncounted' = 0
      BY <1>0, <3>6, Zenon DEF Uncounted
    <3>8. d + s + w.len <= current_size
      BY <1>1, <1>2, <3>2, <3>3, Zenon DEF Counted
    <3>81. d + r <= current_size
      BY <1>0, <2>4, <3>3, <3>5, <3>8
    <3>9. Counted(r)'
      <4>1. disk'[0].size = d /\ current_size' = current_size
        BY <1>2, <3>2, Zenon
      <4>2. disk'[0].size + r <= current_size' + Uncounted'
        BY <1>0, <3>7, <3>81, <4>1
      <4>3. \A u \in Threads : pc'[u] # "submit"
        BY <3>6
      <4> QED BY <4>2, <4>3, Zenon DEF Counted
    <3>10. Outstanding'
      BY <3>2, Zenon DEF Outstanding
    <3> QED BY <3>51, <3>9, <3>10, Zenon DEF Sum
  <2> QED BY <1>4, <2>5, <2>6, Zenon
<1> QED BY <1>3, <1>4, Zenon DEF Flush

(* A write that the pool performs goes into the file, if it is open. *)
LEMMA PerformWithin ==
  ASSUME FileInv, PlaceInv, WithinInv, ~raced, ~failed, ~closing, mode = "idle",
         NEW w \in queued, Perform(w)
  PROVE  (\E s \in Nat : Sum(queued, s) /\ Counted(s))' /\ (Over => Outstanding)'
<1> USE DEF memory, control, threads, pool, history
<1>1. PICK s \in Nat : Sum(queued, s) /\ Counted(s)
  BY Zenon DEF WithinInv
<1>0. /\ Logger \in Threads /\ current_size \in Nat /\ Lens \subseteq Nat
      /\ disk[0].size \in Nat /\ 0 \in DOMAIN disk
  BY ConstantsAssumption, Zenon DEF FileInv, ThreadTypes, Threads, DiskInv, DiskTypes, PlaceInv
<1>2. /\ queued' = queued \ {w} /\ performed' = performed \cup {w}
      /\ UNCHANGED <<opts, current_size, pc, job>>
      /\ (opened /\ disk' = Written(w.id, w.len)) \/ UNCHANGED disk
  BY Zenon DEF Perform
<1>3. PICK r \in Nat : Sum(queued', r) /\ s = r + w.len
  <2>1. PICK r \in Nat : Rest(queued, w, s, r)
    BY <1>1, SumRemove, Zenon
  <2> QED BY <1>2, <2>1, Zenon DEF Rest
<1>4. w.len \in Nat
  BY <1>0, Zenon DEF FileInv, NumberInv, Write
<1>5. disk'[0].size \in Nat /\ disk'[0].size + r <= disk[0].size + s
  <2>1. CASE disk' = Written(w.id, w.len)
    <3>1. disk'[0].size = disk[0].size + w.len
      BY <1>0, <2>1, Zenon DEF Written
    <3> QED BY <1>0, <1>3, <1>4, <3>1
  <2>2. CASE UNCHANGED disk
    BY <1>0, <1>3, <1>4, <2>2
  <2> QED BY <1>2, <2>1, <2>2, Zenon
<1>6. Uncounted' = Uncounted /\ Uncounted \in Nat
  BY <1>0, <1>2, JobFields, Zenon DEF Uncounted, FileInv
<1>7. \A t \in Threads : job[t].len \in Nat
  BY JobFields, Zenon DEF FileInv
<1>8. PICK d, e : d = disk[0].size /\ e = disk'[0].size
  BY Zenon
<1>9. e + r <= current_size + Uncounted
  BY <1>0, <1>1, <1>5, <1>6, <1>8 DEF Counted
<1>10. ASSUME NEW t \in Threads, pc[t] = "submit" PROVE e + r + job[t].len <= current_size
  <2>1. d + s + job[t].len <= current_size
    BY <1>1, <1>8, <1>10, Zenon DEF Counted
  <2> QED BY <1>0, <1>5, <1>7, <1>8, <2>1
<1>11. Counted(r)'
  BY <1>2, <1>6, <1>8, <1>9, <1>10, Zenon DEF Counted
<1>12. Outstanding'
  BY <1>2, Zenon DEF Outstanding
<1> QED BY <1>3, <1>11, <1>12, Zenon DEF Sum

(* An overflow is written first, and counted when it is checked. *)
LEMMA OverflowWithin ==
  ASSUME FileInv, FileInv', PlaceInv, OneInv, OneInv', WithinInv, ~raced, ~raced', ~failed, ~closing,
         mode = "idle", Overflow, mode' = "idle", opts.enabled
  PROVE  (\E s \in Nat : Sum(queued, s) /\ Counted(s))' /\ (Over => Outstanding)'
<1> USE DEF memory, control, threads, pool, history
<1>1. PICK s \in Nat : Sum(queued, s) /\ Counted(s)
  BY Zenon DEF WithinInv
<1>2. Over => Outstanding
  BY Zenon DEF WithinInv
<1>0. /\ pc \in [Threads -> {"idle", "add", "submit", "overflow", "check"}] /\ Logger \in Threads
      /\ job \in [Threads -> [len : Lens \cup {0}, read : Nat]]
      /\ current_size \in Nat /\ Lens \subseteq Nat
      /\ disk[0].size \in Nat /\ 0 \in DOMAIN disk
  BY ConstantsAssumption, Zenon DEF FileInv, ThreadTypes, Threads, DiskInv, DiskTypes, PlaceInv
<1>3. PICK d : d = disk[0].size
  BY Zenon
<1>4. ASSUME NEW len \in Lens, OverflowWrite(len)
      PROVE  (\E r \in Nat : Sum(queued, r) /\ Counted(r))' /\ (Over => Outstanding)'
  <2>1. pc[Logger] = "idle" /\ UNCHANGED <<opts, current_size, queued, performed>>
    BY <1>4, Zenon DEF OverflowWrite, LoggerFree
  <2>2. CASE UNCHANGED <<disk, submittedWrites, pc, job>>
    BY <1>1, <1>2, <2>1, <2>2, Zenon DEF Sum, Counted, Uncounted, Over, Outstanding
  <2>3. CASE /\ disk' = Written(nextId, len)
             /\ pc' = [pc EXCEPT ![Logger] = "overflow"]
             /\ job' = [job EXCEPT ![Logger] = [len |-> len, read |-> 0]]
    <3>1. disk'[0].size = d + len
      BY <1>0, <1>3, <2>3, Zenon DEF Written
    <3>2. pc'[Logger] = "overflow" /\ job'[Logger].len = len
      BY <1>0, <2>3, Zenon
    <3>3. Uncounted' = len /\ Uncounted = 0
      BY <2>1, <3>2, Zenon DEF Uncounted
    <3>4. Logger \in Busy'
      BY <1>0, <3>2, Zenon DEF Busy
    <3>5. \A t \in Threads : pc'[t] # "submit"
      <4>1. \A t \in Threads : pc'[t] # "idle" => t \in Busy'
        BY Zenon DEF Busy
      <4> QED BY <3>2, <3>4, <4>1, Zenon DEF OneInv
    <3>6. d + s <= current_size
      BY <1>0, <1>1, <1>3, <3>3 DEF Counted
    <3>7. (d + len) + s <= current_size + len
      BY <1>0, <1>3, <3>6
    <3>8. Counted(s)'
      BY <2>1, <3>1, <3>3, <3>5, <3>7, Zenon DEF Counted
    <3>9. Outstanding'
      BY <1>0, <3>2, Zenon DEF Outstanding
    <3> QED BY <1>1, <2>1, <3>8, <3>9, Zenon DEF Sum
  <2> QED BY <1>4, <2>2, <2>3, Zenon DEF OverflowWrite
<1>5. CASE OverflowRead
  <2>1. PICK j : j = job[Logger]
    BY Zenon
  <2>2. PICK y : y = [j EXCEPT !.read = current_size]
    BY Zenon
  <2>3. /\ pc[Logger] = "overflow" /\ pc' = [pc EXCEPT ![Logger] = "check"]
        /\ job' = [job EXCEPT ![Logger] = y]
        /\ UNCHANGED <<opts, disk, current_size, queued, performed>>
    BY <1>5, <2>1, <2>2, Zenon DEF OverflowRead
  <2>4. y.len = j.len
    BY <1>0, <2>1, <2>2, Zenon
  <2>5. pc'[Logger] = "check" /\ job'[Logger].len = job[Logger].len
    BY <1>0, <2>1, <2>3, <2>4, Zenon
  <2>6. \A t \in Threads \ {Logger} : pc'[t] = pc[t] /\ job'[t] = job[t]
    BY <1>0, <2>3, Zenon
  <2>7. Uncounted' = Uncounted
    BY <2>3, <2>5, Zenon DEF Uncounted
  <2>8. Counted(s)'
    BY <1>1, <2>3, <2>5, <2>6, <2>7, Zenon DEF Counted
  <2>9. Outstanding'
    BY <1>0, <2>5, Zenon DEF Outstanding
  <2> QED BY <1>1, <2>3, <2>8, <2>9, Zenon DEF Sum
<1>6. CASE OverflowCheck
  <2>0. PICK len : len = job[Logger].len
    BY Zenon
  <2>1. /\ pc[Logger] = "check" /\ pc' = [pc EXCEPT ![Logger] = "idle"]
        /\ current_size' = job[Logger].read + len /\ job[Logger].read = current_size
        /\ Check(current_size') /\ submittedWrites' = submittedWrites - 1
        /\ UNCHANGED <<opts, disk, closing>>
    BY <1>0, <1>6, <2>0, Zenon DEF OverflowCheck, OneInv
  <2>2. UNCHANGED queued
    BY <2>1, CheckDoes, Zenon
  <2>3. Logger \in Busy
    BY <1>0, <2>1, Zenon DEF Busy
  <2>4. \A t \in Threads : t # Logger => pc[t] = "idle"
    BY <2>3, OnlyOne, Zenon DEF OneInv
  <2>5. \A t \in Threads : pc'[t] = "idle"
    BY <1>0, <2>1, <2>4, Zenon
  <2>6. Uncounted = len /\ Uncounted' = 0 /\ len \in Nat
    BY <1>0, <2>0, <2>1, <2>5, JobFields, Zenon DEF Uncounted, FileInv
  <2>7. d + s <= current_size + len
    BY <1>1, <1>3, <2>6, Zenon DEF Counted
  <2>8. d + s <= current_size' + 0
    BY <1>0, <1>3, <2>1, <2>6, <2>7
  <2>9. Counted(s)'
    BY <1>3, <2>1, <2>5, <2>6, <2>8, Zenon DEF Counted
  <2>10. Over' => Outstanding'
    BY <1>0, <2>1, <2>5, ReportWithin, Zenon
  <2> QED BY <1>1, <2>2, <2>9, <2>10, Zenon DEF Sum
<1> QED BY <1>4, <1>5, <1>6, Zenon DEF Overflow

(* Every step keeps the count of the bytes in the current file. *)
LEMMA WithinStep ==
  ASSUME FileInv, FileInv', PlaceInv, BusyInv, OneInv, OneInv', RestInv, WithinInv,
         Build = "node", MaxRotated > 1, [Next]_vars
  PROVE  WithinInv'
<1> SUFFICES ASSUME ~raced', ~failed', ~closing', mode' \in {"open", "reopen", "idle"} PROVE WithinInv'
  BY Zenon DEF WithinInv
<1> USE DEF memory, control, threads, pool, history
<1>0. opts.enabled /\ Logger \in Threads
  BY Zenon DEF FileInv, OptsInv, Threads
<1>1. CASE UNCHANGED vars
  <2>1. UNCHANGED <<opts, disk, mode, closing, failed, raced, current_size, queued, performed, pc, job>>
    BY <1>1, Zenon DEF vars
  <2> QED BY <2>1 DEF WithinInv, SizeOf, Exists, Over, Outstanding, Sum, Counted, Uncounted
<1>2. CASE Next
  <2>0. ~raced
    BY <1>2, Zenon DEF Next
  <2>1. CASE Start \/ RenameCurrent
    BY <1>0, <2>1, StartWithin, Zenon
  <2>2. CASE OnOpen \/ Reopen
    BY <2>0, <2>2, OpenWithin, Zenon
  <2>3. CASE OnOpenError \/ RemoveOldest \/ RenameOldest \/ Exit
    BY <2>3, Zenon DEF OnOpenError, RemoveOldest, RenameOldest, Exit
  <2>4. ASSUME ~failed, ~closing, mode = "idle", mode' = "idle",
               (\E s \in Nat : Sum(queued, s) /\ Counted(s))', (Over => Outstanding)'
        PROVE  WithinInv'
    BY <2>4, Zenon DEF WithinInv
  <2>5. ASSUME NEW t \in Threads, Flush(t) PROVE WithinInv'
    <3>1. UNCHANGED <<mode, closing, failed>>
      BY <2>5, Zenon DEF Flush, FlushRead, FlushAdd, FlushSubmit
    <3>2. mode = "idle"
      <4> SUFFICES ASSUME mode # "idle" PROVE FALSE
        BY Zenon
      <4>1. pc \in [Threads -> {"idle", "add", "submit", "overflow", "check"}]
        BY Zenon DEF FileInv, ThreadTypes
      <4>2. mode = "reopen" /\ t # Logger /\ t \in Busy'
        <5>1. ~starting
          BY <2>5, Zenon DEF Flush, FlushRead, FlushAdd, FlushSubmit, BusyInv
        <5>2. mode = "reopen"
          BY <3>1, <5>1, Zenon DEF PlaceInv
        <5>3. ~FlushSubmit(t)
          BY <5>2, Zenon DEF FlushSubmit
        <5>4. t # Logger
          BY <2>5, <5>2, <5>3, Zenon DEF Flush, FlushRead, FlushAdd, BusyInv
        <5>5. pc'[t] # "idle"
          BY <2>5, <4>1, <5>3, Zenon DEF Flush, FlushRead, FlushAdd
        <5> QED BY <5>2, <5>4, <5>5, Zenon DEF Busy
      <4>3. Logger \in Busy'
        BY <1>0, <3>1, <4>2, Zenon DEF Busy
      <4> QED BY <4>2, <4>3, Zenon DEF OneInv
    <3> QED BY <2>0, <2>4, <2>5, <3>1, <3>2, FlushWithin, Zenon
  <2>6. ASSUME NEW w \in queued, Perform(w) PROVE WithinInv'
    <3>1. UNCHANGED <<mode, closing, failed>>
      BY <2>6, Zenon DEF Perform
    <3>2. mode = "idle"
      BY <3>1, Zenon DEF RestInv
    <3> QED BY <2>0, <2>4, <2>6, <3>1, <3>2, PerformWithin, Zenon
  <2>7. ASSUME NEW w \in performed, WriteCb(w) PROVE WithinInv'
    <3>1. /\ mode = "idle" /\ Check(current_size') /\ submittedWrites' = submittedWrites - 1
          /\ UNCHANGED <<opts, disk, current_size, closing, failed, pc, job>> /\ pc'[Logger] = "idle"
      BY <2>7, Zenon DEF WriteCb, LoggerFree
    <3>2. mode' = "idle" /\ UNCHANGED queued
      BY <3>1, CheckDoes, Zenon
    <3>3. PICK s \in Nat : Sum(queued, s) /\ Counted(s)
      BY <2>0, <3>1, Zenon DEF WithinInv
    <3>4. Counted(s)'
      BY <3>1, <3>3, Zenon DEF Counted, Uncounted
    <3>5. Over' => Outstanding'
      BY <1>0, <3>1, <3>2, ReportWithin, Zenon
    <3> QED BY <2>4, <3>1, <3>2, <3>3, <3>4, <3>5, Zenon DEF Sum
  <2>8. CASE Overflow
    <3>1. mode = "idle" /\ mode' # "rotate" => mode' = "idle"
      <4>1. mode = "idle" => mode' \in {"idle", "rotate"}
        BY <2>8, CheckDoes, Zenon DEF Overflow, OverflowWrite, OverflowRead, OverflowCheck
      <4> QED BY <4>1, Zenon
    <3>2. mode = "idle" /\ UNCHANGED <<closing, failed>>
      BY <2>8, Zenon DEF Overflow, OverflowWrite, OverflowRead, OverflowCheck, LoggerFree, BusyInv
    <3> QED BY <1>0, <2>0, <2>4, <2>8, <3>1, <3>2, OverflowWithin, Zenon
  <2>9. CASE Shutdown
    BY <2>9, Zenon DEF Shutdown
  <2>10. ASSUME NEW len, FlushSync(len) PROVE WithinInv'
    BY <2>10, Zenon DEF FlushSync
  <2> QED BY <1>2, <2>1, <2>2, <2>3, <2>5, <2>6, <2>7, <2>8, <2>9, <2>10, Zenon DEF Next, Rotation
<1> QED BY <1>1, <1>2, Zenon

(* Before the first start nothing is counted. *)
LEMMA SizeInit == Init => SizeInv
<1> SUFFICES ASSUME Init PROVE SizeInv
  BY Zenon
<1>1. OneInv
  BY Zenon DEF Init, OneInv, Busy
<1>2. RestInv /\ WithinInv
  BY Zenon DEF Init, RestInv, WithinInv
<1> QED BY <1>1, <1>2, Zenon DEF SizeInv

(* "max size for any one file": when all writes have been reported, the      *)
(* current file is within the limit, whatever users flushed before, wherever *)
(* the process ended and however large the file was at the start; for a      *)
(* build that rotates and has a name for at least one rotated file.          *)
THEOREM QuietStaysWithinLimit ==
  ASSUME Build = "node", MaxRotated > 1
  PROVE  Spec => []QuietWithinLimit
<1>1. FileInv /\ FileInv' /\ BusyInv /\ RenameInv /\ SizeInv /\ [Next]_vars => SizeInv'
  <2> SUFFICES ASSUME FileInv, FileInv', BusyInv, RenameInv, SizeInv, [Next]_vars PROVE SizeInv'
    BY Zenon
  <2>1. OneInv' /\ RestInv'
    BY OneStep, RestStep, Zenon DEF SizeInv, RenameInv
  <2> QED BY <2>1, WithinStep, Zenon DEF SizeInv, RenameInv
<1>2. FileInv /\ RenameInv /\ SizeInv => QuietWithinLimit
  <2> SUFFICES ASSUME FileInv, RenameInv, SizeInv, Quiet, opts.asked.max_file_size # 0, ~raced, ~failed
               PROVE  disk[0].size <= opts.asked.max_file_size
    BY Zenon DEF QuietWithinLimit
  <2>1. mode = "idle" /\ ~closing /\ (\A t \in Threads : pc[t] = "idle") /\ queued \cup performed = {}
    BY Zenon DEF Quiet, Busy
  <2>2. PICK s \in Nat : Counted(s)
    BY <2>1, Zenon DEF SizeInv, WithinInv
  <2>3. ~Over
    BY <2>1, Zenon DEF SizeInv, WithinInv, Outstanding
  <2>4. Uncounted = 0
    BY <2>1, Zenon DEF Uncounted, Threads
  <2>5. disk[0].size \in Nat /\ current_size \in Nat /\ opts.asked.max_file_size \in Nat
    <3>1. 0 \in DOMAIN disk
      BY <2>1, Zenon DEF RenameInv, PlaceInv
    <3> QED BY <3>1, Zenon DEF FileInv, DiskInv, DiskTypes, ThreadTypes, OptsInv, Settings
  <2> QED BY <2>2, <2>3, <2>4, <2>5 DEF Counted, Over
<1> QED BY <1>1, <1>2, SizeInit, RenameInvariant, PTL DEF Spec
=============================================================================
