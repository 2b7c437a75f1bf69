------------------------------ MODULE KlogParse ------------------------------
(***************************************************************************)
(* The two parsers of kernel log lines, parse_single_klog_to_singleLog()   *)
(* for klogctl() and parse_single_devklog_to_singleLog() for /dev/kmsg.    *)
(* A text is a sequence of characters; a parser's loop is a function on its *)
(* local variables.                                                        *)
(***************************************************************************)
EXTENDS Integers, Sequences, SequencesExt

CONSTANT BufLen          \* bytes of an entry's buffer
ASSUME BufLenAssumption == BufLen \in Nat

Digits == <<"0", "1", "2", "3", "4", "5", "6", "7", "8", "9">>
IsDigit(ch) == ch \in ToSet(Digits)
\* *cap - '0'; what is no digit gives a number out of all ranges.
Value(ch) == IF IsDigit(ch) THEN (CHOOSE i \in 1..10 : Digits[i] = ch) - 1 ELSE -100

\* The tables of levels: 0..7 are the kernel's, 12 is a line written by a user.
Level(k) ==
    CASE k \in 0..3 -> "ERROR" [] k \in 4..5 -> "WARN" [] k \in {6, 12} -> "INFO" [] OTHER -> "DEBUG"
DefaultLevel == "INFO"

\* look characters were walked; cap is where the last capture began.
Begin == [state |-> "LEVEL_BEGIN", look |-> 0, cap |-> 0, level |-> DefaultLevel]
Done(s) == s.state \in {"INVALID", "END_LOG"}
Enter(s, state) == [s EXCEPT !.state = state]
EnterAt(s, state, cap) == [s EXCEPT !.state = state, !.cap = cap]
Levelled(s, level) == [s EXCEPT !.state = "TIME_STAMP_BEGIN", !.level = level]

\* '>' ends the level: one character between the brackets.
KlogLevel(buf, s) ==
    LET ch == buf[s.cap + 1]
    IN CASE s.look # s.cap + 1 -> Enter(s, "INVALID")
         [] s.look = s.cap + 1 /\ ch = "c" -> Enter(s, "CONT_BODY_BEGIN")
         [] s.look = s.cap + 1 /\ ch = "d" -> Levelled(s, DefaultLevel)
         [] s.look = s.cap + 1 /\ Value(ch) \in 0..7 -> Levelled(s, Level(Value(ch)))
         [] OTHER -> Enter(s, "INVALID")

\* Mutant: the character after ']' is not looked at, so that the body of a bare line
\* runs into the next line.
KlogBodyAny(s, ch) == EnterAt(s, "IN_BODY", s.look + 1)

KlogBody(s, ch) == EnterAt(s, IF ch = "\n" THEN "END_LOG" ELSE "IN_BODY", s.look + 1)

KlogChar(buf, s, ch) ==
    CASE s.state = "LEVEL_BEGIN" ->
           IF ch = "<" THEN EnterAt(s, "IN_LEVEL", s.look + 1) ELSE Enter(s, "INVALID")
      [] s.state = "IN_LEVEL" -> IF ch = ">" THEN KlogLevel(buf, s) ELSE s
      [] s.state = "TIME_STAMP_BEGIN" ->
           Enter(s, IF ch = "[" THEN "IN_TIME_STAMP" ELSE "INVALID")
      [] s.state = "IN_TIME_STAMP" ->
           IF ch = "]" THEN Enter(s, "BODY_BEGIN")
           ELSE IF IsDigit(ch) \/ ch \in {".", " "} THEN s ELSE Enter(s, "INVALID")
      [] s.state = "BODY_BEGIN" -> KlogBody(s, ch)
      [] s.state = "IN_BODY" -> IF ch = "\n" THEN Enter(s, "END_LOG") ELSE s
      [] OTHER -> s

\* ',' ends the level: one or two characters.  Anything else stays in the level,
\* since the ';' asked for there is never the ',' at hand.
DevLevel(buf, s) ==
    LET one == s.look = s.cap + 1
        ch == buf[s.cap + 1]
        k == CASE one -> Value(ch)
               [] ~one /\ ch = "1" -> Value(buf[s.cap + 2]) + 10
               [] OTHER -> 20
    IN CASE s.look \notin {s.cap + 1, s.cap + 2} -> s
         [] s.look \in {s.cap + 1, s.cap + 2} /\ ch = "c" -> Enter(s, "CONT_BODY_BEGIN")
         [] s.look \in {s.cap + 1, s.cap + 2} /\ ch = "d" -> Levelled(s, DefaultLevel)
         [] OTHER -> Levelled(s, IF k \in 0..19 THEN Level(k) ELSE DefaultLevel)

DevChar(buf, s, ch) ==
    LET last == s.look = Len(buf) - 1
        endOr(state) == IF last THEN "END_LOG" ELSE state
    IN CASE s.state = "LEVEL_BEGIN" -> EnterAt(s, "IN_LEVEL", s.look)
         [] s.state = "IN_LEVEL" -> IF ch = "," THEN DevLevel(buf, s) ELSE s
         [] s.state = "TIME_STAMP_BEGIN" -> IF ch = ";" THEN Enter(s, "BODY_BEGIN") ELSE s
         [] s.state = "BODY_BEGIN" -> EnterAt(s, endOr("IN_BODY"), s.look)
         [] s.state = "IN_BODY" -> Enter(s, endOr("IN_BODY"))
         [] OTHER -> s

\* What is copied into the entry: all but the last character walked, if it fits.
Captured(buf, s) ==
    LET text == SubSeq(buf, s.cap + 1, s.look - 1)
    IN SubSeq(text, 1, IF Len(text) > BufLen THEN BufLen ELSE Len(text))

\* Mutant: a line without a body is no success.
ResultNonEmpty(buf, from, s) ==
    [ok |-> s.state = "END_LOG" /\ s.look > s.cap + 1, state |-> s.state,
     level |-> s.level, text |-> Captured(buf, s), moved |-> from + s.look]

\* The result of a call on the text from place `from' on: whether it returned
\* true, the state it left, the entry's level and text, and where it stopped.
Result(buf, from, s) ==
    [ok |-> s.state = "END_LOG" /\ s.look > s.cap, state |-> s.state,
     level |-> s.level, text |-> Captured(buf, s), moved |-> from + s.look]

Walk(s) == [s EXCEPT !.look = @ + 1]
ParserStates == [state : STRING, look : Nat, cap : Nat, level : STRING]

ParseKlog(all, from) ==
    LET buf == SubSeq(all, from + 1, Len(all))
        loop[s \in ParserStates] ==
            IF Done(s) \/ s.look = Len(buf) THEN s
            ELSE loop[Walk(KlogChar(buf, s, buf[s.look + 1]))]
    IN Result(buf, from, loop[Begin])

ParseDevklog(buf) ==
    LET loop[s \in ParserStates] ==
            IF Done(s) \/ s.look = Len(buf) THEN s
            ELSE loop[Walk(DevChar(buf, s, buf[s.look + 1]))]
    IN Result(buf, 0, loop[Begin])
=============================================================================
