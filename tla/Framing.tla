------------------------------- MODULE Framing -------------------------------
(***************************************************************************)
(* The datagrams between the client library and UnixDgramSink.  A datagram *)
(* is a sequence of cells; a cell stands for two bytes of the header words *)
(* and for any run of bytes elsewhere.  MetaSize is the number of cells of *)
(* a logMeta.  Datagrams fit one receive buffer of the sink.               *)
(***************************************************************************)
EXTENDS Integers, Sequences

CONSTANT MetaSize
ASSUME MetaSizeAssumption == MetaSize \in Nat \ {0}

PREAMBLE == <<"pre", "amble">>
PING == <<"pi", "ng">>
PingSize == Len(PING)
HeaderSize == Len(PREAMBLE) + 2

Header(n) == PREAMBLE \o <<n, "size">>
Meta == [i \in 1..MetaSize |-> "meta"]

\* The three buffers of grease_logToSink(): header, logMeta, string.
LogToSink(s) == Header(Len(s) + MetaSize) \o Meta \o s

\* _grease_logToRaw(): the length counts the header but not the logMeta, and
\* *buflen, what is to be sent of the buffer, is set to the string's length.
LogToRaw(s) ==
    LET tobuf == Header(Len(s) + HeaderSize) \o Meta \o s
    IN SubSeq(tobuf, 1, Len(s))

\* A receive buffer is zeroed before it is filled.
At(d, i) == IF i \in DOMAIN d THEN d[i] ELSE 0
IsPing(d, w) == <<At(d, w + 1), At(d, w + 2)>> = PING
IsPreamble(d, w) == <<At(d, w + 1), At(d, w + 2)>> = PREAMBLE

Log(raw) == [op |-> "log", raw |-> raw]
Ack == [op |-> "ack", raw |-> <<>>]

\* Mutant: an entry that ends with its datagram is taken for a part of one.
FrameStepShort(d, w) ==
    LET rest == Len(d) - w
        body == w + HeaderSize
        entrySize == At(d, w + 3)
    IN CASE rest < PingSize -> [does |-> <<>>, walk |-> Len(d)]
         [] rest >= PingSize /\ IsPing(d, w) -> [does |-> <<Ack>>, walk |-> body]
         [] rest >= PingSize /\ IsPreamble(d, w) ->
              IF body < Len(d) /\ Len(d) - body > entrySize
              THEN [does |-> <<Log(SubSeq(d, body + 1, body + entrySize))>>,
                    walk |-> body + entrySize]
              ELSE [does |-> <<>>, walk |-> Len(d)]
         [] OTHER -> [does |-> <<>>, walk |-> body]

\* One turn of the loop over a datagram, from NEED_PREAMBLE with w cells walked:
\* what it does and the cells walked after it.  A rest shorter than a ping
\* (IN_PREAMBLE) or than the entry (IN_LOG) is copied aside and never looked at
\* again, because the next datagram starts from NEED_PREAMBLE.
FrameStep(d, w) ==
    LET rest == Len(d) - w
        body == w + HeaderSize
        entrySize == At(d, w + 3)
    IN CASE rest < PingSize -> [does |-> <<>>, walk |-> Len(d)]
         [] rest >= PingSize /\ IsPing(d, w) -> [does |-> <<Ack>>, walk |-> body]
         [] rest >= PingSize /\ IsPreamble(d, w) ->
              IF body < Len(d) /\ Len(d) - body >= entrySize
              THEN [does |-> <<Log(SubSeq(d, body + 1, body + entrySize))>>,
                    walk |-> body + entrySize]
              ELSE [does |-> <<>>, walk |-> Len(d)]
         [] OTHER -> [does |-> <<>>, walk |-> body]

\* The loop of listener_work() over the datagram d.
ParseDatagram(d) ==
    LET from[w \in Nat] ==
            IF w >= Len(d) THEN <<>>
            ELSE LET step == FrameStep(d, w) IN step.does \o from[step.walk]
    IN from[0]

\* logFromRaw(): a raw entry that is all logMeta, or less, has nothing to log.
LogFromRaw(raw) ==
    IF Len(raw) > MetaSize THEN SubSeq(raw, MetaSize + 1, Len(raw)) ELSE <<>>
=============================================================================
