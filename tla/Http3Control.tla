---------------------------- MODULE Http3Control ----------------------------
(***************************************************************************)
(* The unidirectional streams a peer opens on an HTTP/3 connection         *)
(* (rust/http3/src/driver.rs): admitted under the budget, typed in time,   *)
(* read as the control and QPACK streams, and the SETTINGS (settings.rs)   *)
(* that tell whether, and in which dialect, the peer speaks WebTransport.  *)
(* The connection closes on the first violation.  `frames` and `pairs` are *)
(* what the peer sent, kept for the properties.                            *)
(***************************************************************************)
EXTENDS Integers, Sequences, FiniteSets

CONSTANTS
    Streams, Floor,     \* the peer's streams, and those the connection's floor covers
    TypeTimeout, MaxIds,
    MaxFrames           \* control frames a peer sends here

VARIABLES
    role,       \* the peer's: "Client" or "Server"
    frameless,  \* the transport carries no datagrams
    streams,    \* per stream [at, left]
    floor,      \* streams still covered by the floor
    critical,   \* the critical types taken
    reader,     \* ControlReader: [started, settings, goaway]
    peer,       \* the settings read so far
    known,      \* the peer's SETTINGS are published
    going,      \* the peer's GOAWAY was read
    code,       \* what the connection closed with
    frames, pairs

vars == <<role, frameless, streams, floor, critical, reader, peer, known, going, code, frames, pairs>>

Off == -1
Critical == {"CONTROL", "ENCODER", "DECODER"}
Types == Critical \union {"PUSH", "SESSION", "BADSESSION", "OTHER"}
Ids == {"CONNECT", "DATAGRAM", "DATAGRAM04", "DRAFT02", "CURRENT", "RESERVED", "GREASE"}
NoPeer == [connect |-> FALSE, h3 |-> FALSE, datagrams |-> FALSE, draft02 |-> FALSE, current |-> FALSE]

NoStreams == [s \in Streams |-> [at |-> "None", left |-> Off]]
NoReader == [started |-> FALSE, settings |-> FALSE, goaway |-> Off]

Init ==
    /\ role \in {"Client", "Server"} /\ frameless \in BOOLEAN
    /\ streams = NoStreams
    /\ floor = Floor /\ critical = {} /\ known = FALSE /\ going = FALSE /\ code = "None"
    /\ reader = NoReader
    /\ peer = NoPeer /\ frames = <<>> /\ pairs = <<>>

Up == code = "None"

\* The connection closes, and the driver with what it read.
Violates(c) ==
    /\ code' = c
    /\ streams' = NoStreams /\ floor' = Floor /\ critical' = {} /\ reader' = NoReader /\ peer' = NoPeer
    /\ known' = FALSE /\ going' = FALSE /\ frames' = <<>> /\ pairs' = <<>>
    /\ UNCHANGED <<role, frameless>>

(***************************************************************************)
(* Incoming: a stream is admitted, typed, and ends.                        *)
(***************************************************************************)
Admit(s, fits) ==
    /\ Up /\ streams[s].at = "None"
    /\ streams' = [streams EXCEPT ![s] = IF floor > 0 \/ fits THEN [at |-> "Unknown", left |-> TypeTimeout]
                                         ELSE [at |-> "Refused", left |-> Off]]
    /\ floor' = IF floor > 0 THEN floor - 1 ELSE 0
    /\ UNCHANGED <<role, frameless, critical, reader, peer, known, going, code, frames, pairs>>

Classified(s, t) == streams' = [streams EXCEPT ![s] = [at |-> t, left |-> Off]]

Classify(s, t) ==
    /\ Up /\ streams[s].at = "Unknown"
    /\ \/ /\ t \in Critical \ critical
          /\ Classified(s, t) /\ critical' = critical \union {t}
          /\ UNCHANGED <<role, frameless, floor, reader, peer, known, going, code, frames, pairs>>
       \/ t \in critical /\ Violates("STREAM_CREATION_ERROR")
       \/ /\ t \in {"SESSION", "OTHER"}     \* handed to the session, or stopped
          /\ Classified(s, t)
          /\ UNCHANGED <<role, frameless, floor, critical, reader, peer, known, going, code, frames, pairs>>
       \/ t = "BADSESSION" /\ Violates("ID_ERROR")
       \/ t = "PUSH" /\ Violates(IF role = "Server" THEN "ID_ERROR" ELSE "STREAM_CREATION_ERROR")

\* An untyped stream may end; a critical one may not, nor a QPACK instruction
\* be wrong, nor the peer stop our control stream.
StreamEnds(s) ==
    /\ Up
    /\ \/ /\ streams[s].at = "Unknown" /\ Classified(s, "Done")
          /\ UNCHANGED <<role, frameless, floor, critical, reader, peer, known, going, code, frames, pairs>>
       \/ streams[s].at \in Critical /\ Violates("CLOSED_CRITICAL_STREAM")
       \/ streams[s].at \in {"ENCODER", "DECODER"} /\ Violates("QPACK_STREAM_ERROR")

ControlStopped == Up /\ Violates("CLOSED_CRITICAL_STREAM")

Expire(s) ==
    /\ Up /\ streams[s].at = "Unknown" /\ streams[s].left = 0 /\ Classified(s, "Stopped")
    /\ UNCHANGED <<role, frameless, floor, critical, reader, peer, known, going, code, frames, pairs>>

(***************************************************************************)
(* ControlReader: SETTINGS, then what may follow.  `bad`: the frame's      *)
(* length, or the varint it holds, is not what its type takes.             *)
(***************************************************************************)
Following == {"SETTINGS", "GOAWAY", "PUSHES", "CANCEL", "MESSAGE", "BIDI", "GREASE"}

FrameCode(k, id, bad) ==
    CASE k = "PUSHES" /\ role = "Server" -> "FRAME_UNEXPECTED"
      [] k = "CANCEL" /\ role = "Server" -> "ID_ERROR"
      [] k \in {"GOAWAY", "PUSHES", "CANCEL"} /\ bad -> "FRAME_ERROR"
      [] k \in {"SETTINGS", "MESSAGE"} -> "FRAME_UNEXPECTED"   \* DATA, HEADERS, PUSH_PROMISE, HTTP/2's
      [] k = "BIDI" -> "FRAME_ERROR"
      [] k = "GOAWAY" /\ role = "Server" /\ (id % 4 # 0 \/ (reader.goaway # Off /\ id > reader.goaway)) -> "ID_ERROR"
      [] OTHER -> "None"

Controlled == Up /\ \E s \in Streams : streams[s].at = "CONTROL"

Frame(k, id, bad) ==
    /\ Controlled /\ ~reader.settings /\ Len(frames) < MaxFrames
    /\ LET code1 == IF reader.started THEN FrameCode(k, id, bad)
                    ELSE IF k # "SETTINGS" THEN "MISSING_SETTINGS"
                    ELSE IF bad THEN "EXCESSIVE_LOAD" ELSE "None"
           told == k = "GOAWAY" /\ role = "Server"
       IN IF code1 # "None" THEN Violates(code1)
          ELSE /\ frames' = Append(frames, [kind |-> k, id |-> id])
               /\ reader' = [started |-> TRUE, settings |-> ~reader.started, goaway |-> IF told THEN id ELSE reader.goaway]
               /\ going' = (going \/ told)
               /\ UNCHANGED <<role, frameless, streams, floor, critical, peer, known, code, pairs>>

\* apply: reserved and repeated identifiers, and a switch above one, are wrong.
Repeated(id) == \E i \in DOMAIN pairs : pairs[i][1] = id

SettingCode(id, v) ==
    IF id = "RESERVED" \/ Repeated(id) THEN "SETTINGS_ERROR"
    ELSE IF Len(pairs) = MaxIds THEN "EXCESSIVE_LOAD"
    ELSE IF id \in {"CONNECT", "DATAGRAM"} /\ v > 1 THEN "SETTINGS_ERROR" ELSE "None"

Applied(id, v) ==
    CASE id = "CONNECT" -> [peer EXCEPT !.connect = (v = 1)]
      [] id = "DATAGRAM" -> [peer EXCEPT !.h3 = (v = 1), !.datagrams = @ \/ v = 1]
      [] id = "DATAGRAM04" -> [peer EXCEPT !.datagrams = @ \/ v = 1]
      [] id = "DRAFT02" -> [peer EXCEPT !.draft02 = (v = 1)]
      [] id = "CURRENT" -> [peer EXCEPT !.current = v > 0]
      [] OTHER -> peer

Setting(id, v) ==
    /\ Controlled /\ reader.settings
    /\ IF SettingCode(id, v) # "None" THEN Violates(SettingCode(id, v))
       ELSE /\ peer' = Applied(id, v) /\ pairs' = Append(pairs, <<id, v>>)
            /\ UNCHANGED <<role, frameless, streams, floor, critical, reader, known, going, code, frames>>

\* The frame ends, `bad` within a pair; the settings must agree with QUIC's.
SettingsEnd(bad) ==
    /\ Controlled /\ reader.settings
    /\ IF bad THEN Violates("FRAME_ERROR")
       ELSE IF peer.h3 /\ frameless THEN Violates("SETTINGS_ERROR")
       ELSE /\ reader' = [reader EXCEPT !.settings = FALSE] /\ known' = TRUE
            /\ UNCHANGED <<role, frameless, streams, floor, critical, peer, going, code, frames, pairs>>

Dialect ==
    IF ~known \/ ~peer.datagrams \/ frameless THEN "None"
    ELSE IF peer.current THEN "Draft15" ELSE IF peer.draft02 THEN "Draft02" ELSE "None"

Tick ==
    /\ Up /\ ~\E s \in Streams : streams[s].left = 0
    /\ streams' = [s \in Streams |-> [streams[s] EXCEPT !.left = IF @ > 0 THEN @ - 1 ELSE @]]
    /\ UNCHANGED <<role, frameless, floor, critical, reader, peer, known, going, code, frames, pairs>>

Next ==
    \/ \E s \in Streams :
         \/ \E fits \in BOOLEAN : Admit(s, fits)
         \/ \E t \in Types : Classify(s, t)
         \/ StreamEnds(s) \/ Expire(s)
    \/ \E k \in Following, id \in {2, 4, 8}, bad \in BOOLEAN : (k # "GOAWAY" => id = 4) /\ Frame(k, id, bad)
    \/ \E id \in Ids, v \in 0..2 : Setting(id, v)
    \/ \E bad \in BOOLEAN : SettingsEnd(bad)
    \/ ControlStopped \/ Tick

Spec == Init /\ [][Next]_vars

(***************************************************************************)
(* Properties.                                                             *)
(***************************************************************************)
Said(id, v) == \E i \in DOMAIN pairs : pairs[i] = <<id, v>>

\* A connection that stays open has one stream of each critical type at most,
\* still open, a control stream whose SETTINGS came first and once and whose
\* GOAWAYs only fall, and knows its peer as the SETTINGS say in any order.
ControlSound ==
    Up =>
        /\ \A t \in critical : Cardinality({s \in Streams : streams[s].at = t}) = 1
        /\ \A i \in DOMAIN frames : frames[i].kind = "SETTINGS" <=> i = 1
        /\ role = "Server" => \A i, j \in DOMAIN frames :
             i < j /\ frames[i].kind = "GOAWAY" /\ frames[j].kind = "GOAWAY" => frames[j].id <= frames[i].id
        /\ going => role = "Server" /\ \E i \in DOMAIN frames : frames[i].kind = "GOAWAY"
        /\ Dialect # "None" <=> known /\ ~frameless /\ (Said("DATAGRAM", 1) \/ Said("DATAGRAM04", 1))
                                /\ (Said("CURRENT", 1) \/ Said("CURRENT", 2) \/ Said("DRAFT02", 1))
==============================================================================
