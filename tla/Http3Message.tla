---------------------------- MODULE Http3Message ----------------------------
(***************************************************************************)
(* One HTTP/3 request stream (rust/http3/src/stream.rs, message.rs): the   *)
(* half that reads a request (the server's, resolved by server.rs) or a    *)
(* response (the client's), piece by piece as QUIC delivers it, and the    *)
(* half that writes frames.  Bytes are counted, not kept.  `sent` is what  *)
(* the peer sent, frame by frame; the reader keeps only its own state.     *)
(***************************************************************************)
EXTENDS Integers, Sequences, SequencesExt

CONSTANTS
    Limit,      \* the field section limit, in bytes
    Connect,    \* MAX_CONNECT_BYTES
    MaxFrames,  \* frames a peer sends here
    MaxLength,  \* the longest frame here
    MaxInterim  \* interim responses read past, 5

VARIABLES
    role,       \* whose end this is: "Server" reads a request
    method,     \* the request's: "GET", "HEAD" or "CONNECT"
    sent,       \* the frames the peer began, unknown ones left out: [kind, length, interim]
    declared,   \* what the final head declares the body to be, Off when nothing
    msg,        \* Message: [phase, started, kind, remaining, section, owed]
    half,       \* RecvHalf: [at, left, code, interims]
    out,        \* SendHalf: [pending, end]
    conn        \* "Up" or "Closed", by a violation

vars == <<role, method, sent, declared, msg, half, out, conn>>

Off == -1
Data == 0..MaxLength
Kinds == {"HEADERS", "DATA", "BIDI", "PUSH", "CONTROL", "GREASE"}

\* Message::new; section: bytes kept of a field section split across chunks.
NewMessage == [phase |-> "Head", started |-> FALSE, kind |-> "GREASE", remaining |-> 0, section |-> 0, owed |-> Off]
NewHalf == [at |-> "Head", left |-> Off, code |-> "None", interims |-> 0]

Init ==
    /\ role \in {"Server", "Client"} /\ method \in {"GET", "HEAD", "CONNECT"}
    /\ sent = <<>> /\ declared = Off /\ conn = "Up" /\ msg = NewMessage
    /\ half = NewHalf
    /\ out = [pending |-> 0, end |-> "Open"]

(***************************************************************************)
(* Message: what a frame's header and payload mean in its phase.           *)
(***************************************************************************)
HeaderCode(k, n) ==
    CASE k = "HEADERS" -> IF msg.phase = "Trailers" THEN "FRAME_UNEXPECTED" ELSE IF n > Limit THEN "EXCESSIVE_LOAD" ELSE "None"
      [] k = "DATA" -> IF msg.phase = "Body" THEN "None" ELSE "FRAME_UNEXPECTED"
      [] k = "BIDI" -> IF msg.started \/ role = "Client" THEN "FRAME_ERROR" ELSE IF n % 4 # 0 THEN "ID_ERROR" ELSE "CANCELLED"
      [] k = "PUSH" -> IF role = "Client" THEN "ID_ERROR" ELSE "FRAME_UNEXPECTED"
      [] k = "CONTROL" -> "FRAME_UNEXPECTED"
      [] OTHER -> "None"

Fields(m) == [m EXCEPT !.phase = IF @ = "Head" THEN "Body" ELSE "Trailers", !.section = 0]

\* The first n bytes of the frame's payload; owed below zero is a violation.
Payload(m, n) ==
    LET rest == [m EXCEPT !.remaining = @ - n]
    IN CASE m.kind = "DATA" /\ m.owed # Off -> [rest EXCEPT !.owed = IF n <= @ THEN @ - n ELSE Off]
         [] m.kind = "HEADERS" -> IF rest.remaining = 0 THEN Fields(rest) ELSE [rest EXCEPT !.section = @ + n]
         [] OTHER -> rest

Overruns(m, n) == m.kind = "DATA" /\ m.owed # Off /\ n > m.owed

\* finish: `mid` when FIN arrives within a frame's header.
FinishCode(m, mid) ==
    IF m.remaining > 0 \/ mid THEN "FRAME_ERROR"
    ELSE IF m.phase = "Head" THEN "REQUEST_INCOMPLETE"
    ELSE IF m.owed > 0 THEN "MESSAGE_ERROR" ELSE "None"

(***************************************************************************)
(* RecvHalf.  Violations of frames, IDs and QPACK close the connection,    *)
(* the rest end only this stream; the first failure stands.                *)
(***************************************************************************)
Fatal == {"FRAME_UNEXPECTED", "FRAME_ERROR", "ID_ERROR", "DECOMPRESSION_FAILED"}

\* A server refuses a head over its limit with 431 and ends its answer;
\* another failure before the head is read resets the answer too.
Abort(code) ==
    /\ half' = [half EXCEPT !.at = "Failed", !.code = code]
    /\ conn' = IF code \in Fatal THEN "Closed" ELSE conn
    /\ out' = IF role = "Server" /\ half.at = "Head" /\ out.end = "Open" /\ code # "EXCESSIVE_LOAD" /\ code \notin Fatal
              THEN [out EXCEPT !.end = "Cut"] ELSE out

Reading == half.at \in {"Head", "Body"} /\ conn = "Up"

\* poll_event took n wire bytes and left the message m; fits: the budget holds
\* the section it keeps.
Continue(m, n, fits) ==
    LET over == half.left # Off /\ n > half.left
        refused == m.section > 0 /\ ~fits
    IN IF over THEN msg' = m /\ Abort("EXCESSIVE_LOAD")
       ELSE IF refused THEN msg' = m /\ Abort(IF m.phase = "Head" THEN "REQUEST_REJECTED" ELSE "EXCESSIVE_LOAD")
       ELSE /\ msg' = m
            /\ half' = [half EXCEPT !.left = IF @ = Off THEN Off ELSE @ - n]
            /\ UNCHANGED <<out, conn>>

\* A head is complete in `m` and not yet decoded: the next step decodes it.
HeadDue == Reading /\ half.at = "Head" /\ msg.phase = "Body"

Header(k, n, fits) ==
    /\ Reading /\ ~HeadDue /\ msg.remaining = 0 /\ Len(sent) < MaxFrames
    /\ sent' = IF k = "GREASE" THEN sent ELSE Append(sent, [kind |-> k, length |-> n, interim |-> FALSE])
    /\ LET code == HeaderCode(k, n)
           begun == [msg EXCEPT !.started = TRUE, !.kind = k, !.remaining = n]
       IN IF code # "None" THEN msg' = begun /\ Abort(code)
          ELSE Continue(IF k = "HEADERS" /\ n = 0 THEN Fields(begun) ELSE begun, 2, fits)
    /\ UNCHANGED <<role, method, declared>>

ReadPayload(n, fits) ==
    /\ Reading /\ ~HeadDue /\ n \in 1..msg.remaining
    /\ IF Overruns(msg, n) THEN msg' = [msg EXCEPT !.remaining = @ - n] /\ Abort("MESSAGE_ERROR")
       ELSE Continue(Payload(msg, n), n, fits)
    /\ UNCHANGED <<role, method, sent, declared>>

\* What a FIN owes: nothing is read after it.
Fin(mid) ==
    /\ Reading /\ ~HeadDue
    /\ LET code == FinishCode(msg, mid)
       IN IF code # "None" THEN Abort(code)
          ELSE half' = [half EXCEPT !.at = "Complete"] /\ UNCHANGED <<out, conn>>
    /\ UNCHANGED <<role, method, sent, declared, msg>>

\* Nothing is read after it, and what was is forgotten.
Over(at) ==
    /\ half' = [NewHalf EXCEPT !.at = at] /\ msg' = NewMessage /\ sent' = <<>> /\ declared' = Off
    /\ UNCHANGED <<role, method, out, conn>>

PeerResets == Reading /\ Over("Reset")

\* Trailers are checked and dropped.
BadTrailers ==
    /\ Reading /\ msg.phase = "Trailers" /\ Abort("MESSAGE_ERROR")
    /\ UNCHANGED <<role, method, sent, declared, msg>>

(***************************************************************************)
(* The head, once its section is complete.                                 *)
(***************************************************************************)
\* server.rs: the request is resolved, charged and its body's length owed; an
\* extended CONNECT bounds what its peer may still send.
Resolve(length) ==
    /\ HeadDue /\ role = "Server"
    /\ msg' = [msg EXCEPT !.owed = length] /\ declared' = length
    /\ half' = [half EXCEPT !.at = "Body", !.left = IF method = "CONNECT" THEN Connect ELSE Off]
    /\ UNCHANGED <<role, method, sent, out, conn>>

\* Over the limit 431, unsupported 400, malformed or over budget reset, and
\* undecodable the connection's end; HEADER_TIMEOUT before any of them.
RefuseHead(code) ==
    /\ role = "Server" /\ half.at = "Head" /\ conn = "Up"
    /\ HeadDue \/ code = "REQUEST_INCOMPLETE"
    /\ IF code = "BAD_REQUEST" THEN half' = [half EXCEPT !.at = "Failed", !.code = code] /\ UNCHANGED <<out, conn>>
       ELSE Abort(code)
    /\ UNCHANGED <<role, method, sent, declared, msg>>

Refusals == {"EXCESSIVE_LOAD", "BAD_REQUEST", "MESSAGE_ERROR", "REQUEST_REJECTED", "DECOMPRESSION_FAILED", "REQUEST_INCOMPLETE"}

\* The client: an interim head restarts the message, within a bound.
Interim ==
    /\ HeadDue /\ role = "Client"
    /\ sent' = [sent EXCEPT ![Len(sent)].interim = TRUE] /\ msg' = NewMessage
    /\ IF half.interims = MaxInterim THEN Abort("EXCESSIVE_LOAD")
       ELSE half' = [half EXCEPT !.interims = @ + 1] /\ UNCHANGED <<out, conn>>
    /\ UNCHANGED <<role, method, declared>>

Owed(status, length) ==
    IF method = "CONNECT" /\ status = "Success" THEN Off
    ELSE IF method = "HEAD" \/ status = "Empty" THEN 0 ELSE length

Response(status, length) ==
    /\ HeadDue /\ role = "Client"
    /\ msg' = [msg EXCEPT !.owed = Owed(status, length)] /\ declared' = Owed(status, length)
    /\ half' = [half EXCEPT !.at = "Body",
                            !.left = IF method = "CONNECT" /\ status = "Success" THEN Connect ELSE Off]
    /\ UNCHANGED <<role, method, sent, out, conn>>

BadResponse(code) ==
    /\ HeadDue /\ role = "Client" /\ Abort(code)
    /\ UNCHANGED <<role, method, sent, declared, msg>>

DropRecv == half.at \in {"Head", "Body"} /\ Over("Dropped")

(***************************************************************************)
(* SendHalf: frames go out whole, one after the other; a send that is      *)
(* cancelled leaves its frame to the next.                                 *)
(***************************************************************************)
Sending == out.end = "Open" /\ conn = "Up"

Queue(n) ==
    /\ Sending /\ out.pending = 0 /\ out' = [out EXCEPT !.pending = n]
    /\ UNCHANGED <<role, method, sent, declared, msg, half, conn>>

\* A CLOSE capsule follows whatever is pending.
QueueAfter(n) ==
    /\ Sending /\ out.pending \in 1..(MaxLength - 1) /\ out' = [out EXCEPT !.pending = @ + n]
    /\ UNCHANGED <<role, method, sent, declared, msg, half, conn>>

PollReady(n) ==
    /\ Sending /\ n <= out.pending /\ out' = [out EXCEPT !.pending = @ - n]
    /\ UNCHANGED <<role, method, sent, declared, msg, half, conn>>

\* FIN after what is pending, or cut by a peer that stopped the stream.
FinishSend ==
    /\ Sending
    /\ \E end \in IF out.pending = 0 THEN {"Finished", "Cut"} ELSE {"Cut"} : out' = [out EXCEPT !.end = end]
    /\ UNCHANGED <<role, method, sent, declared, msg, half, conn>>

\* Dropped unfinished, it resets.
DropSend ==
    /\ Sending /\ out' = [out EXCEPT !.end = "Cut"]
    /\ UNCHANGED <<role, method, sent, declared, msg, half, conn>>

Lengths == {Off} \union Data

Next ==
    \/ \E k \in Kinds, n \in Data, fits \in BOOLEAN : Header(k, n, fits)
    \/ \E n \in Data, fits \in BOOLEAN : ReadPayload(n, fits)
    \/ \E mid \in BOOLEAN : Fin(mid)
    \/ \E length \in Lengths : Resolve(length) \/ \E status \in {"Success", "Empty", "Other"} : Response(status, length)
    \/ \E code \in Refusals : RefuseHead(code)
    \/ \E code \in {"MESSAGE_ERROR", "EXCESSIVE_LOAD", "DECOMPRESSION_FAILED"} : BadResponse(code)
    \/ PeerResets \/ BadTrailers \/ Interim \/ DropRecv
    \/ Queue(MaxLength) \/ QueueAfter(1) \/ (\E n \in 1..MaxLength : PollReady(n))
    \/ FinishSend \/ DropSend

Spec == Init /\ [][Next]_vars

(***************************************************************************)
(* What RFC 9114 makes of the same frames, read whole: interim heads       *)
(* aside, a head, data and at most one trailer.                            *)
(***************************************************************************)
Proper == SelectSeq(sent, LAMBDA f : ~f.interim)

Sequenced ==
    /\ \A i \in DOMAIN Proper : Proper[i].kind \in {"HEADERS", "DATA"}
    /\ \A i \in DOMAIN Proper : Proper[i].kind = "DATA" =>
         i > 1 /\ Proper[1].kind = "HEADERS" /\ \A j \in 2..i : Proper[j].kind = "DATA"
    /\ \A i \in DOMAIN Proper : i > 2 /\ Proper[i].kind = "HEADERS" => \A j \in 2..(i - 1) : Proper[j].kind = "DATA"
    /\ \A i \in DOMAIN sent : sent[i].kind = "HEADERS" => sent[i].length <= Limit

Body == FoldSeq(LAMBDA f, total : total + IF f.kind = "DATA" THEN f.length ELSE 0, 0, sent)
Received == Body - IF msg.kind = "DATA" THEN msg.remaining ELSE 0

\* Whatever chunks it arrives in, a message is read to its end exactly when
\* its frames are in sequence and its body is what its head declared; frames
\* out of sequence never pass, and are what a connection is closed for.
ReadExactly ==
    /\ half.at = "Complete" => Sequenced /\ Proper # <<>> /\ msg.remaining = 0 /\ (declared # Off => Body = declared)
    /\ half.at \in {"Head", "Body"} => Sequenced /\ (declared # Off => Received <= declared)
    /\ half.code = "FRAME_UNEXPECTED" => ~Sequenced
    /\ out.end = "Finished" => out.pending = 0
==============================================================================
