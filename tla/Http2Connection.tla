--------------------------- MODULE Http2Connection ---------------------------
(***************************************************************************)
(* One HTTP/2 connection of the server (rust/server/src/transport/         *)
(* http2.rs) with what decides when it ends: its lifecycle, the exchanges  *)
(* and lanes of its streams, their replies and uploads, and the credit of  *)
(* its receive window.  The connection is one task.  A poll of it runs the *)
(* streams, then accepts and flushes, then asks the lifecycle; between     *)
(* polls time passes, but never past a timer the last poll registered.  A  *)
(* timer holds the time it has left, Off when there is none.               *)
(***************************************************************************)
EXTENDS Lane

CONSTANT Streams    \* streams open at once, MAX_CONCURRENT_STREAMS

VARIABLES
    pc,         \* "Idle" between polls, "Streams", "Accept", "Life"; "Closed"
    shutdown,   \* time since the server's shutdown, Off before it
    life,       \* Lifecycle: [stopping, busy, stale, quiet, closing]
    work,       \* Work: [age, fresh], the idle period and whether life saw it
    streams,    \* one record per stream slot
    window,     \* Http2Window: [credit, raised, wide]
    socket,     \* [blocked, queued]: a stalled write's time left, frames unsent
    bare,       \* time since the connection last had a stream
    ended       \* what ended the connection

vars == <<pc, shutdown, life, work, streams, window, socket, bare, ended>>

\* A slot without a stream.  `admitted` is also the work guard of `bounded`.
Unused == [pc |-> "None", deadline |-> Off, admitted |-> FALSE, lane |-> NoLane,
           until |-> Off, reading |-> FALSE, funded |-> FALSE]

Running(ss) == \E s \in Streams : ss[s].admitted
Used(ss) == \E s \in Streams : ss[s].pc # "None"
Busy == Running(streams)

Init ==
    /\ pc = "Idle" /\ shutdown = Off /\ ended = "No" /\ bare = 0
    /\ life = [stopping |-> FALSE, busy |-> TRUE, stale |-> Off, quiet |-> Off, closing |-> Off]
    /\ work = [age |-> 0, fresh |-> TRUE]
    /\ streams = [s \in Streams |-> Unused]
    /\ window = [credit |-> FALSE, raised |-> FALSE, wide |-> FALSE]
    /\ socket = [blocked |-> Off, queued |-> FALSE]

(***************************************************************************)
(* A step of stream s: its record becomes r, the last admitted work ending *)
(* dates the idle period, and a body dropped by its last reader narrows    *)
(* the window.                                                             *)
(***************************************************************************)
Narrowed(w, ss) == [w EXCEPT !.wide = @ /\ \E s \in Streams : ss[s].reading]

Moves(s, r, ran) ==
    LET after == [streams EXCEPT ![s] = r]
        idles == ~Running(after) /\ (Busy \/ ran)
    IN /\ streams' = after
       /\ work' = IF idles THEN [age |-> 0, fresh |-> TRUE] ELSE work
       /\ window' = Narrowed(window, after)
       /\ socket' = [socket EXCEPT !.queued = @ \/ r.pc = "None"]
       /\ UNCHANGED <<pc, shutdown, life, bare, ended>>

Over(s, ran) == Moves(s, Unused, ran)

Polling(s, at) == pc = "Streams" /\ streams[s].pc = at

(***************************************************************************)
(* A request before it is admitted.                                        *)
(***************************************************************************)
\* Every answer the app gives without a lane, refusals included.
Answer(s) ==
    /\ Polling(s, "Handling")
    /\ Moves(s, [streams[s] EXCEPT !.pc = "Next", !.until = streams[s].deadline], FALSE)

\* The handler's own end without an answer, as for an upgrade HTTP/2 lacks.
AbortUnanswered(s) == Polling(s, "Handling") /\ Over(s, FALSE)

Admitted(r) == [r EXCEPT !.admitted = TRUE, !.deadline = Off, !.lane = Start]

\* A download or a feed replies with its lane.
AdmitReply(s) ==
    /\ Polling(s, "Handling")
    /\ Moves(s, [Admitted(streams[s]) EXCEPT !.pc = "Next"], TRUE)

\* HEAD, an empty download or an upload refused by the store drop their lane.
AdmitAnswer(s) ==
    /\ Polling(s, "Handling")
    /\ Moves(s, [streams[s] EXCEPT !.pc = "Next", !.admitted = TRUE, !.deadline = Off,
                                   !.until = streams[s].deadline], TRUE)

AdmitUpload(s) ==
    /\ Polling(s, "Handling")
    /\ Moves(s, [Admitted(streams[s]) EXCEPT !.pc = "Receiving", !.reading = TRUE], TRUE)

\* bounded: the deadline passes before the request is admitted or answered.
Expire(s) ==
    /\ pc = "Streams" /\ streams[s].pc # "None"
    /\ ~streams[s].admitted /\ streams[s].deadline = 0
    /\ Over(s, FALSE)

(***************************************************************************)
(* Uploads.  Each read first asks for the wider window, then takes a batch *)
(* and records it; without one the lane's ending is awaited.               *)
(***************************************************************************)
RaiseDropping(fits, sets) ==
    LET credit == window.credit \/ fits
        raises == credit /\ sets
    IN [credit |-> credit /\ raises,
        raised |-> window.raised \/ raises, wide |-> window.wide \/ raises]

Raise(fits, sets) ==
    LET credit == window.credit \/ fits
        raises == credit /\ sets
    IN [credit |-> credit /\ (raises \/ window.raised),
        raised |-> window.raised \/ raises, wide |-> window.wide \/ raises]

\* fits: the client's share covers the credit; sets: the window could be set.
Fund(s, fits, sets) ==
    /\ Polling(s, "Receiving") /\ ~streams[s].funded
    /\ window' = Raise(fits, sets)
    /\ streams' = [streams EXCEPT ![s].funded = (window.credit \/ fits) /\ sets]
    /\ UNCHANGED <<pc, shutdown, life, work, socket, bare, ended>>

Record(s) ==
    /\ Polling(s, "Receiving") /\ ~LaneDue(streams[s].lane, shutdown)
    /\ Moves(s, [streams[s] EXCEPT !.lane = Moved(@)], FALSE)

\* The last answer of an admitted exchange has a deadline of its own.
Answered(r) ==
    [r EXCEPT !.pc = "Next", !.lane = NoLane, !.until = ExchangeBound,
              !.reading = FALSE, !.funded = FALSE]

\* The body ends, which wins over an ending not yet decided.
FinishUpload(s) == Polling(s, "Receiving") /\ Moves(s, Answered(streams[s]), FALSE)

\* The body fails, or the lane ends and is told or aborted.
EndUpload(s) ==
    /\ Polling(s, "Receiving")
    /\ \/ Over(s, FALSE)
       \/ /\ LaneEnded(streams[s].lane, shutdown) /\ Refuses(streams[s].lane, shutdown)
          /\ Moves(s, Answered(streams[s]), FALSE)

(***************************************************************************)
(* The pump: it takes the body's next data, checked against the lane, and  *)
(* writes it as flow control admits; the last byte finishes the lane.      *)
(***************************************************************************)
NextData(s) ==
    /\ Polling(s, "Next") /\ ~ReplyDue(streams[s].lane, streams[s].until, shutdown)
    /\ Moves(s, [streams[s] EXCEPT !.pc = "Write"], FALSE)

WriteData(s) ==
    /\ Polling(s, "Write") /\ (streams[s].lane.on \/ streams[s].until # 0)
    /\ Moves(s, [streams[s] EXCEPT !.pc = "Next", !.lane = Moved(@)], FALSE)

Delivered(s) ==
    /\ \/ Polling(s, "Write") /\ (streams[s].lane.on \/ streams[s].until # 0)
       \/ Polling(s, "Next") /\ ~ReplyDue(streams[s].lane, streams[s].until, shutdown)
    /\ Over(s, FALSE)

\* The bound ends the reply, or the peer resets the stream.
AbortReply(s) == (Polling(s, "Next") \/ Polling(s, "Write")) /\ Over(s, FALSE)

\* What the next poll of stream s cannot leave as it is.
StreamDue(s) ==
    LET r == streams[s]
    IN \/ r.pc # "None" /\ ~r.admitted /\ r.deadline = 0
       \/ r.pc = "Receiving" /\ LaneEnded(r.lane, shutdown)
       \/ r.pc \in {"Next", "Write"} /\ ReplyEnded(r.lane, r.until, shutdown)

(***************************************************************************)
(* The connection's poll.                                                  *)
(***************************************************************************)
StopKeeping(l) == [l EXCEPT !.stopping = TRUE]

Stop(l) ==
    [l EXCEPT !.stopping = TRUE,
              !.closing = IF ~l.stopping /\ @ # Off THEN Grace ELSE @]

Poll ==
    /\ pc = "Idle" /\ pc' = "Streams"
    /\ life' = IF shutdown # Off THEN Stop(life) ELSE life
    /\ UNCHANGED <<shutdown, work, streams, window, socket, bare, ended>>

StreamsPolled ==
    /\ pc = "Streams" /\ pc' = "Accept"
    /\ \A s \in Streams : ~StreamDue(s)
    /\ UNCHANGED <<shutdown, life, work, streams, window, socket, bare, ended>>

\* A stream beyond the slots is refused.
Accept(s) ==
    /\ pc = "Accept" /\ streams[s].pc = "None"
    /\ streams' = [streams EXCEPT ![s] = [Unused EXCEPT !.pc = "Handling", !.deadline = ExchangeBound]]
    /\ UNCHANGED <<pc, shutdown, life, work, window, socket, bare, ended>>

\* The socket takes what is queued, or blocks; a write blocked for the idle
\* bound fails the connection, and so may the peer.
Flush(blocks) ==
    /\ pc = "Accept" /\ pc' = "Life"
    /\ blocks => socket.blocked # 0
    /\ socket' = IF blocks
                 THEN [socket EXCEPT !.blocked = IF @ = Off THEN IdleBound ELSE @]
                 ELSE [blocked |-> Off, queued |-> FALSE]
    /\ UNCHANGED <<shutdown, life, work, streams, window, bare, ended>>

Closes(cause) ==
    /\ pc' = "Closed" /\ ended' = cause
    /\ streams' = [s \in Streams |-> Unused]
    /\ window' = [credit |-> FALSE, raised |-> FALSE, wide |-> FALSE]
    /\ UNCHANGED <<shutdown, life, work, socket, bare>>

Fail == pc = "Accept" /\ Closes("Peer")

ObserveStopping(l) ==
    LET new == (l.busy <=> ~Busy) \/ (~Busy /\ work.fresh)
        seen == IF new
                THEN [l EXCEPT !.busy = Busy, !.stale = Off,
                               !.closing = IF ~Busy /\ @ # Off
                                           THEN (IF work.age > Grace THEN 0 ELSE Grace - work.age)
                                           ELSE @]
                ELSE l
    IN [seen EXCEPT !.stale = IF @ = Off /\ window.raised /\ ~Busy
                              THEN (IF work.age > ConnectionIdle THEN 0 ELSE ConnectionIdle - work.age)
                              ELSE @]

\* observe: a new idle period, or credit while idle, starts the stale bound
\* anew, and the grace restarts where work outlived it.
Observe(l) ==
    LET new == (l.busy <=> ~Busy) \/ (~Busy /\ work.fresh)
        seen == IF new
                THEN [l EXCEPT !.busy = Busy, !.stale = Off,
                               !.closing = IF ~l.stopping /\ ~Busy /\ @ # Off
                                           THEN (IF work.age > Grace THEN 0 ELSE Grace - work.age)
                                           ELSE @]
                ELSE l
    IN [seen EXCEPT !.stale = IF @ = Off /\ window.raised /\ ~Busy
                              THEN (IF work.age > ConnectionIdle THEN 0 ELSE ConnectionIdle - work.age)
                              ELSE @]

Quieted(l) ==
    [l EXCEPT !.quiet = IF Used(streams) \/ socket.queued THEN Off
                        ELSE IF @ = Off THEN ConnectionIdle ELSE @]

Closable(l) == ~l.busy \/ l.stopping

LifecyclePoll ==
    /\ pc = "Life"
    /\ LET l == Quieted(Observe(life))
           away == l.closing = Off /\ (l.stopping \/ l.stale = 0 \/ l.quiet = 0)
       IN IF ~away /\ l.closing = 0 /\ Closable(l) THEN Closes("Lifecycle")
          ELSE /\ life' = IF away THEN [l EXCEPT !.closing = Grace] ELSE l
               /\ work' = [work EXCEPT !.fresh = FALSE]
               /\ pc' = IF away THEN "Life" ELSE "Idle"
               /\ bare' = IF Used(streams) \/ socket.queued THEN 0 ELSE bare
               /\ UNCHANGED <<shutdown, streams, window, socket, ended>>

(***************************************************************************)
(* The server stops, a sign-in is revoked, time passes.                    *)
(***************************************************************************)
Shutdown ==
    /\ shutdown = Off /\ pc = "Idle" /\ shutdown' = 0
    /\ UNCHANGED <<pc, life, work, streams, window, socket, bare, ended>>

Revoke(s) ==
    /\ pc = "Idle" /\ streams[s].lane.on /\ ~streams[s].lane.revoked
    /\ streams' = [streams EXCEPT ![s].lane.revoked = TRUE]
    /\ UNCHANGED <<pc, shutdown, life, work, window, socket, bare, ended>>

TimerDue ==
    \/ \E s \in Streams : StreamDue(s)
    \/ shutdown # Off /\ ~life.stopping
    \/ life.closing = Off /\ (life.stale = 0 \/ life.quiet = 0)
    \/ life.closing = 0 /\ Closable(life)
    \/ socket.blocked = 0
    \/ work.fresh
    \/ (life.busy <=> ~Busy)

Tick ==
    /\ pc = "Idle" /\ ~TimerDue
    /\ shutdown' = Older(shutdown, Grace + 1)
    /\ life' = [life EXCEPT !.stale = Sooner(@), !.quiet = Sooner(@), !.closing = Sooner(@)]
    /\ work' = [work EXCEPT !.age = IF Busy THEN @ ELSE Older(@, ConnectionIdle + Grace + 1)]
    /\ streams' = [s \in Streams |->
          [streams[s] EXCEPT !.deadline = Sooner(@), !.until = Sooner(@), !.lane = Elapsed(@)]]
    /\ socket' = [socket EXCEPT !.blocked = Sooner(@)]
    /\ bare' = IF Used(streams) \/ socket.queued THEN 0 ELSE Older(bare, ConnectionIdle + Grace + 1)
    /\ UNCHANGED <<pc, window, ended>>

Next ==
    \/ \E s \in Streams :
          \/ Accept(s) \/ Answer(s) \/ AbortUnanswered(s) \/ AdmitReply(s) \/ AdmitAnswer(s)
          \/ AdmitUpload(s) \/ Expire(s) \/ Record(s) \/ FinishUpload(s) \/ EndUpload(s)
          \/ NextData(s) \/ WriteData(s) \/ Delivered(s) \/ AbortReply(s) \/ Revoke(s)
          \/ \E fits, sets \in BOOLEAN : Fund(s, fits, sets)
    \/ \E blocks \in BOOLEAN : Flush(blocks)
    \/ Poll \/ StreamsPolled \/ Fail \/ LifecyclePoll \/ Shutdown \/ Tick

Spec == Init /\ [][Next]_vars

(***************************************************************************)
(* Properties.                                                             *)
(***************************************************************************)
\* No connection outlives its bounds: a stopping server's closes within the
\* grace whatever runs on it, one that holds window credit without admitted
\* work closes ConnectionIdle and the grace later, whatever unadmitted streams
\* it has, and so does one without streams.
ClosesInTime ==
    pc # "Closed" =>
        /\ shutdown <= Grace
        /\ shutdown = Off /\ window.raised /\ ~Busy => work.age <= ConnectionIdle + Grace
        /\ shutdown = Off => bare <= ConnectionIdle + Grace

\* The lifecycle never cuts admitted work short: it closes the connection a
\* whole grace after its last work ended, or a whole grace after the server
\* stopped, even when the connection was already going away.
WorkUncut ==
    [][ended = "No" /\ ended' = "Lifecycle" =>
          (~Busy /\ work.age >= Grace) \/ shutdown >= Grace]_vars

\* The receive window is wide only while an admitted upload reads it, and once
\* raised its credit is held in the raiser's share until the connection ends.
WindowFunded ==
    /\ window.wide => \E s \in Streams : streams[s].reading /\ streams[s].admitted
    /\ window.raised => window.credit
==============================================================================
