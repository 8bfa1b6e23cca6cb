--------------------------- MODULE ConnectionProofs --------------------------
(***************************************************************************)
(* What Http2Connection promises for every number of streams and every     *)
(* bound, ClosesInTime, WindowFunded and WorkUncut; what the TLS listeners *)
(* it is accepted on serve, CertificatesSound of Certificates; and how the *)
(* listeners stop, StopsInTime of Listener.                                *)
(***************************************************************************)
EXTENDS Http2Connection, Certificates, FiniteSetTheorems, TLAPS

Timer == {n \in Int : n >= -1}
Places == {"None", "Handling", "Receiving", "Next", "Write"}
LaneType == [on : BOOLEAN, left : Timer, idle : Timer, revoked : BOOLEAN]
Stream == [pc : Places, deadline : Timer, admitted : BOOLEAN, lane : LaneType,
           until : Timer, reading : BOOLEAN, funded : BOOLEAN]
LifeType == [stopping : BOOLEAN, busy : BOOLEAN, stale : Timer, quiet : Timer, closing : Timer]

Types ==
    /\ pc \in {"Idle", "Streams", "Accept", "Life", "Closed"} /\ shutdown \in Timer
    /\ life \in LifeType
    /\ work \in [age : Nat, fresh : BOOLEAN]
    /\ streams \in [Streams -> Stream]
    /\ window \in [credit : BOOLEAN, raised : BOOLEAN, wide : BOOLEAN]
    /\ socket \in [blocked : Timer, queued : BOOLEAN]
    /\ bare \in Nat

\* An upload that reads is admitted, and a slot without a stream holds nothing.
StreamSound(r) ==
    /\ r.pc = "Receiving" <=> r.reading
    /\ r.reading => r.admitted
    /\ r.pc = "None" => ~r.admitted

(***************************************************************************)
(* Timers of an open connection.  What is idle, and known to the           *)
(* lifecycle as idle, has either a timer that still runs towards the       *)
(* goaway or a grace that runs towards the end.                            *)
(***************************************************************************)
Observed ==
    /\ work.fresh => work.age = 0 /\ bare = 0
    /\ ~Busy /\ ~work.fresh => ~life.busy
    /\ Busy => bare = 0
    /\ pc \in {"Idle", "Streams"} /\ Used(streams) => bare = 0
    /\ pc = "Idle" /\ ~work.fresh /\ ~Used(streams) /\ ~socket.queued => life.quiet # Off
    /\ life.closing <= Grace /\ life.quiet <= ConnectionIdle

Stops ==
    /\ life.stopping => shutdown # Off
    /\ life.stopping /\ life.closing # Off => shutdown + life.closing >= Grace
    /\ shutdown # Off =>
          shutdown = 0 \/ (life.stopping /\ life.closing # Off /\ shutdown + life.closing <= Grace)
    /\ life.stopping /\ pc = "Idle" => life.closing # Off

\* A timer with left to run reaches its end, or the grace began by then.
Nears(left, age) ==
    \/ left # Off /\ left + age <= ConnectionIdle
    \/ life.closing # Off /\ life.closing + age <= ConnectionIdle + Grace

Idles ==
    /\ ~life.stopping /\ life.closing # Off /\ ~Busy /\ ~work.fresh => work.age + life.closing >= Grace
    /\ shutdown = Off /\ window.raised /\ ~Busy /\ ~work.fresh => Nears(life.stale, work.age)
    /\ shutdown = Off /\ bare > 0 => life.quiet # Off /\ Nears(life.quiet, bare)

ConnectionInv ==
    /\ Types
    /\ \A s \in Streams : StreamSound(streams[s])
    /\ WindowFunded
    /\ pc # "Closed" => Observed /\ Stops /\ Idles

-----------------------------------------------------------------------------
(* Operators. *)

LEMMA OffIsTimer == /\ Off \in Timer /\ Off = -1 /\ 0 \in Timer
                    /\ \A n \in Nat : n \in Timer
BY DEF Off, Timer

\* A timer one step of time later.
LEMMA SoonerType ==
    ASSUME NEW n \in Timer
    PROVE  /\ Sooner(n) \in Timer
           /\ Sooner(n) = Off <=> n = Off
           /\ n > 0 => Sooner(n) = n - 1
           /\ n <= 0 => Sooner(n) = n
BY DEF Sooner, Timer, Off

LEMMA LaneTypes ==
    /\ NoLane \in LaneType /\ Start \in LaneType
    /\ \A l \in LaneType : Moved(l) \in LaneType /\ Elapsed(l) \in LaneType
<1>1. NoLane \in LaneType /\ Start \in LaneType
  BY LaneAssumption, OffIsTimer DEF NoLane, Start, LaneType
<1>2. ASSUME NEW l \in LaneType PROVE Moved(l) \in LaneType
  BY LaneAssumption, OffIsTimer DEF Moved, LaneType
<1>3. ASSUME NEW l \in LaneType PROVE Elapsed(l) \in LaneType
  <2>1. Sooner(l.left) \in Timer /\ Sooner(l.idle) \in Timer
    BY SoonerType DEF LaneType
  <2> QED BY <2>1, Zenon DEF Elapsed, LaneType
<1> QED BY <1>1, <1>2, <1>3

LEMMA UnusedSound == Unused \in Stream /\ StreamSound(Unused)
BY OffIsTimer, LaneTypes DEF Unused, Stream, Places, StreamSound, LaneType

-----------------------------------------------------------------------------
(* The steps of a stream that end in Moves. *)

StreamMoves(s) ==
    \/ Answer(s) \/ AbortUnanswered(s) \/ AdmitReply(s) \/ AdmitAnswer(s)
    \/ AdmitUpload(s) \/ Expire(s) \/ Record(s) \/ FinishUpload(s) \/ EndUpload(s)
    \/ NextData(s) \/ WriteData(s) \/ Delivered(s) \/ AbortReply(s)

\* What they have in common: a stream that lives becomes a sound record.
Moving(s, r, ran) ==
    /\ pc = "Streams" /\ streams[s].pc # "None"
    /\ r \in Stream /\ StreamSound(r)
    /\ Moves(s, r, ran)

LEMMA MovesAreMoving ==
    ASSUME NEW s \in Streams, ConnectionInv, StreamMoves(s)
    PROVE  \E r : \E ran : Moving(s, r, ran)
<1> DEFINE x == streams[s]
<1>0. x \in Stream /\ StreamSound(x)
  BY DEF ConnectionInv, Types
<1> HIDE DEF x
<1>1. CASE Answer(s)
  <2> DEFINE r == [x EXCEPT !.pc = "Next", !.until = x.deadline]
  <2>1. r \in Stream /\ StreamSound(r)
    BY <1>0, <1>1, Zenon DEF Answer, Polling, Stream, StreamSound, Places, x
  <2>2. Moves(s, r, FALSE) /\ pc = "Streams" /\ streams[s].pc # "None"
    BY <1>1, Zenon DEF Answer, Polling, x
  <2> QED BY <2>1, <2>2, Zenon DEF Moving
<1>2. CASE AdmitReply(s)
  <2> DEFINE r == [Admitted(x) EXCEPT !.pc = "Next"]
  <2>1. r \in Stream /\ StreamSound(r)
    BY <1>0, <1>2, LaneTypes, OffIsTimer, LaneAssumption, Zenon DEF AdmitReply, Polling, Stream, StreamSound, Places, x, Admitted, LaneType
  <2>2. Moves(s, r, TRUE) /\ pc = "Streams" /\ streams[s].pc # "None"
    BY <1>2, Zenon DEF AdmitReply, Polling, x, Admitted, LaneType
  <2> QED BY <2>1, <2>2, Zenon DEF Moving
<1>3. CASE AdmitAnswer(s)
  <2> DEFINE r == [x EXCEPT !.pc = "Next", !.admitted = TRUE, !.deadline = Off, !.until = x.deadline]
  <2>1. r \in Stream /\ StreamSound(r)
    BY <1>0, <1>3, LaneTypes, OffIsTimer, LaneAssumption, Zenon DEF AdmitAnswer, Polling, Stream, StreamSound, Places, x
  <2>2. Moves(s, r, TRUE) /\ pc = "Streams" /\ streams[s].pc # "None"
    BY <1>3, Zenon DEF AdmitAnswer, Polling, x
  <2> QED BY <2>1, <2>2, Zenon DEF Moving
<1>4. CASE AdmitUpload(s)
  <2> DEFINE r == [Admitted(x) EXCEPT !.pc = "Receiving", !.reading = TRUE]
  <2>1. r \in Stream /\ StreamSound(r)
    BY <1>0, <1>4, LaneTypes, OffIsTimer, LaneAssumption, Zenon DEF AdmitUpload, Polling, Stream, StreamSound, Places, x, Admitted, LaneType
  <2>2. Moves(s, r, TRUE) /\ pc = "Streams" /\ streams[s].pc # "None"
    BY <1>4, Zenon DEF AdmitUpload, Polling, x, Admitted, LaneType
  <2> QED BY <2>1, <2>2, Zenon DEF Moving
<1>5. CASE Record(s)
  <2> DEFINE r == [x EXCEPT !.lane = Moved(@)]
  <2>1. r \in Stream /\ StreamSound(r)
    BY <1>0, <1>5, LaneTypes, OffIsTimer, LaneAssumption DEF Record, Polling, Stream, StreamSound, Places, x, LaneType
  <2>2. Moves(s, r, FALSE) /\ pc = "Streams" /\ streams[s].pc # "None"
    BY <1>5, Zenon DEF Record, Polling, x, LaneType
  <2> QED BY <2>1, <2>2, Zenon DEF Moving
<1>6. CASE NextData(s)
  <2> DEFINE r == [x EXCEPT !.pc = "Write"]
  <2>1. r \in Stream /\ StreamSound(r)
    BY <1>0, <1>6 DEF NextData, Polling, Stream, StreamSound, Places, x
  <2>2. Moves(s, r, FALSE) /\ pc = "Streams" /\ streams[s].pc # "None"
    BY <1>6, Zenon DEF NextData, Polling, x
  <2> QED BY <2>1, <2>2, Zenon DEF Moving
<1>7. CASE WriteData(s)
  <2> DEFINE r == [x EXCEPT !.pc = "Next", !.lane = Moved(@)]
  <2>1. r \in Stream /\ StreamSound(r)
    BY <1>0, <1>7, LaneTypes, OffIsTimer, LaneAssumption, Zenon DEF WriteData, Polling, Stream, StreamSound, Places, x, LaneType
  <2>2. Moves(s, r, FALSE) /\ pc = "Streams" /\ streams[s].pc # "None"
    BY <1>7, Zenon DEF WriteData, Polling, x, LaneType
  <2> QED BY <2>1, <2>2, Zenon DEF Moving
<1>8. ASSUME Polling(s, "Receiving"), Moves(s, Answered(x), FALSE)
      PROVE  \E r : \E ran : Moving(s, r, ran)
  <2>1. Answered(x) \in Stream /\ StreamSound(Answered(x))
    BY <1>0, <1>8, LaneTypes, LaneAssumption, OffIsTimer, Zenon
    DEF Answered, Polling, Stream, StreamSound, Places, x, LaneType
  <2> QED BY <1>8, <2>1, Zenon DEF Moving, Polling
<1>9. ASSUME pc = "Streams", streams[s].pc # "None", NEW ran, Over(s, ran)
      PROVE  \E r : \E ran_1 : Moving(s, r, ran_1)
  BY <1>9, UnusedSound DEF Over, Moving
<1>10. CASE FinishUpload(s)
  BY <1>8, <1>10 DEF FinishUpload, x
<1>11. CASE EndUpload(s)
  BY <1>8, <1>9, <1>11, Zenon DEF EndUpload, x, Polling
<1>12. CASE AbortUnanswered(s) \/ Expire(s) \/ Delivered(s) \/ AbortReply(s)
  BY <1>9, <1>12, Zenon DEF AbortUnanswered, Expire, Delivered, AbortReply, Polling
<1> QED
  BY <1>1, <1>2, <1>3, <1>4, <1>5, <1>6, <1>7, <1>10, <1>11, <1>12 DEF StreamMoves

\* With the streams sound and their types kept, only the timers are left to show.
LEMMA MovingStep ==
    ASSUME ConnectionInv, NEW s \in Streams, NEW r, NEW ran, Moving(s, r, ran)
    PROVE  ConnectionInv'
<1> DEFINE after == [streams EXCEPT ![s] = r]
<1>1. /\ after \in [Streams -> Stream]
      /\ \A q \in Streams : StreamSound(after[q])
  BY DEF ConnectionInv, Moving, Types
<1>2. /\ streams' = after /\ pc = "Streams" /\ pc' = pc /\ shutdown' = shutdown
      /\ life' = life /\ bare' = bare /\ window' = Narrowed(window, after)
      /\ work' = IF ~Running(after) /\ (Busy \/ ran) THEN [age |-> 0, fresh |-> TRUE] ELSE work
      /\ socket' = [socket EXCEPT !.queued = @ \/ r.pc = "None"]
  BY DEF Moving, Moves
<1> HIDE DEF after
<1>3. Types'
  <2>1. /\ socket' \in [blocked : Timer, queued : BOOLEAN]
        /\ work' \in [age : Nat, fresh : BOOLEAN]
    BY <1>2, Zenon DEF ConnectionInv, Types
  <2>2. window' \in [credit : BOOLEAN, raised : BOOLEAN, wide : BOOLEAN]
    BY <1>2, Zenon DEF ConnectionInv, Types, Narrowed
  <2> QED BY <1>1, <1>2, <2>1, <2>2 DEF ConnectionInv, Types
<1>4. WindowFunded'
  <2>1. /\ window'.wide => \E q \in Streams : streams'[q].reading
        /\ window'.raised <=> window.raised
        /\ window'.credit <=> window.credit
    BY <1>2, Zenon DEF ConnectionInv, Types, Narrowed
  <2> QED BY <1>1, <1>2, <2>1 DEF ConnectionInv, WindowFunded, StreamSound
<1>5. Observed /\ Stops /\ Idles
  BY <1>2 DEF ConnectionInv
<1>6. bare = 0
  BY <1>2, <1>5 DEF Moving, Observed, Used
<1>7. Busy' \/ work'.fresh \/ (~Busy /\ work' = work)
  BY <1>2 DEF Busy
<1>8. work'.fresh => work'.age = 0
  BY <1>2, <1>5 DEF Observed
<1>9. Observed'
  BY <1>2, <1>5, <1>6, <1>7, <1>8 DEF Observed
<1>10. Stops'
  BY <1>2, <1>5 DEF Stops
<1>11. window'.raised <=> window.raised
  BY <1>2 DEF ConnectionInv, Types, Narrowed
<1>12. Idles'
  BY <1>2, <1>5, <1>6, <1>7, <1>11 DEF Idles, Nears
<1> QED BY <1>1, <1>2, <1>3, <1>4, <1>9, <1>10, <1>12 DEF ConnectionInv

-----------------------------------------------------------------------------
(* The other steps of a stream. *)

LEMMA FundStep ==
    ASSUME ConnectionInv, NEW s \in Streams, NEW fits \in BOOLEAN, NEW sets \in BOOLEAN,
           Fund(s, fits, sets)
    PROVE  ConnectionInv'
<1>1. /\ pc = "Streams" /\ pc' = pc /\ shutdown' = shutdown /\ life' = life /\ work' = work
      /\ socket' = socket /\ bare' = bare /\ window' = Raise(fits, sets)
      /\ streams' = [streams EXCEPT ![s].funded = (window.credit \/ fits) /\ sets]
      /\ streams[s].pc = "Receiving"
  BY DEF Fund, Polling
<1>2. /\ streams' \in [Streams -> Stream]
      /\ \A q \in Streams : /\ streams'[q].pc = streams[q].pc
                            /\ streams'[q].admitted <=> streams[q].admitted
                            /\ streams'[q].reading <=> streams[q].reading
  BY <1>1 DEF ConnectionInv, Types, Stream
<1>3. \A q \in Streams : StreamSound(streams'[q])
  BY <1>2 DEF ConnectionInv, StreamSound
<1>4. /\ window' \in [credit : BOOLEAN, raised : BOOLEAN, wide : BOOLEAN]
      /\ window'.raised => window'.credit
  BY <1>1 DEF ConnectionInv, Types, Raise, WindowFunded
<1>5. streams'[s].reading /\ streams'[s].admitted /\ streams[s].admitted
  BY <1>1, <1>2 DEF ConnectionInv, StreamSound
<1>6. Busy /\ Busy' /\ (Used(streams) <=> Used(streams'))
  BY <1>2, <1>5 DEF Busy, Running, Used
<1>7. Types' /\ WindowFunded'
  BY <1>1, <1>2, <1>4, <1>5 DEF ConnectionInv, Types, WindowFunded
<1>8. Observed' /\ Stops' /\ Idles'
  BY <1>1, <1>6 DEF ConnectionInv, Observed, Stops, Idles
<1> QED BY <1>3, <1>7, <1>8 DEF ConnectionInv

LEMMA AcceptStep ==
    ASSUME ConnectionInv, NEW s \in Streams, Accept(s)
    PROVE  ConnectionInv'
<1> DEFINE r == [Unused EXCEPT !.pc = "Handling", !.deadline = ExchangeBound]
<1>1. r \in Stream /\ StreamSound(r) /\ ~r.admitted /\ ~r.reading
  BY UnusedSound, LaneAssumption, OffIsTimer, Zenon DEF Unused, Stream, StreamSound, Places
<1>2. /\ pc = "Accept" /\ pc' = pc /\ shutdown' = shutdown /\ life' = life /\ work' = work
      /\ socket' = socket /\ bare' = bare /\ window' = window
      /\ streams' = [streams EXCEPT ![s] = r] /\ streams[s].pc = "None"
  BY DEF Accept
<1> HIDE DEF r
<1>3. streams' \in [Streams -> Stream] /\ \A q \in Streams : StreamSound(streams'[q])
  BY <1>1, <1>2 DEF ConnectionInv, Types
<1>4. ~streams[s].admitted /\ ~streams[s].reading
  BY <1>2 DEF ConnectionInv, StreamSound
<1>5. \A q \in Streams : /\ streams'[q].admitted <=> streams[q].admitted
                         /\ streams'[q].reading <=> streams[q].reading
  BY <1>1, <1>2, <1>4 DEF ConnectionInv, Types
<1>6. Busy <=> Busy'
  BY <1>5 DEF Busy, Running
<1>7. Types' /\ WindowFunded'
  BY <1>2, <1>3, <1>5 DEF ConnectionInv, Types, WindowFunded
<1>8. Observed' /\ Stops' /\ Idles'
  BY <1>2, <1>6 DEF ConnectionInv, Observed, Stops, Idles, Nears
<1> QED BY <1>3, <1>7, <1>8 DEF ConnectionInv

LEMMA RevokeStep ==
    ASSUME ConnectionInv, NEW s \in Streams, Revoke(s)
    PROVE  ConnectionInv'
<1>1. /\ pc = "Idle" /\ pc' = pc /\ shutdown' = shutdown /\ life' = life /\ work' = work
      /\ socket' = socket /\ bare' = bare /\ window' = window
      /\ streams' = [streams EXCEPT ![s].lane.revoked = TRUE]
  BY DEF Revoke
<1>2. /\ streams' \in [Streams -> Stream]
      /\ \A q \in Streams : /\ streams'[q].pc = streams[q].pc
                            /\ streams'[q].admitted <=> streams[q].admitted
                            /\ streams'[q].reading <=> streams[q].reading
  <2> DEFINE x == streams[s]
             l == [x.lane EXCEPT !.revoked = TRUE]
             r == [x EXCEPT !.lane = l]
  <2>1. x \in Stream
    BY DEF ConnectionInv, Types
  <2>2. l \in LaneType
    BY <2>1, Zenon DEF Stream, LaneType
  <2>3. streams' = [streams EXCEPT ![s] = r]
    BY <1>1
  <2> HIDE DEF l, x
  <2>4. r \in Stream /\ r.pc = x.pc /\ r.admitted = x.admitted /\ r.reading = x.reading
    BY <2>1, <2>2 DEF Stream, LaneType
  <2> HIDE DEF r
  <2> QED BY <2>3, <2>4 DEF ConnectionInv, Types, x
<1>3. \A q \in Streams : StreamSound(streams'[q])
  BY <1>2 DEF ConnectionInv, StreamSound
<1>4. (Busy <=> Busy') /\ (Used(streams) <=> Used(streams'))
  BY <1>2 DEF Busy, Running, Used
<1>5. Types' /\ WindowFunded'
  BY <1>1, <1>2 DEF ConnectionInv, Types, WindowFunded
<1>6. Observed' /\ Stops' /\ Idles'
  BY <1>1, <1>4 DEF ConnectionInv, Observed, Stops, Idles, Nears
<1> QED BY <1>3, <1>5, <1>6 DEF ConnectionInv

-----------------------------------------------------------------------------
(* The connection's poll. *)

LEMMA PollStep ==
    ASSUME ConnectionInv, Poll
    PROVE  ConnectionInv'
<1>1. /\ pc = "Idle" /\ pc' = "Streams" /\ shutdown' = shutdown /\ work' = work
      /\ streams' = streams /\ window' = window /\ socket' = socket /\ bare' = bare
      /\ life' = IF shutdown # Off THEN Stop(life) ELSE life
  BY DEF Poll
<1>2. life \in LifeType /\ shutdown \in Timer
  BY DEF ConnectionInv, Types, LifeType
<1>3. /\ life' \in LifeType
      /\ life'.busy <=> life.busy
      /\ life'.stale = life.stale /\ life'.quiet = life.quiet
      /\ life'.stopping <=> life.stopping \/ shutdown # Off
      /\ life'.closing = IF shutdown # Off /\ ~life.stopping /\ life.closing # Off
                         THEN Grace ELSE life.closing
  <2>1. /\ Stop(life) \in LifeType /\ (Stop(life).busy <=> life.busy)
        /\ Stop(life).stale = life.stale /\ Stop(life).quiet = life.quiet /\ Stop(life).stopping
        /\ Stop(life).closing = IF ~life.stopping /\ life.closing # Off THEN Grace ELSE life.closing
    BY <1>2, LaneAssumption, OffIsTimer, Zenon DEF Stop, LifeType
  <2> HIDE DEF Stop
  <2>2. CASE shutdown # Off
    BY <1>1, <2>1, <2>2
  <2>3. CASE shutdown = Off
    BY <1>1, <1>2, <2>3
  <2> QED BY <2>2, <2>3
<1>4. Observed /\ Stops /\ Idles
  BY <1>1 DEF ConnectionInv
<1>5. Types' /\ WindowFunded'
  BY <1>1, <1>3 DEF ConnectionInv, Types, WindowFunded, LifeType
<1>6. (Busy' <=> Busy) /\ (Used(streams)' <=> Used(streams))
  BY <1>1 DEF Busy, Running, Used
<1>7. Observed'
  BY <1>1, <1>2, <1>3, <1>4, <1>6, LaneAssumption DEF Observed, LifeType, Timer
<1>8. Stops'
  <2>1. CASE shutdown = Off
    BY <1>1, <1>3, <1>4, <2>1 DEF Stops
  <2>2. CASE shutdown # Off
    BY <1>1, <1>2, <1>3, <1>4, <2>2, LaneAssumption, OffIsTimer DEF Stops, LifeType, Timer
  <2> QED BY <2>1, <2>2
<1>9. Idles'
  <2>1. CASE shutdown = Off
    <3>1. life'.closing = life.closing
      BY <1>3, <2>1
    <3> QED BY <1>1, <1>3, <1>4, <1>6, <2>1, <3>1 DEF Idles, Nears, Stops
  <2>2. CASE shutdown # Off
    BY <1>1, <1>3, <2>2 DEF Idles
  <2> QED BY <2>1, <2>2
<1> QED BY <1>1, <1>5, <1>7, <1>8, <1>9 DEF ConnectionInv

LEMMA QuietSteps ==
    ASSUME ConnectionInv, StreamsPolled \/ (\E blocks \in BOOLEAN : Flush(blocks))
    PROVE  ConnectionInv'
<1>1. /\ pc \in {"Streams", "Accept"} /\ pc' \in {"Accept", "Life"}
      /\ shutdown' = shutdown /\ life' = life /\ work' = work /\ streams' = streams
      /\ window' = window /\ bare' = bare
  BY DEF StreamsPolled, Flush
<1>2. socket' \in [blocked : Timer, queued : BOOLEAN]
  <2>1. CASE StreamsPolled
    BY <2>1 DEF StreamsPolled, ConnectionInv, Types
  <2>2. ASSUME NEW blocks \in BOOLEAN, Flush(blocks) PROVE socket' \in [blocked : Timer, queued : BOOLEAN]
    BY <2>2, LaneAssumption, OffIsTimer DEF Flush, ConnectionInv, Types
  <2> QED BY <2>1, <2>2
<1>3. Types' /\ WindowFunded'
  BY <1>1, <1>2 DEF ConnectionInv, Types, WindowFunded
<1>4. Busy' <=> Busy
  BY <1>1 DEF Busy, Running
<1>5. Observed' /\ Stops' /\ Idles'
  BY <1>1, <1>4 DEF ConnectionInv, Observed, Stops, Idles, Nears
<1> QED BY <1>1, <1>3, <1>5 DEF ConnectionInv

LEMMA ClosesStep ==
    ASSUME ConnectionInv, NEW cause, Closes(cause)
    PROVE  ConnectionInv'
<1>1. /\ pc' = "Closed" /\ streams' = [s \in Streams |-> Unused]
      /\ window' = [credit |-> FALSE, raised |-> FALSE, wide |-> FALSE]
      /\ shutdown' = shutdown /\ life' = life /\ work' = work /\ socket' = socket /\ bare' = bare
  BY DEF Closes
<1>2. Types'
  BY <1>1, UnusedSound DEF ConnectionInv, Types
<1>3. WindowFunded' /\ \A s \in Streams : StreamSound(streams'[s])
  BY <1>1, UnusedSound DEF WindowFunded
<1> QED BY <1>1, <1>2, <1>3 DEF ConnectionInv

LEMMA ShutdownStep ==
    ASSUME ConnectionInv, Shutdown
    PROVE  ConnectionInv'
<1>1. /\ pc = "Idle" /\ pc' = pc /\ shutdown = Off /\ shutdown' = 0 /\ life' = life /\ work' = work
      /\ streams' = streams /\ window' = window /\ socket' = socket /\ bare' = bare
  BY DEF Shutdown
<1>2. Types' /\ WindowFunded'
  BY <1>1, OffIsTimer DEF ConnectionInv, Types, WindowFunded
<1>3. (Busy' <=> Busy) /\ (Used(streams)' <=> Used(streams))
  BY <1>1 DEF Busy, Running, Used
<1>4. 0 # Off
  BY OffIsTimer
<1>5. Observed' /\ Stops' /\ Idles'
  BY <1>1, <1>3, <1>4 DEF ConnectionInv, Observed, Stops, Idles
<1> QED BY <1>1, <1>2, <1>5 DEF ConnectionInv

-----------------------------------------------------------------------------
(* The lifecycle. *)

\* What is left of a bound for a connection idle since age.
Left(bound) == IF work.age > bound THEN 0 ELSE bound - work.age

New == (life.busy <=> ~Busy) \/ (~Busy /\ work.fresh)
SeenStale == IF New THEN Off ELSE life.stale

LEMMA ObserveFields ==
    ASSUME life \in LifeType, work \in [age : Nat, fresh : BOOLEAN]
    PROVE  /\ Observe(life) \in LifeType
           /\ Observe(life).stopping <=> life.stopping
           /\ Observe(life).busy <=> Busy
           /\ Observe(life).quiet = life.quiet
           /\ Observe(life).closing = IF New /\ ~life.stopping /\ ~Busy /\ life.closing # Off
                                      THEN Left(Grace) ELSE life.closing
           /\ Observe(life).stale = IF SeenStale = Off /\ window.raised /\ ~Busy
                                    THEN Left(ConnectionIdle) ELSE SeenStale
<1> DEFINE seen == IF New
                   THEN [life EXCEPT !.busy = Busy, !.stale = Off,
                                     !.closing = IF ~life.stopping /\ ~Busy /\ @ # Off
                                                 THEN Left(Grace) ELSE @]
                   ELSE life
<1>1. Left(Grace) \in Timer /\ Left(ConnectionIdle) \in Timer
  BY LaneAssumption DEF Left, Timer
<1>2. Busy \in BOOLEAN
  BY DEF Busy, Running
<1>3. /\ seen \in LifeType
      /\ seen.stopping <=> life.stopping
      /\ seen.busy <=> Busy
      /\ seen.quiet = life.quiet
      /\ seen.closing = IF New /\ ~life.stopping /\ ~Busy /\ life.closing # Off
                        THEN Left(Grace) ELSE life.closing
      /\ seen.stale = SeenStale
  <2>1. CASE New
    BY <1>1, <1>2, <2>1, OffIsTimer, Zenon DEF LifeType, SeenStale
  <2>2. CASE ~New
    BY <2>2 DEF LifeType, SeenStale, New
  <2> QED BY <2>1, <2>2
<1>4. Observe(life) = [seen EXCEPT !.stale = IF @ = Off /\ window.raised /\ ~Busy
                                             THEN Left(ConnectionIdle) ELSE @]
  BY DEF Observe, New, Left
<1> HIDE DEF seen
<1> QED BY <1>1, <1>3, <1>4 DEF LifeType

Seen == Quieted(Observe(life))

LEMMA SeenFields ==
    ASSUME life \in LifeType, work \in [age : Nat, fresh : BOOLEAN]
    PROVE  /\ Seen \in LifeType
           /\ Seen.stopping <=> life.stopping
           /\ Seen.busy <=> Busy
           /\ Seen.quiet = IF Used(streams) \/ socket.queued THEN Off
                           ELSE IF life.quiet = Off THEN ConnectionIdle ELSE life.quiet
           /\ Seen.closing = IF New /\ ~life.stopping /\ ~Busy /\ life.closing # Off
                             THEN Left(Grace) ELSE life.closing
           /\ Seen.stale = IF SeenStale = Off /\ window.raised /\ ~Busy
                           THEN Left(ConnectionIdle) ELSE SeenStale
<1> DEFINE l == Observe(life)
<1>1. l \in LifeType
  BY ObserveFields
<1>2. Seen = [l EXCEPT !.quiet = IF Used(streams) \/ socket.queued THEN Off
                                 ELSE IF @ = Off THEN ConnectionIdle ELSE @]
  BY DEF Seen, Quieted
<1> HIDE DEF l
<1>3. /\ Seen \in LifeType
      /\ Seen.stopping <=> l.stopping
      /\ Seen.busy <=> l.busy
      /\ Seen.quiet = IF Used(streams) \/ socket.queued THEN Off
                      ELSE IF l.quiet = Off THEN ConnectionIdle ELSE l.quiet
      /\ Seen.closing = l.closing
      /\ Seen.stale = l.stale
  BY <1>1, <1>2, LaneAssumption, OffIsTimer DEF LifeType
<1> QED BY <1>3, ObserveFields DEF l

\* A poll of the lifecycle closes the connection, begins the grace or waits.
Away == Seen.closing = Off /\ (Seen.stopping \/ Seen.stale = 0 \/ Seen.quiet = 0)
Stays ==
    /\ pc = "Life"
    /\ life' = IF Away THEN [Seen EXCEPT !.closing = Grace] ELSE Seen
    /\ work' = [work EXCEPT !.fresh = FALSE]
    /\ pc' = IF Away THEN "Life" ELSE "Idle"
    /\ bare' = IF Used(streams) \/ socket.queued THEN 0 ELSE bare
    /\ UNCHANGED <<shutdown, streams, window, socket, ended>>

LEMMA LifecycleCases ==
    ASSUME LifecyclePoll
    PROVE  \/ /\ pc = "Life" /\ ~Away /\ Seen.closing = 0 /\ Closable(Seen)
              /\ Closes("Lifecycle")
           \/ Stays
BY DEF LifecyclePoll, Away, Stays, Seen

LEMMA StaysStep ==
    ASSUME ConnectionInv, Stays
    PROVE  ConnectionInv'
<1>0. Observed /\ Stops /\ Idles
  BY DEF ConnectionInv, Stays
<1>1. /\ life \in LifeType /\ work \in [age : Nat, fresh : BOOLEAN] /\ bare \in Nat
      /\ shutdown \in Timer
  BY DEF ConnectionInv, Types, LifeType
<1> DEFINE l == Seen
<1>2. /\ l \in LifeType
      /\ l.stopping <=> life.stopping
      /\ l.busy <=> Busy
      /\ l.quiet = IF Used(streams) \/ socket.queued THEN Off
                   ELSE IF life.quiet = Off THEN ConnectionIdle ELSE life.quiet
      /\ l.closing = IF New /\ ~life.stopping /\ ~Busy /\ life.closing # Off
                     THEN Left(Grace) ELSE life.closing
      /\ l.stale = IF SeenStale = Off /\ window.raised /\ ~Busy
                   THEN Left(ConnectionIdle) ELSE SeenStale
  BY <1>1, SeenFields
<1> HIDE DEF l
<1>3. /\ life' \in LifeType
      /\ life'.stopping <=> life.stopping
      /\ life'.busy <=> Busy
      /\ life'.quiet = l.quiet /\ life'.stale = l.stale
      /\ life'.closing = IF Away THEN Grace ELSE l.closing
  <2>1. life' = IF Away THEN [l EXCEPT !.closing = Grace] ELSE l
    BY DEF Stays, l
  <2> QED BY <1>2, <2>1, LaneAssumption, OffIsTimer DEF LifeType
<1>4. /\ pc = "Life" /\ pc' = IF Away THEN "Life" ELSE "Idle"
      /\ bare' = IF Used(streams) \/ socket.queued THEN 0 ELSE bare
      /\ shutdown' = shutdown /\ streams' = streams /\ window' = window /\ socket' = socket
  BY DEF Stays
<1>5. work' \in [age : Nat, fresh : BOOLEAN] /\ work'.age = work.age /\ ~work'.fresh
  BY <1>1, Zenon DEF Stays
<1>6. Away <=> l.closing = Off /\ (l.stopping \/ l.stale = 0 \/ l.quiet = 0)
  BY DEF Away, l
<1>7. (Busy' <=> Busy) /\ (Used(streams)' <=> Used(streams))
  BY <1>4 DEF Busy, Running, Used
<1>8. Types' /\ WindowFunded'
  BY <1>1, <1>3, <1>4, <1>5 DEF ConnectionInv, Types, WindowFunded, LifeType
<1>9. Left(Grace) \in Int /\ Left(Grace) >= 0 /\ Left(Grace) <= Grace /\ work.age + Left(Grace) >= Grace
  BY <1>1, LaneAssumption DEF Left
<1>10. life.closing \in Timer /\ l.closing \in Timer /\ l.quiet \in Timer /\ life.quiet \in Timer
  BY <1>1, <1>2 DEF LifeType
<1>11. /\ l.closing = Off <=> life.closing = Off
       /\ l.closing # life.closing => l.closing = Left(Grace) /\ New /\ ~life.stopping /\ ~Busy
  BY <1>2, <1>9, OffIsTimer
<1>12. Observed'
  <2>1. Busy' => bare' = 0
    BY <1>0, <1>4, <1>7 DEF Observed
  <2>2. pc' \in {"Idle", "Streams"} /\ Used(streams)' => bare' = 0
    BY <1>4, <1>7
  <2>3. pc' = "Idle" /\ ~Used(streams)' /\ ~socket'.queued => life'.quiet # Off
    BY <1>2, <1>3, <1>4, <1>7, LaneAssumption DEF Off
  <2>4. life'.closing <= Grace /\ life'.quiet <= ConnectionIdle
    BY <1>0, <1>2, <1>3, <1>9, <1>10, LaneAssumption DEF Observed, Off, Timer
  <2> QED BY <1>3, <1>5, <1>7, <2>1, <2>2, <2>3, <2>4 DEF Observed
<1>13. Stops'
  <2>1. life.stopping => l.closing = life.closing
    BY <1>2
  <2>2. life'.stopping => shutdown' # Off
    BY <1>0, <1>3, <1>4 DEF Stops
  <2>3. life'.stopping /\ life'.closing # Off => shutdown' + life'.closing >= Grace
    BY <1>0, <1>1, <1>3, <1>4, <2>1, <2>2, LaneAssumption DEF Stops, Timer, Off
  <2>4. shutdown' # Off =>
           \/ shutdown' = 0
           \/ life'.stopping /\ life'.closing # Off /\ shutdown' + life'.closing <= Grace
    BY <1>0, <1>3, <1>4, <1>6, <2>1 DEF Stops
  <2>5. life'.stopping /\ pc' = "Idle" => life'.closing # Off
    BY <1>2, <1>3, <1>4, <1>6
  <2> QED BY <2>2, <2>3, <2>4, <2>5 DEF Stops
<1>14. ~life'.stopping /\ life'.closing # Off /\ ~Busy' => work'.age + life'.closing >= Grace
  <2>1. CASE Away
    BY <1>1, <1>3, <1>5, <2>1, LaneAssumption
  <2>2. CASE ~Away /\ New
    BY <1>2, <1>3, <1>5, <1>7, <1>9, <2>2
  <2>3. CASE ~Away /\ ~New
    BY <1>0, <1>2, <1>3, <1>5, <1>7, <2>3 DEF Idles, New
  <2> QED BY <2>1, <2>2, <2>3
<1>15. New /\ ~Busy => work.fresh /\ work.age = 0 /\ bare = 0
  BY <1>0 DEF Observed, New
<1>16. shutdown' = Off /\ window'.raised /\ ~Busy' => Nears(life.stale, work.age)'
  <2> SUFFICES ASSUME shutdown = Off, window.raised, ~Busy PROVE Nears(life.stale, work.age)'
    BY <1>4, <1>7
  <2>1. CASE New
    <3>1. life'.stale = ConnectionIdle /\ work'.age = 0
      BY <1>2, <1>3, <1>5, <1>15, <2>1, LaneAssumption DEF SeenStale, Left
    <3> QED BY <3>1, LaneAssumption DEF Nears, Off
  <2>2. CASE ~New
    <3>1. Nears(life.stale, work.age) /\ l.closing = life.closing
      BY <1>0, <1>2, <2>2 DEF Idles, New
    <3>2. CASE life.stale # Off /\ life.stale + work.age <= ConnectionIdle
      BY <1>2, <1>3, <1>5, <2>2, <3>2 DEF Nears, SeenStale
    <3>3. CASE life.closing # Off /\ life.closing + work.age <= ConnectionIdle + Grace
      BY <1>3, <1>5, <1>6, <3>1, <3>3 DEF Nears
    <3> QED BY <3>1, <3>2, <3>3 DEF Nears
  <2> QED BY <2>1, <2>2
<1>17. shutdown' = Off /\ bare' > 0 => life'.quiet # Off /\ Nears(life.quiet, bare)'
  <2> SUFFICES ASSUME shutdown = Off, bare' > 0 PROVE life'.quiet # Off /\ Nears(life.quiet, bare)'
    BY <1>4
  <2>1. bare' = bare /\ bare > 0 /\ ~Used(streams) /\ ~socket.queued
    BY <1>4
  <2>2. life.quiet # Off /\ Nears(life.quiet, bare)
    BY <1>0, <2>1 DEF Idles
  <2>3. life'.quiet = life.quiet
    BY <1>2, <1>3, <2>1, <2>2
  <2>4. l.closing = life.closing
    BY <1>1, <1>11, <1>15, <2>1
  <2>5. CASE life.quiet + bare <= ConnectionIdle
    BY <2>1, <2>2, <2>3, <2>5 DEF Nears
  <2>6. CASE life.closing # Off /\ life.closing + bare <= ConnectionIdle + Grace
    BY <1>3, <1>6, <2>1, <2>2, <2>3, <2>4, <2>6 DEF Nears
  <2> QED BY <2>2, <2>5, <2>6 DEF Nears
<1>18. Idles'
  BY <1>14, <1>16, <1>17 DEF Idles
<1> QED BY <1>4, <1>8, <1>12, <1>13, <1>18 DEF ConnectionInv

LEMMA LifecyclePollStep ==
    ASSUME ConnectionInv, LifecyclePoll
    PROVE  ConnectionInv'
BY LifecycleCases, ClosesStep, StaysStep

-----------------------------------------------------------------------------
(* Time. *)

LEMMA TickStep ==
    ASSUME ConnectionInv, Tick
    PROVE  ConnectionInv'
<1>0. Observed /\ Stops /\ Idles /\ pc = "Idle" /\ pc' = pc /\ window' = window
  BY Zenon DEF ConnectionInv, Tick
<1>1. /\ life \in LifeType /\ work \in [age : Nat, fresh : BOOLEAN] /\ bare \in Nat
      /\ shutdown \in Timer /\ streams \in [Streams -> Stream]
      /\ socket \in [blocked : Timer, queued : BOOLEAN]
  BY SMTT(60) DEF ConnectionInv, Types, LifeType
<1>2. /\ shutdown # Off => life.stopping
      /\ life.closing = Off => life.stale # 0 /\ life.quiet # 0
      /\ life.closing = 0 => life.busy /\ ~life.stopping
      /\ ~work.fresh
      /\ life.busy <=> Busy
  BY <1>1, Zenon DEF Tick, TimerDue, Closable, LifeType
<1>3. /\ shutdown' = Older(shutdown, Grace + 1) /\ shutdown' \in Timer
      /\ shutdown' = Off <=> shutdown = Off
      /\ shutdown' <= shutdown + 1 /\ shutdown' >= shutdown
      /\ shutdown # Off /\ shutdown < Grace + 1 => shutdown' = shutdown + 1
  <2>1. shutdown' = Older(shutdown, Grace + 1)
    BY ZenonT(60) DEF Tick
  <2> QED BY <1>1, <2>1, LaneAssumption, SMTT(60) DEF Older, Timer, Off
<1>4. /\ life' \in LifeType
      /\ life'.stopping <=> life.stopping
      /\ life'.busy <=> life.busy
      /\ life'.stale = Sooner(life.stale) /\ life'.quiet = Sooner(life.quiet)
      /\ life'.closing = Sooner(life.closing)
  <2>1. /\ life.stale \in Timer /\ life.quiet \in Timer /\ life.closing \in Timer
    BY <1>1 DEF LifeType
  <2>2. /\ Sooner(life.stale) \in Timer /\ Sooner(life.quiet) \in Timer
        /\ Sooner(life.closing) \in Timer
    BY <2>1, SoonerType
  <2> QED BY <1>1, <2>2, Zenon DEF Tick, LifeType
<1>5. /\ work' \in [age : Nat, fresh : BOOLEAN] /\ ~work'.fresh
      /\ Busy => work'.age = work.age
      /\ work'.age <= work.age + 1 /\ work'.age >= work.age
      /\ ~Busy /\ work.age < ConnectionIdle + Grace + 1 => work'.age = work.age + 1
  <2>1. /\ Older(work.age, ConnectionIdle + Grace + 1) \in Nat
        /\ Older(work.age, ConnectionIdle + Grace + 1) <= work.age + 1
        /\ Older(work.age, ConnectionIdle + Grace + 1) >= work.age
        /\ work.age < ConnectionIdle + Grace + 1 =>
              Older(work.age, ConnectionIdle + Grace + 1) = work.age + 1
    BY <1>1, LaneAssumption, SMTT(60) DEF Older, Off
  <2>2. work' = [work EXCEPT !.age = IF Busy THEN @ ELSE Older(@, ConnectionIdle + Grace + 1)]
    BY Zenon DEF Tick
  <2> QED BY <1>1, <1>2, <2>1, <2>2
<1>6. /\ bare' \in Nat
      /\ Used(streams) \/ socket.queued => bare' = 0
      /\ bare' <= bare + 1
  <2>1. bare' = IF Used(streams) \/ socket.queued THEN 0
                ELSE Older(bare, ConnectionIdle + Grace + 1)
    BY Zenon DEF Tick
  <2> QED BY <1>1, <2>1, LaneAssumption, SMTT(60) DEF Older, Off
<1>7. /\ streams' \in [Streams -> Stream]
      /\ \A s \in Streams : /\ streams'[s].pc = streams[s].pc
                            /\ streams'[s].admitted <=> streams[s].admitted
                            /\ streams'[s].reading <=> streams[s].reading
  <2> SUFFICES ASSUME NEW s \in Streams
               PROVE  /\ streams'[s] \in Stream /\ streams'[s].pc = streams[s].pc
                      /\ streams'[s].admitted <=> streams[s].admitted
                      /\ streams'[s].reading <=> streams[s].reading
    <3> QED BY Zenon DEF Tick
  <2> DEFINE x == streams[s]
  <2>1. x \in Stream
    BY <1>1, SMTT(60)
  <2>2. streams'[s] = [x EXCEPT !.deadline = Sooner(@), !.until = Sooner(@), !.lane = Elapsed(@)]
    BY Zenon DEF Tick
  <2> HIDE DEF x
  <2>3. /\ Sooner(x.deadline) \in Timer /\ Sooner(x.until) \in Timer
        /\ Elapsed(x.lane) \in LaneType
    BY <2>1, SoonerType, LaneTypes DEF Stream, LaneType
  <2>4. /\ streams'[s] \in Stream /\ streams'[s].pc = x.pc
        /\ streams'[s].admitted <=> x.admitted
        /\ streams'[s].reading <=> x.reading
    BY <2>1, <2>2, <2>3, Zenon DEF Stream, LaneType
  <2> QED BY <2>4, SMTT(60) DEF x
<1>8. socket' \in [blocked : Timer, queued : BOOLEAN] /\ (socket'.queued <=> socket.queued)
  BY <1>1, SoonerType, Zenon DEF Tick
<1>9. (Busy' <=> Busy) /\ (Used(streams)' <=> Used(streams))
  BY <1>7 DEF Busy, Running, Used
<1>10. Types' /\ WindowFunded' /\ \A s \in Streams : StreamSound(streams'[s])
  BY <1>0, <1>3, <1>4, <1>5, <1>6, <1>7, <1>8
  DEF ConnectionInv, Types, WindowFunded, StreamSound, LifeType
<1>11. life.closing \in Timer /\ life.stale \in Timer /\ life.quiet \in Timer
  BY <1>1 DEF LifeType
<1>12. Observed'
  <2>1. Busy => Used(streams)
    BY DEF ConnectionInv, StreamSound, Busy, Running, Used
  <2>2. /\ life'.closing <= Grace /\ life'.quiet <= ConnectionIdle
        /\ life'.quiet = Off <=> life.quiet = Off
    BY <1>0, <1>4, <1>11, LaneAssumption DEF Observed, Sooner, Off, Timer
  <2> QED BY <1>0, <1>2, <1>4, <1>5, <1>6, <1>8, <1>9, <2>1, <2>2 DEF Observed
<1>13. Stops'
  <2>1. CASE shutdown = Off
    BY <1>0, <1>3, <1>4, <2>1 DEF Stops
  <2>2. CASE shutdown # Off
    <3>1. life.stopping /\ life.closing # Off /\ life.closing # 0
      BY <1>0, <1>2, <2>2 DEF Stops
    <3>2. shutdown + life.closing = Grace
      BY <1>0, <1>1, <1>11, <2>2, <3>1, LaneAssumption DEF Stops, Observed, Timer
    <3>3. life'.closing = life.closing - 1 /\ life'.closing # Off /\ shutdown' = shutdown + 1
      BY <1>1, <1>3, <1>4, <1>11, <2>2, <3>1, <3>2, LaneAssumption DEF Sooner, Timer, Off
    <3>4. shutdown' + life'.closing = Grace
      BY <1>1, <1>11, <3>2, <3>3, LaneAssumption DEF Timer
    <3> QED BY <1>3, <1>4, <2>2, <3>1, <3>3, <3>4, LaneAssumption DEF Stops
  <2> QED BY <2>1, <2>2
<1>14. ~life'.stopping /\ life'.closing # Off /\ ~Busy' => work'.age + life'.closing >= Grace
  <2> SUFFICES ASSUME ~life.stopping, life.closing # Off, ~Busy
               PROVE  work'.age + life'.closing >= Grace
    BY <1>4, <1>9, <1>11 DEF Sooner, Off, Timer
  <2>1. work.age + life.closing >= Grace /\ life.closing > 0
    BY <1>0, <1>2, <1>11 DEF Idles, Timer, Off
  <2>2. life'.closing = life.closing - 1
    BY <1>4, <1>11, <2>1 DEF Sooner, Timer
  <2>3. work'.age = work.age + 1 \/ work'.age >= Grace
    BY <1>1, <1>5, LaneAssumption
  <2> QED BY <1>1, <1>5, <1>11, <2>1, <2>2, <2>3, LaneAssumption DEF Timer
<1>15. shutdown' = Off /\ window'.raised /\ ~Busy' => Nears(life.stale, work.age)'
  <2> SUFFICES ASSUME shutdown = Off, window.raised, ~Busy PROVE Nears(life.stale, work.age)'
    BY <1>0, <1>3, <1>9
  <2>1. Nears(life.stale, work.age) /\ life.closing # 0
    BY <1>0, <1>2 DEF Idles
  <2>2. CASE life.closing # Off /\ life.closing + work.age <= ConnectionIdle + Grace
    BY <1>1, <1>4, <1>5, <1>11, <2>1, <2>2, LaneAssumption DEF Nears, Sooner, Timer, Off
  <2>3. CASE life.closing = Off /\ life.stale # Off /\ life.stale + work.age <= ConnectionIdle
    BY <1>1, <1>2, <1>4, <1>5, <1>11, <2>3, LaneAssumption DEF Nears, Sooner, Timer, Off
  <2>4. CASE life.closing > 0 /\ life.stale # Off /\ life.stale + work.age <= ConnectionIdle
    <3>1. life.closing <= Grace
      BY <1>0 DEF Observed
    <3> QED
      BY <1>1, <1>4, <1>5, <1>11, <2>4, <3>1, LaneAssumption DEF Nears, Sooner, Timer, Off
  <2> QED BY <1>11, <2>1, <2>2, <2>3, <2>4 DEF Nears, Timer, Off
<1>16. shutdown' = Off /\ bare' > 0 => life'.quiet # Off /\ Nears(life.quiet, bare)'
  <2> SUFFICES ASSUME shutdown = Off, bare' > 0 PROVE life'.quiet # Off /\ Nears(life.quiet, bare)'
    BY <1>3
  <2>1. ~Used(streams) /\ ~socket.queued /\ ~Busy /\ life.closing # 0
    <3>1. ~Used(streams) /\ ~socket.queued
      BY <1>6
    <3>2. ~Busy
      BY <3>1 DEF ConnectionInv, StreamSound, Busy, Running, Used
    <3> QED BY <1>2, <3>1, <3>2
  <2>2. life.quiet # Off /\ life.quiet <= ConnectionIdle /\ life.closing <= Grace
    BY <1>0, <1>2, <2>1 DEF Observed
  <2>3. life'.quiet # Off
    BY <1>4, <1>11, <2>2 DEF Sooner, Timer, Off
  <2>4. bare > 0 => Nears(life.quiet, bare)
    BY <1>0 DEF Idles
  <2>5. CASE life.closing # Off
    BY <1>1, <1>4, <1>6, <1>11, <2>1, <2>2, <2>4, <2>5, LaneAssumption DEF Nears, Sooner, Timer, Off
  <2>6. CASE life.closing = Off
    BY <1>1, <1>2, <1>4, <1>6, <1>11, <2>2, <2>4, <2>6, LaneAssumption DEF Nears, Sooner, Timer, Off
  <2> QED BY <2>3, <2>5, <2>6
<1>17. Idles'
  BY <1>14, <1>15, <1>16 DEF Idles
<1> QED BY <1>10, <1>12, <1>13, <1>17, SMTT(60) DEF ConnectionInv

-----------------------------------------------------------------------------
(* Results. *)

LEMMA InitConnection == Init => ConnectionInv
<1> SUFFICES ASSUME Init PROVE ConnectionInv
  OBVIOUS
<1>1. /\ Types /\ WindowFunded /\ \A s \in Streams : StreamSound(streams[s])
  BY UnusedSound, OffIsTimer DEF Init, Types, WindowFunded, LifeType
<1>2. ~Busy /\ ~Used(streams)
  BY DEF Init, Busy, Running, Used, Unused
<1>3. Observed /\ Stops /\ Idles
  BY <1>2, LaneAssumption DEF Init, Observed, Stops, Idles, Off
<1> QED BY <1>1, <1>3 DEF ConnectionInv

LEMMA NextConnection == ConnectionInv /\ [Next]_vars => ConnectionInv'
<1> SUFFICES ASSUME ConnectionInv, [Next]_vars PROVE ConnectionInv'
  BY SMTT(60)
<1>1. CASE UNCHANGED vars
  BY <1>1 DEF vars, ConnectionInv, Types, WindowFunded, Observed, Stops, Idles, Nears, Busy, Running, Used
<1>2. ASSUME NEW s \in Streams, StreamMoves(s) PROVE ConnectionInv'
  BY <1>2, MovesAreMoving, MovingStep
<1>3. ASSUME NEW s \in Streams, Accept(s) \/ Revoke(s) PROVE ConnectionInv'
  BY <1>3, AcceptStep, RevokeStep
<1>4. ASSUME NEW s \in Streams, NEW fits \in BOOLEAN, NEW sets \in BOOLEAN, Fund(s, fits, sets)
      PROVE  ConnectionInv'
  BY <1>4, FundStep
<1>5. CASE Fail
  BY <1>5, ClosesStep DEF Fail
<1>6. CASE Poll \/ StreamsPolled \/ (\E blocks \in BOOLEAN : Flush(blocks))
  BY <1>6, PollStep, QuietSteps
<1>7. CASE LifecyclePoll \/ Shutdown \/ Tick
  BY <1>7, LifecyclePollStep, ShutdownStep, TickStep
<1> QED BY <1>1, <1>2, <1>3, <1>4, <1>5, <1>6, <1>7 DEF Next, StreamMoves

LEMMA ConnectionInvariant == Spec => []ConnectionInv
BY InitConnection, NextConnection, PTL DEF Spec

\* A connection of the server closes in time, whatever its peer and its streams do: within
\* the grace of a shutdown, and within the idle bound and the grace when it holds window
\* credit without admitted work or has no streams (http2.rs, Lifecycle::poll).
THEOREM ConnectionsCloseInTime == Spec => []ClosesInTime
<1>1. ConnectionInv => ClosesInTime
  <2> SUFFICES ASSUME ConnectionInv, pc # "Closed"
               PROVE  /\ shutdown <= Grace
                      /\ shutdown = Off /\ window.raised /\ ~Busy => work.age <= ConnectionIdle + Grace
                      /\ shutdown = Off => bare <= ConnectionIdle + Grace
    BY DEF ClosesInTime
  <2>1. Observed /\ Stops /\ Idles
    BY DEF ConnectionInv
  <2>2. /\ life.closing \in Timer /\ life.stale \in Timer /\ life.quiet \in Timer
        /\ shutdown \in Timer /\ work.age \in Nat /\ bare \in Nat
    BY DEF ConnectionInv, Types, LifeType
  <2>3. shutdown <= Grace
    BY <2>1, <2>2, LaneAssumption DEF Stops, Timer, Off
  <2>4. ASSUME shutdown = Off, window.raised, ~Busy PROVE work.age <= ConnectionIdle + Grace
    BY <2>1, <2>2, <2>4, LaneAssumption DEF Idles, Nears, Observed, Timer, Off
  <2>5. ASSUME shutdown = Off PROVE bare <= ConnectionIdle + Grace
    <3>1. CASE bare = 0
      BY <3>1, LaneAssumption
    <3>2. CASE bare > 0
      <4>1. Nears(life.quiet, bare)
        BY <2>1, <2>5, <3>2 DEF Idles
      <4> QED BY <2>2, <4>1, LaneAssumption DEF Nears, Timer, Off
    <3> QED BY <2>2, <3>1, <3>2
  <2> QED BY <2>3, <2>4, <2>5
<1> QED BY <1>1, ConnectionInvariant, PTL

\* The receive window is wide only for an admitted upload that reads it, and its credit is
\* held from the raise to the end of the connection (http2.rs, Http2Window).
THEOREM WindowsFunded == Spec => []WindowFunded
<1>1. ConnectionInv => WindowFunded
  BY DEF ConnectionInv
<1> QED BY <1>1, ConnectionInvariant, PTL

\* The lifecycle closes a connection a whole grace after its last work or after the shutdown,
\* never with work it cuts short (http2.rs, Lifecycle::observe and Lifecycle::stop).
THEOREM WorkRunsOut == Spec => WorkUncut
<1> DEFINE Cut == ended = "No" /\ ended' = "Lifecycle" =>
                      (~Busy /\ work.age >= Grace) \/ shutdown >= Grace
<1>1. ASSUME ConnectionInv, [Next]_vars PROVE [Cut]_vars
  <2> SUFFICES ASSUME ended = "No", ended' = "Lifecycle"
               PROVE  (~Busy /\ work.age >= Grace) \/ shutdown >= Grace
    OBVIOUS
  <2>1. LifecyclePoll
    <3>1. ~(UNCHANGED vars) /\ ended' # ended
      BY DEF vars
    <3>2. \A s \in Streams : ~StreamMoves(s)
      BY <3>1 DEF StreamMoves, Answer, AbortUnanswered, AdmitReply, AdmitAnswer, AdmitUpload,
            Expire, Record, FinishUpload, EndUpload, NextData, WriteData, Delivered, AbortReply,
            Over, Moves
    <3>3. \A s \in Streams : ~Accept(s) /\ ~Revoke(s) /\ \A fits, sets \in BOOLEAN : ~Fund(s, fits, sets)
      BY <3>1 DEF Accept, Revoke, Fund
    <3>4. ~Poll /\ ~StreamsPolled /\ ~Shutdown /\ ~Tick /\ \A blocks \in BOOLEAN : ~Flush(blocks)
      BY <3>1 DEF Poll, StreamsPolled, Shutdown, Tick, Flush
    <3>5. ~Fail
      BY DEF Fail, Closes
    <3> QED BY <1>1, <3>1, <3>2, <3>3, <3>4, <3>5 DEF Next, StreamMoves
  <2>2. pc = "Life" /\ ~Away /\ Seen.closing = 0 /\ Closable(Seen)
    BY <2>1, LifecycleCases DEF Stays
  <2>3. /\ life \in LifeType /\ work \in [age : Nat, fresh : BOOLEAN] /\ shutdown \in Timer
    BY <1>1 DEF ConnectionInv, Types, LifeType
  <2>4. /\ Seen.stopping <=> life.stopping
        /\ Seen.busy <=> Busy
        /\ Seen.closing = IF New /\ ~life.stopping /\ ~Busy /\ life.closing # Off
                          THEN Left(Grace) ELSE life.closing
    BY <2>3, SeenFields
  <2>5. Stops /\ Idles
    BY <1>1, <2>2 DEF ConnectionInv
  <2>6. CASE life.stopping
    BY <2>2, <2>3, <2>4, <2>5, <2>6, LaneAssumption DEF Stops, Timer, Off
  <2>7. CASE ~life.stopping
    <3>1. ~Busy
      BY <2>2, <2>4, <2>7 DEF Closable
    <3>2. CASE New
      BY <2>2, <2>3, <2>4, <2>7, <3>1, <3>2, LaneAssumption DEF Left, Off
    <3>3. CASE ~New
      BY <2>2, <2>3, <2>4, <2>5, <2>7, <3>1, <3>3 DEF New, Idles, Off
    <3> QED BY <3>2, <3>3
  <2> QED BY <2>6, <2>7
<1> QED BY <1>1, ConnectionInvariant, PTL DEF Spec, WorkUncut

(***************************************************************************)
(* CertificatesSound for every set of versions.  The invariant adds what a *)
(* file holds that the renewal is done with, what a reload has read that   *)
(* began after it, and that only such a reload may be under way once one   *)
(* ended.                                                                  *)
(***************************************************************************)
Names == {"cert", "key"}
Steps == {"Idle", "Cert", "Key", "Pair", "Budget"}
Pairs(S) == [cert : S, key : S]

Contents == Versions \cup {0, 1, Torn}

PairTypes ==
    /\ files \in Pairs(Contents) /\ current \in Pairs(Contents)
    /\ renewal \in [version : Versions \cup {0}, left : SUBSET Names]
    /\ read \in [step : Steps, cert : Contents, key : Contents, fresh : BOOLEAN]
    /\ settled \in BOOLEAN

Whole == IF renewal.version = 0 THEN 1 ELSE renewal.version

Followed ==
    /\ renewal.left # {} => renewal.version # 0
    /\ \A file \in Names : file \notin renewal.left => files[file] = Whole
    /\ read.fresh =>
         /\ renewal.left = {}
         /\ read.step \in {"Key", "Pair", "Budget"} => read.cert = files.cert
         /\ read.step \in {"Pair", "Budget"} => read.key = files.key
    /\ read.step = "Idle" => ~read.fresh
    /\ settled => renewal.left = {} /\ (read.step = "Idle" \/ read.fresh)
    /\ read.step = "Budget" => read.cert = current.cert

CertificatesInv == PairTypes /\ Followed /\ CertificatesSound

LEMMA InitCertificates == CertificatesInit => CertificatesInv
  <1> SUFFICES ASSUME CertificatesInit PROVE CertificatesInv
    OBVIOUS
  <1>1. PairTypes
    BY Zenon DEF CertificatesInit, PairTypes, Idle, Still, Names, Steps, Pairs, Contents
  <1>2. Followed
    BY DEF CertificatesInit, Followed, Idle, Still, Names, Whole
  <1>3. CertificatesSound
    BY DEF CertificatesInit, CertificatesSound, Idle
  <1> QED
    BY <1>1, <1>2, <1>3 DEF CertificatesInv

LEMMA PairTypesStep == ASSUME PairTypes, [CertificatesNext]_pair PROVE PairTypes'
  <1> USE DEF PairTypes, Names, Steps, Pairs, Contents
  <1>1. ASSUME NEW version \in Versions, Renew(version) PROVE PairTypes'
    BY <1>1, Zenon DEF Renew
  <1>2. ASSUME NEW file \in Names, Write(file) PROVE PairTypes'
    <2>1. renewal' \in [version : Versions \cup {0}, left : SUBSET Names]
      BY <1>2 DEF Write
    <2>2. CASE file = "cert"
      <3>1. files' = [cert |-> files'.cert, key |-> files.key]
        BY <1>2, <2>2 DEF Write
      <3>2. files'.cert \in Contents
        BY <1>2, <2>2 DEF Write
      <3> QED
        BY <1>2, <2>1, <3>1, <3>2 DEF Write
    <2>3. CASE file = "key"
      <3>1. files' = [cert |-> files.cert, key |-> files'.key]
        BY <1>2, <2>3 DEF Write
      <3>2. files'.key \in Contents
        BY <1>2, <2>3 DEF Write
      <3> QED
        BY <1>2, <2>1, <3>1, <3>2 DEF Write
    <2> QED
      BY <2>2, <2>3
  <1>3. CASE Begin
    BY <1>3, ZenonT(60) DEF Begin, Idle
  <1>4. CASE ReadCert
    BY <1>4, Zenon DEF ReadCert
  <1>5. CASE ReadKey
    BY <1>5, Zenon DEF ReadKey
  <1>6. CASE Reload
    <2>1. CASE Complete(read.cert, read.key)
      BY <1>6, <2>1 DEF Reload
    <2>2. CASE ~Complete(read.cert, read.key)
      <3>1. read' = Idle /\ UNCHANGED <<files, renewal, current>>
        BY <1>6, <2>2 DEF Reload
      <3>2. settled' \in BOOLEAN
        BY <1>6, <2>2 DEF Reload
      <3> QED
        BY <3>1, <3>2 DEF Idle
    <2> QED
      BY <2>1, <2>2
  <1>7. CASE Budget
    BY <1>7 DEF Budget, Idle
  <1>8. CASE UNCHANGED pair
    BY <1>8 DEF pair
  <1> QED
    BY <1>1, <1>2, <1>3, <1>4, <1>5, <1>6, <1>7, <1>8 DEF CertificatesNext, Names

LEMMA FollowedStep == ASSUME PairTypes, Followed, [CertificatesNext]_pair PROVE Followed'
  <1> USE DEF PairTypes, Followed, Whole, Names
  <1>1. ASSUME NEW version \in Versions, Renew(version) PROVE Followed'
    BY <1>1, CertificatesAssumption DEF Renew
  <1>2. ASSUME NEW file \in Names, Write(file) PROVE Followed'
    <2>1. CASE files[file] = Torn
      BY <1>2, <2>1 DEF Write, Pairs
    <2>2. CASE files[file] # Torn
      BY <1>2, <2>2 DEF Write, Pairs
    <2> QED
      BY <2>1, <2>2
  <1>3. CASE Begin
    BY <1>3 DEF Begin, Idle
  <1>4. CASE ReadCert
    BY <1>4 DEF ReadCert
  <1>5. CASE ReadKey
    BY <1>5 DEF ReadKey
  <1>6. CASE Reload
    BY <1>6 DEF Reload, Idle
  <1>7. CASE Budget
    BY <1>7 DEF Budget, Idle
  <1>8. CASE UNCHANGED pair
    BY <1>8 DEF pair
  <1> QED
    BY <1>1, <1>2, <1>3, <1>4, <1>5, <1>6, <1>7, <1>8 DEF CertificatesNext

LEMMA SoundStep == ASSUME CertificatesInv, [CertificatesNext]_pair PROVE CertificatesSound'
  <1> USE DEF CertificatesInv, CertificatesSound
  <1>1. ASSUME NEW version \in Versions, Renew(version) PROVE CertificatesSound'
    BY <1>1 DEF Renew, PairTypes
  <1>2. ASSUME NEW file \in Names, Write(file) PROVE CertificatesSound'
    BY <1>2 DEF Write, Followed
  <1>3. CASE Begin
    BY <1>3 DEF Begin, Idle
  <1>4. CASE ReadCert
    BY <1>4 DEF ReadCert, PairTypes
  <1>5. CASE ReadKey
    BY <1>5 DEF ReadKey, PairTypes
  <1>6. CASE Reload
    <2>1. CASE Complete(read.cert, read.key)
      BY <1>6, <2>1 DEF Reload, Complete, Followed, PairTypes
    <2>2. CASE ~Complete(read.cert, read.key)
      <3>1. read.fresh => read.cert = Whole /\ read.key = Whole /\ files.cert = Whole
        BY <1>6 DEF Reload, Followed, Names
      <3>2. Whole # Torn
        BY CertificatesAssumption DEF Whole, PairTypes
      <3>3. read.fresh => files.cert \notin Usable
        BY <2>2, <3>1, <3>2 DEF Complete
      <3> QED
        BY <1>6, <2>2, <3>3, Zenon DEF Reload, Idle
    <2> QED
      BY <2>1, <2>2
  <1>7. CASE Budget
    BY <1>7, Zenon DEF Budget, Idle, Followed
  <1>8. CASE UNCHANGED pair
    BY <1>8 DEF pair
  <1> QED
    BY <1>1, <1>2, <1>3, <1>4, <1>5, <1>6, <1>7, <1>8 DEF CertificatesNext, Names

\* However the writes of renewals fall among the reads of reloads, tls.rs serves a
\* pair that matches and that it accepted, and a usable renewal from the first
\* reload on that began once it was whole.
THEOREM ServedPairSound == CertificatesSpec => []CertificatesSound
  <1>1. CertificatesInit => CertificatesInv
    BY InitCertificates
  <1>2. CertificatesInv /\ [CertificatesNext]_pair => CertificatesInv'
    BY PairTypesStep, FollowedStep, SoundStep DEF CertificatesInv
  <1>3. CertificatesInv => CertificatesSound
    BY DEF CertificatesInv
  <1> QED
    BY <1>1, <1>2, <1>3, PTL DEF CertificatesSpec

(***************************************************************************)
(* The listeners that accept the connections, and the loop that serves     *)
(* them: each drain ends within its grace, the closer's wait within        *)
(* CLOSE_FLUSH, and the holds in use are those of the connections that run.*)
(***************************************************************************)
CONSTANTS Listeners, Connections, Capacity, RetryFirst, RetryLast, Quic, CloseFlush
VARIABLES listener, running, holds, server, failed, since, broken

L == INSTANCE Listener

ListenerPlaces == {"Accepting", "Retrying", "Draining", "Closing", "Done"}
ListenerType == [pc : ListenerPlaces, delay : Nat, left : Timer]

Served == {p \in Listeners \X Connections : p[2] \in running[p[1]]}

ListenerTypes ==
    /\ listener \in [Listeners -> ListenerType] /\ running \in [Listeners -> SUBSET Connections]
    /\ server \in {"Serving", "Stopping", "Stopped"} /\ failed \in BOOLEAN
    /\ since \in Timer /\ broken \in Timer

\* A listener's connections are gone with its drain, which the grace bounds, as
\* CLOSE_FLUSH bounds the wait that follows.
Drained ==
    \A l \in Listeners :
        /\ listener[l].pc \in {"Closing", "Done"} => running[l] = {}
        /\ listener[l].pc = "Draining" => listener[l].left \in 0..Grace
        /\ listener[l].pc = "Closing" => listener[l].left \in 0..CloseFlush

\* From the shutdown on a listener drains at once, its drain ends with the grace and
\* its closer with the bound.
Stopping ==
    /\ server = "Serving" <=> since = -1
    /\ server = "Stopping" =>
          /\ since <= Grace + CloseFlush
          /\ \A l \in Listeners :
                /\ listener[l].pc \in {"Accepting", "Retrying"} => since = 0
                /\ listener[l].pc = "Draining" => listener[l].left + since <= Grace
                /\ listener[l].pc = "Closing" => listener[l].left + since <= Grace + CloseFlush
    /\ server = "Stopped" => \A l \in Listeners : listener[l].pc = "Done"

\* The first listener that broke ends within the bound, and its end is the
\* shutdown, if that had not come before.
Broke(l) ==
    \/ listener[l].pc = "Draining" /\ listener[l].left + broken <= Grace
    \/ listener[l].pc = "Closing" /\ listener[l].left + broken <= Grace + CloseFlush
    \/ listener[l].pc = "Done" /\ broken <= Grace + CloseFlush

Breaking ==
    /\ broken # -1 => failed
    /\ broken # -1 /\ server = "Serving" => \E l \in Listeners : Broke(l)
    /\ broken # -1 /\ server = "Stopping" => broken <= Grace + CloseFlush + since

ListenerInv == ListenerTypes /\ Drained /\ Stopping /\ Breaking /\ holds = Cardinality(Served)

\* The instance counts with the operators of this module.
LEMMA SameCount ==
    ASSUME NEW S PROVE (L!IsFiniteSet(S) <=> IsFiniteSet(S)) /\ L!Cardinality(S) = Cardinality(S)
  BY Zenon DEF L!IsFiniteSet, IsFiniteSet, L!Cardinality, Cardinality

LEMMA ServedFinite ==
    ASSUME L!ListenerAssumption PROVE IsFiniteSet(Served) /\ IsFiniteSet(Served')
  <1>1. IsFiniteSet(Listeners \X Connections)
    BY SameCount, FS_Product DEF L!ListenerAssumption
  <1>2. Served \subseteq Listeners \X Connections /\ Served' \subseteq Listeners \X Connections
    BY DEF Served
  <1> QED
    BY <1>1, <1>2, FS_Subset

\* One listener moves to `new`, and the connections stay.
LEMMA ListenerMoves ==
    ASSUME ListenerTypes, NEW l \in Listeners, NEW new \in ListenerType, listener' = [listener EXCEPT ![l] = new]
    PROVE  /\ listener' \in [Listeners -> ListenerType] /\ listener'[l] = new
           /\ \A k \in Listeners \ {l} : listener'[k] = listener[k]
  BY DEF ListenerTypes

LEMMA StaysServed == ASSUME running' = running, holds' = holds, ListenerInv PROVE holds' = Cardinality(Served')
  <1>1. Served' = Served
    BY DEF Served
  <1> QED
    BY <1>1 DEF ListenerInv

LEMMA NewAccepting ==
    ASSUME NEW r \in ListenerType
    PROVE  /\ [r EXCEPT !.delay = 0] \in ListenerType /\ [r EXCEPT !.delay = 0].pc = r.pc /\ [r EXCEPT !.delay = 0].left = r.left
  BY DEF ListenerType

LEMMA ListenerGoes ==
    ASSUME NEW r \in ListenerType, NEW p \in ListenerPlaces
    PROVE  [r EXCEPT !.pc = p] \in ListenerType /\ [r EXCEPT !.pc = p].pc = p
  BY Zenon DEF ListenerType

LEMMA ListenerLasts ==
    ASSUME NEW r \in ListenerType, NEW n \in Timer
    PROVE  /\ [r EXCEPT !.left = n] \in ListenerType
           /\ [r EXCEPT !.left = n].pc = r.pc /\ [r EXCEPT !.left = n].left = n
  BY Zenon DEF ListenerType

Placed(r, p, n) == [[r EXCEPT !.pc = p] EXCEPT !.left = n]

LEMMA NewPlace ==
    ASSUME NEW r \in ListenerType, NEW p \in ListenerPlaces, NEW n \in Timer
    PROVE  Placed(r, p, n) \in ListenerType /\ Placed(r, p, n).pc = p /\ Placed(r, p, n).left = n
  <1> DEFINE mid == [r EXCEPT !.pc = p]
  <1>1. mid \in ListenerType /\ mid.pc = p
    BY ListenerGoes, Zenon
  <1> HIDE DEF mid
  <1>2. [mid EXCEPT !.left = n] \in ListenerType /\ [mid EXCEPT !.left = n].pc = p /\ [mid EXCEPT !.left = n].left = n
    BY <1>1, ListenerLasts, Zenon
  <1> QED
    BY <1>2, Zenon DEF mid, Placed

LEMMA AcceptKeeps ==
    ASSUME L!ListenerAssumption, ListenerInv, NEW l \in Listeners, NEW c \in Connections, L!Accept(l, c) PROVE ListenerInv'
  <1> DEFINE new == [listener[l] EXCEPT !.delay = 0]
  <1>1. listener[l] \in ListenerType /\ listener \in [Listeners -> ListenerType]
    BY DEF ListenerInv, ListenerTypes
  <1>2. /\ UNCHANGED <<server, failed, since, broken>> /\ listener[l].pc = "Accepting" /\ server = "Serving" /\ c \notin running[l]
        /\ listener' = [listener EXCEPT ![l].delay = 0]
    BY Zenon DEF L!Accept, L!Accepting, L!Shutdown
  <1>3. new \in ListenerType /\ new.pc = "Accepting" /\ new.left = listener[l].left
    BY <1>1, <1>2, NewAccepting, Zenon
  <1>4. listener' = [listener EXCEPT ![l] = new]
    BY <1>1, <1>2, Zenon
  <1> HIDE DEF new
  <1>5. /\ listener' \in [Listeners -> ListenerType] /\ listener'[l] = new
        /\ \A k \in Listeners \ {l} : listener'[k] = listener[k]
    BY <1>3, <1>4, ListenerMoves, Zenon DEF ListenerInv
  <1>6. \/ holds' = holds + 1 /\ running' = [running EXCEPT ![l] = @ \cup {c}]
        \/ UNCHANGED <<holds, running>>
    BY Zenon DEF L!Accept
  <1>7. running' \in [Listeners -> SUBSET Connections] /\ \A k \in Listeners \ {l} : running'[k] = running[k]
    BY <1>6 DEF ListenerInv, ListenerTypes
  <1>8. holds' = Cardinality(Served')
    <2>1. CASE UNCHANGED <<holds, running>>
      BY <2>1, StaysServed, Zenon
    <2>2. CASE holds' = holds + 1 /\ running' = [running EXCEPT ![l] = @ \cup {c}]
      <3>1. Served' = Served \cup {<<l, c>>} /\ <<l, c>> \notin Served
        BY <1>2, <2>2 DEF Served, ListenerInv, ListenerTypes
      <3> HIDE DEF Served
      <3>2. Cardinality(Served') = Cardinality(Served) + 1
        BY <3>1, ServedFinite, FS_AddElement
      <3> QED
        BY <2>2, <3>2, Zenon DEF ListenerInv
    <2> QED
      BY <1>6, <2>1, <2>2, Zenon
  <1>9. ListenerTypes'
    BY <1>2, <1>5, <1>7, Zenon DEF ListenerInv, ListenerTypes
  <1>10. Drained'
    BY <1>2, <1>3, <1>5, <1>7 DEF ListenerInv, Drained
  <1>11. Stopping'
    BY <1>2, <1>3, <1>5 DEF ListenerInv, Stopping
  <1>12. Breaking'
    BY <1>2, <1>3, <1>5 DEF ListenerInv, Breaking, Broke
  <1> QED
    BY <1>8, <1>9, <1>10, <1>11, <1>12, Zenon DEF ListenerInv

\* A listener takes its next place; no connection comes or goes.
LEMMA PlaceKeeps ==
    ASSUME L!ListenerAssumption, ListenerInv, NEW l \in Listeners,
           L!AcceptFails(l) \/ L!Retry(l) \/ L!Break(l) \/ L!StopAccepting(l)
    PROVE  ListenerInv'
  <1>1. /\ listener[l] \in ListenerType /\ listener \in [Listeners -> ListenerType] /\ Grace \in Nat
        /\ listener[l].delay \in Nat
    BY DEF ListenerInv, ListenerTypes, ListenerType, L!ListenerAssumption
  <1>2. UNCHANGED <<running, holds, server, since>> /\ listener[l].pc \in {"Accepting", "Retrying"}
    BY DEF L!AcceptFails, L!Retry, L!Break, L!StopAccepting, L!Accepting
  <1>3. holds' = Cardinality(Served')
    BY <1>2, StaysServed, Zenon
  <1>4. CASE L!AcceptFails(l) \/ L!Retry(l)
    <2>1. server = "Serving" /\ UNCHANGED <<failed, broken>>
      BY <1>4, Zenon DEF L!AcceptFails, L!Retry, L!Accepting, L!Shutdown
    <2>2. PICK new \in ListenerType : new.pc \in {"Accepting", "Retrying"} /\ listener' = [listener EXCEPT ![l] = new]
      <3>1. CASE L!AcceptFails(l)
        <4> DEFINE delay == L!Clamp(2 * listener[l].delay)
                   new == [pc |-> "Retrying", delay |-> delay, left |-> delay]
        <4>1. delay \in Nat
          BY <1>1 DEF L!Clamp, L!ListenerAssumption
        <4>2. listener' = [listener EXCEPT ![l] = new]
          BY <3>1, Zenon DEF L!AcceptFails
        <4> HIDE DEF delay
        <4>3. new \in ListenerType /\ new.pc = "Retrying"
          BY <4>1 DEF ListenerType, ListenerPlaces, Timer
        <4> QED
          BY <4>2, <4>3, Zenon
      <3>2. CASE L!Retry(l)
        <4>1. PICK p \in ListenerPlaces, n \in Timer : p = "Accepting" /\ n = -1
          BY DEF ListenerPlaces, Timer
        <4> DEFINE new == Placed(listener[l], p, n)
        <4>2. listener' = [listener EXCEPT ![l] = new]
          BY <1>1, <3>2, <4>1, Zenon DEF L!Retry, L!Off, Placed
        <4>3. new \in ListenerType /\ new.pc = p
          BY <1>1, NewPlace, Zenon
        <4> HIDE DEF new
        <4> QED
          BY <4>1, <4>2, <4>3, Zenon
      <3> QED
        BY <1>4, <3>1, <3>2, Zenon
    <2>3. /\ listener' \in [Listeners -> ListenerType] /\ listener'[l] = new
          /\ \A k \in Listeners \ {l} : listener'[k] = listener[k]
      BY <2>2, ListenerMoves, Zenon DEF ListenerInv
    <2>4. ListenerTypes'
      BY <1>2, <2>1, <2>3, Zenon DEF ListenerInv, ListenerTypes
    <2>5. Drained' /\ Stopping' /\ Breaking'
      BY <1>2, <2>1, <2>2, <2>3 DEF ListenerInv, Drained, Stopping, Breaking, Broke
    <2> QED
      BY <1>3, <2>4, <2>5, Zenon DEF ListenerInv
  <1>5. CASE L!Break(l) \/ L!StopAccepting(l)
    <2>1. PICK p \in ListenerPlaces, n \in Timer : p = "Draining" /\ n = Grace
      BY <1>1 DEF ListenerPlaces, Timer
    <2> DEFINE new == Placed(listener[l], p, n)
    <2>2. listener' = [listener EXCEPT ![l] = new]
      <3>1. listener' = [listener EXCEPT ![l].pc = "Draining", ![l].left = Grace]
        BY <1>5, Zenon DEF L!Break, L!StopAccepting, L!Drains
      <3> QED
        BY <1>1, <2>1, <3>1, Zenon DEF Placed
    <2>0. new \in ListenerType /\ new.pc = p /\ new.left = n
      BY <1>1, NewPlace
    <2> HIDE DEF new
    <2>3. new \in ListenerType /\ new.pc = "Draining" /\ new.left = Grace
      BY <2>0, <2>1, Zenon
    <2>4. /\ listener' \in [Listeners -> ListenerType] /\ listener'[l] = new
          /\ \A k \in Listeners \ {l} : listener'[k] = listener[k]
      BY <2>2, <2>3, ListenerMoves, Zenon DEF ListenerInv
    <2>5. Drained'
      BY <1>1, <1>2, <2>3, <2>4 DEF ListenerInv, Drained
    <2>6. Stopping'
      BY <1>1, <1>2, <2>3, <2>4 DEF ListenerInv, Stopping
    <2>7. CASE L!Break(l)
      <3>1. failed' = TRUE /\ broken' = (IF broken = -1 THEN 0 ELSE broken) /\ server = "Serving"
        BY <2>7, Zenon DEF L!Break, L!Off, L!Accepting, L!Shutdown
      <3>2. ListenerTypes'
        BY <1>2, <2>4, <3>1 DEF ListenerInv, ListenerTypes, Timer
      <3>3. Breaking'
        BY <1>1, <1>2, <2>3, <2>4, <3>1 DEF ListenerInv, Breaking, Broke
      <3> QED
        BY <1>3, <2>5, <2>6, <3>2, <3>3, Zenon DEF ListenerInv
    <2>8. CASE L!StopAccepting(l)
      <3>1. UNCHANGED <<failed, broken>> /\ server # "Serving"
        BY <2>8, Zenon DEF L!StopAccepting, L!Shutdown
      <3>2. ListenerTypes'
        BY <1>2, <2>4, <3>1, Zenon DEF ListenerInv, ListenerTypes
      <3>3. Breaking'
        BY <1>2, <3>1, Zenon DEF ListenerInv, Breaking
      <3> QED
        BY <1>3, <2>5, <2>6, <3>2, <3>3, Zenon DEF ListenerInv
    <2> QED
      BY <1>5, <2>7, <2>8, Zenon
  <1> QED
    BY <1>4, <1>5, Zenon

\* A connection's task ends and gives its hold back.
LEMMA EndsKeeps ==
    ASSUME L!ListenerAssumption, ListenerInv, NEW l \in Listeners, NEW c \in Connections, L!ConnectionEnds(l, c)
    PROVE  ListenerInv'
  <1>1. /\ c \in running[l] /\ running' = [running EXCEPT ![l] = @ \ {c}] /\ holds' = holds - 1
        /\ UNCHANGED <<listener, server, failed, since, broken>>
    BY Zenon DEF L!ConnectionEnds
  <1>2. running' \in [Listeners -> SUBSET Connections] /\ \A k \in Listeners : running[k] = {} => running'[k] = {}
    BY <1>1 DEF ListenerInv, ListenerTypes
  <1>3. holds' = Cardinality(Served')
    <2>1. Served' = Served \ {<<l, c>>} /\ <<l, c>> \in Served
      BY <1>1 DEF Served, ListenerInv, ListenerTypes
    <2> HIDE DEF Served
    <2>2. Cardinality(Served') = Cardinality(Served) - 1
      BY <2>1, ServedFinite, FS_RemoveElement
    <2> QED
      BY <1>1, <2>2, Zenon DEF ListenerInv
  <1>4. ListenerTypes' /\ Stopping' /\ Breaking' /\ Drained'
    BY <1>1, <1>2, Zenon DEF ListenerInv, ListenerTypes, Stopping, Breaking, Broke, Drained
  <1> QED
    BY <1>3, <1>4, Zenon DEF ListenerInv

\* The drain's end, or its abort, gives back the holds of all that still ran.
LEMMA DrainKeeps ==
    ASSUME L!ListenerAssumption, ListenerInv, NEW l \in Listeners, L!DrainEnds(l) PROVE ListenerInv'
  <1> DEFINE mine == {l} \X running[l]
  <1>1. /\ listener[l] \in ListenerType /\ listener \in [Listeners -> ListenerType]
        /\ Grace \in Nat /\ CloseFlush \in Nat
        /\ running[l] \in SUBSET Connections /\ running \in [Listeners -> SUBSET Connections]
    BY DEF ListenerInv, ListenerTypes, L!ListenerAssumption
  <1>2. /\ UNCHANGED <<server, failed, since, broken>> /\ listener[l].pc = "Draining"
        /\ holds' = holds - Cardinality(running[l]) /\ running' = [running EXCEPT ![l] = {}]
        /\ listener' = [listener EXCEPT ![l].pc = "Closing", ![l].left = L!Flush(l)]
    BY SameCount, Zenon DEF L!DrainEnds
  <1>3. PICK p \in ListenerPlaces, n \in Timer : p = "Closing" /\ n = L!Flush(l) /\ n \in 0..CloseFlush
    BY <1>1 DEF ListenerPlaces, Timer, L!Flush
  <1> DEFINE new == Placed(listener[l], p, n)
  <1>4. listener' = [listener EXCEPT ![l] = new]
    BY <1>1, <1>2, <1>3, Zenon DEF Placed
  <1>0. new \in ListenerType /\ new.pc = p /\ new.left = n
    <2>1. Placed(listener[l], p, n) \in ListenerType /\ Placed(listener[l], p, n).pc = p
      BY <1>1, NewPlace, Zenon
    <2>2. Placed(listener[l], p, n).left = n
      BY <1>1, NewPlace
    <2> QED
      BY <2>1, <2>2, Zenon
  <1> HIDE DEF new
  <1>5. new \in ListenerType /\ new.pc = "Closing" /\ new.left \in 0..CloseFlush
    BY <1>0, <1>3, Zenon
  <1>6. /\ listener' \in [Listeners -> ListenerType] /\ listener'[l] = new
        /\ \A k \in Listeners \ {l} : listener'[k] = listener[k]
    BY <1>4, <1>5, ListenerMoves, Zenon DEF ListenerInv
  <1>7. /\ running' \in [Listeners -> SUBSET Connections] /\ running'[l] = {}
        /\ \A k \in Listeners \ {l} : running'[k] = running[k]
    BY <1>1, <1>2
  <1>8. holds' = Cardinality(Served')
    <2>1. IsFiniteSet(running[l]) /\ IsFiniteSet({l}) /\ Cardinality({l}) = 1
      <3>1. running[l] \subseteq Connections /\ IsFiniteSet(Connections)
        BY <1>1, SameCount DEF L!ListenerAssumption
      <3> QED
        BY <3>1, FS_Subset, FS_Singleton, Zenon
    <2>2. IsFiniteSet(mine) /\ Cardinality(mine) = Cardinality({l}) * Cardinality(running[l])
      BY <2>1, FS_Product, Zenon
    <2>3. Cardinality(running[l]) \in Nat
      BY <2>1, FS_CardinalityType, Zenon
    <2>4. Cardinality(mine) = Cardinality(running[l])
      BY <2>1, <2>2, <2>3
    <2>5. mine \subseteq Served
      BY <1>1 DEF Served
    <2>6. Served' = Served \ mine
      BY <1>1, <1>7 DEF Served
    <2> HIDE DEF Served, mine
    <2>7. Served \cap mine = mine
      BY <2>5
    <2>8. Cardinality(Served \ mine) = Cardinality(Served) - Cardinality(Served \cap mine)
      BY <2>2, ServedFinite, FS_Difference, Zenon
    <2> QED
      BY <1>2, <2>4, <2>6, <2>7, <2>8, Zenon DEF ListenerInv
  <1>9. ListenerTypes'
    BY <1>2, <1>6, <1>7, Zenon DEF ListenerInv, ListenerTypes
  <1>10. Drained'
    BY <1>5, <1>6, <1>7 DEF ListenerInv, Drained
  <1>a. listener[l].left \in 0..Grace /\ since \in Timer /\ broken \in Timer
    BY <1>2 DEF ListenerInv, Drained, ListenerTypes
  <1>11. Stopping'
    <2>1. server = "Stopping" => new.left + since <= Grace + CloseFlush
      <3>1. server = "Stopping" => listener[l].left + since <= Grace
        BY <1>2 DEF ListenerInv, Stopping
      <3> QED
        BY <1>1, <1>5, <1>a, <3>1 DEF Timer
    <2>2. server' = server /\ since' = since /\ server # "Stopped" /\ Stopping
      BY <1>2 DEF ListenerInv, Stopping
    <2>3. ASSUME server = "Stopping", NEW k \in Listeners
          PROVE  /\ listener'[k].pc \in {"Accepting", "Retrying"} => since = 0
                 /\ listener'[k].pc = "Draining" => listener'[k].left + since <= Grace
                 /\ listener'[k].pc = "Closing" => listener'[k].left + since <= Grace + CloseFlush
      <3>1. CASE k = l
        BY <1>5, <1>6, <2>1, <2>3, <3>1
      <3>2. CASE k # l
        BY <1>6, <2>2, <2>3, <3>2 DEF Stopping
      <3> QED
        BY <3>1, <3>2
    <2> QED
      BY <2>2, <2>3, Zenon DEF Stopping
  <1>12. Breaking'
    <2>1. listener[l].left + broken <= Grace => new.left + broken <= Grace + CloseFlush
      BY <1>1, <1>5, <1>a DEF Timer
    <2>2. ASSUME NEW k \in Listeners, Broke(k) PROVE Broke(k)'
      <3>1. CASE k = l
        <4>1. listener[l].left + broken <= Grace
          BY <1>2, <2>2, <3>1 DEF Broke
        <4>2. new.left + broken <= Grace + CloseFlush
          BY <2>1, <4>1, Zenon
        <4>3. listener'[k].pc = "Closing" /\ listener'[k].left + broken' <= Grace + CloseFlush
          BY <1>2, <1>5, <1>6, <3>1, <4>2, Zenon
        <4> QED
          BY <4>3, Zenon DEF Broke
      <3>2. CASE k # l
        BY <1>2, <1>6, <2>2, <3>2 DEF Broke
      <3> QED
        BY <3>1, <3>2
    <2> QED
      BY <1>2, <2>2, Zenon DEF ListenerInv, Breaking
  <1> QED
    BY <1>8, <1>9, <1>10, <1>11, <1>12, Zenon DEF ListenerInv

\* The closes have been sent, or their time is over.
LEMMA CloseKeeps ==
    ASSUME L!ListenerAssumption, ListenerInv, NEW l \in Listeners, L!CloseEnds(l) PROVE ListenerInv'
  <1>1. /\ listener[l] \in ListenerType /\ listener \in [Listeners -> ListenerType]
        /\ Grace \in Nat /\ CloseFlush \in Nat /\ broken \in Timer
    BY DEF ListenerInv, ListenerTypes, L!ListenerAssumption
  <1>2. /\ UNCHANGED <<running, holds, server, failed, since, broken>> /\ listener[l].pc = "Closing"
        /\ listener' = [listener EXCEPT ![l].pc = "Done", ![l].left = -1]
    BY Zenon DEF L!CloseEnds, L!Off
  <1>3. PICK p \in ListenerPlaces, n \in Timer : p = "Done" /\ n = -1
    BY DEF ListenerPlaces, Timer
  <1> DEFINE new == Placed(listener[l], p, n)
  <1>4. listener' = [listener EXCEPT ![l] = new]
    BY <1>1, <1>2, <1>3, Zenon DEF Placed
  <1>0. new \in ListenerType /\ new.pc = p
    BY <1>1, NewPlace, Zenon
  <1> HIDE DEF new
  <1>5. new \in ListenerType /\ new.pc = "Done"
    BY <1>0, <1>3, Zenon
  <1>6. /\ listener' \in [Listeners -> ListenerType] /\ listener'[l] = new
        /\ \A k \in Listeners \ {l} : listener'[k] = listener[k]
    BY <1>4, <1>5, ListenerMoves, Zenon DEF ListenerInv
  <1>7. holds' = Cardinality(Served')
    BY <1>2, StaysServed, Zenon
  <1>8. ListenerTypes'
    BY <1>2, <1>6, Zenon DEF ListenerInv, ListenerTypes
  <1>9. Drained'
    BY <1>2, <1>5, <1>6 DEF ListenerInv, Drained
  <1>10. Stopping'
    BY <1>2, <1>5, <1>6 DEF ListenerInv, Stopping
  <1>11. Breaking'
    <2>1. listener[l].left \in 0..CloseFlush
      BY <1>2 DEF ListenerInv, Drained
    <2>2. listener[l].left + broken <= Grace + CloseFlush => broken <= Grace + CloseFlush
      BY <1>1, <2>1 DEF Timer
    <2>3. ASSUME NEW k \in Listeners, Broke(k) PROVE Broke(k)'
      <3>1. CASE k = l
        BY <1>2, <1>5, <1>6, <2>2, <2>3, <3>1 DEF Broke
      <3>2. CASE k # l
        BY <1>2, <1>6, <2>3, <3>2 DEF Broke
      <3> QED
        BY <3>1, <3>2
    <2> QED
      BY <1>2, <2>3, Zenon DEF ListenerInv, Breaking
  <1> QED
    BY <1>7, <1>8, <1>9, <1>10, <1>11, Zenon DEF ListenerInv

\* The server hears of the stop, or of a listener that ended.
LEMMA StopKeeps ==
    ASSUME L!ListenerAssumption, ListenerInv, L!Stop \/ L!ListenerEnded PROVE ListenerInv'
  <1>1. /\ server = "Serving" /\ server' = "Stopping" /\ since' = 0
        /\ UNCHANGED <<listener, running, holds, broken>> /\ (failed' = failed \/ failed' = TRUE)
    BY Zenon DEF L!Stop, L!ListenerEnded
  <1>2. holds' = Cardinality(Served')
    BY <1>1, StaysServed, Zenon
  <1>3. Grace \in Nat /\ CloseFlush \in Nat /\ broken \in Int /\ \A l \in Listeners : listener[l].left \in Int
    BY DEF L!ListenerAssumption, ListenerInv, ListenerTypes, ListenerType, Timer
  <1>4. ListenerTypes'
    <2>1. 0 \in Timer
      BY DEF Timer
    <2>2. failed' \in BOOLEAN
      BY <1>1, Zenon DEF ListenerInv, ListenerTypes
    <2> QED
      BY <1>1, <2>1, <2>2, Zenon DEF ListenerInv, ListenerTypes
  <1>5. Drained'
    BY <1>1, Zenon DEF ListenerInv, Drained
  <1>6. Stopping'
    <2>1. \A l \in Listeners :
            /\ listener[l].pc = "Draining" => listener[l].left + 0 <= Grace
            /\ listener[l].pc = "Closing" => listener[l].left + 0 <= Grace + CloseFlush
      BY <1>3 DEF ListenerInv, Drained
    <2>2. 0 <= Grace + CloseFlush
      BY <1>3
    <2> QED
      BY <1>1, <2>1, <2>2 DEF Stopping
  <1>7. Breaking'
    <2>1. ASSUME broken # -1 PROVE broken <= Grace + CloseFlush + 0
      <3>1. PICK l \in Listeners : Broke(l)
        BY <1>1, <2>1, Zenon DEF ListenerInv, Breaking
      <3>2. listener[l].pc \in {"Draining", "Closing"} => listener[l].left >= 0
        BY <1>3 DEF ListenerInv, Drained
      <3> QED
        BY <1>3, <3>1, <3>2 DEF Broke
    <2>2. broken # -1 => failed
      BY Zenon DEF ListenerInv, Breaking
    <2> QED
      BY <1>1, <2>1, <2>2 DEF Breaking
  <1> QED
    BY <1>2, <1>4, <1>5, <1>6, <1>7, Zenon DEF ListenerInv

\* The server's loop ends with the last listener.
LEMMA StoppedKeeps ==
    ASSUME L!ListenerAssumption, ListenerInv, L!Stopped PROVE ListenerInv'
  <1>1. /\ server = "Stopping" /\ server' = "Stopped" /\ \A l \in Listeners : listener[l].pc = "Done"
        /\ UNCHANGED <<listener, running, holds, failed, since, broken>>
    BY Zenon DEF L!Stopped
  <1>2. holds' = Cardinality(Served')
    BY <1>1, StaysServed, Zenon
  <1>3. ListenerTypes' /\ Drained' /\ Stopping' /\ Breaking'
    BY <1>1 DEF ListenerInv, ListenerTypes, Drained, Stopping, Breaking, Broke
  <1> QED
    BY <1>2, <1>3, Zenon DEF ListenerInv

\* Time passes only where nothing is due: a drain still has time left to it.
LEMMA TickKeeps ==
    ASSUME L!ListenerAssumption, ListenerInv, L!Tick PROVE ListenerInv'
  <1> DEFINE ticked(l) == [listener[l] EXCEPT !.left = L!Sooner(@)]
  <1>1. /\ server # "Stopped" /\ ~L!Due /\ UNCHANGED <<running, holds, server, failed>>
        /\ listener' = [l \in Listeners |-> ticked(l)]
        /\ since' = L!Older(since, Grace + CloseFlush + 1)
        /\ broken' = L!Older(broken, 2 * (Grace + CloseFlush) + 1)
    BY Zenon DEF L!Tick, L!StopBound
  <1>2. holds' = Cardinality(Served')
    BY <1>1, StaysServed, Zenon
  <1>3. Grace \in Nat /\ CloseFlush \in Nat /\ since \in Timer /\ broken \in Timer
    BY DEF L!ListenerAssumption, ListenerInv, ListenerTypes
  <1>4. \A l \in Listeners : listener[l] \in ListenerType /\ listener[l].left \in Timer
    BY DEF ListenerInv, ListenerTypes, ListenerType
  <1>5. since' \in Timer /\ broken' \in Timer
    BY <1>1, <1>3 DEF L!Older, L!Off, Timer
  <1>6. /\ since = -1 => since' = -1
        /\ since # -1 => since' # -1 /\ since' <= since + 1 /\ (since <= Grace + CloseFlush => since' = since + 1)
        /\ broken = -1 => broken' = -1
        /\ broken # -1 => broken' # -1 /\ broken' <= broken + 1
    BY <1>1, <1>3 DEF L!Older, L!Off, Timer
  <1>7. ASSUME NEW l \in Listeners
        PROVE  /\ listener'[l] \in ListenerType /\ listener'[l].pc = listener[l].pc
               /\ listener'[l].left = L!Sooner(listener[l].left)
    <2> DEFINE left == L!Sooner(listener[l].left)
    <2>1. left \in Timer
      BY <1>4 DEF L!Sooner, Timer
    <2> DEFINE new == [listener[l] EXCEPT !.left = left]
    <2>2. listener'[l] = new
      BY <1>1, Zenon
    <2> HIDE DEF left
    <2>3. new \in ListenerType /\ new.pc = listener[l].pc /\ new.left = left
      BY <1>4, <2>1, ListenerLasts, Zenon
    <2> HIDE DEF new
    <2> QED
      BY <2>2, <2>3, Zenon DEF left
  <1>8. listener' \in [Listeners -> ListenerType]
    <2> DEFINE all == [l \in Listeners |-> ticked(l)]
    <2>1. \A l \in Listeners : ticked(l) \in ListenerType
      BY <1>1, <1>7, Zenon
    <2> HIDE DEF ticked
    <2>2. all \in [Listeners -> ListenerType]
      BY <2>1, Zenon
    <2> QED
      BY <1>1, <2>2, Zenon
  <1> HIDE DEF ticked
  <1>9. ListenerTypes'
    BY <1>1, <1>5, <1>8, Zenon DEF ListenerInv, ListenerTypes
  <1>10. ASSUME NEW l \in Listeners, listener[l].pc = "Draining"
         PROVE  listener[l].left \in 1..Grace /\ listener'[l].left = listener[l].left - 1
    <2>1. listener[l].left \in 0..Grace /\ listener[l].left # 0
      BY <1>1, <1>10 DEF ListenerInv, Drained, L!Due
    <2> QED
      BY <1>3, <1>7, <2>1 DEF L!Sooner
  <1>c. ASSUME NEW l \in Listeners, listener[l].pc = "Closing"
         PROVE  listener[l].left \in 1..CloseFlush /\ listener'[l].left = listener[l].left - 1
    <2>1. listener[l].left \in 0..CloseFlush /\ listener[l].left # 0
      BY <1>1, <1>c DEF ListenerInv, Drained, L!Due
    <2> QED
      BY <1>3, <1>7, <2>1 DEF L!Sooner
  <1>11. Drained'
    <2>1. ASSUME NEW l \in Listeners, listener'[l].pc \in {"Closing", "Done"} PROVE running'[l] = {}
      BY <1>1, <1>7, <2>1, Zenon DEF ListenerInv, Drained
    <2>2. ASSUME NEW l \in Listeners, listener'[l].pc = "Draining" PROVE listener'[l].left \in 0..Grace
      <3>1. listener[l].left \in 1..Grace /\ listener'[l].left = listener[l].left - 1
        BY <1>7, <1>10, <2>2, Zenon
      <3> QED
        BY <1>3, <3>1
    <2>3. ASSUME NEW l \in Listeners, listener'[l].pc = "Closing" PROVE listener'[l].left \in 0..CloseFlush
      <3>1. listener[l].left \in 1..CloseFlush /\ listener'[l].left = listener[l].left - 1
        BY <1>7, <1>c, <2>3, Zenon
      <3> QED
        BY <1>3, <3>1
    <2> QED
      BY <2>1, <2>2, <2>3, Zenon DEF Drained
  <1>12. ASSUME server = "Stopping"
         PROVE  /\ since # -1 /\ since' = since + 1 /\ since' <= Grace + CloseFlush
                /\ \A l \in Listeners : listener[l].pc \notin {"Accepting", "Retrying"}
    <2>1. \A l \in Listeners : listener[l].pc \notin {"Accepting", "Retrying"}
      BY <1>1, <1>12 DEF L!Due, L!Shutdown
    <2>2. PICK l \in Listeners : listener[l].pc # "Done"
      BY <1>1, <1>12, Zenon DEF L!Due
    <2>3. listener[l].pc = "Draining" \/ listener[l].pc = "Closing"
      BY <1>4, <2>1, <2>2 DEF ListenerType, ListenerPlaces
    <2>4. /\ since # -1 /\ since <= Grace + CloseFlush
          /\ listener[l].pc = "Draining" => listener[l].left + since <= Grace
          /\ listener[l].pc = "Closing" => listener[l].left + since <= Grace + CloseFlush
      BY <1>12 DEF ListenerInv, Stopping
    <2>5. /\ listener[l].pc = "Draining" => listener[l].left \in 1..Grace
          /\ listener[l].pc = "Closing" => listener[l].left \in 1..CloseFlush
      BY <1>10, <1>c, Zenon
    <2>6. since' = since + 1
      BY <1>6, <2>4, Zenon
    <2> QED
      BY <1>3, <2>1, <2>3, <2>4, <2>5, <2>6 DEF Timer
  <1>13. Stopping'
    <2>1. server' = "Serving" <=> since' = -1
      BY <1>1, <1>6, Zenon DEF ListenerInv, Stopping
    <2>2. ASSUME server' = "Stopping", NEW l \in Listeners
          PROVE  /\ listener'[l].pc \in {"Accepting", "Retrying"} => since' = 0
                 /\ listener'[l].pc = "Draining" => listener'[l].left + since' <= Grace
                 /\ listener'[l].pc = "Closing" => listener'[l].left + since' <= Grace + CloseFlush
      <3>1. listener'[l].pc \notin {"Accepting", "Retrying"}
        BY <1>1, <1>7, <1>12, <2>2, Zenon
      <3>2. ASSUME listener'[l].pc = "Draining" PROVE listener'[l].left + since' <= Grace
        <4>1. listener[l].left \in 1..Grace /\ listener'[l].left = listener[l].left - 1 /\ listener[l].pc = "Draining"
          BY <1>7, <1>10, <3>2, Zenon
        <4>2. listener[l].left + since <= Grace
          BY <1>1, <2>2, <4>1, Zenon DEF ListenerInv, Stopping
        <4>3. since' = since + 1
          BY <1>1, <1>12, <2>2, Zenon
        <4> QED
          BY <1>3, <4>1, <4>2, <4>3 DEF Timer
      <3>3. ASSUME listener'[l].pc = "Closing" PROVE listener'[l].left + since' <= Grace + CloseFlush
        <4>1. listener[l].left \in 1..CloseFlush /\ listener'[l].left = listener[l].left - 1 /\ listener[l].pc = "Closing"
          BY <1>7, <1>c, <3>3, Zenon
        <4>2. listener[l].left + since <= Grace + CloseFlush
          BY <1>1, <2>2, <4>1, Zenon DEF ListenerInv, Stopping
        <4>3. since' = since + 1
          BY <1>1, <1>12, <2>2, Zenon
        <4> QED
          BY <1>3, <4>1, <4>2, <4>3 DEF Timer
      <3> QED
        BY <3>1, <3>2, <3>3, Zenon
    <2>3. server' # "Stopped" /\ (server' = "Stopping" => since' <= Grace + CloseFlush)
      BY <1>1, <1>12, Zenon
    <2> QED
      BY <2>1, <2>2, <2>3, Zenon DEF Stopping
  <1>14. Breaking'
    <2>1. broken' # -1 => failed'
      BY <1>1, <1>6, Zenon DEF ListenerInv, Breaking
    <2>2. ASSUME broken' # -1, server' = "Serving"
          PROVE  \E l \in Listeners : Broke(l)'
      <3>1. PICK l \in Listeners : Broke(l)
        BY <1>1, <1>6, <2>2, Zenon DEF ListenerInv, Breaking
      <3>2. listener[l].pc # "Done" /\ broken' <= broken + 1
        BY <1>1, <1>6, <2>2, Zenon DEF L!Due
      <3>3. CASE listener[l].pc = "Draining" /\ listener[l].left + broken <= Grace
        <4>1. listener[l].left \in 1..Grace /\ listener'[l].left = listener[l].left - 1 /\ listener'[l].pc = "Draining"
          BY <1>7, <1>10, <3>3, Zenon
        <4>2. listener'[l].left + broken' <= Grace
          BY <1>3, <1>5, <3>2, <3>3, <4>1 DEF Timer
        <4> QED
          BY <4>1, <4>2, Zenon DEF Broke
      <3>4. CASE listener[l].pc = "Closing" /\ listener[l].left + broken <= Grace + CloseFlush
        <4>1. listener[l].left \in 1..CloseFlush /\ listener'[l].left = listener[l].left - 1 /\ listener'[l].pc = "Closing"
          BY <1>7, <1>c, <3>4, Zenon
        <4>2. listener'[l].left + broken' <= Grace + CloseFlush
          BY <1>3, <1>5, <3>2, <3>4, <4>1 DEF Timer
        <4> QED
          BY <4>1, <4>2, Zenon DEF Broke
      <3> QED
        BY <3>1, <3>2, <3>3, <3>4, Zenon DEF Broke
    <2>3. ASSUME broken' # -1, server' = "Stopping" PROVE broken' <= Grace + CloseFlush + since'
      <3>1. broken <= Grace + CloseFlush + since /\ broken' <= broken + 1
        BY <1>1, <1>6, <2>3, Zenon DEF ListenerInv, Breaking
      <3>2. since' = since + 1
        BY <1>1, <1>12, <2>3, Zenon
      <3> QED
        BY <1>3, <1>5, <3>1, <3>2 DEF Timer
    <2> QED
      BY <2>1, <2>2, <2>3, Zenon DEF Breaking
  <1> QED
    BY <1>2, <1>9, <1>11, <1>13, <1>14, Zenon DEF ListenerInv

LEMMA ListenerStarts == ASSUME L!ListenerAssumption, L!Init PROVE ListenerInv
  <1>1. /\ listener = [l \in Listeners |-> [pc |-> "Accepting", delay |-> 0, left |-> -1]]
        /\ running = [l \in Listeners |-> {}]
        /\ holds = 0 /\ server = "Serving" /\ failed = FALSE /\ since = -1 /\ broken = -1
    BY Zenon DEF L!Init, L!Off
  <1>2. ListenerTypes
    <2> DEFINE new == [pc |-> "Accepting", delay |-> 0, left |-> -1]
    <2>1. new \in ListenerType /\ -1 \in Timer
      BY DEF ListenerType, ListenerPlaces, Timer
    <2> HIDE DEF new
    <2>2. listener = [l \in Listeners |-> new]
      BY <1>1, Zenon DEF new
    <2>3. listener \in [Listeners -> ListenerType] /\ running \in [Listeners -> SUBSET Connections]
      BY <1>1, <2>1, <2>2
    <2> QED
      BY <1>1, <2>1, <2>3, Zenon DEF ListenerTypes
  <1>3. Drained /\ Stopping /\ Breaking
    BY <1>1 DEF Drained, Stopping, Breaking, Broke
  <1>4. holds = Cardinality(Served)
    <2>1. Served = {}
      BY <1>1 DEF Served
    <2> QED
      BY <1>1, <2>1, FS_EmptySet, Zenon
  <1> QED
    BY <1>2, <1>3, <1>4, Zenon DEF ListenerInv

\* One step of a listener, or of the loop over them, keeps the invariant.
LEMMA ListenerSteps == ASSUME L!ListenerAssumption, ListenerInv, [L!Next]_L!vars PROVE ListenerInv'
  <1>1. ASSUME NEW l \in Listeners, L!AcceptFails(l) \/ L!Retry(l) \/ L!Break(l) \/ L!StopAccepting(l) PROVE ListenerInv'
    BY <1>1, PlaceKeeps, Zenon
  <1>2. ASSUME NEW l \in Listeners, L!DrainEnds(l) \/ L!CloseEnds(l) PROVE ListenerInv'
    BY <1>2, DrainKeeps, CloseKeeps, Zenon
  <1>3. ASSUME NEW l \in Listeners, NEW c \in Connections, L!Accept(l, c) \/ L!ConnectionEnds(l, c) PROVE ListenerInv'
    BY <1>3, AcceptKeeps, EndsKeeps, Zenon
  <1>4. CASE L!Stop \/ L!ListenerEnded \/ L!Stopped \/ L!Tick
    BY <1>4, StopKeeps, StoppedKeeps, TickKeeps, Zenon
  <1>5. CASE UNCHANGED L!vars
    <2>1. UNCHANGED <<listener, running, holds, server, failed, since, broken>>
      BY <1>5, Zenon DEF L!vars
    <2>2. holds' = Cardinality(Served')
      BY <2>1, StaysServed, Zenon
    <2> QED
      BY <2>1, <2>2, Zenon DEF ListenerInv, ListenerTypes, Drained, Stopping, Breaking, Broke
  <1> QED
    BY <1>1, <1>2, <1>3, <1>4, <1>5, Zenon DEF L!Next

LEMMA ListenerImplies == ASSUME L!ListenerAssumption, ListenerInv PROVE L!StopsInTime
  <1> DEFINE bound == Grace + CloseFlush
  <1>1. /\ Grace \in Nat /\ CloseFlush \in Nat /\ bound \in Nat /\ since \in Timer /\ broken \in Timer
        /\ server \in {"Serving", "Stopping", "Stopped"}
    BY DEF L!ListenerAssumption, ListenerInv, ListenerTypes
  <1>2. ASSUME server = "Serving" PROVE since <= bound /\ broken <= 2 * bound
    <2>1. since = -1
      BY <1>2, Zenon DEF ListenerInv, Stopping
    <2>2. ASSUME broken # -1 PROVE broken <= bound
      <3>1. PICK l \in Listeners : Broke(l)
        BY <1>2, <2>2, Zenon DEF ListenerInv, Breaking
      <3>2. /\ listener[l].pc = "Draining" => listener[l].left \in 0..Grace
            /\ listener[l].pc = "Closing" => listener[l].left \in 0..CloseFlush
        BY Zenon DEF ListenerInv, Drained
      <3> QED
        BY <1>1, <3>1, <3>2 DEF Timer, Broke
    <2> QED
      BY <1>1, <2>1, <2>2 DEF Timer
  <1>3. ASSUME server = "Stopping" PROVE since <= bound /\ broken <= 2 * bound
    <2>1. since <= bound /\ (broken # -1 => broken <= bound + since)
      BY <1>3, Zenon DEF ListenerInv, Stopping, Breaking
    <2> QED
      BY <1>1, <2>1 DEF Timer
  <1>4. ASSUME server = "Stopped" PROVE holds = 0 /\ (broken # -1 => failed)
    <2>1. \A l \in Listeners : running[l] = {}
      BY <1>4, Zenon DEF ListenerInv, Stopping, Drained
    <2>2. Served = {}
      BY <2>1 DEF Served
    <2>3. holds = 0
      BY <2>2, FS_EmptySet, Zenon DEF ListenerInv
    <2> QED
      BY <2>3, Zenon DEF ListenerInv, Breaking
  <1>5. holds = Cardinality({p \in Listeners \X Connections : p[2] \in running[p[1]]})
    BY Zenon DEF ListenerInv, Served
  <1>6. server # "Stopped" => since <= bound /\ broken <= 2 * bound
    BY <1>1, <1>2, <1>3, Zenon
  <1> QED
    BY <1>4, <1>5, <1>6, SameCount, Zenon DEF L!StopsInTime, L!Off, L!StopBound

\* However accepts, failed accepts, connections that end, a broken socket and the
\* shutdown fall together, Server::serve returns within the grace and CLOSE_FLUSH
\* of the shutdown and twice that of the break, with every connection of accept.rs
\* gone and its hold back.
THEOREM ServerStopsInTime == ASSUME L!ListenerAssumption PROVE L!Spec => []L!StopsInTime
  <1>1. L!Init => ListenerInv
    BY ListenerStarts
  <1>2. ListenerInv /\ [L!Next]_L!vars => ListenerInv'
    BY ListenerSteps
  <1>3. ListenerInv => L!StopsInTime
    BY ListenerImplies
  <1> QED
    BY <1>1, <1>2, <1>3, PTL DEF L!Spec
==============================================================================
