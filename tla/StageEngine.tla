----------------------------- MODULE StageEngine -----------------------------
(***************************************************************************)
(* One stage of a terminal run: the tick-synchronous engine of             *)
(* client/src/run/engine.rs and the loop of coordinator.rs that feeds it.  *)
(*                                                                         *)
(* A tick is one synchronous call.  Its parts run in the code's order and  *)
(* are steps of their own here (pc "Lanes", "Phase", "Probes", "Close"):   *)
(* nothing else of the stage runs between them, and the only other actor,  *)
(* the user's stop, is looked at only where the loop awaits.               *)
(*                                                                         *)
(* Time counts units of which TickLength make a tick of 250 ms; it passes  *)
(* while the task awaits: the participants' opening, the next tick's due   *)
(* time and the checkpoints a tick gathers.  A seat is                     *)
(* its index in the plan's member list.  Byte counts are abstracted to     *)
(* "this direction's ledger grew since the last boundary", lane health to  *)
(* the three cases the engine tells apart, and a failure to its scope, its *)
(* reason and whether the member leaves with it.                           *)
(***************************************************************************)
EXTENDS Integers, Sequences, FiniteSets

CONSTANTS
    Plans,          \* stages, with how long their upload IDs and their checkpoints may
                    \* take, how late a tick may fire, and the lane health and the
                    \* checkpoints' answers shown
    TickLength, ReadyBound, OpeningBound, Silence, Quiet, MissedCheckpoints, DrainBound

VARIABLES
    plan,       \* the stage's plan
    pc,         \* where the stage's task is
    token,      \* the user's stop has been asked for
    now, due,   \* the current tick's time and the next one's
    back,       \* when the task is back from what it awaited since, 0 for nothing
    phase,      \* the engine's Phase, with its deadline
    window,     \* the measured window, once one opened
    last,       \* Measuring's flag: the checkpoints in flight are the final ones
    stopped,    \* Done's flag: the user stopped the stage
    present, probing, replied, misses, moved, failures, \* the engine's seats
    sample,     \* this tick's sample of each participant
    ups,        \* Prober Up events among this tick's probes, read by ready()
    lost,       \* participants that could not open, for the next tick
    checkpoint, \* the next tick gathers checkpoints
    participants, work, \* the coordinator's participants and what each one runs
    finished    \* a tick decided Finish

engine == <<phase, window, last, stopped, present, probing, replied, misses, moved, failures>>
coordinator == <<lost, checkpoint, participants, work, finished>>
vars == <<plan, pc, token, now, due, back, engine, sample, ups, coordinator>>

Members == Len(plan.warmup)
Directions == plan.directions
Latency == plan.latency
Warmup == plan.warmup
Duration == plan.duration
Seats == 1..Members
None == [start |-> -1, end |-> -1]
Uploads == "up" \in Directions
LatencyStage == Directions = {}

\* A sample's checkpoint is "none" when none was asked for and "refused" when it
\* needs sign-in again.
Blank == [ready |-> TRUE, up |-> "none", lanes |-> [d \in Directions |-> "ok"], grew |-> {}]

\* A participant has running: its lanes per direction, its "prober" (which is
\* "draining" once the window closed), its "finishing" upload session, and a
\* "receiver" at the server that nobody asked to finalize yet.

\* Engine::new, Live, and the members' participants still to open.
Init ==
    /\ plan \in Plans
    /\ pc = "Open" /\ token = FALSE /\ now = 0 /\ due = 0 /\ back = 0
    /\ phase = [at |-> "Ready", until |-> ReadyBound] /\ window = None
    /\ last = FALSE /\ stopped = FALSE
    /\ present = Seats
    /\ probing = [s \in Seats |-> IF Latency THEN "Waiting" ELSE "Off"]
    /\ replied = [s \in Seats |-> FALSE] /\ misses = [s \in Seats |-> 0]
    /\ moved = [s \in Seats |-> [d \in Directions |-> 0]]
    /\ failures = [s \in Seats |-> <<>>]
    /\ sample = [s \in Seats |-> Blank]
    /\ ups = {} /\ lost = {} /\ checkpoint = FALSE
    /\ participants = {} /\ work = [s \in Seats |-> {}] /\ finished = FALSE

----------------------------------------------------------------------------
(* Shared parts of the engine. *)

Failure(scope, reason, leaves) == [scope |-> scope, reason |-> reason, leaves |-> leaves]

Log(s, failure) == [failures EXCEPT ![s] = Append(@, failure)]

\* What depart() leaves of a participant's work: lanes, feed and prober end with
\* it, its upload receiver is asked to finalize, and a session that already
\* finishes goes on doing so.
Departing(s) == IF "up" \in work[s] THEN {} ELSE work[s] \cap {"finishing", "receiver"}

\* Engine::fail for every seat of gone, each leaving with why[s], and the
\* coordinator's Decision::Remove for it.
Remove(gone, why) ==
    /\ present' = present \ gone
    /\ failures' = [s \in Seats |-> IF s \in gone THEN Append(failures[s], why[s])
                                                  ELSE failures[s]]
    /\ participants' = participants \ gone
    /\ work' = [s \in Seats |-> IF s \in gone \cap participants THEN Departing(s) ELSE work[s]]

\* Decision::Failed in the latency scope: the member stays, its prober ends.
FailProbingOnly(s, failure) ==
    /\ failures' = Log(s, failure)
    /\ UNCHANGED <<present, participants, work>>
FailProbing(s, failure) ==
    /\ failures' = Log(s, failure)
    /\ work' = [work EXCEPT ![s] = @ \ {"prober", "draining"}]
    /\ UNCHANGED <<present, participants>>

Least(a, b) == IF a < b THEN a ELSE b
Greatest(a, b) == IF a > b THEN a ELSE b

\* window().is_some(): a window opened, running or not.
Measured == window # None

QuietFor(s, d, t, moves) == IF t > moves[s][d] THEN t - moves[s][d] ELSE 0

\* moving(): another member still here moved in this direction recently.
MovingEver(s, d, t, here, moves) == \E o \in Seats \ {s} : QuietFor(o, d, t, moves) < Quiet
Moving(s, d, t, here, moves) == \E o \in here \ {s} : QuietFor(o, d, t, moves) < Quiet

\* latency_failed(): a population is lost once.  A stopped server leaves; in the
\* latency stage one lost beside another leaves too; any other member stays.
LatencyLeaves(s, reason) ==
    reason = "stopped" \/ (LatencyStage /\ reason = "lost" /\ Cardinality(present) > 1)
LatencyFailed(s, reason) ==
    IF probing[s] = "Failed"
    THEN UNCHANGED <<probing, present, failures, participants, work>>
    ELSE LET scope == IF reason = "stopped" /\ ~LatencyStage THEN "throughput" ELSE "latency"
             failure == Failure(scope, reason, LatencyLeaves(s, reason))
         IN  /\ probing' = [probing EXCEPT ![s] = "Failed"]
             /\ IF failure.leaves THEN Remove({s}, [o \in {s} |-> failure])
                                  ELSE FailProbing(s, failure)

----------------------------------------------------------------------------
(* The coordinator: participants open, and a tick fires. *)

\* Run::stage polls every member's Participant::open: prober and download lanes
\* start at once, and without an upload that is all of it.
OpenParticipants ==
    /\ pc = "Open" /\ ~token
    /\ work' = [s \in Seats |-> (Directions \ {"up"}) \cup (IF Latency THEN {"prober"} ELSE {})]
    /\ pc' = IF Uploads THEN "Opening" ELSE "Sleep"
    /\ participants' = IF Uploads THEN {} ELSE Seats
    /\ UNCHANGED <<token, now, due, back, engine, sample, ups, lost, checkpoint, finished>>

\* UploadSession::open awaits its upload ID, with retries: the lanes then send at
\* once, while others may still wait, or the member has failed to open.
Minting == {s \in Seats \ lost : "up" \notin work[s]}
Mint(s) ==
    /\ pc = "Opening" /\ ~token /\ s \in Minting
    /\ \/ work' = [work EXCEPT ![s] = @ \cup {"up", "receiver"}] /\ UNCHANGED lost
       \/ work' = [work EXCEPT ![s] = {}] /\ lost' = lost \cup {s}
    /\ UNCHANGED <<pc, token, now, due, back, engine, sample, ups, checkpoint, participants, finished>>

\* join_all is done with the slowest of them; Live::run makes its first tick due then,
\* whatever is left of the bound the engine set before.
Joined ==
    /\ pc = "Opening" /\ ~token /\ Minting = {}
    /\ participants' = Seats \ lost /\ pc' = "Sleep"
    /\ back' \in plan.minting
    /\ UNCHANGED <<token, now, due, engine, sample, ups, lost, checkpoint, work, finished>>

\* Live::tick: the tick fires at its due time or later and takes every
\* participant's local counters and lane health.  Readiness is read only by
\* ready(), growth and a checkpoint's answer only once the stage moves bytes.
Snapshot(s) ==
    [ready: IF phase.at = "Ready" /\ Directions # {} THEN BOOLEAN ELSE {TRUE},
     up: {"none"},
     lanes: IF phase.at = "Draining" THEN {[d \in Directions |-> "ok"]} ELSE [Directions -> plan.health],
     grew: IF phase.at = "Measuring" THEN SUBSET Directions ELSE {{}}]
Fire ==
    /\ pc = "Sleep" /\ ~finished /\ ~token
    /\ \E late \in plan.late : now' = Greatest(due, back) + late
    /\ back' = 0
    /\ \E taken \in [participants -> UNION {Snapshot(s) : s \in Seats}] :
          sample' = [s \in Seats |-> IF s \in participants THEN taken[s] ELSE sample[s]]
    /\ pc' = IF checkpoint THEN "Gather" ELSE "Lanes"
    /\ ups' \in IF phase.at = "Ready" /\ Latency
                THEN SUBSET {s \in participants : probing[s] = "Waiting"} ELSE {{}}
    /\ UNCHANGED <<token, due, engine, coordinator>>

\* Live::tick awaits the checkpoints it was asked for, up to their budget; the
\* tick's time stays the one it fired at.
Gather ==
    /\ pc = "Gather" /\ ~token
    /\ \E got \in [participants -> plan.answers] :
          sample' = [s \in Seats |-> IF s \in participants THEN [sample[s] EXCEPT !.up = got[s]]
                                                           ELSE sample[s]]
    /\ \E took \in plan.gather : back' = now + took
    /\ checkpoint' = FALSE /\ pc' = "Lanes"
    /\ UNCHANGED <<token, now, due, engine, ups, lost, participants, work, finished>>

\* tick() up to the phase's own part: members that could not open fail, then
\* check_lanes(): a member whose lanes failed for good leaves, unless the window
\* closed while all its directions were moving.
ClosedMoving(s) ==
    /\ Measured /\ now >= window.end
    /\ \A d \in Directions : QuietFor(s, d, window.end, moved) < Quiet
LanesFailed ==
    IF phase.at = "Draining" THEN {}
    ELSE {s \in (participants \cap present) :
              (\E d \in Directions : sample[s].lanes[d] = "failed") /\ ~ClosedMoving(s)}
Lanes ==
    /\ pc = "Lanes"
    /\ Remove(lost \cup LanesFailed,
              [s \in Seats |-> IF s \in lost THEN Failure("server", "opening", TRUE)
                                             ELSE Failure("throughput", "lanes", TRUE)])
    /\ lost' = {} /\ pc' = "Phase" /\ due' = now + TickLength
    /\ UNCHANGED <<token, now, back, phase, window, last, stopped, probing, replied, misses, moved,
                   sample, ups, checkpoint, finished>>

----------------------------------------------------------------------------
(* The phase's own part of a tick. *)

\* ready(): a member is late while its lanes are not open or its prober is not up.
LanesLate == IF Directions = {} THEN {} ELSE {s \in present : ~sample[s].ready}
ProberLate == {s \in present : probing[s] = "Waiting" /\ s \notin ups}
Late == LanesLate \cup ProberLate

ReadyWaitOpen ==
    /\ pc = "Phase" /\ phase.at = "Ready" /\ Late # {} /\ pc' = "Probes"
    /\ UNCHANGED <<token, now, due, back, engine, sample, ups, coordinator>>

ReadyWait ==
    /\ pc = "Phase" /\ phase.at = "Ready" /\ Late # {} /\ now < phase.until
    /\ due' = Least(due, phase.until) /\ pc' = "Probes"
    /\ UNCHANGED <<token, now, back, engine, sample, ups, coordinator>>

\* At the bound the late ones fail: without lanes a member leaves, without its
\* prober alone it stays.  The tick goes on with the warmup.
LongestWarmup(here) ==
    IF here = {} THEN 0 ELSE CHOOSE w \in {Warmup[s] : s \in here} : \A s \in here : Warmup[s] <= w
ReadyOver ==
    LET unprobed == ProberLate \ LanesLate IN
    /\ pc = "Phase" /\ phase.at = "Ready" /\ (Late = {} \/ now >= phase.until)
    /\ present' = present \ LanesLate /\ participants' = participants \ LanesLate
    /\ failures' = [s \in Seats |->
          IF s \in LanesLate THEN Append(failures[s], Failure("throughput", "unready", TRUE))
          ELSE IF s \in unprobed THEN Append(failures[s], Failure("latency", "unready", FALSE))
          ELSE failures[s]]
    /\ probing' = [s \in Seats |-> IF s \in unprobed THEN "Failed" ELSE probing[s]]
    /\ work' = [s \in Seats |-> IF s \in LanesLate THEN Departing(s)
                                ELSE IF s \in unprobed THEN work[s] \ {"prober"} ELSE work[s]]
    /\ phase' = [at |-> "Warmup", until |-> now + LongestWarmup(present')]
    /\ UNCHANGED <<pc, token, now, due, back, window, last, stopped, replied, misses, moved,
                   sample, ups, lost, checkpoint, finished>>

WarmupWait ==
    /\ pc = "Phase" /\ phase.at = "Warmup" /\ now < phase.until
    /\ due' = Least(due, phase.until) /\ pc' = "Probes"
    /\ UNCHANGED <<token, now, back, engine, sample, ups, coordinator>>

\* warmed(): an upload opens its window with the next tick's checkpoints.
Warmed ==
    /\ pc = "Phase" /\ phase.at = "Warmup" /\ now >= phase.until /\ Uploads
    /\ phase' = [at |-> "Opening", until |-> now + OpeningBound]
    /\ due' = now /\ checkpoint' = TRUE /\ pc' = "Probes"
    /\ UNCHANGED <<token, now, back, window, last, stopped, present, probing, replied, misses, moved,
                   failures, sample, ups, lost, participants, work, finished>>

\* open(), while checkpoints are missing and time is left: refused members leave
\* at once and the others are asked again.
Refused == {s \in present : sample[s].up = "refused"}
Unmarked == {s \in present : sample[s].up # "got"}
MayOpen(here) == here = {} \/ now >= phase.until
OpeningWait ==
    /\ pc = "Phase" /\ phase.at = "Opening" /\ ~MayOpen(Unmarked \ Refused)
    /\ Remove(Refused, [s \in Seats |-> Failure("throughput", "refused", TRUE)])
    /\ due' = Least(now + TickLength, phase.until) /\ checkpoint' = TRUE /\ pc' = "Probes"
    /\ UNCHANGED <<token, now, back, phase, window, last, stopped, probing, replied, misses, moved,
                   sample, ups, lost, finished>>

\* schedule(): the next boundary, the window's end being the final one.
Schedule(t, end) ==
    /\ due' = Greatest(Least(t + TickLength, end), t)
    /\ last' = (due' >= end)
    /\ checkpoint' = (checkpoint \/ Uploads)

\* open(): members without their first checkpoint leave, and the window opens for
\* the others from this tick's samples.
Open ==
    LET gone == IF Uploads THEN Unmarked ELSE {} IN
    /\ pc = "Phase"
    /\ IF Uploads THEN phase.at = "Opening" /\ MayOpen(Unmarked \ Refused)
                  ELSE phase.at = "Warmup" /\ now >= phase.until
    /\ Remove(gone, [s \in Seats |-> Failure("throughput", IF s \in Refused THEN "refused"
                                                           ELSE "unmarked", TRUE)])
    /\ pc' = "Probes"
    /\ IF present' = {}
       THEN UNCHANGED <<phase, window, moved, due, last, checkpoint>>
       ELSE /\ phase' = [at |-> "Measuring", until |-> now + Duration]
            /\ window' = [start |-> now, end |-> now + Duration]
            /\ moved' = [s \in Seats |-> [d \in Directions |-> now]]
            /\ Schedule(now, now + Duration)
    /\ UNCHANGED <<token, now, back, stopped, probing, replied, misses, sample, ups, lost, finished>>

\* observe(): the boundary is credited, then each present seat in turn is judged
\* by departure(), which sees the seats before it already gone.
FinalBoundary == (last \/ ~Uploads) /\ now >= window.end
Credited == [s \in Seats |-> [d \in Directions |->
                IF s \in present /\ d \in sample[s].grew THEN now ELSE moved[s][d]]]
Counted(s) == IF sample[s].up = "got" THEN 0
              ELSE IF sample[s].up = "none" THEN misses[s] ELSE misses[s] + 1

\* missed(): a refused checkpoint leaves at once, the bound's number in a row
\* only while another server's uploads move, and never at the final boundary.
Missed(s, final, here, moves) ==
    \/ sample[s].up = "refused"
    \/ /\ sample[s].up = "missed" /\ Counted(s) >= MissedCheckpoints /\ ~final
       /\ Moving(s, "up", now, here, moves)

\* Silence counts up to the window's end at the final boundary.
SilentIn(s, d, final, here, moves) ==
    LET t == IF final THEN Least(window.end, now) ELSE now
    IN  QuietFor(s, d, t, moves) >= Silence /\ (final \/ Moving(s, d, t, here, moves))
RetryingIn(s, d, final, moves) ==
    final /\ sample[s].lanes[d] = "retrying" /\ QuietFor(s, d, Least(window.end, now), moves) >= Quiet

\* "stays", or the reason a member departs for; the down direction is judged first.
Departure(s, final, here, moves) ==
    LET judged(d) == IF d \notin Directions THEN "stays"
                     ELSE IF SilentIn(s, d, final, here, moves) THEN "silence"
                     ELSE IF RetryingIn(s, d, final, moves) THEN "retrying" ELSE "stays"
    IN  IF s \notin here THEN "stays"
        ELSE IF Uploads /\ Missed(s, final, here, moves)
             THEN IF sample[s].up = "refused" THEN "refused" ELSE "missed"
        ELSE IF judged("down") # "stays" THEN judged("down") ELSE judged("up")

\* The departures among the first n seats, judged in order.
Departures(final, moves) ==
    LET gone[n \in 0..Members] ==
            IF n = 0 THEN {}
            ELSE gone[n - 1] \cup
                 (IF Departure(n, final, present \ gone[n - 1], moves) = "stays" THEN {} ELSE {n})
    IN  gone
Observe(final) ==
    LET moves == Credited
        gone == Departures(final, moves)
    IN  /\ moved' = moves
        /\ misses' = [s \in Seats |-> IF s \in present THEN Counted(s) ELSE misses[s]]
        /\ Remove(gone[Members],
                  [s \in Seats |-> Failure("throughput",
                        Departure(s, final, present \ gone[s - 1], moves), TRUE)])

\* measure() between boundaries.
Measure ==
    /\ pc = "Phase" /\ phase.at = "Measuring" /\ ~FinalBoundary
    /\ IF Directions = {} THEN UNCHANGED <<moved, misses, present, failures, participants, work>>
                          ELSE Observe(FALSE)
    /\ Schedule(now, window.end) /\ pc' = "Probes"
    /\ UNCHANGED <<token, now, back, phase, window, stopped, probing, replied, sample, ups, lost, finished>>

\* Participant::close(): lanes stop, the upload session finishes, the prober drains.
Closed(pieces) ==
    (pieces \cap {"finishing", "receiver"})
        \cup (IF "up" \in pieces THEN {"finishing"} ELSE {})
        \cup (IF pieces \cap {"prober", "draining"} # {} THEN {"draining"} ELSE {})

\* measure() at the final boundary: the departures, then the window closes.
CloseWindow ==
    LET moves == Credited
        gone == IF Directions = {} THEN [n \in 0..Members |-> {}] ELSE Departures(TRUE, moves)
    IN
    /\ pc = "Phase" /\ phase.at = "Measuring" /\ FinalBoundary
    /\ moved' = moves
    /\ misses' = [s \in Seats |-> IF s \in present THEN Counted(s) ELSE misses[s]]
    /\ present' = present \ gone[Members] /\ participants' = participants \ gone[Members]
    /\ failures' = [s \in Seats |->
          IF s \in gone[Members]
          THEN Append(failures[s], Failure("throughput",
                   Departure(s, TRUE, present \ gone[s - 1], moves), TRUE))
          ELSE failures[s]]
    /\ work' = [s \in Seats |-> IF s \in gone[Members] THEN Departing(s)
                                ELSE IF s \in participants THEN Closed(work[s]) ELSE work[s]]
    /\ phase' = [at |-> "Draining", until |-> window.end + DrainBound]
    /\ pc' = "Probes"
    /\ UNCHANGED <<token, now, due, back, window, last, stopped, probing, replied, sample, ups,
                   lost, checkpoint, finished>>

\* tick() in Draining has no part of its own before the probes.
Drains ==
    /\ pc = "Phase" /\ phase.at = "Draining" /\ pc' = "Probes"
    /\ UNCHANGED <<token, now, due, back, engine, sample, ups, coordinator>>

----------------------------------------------------------------------------
(* The probes' part of a tick, and its end. *)

Probers == {s \in present \cap participants : work[s] \cap {"prober", "draining"} # {}}

\* Prober Up: the channel opened.
ProbeUp ==
    /\ pc = "Probes" /\ ups # {}
    /\ probing' = [s \in Seats |-> IF s \in ups \cap present /\ probing[s] = "Waiting"
                                   THEN "Up" ELSE probing[s]]
    /\ ups' = {}
    /\ UNCHANGED <<pc, token, now, due, back, phase, window, last, stopped, present, replied, misses,
                   moved, failures, sample, coordinator>>

\* A reply to a probe sent at `sent` counts when it was sent within the window.
InWindow(sent) == Measured /\ window.start <= sent /\ sent < window.end
ProbeReply(s, sent) ==
    /\ pc = "Probes" /\ ups = {} /\ s \in Probers /\ probing[s] = "Up"
    /\ replied' = [replied EXCEPT ![s] = @ \/ InWindow(sent)]
    /\ UNCHANGED <<pc, token, now, due, back, phase, window, last, stopped, present, probing, misses,
                   moved, failures, sample, ups, coordinator>>

\* Drained: the closed prober resolved every probe.
ProbeDrained(s) ==
    /\ pc = "Probes" /\ ups = {} /\ s \in Probers /\ "draining" \in work[s]
    /\ probing[s] \in {"Waiting", "Up"}
    /\ probing' = [probing EXCEPT ![s] = "Drained"]
    /\ UNCHANGED <<pc, token, now, due, back, phase, window, last, stopped, present, replied, misses,
                   moved, failures, sample, ups, coordinator>>

\* Down: the population failed.
ProbeDown(s, reason) ==
    /\ pc = "Probes" /\ ups = {} /\ s \in Probers /\ probing[s] # "Drained"
    /\ LatencyFailed(s, reason)
    /\ UNCHANGED <<pc, token, now, due, back, phase, window, last, stopped, replied, misses, moved,
                   sample, ups, lost, checkpoint, finished>>

\* finish(): members still present whose result is missing fail with too little
\* evidence; `thin` says whether the aggregate has no headline.
Explained == \E s \in Seats : \E i \in DOMAIN failures[s] : failures[s][i].scope # "latency"
Unmeasured(s) == Measured /\ LatencyStage /\ probing[s] # "Failed" /\ ~replied[s]
Evidence(thin) ==
    [s \in Seats |->
        IF s \notin present THEN <<>>
        ELSE (IF thin /\ Measured /\ ~Explained
              THEN <<Failure("throughput", "evidence", FALSE)>> ELSE <<>>)
             \o (IF Unmeasured(s) THEN <<Failure("latency", "evidence", FALSE)>> ELSE <<>>)]
Finishing ==
    /\ \E thin \in IF Directions = {} THEN {FALSE} ELSE BOOLEAN :
          failures' = [s \in Seats |-> failures[s] \o Evidence(thin)[s]]
    /\ phase' = [at |-> "Done", until |-> now]

\* drain(), then the tick's end: the stage is over once it drained, at the drain
\* bound, or when nobody is left.
DrainOver == phase.at = "Draining"
                /\ ({s \in present : probing[s] \in {"Waiting", "Up"}} = {} \/ now >= phase.until)
TickOver ==
    /\ pc = "Probes" /\ ups = {} /\ ~DrainOver /\ present # {}
    /\ pc' = "Sleep" /\ sample' = [s \in Seats |-> Blank]
    /\ UNCHANGED <<token, now, due, back, engine, ups, coordinator>>
StageOver ==
    /\ pc = "Probes" /\ ups = {} /\ (DrainOver \/ present = {})
    /\ Finishing
    /\ finished' = TRUE /\ pc' = "Finish"
    /\ sample' = [s \in Seats |-> Blank]
    /\ UNCHANGED <<token, now, due, back, window, last, stopped, present, probing, replied, misses,
                   moved, ups, lost, checkpoint, participants, work>>

----------------------------------------------------------------------------
(* The user's stop and the stage's end. *)

AskStop ==
    /\ ~token /\ pc # "Ended"
    /\ token' = TRUE
    /\ UNCHANGED <<pc, now, due, back, engine, sample, ups, coordinator>>

\* Engine::stop, called where the loop awaits.  A stop while draining cuts the
\* populations still open and finishes the stage as measured; any earlier one
\* ends it as stopped, with the window it has.  One while the participants open
\* drops them: their lanes, feeds and probers end, and nobody asks a receiver
\* that was already minted to finalize.
Stop ==
    /\ token /\ pc \in {"Open", "Opening", "Sleep", "Gather"}
    /\ IF pc = "Opening"
       THEN work' = [s \in Seats |-> work[s] \cap {"receiver"}] /\ lost' = {}
       ELSE UNCHANGED <<work, lost>>
    /\ IF phase.at = "Draining"
       THEN /\ probing' = [s \in Seats |-> IF probing[s] \in {"Waiting", "Up"} THEN "Cut"
                                                                             ELSE probing[s]]
            /\ Finishing /\ UNCHANGED stopped
       ELSE /\ phase' = [at |-> "Done", until |-> now] /\ stopped' = TRUE
            /\ UNCHANGED <<probing, failures>>
    /\ pc' = "Finish" /\ sample' = [s \in Seats |-> Blank] /\ ups' = {}
    /\ UNCHANGED <<token, now, due, back, window, last, present, replied, misses, moved,
                   checkpoint, participants, finished>>

\* Participant::finish: what the window's close left open closes now.
CloseAll ==
    /\ pc = "Finish"
    /\ work' = [s \in Seats |-> IF s \in participants THEN Closed(work[s]) ELSE work[s]]
    /\ pc' = "Await"
    /\ UNCHANGED <<token, now, due, back, engine, sample, ups, lost, checkpoint, participants, finished>>

\* A finishing session ends its receiver: it answered, or its bound passed.
SessionFinished(s) ==
    /\ "finishing" \in work[s]
    /\ work' = [work EXCEPT ![s] = @ \ {"finishing", "receiver"}]
    /\ UNCHANGED <<pc, token, now, due, back, engine, sample, ups, lost, checkpoint, participants, finished>>

\* The stage returns its result once every participant finished; dropping one
\* ends its prober.
Return ==
    /\ pc = "Await" /\ \A s \in participants : "finishing" \notin work[s]
    /\ work' = [s \in Seats |-> IF s \in participants THEN work[s] \ {"draining"} ELSE work[s]]
    /\ participants' = {} /\ pc' = "Ended"
    /\ UNCHANGED <<token, now, due, back, engine, sample, ups, lost, checkpoint, finished>>

Tick ==
    \/ Fire \/ Gather \/ Lanes
    \/ ReadyWait \/ ReadyOver \/ WarmupWait \/ Warmed \/ OpeningWait \/ Open
    \/ Measure \/ CloseWindow \/ Drains
    \/ ProbeUp \/ TickOver \/ StageOver
Probe ==
    \E s \in Seats : \/ \E sent \in {now, window.end} : ProbeReply(s, sent)
                     \/ ProbeDrained(s)
                     \/ \E reason \in {"lost", "stopped", "other"} : ProbeDown(s, reason)
Work == OpenParticipants \/ (\E s \in Seats : Mint(s)) \/ Joined \/ Tick \/ Stop \/ CloseAll \/ Return
Ended == pc = "Ended" /\ UNCHANGED vars
Next == (Work \/ Probe \/ AskStop \/ (\E s \in Seats : SessionFinished(s)) \/ Ended) /\ UNCHANGED plan

Spec == Init /\ [][Next]_vars

----------------------------------------------------------------------------
(* What the stage promises. *)

\* Between two ticks the coordinator runs what the engine still counts on, and
\* nothing else: a participant for each member present, with a prober exactly
\* while its population can grow, which drains exactly once the window closed, and
\* with lanes in each direction until it did.
WorkMatchesEngine ==
    pc = "Sleep" =>
        /\ participants = present \ lost
        /\ \A s \in participants :
              /\ (work[s] \cap {"prober", "draining"} # {}) <=> probing[s] \notin {"Off", "Failed"}
              /\ "draining" \in work[s] => phase.at = "Draining"
              /\ Directions \subseteq work[s] <=> phase.at # "Draining" \/ Directions = {}

\* A member leaves once: nothing of it fails after the failure it left with, and
\* it is gone exactly when there is one.
DeparturesAreFinal ==
    \A s \in Seats :
        LET left == {i \in DOMAIN failures[s] : failures[s][i].leaves}
        IN  /\ left \subseteq {Len(failures[s])}
            /\ (s \in present) <=> (left = {})

\* Silence and missed checkpoints never empty a stage before its final boundary:
\* each is judged against another member that still moves, and the judged ones
\* no longer count as moving.
SilenceLeavesOne ==
    (pc = "Phase" /\ phase.at = "Measuring" /\ ~FinalBoundary /\ present # {} /\ Refused = {}) => present' # {}

\* The window opens once, and in an upload stage only with every member's first
\* checkpoint from that same tick.
OpensCheckpointed ==
    window' # window =>
        /\ window = None /\ present' # {}
        /\ Uploads => \A s \in present' : sample[s].up = "got"

\* A stage that was not stopped explains every gap: a member without a failure
\* is present, saw the window and, in the latency stage, has a reply from it.
GapsExplained ==
    (phase.at = "Done" /\ ~stopped) =>
        \A s \in Seats : failures[s] = <<>> =>
            /\ s \in present /\ Measured
            /\ LatencyStage => replied[s]
            /\ Latency => probing[s] \in {"Up", "Drained", "Cut"}

\* When the stage returned nothing of it runs.  A receiver still waits for an
\* answer only where its member left while its session was finishing, and nobody
\* asked it to finalize only where the user stopped the stage before its first
\* tick, while the participants opened.
EndsQuiet ==
    pc = "Ended" => \A s \in Seats :
        /\ work[s] \subseteq {"finishing", "receiver"}
        /\ "receiver" \in work[s] =>
              IF "finishing" \in work[s] THEN s \notin present ELSE stopped /\ due = 0

\* Every phase is over within its bound and those of the phases before it, whatever
\* the servers do: no wait starts anew.  What passes a bound is the opening, if it
\* outlasts the ready bound, a tick's lateness, and a gathering of checkpoints begun
\* before it.  The window's end may take two boundaries: one that a gathering longer
\* than a tick carries past it was asked for as an ordinary one, and one more is due.
EndsInTime ==
    LET most(times) == CHOOSE t \in times : \A other \in times : other <= t
        late == most(plan.late)
        gather == IF Uploads THEN most(plan.gather) ELSE 0
        ready == Greatest(ReadyBound, IF Uploads THEN most(plan.minting) ELSE 0) + late
        warm == ready + LongestWarmup(Seats) + late
        open == warm + (IF Uploads THEN OpeningBound + gather + late ELSE 0)
        measured == open + Duration + (IF Uploads THEN Greatest(0, gather - TickLength) + gather + 2 * late ELSE late)
    IN  now <= CASE phase.at = "Ready" -> ready
                 [] phase.at = "Warmup" -> warm
                 [] phase.at = "Opening" -> open
                 [] phase.at = "Measuring" -> measured
                 [] OTHER -> Greatest(measured,
                                open + Duration + DrainBound + Greatest(TickLength, gather) + late)
=============================================================================
