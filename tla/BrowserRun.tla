----------------------------- MODULE BrowserRun -----------------------------
(***************************************************************************)
(* One run in the browser (run.ts): its stages over one to four servers,   *)
(* each prepared, warmed up, measured, finalized and settled.  The clock   *)
(* holds while a stage is prepared and finalized; then no timer moves the  *)
(* run, only the answer of what it awaits.  A handler is one function of   *)
(* the run's record, for handlers call one another: a server that leaves   *)
(* may end its stage, and a stage's end the run.                           *)
(*                                                                         *)
(* Ages count the ticks since a server last moved each direction; bytes,   *)
(* rates and round trips are left out, and whether a stage's evidence is   *)
(* enough is chosen as it settles.                                         *)
(***************************************************************************)
EXTENDS Integers, Sequences, FiniteSets, FiniteSetsExt

CONSTANTS
    Servers, Latency,                \* those of the run, and those with a latency path
    Plans,                           \* the stages a run may have, in order
    Loaded,                          \* whether transfer stages measure latency too
    Warmup, Window,                  \* ticks
    Quiet, Silence, UploadSilence, ReceiverSilence, LatencyRecovery,
    Reasons                          \* that resources fail for

VARIABLE run

vars == run

Transfer == [latency |-> {}, download |-> {"down"}, upload |-> {"up"}, bidirectional |-> {"down", "up"}]

NoSeat == [resources |-> "None", down |-> 0, up |-> 0, heard |-> 0, stuck |-> 0, recovery |-> "None", latency |-> 0]
Held(r) == r.phase \in {"preparing", "finalizing", "settled"}
Participants(r) == Servers \ r.removed
Active(r) == {s \in Participants(r) : r.seats[s].resources # "None"}
LatencyParticipants(r) == (Participants(r) \cap Latency) \ r.latencyFailed
Moves(r) == Transfer[r.stage]
Probes(r, s) == s \in Latency /\ (r.stage = "latency" \/ Loaded)

SilentIn(r, s) ==
    {dir \in Moves(r) : IF dir = "down" THEN r.seats[s].down >= Silence
                        ELSE r.seats[s].stuck >= UploadSilence \/ r.seats[s].heard >= ReceiverSilence}

IsQuiet(r, s) == r.phase = "measuring" /\ Moves(r) # {} /\ \A dir \in Moves(r) : r.seats[s][dir] >= Quiet

\* A reported stall counts once its direction is quiet too.
Recovering(r, s) ==
    LET seat == r.seats[s]
    IN IF r.stage = "latency" THEN seat.latency > 0
       ELSE seat.recovery # "None" /\ seat[seat.recovery] >= Quiet

Failed(r, s, scope) == \E f \in r.failures : f.server = s /\ f.stage = r.stage /\ f.scope = scope

\* The first failure of a server in a stage and scope stands.
Record(r, s, scope, reason) ==
    IF Failed(r, s, scope) THEN r
    ELSE [r EXCEPT !.failures = @ \cup {[server |-> s, stage |-> r.stage, scope |-> scope, reason |-> reason]}]

(***************************************************************************)
(* How a stage and the run end.                                            *)
(***************************************************************************)
\* Lanes are told to go, and the interval closes.
Release(r) ==
    [r EXCEPT !.timer = FALSE, !.interval = {}, !.awaits = "Nothing", !.flushing = {},
              !.seats = [s \in Servers |-> IF @[s].resources = "None" THEN @[s] ELSE [NoSeat EXCEPT !.resources = "Gone"]]]

Complete(r) == [Release(r) EXCEPT !.state = "completed"]
AbortRun(r) == [Release(r) EXCEPT !.state = "aborted"]

Drops(r, s) == [r EXCEPT !.seats[s] = IF @.resources = "None" THEN @ ELSE [NoSeat EXCEPT !.resources = "Gone"]]

FinishSeat(r, s) ==
    [r EXCEPT !.seats[s].resources = IF @ \in {"None", "Gone"} THEN @ ELSE "Finishing"]

FailsLatency(r, s) ==
    Record([r EXCEPT !.seats[s].latency = 0, !.latencyFailed = @ \cup {s}], s, "latency", "lost")

\* The resources left are told to finish, and that is awaited.
AwaitsFinish(r) ==
    [r EXCEPT !.awaits = "Finish", !.pending = {s \in Servers : r.seats[s].resources = "Finishing"}]

Drain(r) ==
    LET stalled == {s \in Active(r) : r.seats[s].latency > 0}
        failed == FoldSet(LAMBDA s, q : FailsLatency(q, s), r, stalled)
    IN AwaitsFinish(FoldSet(LAMBDA s, q : FinishSeat(q, s), failed, Active(r)))

\* Final evidence is awaited first, if any was measured: of every server its upload's
\* checkpoint and the bytes its download lanes had not reported.
EndStage(r) ==
    LET closed == [r EXCEPT !.phase = "finalizing", !.silent = {s \in Active(r) : SilentIn(r, s) # {}},
                            !.retrying = {s \in Active(r) : Recovering(r, s)}]
    IN IF r.phase \in {"finalizing", "settled"} THEN r
       ELSE IF r.stage \in r.measured /\ Moves(r) # {} THEN
            [closed EXCEPT !.awaits = "Boundary", !.pending = IF "up" \in Moves(r) THEN Active(r) ELSE {},
                           !.flushing = IF "down" \in Moves(r) THEN Active(r) ELSE {}]
       ELSE Drain(closed)

\* The run completes after its stage.
Finish(r) ==
    LET finishing == [r EXCEPT !.finishing = TRUE, !.timer = FALSE]
    IN IF r.phase = "settled" THEN Complete(finishing) ELSE EndStage(finishing)

\* With nobody left to measure the stage ends, now or in the next turn.
Skip(r) ==
    IF r.phase \in {"finalizing", "settled"} THEN r
    ELSE LET skipped == [r EXCEPT !.at = r.end]
         IN IF r.phase = "preparing" THEN EndStage(skipped) ELSE [skipped EXCEPT !.turn = TRUE]

UpdateStalled(r) ==
    LET seats == Active(r) \ (IF r.stage = "latency" THEN r.latencyFailed ELSE {})
        stalled == seats # {} /\ \A s \in seats : Recovering(r, s) \/ IsQuiet(r, s)
    IN IF r.phase \in {"finalizing", "settled"} THEN r
       ELSE [r EXCEPT !.stalled = stalled, !.disturbed = @ \/ stalled]

\* In the latency stage only a server that stopped leaves the run.
LeftLatency(r) ==
    IF Participants(r) = {} THEN Finish(r) ELSE IF LatencyParticipants(r) = {} THEN Skip(r) ELSE r

RemoveLatency(r, s, reason) ==
    LET failed == Record([r EXCEPT !.disturbed = TRUE, !.latencyFailed = @ \cup {s}, !.seats[s].latency = 0],
                         s, "latency", reason)
    IN LeftLatency(UpdateStalled(IF reason # "stopped" THEN failed
                                 ELSE Drops([failed EXCEPT !.removed = @ \cup {s}], s)))

\* Its lanes go; probes it still owes are lost; the survivors go on in an interval of their own.
LeftThroughput(r, reason) ==
    IF Participants(r) # {} THEN [r EXCEPT !.interval = IF r.phase = "measuring" THEN Participants(r) ELSE @]
    ELSE IF Cardinality(Servers) = 1 /\ r.measured # {} /\ reason # "stopped" THEN Skip(r)
    ELSE Finish(r)

RemoveThroughput(r, s, reason) ==
    LET owes == Probes(r, s) /\ r.stage \in r.measured /\ (reason = "stopped" \/ r.phase = "measuring")
        gone == Drops([r EXCEPT !.disturbed = TRUE, !.removed = @ \cup {s},
                                !.asking = IF reason = "lost" THEN @ \cup {<<s, r.stage>>} ELSE @], s)
        told == IF owes THEN Record(gone, s, "latency", IF reason = "stopped" THEN reason ELSE "lost") ELSE gone
    IN LeftThroughput(UpdateStalled(Record(told, s, "throughput", reason)), reason)

Remove(r, s, reason) ==
    IF s \in r.removed \/ r.state # "running" THEN r
    ELSE IF r.stage = "latency" THEN RemoveLatency(r, s, reason) ELSE RemoveThroughput(r, s, reason)

(***************************************************************************)
(* How a stage begins.                                                     *)
(***************************************************************************)
\* A sole server is tried again; a server without a latency path has no seat in the
\* latency stage.
Prepare(r, rest) ==
    LET name == Head(rest)
        removed == IF Cardinality(Servers) = 1 THEN {} ELSE r.removed
        seated == (Servers \ removed) \cap (IF name = "latency" THEN Latency ELSE Servers)
        entered == [r EXCEPT !.stage = name, !.phase = "preparing", !.todo = Tail(rest), !.removed = removed,
                             !.at = 0, !.end = Warmup + Window, !.disturbed = FALSE, !.latencyFailed = {},
                             !.seats = [s \in Servers |-> IF s \in seated THEN [NoSeat EXCEPT !.resources = "Opening"] ELSE NoSeat],
                             !.awaits = "Open", !.pending = seated]
    IN IF seated = {} THEN Skip([entered EXCEPT !.awaits = "Nothing"]) ELSE entered

\* The window opens: evidence counts from now on.
Measure(r) ==
    LET open == [r EXCEPT !.phase = "measuring"]
    IN IF Active(r) = {} THEN open
       ELSE [open EXCEPT !.measured = @ \cup {r.stage}, !.disturbed = FALSE,
                         !.interval = IF Moves(r) = {} THEN {} ELSE Active(r),
                         !.seats = [s \in Servers |-> [@[s] EXCEPT !.down = 0, !.up = 0, !.heard = 0, !.stuck = 0]]]

\* Silence the others share is the link's: a server leaves for its own alone.
ExpireLatency(r, s) ==
    IF r.seats[s].latency <= LatencyRecovery THEN r
    ELSE IF r.stage = "latency" THEN Remove(r, s, "lost") ELSE FailsLatency(r, s)

\* Of a server's silent directions the first is judged.
ExpireSilence(r, s) ==
    LET silent == SilentIn(r, s)
        first == IF "down" \in silent THEN "down" ELSE "up"
        alone == silent # {} /\ \E other \in Active(r) \ {s} : r.seats[other][first] < Quiet
        quiet == \E dir \in Moves(r) : r.seats[s][dir] >= Quiet
    IN IF r.phase # "measuring" THEN r
       ELSE IF alone THEN Remove(r, s, "lost") ELSE [r EXCEPT !.disturbed = @ \/ quiet]

ExpireSeat(r, s) == IF s \notin Active(r) THEN r ELSE ExpireSilence(ExpireLatency(r, s), s)

Expire(r) == UpdateStalled(FoldSet(LAMBDA s, q : ExpireSeat(q, s), r, Active(r)))

\* A tick, after the time that passed: it enters the segment that came, or ends the stage.
Enter(r) ==
    IF r.state # "running" \/ Held(r) THEN r
    ELSE IF r.at >= r.end THEN EndStage(r)
    ELSE IF r.phase = "warmup" /\ r.at >= Warmup THEN Measure(r)
    ELSE r

Turn(r) == IF r.state # "running" \/ Held(r) THEN r ELSE Enter(Expire(r))

Arm(r) == [r EXCEPT !.timer = @ \/ (r.state = "running" /\ ~Held(r))]

(***************************************************************************)
(* The run and its calls.                                                  *)
(***************************************************************************)
Failures(r, stage) == {<<f.server, f.scope>> : f \in {g \in r.failures : g.stage = stage}}

Created(plan) ==
    [state |-> "running", todo |-> <<>>, stage |-> "latency", phase |-> "settled", at |-> 0, end |-> 0,
     seats |-> [s \in Servers |-> NoSeat], removed |-> {}, latencyFailed |-> {}, measured |-> {}, disturbed |-> FALSE,
     silent |-> {}, retrying |-> {}, interval |-> {}, settled |-> <<>>, asking |-> {},
     finishing |-> FALSE, stopped |-> FALSE, stalled |-> FALSE, cut |-> FALSE, timer |-> FALSE, turn |-> FALSE,
     awaits |-> "Nothing", pending |-> {}, flushing |-> {}, answers |-> [s \in Servers |-> "None"],
     failures |-> {[server |-> s, stage |-> Head(plan), scope |-> "latency", reason |-> "other"] : s \in Servers \ Latency}]

\* As start() leaves it: the first stage is being prepared.
Init == \E plan \in Plans : run = Prepare(Created(plan), plan)

Running == run.state = "running" /\ ~run.turn

\* The timer that fires on a held clock arms no other.
Timer ==
    /\ Running /\ run.timer
    /\ LET fired == [run EXCEPT !.timer = FALSE]
           Older(age) == IF age > 0 THEN Min({age + 1, LatencyRecovery + 1}) ELSE 0
           passed == [fired EXCEPT !.at = Min({@ + 1, IF @ < Warmup THEN Warmup ELSE run.end}),
                                   !.seats = [s \in Servers |-> IF s \notin Active(run) THEN @[s] ELSE
                                       [@[s] EXCEPT !.down = IF "down" \in Moves(run) THEN Min({@ + 1, Silence}) ELSE 0,
                                                    !.up = IF "up" \in Moves(run) THEN Min({@ + 1, Quiet}) ELSE 0,
                                                    !.heard = IF "up" \in Moves(run) THEN Min({@ + 1, ReceiverSilence}) ELSE 0,
                                                    !.latency = Older(@)]]]
       IN run' = IF Held(run) THEN fired ELSE Arm(Turn(passed))

QueuedTurn == run.state = "running" /\ run.turn /\ run' = Turn([run EXCEPT !.turn = FALSE])

\* Checkpoints that reject wait for no flush.
Rejects == {"signin", "rejected"}

\* A server finishes as soon as its own final evidence is known; everyone's download
\* lanes answer at one cutoff, so a flush is known once all are.
Known(r, s) == s \notin r.pending /\ (r.flushing = {} \/ r.answers[s] \in Rejects)

FinishKnown(r) == FoldSet(LAMBDA s, q : FinishSeat(q, s), r, {s \in Servers : Known(r, s)})

Flush(s) ==
    /\ Running /\ run.awaits = "Boundary" /\ s \in run.flushing
    /\ run' = FinishKnown([run EXCEPT !.flushing = @ \ {s}])

\* A server's answer to what the stage awaits: that its resources opened, its final
\* checkpoint, or that they finished.
Answer(s, answer) ==
    /\ Running /\ s \in run.pending
    /\ LET answered == [run EXCEPT !.pending = @ \ {s}]
       IN \/ /\ run.awaits = "Open" /\ answer \in {"ok"} \cup Reasons
             /\ run' = [answered EXCEPT !.answers[s] = answer,
                                        !.seats[s].resources = IF @ = "Opening" THEN "Ready" ELSE @]
          \/ /\ run.awaits = "Boundary" /\ answer \in {"ok", "same", "grown"} \cup Rejects
             /\ run' = FinishKnown([answered EXCEPT !.answers[s] = answer])
          \/ /\ run.awaits = "Finish" /\ answer = "ok"
             /\ run' = [answered EXCEPT !.seats[s].resources = "Gone"]

\* Everyone answered: those who could not open leave, unless that ended the stage.
Opened ==
    /\ Running /\ run.awaits = "Open" /\ run.pending = {}
    /\ LET refused == {s \in Servers : run.answers[s] \in Reasons}
           Refuse(s, r) == IF r.state = "running" /\ r.phase = "preparing" THEN Remove(r, s, run.answers[s]) ELSE r
           left == [FoldSet(Refuse, run, refused) EXCEPT !.answers = [s \in Servers |-> "None"]]
       IN run' = IF left.state # "running" \/ left.phase # "preparing" THEN left
                 ELSE Arm(Turn([left EXCEPT !.phase = "warmup", !.awaits = "Nothing"]))

\* A grown checkpoint is progress; any shows the feed is alive.  What it says of the
\* receiver's clock decides whether the upload was stuck.
Hear(r, s, grew) ==
    [r EXCEPT !.seats[s].heard = 0, !.seats[s].up = IF grew THEN 0 ELSE @,
              !.seats[s].stuck = IF grew THEN 0 ELSE Min({@ + 1, UploadSilence})]

\* Whoever was silent or retrying as the window closed, and still is, leaves.
BoundaryKnown ==
    /\ Running /\ run.awaits = "Boundary" /\ run.pending = {}
    /\ run.flushing = {} \/ ("up" \in Moves(run) /\ \A s \in Servers : run.answers[s] \in Rejects \cup {"None"})
    /\ LET told == {s \in Servers : run.answers[s] \in {"same", "grown"}}
           heard == FoldSet(LAMBDA s, r : Hear(r, s, run.answers[s] = "grown"), run, told)
           out == {s \in Servers : run.answers[s] = "signin"}
           left == FoldSet(LAMBDA s, r : Remove(r, s, "signin"), heard, out)
           late(r, s) == (s \in r.silent /\ SilentIn(r, s) # {}) \/ (s \in r.retrying /\ Recovering(r, s))
           judged == FoldSet(LAMBDA s, r : IF late(r, s) THEN Remove(r, s, "lost") ELSE r, left, run.silent \cup run.retrying)
       IN run' = Drain([judged EXCEPT !.interval = {}, !.silent = {}, !.retrying = {}, !.flushing = {},
                                      !.answers = [s \in Servers |-> "None"]])

\* Everything finished, or a stop cut it: the stage settles, with a failure for each whose
\* evidence is too little.
Settle(short) ==
    /\ Running /\ run.awaits = "Finish" /\ (run.pending = {} \/ run.stopped)
    /\ LET scope == IF run.stage = "latency" THEN "latency" ELSE "throughput"
           gone == [run EXCEPT !.phase = "settled", !.cut = run.pending # {}, !.stalled = FALSE, !.awaits = "Next",
                               !.pending = {}, !.retrying = {}, !.silent = {},
                               !.seats = [s \in Servers |-> [@[s] EXCEPT !.recovery = "None", !.latency = 0,
                                              !.resources = IF s \in run.pending THEN "Gone" ELSE @]]]
           charged == FoldSet(LAMBDA s, r : Record(r, s, scope, "other"), gone, short)
       IN run' = [charged EXCEPT !.settled = [st \in DOMAIN @ \cup {run.stage} |->
                                                 IF st = run.stage THEN Failures(charged, st) ELSE @[st]]]

\* Then the next stage, unless who is told of the stage's end stops, ends or changes the
\* run first.
Continue ==
    /\ Running /\ run.awaits = "Next"
    /\ run' = IF run.finishing \/ run.todo = <<>> THEN Complete(run)
              ELSE IF run.stopped THEN AbortRun(run)
              ELSE Prepare(run, run.todo)

\* The user's stop lets a stage whose window closed settle.
Stop ==
    /\ Running
    /\ run' = IF run.phase = "finalizing" /\ run.stage \in run.measured THEN [run EXCEPT !.stopped = TRUE]
              ELSE AbortRun(run)

Abort == Running /\ run' = AbortRun(run)

ChargedShown(r) == {r.stage}

\* The stage the run ends in: the first not settled.
Charged(r) ==
    IF r.phase # "settled" THEN {r.stage} ELSE IF r.todo = <<>> THEN {} ELSE {Head(r.todo)}

End ==
    /\ Running
    /\ LET scope(stage) == IF stage = "latency" THEN "latency" ELSE "throughput"
           known == {<<f.server, f.stage, f.scope>> : f \in run.failures}
           charged == {[server |-> s, stage |-> stage, scope |-> scope(stage), reason |-> "other"] :
                          s \in Participants(run), stage \in Charged(run)}
       IN run' = Finish([run EXCEPT !.failures = @ \cup {f \in charged : <<f.server, f.stage, f.scope>> \notin known}])

\* Later stages are turned on or off, and the window takes its new length.
Reconfigure(plan, window) ==
    /\ Running
    /\ \E i \in DOMAIN plan :
          /\ plan[i] = run.stage
          /\ LET rest == SubSeq(plan, i + 1, Len(plan))
                 changed == [run EXCEPT !.todo = rest]
             IN /\ rest = run.todo \/ (~run.finishing /\ ~run.stopped)
                /\ run' = IF run.phase \in {"finalizing", "settled"} THEN changed
                          ELSE Turn([changed EXCEPT !.end = Max({run.at, Warmup + window})])

\* Steady evidence ends the window here.
FinishEarly ==
    /\ Running /\ run.phase = "measuring" /\ run.at > Warmup
    /\ ~run.disturbed /\ ~run.stalled /\ \A s \in Active(run) : ~Recovering(run, s)
    /\ run.stage = "latency" => Active(run) \ run.latencyFailed # {}
    /\ run' = Turn([run EXCEPT !.end = run.at])

\* The page was frozen: what comes after is an interval of its own.
Gap ==
    /\ Running /\ run.phase = "measuring"
    /\ run' = [run EXCEPT !.disturbed = TRUE, !.interval = IF Moves(run) = {} THEN @ ELSE Active(run)]

(***************************************************************************)
(* What a server's resources report; inert once it left or the stage       *)
(* settled.                                                                *)
(***************************************************************************)
Live(s) == Running /\ run.phase # "settled" /\ s \in Active(run) /\ run.seats[s].resources \in {"Ready", "Finishing"}

\* Tearing down lanes that moved to the window's end fails nothing.
Teardown(s) ==
    run.phase = "finalizing" /\ (run.stage \notin run.measured \/ \A dir \in Moves(run) : run.seats[s][dir] < Quiet)

Download(s) ==
    Live(s) /\ run.phase = "measuring" /\ "down" \in Moves(run) /\ run' = [run EXCEPT !.seats[s].down = 0]

Receiver(s, grew) ==
    Live(s) /\ run.phase = "measuring" /\ "up" \in Moves(run) /\ run' = Hear(run, s, grew)

Stalled(s, dir) ==
    /\ Live(s) /\ run.phase = "measuring" /\ dir \in Moves(run) /\ run.seats[s].recovery = "None"
    /\ run' = UpdateStalled([run EXCEPT !.seats[s].recovery = dir, !.disturbed = TRUE])

Resumed(s) ==
    /\ Live(s) /\ run.seats[s].recovery # "None"
    /\ run' = UpdateStalled([run EXCEPT !.seats[s].recovery = "None"])

LatencyStalled(s) ==
    /\ Live(s) /\ Probes(run, s) /\ s \notin run.latencyFailed /\ run.seats[s].latency = 0
    /\ run' = UpdateStalled([run EXCEPT !.seats[s].latency = 1])

LatencyResumed(s) ==
    /\ Live(s) /\ run.seats[s].latency > 0
    /\ run' = UpdateStalled([run EXCEPT !.seats[s].latency = 0])

ResourcesFail(s, reason) == Live(s) /\ ~Teardown(s) /\ run' = Remove(run, s, reason)

\* Loaded latency alone never removes a throughput participant.
SignInRequired(s, role) ==
    /\ Live(s) /\ ~Teardown(s)
    /\ role = "latency" => Probes(run, s)
    /\ run' = IF role = "throughput" \/ run.stage = "latency" THEN Remove(run, s, "signin")
              ELSE Record(run, s, "latency", "signin")

\* A leaving server's probes still count, unless a stop cut their drain.
ProbesIncomplete(s) ==
    /\ Running /\ run.phase # "settled" /\ run.stage \in run.measured /\ Probes(run, s)
    /\ run.seats[s].resources # "None"
    /\ run' = IF run.cut THEN run ELSE Record(run, s, "latency", "lost")

\* A server that left without an answer had its sign-in withdrawn.
SignedOut(s, stage, ended) ==
    /\ Running /\ <<s, stage>> \in run.asking
    /\ run' = [run EXCEPT !.asking = @ \ {<<s, stage>>},
                          !.failures = {IF ended /\ f.server = s /\ f.stage = stage /\ f.scope = "throughput" /\ f.reason = "lost"
                                        THEN [f EXCEPT !.reason = "signin"] ELSE f : f \in @}]

\* A run that is over stays so.
Over == run.state # "running" /\ UNCHANGED run

Next ==
    \/ Over
    \/ Timer \/ QueuedTurn \/ Opened \/ BoundaryKnown \/ Continue \/ Stop \/ Abort \/ End \/ FinishEarly \/ Gap
    \/ \E short \in SUBSET Participants(run) : Settle(short)
    \/ \E plan \in Plans, window \in {1, Window} : Reconfigure(plan, window)
    \/ \E s \in Servers :
          \/ \E answer \in {"ok", "same", "grown"} \cup Rejects \cup Reasons : Answer(s, answer)
          \/ Flush(s) \/ Download(s) \/ Resumed(s) \/ LatencyStalled(s) \/ LatencyResumed(s) \/ ProbesIncomplete(s)
          \/ \E grew \in BOOLEAN : Receiver(s, grew)
          \/ \E dir \in {"down", "up"} : Stalled(s, dir)
          \/ \E reason \in Reasons : ResourcesFail(s, reason)
          \/ \E role \in {"throughput", "latency"} : SignInRequired(s, role)
          \/ \E stage \in DOMAIN Transfer, ended \in BOOLEAN : SignedOut(s, stage, ended)

Spec == Init /\ [][Next]_vars

(***************************************************************************)
(* What the run promises.                                                  *)
(***************************************************************************)
(***************************************************************************)
(* A run that goes on has something that moves it: its timer while the     *)
(* clock runs, a queued turn, or the answer its stage awaits while the     *)
(* clock is held.  Once it is to finish, it is in its last stage's end     *)
(* (run.ts #arm, #skip, #prepare, #endStage, #finish).                     *)
(***************************************************************************)
RunAdvances ==
    run.state = "running" =>
        /\ \/ run.turn /\ ~Held(run)
           \/ run.timer /\ ~Held(run)
           \/ run.phase = "preparing" /\ run.awaits = "Open"
           \/ run.phase = "finalizing" /\ run.awaits \in {"Boundary", "Finish"}
           \/ run.phase = "settled" /\ run.awaits = "Next"
        /\ run.finishing => run.phase \in {"finalizing", "settled"}

(***************************************************************************)
(* Nothing outlives its stage or the run: once either is over no server    *)
(* has resources left, nobody recovers, the interval is closed, and an     *)
(* ended run has no timer (run.ts #endStage, #remove, #release).           *)
(***************************************************************************)
NothingOutlives ==
    /\ run.state # "running" \/ run.phase = "settled" =>
           /\ run.interval = {}
           /\ \A s \in Servers : /\ run.seats[s].resources \in {"None", "Gone"}
                                  /\ run.seats[s].recovery = "None" /\ run.seats[s].latency = 0
    /\ run.state # "running" => ~run.timer

(***************************************************************************)
(* A server that left has a failure that says so, and trouble with its     *)
(* latency alone never made it leave a transfer: the failure is one of     *)
(* throughput, or of the latency stage (run.ts #remove, #failLatency,      *)
(* signInRequired).  In a transfer's window the open interval is of        *)
(* exactly the servers that are still in it.                               *)
(***************************************************************************)
LossesTold ==
    /\ \A s \in run.removed : \E f \in run.failures : f.server = s /\ (f.scope = "throughput" \/ (f.stage = "latency" /\ f.reason # "other"))
    /\ run.phase = "measuring" /\ run.state = "running" /\ Moves(run) # {} /\ Active(run) # {}
           => run.interval = Active(run)

(***************************************************************************)
(* What a stage's end reported stands: no failure of a settled stage is    *)
(* added later, whatever the run's end, late answers or the teardown       *)
(* bring (run.ts #settle "reduced once, the moment it ends", end()).       *)
(***************************************************************************)
SettledStands == \A stage \in DOMAIN run.settled : Failures(run, stage) = run.settled[stage]
==============================================================================
