------------------------------- MODULE MCStage -------------------------------
(***************************************************************************)
(* A stage and a run for TLC, part by part: stages of the terminal client  *)
(* with one or two servers and bounds of one to three ticks; a prober of a *)
(* fixed and of a reply-driven cadence; a run of the browser over two      *)
(* servers, one with a latency path, over one that uploads, and over one   *)
(* without a latency path. Each is explored on its own: out of focus the   *)
(* prober rests and the variables of the other parts hold Nothing.         *)
(***************************************************************************)
EXTENDS Prober

VARIABLES
    focus,
    plan, stagePc, token, stageNow, stageDue, back, phase, stageWindow, last, stopped, present, probing, replied,
    misses, moved, failures, sample, ups, lost, checkpoint, participants, work, finished,
    run

Plan(directions, latency, warmup, duration, minting, gather, tardy, health, answers) ==
    [directions |-> directions, latency |-> latency, warmup |-> warmup,
     duration |-> duration, minting |-> minting, gather |-> gather, late |-> tardy,
     health |-> health, answers |-> answers]

Answers == {"got", "missed", "refused"}
Plans ==
    {Plan({}, TRUE, <<0, 1>>, 4, {}, {}, {0, 3}, {"ok"}, {}),
     Plan({"down"}, TRUE, <<0, 1>>, 4, {}, {}, {0}, {"ok", "failed"}, {}),
     Plan({"up"}, TRUE, <<1>>, 4, {3}, {0, 3}, {0, 3}, {"ok", "failed"}, {"got", "missed"}),
     Plan({"up"}, FALSE, <<0, 1>>, 4, {0, 3}, {0, 3}, {0}, {"ok"}, Answers),
     Plan({"down", "up"}, FALSE, <<0, 0>>, 5, {0}, {0}, {0}, {"ok", "retrying"}, {"got"})}

S == INSTANCE StageEngine WITH
    Plans <- Plans, TickLength <- 2, ReadyBound <- 2, OpeningBound <- 3, Silence <- 4, Quiet <- 2,
    MissedCheckpoints <- 2, DrainBound <- 3, pc <- stagePc, now <- stageNow, due <- stageDue,
    window <- stageWindow

B == INSTANCE BrowserRun WITH
    Servers <- {"a", "b"}, Latency <- {"a"}, Plans <- {<<"latency", "download">>, <<"download">>}, Loaded <- FALSE,
    Warmup <- 1, Window <- 2, Quiet <- 1, Silence <- 2, UploadSilence <- 2, ReceiverSilence <- 2,
    LatencyRecovery <- 1, Reasons <- {"lost", "stopped"}

U == INSTANCE BrowserRun WITH
    Servers <- {"a"}, Latency <- {"a"}, Plans <- {<<"upload">>, <<"upload", "bidirectional">>}, Loaded <- TRUE,
    Warmup <- 1, Window <- 1, Quiet <- 1, Silence <- 2, UploadSilence <- 2, ReceiverSilence <- 2,
    LatencyRecovery <- 1, Reasons <- {"lost"}

N == INSTANCE BrowserRun WITH
    Servers <- {"a"}, Latency <- {}, Plans <- {<<"latency", "download">>}, Loaded <- FALSE,
    Warmup <- 1, Window <- 1, Quiet <- 1, Silence <- 2, UploadSilence <- 2, ReceiverSilence <- 2,
    LatencyRecovery <- 1, Reasons <- {"lost"}

stage == <<plan, stagePc, token, stageNow, stageDue, back, phase, stageWindow, last, stopped, present, probing, replied,
    misses, moved, failures, sample, ups, lost, checkpoint, participants, work, finished>>

NoStage ==
    /\ plan = "Nothing" /\ stagePc = "Nothing" /\ token = "Nothing" /\ stageNow = "Nothing"
    /\ stageDue = "Nothing" /\ back = "Nothing" /\ phase = "Nothing" /\ stageWindow = "Nothing" /\ last = "Nothing"
    /\ stopped = "Nothing" /\ present = "Nothing" /\ probing = "Nothing" /\ replied = "Nothing"
    /\ misses = "Nothing" /\ moved = "Nothing" /\ failures = "Nothing" /\ sample = "Nothing"
    /\ ups = "Nothing" /\ lost = "Nothing" /\ checkpoint = "Nothing" /\ participants = "Nothing"
    /\ work = "Nothing" /\ finished = "Nothing"

NoProber == Init /\ cadence = "Every"

MCInit ==
    \/ /\ focus = "stage" /\ S!Init
       /\ NoProber /\ run = "Nothing"
    \/ /\ focus = "prober" /\ Init
       /\ NoStage /\ run = "Nothing"
    \/ /\ focus = "browser" /\ B!Init
       /\ NoStage /\ NoProber
    \/ /\ focus = "sole" /\ U!Init
       /\ NoStage /\ NoProber
    \/ /\ focus = "pathless" /\ N!Init
       /\ NoStage /\ NoProber

MCNext ==
    \/ focus = "stage" /\ S!Next /\ UNCHANGED <<focus, vars, run>>
    \/ focus = "prober" /\ Next /\ UNCHANGED <<focus, stage, run>>
    \/ focus = "browser" /\ B!Next /\ UNCHANGED <<focus, stage, vars>>
    \/ focus = "sole" /\ U!Next /\ UNCHANGED <<focus, stage, vars>>
    \/ focus = "pathless" /\ N!Next /\ UNCHANGED <<focus, stage, vars>>

MCvars == <<focus, stage, vars, run>>

MCSpec == MCInit /\ [][MCNext]_MCvars

\* The coordinator runs what the engine counts on, and nothing once the stage
\* returned; the browser holds nothing once its stage or its run is over: see
\* WorkMatchesEngine and EndsQuiet of StageEngine and NothingOutlives of BrowserRun.
WorkMatchesEngine ==
    /\ focus = "stage" => S!WorkMatchesEngine /\ S!EndsQuiet
    /\ focus = "browser" => B!NothingOutlives
    /\ focus = "sole" => U!NothingOutlives
    /\ focus = "pathless" => N!NothingOutlives

\* A member leaves once, and one without a result says why; a server that left a run
\* of the browser has a failure, and what a stage's end reported stands: see
\* DeparturesAreFinal and GapsExplained of StageEngine, LossesTold and SettledStands
\* of BrowserRun.
GapsExplained ==
    /\ focus = "stage" => S!DeparturesAreFinal /\ S!GapsExplained
    /\ focus = "browser" => B!LossesTold /\ B!SettledStands
    /\ focus = "sole" => U!LossesTold /\ U!SettledStands
    /\ focus = "pathless" => N!LossesTold /\ N!SettledStands

\* Every phase of a stage, and a prober whose window closed, is over within its
\* bounds, and a run of the browser is never without what moves it: see EndsInTime of
\* StageEngine, DrainsInTime of Prober and RunAdvances of BrowserRun.
EndsInTime ==
    /\ focus = "stage" => S!EndsInTime
    /\ focus = "prober" => DrainsInTime
    /\ focus = "browser" => B!RunAdvances
    /\ focus = "sole" => U!RunAdvances
    /\ focus = "pathless" => N!RunAdvances

\* A stage's judgements leave a member, its window opens on checkpoints, and a prober
\* whose window closed sends nothing: see SilenceLeavesOne and OpensCheckpointed of
\* StageEngine and ClosedSendsNothing of Prober.
SilenceLeavesOne ==
    [][/\ focus = "stage" => S!SilenceLeavesOne /\ S!OpensCheckpointed
       /\ focus = "prober" => ClosedSendsNothing]_MCvars
==============================================================================
