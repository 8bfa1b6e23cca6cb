---------------------------- MODULE UploadSession ----------------------------
(***************************************************************************)
(* The terminal client's side of an upload's receiver on one server        *)
(* (rust/client/src/run/upload.rs): an upload is an ID the server minted,  *)
(* the lanes that send to it and the feed that follows it.  A receiver     *)
(* that no longer knows its ID is replaced, once per server and run, by a  *)
(* task the session picks up when the stage asks for its health.           *)
(*                                                                         *)
(* Two stages of a run open a session each, one after the other.  Uploads  *)
(* are numbered over both.  A server's counters are one number.  Of an     *)
(* upload that is dropped nothing is kept.  depart's request to finalize   *)
(* goes on without the session and is left out.                            *)
(***************************************************************************)
EXTENDS Integers, FiniteSets

CONSTANTS
    Uploads,        \* 1 .. n: uploads of the run
    MaxCount,       \* what a receiver counts up to
    Stages,         \* sessions of the run
    FinishTime,         \* how long a receiver may take to complete
    StoppedTime,  \* and once the run was stopped
    Budget, CheckpointRetry

VARIABLES
    session,    \* [pc, current, replacing, stopped, left, asked, stage, health]
    replaced,   \* the server's receiver was replaced in this run
    uploads,    \* each [state, cancelled, lanes, feed, count, progress, finalized]
    replacements \* how many replacements began

vars == <<session, replaced, uploads, replacements>>

None == 0
Off == -1

NoProgress == [latest |-> Off, complete |-> FALSE, ended |-> "No"]
Unminted == [state |-> "None", cancelled |-> FALSE, lanes |-> "None", feed |-> "None", count |-> 0,
             progress |-> NoProgress, finalized |-> FALSE]
Over == [Unminted EXCEPT !.state = "Over", !.cancelled = TRUE]
Closed(stage) == [pc |-> "Closed", current |-> None, replacing |-> None, stopped |-> FALSE, left |-> 0,
                  asked |-> Off, stage |-> stage, health |-> "Ok"]

Init ==
    /\ session = Closed(0) /\ replaced = FALSE /\ replacements = 0
    /\ uploads = [u \in Uploads |-> Unminted]

Fresh == {u \in Uploads : uploads[u].state = "None"}
NextUpload == CHOOSE u \in Fresh : \A v \in Fresh : u <= v

\* Token trees: the session's token is its uploads' parent.
Alive(u) == ~uploads[u].cancelled
CancelAll == [u \in Uploads |-> [uploads[u] EXCEPT !.cancelled = uploads[u].state # "None"]]

Dropped == [u \in Uploads |-> IF uploads[u].state = "None" THEN Unminted ELSE Over]

(***************************************************************************)
(* Start::upload: the ID minted with retries, then lanes and feed at once. *)
(***************************************************************************)
Started == [Unminted EXCEPT !.state = "Live", !.lanes = "Running", !.feed = "Session"]

Open ==
    /\ session.pc = "Closed" /\ session.stage < Stages /\ Fresh # {}
    /\ session' = [Closed(session.stage + 1) EXCEPT !.pc = "Opening", !.current = NextUpload]
    /\ uploads' = [uploads EXCEPT ![NextUpload].state = "Minting"]
    /\ UNCHANGED <<replaced, replacements>>

Minted(u) ==
    /\ uploads[u].state = "Minting" /\ Alive(u)
    /\ \/ /\ \E feed \in {"Session", "Http"} : uploads' = [uploads EXCEPT ![u] = [Started EXCEPT !.feed = feed]]
          /\ session' = IF session.pc = "Opening" THEN [session EXCEPT !.pc = "Open"] ELSE session
       \/ /\ uploads' = [uploads EXCEPT ![u].state = "Failed"]
          /\ session' = IF session.pc = "Opening" THEN Closed(session.stage) ELSE session
    /\ UNCHANGED <<replaced, replacements>>

\* The lanes; refused is a final refusal of the ID, failed any other.
LanesEnd(u) ==
    /\ Alive(u) /\ uploads[u].lanes = "Running"
    /\ \E end \in {"Refused", "Failed"} : uploads' = [uploads EXCEPT ![u].lanes = end]
    /\ UNCHANGED <<session, replaced, replacements>>

Counts(u) ==
    /\ Alive(u) /\ uploads[u].lanes = "Running" /\ uploads[u].count < MaxCount
    /\ uploads' = [uploads EXCEPT ![u].count = @ + 1]
    /\ UNCHANGED <<session, replaced, replacements>>

(***************************************************************************)
(* follow: the session's first stream, then HTTP.  A record may be one an  *)
(* earlier feed brought already.                                           *)
(***************************************************************************)
Following(u) == uploads[u].state = "Live" /\ Alive(u) /\ uploads[u].feed \in {"Session", "Http"}

Follows(p, counters) == p.latest = Off \/ counters >= p.latest

\* apply: what regresses is stale, and completes nothing.
Applied(p, counters, complete) ==
    IF Follows(p, counters) THEN [p EXCEPT !.latest = counters, !.complete = complete] ELSE p

Record(u, counters) ==
    /\ Following(u) /\ counters <= uploads[u].count
    /\ \E complete \in {FALSE, uploads[u].finalized /\ counters = uploads[u].count} :
          LET p == Applied(uploads[u].progress, counters, complete)
          IN uploads' = [uploads EXCEPT ![u].progress = p, ![u].feed = IF p.complete THEN "Done" ELSE @]
    /\ UNCHANGED <<session, replaced, replacements>>

\* A final fault ends the feed; a passing one leaves a stream for HTTP, or has
\* HTTP try again for the redial window.
FeedFails(u) ==
    /\ Following(u)
    /\ \/ \E fault \in {"Refused", "Failed"} :
             uploads' = [uploads EXCEPT ![u].feed = "Done", ![u].progress.ended = fault]
       \/ uploads[u].feed = "Session" /\ uploads' = [uploads EXCEPT ![u].feed = "Http"]
    /\ UNCHANGED <<session, replaced, replacements>>

(***************************************************************************)
(* health: a finished replacement is adopted first.                        *)
(***************************************************************************)
Finished(u) == u # None /\ (uploads[u].state \in {"Live", "Failed"} \/ uploads[u].cancelled)
Adopts == Finished(session.replacing)
Adopted == IF Adopts /\ uploads[session.replacing].state = "Live" THEN session.replacing ELSE session.current

Invalid(u) == uploads[u].progress.ended = "Refused" \/ uploads[u].lanes = "Refused"

Replace ==
    /\ Fresh # {}
    /\ uploads' = [uploads EXCEPT ![Adopted].cancelled = TRUE, ![NextUpload].state = "Minting"]
    /\ session' = [session EXCEPT !.current = Adopted, !.replacing = NextUpload, !.health = "Ok"]
    /\ replaced' = TRUE /\ replacements' = replacements + 1

Health ==
    /\ session.pc = "Open"
    /\ IF Adopts /\ Adopted # session.replacing
       THEN session' = [session EXCEPT !.replacing = None, !.health = "Failed"] /\ UNCHANGED <<uploads, replaced, replacements>>
       ELSE IF session.replacing # None /\ ~Adopts
       THEN session' = [session EXCEPT !.health = "Ok"] /\ UNCHANGED <<uploads, replaced, replacements>>
       ELSE IF Invalid(Adopted) /\ ~replaced THEN Replace
       ELSE /\ session' = [session EXCEPT !.current = Adopted, !.replacing = None,
                               !.health = IF uploads[Adopted].progress.ended # "No" \/ uploads[Adopted].lanes # "Running"
                                          THEN "Failed" ELSE "Ok"]
            /\ uploads' = IF Adopted = session.current THEN uploads ELSE [uploads EXCEPT ![session.current] = Over]
            /\ UNCHANGED <<replaced, replacements>>

(***************************************************************************)
(* checkpoint: asked again after a pause while its budget leaves one.      *)
(***************************************************************************)
Checkpoint ==
    /\ session.pc = "Open"
    /\ session' = [session EXCEPT !.pc = "Checking", !.left = Budget, !.asked = 0]
    /\ UNCHANGED <<uploads, replaced, replacements>>

CheckpointAnswered ==
    /\ session.pc = "Checking" /\ session.asked = 0
    /\ \/ session' = [session EXCEPT !.pc = "Open", !.left = 0, !.asked = Off]
       \/ session.left > CheckpointRetry /\ session' = [session EXCEPT !.asked = CheckpointRetry]
    /\ UNCHANGED <<uploads, replaced, replacements>>

(***************************************************************************)
(* finish ends the lanes, has the receiver finalize and waits; depart does *)
(* not wait.  Either cancels everything the session started.               *)
(***************************************************************************)
BeginFinish ==
    /\ session.pc = "Open"
    /\ session' = [session EXCEPT !.pc = "Finishing", !.left = IF session.stopped THEN StoppedTime ELSE FinishTime]
    /\ uploads' = [uploads EXCEPT ![session.current].lanes = "Dropped"]
    /\ UNCHANGED <<replaced, replacements>>

Finalize(u) ==
    /\ uploads[u].state = "Live" /\ ~uploads[u].finalized
    /\ session.pc = "Finishing" /\ u = session.current
    /\ uploads' = [uploads EXCEPT ![u].finalized = TRUE]
    /\ UNCHANGED <<session, replaced, replacements>>

Completed == LET p == uploads[session.current].progress IN p.complete \/ p.ended # "No"

EndFinish ==
    /\ session.pc = "Finishing"
    /\ session.left = 0 \/ (Completed /\ uploads[session.current].finalized)
    /\ session' = Closed(session.stage)
    /\ uploads' = Dropped
    /\ UNCHANGED <<replaced, replacements>>

Depart ==
    /\ session.pc \in {"Open", "Opening"}
    /\ session' = Closed(session.stage)
    /\ uploads' = Dropped
    /\ UNCHANGED <<replaced, replacements>>

\* The run is stopped: its token is the session's, and everything under it.
Stop ==
    /\ session.pc \in {"Open", "Checking", "Finishing"} /\ ~session.stopped
    /\ session' = [session EXCEPT !.stopped = TRUE,
                                  !.left = IF session.pc = "Finishing" /\ @ > StoppedTime THEN StoppedTime ELSE @]
    /\ uploads' = CancelAll
    /\ UNCHANGED <<replaced, replacements>>

Tick ==
    /\ session.left > 0
    /\ session' = [session EXCEPT !.left = @ - 1, !.asked = IF @ > 0 THEN @ - 1 ELSE @]
    /\ UNCHANGED <<uploads, replaced, replacements>>

CheckpointTimesOut ==
    /\ session.pc = "Checking" /\ session.left = 0
    /\ session' = [session EXCEPT !.pc = "Open", !.asked = Off]
    /\ UNCHANGED <<uploads, replaced, replacements>>

Next ==
    \/ Open \/ Health \/ Checkpoint \/ CheckpointAnswered \/ CheckpointTimesOut
    \/ BeginFinish \/ EndFinish \/ Depart \/ Stop \/ Tick
    \/ \E u \in Uploads : \/ Minted(u) \/ LanesEnd(u) \/ Counts(u) \/ FeedFails(u) \/ Finalize(u)
                          \/ \E counters \in 0..MaxCount : Record(u, counters)

Spec == Init /\ [][Next]_vars

-----------------------------------------------------------------------------
\* A run replaces a server's receiver once, over all its stages: each session
\* has the server's flag, not one of its own (health, replaced).
ReplacedOnce == replacements <= 1

Sending(u) == uploads[u].state = "Live" /\ Alive(u) /\ uploads[u].lanes \in {"Running", "Refused", "Failed"}

\* At most one receiver is sent to: a replaced upload's lanes and feed end
\* before another is minted, and a session that ended, also while its
\* replacement was under way, leaves nothing running (replace, finish, depart).
OneSends ==
    /\ Cardinality({u \in Uploads : Sending(u)}) <= 1
    /\ session.pc = "Closed" => \A u \in Uploads : uploads[u].state \in {"None", "Failed"} \/ ~Alive(u)

\* The counters a stage reads of a receiver never fall, and a completed upload
\* stays complete: a stale record of a second feed changes nothing (apply).
ProgressForward == \A u \in Uploads :
    uploads'[u].state = "Live" =>
        /\ uploads'[u].progress.latest >= uploads[u].progress.latest
        /\ uploads[u].progress.complete => uploads'[u].progress = uploads[u].progress
==============================================================================
