--------------------------- MODULE QuicConnection ---------------------------
(***************************************************************************)
(* One HTTP/3 connection of the server (transport/quic.rs): answered by    *)
(* Retry or held, its handshake, and the loop that runs its requests       *)
(* (quic/request.rs), tunes its send window (quic/budget.rs) and retires   *)
(* or closes it when nothing was asked of it for long enough.  GOAWAYs and *)
(* the drain are Http3Session's.  Time counts tuning ticks; noq's idle     *)
(* timer is taken to restart at a packet of the peer's only.  `quiet` and  *)
(* `noticed` are history: how long the connection really did no work, and  *)
(* how long ago it was retired.                                            *)
(***************************************************************************)
EXTENDS Integers, FiniteSets

CONSTANTS
    Requests, MaxRequests,
    HandshakeBound, ExchangeBound,
    Quiet, Unasked, Idle,           \* QUIET, UNASKED, and noq's idle timeout
    Backlog, MaxTail,               \* what a large reply may leave unacknowledged, and any reply here
    MinWindow, MaxWindow, Step,     \* the send window's bounds and its smallest raise
    Shrink                          \* SEND_WINDOW_SHRINK_DELAY

VARIABLES
    at,         \* "Incoming", "Handshake", "Serving" or "Over"
    holds,      \* what it holds of {"handshake", "occupant", "floor"}
    left,       \* of the handshake's bound
    requests,   \* per request "None", "Admitted", or what is left of its exchange; and whether it is large
    worked,     \* Worked: [age, unacked]
    tail,       \* reply bytes the peer has not acknowledged
    stopped,    \* the server's shutdown reached the driver
    silent,     \* time since a packet of the peer's
    window,     \* SendWindow: [limit, last, low]
    quiet, noticed,
    ended       \* why it is over

vars == <<at, holds, left, requests, worked, tail, stopped, silent, window, quiet, noticed, ended>>

Off == -1
NoRequest == [left |-> Off, admitted |-> FALSE, large |-> FALSE]
NoWindow == [limit |-> MinWindow, last |-> FALSE, low |-> Off]
NotWorked == [age |-> 0, unacked |-> 0]

Init ==
    /\ at = "Incoming" /\ holds = {} /\ left = Off /\ ended = "None"
    /\ requests = [r \in Requests |-> NoRequest] /\ tail = 0 /\ stopped = FALSE
    /\ worked = NotWorked /\ window = NoWindow
    /\ silent = 0 /\ quiet = 0 /\ noticed = Off

Running == {r \in Requests : requests[r] # NoRequest}

\* The connection's future ends; requests, holds and windows go with it.
Over(why) ==
    /\ at' = "Over" /\ ended' = why /\ holds' = {} /\ left' = Off
    /\ requests' = [r \in Requests |-> NoRequest] /\ tail' = 0 /\ stopped' = FALSE
    /\ worked' = NotWorked /\ window' = NoWindow
    /\ UNCHANGED <<silent, quiet, noticed>>

(***************************************************************************)
(* Arrival and handshake.                                                  *)
(***************************************************************************)
\* An address that was not validated yet is answered by Retry once the
\* handshakes in flight are many, and any address past its quota.
Retry(validated, crowded, quota) ==
    /\ at = "Incoming" /\ ((crowded /\ ~validated) \/ ~quota)
    /\ Over("Retry")

\* The floor is taken as the connection starts; without it the peer is refused.
Accept(validated, crowded, quota, fits) ==
    /\ at = "Incoming" /\ quota /\ (crowded => validated)
    /\ IF fits
       THEN /\ at' = "Handshake" /\ left' = HandshakeBound
            /\ holds' = {"handshake", "occupant", "floor"}
            /\ UNCHANGED <<requests, worked, tail, stopped, silent, window, quiet, noticed, ended>>
       ELSE Over("Refused")

ConnectedHolding ==
    /\ at = "Handshake" /\ at' = "Serving" /\ left' = Off
    /\ UNCHANGED <<holds, requests, worked, tail, stopped, silent, window, quiet, noticed, ended>>

Connected ==
    /\ at = "Handshake" /\ at' = "Serving" /\ left' = Off /\ holds' = holds \ {"handshake"}
    /\ UNCHANGED <<requests, worked, tail, stopped, silent, window, quiet, noticed, ended>>

\* The handshake fails, takes too long, or meets the server's shutdown.
HandshakeFails == at = "Handshake" /\ Over("Handshake")

(***************************************************************************)
(* Requests.                                                               *)
(***************************************************************************)
\* One past what the connection runs is rejected.  A retired connection
\* still runs what arrives; one that is shut down takes nothing new.
Arrives(r, large) ==
    /\ at = "Serving" /\ ~stopped /\ requests[r] = NoRequest /\ silent' = 0
    /\ IF Cardinality(Running) < MaxRequests
       THEN /\ requests' = [requests EXCEPT ![r] = [left |-> ExchangeBound, admitted |-> FALSE, large |-> large]]
            /\ quiet' = 0
       ELSE UNCHANGED <<requests, quiet>>
    /\ UNCHANGED <<at, holds, left, worked, tail, stopped, window, noticed, ended>>

\* Admitted, a request is bounded by its lane instead of by its exchange.
Admit(r) ==
    /\ r \in Running /\ ~requests[r].admitted
    /\ requests' = [requests EXCEPT ![r] = [@ EXCEPT !.admitted = TRUE, !.left = Off]]
    /\ UNCHANGED <<at, holds, left, worked, tail, stopped, silent, window, quiet, noticed, ended>>

\* A frame of a reply; a large reply first waits for its path.
Reply(r) ==
    /\ r \in Running /\ tail < MaxTail /\ (requests[r].large => tail <= Backlog)
    /\ tail' = tail + 1 /\ quiet' = 0
    /\ UNCHANGED <<at, holds, left, requests, worked, stopped, silent, window, noticed, ended>>

\* Answered, aborted, reset by the peer or expired: the loop notes the time.
RequestEnds(r) ==
    /\ r \in Running
    /\ requests' = [requests EXCEPT ![r] = NoRequest] /\ worked' = [worked EXCEPT !.age = 0] /\ quiet' = 0
    /\ UNCHANGED <<at, holds, left, tail, stopped, silent, window, noticed, ended>>

Acknowledge ==
    /\ at = "Serving" /\ tail > 0 /\ tail' \in 0..(tail - 1)
    /\ quiet' = 0 /\ silent' = 0
    /\ UNCHANGED <<at, holds, left, requests, worked, stopped, window, noticed, ended>>

\* The peer sends what nothing asked for.
Ping ==
    /\ at = "Serving" /\ silent # 0 /\ silent' = 0
    /\ UNCHANGED <<at, holds, left, requests, worked, tail, stopped, window, quiet, noticed, ended>>

(***************************************************************************)
(* The other branches of the serving loop.                                 *)
(***************************************************************************)
Stop ==
    /\ at = "Serving" /\ ~stopped /\ stopped' = TRUE
    /\ UNCHANGED <<at, holds, left, requests, worked, tail, silent, window, quiet, noticed, ended>>

\* The application retires the connection.
Retire ==
    /\ at = "Serving" /\ noticed = Off /\ noticed' = 0
    /\ UNCHANGED <<at, holds, left, requests, worked, tail, stopped, silent, window, quiet, ended>>

\* next() yields nothing more: the driver drained, or cut what was left.
Drained == stopped /\ Over("Drained")
PeerCloses == at = "Serving" /\ Over("Peer")
Forgotten == at = "Serving" /\ silent >= Idle /\ Over("Forgotten")

\* SendWindow::tune; `elsewhere`: bytes went over another path than the first.
Low(target) == target = MinWindow /\ window.limit # MinWindow
Widened(target, pressed) == target - window.limit >= Step /\ ~pressed
Tune(elsewhere, target, pressed) ==
    IF Running = {} THEN NoWindow
    ELSE IF elsewhere THEN [window EXCEPT !.last = FALSE, !.low = Off]
    ELSE IF ~window.last THEN [window EXCEPT !.last = TRUE]
    ELSE IF Low(target)
    THEN IF window.low >= Shrink THEN [NoWindow EXCEPT !.last = TRUE]
         ELSE [window EXCEPT !.low = @ + 1]
    ELSE [window EXCEPT !.low = Off, !.limit = IF Widened(target, pressed) THEN target ELSE @]

\* Worked::idle, asked at a tick.
Worked ==
    IF Running # {} \/ tail # worked.unacked THEN [age |-> 0, unacked |-> tail] ELSE [worked EXCEPT !.age = @ + 1]

Later(t, most) == IF t \in 0..(most - 1) THEN t + 1 ELSE t
Sooner(t) == IF t > 0 THEN t - 1 ELSE t

\* The tick: the window is tuned, then the time without work decides.
Tuning(elsewhere, target, pressed) ==
    /\ quiet' = IF Running # {} THEN 0 ELSE Later(quiet, Unasked + 1)
    /\ silent' = Later(silent, Idle)
    /\ requests' = IF Worked.age >= Unasked THEN [r \in Requests |-> NoRequest]
                   ELSE [r \in Requests |-> [requests[r] EXCEPT !.left = Sooner(@)]]
    /\ IF Worked.age >= Unasked
       THEN /\ at' = "Over" /\ ended' = "Unasked" /\ holds' = {} /\ tail' = 0 /\ stopped' = FALSE
            /\ worked' = NotWorked /\ window' = NoWindow /\ UNCHANGED noticed
       ELSE /\ worked' = Worked /\ window' = Tune(elsewhere, target, pressed)
            /\ noticed' = IF noticed = Off THEN IF Worked.age >= Quiet THEN 0 ELSE Off ELSE Later(noticed, Idle)
            /\ UNCHANGED <<at, holds, tail, stopped, ended>>
    /\ UNCHANGED left

\* Nothing that is due is passed over: an exchange's bound, noq's idle timeout.
Tick ==
    \/ /\ at = "Handshake" /\ left > 0 /\ left' = left - 1
       /\ UNCHANGED <<at, holds, requests, worked, tail, stopped, silent, window, quiet, noticed, ended>>
    \/ /\ at = "Serving" /\ silent < Idle /\ \A r \in Requests : requests[r].left # 0
       /\ \E elsewhere, pressed \in BOOLEAN, target \in MinWindow..MaxWindow : Tuning(elsewhere, target, pressed)

Next ==
    \/ \E validated, crowded, quota, fits \in BOOLEAN :
         Retry(validated, crowded, quota) \/ Accept(validated, crowded, quota, fits)
    \/ Connected \/ HandshakeFails
    \/ \E r \in Requests : Admit(r) \/ Reply(r) \/ RequestEnds(r) \/ \E large \in BOOLEAN : Arrives(r, large)
    \/ Acknowledge \/ Ping \/ Stop \/ Retire \/ Drained \/ PeerCloses \/ Forgotten \/ Tick

Spec == Init /\ [][Next]_vars

(***************************************************************************)
(* Properties.                                                             *)
(***************************************************************************)
\* serve closes a connection that did no work for UNASKED however its peer
\* keeps it alive, and never one that ran a request or moved a reply byte
\* within that time (the unacknowledged bytes are only sampled at ticks).
QuietEnds ==
    /\ at = "Serving" => quiet <= Unasked
    /\ ended = "Unasked" => quiet >= Unasked

\* A connection that noq's idle bound forgets after that long without work
\* was retired at least a tick before: its peer was told to send no more.
ForgottenRetired == ended = "Forgotten" /\ quiet >= Idle => noticed >= Idle - Quiet - 1

\* A handshake's hold is returned whichever way the handshake goes, the
\* shard's occupant and the floor with the connection, and the send window's
\* raise by the first tick without a request.
HoldsReturned ==
    /\ "handshake" \in holds <=> at = "Handshake"
    /\ {"occupant", "floor"} \subseteq holds <=> at \in {"Handshake", "Serving"}
    /\ worked.age > 0 => window = NoWindow
==============================================================================
