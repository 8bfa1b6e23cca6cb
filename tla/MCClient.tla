------------------------------ MODULE MCClient -------------------------------
(***************************************************************************)
(* The terminal client for TLC, part by part. Its network side: control    *)
(* connections, one lane's retries, a group of two lanes, an upload's      *)
(* receivers over two stages, and the wait for a sign-in; the lane alone   *)
(* has every fault and the longer window, the group two of the faults, the *)
(* carriers that lanes share and a window of one step. Its operations: a   *)
(* chain of two with three clients, and a lease request that may outlast   *)
(* the grace of a stopped operation (10 s and 5 s in the code, and 1 s for *)
(* a lease's end). Its console, in five uses: a run key held while a run   *)
(* comes and goes; tests started, stopped and quit over a chain of three   *)
(* operations; settings changed while a test prepares and runs; an address *)
(* and its test servers chosen with the pointer; the settings and their    *)
(* reset. Each is explored on its own: the operations rest in their        *)
(* initial state and the variables of the other parts out of focus hold    *)
(* Nothing.                                                                *)
(***************************************************************************)
EXTENDS Controller, Integers, TLC

CONSTANTS c1, c2, c3, x1, x2

VARIABLES
    focus,
    via, connectionsConns, shared, idle, dialing, exclusive, proof, requests,
    plan, lanesOfConns, slot, lanes, tally,
    session, replaced, uploads, replacements,
    left, poll, unreachable, outcome, seen,
    tuiOps, pc, tuiEvents, app, shown, hold, again

Plans == [carrier : {"Single", "Shared", "Session"}, work : {"Download", "Upload"}]
GroupPlans == {p \in Plans : p.carrier # "Single"}

N == INSTANCE ClientConnections WITH
    Requests <- {x1, x2}, Conns <- {c1, c2, c3}, Idle <- 1, Deadline <- 1, conns <- connectionsConns

L == INSTANCE ClientLanes WITH
    Lanes <- {0}, Conns <- {x1, x2}, Plans <- Plans,
    Faults <- {"Lost", "Malformed", "Refused", "Busy", "BusyLong"}, Stagger <- 1, Window <- 4, Quick <- 1,
    BusyFirst <- 1, BusyCap <- 3, ControlTimeout <- 2, conns <- lanesOfConns

G == INSTANCE ClientLanes WITH
    Lanes <- {0, 1}, Conns <- {x1, x2}, Plans <- GroupPlans, Faults <- {"Lost"}, Stagger <- 1,
    Window <- 1, Quick <- 1, BusyFirst <- 1, BusyCap <- 1, ControlTimeout <- 1, conns <- lanesOfConns

U == INSTANCE UploadSession WITH
    Uploads <- 1..3, MaxCount <- 1, Stages <- 2, FinishTime <- 2, StoppedTime <- 1, Budget <- 2,
    CheckpointRetry <- 1

P == INSTANCE SignInPoll WITH
    Lifetime <- 7, Poll <- 2, ControlTimeout <- 3

H == INSTANCE Console WITH
    Configs <- {}, Outcomes <- {"All"}, Errors <- {"Failed"}, MaxOps <- 2, MaxEvents <- 1, Texts <- {},
    Entries <- {"e"}, Others <- {0}, Plain <- 0, Keys <- {"r"}, Rows <- {"None"}, Mouse <- {}, Kept <- {"a"},
    MaxSelected <- 1, Rest <- 1, FirstRepeat <- 2, NextRepeat <- 1, ops <- tuiOps, events <- tuiEvents

T == INSTANCE Console WITH
    Configs <- {}, Outcomes <- {"All"}, Errors <- {"Failed"}, MaxOps <- 3, MaxEvents <- 2, Texts <- {},
    Entries <- {"e"}, Others <- {0}, Plain <- 0, Keys <- {"enter", "esc", "q", "v"}, Rows <- {"None"},
    Mouse <- {}, Kept <- {"a"}, MaxSelected <- 1, Rest <- 1, FirstRepeat <- 0, NextRepeat <- 0, ops <- tuiOps,
    events <- tuiEvents

C == INSTANCE Console WITH
    Configs <- {}, Outcomes <- {"All"}, Errors <- {"Failed"}, MaxOps <- 2, MaxEvents <- 1, Texts <- {},
    Entries <- {"e"}, Others <- {0, 1}, Plain <- 0, Keys <- {"enter", "s", "left"}, Rows <- {"Other"},
    Mouse <- {}, Kept <- {"a"}, MaxSelected <- 1, Rest <- 0, FirstRepeat <- 0, NextRepeat <- 0, ops <- tuiOps,
    events <- tuiEvents

A == INSTANCE Console WITH
    Configs <- {}, Outcomes <- {"All"}, Errors <- {"Unreachable"}, MaxOps <- 1, MaxEvents <- 2,
    Texts <- {"b"}, Entries <- {"e", "f"}, Others <- {0}, Plain <- 0, Keys <- {"tab"},
    Rows <- {"Address", "Servers", "None"},
    Mouse <- {"Server", "Row", "Entry", "Apply", "Cancel", "Backdrop", "Remember"}, Kept <- {"a"},
    MaxSelected <- 1, Rest <- 0, FirstRepeat <- 0, NextRepeat <- 0, ops <- tuiOps, events <- tuiEvents

S == INSTANCE Console WITH
    Configs <- {}, Outcomes <- {"All"}, Errors <- {"Unreachable"}, MaxOps <- 1, MaxEvents <- 2, Texts <- {},
    Entries <- {"e"}, Others <- {0, 1}, Plain <- 0, Keys <- {"s", "left", "d", "?", "1"},
    Rows <- {"Other", "Stage", "Reset"}, Mouse <- {"Close", "Toggle"}, Kept <- {"a"}, MaxSelected <- 1,
    Rest <- 1, FirstRepeat <- 0, NextRepeat <- 0, ops <- tuiOps, events <- tuiEvents

connections == <<via, connectionsConns, shared, idle, dialing, exclusive, proof, requests>>
lanesOf == <<plan, lanesOfConns, slot, lanes, tally>>
receivers == <<session, replaced, uploads, replacements>>
approval == <<left, poll, unreachable, outcome, seen>>
tui == <<tuiOps, pc, tuiEvents, app, shown, hold, again>>

NoConnections ==
    /\ via = "Nothing" /\ connectionsConns = "Nothing" /\ shared = "Nothing" /\ idle = "Nothing"
    /\ dialing = "Nothing" /\ exclusive = "Nothing" /\ proof = "Nothing" /\ requests = "Nothing"

NoLanesOf ==
    /\ plan = "Nothing" /\ lanesOfConns = "Nothing" /\ slot = "Nothing" /\ lanes = "Nothing" /\ tally = "Nothing"

NoReceivers ==
    /\ session = "Nothing" /\ replaced = "Nothing" /\ uploads = "Nothing" /\ replacements = "Nothing"

NoApproval ==
    /\ left = "Nothing" /\ poll = "Nothing" /\ unreachable = "Nothing" /\ outcome = "Nothing" /\ seen = "Nothing"

NoTui ==
    /\ tuiOps = "Nothing" /\ pc = "Nothing" /\ tuiEvents = "Nothing" /\ app = "Nothing" /\ shown = "Nothing"
    /\ hold = "Nothing" /\ again = "Nothing"

MCInit ==
    \/ /\ focus = "connections" /\ N!Init
       /\ NoLanesOf /\ NoReceivers /\ NoApproval /\ Init /\ NoTui
    \/ /\ focus = "lane" /\ L!Init
       /\ NoConnections /\ NoReceivers /\ NoApproval /\ Init /\ NoTui
    \/ /\ focus = "group" /\ G!Init
       /\ NoConnections /\ NoReceivers /\ NoApproval /\ Init /\ NoTui
    \/ /\ focus = "upload" /\ U!Init
       /\ NoConnections /\ NoLanesOf /\ NoApproval /\ Init /\ NoTui
    \/ /\ focus = "approval" /\ P!Init
       /\ NoConnections /\ NoLanesOf /\ NoReceivers /\ Init /\ NoTui
    \/ /\ focus = "operations" /\ Init
       /\ NoConnections /\ NoLanesOf /\ NoReceivers /\ NoApproval /\ NoTui
    \/ /\ focus = "held" /\ H!ConsoleInit
       /\ NoConnections /\ NoLanesOf /\ NoReceivers /\ NoApproval /\ Init
    \/ /\ focus = "tests" /\ T!ConsoleInit
       /\ NoConnections /\ NoLanesOf /\ NoReceivers /\ NoApproval /\ Init
    \/ /\ focus = "changes" /\ C!ConsoleInit
       /\ NoConnections /\ NoLanesOf /\ NoReceivers /\ NoApproval /\ Init
    \/ /\ focus = "address" /\ A!ConsoleInit
       /\ NoConnections /\ NoLanesOf /\ NoReceivers /\ NoApproval /\ Init
    \/ /\ focus = "settings" /\ S!ConsoleInit
       /\ NoConnections /\ NoLanesOf /\ NoReceivers /\ NoApproval /\ Init

MCNext ==
    \/ focus = "connections" /\ N!Next /\ UNCHANGED <<focus, lanesOf, receivers, approval, vars, tui>>
    \/ focus = "lane" /\ L!Next /\ UNCHANGED <<focus, connections, receivers, approval, vars, tui>>
    \/ focus = "group" /\ G!Next /\ UNCHANGED <<focus, connections, receivers, approval, vars, tui>>
    \/ focus = "upload" /\ U!Next /\ UNCHANGED <<focus, connections, lanesOf, approval, vars, tui>>
    \/ focus = "approval" /\ P!Next /\ UNCHANGED <<focus, connections, lanesOf, receivers, vars, tui>>
    \/ focus = "operations" /\ Next /\ UNCHANGED <<focus, connections, lanesOf, receivers, approval, tui>>
    \/ focus = "held" /\ H!ConsoleNext /\ UNCHANGED <<focus, connections, lanesOf, receivers, approval, vars>>
    \/ focus = "tests" /\ T!ConsoleNext /\ UNCHANGED <<focus, connections, lanesOf, receivers, approval, vars>>
    \/ focus = "changes" /\ C!ConsoleNext /\ UNCHANGED <<focus, connections, lanesOf, receivers, approval, vars>>
    \/ focus = "address" /\ A!ConsoleNext /\ UNCHANGED <<focus, connections, lanesOf, receivers, approval, vars>>
    \/ focus = "settings" /\ S!ConsoleNext /\ UNCHANGED <<focus, connections, lanesOf, receivers, approval, vars>>

MCvars == <<focus, connections, lanesOf, receivers, approval, vars, tui>>

MCSpec == MCInit /\ [][MCNext]_MCvars

Symmetry == Permutations({c1, c2, c3}) \union Permutations({x1, x2})

\* A lane is given up only after its redial window, a group shares one usable
\* connection, and readiness counts each lane once: see WindowKept, GroupShares
\* and ReadyExact of ClientLanes.  A request is sent again only where that is safe,
\* alone on its HTTP/1.1 connection, and has its outcome by its deadline: see
\* DeliveredOnce, CarriesOne and AnswersInTime of ClientConnections.  A receiver is
\* replaced once per run, one upload sends at a time, and a sign-in ends as its last
\* poll said: see ReplacedOnce and OneSends of UploadSession, and LastPollTold of
\* SignInPoll.
LanesSound ==
    /\ focus = "lane" => L!WindowKept /\ L!GroupShares /\ L!ReadyExact
    /\ focus = "group" => G!WindowKept /\ G!GroupShares /\ G!ReadyExact
    /\ focus = "connections" => N!DeliveredOnce /\ N!CarriesOne /\ N!AnswersInTime
    /\ focus = "upload" => U!ReplacedOnce /\ U!OneSends
    /\ focus = "approval" => P!LastPollTold

\* A held key, a quit and the end of every operation leave the console as they
\* should: see HeldKeyHolds, QuitEnds and ViewSettles of Console.  Without a run,
\* every change of the settings is checked: see ChangesRechecked.
ConsoleSettles ==
    /\ focus = "held" => H!HeldKeyHolds /\ H!QuitEnds /\ H!ViewSettles
    /\ focus = "tests" => T!QuitEnds /\ T!ViewSettles
    /\ focus = "address" => A!ViewSettles /\ A!ChangesRechecked
    /\ focus = "settings" => S!ViewSettles /\ S!ChangesRechecked

\* A due check replaces no run, a late failure retires no newer connection, and a
\* late record takes no count back: see ChecksSpareRuns of Console, NewerStands of
\* ClientConnections and ProgressForward of UploadSession.
StaleIgnored ==
    [][/\ focus = "held" => H!ChecksSpareRuns
       /\ focus = "tests" => T!ChecksSpareRuns
       /\ focus = "changes" => C!ChecksSpareRuns
       /\ focus = "connections" => N!NewerStands
       /\ focus = "upload" => U!ProgressForward]_MCvars
==============================================================================
