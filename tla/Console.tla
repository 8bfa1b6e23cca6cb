------------------------------- MODULE Console -------------------------------
(***************************************************************************)
(* The terminal client's console (rust/client/src/tui/mod.rs, keys.rs,     *)
(* settings.rs, dialogs.rs, paths.rs, terminal.rs): what keys, clicks,     *)
(* signals, the frame clock and the controller's events make of the sheet  *)
(* that is open, the address, the pending check, the run and the quitting. *)
(*                                                                         *)
(* app is the App; an input maps it to the next one and an effect.  config *)
(* is what a check depends on.  Timers hold the time they have left, ages  *)
(* the time that passed.  Typing abstracts to what the text would parse to.*)
(***************************************************************************)
EXTENDS Operations, FiniteSets

CONSTANTS
    Texts,          \* what is typed or pasted: addresses, or None for what is none
    Entries,        \* a catalog's test servers
    Others,         \* values of the other settings a check depends on; one is Plain
    Plain,          \* their default
    Keys,           \* the keys pressed
    Rows,           \* the settings rows used
    Mouse,          \* what is clicked
    Kept,           \* the addresses the client may start with
    MaxSelected,    \* test servers in one test
    Rest,           \* RECHECK, how long settings rest before their check
    FirstRepeat,    \* FIRST_REPEAT and NEXT_REPEAT, by when a held key's press repeats
    NextRepeat

VARIABLES
    app,        \* the console
    shown,      \* the sheet the last frame drew, which clicks go by
    hold,       \* the run key the user's finger is on: [key, since, repeated, done]
    again       \* whether an operation reported its run's end a second time

consoleVars == <<ops, pc, events, app, shown, hold, again>>
opVars == <<ops, pc, events>>

Off == -1
Sooner(left) == IF left > 0 THEN left - 1 ELSE left
Later(age) == IF age < FirstRepeat THEN age + 1 ELSE age

Unheld == [key |-> None, did |-> None, age |-> 0, repeated |-> FALSE]
Untouched == [key |-> None, since |-> 0, repeated |-> FALSE, done |-> {}]

App(url, kept) ==
    [overlay |-> IF url = None THEN "Connect" ELSE "None", typed |-> None, resetting |-> FALSE, draft |-> {},
     config |-> [url |-> url, servers |-> {}, other |-> Plain, staged |-> TRUE],
     asked |-> {}, recheck |-> IF url = None THEN Off ELSE 0, chooser |-> FALSE,
     remembering |-> kept # None, kept |-> kept,
     held |-> Unheld, releases |-> FALSE, stopping |-> FALSE, quitting |-> FALSE, interrupted |-> FALSE,
     check |-> "Idle", paths |-> None, signIn |-> FALSE, run |-> None, starting |-> FALSE, refused |-> FALSE,
     left |-> FALSE]

Left == [App(None, None) EXCEPT !.left = TRUE]

ConsoleInit ==
    /\ Init /\ hold = Untouched /\ again = FALSE
    /\ \E kept \in Kept, url \in Kept :
          /\ app = App(IF url = None THEN kept ELSE url, kept)
          /\ shown = app.overlay

(***************************************************************************)
(* The app's methods.  One that has an effect returns it with the app.     *)
(***************************************************************************)
\* A sheet takes what was typed, drafted or asked on it along.
Tidied(a) ==
    [a EXCEPT !.resetting = @ /\ a.overlay = "Settings", !.draft = IF a.overlay = "Chooser" THEN @ ELSE {},
              !.typed = IF a.overlay \in {"Connect", "Editor"} THEN @ ELSE None]

Quietly(a) == [app |-> Tidied(a), effect |-> None]
With(a, effect) == [app |-> Tidied(a), effect |-> effect]

Running(a) == a.starting \/ a.run = "Going"
Checking(a) == a.recheck # Off \/ a.check = "Checking"
Editing(a) == a.overlay \in {"Connect", "Editor"}

AskForServer(a) == [a EXCEPT !.overlay = "Connect", !.typed = a.config.url]
RecheckSoon(a) == [a EXCEPT !.recheck = IF a.config.url = None THEN Off ELSE Rest]

\* A change to what a check depends on rechecks the paths.
Configured(a, config) ==
    LET b == [a EXCEPT !.config = config]
    IN IF config # a.config THEN RecheckSoon(b) ELSE b

Remember(a, on) ==
    LET b == [a EXCEPT !.remembering = on]
    IN IF on = a.remembering THEN Quietly(a)
       ELSE IF ~on THEN With([b EXCEPT !.kept = None], "Forget")
       ELSE IF a.check = "Ready" /\ a.config.url # None
            THEN With([b EXCEPT !.kept = a.config.url], "Remember") ELSE Quietly(b)

\* The chooser opens over the catalog, or once the check in progress brings it.
OpenChooser(a) ==
    LET selected == IF a.config.servers = {} THEN Entries ELSE a.config.servers
    IN IF Checking(a) THEN [a EXCEPT !.chooser = TRUE]
       ELSE IF a.paths = None THEN [RecheckSoon(a) EXCEPT !.chooser = TRUE]
       ELSE IF Cardinality(Entries) = 1 THEN [a EXCEPT !.chooser = FALSE]
       ELSE [a EXCEPT !.overlay = "Chooser", !.draft = selected, !.chooser = FALSE]

Stop(a) ==
    IF ~Running(a) \/ a.stopping THEN Quietly(a) ELSE With([a EXCEPT !.stopping = TRUE], "Stop")

QuitSilently(a) ==
    IF ~Running(a) THEN With(a, "Quit")
    ELSE IF a.quitting THEN Quietly(a)
    ELSE Quietly([a EXCEPT !.quitting = TRUE, !.overlay = "None"])
Quit(a) ==
    IF ~Running(a) THEN With(a, "Quit")
    ELSE IF a.quitting THEN Quietly(a)
    ELSE Stop([a EXCEPT !.quitting = TRUE, !.overlay = "None"])

\* Ctrl+C, or a signal: like q, and at once while quitting.
Interrupt(a) ==
    IF ~Running(a) THEN With(a, "Quit")
    ELSE LET b == [a EXCEPT !.interrupted = TRUE] IN IF a.quitting THEN With(b, "Quit") ELSE Quit(b)

Start(a) ==
    IF a.config.url = None THEN Quietly(AskForServer(a))
    ELSE IF ~a.config.staged THEN Quietly(a)
    ELSE With([a EXCEPT !.recheck = Off, !.asked = {a.config}, !.overlay = "None", !.stopping = FALSE,
                        !.starting = TRUE], "Run")

(***************************************************************************)
(* The controller's events.                                                *)
(***************************************************************************)
\* Whether the address is to blame: its check, or every path, could not reach it.
AddressFailed(a) ==
    IF a.check \in {"Failed", "Unreachable"} THEN a.check = "Unreachable" ELSE a.paths = "Unreachable"

Unreachable(a) ==
    IF ~Running(a) /\ AddressFailed(a) /\ a.overlay = "None" /\ a.config.url # None
    THEN AskForServer(a) ELSE a

\* Only the check asked for last, for the settings as they are.
PreparedEvent(a, outcome) ==
    LET taken == [a EXCEPT !.check = "Ready", !.paths = outcome]
        opened == IF a.chooser THEN OpenChooser([taken EXCEPT !.chooser = FALSE]) ELSE taken
        current == a.asked = {a.config}
        closed == IF current /\ opened.overlay = "Connect" /\ outcome \in {"All", "Some"}
                  THEN [opened EXCEPT !.overlay = "None"] ELSE opened
        asked == IF current THEN Unreachable(closed) ELSE closed
    IN IF current /\ outcome = "All" /\ a.remembering /\ a.config.url # a.kept
       THEN With([asked EXCEPT !.kept = a.config.url], "Remember") ELSE Quietly(asked)

CheckFailedEvent(a, error) ==
    Unreachable([a EXCEPT !.chooser = FALSE,
                          !.check = IF @ # "Checking" THEN @ ELSE IF error = "SignIn" THEN "Failed" ELSE error])

SignInEndedEvent(a, end) ==
    [a EXCEPT !.signIn = FALSE, !.overlay = IF @ = "SignIn" THEN "None" ELSE @,
              !.check = IF @ = "Checking" /\ end \in {"Canceled", "Expired"} THEN "SignIn" ELSE @]

\* Of a run refused at its start while an earlier one is shown, else of the one shown.
RunFinishedEvent(a, error) ==
    LET earlier == a.starting /\ a.run # None
        run == IF earlier THEN a.run ELSE IF a.run \in {"Going", "Ended"} THEN "Ended" ELSE "Unstarted"
        refused == a.refused \/ earlier
        unreported == refused \/ run = "Unstarted" \/ error = "SignIn"
        b == [a EXCEPT !.starting = FALSE, !.run = run, !.refused = refused, !.stopping = FALSE,
                       !.recheck = IF ~unreported THEN @ ELSE IF error = None THEN Off ELSE Rest]
    IN With(b, IF a.quitting THEN "Quit" ELSE None)

Received(a, event) ==
    CASE event.name = "CheckingRun" -> Quietly([a EXCEPT !.starting = TRUE, !.refused = FALSE])
      [] event.name = "CheckingCheck" -> Quietly([a EXCEPT !.check = "Checking"])
      [] event.name = "Prepared" -> PreparedEvent(a, event.with)
      [] event.name = "CheckFailed" -> Quietly(CheckFailedEvent(a, event.with))
      [] event.name = "SignIn" -> Quietly([a EXCEPT !.signIn = TRUE, !.overlay = "SignIn"])
      [] event.name = "SignInEnded" -> Quietly(SignInEndedEvent(a, event.with))
      [] event.name = "RunStarted" -> Quietly([a EXCEPT !.run = "Going", !.starting = FALSE, !.stopping = FALSE])
      [] event.name = "RunFinished" -> RunFinishedEvent(a, event.with)

(***************************************************************************)
(* Keys.  The tables bind them; a sheet's own come before act's.           *)
(***************************************************************************)
Everywhere == {<<"q", "Quit">>, <<"ctrl+c", "Abort">>}
Sheet == Everywhere \cup {<<"esc", "Close">>, <<"?", "Help">>}

Table(overlay) ==
    CASE overlay = "None" ->
           Everywhere \cup {<<"enter", "Start">>, <<"space", "Start">>, <<"r", "Start">>,
              <<"esc", "Stop">>, <<"space", "Stop">>, <<"r", "Stop">>, <<"s", "Settings">>,
              <<"d", "Details">>, <<"1", "Stage">>, <<"v", "Recheck">>, <<"?", "Help">>}
      [] overlay = "Settings" ->
           Sheet \cup {<<"tab", "Move">>, <<"left", "Adjust">>, <<"space", "Toggle">>, <<"enter", "Open">>,
                       <<"r", "Start">>, <<"r", "Stop">>, <<"s", "Close">>}
      [] overlay = "Details" -> Sheet \cup {<<"d", "Close">>}
      [] overlay = "Help" -> (Sheet \ {<<"?", "Help">>}) \cup {<<"?", "Close">>}
      [] overlay = "Chooser" ->
           Everywhere \cup {<<"space", "Select">>, <<"enter", "Apply">>, <<"esc", "Cancel">>}
      [] overlay = "SignIn" -> Everywhere \cup {<<"enter", "Browse">>, <<"esc", "Cancel">>}

Offers(a, action) ==
    CASE action = "Stop" -> Running(a)
      [] action \in {"Start", "Stage"} -> ~Running(a)
      [] action = "Recheck" -> a.config.url # None /\ ~Running(a)
      [] OTHER -> TRUE

Find(a, key) == {action \in {b[2] : b \in {b \in Table(a.overlay) : b[1] = key}} : Offers(a, action)}

Switched(a) == IF Running(a) THEN a ELSE Configured(a, [a.config EXCEPT !.staged = ~@])

\* The settings sheet's row; a reset asks twice, with nothing in between.
SettingsKey(a, action, row, other) ==
    LET b == [a EXCEPT !.resetting = FALSE]
    IN CASE action = "Move" -> Quietly(b)
         [] row = "Remember" -> Remember(b, ~a.remembering)
         [] row = "Other" -> Quietly(Configured(b, [a.config EXCEPT !.other = other]))
         [] row = "Stage" /\ action = "Toggle" -> Quietly(Configured(b, [a.config EXCEPT !.staged = ~@]))
         [] row = "Servers" /\ action # "Adjust" -> Quietly(OpenChooser(b))
         [] row = "Address" /\ action # "Adjust" ->
              Quietly(IF a.overlay \in {"Settings", "Editor"}
                      THEN [b EXCEPT !.overlay = "Editor", !.typed = a.config.url] ELSE b)
         [] row = "Reset" /\ action # "Adjust" ->
              Quietly(IF a.resetting THEN Configured(b, [a.config EXCEPT !.other = Plain, !.staged = TRUE])
                      ELSE [a EXCEPT !.resetting = TRUE])
         [] OTHER -> Quietly(b)

ChooserKey(a, action, entry) ==
    CASE action = "Select" ->
           IF entry \in a.draft THEN [a EXCEPT !.draft = @ \ {entry}]
           ELSE IF Cardinality(a.draft) < MaxSelected THEN [a EXCEPT !.draft = @ \cup {entry}] ELSE a
      [] action = "Apply" ->
           [RecheckSoon([a EXCEPT !.config.servers = a.draft]) EXCEPT !.overlay = "Settings"]
      [] action = "Cancel" -> [a EXCEPT !.overlay = "Settings"]
      [] OTHER -> a

\* Cancelling a sign-in stops whatever asked for it.
SignInKey(a, action) ==
    IF ~a.signIn \/ action # "Cancel" THEN Quietly(a)
    ELSE With([a EXCEPT !.overlay = "None", !.stopping = Running(a)], "Stop")

Act(a, action, row, other, entry) ==
    CASE action = "Quit" -> Quit(a)
      [] action = "Abort" -> Interrupt(a)
      [] action = "Help" -> Quietly([a EXCEPT !.overlay = IF @ = "Help" THEN "None" ELSE "Help"])
      [] action = "Settings" -> Quietly([a EXCEPT !.overlay = "Settings", !.resetting = FALSE])
      [] action = "Details" -> Quietly([a EXCEPT !.overlay = "Details"])
      [] action = "Close" /\ a.overlay \in {"Settings", "Details", "Help", "Chooser"} ->
           Quietly([a EXCEPT !.overlay = IF @ = "Chooser" THEN "Settings" ELSE "None"])
      [] action = "Start" -> Start(a)
      [] action = "Stop" -> Stop(a)
      [] action = "Stage" -> Quietly(Switched(a))
      [] action = "Recheck" -> Quietly(RecheckSoon(a))
      [] a.overlay = "Settings" -> SettingsKey(a, action, row, other)
      [] a.overlay = "Chooser" -> Quietly(ChooserKey(a, action, entry))
      [] a.overlay = "SignIn" -> SignInKey(a, action)
      [] OTHER -> Quietly(a)

\* Another address takes no test servers of the one before.
Addressed(config, url) ==
    IF config.url = url THEN config ELSE [config EXCEPT !.url = url, !.servers = {}]

\* An applied address is checked at once on its card, which stays until it prepared.
Apply(a) ==
    LET config == Addressed(a.config, a.typed)
    IN IF a.typed = None THEN a
       ELSE IF a.overlay = "Connect" THEN [a EXCEPT !.config = config, !.recheck = 0]
       ELSE Configured([a EXCEPT !.overlay = "Settings"], config)

EditKey(a, key) ==
    CASE key = "tab" /\ a.overlay = "Connect" -> Remember(a, ~a.remembering)
      [] key = "ctrl+c" -> Interrupt(a)
      [] key = "esc" -> Quietly([a EXCEPT !.overlay = IF @ = "Connect" THEN "None" ELSE "Settings"])
      [] key = "enter" -> Quietly(Apply(a))
      [] OTHER -> Quietly(a)

\* A held key's repeat comes within a gap, shorter after the first unless releases are told.
Repeats(a, key, toggle) ==
    /\ a.held.key = key /\ a.held.did # toggle
    /\ a.held.age < IF a.held.repeated /\ ~a.releases THEN NextRepeat ELSE FirstRepeat

Pressed(a, key, row, other, entry) ==
    LET actions == Find(a, key)
        action == CHOOSE found \in actions : TRUE
        begun == [a EXCEPT !.held = [key |-> key, did |-> action, age |-> 0, repeated |-> FALSE]]
    IN IF Editing(a) THEN EditKey(a, key)
       ELSE IF actions = {} THEN Quietly(a)
       ELSE IF action \notin {"Start", "Stop"} THEN Act(a, action, row, other, entry)
       ELSE IF Repeats(a, key, action)
            THEN Quietly([a EXCEPT !.held = [@ EXCEPT !.age = 0, !.repeated = TRUE]])
       ELSE Act(begun, action, row, other, entry)

(***************************************************************************)
(* Clicks: on what the last frame drew, which a key or an event may since  *)
(* have covered.                                                           *)
(***************************************************************************)
Targets(overlay) ==
    CASE overlay = "None" -> {"Key", "Chip", "Server", "Start", "Stop", "Settings", "Details", "Help"}
      [] overlay = "Connect" -> {"Remember", "Backdrop", "Apply", "Cancel"}
      [] overlay = "Settings" -> {"Row", "Close", "Backdrop", "Adjust", "Toggle", "Open"}
      [] overlay = "Editor" -> {"Row", "Close", "Backdrop", "Apply", "Cancel"}
      [] overlay = "Chooser" -> {"Entry", "Close", "Backdrop", "Select", "Apply", "Cancel"}
      [] overlay = "SignIn" -> {"Link", "Backdrop", "Cancel"}
      [] OTHER -> {"Close", "Backdrop"}

\* A row's first click focuses it.  What is left over is the cap of a key, which
\* in the editor does what the key does there, or leaves it.
Clicked(a, target, row, other, entry) ==
    LET b == [a EXCEPT !.held = Unheld]
    IN CASE target = "Key" -> IF Running(a) THEN Stop(b) ELSE Start(b)
         [] target = "Chip" -> Quietly(Switched(a))
         [] target = "Server" -> Quietly([a EXCEPT !.overlay = "Settings", !.resetting = FALSE])
         [] target = "Row" ->
              IF row = None THEN Quietly([a EXCEPT !.resetting = FALSE]) ELSE SettingsKey(a, "Toggle", row, other)
         [] target = "Entry" -> Quietly(IF a.overlay = "Chooser" THEN ChooserKey(a, "Select", entry) ELSE a)
         [] target = "Link" -> Quietly(a)
         [] target = "Remember" -> Remember(a, ~a.remembering)
         [] target = "Backdrop" -> Quietly(IF a.overlay = "SignIn" THEN a ELSE [a EXCEPT !.overlay = "None"])
         [] target = "Apply" /\ Editing(a) -> EditKey(a, "enter")
         [] target = "Cancel" /\ Editing(a) -> EditKey(a, "esc")
         [] OTHER -> Act([a EXCEPT !.overlay = IF @ = "Editor" THEN "Settings" ELSE @], target, row, other, entry)

(***************************************************************************)
(* The loop: one input at a time, and what it asks the controller for.     *)
(***************************************************************************)
Takes(result) ==
    IF result.effect = "Quit"
    THEN app' = Left /\ ops' = <<>> /\ pc' = "Waiting" /\ events' = <<>>
    ELSE /\ app' = result.app
         /\ CASE result.effect \in {"Check", "Run"} -> Launch(result.effect, result.app.config)
              [] result.effect = "Stop" -> StopCommand
              [] OTHER -> UNCHANGED opVars

\* What the finger on a run key did to the run; a sheet that takes the key starts over.
Held(key, result, held, repeated) ==
    IF Editing(app) \/ result.effect = "Quit" \/ key \notin {"r", "space"} \/ Find(app, key) \cap {"Start", "Stop"} = {}
    THEN Untouched
    ELSE [key |-> key, since |-> 0, repeated |-> repeated,
          done |-> held \cup ({result.effect} \cap {"Run", "Stop"})]

\* The loop paints after every input and signal; events wait for the next frame.
Paints == shown' = IF Mouse = {} THEN shown ELSE app'.overlay

Press(key) ==
    /\ ~app.left /\ hold.key # key
    /\ \E row \in Rows, other \in Others, entry \in Entries :
          LET result == Pressed(app, key, row, other, entry)
          IN Takes(result) /\ hold' = Held(key, result, {}, FALSE)
    /\ Paints /\ UNCHANGED again

\* A terminal repeats a held key until another is pressed or it is let go.
Repeat ==
    /\ hold # Untouched /\ hold.since < IF hold.repeated THEN NextRepeat ELSE FirstRepeat
    /\ \E row \in Rows, other \in Others, entry \in Entries :
          LET result == Pressed(app, hold.key, row, other, entry)
          IN Takes(result) /\ hold' = Held(hold.key, result, hold.done, TRUE)
    /\ Paints /\ UNCHANGED again

\* Some terminals tell of a release.
Release ==
    /\ hold # Untouched /\ hold' = Untouched
    /\ \/ UNCHANGED app
       \/ app' = [app EXCEPT !.releases = TRUE,
                             !.held = IF @.key = hold.key THEN Unheld ELSE @]
    /\ Paints /\ UNCHANGED <<opVars, again>>

\* Text typed or pasted; a paste over the idle console is an address.
Type ==
    /\ ~app.left
    /\ LET asked == IF app.overlay = "None" /\ ~Running(app) THEN AskForServer(app) ELSE app
       IN /\ Editing(asked)
          /\ \E text \in Texts : app' = Tidied([asked EXCEPT !.typed = text])
    /\ hold' = Untouched /\ Paints /\ UNCHANGED <<opVars, again>>

Click ==
    /\ ~app.left /\ hold' = Untouched
    /\ \E target \in Targets(shown) \cap Mouse, row \in Rows, other \in Others, entry \in Entries :
          Takes(Clicked(app, target, row, other, entry))
    /\ Paints /\ UNCHANGED again

Signal == ~app.left /\ Takes(Interrupt(app)) /\ hold' = Untouched /\ Paints /\ UNCHANGED again

Receive ==
    /\ events # <<>>
    /\ LET event == Head(events)
           result == Received(app, event)
       IN /\ app' = IF result.effect = "Quit" THEN Left ELSE result.app
          /\ IF result.effect = "Quit" THEN ops' = <<>> /\ pc' = "Waiting" /\ events' = <<>> /\ hold' = Untouched
             ELSE Taken /\ UNCHANGED hold
    /\ UNCHANGED <<shown, again>>

\* A check waits for the run to end: the newest operation would replace the run.
Due(a) == a.recheck = 0 /\ ~Running(a)

Frame ==
    /\ ~app.left /\ UNCHANGED <<hold, again>>
    /\ LET result == IF Due(app) THEN With([app EXCEPT !.recheck = Off, !.asked = {app.config}], "Check")
                     ELSE Quietly(app)
       IN Takes(result) /\ Paints
    /\ Due(app) \/ shown' # shown

Operate == Works /\ again' = (again \/ (pc = "Ending" /\ events' # events)) /\ UNCHANGED <<app, shown, hold>>

\* A held key repeats before its gap is over.
Tick ==
    /\ ~app.left
    /\ hold # Untouched => hold.since + 1 < IF hold.repeated THEN NextRepeat ELSE FirstRepeat
    /\ app' = [app EXCEPT !.recheck = Sooner(@), !.held = IF @ = Unheld THEN @ ELSE [@ EXCEPT !.age = Later(@)]]
    /\ hold' = IF hold = Untouched THEN hold ELSE [hold EXCEPT !.since = @ + 1]
    /\ <<app, hold>>' # <<app, hold>>
    /\ UNCHANGED <<opVars, shown, again>>

ConsoleNext ==
    \/ \E key \in Keys : Press(key)
    \/ Repeat \/ Release \/ Type \/ Click \/ Signal \/ Receive \/ Frame \/ Operate \/ Tick

ConsoleSpec == ConsoleInit /\ [][ConsoleNext]_consoleVars

(***************************************************************************)
(* Properties.                                                             *)
(***************************************************************************)
\* A held run key never stops the test it started nor starts again the one it
\* stopped, however its repeats fall among the run's events, while no card opens
\* over the console and takes some of the repeats.
HeldKeyHolds == ~({"Run", "Stop"} \subseteq hold.done)

Settled == events = <<>> /\ \A i \in DOMAIN ops : ops[i].done

\* Once every operation has ended and the console took their events, it shows no
\* run starting or going on, no sign-in and nothing stopping, whatever was pressed.
ViewSettles == Settled => ~Running(app) /\ ~app.signIn /\ app.overlay # "SignIn" /\ ~app.stopping

\* While the console quits, the run it waits for has been told to stop or has sent
\* its end, so the quit never waits for a test to run its course.
QuitEnds ==
    app.quitting =>
        \/ \E i \in DOMAIN ops : ops[i].kind = "Run" /\ ops[i].stop /\ ~ops[i].done
        \/ \E i \in DOMAIN events : events[i].name = "RunFinished"

\* A check the settings make due never replaces a run that goes on, unless an
\* earlier run's end was reported twice.
ChecksSpareRuns ==
    Frame /\ Due(app) => again \/ \A i \in DOMAIN ops : ops[i].kind = "Run" => ops[i].stop \/ ops[i].done \/ (i = 1 /\ pc = "Ending")

\* The console says the paths are being checked only while they are, or will be.
CheckingIsChecking == Settled => app.check # "Checking" \/ app.recheck # Off

\* A change to what a check depends on rechecks the paths.
ChangesRechecked == app.config.url # None /\ app.asked # {app.config} => app.recheck # Off
==============================================================================
