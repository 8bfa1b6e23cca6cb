------------------------------- MODULE SignIns -------------------------------
(***************************************************************************)
(* The server's sign-ins (rust/server/src/auth/): the store of logins and  *)
(* grants with its approvals (store.rs, approval.rs), the routes that      *)
(* change it (routes.rs) and the OIDC transactions that lead to a login    *)
(* (oidc.rs).  The store has one lock; a handler that takes it twice, or   *)
(* awaits between, is a task with a step for each.  A challenge is a       *)
(* terminal's or a browser's.  Timers hold the time they have left.        *)
(***************************************************************************)
EXTENDS Integers, FiniteSets

CONSTANTS
    Principals, Challenges, Browsers, \* Browsers: the challenges a browser asks with
    States,                 \* OIDC transactions under way at once
    Tasks,                  \* requests to the controller's routes
    Lanes,                  \* admitted requests that hold a lease
    Nobody,
    MaxLogins, MaxPrincipalLogins, MaxLoginGrants, MaxApprovals, MaxLoginApprovals,
    MaxSequence,            \* the bound on logins and grants made
    LoginLifetime, ApprovalLifetime, Replay, TransactionLifetime

VARIABLES
    logins,     \* the login map: [principal, left]
    grants,     \* the grant map: [login, browser]
    approvals,  \* the approval map: [stage, login, grant, token, left, replay]
    sequence,   \* what the next login or grant is ordered, and here named, by
    revoked,    \* cancelled tokens; a grant's is its login's child
    transactions, \* the OIDC transactions: [prior, left]
    tasks,      \* [pc, login, challenge, every]
    leases,     \* what each lane's AuthLease holds: [holder, login, left]
    consents    \* approvals given and not yet spent, <<challenge, login>>

vars == <<logins, grants, approvals, sequence, revoked, transactions, tasks, leases,
          consents>>

Idle == [pc |-> "Idle", login |-> Nobody, challenge |-> Nobody, every |-> FALSE]
Unleased == [holder |-> Nobody, login |-> Nobody, left |-> 0]
Sooner(left) == IF left > 0 THEN left - 1 ELSE left
Drop(f, keys) == [k \in DOMAIN f \ keys |-> f[k]]
With(f, k, v) == [x \in DOMAIN f \union {k} |-> IF x = k THEN v ELSE f[x]]

Init ==
    /\ logins = <<>> /\ grants = <<>> /\ approvals = <<>> /\ transactions = <<>>
    /\ sequence = 0 /\ revoked = {} /\ consents = {}
    /\ tasks = [t \in Tasks |-> Idle]
    /\ leases = [n \in Lanes |-> Unleased]

(***************************************************************************)
(* State: what each operation does under the lock.                         *)
(***************************************************************************)
Store == [logins |-> logins, grants |-> grants, approvals |-> approvals, revoked |-> revoked]

Live(s, l) == l \in DOMAIN s.logins /\ s.logins[l].left > 0

Of(s, l) == {g \in DOMAIN s.grants : s.grants[g].login = l}

\* end: the login's grants and approvals go with it, and every token.
End(s, ended) ==
    LET gone == {g \in DOMAIN s.grants : s.grants[g].login \in ended}
    IN [logins |-> Drop(s.logins, ended),
        grants |-> Drop(s.grants, gone),
        approvals |-> Drop(s.approvals, {c \in DOMAIN s.approvals : s.approvals[c].login \in ended}),
        revoked |-> s.revoked \union (ended \intersect DOMAIN s.logins) \union gone]

\* sweep: expired logins and approvals, and answers past their replay.
Sweep(s) ==
    LET ended == End(s, {l \in DOMAIN s.logins : s.logins[l].left = 0})
        forget(a) == IF a.stage = "Issued" /\ a.replay = 0 THEN [a EXCEPT !.token = FALSE] ELSE a
        kept == {c \in DOMAIN ended.approvals : ended.approvals[c].left > 0}
    IN [ended EXCEPT !.approvals = [c \in kept |-> forget(ended.approvals[c])]]

Oldest(keys) == CHOOSE k \in keys : \A x \in keys : k <= x

\* The store as an operation leaves it.  A cancelled token nothing holds and a
\* consent whose approval is gone are forgotten.
Put(s) ==
    /\ logins' = s.logins /\ grants' = s.grants /\ approvals' = s.approvals
    /\ revoked' = s.revoked \intersect (DOMAIN s.grants \union {leases[n].holder : n \in Lanes})

Standing == {k \in consents : k[1] \in DOMAIN approvals' /\ approvals'[k[1]].login = k[2]}

(***************************************************************************)
(* Signing in and out.                                                     *)
(***************************************************************************)
\* sign_in: the principal's oldest login makes room at its cap; none is made
\* where the server is full.
SignInRoom(s, p) ==
    LET held == {l \in DOMAIN s.logins : s.logins[l].principal = p}
    IN IF Cardinality(held) >= MaxPrincipalLogins THEN End(s, {Oldest(held)}) ELSE s

\* establish: the new login, then the prior one's end under a second lock.
Establish(t, p, prior) ==
    LET s == SignInRoom(Sweep(Store), p)
    IN /\ IF Cardinality(DOMAIN s.logins) >= MaxLogins
          THEN /\ Put(s) /\ tasks' = [tasks EXCEPT ![t] = Idle] /\ UNCHANGED sequence
          ELSE /\ sequence < MaxSequence /\ sequence' = sequence + 1
               /\ Put([s EXCEPT !.logins = With(@, sequence,
                     [principal |-> p, left |-> LoginLifetime])])
               /\ tasks' = [tasks EXCEPT ![t] =
                     IF prior = Nobody THEN Idle
                     ELSE [Idle EXCEPT !.pc = "Ending", !.login = prior]]
       /\ consents' = Standing /\ UNCHANGED leases

\* A login the browser's cookie names now, or none.
Presented == {Nobody} \union {l \in DOMAIN logins : Live(Store, l)}

PasswordSignIn(t, p) ==
    /\ tasks[t] = Idle
    /\ \E prior \in Presented : Establish(t, p, prior)
    /\ UNCHANGED transactions

OidcStart(t, x) ==
    /\ tasks[t] = Idle /\ x \in States \ DOMAIN transactions
    /\ \E prior \in Presented :
          transactions' = With(Drop(transactions, {y \in DOMAIN transactions : transactions[y].left = 0}),
                               x, [prior |-> prior, left |-> TransactionLifetime])
    /\ UNCHANGED <<logins, grants, approvals, sequence, revoked, tasks, leases, consents>>

\* take: the callback ends its transaction, whatever comes of it.
OidcCallback(t, x) ==
    /\ tasks[t] = Idle /\ x \in DOMAIN transactions
    /\ transactions' = Drop(transactions, {x})
    /\ tasks' = [tasks EXCEPT ![t] =
          IF transactions[x].left = 0 THEN Idle
          ELSE [Idle EXCEPT !.pc = "Identifying", !.login = transactions[x].prior]]
    /\ UNCHANGED <<logins, grants, approvals, sequence, revoked, leases, consents>>

\* The provider vouches for a principal, refuses or outlasts the bound.
OidcIdentified(t, p) ==
    /\ tasks[t].pc = "Identifying"
    /\ \/ Establish(t, p, tasks[t].login)
       \/ /\ tasks' = [tasks EXCEPT ![t] = Idle]
          /\ UNCHANGED <<logins, grants, approvals, sequence, revoked, leases, consents>>
    /\ UNCHANGED transactions

\* sign_out's two locks: the form's proof, then the end of the login or of
\* every login of its principal.
SignOut(t, l, every) ==
    /\ tasks[t] = Idle /\ Live(Store, l)
    /\ tasks' = [tasks EXCEPT ![t] = [Idle EXCEPT !.pc = "Ending", !.login = l, !.every = every]]
    /\ UNCHANGED <<logins, grants, approvals, sequence, revoked, transactions, leases,
                   consents>>

SignedOut(t) ==
    /\ tasks[t].pc = "Ending"
    /\ LET l == tasks[t].login
           ended == IF tasks[t].every
                    THEN {k \in DOMAIN logins : logins[k].principal = logins[l].principal}
                    ELSE {l}
       IN Put(IF Live(Store, l) THEN End(Store, ended) ELSE Store)
    /\ tasks' = [tasks EXCEPT ![t] = Idle] /\ consents' = Standing
    /\ UNCHANGED <<sequence, transactions, leases>>

(***************************************************************************)
(* Approvals.                                                              *)
(***************************************************************************)
\* approval_room counts the approvals that are not yet grants.
Pending(s) == {c \in DOMAIN s.approvals : s.approvals[c].stage # "Issued"}

LoginRoom(s, l) == Cardinality({c \in Pending(s) : s.approvals[c].login = l}) < MaxLoginApprovals

SharedRoom(s, l) ==
    /\ Cardinality(Pending(s)) < MaxApprovals
    /\ l = Nobody =>
          Cardinality({c \in Pending(s) : s.approvals[c].login = Nobody}) < MaxApprovals \div 2

Opened(s, c, l) ==
    [s EXCEPT !.approvals = With(@, c,
        [stage |-> IF l = Nobody THEN "Open" ELSE "Claimed", login |-> l, grant |-> Nobody,
         token |-> FALSE, left |-> ApprovalLifetime, replay |-> 0])]

Fresh(s, c) == c \in DOMAIN s.approvals /\ s.approvals[c].left > 0

\* Both pages read the cookie before they take the store's lock.
Page(t, c) ==
    /\ tasks[t] = Idle
    /\ \E l \in Presented :
          tasks' = [tasks EXCEPT ![t] = [Idle EXCEPT !.pc = "Page", !.login = l, !.challenge = c]]
    /\ UNCHANGED <<logins, grants, approvals, sequence, revoked, transactions, leases,
                   consents>>

CliPaged(s, c, l) ==
    IF l = Nobody \/ Fresh(s, c) THEN s
    ELSE LET swept == Sweep(s)
         IN IF LoginRoom(swept, l) /\ SharedRoom(swept, l) THEN Opened(swept, c, l) ELSE swept

\* browser_page opens the challenge before sign-in, and a login claims it.
BrowserPaged(s, c, l) ==
    LET swept == IF Fresh(s, c) THEN s ELSE Sweep(s)
        opened == IF Fresh(s, c) \/ ~SharedRoom(swept, l) THEN swept ELSE Opened(swept, c, Nobody)
    IN IF c \in DOMAIN opened.approvals /\ l # Nobody /\ LoginRoom(opened, l)
          /\ opened.approvals[c].stage = "Open"
       THEN [opened EXCEPT !.approvals[c].stage = "Claimed", !.approvals[c].login = l]
       ELSE opened

Paged(t) ==
    /\ tasks[t].pc = "Page"
    /\ LET c == tasks[t].challenge
       IN Put(IF c \in Browsers THEN BrowserPaged(Store, c, tasks[t].login)
              ELSE CliPaged(Store, c, tasks[t].login))
    /\ tasks' = [tasks EXCEPT ![t] = Idle] /\ consents' = Standing
    /\ UNCHANGED <<sequence, transactions, leases>>

\* approve's two locks: the form's proof, then the pending approval.
Approve(t, c, l) ==
    /\ tasks[t] = Idle /\ Live(Store, l)
    /\ tasks' = [tasks EXCEPT ![t] = [Idle EXCEPT !.pc = "Approving", !.login = l, !.challenge = c]]
    /\ UNCHANGED <<logins, grants, approvals, sequence, revoked, transactions, leases,
                   consents>>

\* Whether the approval is login l's to approve: in time, its own, not yet a
\* grant, and with room for a browser's.
ApprovableByAny(c, l) ==
    /\ Fresh(Store, c)
    /\ approvals[c].stage \in {"Open", "Claimed", "Approved"}
    /\ c \in Browsers => Cardinality(Of(Store, l)) < MaxLoginGrants

Approvable(c, l) ==
    /\ Fresh(Store, c) /\ approvals[c].login = l
    /\ approvals[c].stage \in {"Claimed", "Approved"}
    /\ c \in Browsers => Cardinality(Of(Store, l)) < MaxLoginGrants

Approved(t) ==
    /\ tasks[t].pc = "Approving"
    /\ LET c == tasks[t].challenge
           l == tasks[t].login
       IN IF Approvable(c, l)
          THEN /\ approvals' = [approvals EXCEPT ![c].stage = "Approved"]
               /\ consents' = consents \union {<<c, l>>}
          ELSE UNCHANGED <<approvals, consents>>
    /\ tasks' = [tasks EXCEPT ![t] = Idle]
    /\ UNCHANGED <<logins, grants, sequence, revoked, transactions, leases>>

(***************************************************************************)
(* The grant an approved challenge's verifier earns.  Past its cap a login *)
(* gives a terminal the place of its oldest terminal grant, whose approval *)
(* goes with it, and a browser none.                                       *)
(***************************************************************************)
EvictKeeping(s, g) == [s EXCEPT !.grants = Drop(@, {g}), !.revoked = @ \union {g}]

Evict(s, g) ==
    [s EXCEPT !.grants = Drop(@, {g}), !.revoked = @ \union {g},
              !.approvals = Drop(@, {c \in DOMAIN @ : @[c].grant = g})]

Native(s, l) == {g \in Of(s, l) : ~s.grants[g].browser}

Full(s, c, l) ==
    /\ Cardinality(Of(s, l)) >= MaxLoginGrants
    /\ c \in Browsers \/ Native(s, l) = {}

Granted(s, c, l) ==
    LET room == IF Cardinality(Of(s, l)) >= MaxLoginGrants
                THEN Evict(s, Oldest(Native(s, l))) ELSE s
        a == room.approvals[c]
    IN [room EXCEPT
          !.grants = With(@, sequence, [login |-> l, browser |-> c \in Browsers]),
          !.approvals[c] = [a EXCEPT !.stage = "Issued", !.grant = sequence, !.token = TRUE,
                                     !.replay = Replay,
                                     !.left = IF a.left < Replay THEN Replay ELSE a.left]]

\* issue: a grant for an approved challenge, the same one while it replays.
Issue(c) ==
    LET s == Sweep(Store)
        a == s.approvals[c]
        asks == c \in DOMAIN s.approvals /\ Live(s, a.login)
        grants_now == asks /\ a.stage = "Approved" /\ ~Full(s, c, a.login)
    IN /\ grants_now => sequence < MaxSequence
       /\ Put(IF grants_now THEN Granted(s, c, a.login) ELSE s)
       /\ sequence' = IF grants_now THEN sequence + 1 ELSE sequence
       /\ consents' = IF grants_now THEN Standing \ {<<c, a.login>>} ELSE Standing
       /\ UNCHANGED <<transactions, tasks, leases>>

(***************************************************************************)
(* Requests: what a cookie or a bearer token is worth, and time.           *)
(***************************************************************************)
\* cookie: an expired login found here is ended at once.
Cookie(n, l) ==
    /\ leases[n] = Unleased /\ l \in DOMAIN logins
    /\ IF Live(Store, l)
       THEN /\ leases' = [leases EXCEPT ![n] = [holder |-> l, login |-> l, left |-> logins[l].left]]
            /\ UNCHANGED <<logins, grants, approvals, revoked, consents>>
       ELSE Put(End(Store, {l})) /\ consents' = Standing /\ UNCHANGED leases
    /\ UNCHANGED <<sequence, transactions, tasks>>

Bearer(n, g) ==
    /\ leases[n] = Unleased /\ g \in DOMAIN grants \ revoked /\ Live(Store, grants[g].login)
    /\ leases' = [leases EXCEPT ![n] =
          [holder |-> g, login |-> grants[g].login, left |-> logins[grants[g].login].left]]
    /\ UNCHANGED <<logins, grants, approvals, sequence, revoked, transactions, tasks,
                   consents>>

LaneEnds(n) ==
    /\ leases[n] # Unleased /\ leases' = [leases EXCEPT ![n] = Unleased]
    /\ UNCHANGED <<logins, grants, approvals, sequence, revoked, transactions, tasks,
                   consents>>

Tick ==
    /\ logins' = [l \in DOMAIN logins |-> [logins[l] EXCEPT !.left = Sooner(@)]]
    /\ approvals' = [c \in DOMAIN approvals |->
          [approvals[c] EXCEPT !.left = Sooner(@), !.replay = Sooner(@)]]
    /\ transactions' = [x \in DOMAIN transactions |-> [transactions[x] EXCEPT !.left = Sooner(@)]]
    /\ leases' = [n \in Lanes |-> [leases[n] EXCEPT !.left = Sooner(@)]]
    /\ UNCHANGED <<grants, sequence, revoked, tasks, consents>>

Next ==
    \/ \E t \in Tasks :
          \/ \E p \in Principals : PasswordSignIn(t, p) \/ OidcIdentified(t, p)
          \/ \E x \in States : OidcStart(t, x) \/ OidcCallback(t, x)
          \/ \E l \in DOMAIN logins, every \in BOOLEAN : SignOut(t, l, every)
          \/ SignedOut(t) \/ Paged(t) \/ Approved(t)
          \/ \E c \in Challenges : Page(t, c) \/ \E l \in DOMAIN logins : Approve(t, c, l)
    \/ \E c \in Challenges : Issue(c)
    \/ \E n \in Lanes : (\E l \in DOMAIN logins : Cookie(n, l)) \/ (\E g \in DOMAIN grants : Bearer(n, g)) \/ LaneEnds(n)
    \/ Tick

Spec == Init /\ [][Next]_vars

(***************************************************************************)
(* Properties.                                                             *)
(***************************************************************************)
\* AuthLease::is_ended.
Ended(lease) == lease.holder \in revoked \/ lease.left = 0

\* Revocation reaches everything a sign-in gave out: a lease that still counts
\* belongs to a login that stands, through a grant that stands, and every grant
\* belongs to a login the store still has, so a sign-out, an eviction or an
\* expiry leaves no lane running behind it.
LeasesFollow ==
    /\ \A n \in Lanes : ~Ended(leases[n]) /\ leases[n].holder # Nobody =>
          /\ Live(Store, leases[n].login)
          /\ leases[n].holder # leases[n].login =>
                leases[n].holder \in DOMAIN grants /\ grants[leases[n].holder].login = leases[n].login
    /\ \A g \in DOMAIN grants : grants[g].login \in DOMAIN logins

\* The grant a token request for c is answered with, if one has been made.
Answer(c) ==
    LET s == Sweep(Store)
    IN IF /\ c \in DOMAIN s.approvals /\ Live(s, s.approvals[c].login)
          /\ s.approvals[c].stage = "Issued" /\ s.approvals[c].token
       THEN s.approvals[c].grant ELSE Nobody

\* A token request answered again after the first answer was lost gets the same
\* grant, and only while that grant stands: no eviction, sign-out or expiry
\* between the two leaves an approval that hands out a dead token.
AnswersStand == \A c \in Challenges : Answer(c) # Nobody => Answer(c) \in DOMAIN grants

\* A grant is made once for each time the login it belongs to approved its
\* challenge, however approvals, claims, sign-outs and requests interleave.
GrantApproved ==
    \A g \in DOMAIN grants' \ DOMAIN grants :
        \E c \in Challenges : /\ <<c, grants'[g].login>> \in consents
                              /\ <<c, grants'[g].login>> \notin consents'
==============================================================================
