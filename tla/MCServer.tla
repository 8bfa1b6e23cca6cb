------------------------------ MODULE MCServer ------------------------------
(***************************************************************************)
(* The server's state between requests for TLC: the leases of two clients  *)
(* that compete for the totals, each within its share; what leases and     *)
(* uploads must eventually do, for an upload with a datagram lane and a    *)
(* feed, an upload with two feeds and a lease; and the sign-ins, in three  *)
(* scenarios: logins of two principals at every cap, with OIDC and no      *)
(* approvals; a terminal and a browser that ask one principal's logins;    *)
(* and two terminals that ask one login for its only grant (Browser then   *)
(* names a second terminal's challenge).  A behaviour moves the part its   *)
(* `focus` names; the others stay in their initial state, where none of    *)
(* their fair actions is enabled.                                          *)
(***************************************************************************)
EXTENDS Admission, TLC

CONSTANTS
    Foci,                               \* what the run explores
    l1, l2, ca, cb,                     \* leases and their clients
    d1, f1, f2, c1,                     \* a datagram lane, feeds and a finish call
    Operators, Terminal, Browser, Requests, Measurement, Transaction, Nobody

VARIABLES
    focus,
    now, bytes, first, life, holder, observing, pending, sinks, feeds, got, checks, finishes, seen,
    logins, grants, approvals, sequence, revoked, transactions, tasks, held, consents

uploads == <<now, bytes, first, life, holder, observing, pending, sinks, feeds, got, checks,
             finishes, seen>>
signIns == <<logins, grants, approvals, sequence, revoked, transactions, tasks, held, consents>>

MCOwner == l1 :> ca @@ l2 :> cb
MCAsked == {[m |-> 1, s |-> 1], [m |-> 2, s |-> 0]}
MCTotal == [m |-> 3, s |-> 1]
MCShare == [m |-> 2, s |-> 1]

OneOwner == l1 :> ca
OneAsked == {[m |-> 1, s |-> 0], [m |-> 3, s |-> 2]}
OneTotal == [m |-> 3, s |-> 2]

U == INSTANCE UploadAggregate WITH
        Streams <- {}, Datagrams <- {d1}, Feeds <- {f1, f2}, Checks <- {}, Finishes <- {c1},
        MaxCounter <- 1, MaxBytes <- 1, MaxTime <- 0

Caps == INSTANCE SignIns WITH
        Principals <- Operators, Challenges <- {}, Browsers <- {}, States <- {Transaction},
        Tasks <- Requests, Lanes <- {Measurement}, leases <- held, MaxSequence <- 4, MaxLogins <- 2,
        MaxPrincipalLogins <- 2, MaxLoginGrants <- 1, MaxApprovals <- 1, MaxLoginApprovals <- 1,
        LoginLifetime <- 2, ApprovalLifetime <- 1, Replay <- 1, TransactionLifetime <- 1

Asks == INSTANCE SignIns WITH
        Principals <- {"operator"}, Challenges <- {Terminal, Browser}, Browsers <- {Browser}, States <- {},
        Tasks <- Requests, Lanes <- {Measurement}, leases <- held, MaxSequence <- 3, MaxLogins <- 2,
        MaxPrincipalLogins <- 1, MaxLoginGrants <- 1, MaxApprovals <- 2, MaxLoginApprovals <- 1,
        LoginLifetime <- 2, ApprovalLifetime <- 1, Replay <- 1, TransactionLifetime <- 1

Terminals == INSTANCE SignIns WITH
        Principals <- {"operator"}, Challenges <- {Terminal, Browser}, Browsers <- {}, States <- {},
        Tasks <- Requests, Lanes <- {Measurement}, leases <- held, MaxSequence <- 3, MaxLogins <- 1,
        MaxPrincipalLogins <- 1, MaxLoginGrants <- 1, MaxApprovals <- 2, MaxLoginApprovals <- 1,
        LoginLifetime <- 1, ApprovalLifetime <- 1, Replay <- 1, TransactionLifetime <- 1

MCInit == focus \in Foci /\ Init /\ U!Init /\ Caps!Init

MCNext ==
    \/ focus \in {"quotas", "leases"} /\ Next /\ UNCHANGED <<focus, uploads, signIns>>
    \/ focus = "datagrams" /\ U!Next /\ feeds'[f2].pc = "Idle" /\ UNCHANGED <<focus, vars, signIns>>
    \/ focus = "feeds" /\ U!Next /\ sinks'[d1].pc = "Idle" /\ UNCHANGED <<focus, vars, signIns>>
    \/ focus = "logins" /\ Caps!Next /\ UNCHANGED <<focus, vars, uploads>>
    \/ focus = "approvals" /\ Asks!Next /\ UNCHANGED <<focus, vars, uploads>>
    \/ focus = "terminals" /\ Terminals!Next /\ UNCHANGED <<focus, vars, uploads>>

MCSpec == MCInit /\ [][MCNext]_<<focus, vars, uploads, signIns>>

Progress == MCSpec /\ Fairness /\ U!Fairness

Symmetry == Permutations(Work) \union Permutations(Operators) \union Permutations(Requests)

\* A finished or expired upload ends its datagram lane (UploadSink::finished).
DatagramsLeave == U!DatagramsLeave

\* A replaced, expired or completed progress feed ends (ProgressFeed::next).
FeedsEnd == U!FeedsEnd

\* What a sign-in gave out goes with it: SignIns's LeasesFollow for the leases of
\* running requests, and its AnswersStand for the grants that answers replay.
RevocationReaches == Asks!LeasesFollow /\ Asks!AnswersStand

\* SignIns's GrantApproved: a grant for each approval by its own login.
GrantsApproved == [][Asks!GrantApproved]_signIns
==============================================================================
