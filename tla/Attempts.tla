------------------------------ MODULE Attempts ------------------------------
(***************************************************************************)
(* The budget of sign-in attempts (rate.rs): each client's keys against    *)
(* their shares over a window, in a table of bounded size, under a ceiling *)
(* that all clients share.  One step holds the table's lock.               *)
(*                                                                         *)
(* A client is the sequence of its keys, the narrowest first.  `allowed' is *)
(* the history of what a window allowed.                                   *)
(***************************************************************************)
EXTENDS Integers, SequencesExt

CONSTANTS
    Clients,            \* the clients' keys, narrowest first
    Limit,              \* the narrowest key's attempts in a window
    MaxKeys, Ceiling,   \* keys of the table, events of the ceiling
    Window, MaxTime

VARIABLES now, table, ceiling, allowed

vars == <<now, table, ceiling, allowed>>

Init == now = 0 /\ table = <<>> /\ ceiling = <<>> /\ allowed = <<>>

\* Each wider key has twice the share of the one before.
Share(i) == Limit * 2 ^ (i - 1)

Recent(at) == now - at < Window

\* Times leave the front while they are a window old.
Expire(times) == SelectSeq(times, Recent)

SweptNever(client) == table

\* Only a table about to fill is swept of the keys without a recent attempt.
Swept(client) ==
    IF Cardinality(DOMAIN table) + Len(client) <= MaxKeys THEN table
    ELSE [key \in {k \in DOMAIN table : Expire(table[k]) # <<>>} |-> Expire(table[key])]

\* A key with its share spent refuses; a new one is added unless the table is full,
\* which a known client passes.
Enter(held, key, share, known) ==
    IF key \in DOMAIN held
    THEN [ok |-> Len(Expire(held[key])) < share, held |-> [held EXCEPT ![key] = Expire(@)]]
    ELSE IF Cardinality(DOMAIN held) >= MaxKeys THEN [ok |-> known, held |-> held]
    ELSE [ok |-> TRUE, held |-> [k \in DOMAIN held \cup {key} |-> IF k = key THEN <<>> ELSE held[k]]]

\* The keys in turn, up to the first that refuses.
Walked(client, known) ==
    FoldLeftDomain(LAMBDA walk, i : IF walk.ok THEN Enter(walk.held, client[i], Share(i), known) ELSE walk,
                   [ok |-> TRUE, held |-> Swept(client)], client)

Engaged == Len(Expire(ceiling)) >= Ceiling

\* A known device, whose cookie an earlier sign-in left, skips the ceiling.
Passes(client, known) == Walked(client, known).ok /\ (known \/ ~Engaged)

Allow(client, known) ==
    LET walk == Walked(client, known)
        ok == Passes(client, known)
    IN /\ table' = [key \in DOMAIN walk.held |->
                       IF ok /\ Contains(client, key) THEN Append(walk.held[key], now) ELSE walk.held[key]]
       /\ ceiling' = IF walk.ok /\ ~known THEN Expire(ceiling) ELSE ceiling
       /\ allowed' = IF ok /\ ~known THEN Append(allowed, [client |-> client, at |-> now]) ELSE allowed
       /\ UNCHANGED now

\* A wrong password, which all clients' attempts count.
Note ==
    /\ Len(ceiling) <= Ceiling /\ ceiling' = Append(Expire(ceiling), now)
    /\ UNCHANGED <<now, table, allowed>>

Tick ==
    /\ now < MaxTime /\ now' = now + 1
    /\ allowed' = SelectSeq(allowed, LAMBDA entry : now + 1 - entry.at < Window)
    /\ UNCHANGED <<table, ceiling>>

Next == Note \/ Tick \/ \E client \in Clients, known \in BOOLEAN : Allow(client, known)

Spec == Init /\ [][Next]_vars

(***************************************************************************)
(* Properties.                                                             *)
(***************************************************************************)
\* No key has more attempts allowed within a window than its share, whatever other
\* clients do to the table, which never outgrows its bound.
SharesKept ==
    /\ Cardinality(DOMAIN table) <= MaxKeys
    /\ \A client \in Clients : \A i \in DOMAIN client :
          Len(SelectSeq(allowed, LAMBDA entry : Contains(entry.client, client[i]))) <= Share(i)

Live == {key \in DOMAIN table : Expire(table[key]) # <<>>}

Spent(client) == \E i \in DOMAIN client : client[i] \in DOMAIN table /\ Len(Expire(table[client[i]])) >= Share(i)

\* An attempt made now is refused only for cause: a key's share spent within the
\* window, and for a client that is not a known device also the ceiling reached
\* within it, or a table full of keys with recent attempts.  A refusal may change
\* nothing, so this is said of the state.
RefusedForCause ==
    \A client \in Clients, known \in BOOLEAN :
        ~Passes(client, known) =>
            \/ Spent(client)
            \/ ~known /\ (Engaged \/ Cardinality(Live \cup ToSet(client)) > MaxKeys)
==============================================================================
