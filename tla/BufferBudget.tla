---------------------------- MODULE BufferBudget ----------------------------
(***************************************************************************)
(* The buffer budget (rust/server/src/limits/budget.rs) and what QUIC      *)
(* holds of it (transport/quic/budget.rs): the endpoints' reservations,    *)
(* every connection's floor, what noq charges for its buffers, and the     *)
(* credit that uploads raise their connection's receive window on.  The    *)
(* uploads of a connection run in its one task, noq in another; each step  *)
(* here holds the lock, or is the one atomic update, that the code takes.  *)
(***************************************************************************)
EXTENDS Integers, FiniteSets, FiniteSetsExt, Counting

CONSTANTS
    Conns, Uploads, Endpoints,
    Limit,          \* GM_MAX_BUFFER_BYTES
    Endpoint,       \* endpoint_bytes
    Floor,          \* floor_bytes: the TLS handshake and the HTTP/3 layer
    NoqFloor,       \* noq_floor, charged when noq creates a connection
    Credit,         \* CONNECTION_CREDIT
    Most            \* the most noq charges a connection here

VARIABLES
    used, reserved, released,   \* Shared
    endpoints,                  \* "None", "Counted", "Held", "Returned" or "Dropped"
    conns,                      \* [at, credit, undrawn, overdraft, wide], charged: what noq charged
    uploads,                    \* [conn, funded], conn None when it does not read
    reader                      \* a pressure being read: [pc, released, used, held, level]

vars == <<used, reserved, released, endpoints, conns, uploads, reader>>

None == "None"

\* Sizes are numbers of bytes, and None is no connection.
ASSUME BudgetAssumption ==
    /\ IsFiniteSet(Conns) /\ IsFiniteSet(Endpoints) /\ None \notin Conns
    /\ Limit \in Nat /\ Endpoint \in Nat /\ Floor \in Nat /\ NoqFloor \in Nat /\ Credit \in Nat /\ Most \in Nat

NoConn == [at |-> "None", credit |-> FALSE, undrawn |-> 0, overdraft |-> 0, charged |-> 0, wide |-> FALSE]
NoReader == [pc |-> "Idle", released |-> 0, used |-> 0, held |-> 0, level |-> 0]

Init ==
    /\ used = 0 /\ reserved = 0 /\ released = 0
    /\ endpoints = [e \in Endpoints |-> "None"]
    /\ conns = [c \in Conns |-> NoConn]
    /\ uploads = [u \in Uploads |-> [conn |-> None, funded |-> FALSE]]
    /\ reader = NoReader

Fits(bytes) == used + bytes <= Limit

(***************************************************************************)
(* reserve: counted before it is charged, and dropped from the charge      *)
(* before the count, so that a reader between may only count too much.     *)
(***************************************************************************)
CountEndpoint(e) ==
    /\ endpoints[e] = "None"
    /\ reserved' = reserved + Endpoint /\ endpoints' = [endpoints EXCEPT ![e] = "Counted"]
    /\ UNCHANGED <<used, released, conns, uploads, reader>>

ReserveEndpoint(e) ==
    /\ endpoints[e] = "Counted"
    /\ IF Fits(Endpoint)
       THEN used' = used + Endpoint /\ released' = released /\ endpoints' = [endpoints EXCEPT ![e] = "Held"]
       ELSE used' = used /\ released' = released + Endpoint /\ endpoints' = [endpoints EXCEPT ![e] = "Dropped"]
    /\ UNCHANGED <<reserved, conns, uploads, reader>>

\* Lease::drop of a reservation.
ReturnEndpoint(e) ==
    /\ endpoints[e] = "Held"
    /\ used' = used - Endpoint /\ endpoints' = [endpoints EXCEPT ![e] = "Returned"]
    /\ UNCHANGED <<reserved, released, conns, uploads, reader>>

ReleaseEndpoint(e) ==
    /\ endpoints[e] = "Returned"
    /\ released' = released + Endpoint /\ endpoints' = [endpoints EXCEPT ![e] = "Dropped"]
    /\ UNCHANGED <<used, reserved, conns, uploads, reader>>

(***************************************************************************)
(* unreserved and pressure: three reads, in this order.                    *)
(***************************************************************************)
Held == Endpoint * Cardinality({e \in Endpoints : endpoints[e] = "Held"})

Level(limit, use) ==
    IF use >= (limit \div 4) * 3 THEN 2 ELSE IF use >= limit \div 4 THEN 1 ELSE 0

ReadReleased ==
    /\ reader.pc = "Idle" /\ reader' = [reader EXCEPT !.pc = "Used", !.released = released]
    /\ UNCHANGED <<used, reserved, released, endpoints, conns, uploads>>

ReadUsed ==
    /\ reader.pc = "Used" /\ reader' = [reader EXCEPT !.pc = "Reserved", !.used = used, !.held = Held]
    /\ UNCHANGED <<used, reserved, released, endpoints, conns, uploads>>

ReadReserved ==
    /\ reader.pc = "Reserved"
    /\ LET kept == Min({reserved - reader.released, reader.used})
       IN reader' = [reader EXCEPT !.pc = "Done", !.released = 0, !.level = Level(Limit - kept, reader.used - kept)]
    /\ UNCHANGED <<used, reserved, released, endpoints, conns, uploads>>

UsePressure ==
    /\ reader.pc = "Done" /\ reader' = NoReader
    /\ UNCHANGED <<used, reserved, released, endpoints, conns, uploads>>

(***************************************************************************)
(* A connection's floor, and what noq charges through ConnectionBudget:    *)
(* the credit first, the rest to the shared budget as an overdraft.        *)
(***************************************************************************)
Charges(c, bytes) == bytes - Min({conns[c].undrawn, bytes})

Charged(c, bytes) ==
    /\ LET r == conns[c]
       IN conns' = [conns EXCEPT ![c] = [r EXCEPT !.at = "Open", !.undrawn = r.undrawn - (bytes - Charges(c, bytes)),
                                                  !.overdraft = r.overdraft + Charges(c, bytes),
                                                  !.charged = r.charged + bytes]]
    /\ UNCHANGED <<reserved, released, endpoints, uploads, reader>>

\* Http3::connection: a floor that fits, then noq's own, or the floor is returned.
OpenConnection(c) ==
    /\ conns[c].at = "None" /\ Fits(Floor + NoqFloor)
    /\ used' = used + Floor + NoqFloor /\ Charged(c, NoqFloor)

RefuseConnection(c) ==
    /\ conns[c].at = "None" /\ ~Fits(Floor + NoqFloor)
    /\ conns' = [conns EXCEPT ![c].at = "Dropped"]
    /\ UNCHANGED <<used, reserved, released, endpoints, uploads, reader>>

\* try_charge; refused, noq reads or buffers no more and nothing changes.
TryCharge(c, bytes) ==
    /\ conns[c].at = "Open" /\ conns[c].charged + bytes <= Most
    /\ Charges(c, bytes) > 0 => Fits(Charges(c, bytes))
    /\ used' = used + Charges(c, bytes) /\ Charged(c, bytes)

Refunded(c, bytes, overdraft) ==
    /\ used' = used - overdraft
    /\ LET r == conns[c]
       IN conns' = [conns EXCEPT ![c] = [r EXCEPT !.overdraft = r.overdraft - overdraft,
                                                  !.undrawn = r.undrawn + bytes - overdraft,
                                                  !.charged = r.charged - bytes]]
    /\ UNCHANGED <<reserved, released, endpoints, uploads, reader>>

\* The overdraft is paid back first, then the credit fills.
RefundCreditFirst(c, bytes) ==
    /\ conns[c].charged >= bytes
    /\ Refunded(c, bytes, bytes - Min({Credit - conns[c].undrawn, bytes}))

Refund(c, bytes) ==
    /\ conns[c].charged >= bytes
    /\ Refunded(c, bytes, Min({conns[c].overdraft, bytes}))

(***************************************************************************)
(* Uploads: counted as readers before they ask for the credit.             *)
(***************************************************************************)
Readers(c) == {u \in Uploads : uploads[u].conn = c}

\* QuicWindow::reader or Incoming's first read of an admitted upload.
BeginReading(u, c) ==
    /\ uploads[u].conn = None /\ conns[c].at = "Open"
    /\ uploads' = [uploads EXCEPT ![u] = [conn |-> c, funded |-> FALSE]]
    /\ UNCHANGED <<used, reserved, released, endpoints, conns, reader>>

\* Funding::fund and reserve; share: the client's quota grants the credit.
Fund(u, share) ==
    LET c == uploads[u].conn
        asks == ~conns[c].credit /\ share /\ Fits(Credit)
    IN /\ c # None /\ ~uploads[u].funded /\ (conns[c].credit \/ asks)
       /\ uploads' = [uploads EXCEPT ![u].funded = TRUE]
       /\ used' = IF asks THEN used + Credit ELSE used
       /\ LET r == conns[c]
          IN conns' = [conns EXCEPT ![c] = [r EXCEPT !.credit = TRUE, !.wide = TRUE,
                                                     !.undrawn = IF asks THEN r.undrawn + Credit ELSE r.undrawn]]
       /\ UNCHANGED <<reserved, released, endpoints, reader>>

\* reading(false) of the last reader keeps charged what noq drew of the credit.
Returned(c) ==
    LET r == conns[c]
        drawn == Credit - r.undrawn
    IN IF r.credit
       THEN /\ used' = used - (Credit - drawn)
            /\ conns' = [conns EXCEPT ![c] = [r EXCEPT !.credit = FALSE, !.wide = FALSE, !.undrawn = 0,
                                                       !.overdraft = r.overdraft + drawn]]
       ELSE UNCHANGED <<used, conns>>

EndReading(u) ==
    LET c == uploads[u].conn
    IN /\ c # None
       /\ uploads' = [uploads EXCEPT ![u] = [conn |-> None, funded |-> FALSE]]
       /\ IF Readers(c) = {u} THEN Returned(c) ELSE UNCHANGED <<used, conns>>
       /\ UNCHANGED <<reserved, released, endpoints, reader>>

\* The connection's task ends once its requests did; noq refunds what it
\* charged and drops the budget, and with it the floor.
EndConnection(c) ==
    /\ conns[c].at = "Open" /\ Readers(c) = {}
    /\ conns' = [conns EXCEPT ![c].at = "Draining"]
    /\ UNCHANGED <<used, reserved, released, endpoints, uploads, reader>>

DropConnection(c) ==
    /\ conns[c].at = "Draining" /\ conns[c].charged = 0
    /\ conns' = [conns EXCEPT ![c].at = "Dropped"] /\ used' = used - Floor
    /\ UNCHANGED <<reserved, released, endpoints, uploads, reader>>

Next ==
    \/ \E e \in Endpoints : CountEndpoint(e) \/ ReserveEndpoint(e) \/ ReturnEndpoint(e) \/ ReleaseEndpoint(e)
    \/ ReadReleased \/ ReadUsed \/ ReadReserved \/ UsePressure
    \/ \E c \in Conns :
         \/ OpenConnection(c) \/ RefuseConnection(c) \/ EndConnection(c) \/ DropConnection(c)
         \/ \E bytes \in 1..Most : TryCharge(c, bytes) \/ Refund(c, bytes)
         \/ \E u \in Uploads : BeginReading(u, c)
    \/ \E u \in Uploads : (\E share \in BOOLEAN : Fund(u, share)) \/ EndReading(u)

Spec == Init /\ [][Next]_vars

(***************************************************************************)
(* Properties.                                                             *)
(***************************************************************************)
Open(c) == conns[c].at \in {"Open", "Draining"}
Holds(c) == (IF Open(c) THEN Floor ELSE 0) + (IF conns[c].credit THEN Credit ELSE 0) + conns[c].overdraft

\* A connection accounts for exactly what noq charged it, between its overdraft
\* and what it drew of its credit, and holds nothing once it is dropped: no byte is
\* refunded twice or kept, however credits come and go meanwhile.
ChargesExact ==
    \A c \in Conns :
        /\ conns[c].charged = conns[c].overdraft + IF conns[c].credit THEN Credit - conns[c].undrawn ELSE 0
        /\ conns[c].undrawn \in 0..(IF conns[c].credit THEN Credit ELSE 0)
        /\ conns[c].at = "Dropped" => Holds(c) = 0

\* A window is wide exactly while the connection holds its credit, which lasts
\* until its last upload stops reading and is never held without one.
CreditFollowsUploads ==
    \A c \in Conns :
        /\ conns[c].wide <=> conns[c].credit
        /\ conns[c].credit => Readers(c) # {}
        /\ \A u \in Readers(c) : uploads[u].funded => conns[c].credit

\* Every byte used is held by an endpoint, a floor, a credit or an overdraft, within
\* the limit; each connection's share of it is exact, and its credit follows its
\* uploads.
BudgetExact ==
    /\ used = Held + Tally(Conns, [c \in Conns |-> Holds(c)]) /\ used <= Limit
    /\ ChargesExact /\ CreditFollowsUploads

\* A pressure read while endpoints come and go is never above the true one.
PressureNeverHigh == reader.pc = "Done" => reader.level <= Level(Limit - reader.held, reader.used - reader.held)

\* Whatever the sizes, a pressure read is never above the true one by more than the
\* fractions' rounding: Retry is read only with a quarter used, HoldBack with three
\* quarters used but for what limit / 4 * 3 drops.
PressureBounded ==
    LET limit == Limit - reader.held
        use == reader.used - reader.held
    IN reader.pc = "Done" =>
        /\ reader.level >= 1 => use >= limit \div 4
        /\ reader.level = 2 => 4 * use + 9 >= 3 * limit
==============================================================================
