------------------------- MODULE BufferBudgetProofs -------------------------
(***************************************************************************)
(* BudgetExact of BufferBudget, for any number of endpoints, connections   *)
(* and uploads and any sizes.  First each connection's own accounts and    *)
(* its credit, then the sum of what all of them hold.                      *)
(***************************************************************************)
EXTENDS BufferBudget, TLAPS

Conn == [at : {"None", "Open", "Draining", "Dropped"}, credit : BOOLEAN, undrawn : Nat,
         overdraft : Nat, charged : Nat, wide : BOOLEAN]

Types == conns \in [Conns -> Conn] /\ uploads \in [Uploads -> [conn : Conns \cup {None}, funded : BOOLEAN]]

Drawn(r) == IF r.credit THEN Credit - r.undrawn ELSE 0

\* A connection's own accounts.
Sound(r) ==
    /\ r.charged = r.overdraft + Drawn(r)
    /\ r.undrawn \in 0..(IF r.credit THEN Credit ELSE 0)
    /\ r.at \in {"None", "Dropped"} => r.charged = 0 /\ ~r.credit
    /\ r.wide <=> r.credit

\* Only an open connection has uploads that read.
ReadersOpen == \A u \in Uploads : uploads[u].conn # None => conns[uploads[u].conn].at = "Open"

BudgetInv == Types /\ (\A c \in Conns : Sound(conns[c])) /\ ReadersOpen /\ CreditFollowsUploads

LEMMA MinOfTwo ==
    ASSUME NEW a \in Nat, NEW b \in Nat
    PROVE  Min({a, b}) \in Nat /\ Min({a, b}) <= a /\ Min({a, b}) <= b /\ Min({a, b}) \in {a, b}
  <1>1. \E x \in {a, b} : \A y \in {a, b} : x =< y
    <2>1. CASE a =< b
      BY <2>1
    <2>2. CASE b =< a
      BY <2>2
    <2> QED
      BY <2>1, <2>2
  <1> QED
    BY <1>1 DEF Min

\* A charge draws on the credit first and is an overdraft for the rest.
LEMMA ChargeSound ==
    ASSUME NEW r \in Conn, Sound(r), NEW bytes \in Nat, r.at \in {"None", "Open"},
           NEW over, over = bytes - Min({r.undrawn, bytes}),
           NEW undrawn, undrawn = r.undrawn - (bytes - over),
           NEW overdraft, overdraft = r.overdraft + over,
           NEW charged, charged = r.charged + bytes,
           NEW n, n = [r EXCEPT !.at = "Open", !.undrawn = undrawn, !.overdraft = overdraft, !.charged = charged]
    PROVE  n \in Conn /\ Sound(n)
  <1>1. Min({r.undrawn, bytes}) \in Nat /\ Min({r.undrawn, bytes}) <= r.undrawn /\ Min({r.undrawn, bytes}) <= bytes
    BY MinOfTwo, Zenon DEF Conn
  <1>2. over \in Nat /\ undrawn \in Nat /\ undrawn <= r.undrawn /\ overdraft \in Nat /\ charged \in Nat
    BY <1>1 DEF Conn
  <1>3. n \in Conn
    BY <1>2, Zenon DEF Conn
  <1>4. n.at = "Open" /\ n.undrawn = undrawn /\ n.overdraft = overdraft /\ n.charged = charged
        /\ n.credit = r.credit /\ n.wide = r.wide
    BY DEF Conn
  <1>5. n.wide <=> n.credit
    BY <1>4 DEF Sound
  <1>6. CASE r.credit
    <2>1. r.charged = r.overdraft + (Credit - r.undrawn) /\ r.undrawn <= Credit
      BY <1>6, BudgetAssumption DEF Sound, Drawn
    <2>2. charged = overdraft + (Credit - undrawn) /\ undrawn <= Credit
      BY <1>1, <1>2, <2>1, BudgetAssumption DEF Conn
    <2> QED
      BY <1>2, <1>3, <1>4, <1>5, <1>6, <2>2, BudgetAssumption DEF Sound, Drawn
  <1>7. CASE ~r.credit
    <2>1. r.charged = r.overdraft /\ r.undrawn = 0
      BY <1>7 DEF Sound, Drawn, Conn
    <2>2. charged = overdraft /\ undrawn = 0
      BY <1>1, <1>2, <2>1 DEF Conn
    <2> QED
      BY <1>3, <1>4, <1>5, <1>7, <2>2 DEF Sound, Drawn, Conn
  <1> QED
    BY <1>6, <1>7

\* A refund pays the overdraft back first; the credit fills with the rest.
LEMMA RefundSound ==
    ASSUME NEW r \in Conn, Sound(r), NEW bytes \in Nat, bytes > 0, r.charged >= bytes,
           NEW back, back = Min({r.overdraft, bytes}),
           NEW undrawn, undrawn = r.undrawn + bytes - back,
           NEW overdraft, overdraft = r.overdraft - back,
           NEW charged, charged = r.charged - bytes,
           NEW n, n = [r EXCEPT !.overdraft = overdraft, !.undrawn = undrawn, !.charged = charged]
    PROVE  n \in Conn /\ Sound(n)
  <1>1. back \in Nat /\ back <= r.overdraft /\ back <= bytes /\ back \in {r.overdraft, bytes}
    BY MinOfTwo DEF Conn
  <1>2. undrawn \in Nat /\ overdraft \in Nat /\ charged \in Nat
    BY <1>1 DEF Conn
  <1>3. n \in Conn
    BY <1>2, Zenon DEF Conn
  <1>4. n.at = r.at /\ n.undrawn = undrawn /\ n.overdraft = overdraft /\ n.charged = charged
        /\ n.credit = r.credit /\ n.wide = r.wide
    BY DEF Conn
  <1>5. r.at \notin {"None", "Dropped"}
    BY DEF Sound, Conn
  <1>6. n.wide <=> n.credit
    BY <1>4 DEF Sound
  <1>7. CASE r.credit
    <2>1. r.charged = r.overdraft + (Credit - r.undrawn) /\ r.undrawn <= Credit
      BY <1>7, BudgetAssumption DEF Sound, Drawn
    <2>2. charged = overdraft + (Credit - undrawn) /\ undrawn <= Credit
      BY <1>1, <1>2, <2>1, BudgetAssumption DEF Conn
    <2> QED
      BY <1>2, <1>3, <1>4, <1>5, <1>6, <1>7, <2>2, BudgetAssumption DEF Sound, Drawn
  <1>8. CASE ~r.credit
    <2>1. r.charged = r.overdraft /\ r.undrawn = 0
      BY <1>8 DEF Sound, Drawn, Conn
    <2>2. charged = overdraft /\ undrawn = 0
      BY <1>1, <1>2, <2>1 DEF Conn
    <2> QED
      BY <1>3, <1>4, <1>5, <1>6, <1>8, <2>2 DEF Sound, Drawn, Conn
  <1> QED
    BY <1>7, <1>8

\* A step of one connection that leaves its uploads and its credit alone.
LEMMA ConnStep ==
    ASSUME BudgetInv, NEW c \in Conns, NEW r \in Conn, Sound(r),
           conns' = [conns EXCEPT ![c] = r], uploads' = uploads,
           r.credit = conns[c].credit, conns[c].at = "Open" => r.at = "Open" \/ Readers(c) = {}
    PROVE  BudgetInv'
  <1>1. Types' /\ \A d \in Conns : Sound(conns'[d])
    BY DEF BudgetInv, Types
  <1>2. \A d \in Conns : conns'[d].credit = conns[d].credit /\ (conns'[d].wide <=> conns'[d].credit)
    BY <1>1 DEF BudgetInv, Types, Sound
  <1>3. \A d \in Conns : Readers(d)' = Readers(d)
    BY DEF Readers
  <1>4. CreditFollowsUploads'
    BY <1>2, <1>3 DEF BudgetInv, CreditFollowsUploads
  <1>5. ReadersOpen'
    <2> SUFFICES ASSUME NEW u \in Uploads, uploads[u].conn # None PROVE conns'[uploads[u].conn].at = "Open"
      BY DEF ReadersOpen
    <2>1. uploads[u].conn \in Conns /\ conns[uploads[u].conn].at = "Open"
      BY DEF BudgetInv, Types, ReadersOpen
    <2>2. uploads[u].conn = c => Readers(c) # {}
      BY DEF Readers
    <2> QED
      BY <2>1, <2>2 DEF BudgetInv, Types
  <1>6. (\A d \in Conns : Sound(conns[d]))'
    BY <1>1
  <1> QED
    BY <1>1, <1>4, <1>5, <1>6 DEF BudgetInv

\* noq charges an open connection, or the one it opens.
LEMMA ChargedStep ==
    ASSUME BudgetInv, NEW c \in Conns, NEW bytes \in Nat, conns[c].at \in {"None", "Open"}, Charged(c, bytes)
    PROVE  BudgetInv'
  <1> DEFINE r == conns[c]
             over == bytes - Min({r.undrawn, bytes})
             undrawn == r.undrawn - (bytes - over)
             overdraft == r.overdraft + over
             charged == r.charged + bytes
             n == [r EXCEPT !.at = "Open", !.undrawn = undrawn, !.overdraft = overdraft, !.charged = charged]
  <1>1. r \in Conn /\ Sound(r)
    BY DEF BudgetInv, Types
  <1>2. n \in Conn /\ Sound(n)
    BY <1>1, ChargeSound, Zenon
  <1>3. conns' = [conns EXCEPT ![c] = n] /\ uploads' = uploads
    BY Zenon DEF Charged, Charges
  <1>4. n.credit = conns[c].credit /\ n.at = "Open"
    BY <1>1 DEF Conn
  <1> HIDE DEF n
  <1> QED
    BY <1>2, <1>3, <1>4, ConnStep, Zenon

LEMMA RefundStep ==
    ASSUME BudgetInv, NEW c \in Conns, NEW bytes \in Nat, bytes > 0, Refund(c, bytes)
    PROVE  BudgetInv'
  <1> DEFINE r == conns[c]
             back == Min({r.overdraft, bytes})
             undrawn == r.undrawn + bytes - back
             overdraft == r.overdraft - back
             charged == r.charged - bytes
             n == [r EXCEPT !.overdraft = overdraft, !.undrawn = undrawn, !.charged = charged]
  <1>1. r \in Conn /\ Sound(r) /\ r.charged >= bytes
    BY DEF BudgetInv, Types, Refund
  <1>2. n \in Conn /\ Sound(n)
    BY <1>1, RefundSound, Zenon
  <1>3. conns' = [conns EXCEPT ![c] = n] /\ uploads' = uploads
    BY Zenon DEF Refund, Refunded
  <1>4. n.credit = conns[c].credit /\ n.at = conns[c].at
    BY <1>1 DEF Conn
  <1> HIDE DEF n
  <1> QED
    BY <1>2, <1>3, <1>4, ConnStep, Zenon

\* A connection that is refused, ends or is dropped.
LEMMA MovedStep ==
    ASSUME BudgetInv, NEW c \in Conns, RefuseConnection(c) \/ EndConnection(c) \/ DropConnection(c)
    PROVE  BudgetInv'
  <1>1. PICK to \in {"Draining", "Dropped"} :
           /\ conns' = [conns EXCEPT ![c] = [conns[c] EXCEPT !.at = to]] /\ uploads' = uploads
           /\ conns[c].at = "Open" => Readers(c) = {}
           /\ to = "Dropped" => conns[c].at \in {"None", "Draining"} /\ conns[c].charged = 0
    <2>1. CASE RefuseConnection(c)
      BY <2>1 DEF RefuseConnection, BudgetInv, Sound
    <2>2. CASE EndConnection(c)
      BY <2>2 DEF EndConnection
    <2>3. CASE DropConnection(c)
      BY <2>3 DEF DropConnection
    <2> QED
      BY <2>1, <2>2, <2>3
  <1> DEFINE n == [conns[c] EXCEPT !.at = to]
  <1>2. conns[c] \in Conn /\ Sound(conns[c])
    BY DEF BudgetInv, Types
  <1>3. n \in Conn /\ n.at = to /\ n.credit = conns[c].credit /\ n.wide = conns[c].wide /\ n.charged = conns[c].charged
        /\ n.undrawn = conns[c].undrawn /\ n.overdraft = conns[c].overdraft
    BY <1>2 DEF Conn
  <1>4. to = "Dropped" => ~conns[c].credit
    <2>1. to = "Dropped" => Readers(c) = {}
      BY <1>1, BudgetAssumption DEF BudgetInv, ReadersOpen, Readers
    <2> QED
      BY <2>1 DEF BudgetInv, CreditFollowsUploads
  <1>5. Sound(n)
    BY <1>1, <1>2, <1>3, <1>4 DEF Sound, Drawn
  <1>6. conns' = [conns EXCEPT ![c] = n] /\ uploads' = uploads /\ (conns[c].at = "Open" => Readers(c) = {})
    BY <1>1
  <1> HIDE DEF n
  <1> QED
    BY <1>3, <1>5, <1>6, ConnStep, Zenon

LEMMA BeginStep ==
    ASSUME BudgetInv, NEW c \in Conns, NEW u \in Uploads, BeginReading(u, c)
    PROVE  BudgetInv'
  <1>1. conns' = conns /\ conns[c].at = "Open" /\ uploads[u].conn = None
        /\ uploads' = [uploads EXCEPT ![u] = [conn |-> c, funded |-> FALSE]]
    BY DEF BeginReading
  <1>2. \A v \in Uploads : v # u => uploads'[v] = uploads[v]
    BY <1>1 DEF BudgetInv, Types
  <1>3. uploads'[u] = [conn |-> c, funded |-> FALSE]
    BY <1>1 DEF BudgetInv, Types
  <1>4. Types'
    BY <1>1 DEF BudgetInv, Types
  <1>5. ReadersOpen'
    BY <1>1, <1>2, <1>3 DEF BudgetInv, ReadersOpen
  <1>6. \A d \in Conns : Readers(d) \subseteq Readers(d)' /\ Readers(d)' \subseteq Readers(d) \cup {u}
    BY <1>1, <1>2, BudgetAssumption DEF Readers
  <1>7. CreditFollowsUploads'
    BY <1>1, <1>2, <1>3, <1>6 DEF BudgetInv, CreditFollowsUploads
  <1>8. (\A d \in Conns : Sound(conns[d]))'
    BY <1>1 DEF BudgetInv, Sound, Drawn
  <1> QED
    BY <1>4, <1>5, <1>7, <1>8 DEF BudgetInv

\* The first upload that asks raises the window on a credit, the next ones share it.
LEMMA FundStep ==
    ASSUME BudgetInv, NEW u \in Uploads, NEW share \in BOOLEAN, Fund(u, share)
    PROVE  BudgetInv'
  <1> DEFINE c == uploads[u].conn
             r == conns[c]
             undrawn == IF r.credit THEN r.undrawn ELSE r.undrawn + Credit
             n == [r EXCEPT !.credit = TRUE, !.wide = TRUE, !.undrawn = undrawn]
  <1>1. c \in Conns /\ r \in Conn /\ Sound(r) /\ r.at = "Open" /\ u \in Readers(c)
    BY DEF Fund, BudgetInv, Types, ReadersOpen, Readers
  <1>2. uploads' = [uploads EXCEPT ![u].funded = TRUE]
    BY DEF Fund
  <1>3. conns' = [conns EXCEPT ![c] = n]
    <2>1. CASE r.credit
      BY <2>1 DEF Fund
    <2>2. CASE ~r.credit
      BY <2>2, Zenon DEF Fund
    <2> QED
      BY <2>1, <2>2
  <1>4. undrawn \in Nat /\ (~r.credit => undrawn = Credit)
    BY <1>1, BudgetAssumption DEF Conn, Sound
  <1>5. n \in Conn /\ n.at = "Open" /\ n.credit /\ n.wide /\ n.charged = r.charged
        /\ n.undrawn = undrawn /\ n.overdraft = r.overdraft
    BY <1>1, <1>4, Zenon DEF Conn
  <1>6. Sound(n)
    <2>1. CASE r.credit
      BY <1>1, <1>4, <1>5, <2>1, BudgetAssumption DEF Sound, Drawn, Conn
    <2>2. CASE ~r.credit
      BY <1>1, <1>4, <1>5, <2>2, BudgetAssumption DEF Sound, Drawn, Conn
    <2> QED
      BY <2>1, <2>2
  <1> HIDE DEF n
  <1>7. \A d \in Conns : conns'[d] = IF d = c THEN n ELSE conns[d]
    BY <1>1, <1>3 DEF BudgetInv, Types
  <1>8. \A v \in Uploads : uploads'[v].conn = uploads[v].conn /\ (v # u => uploads'[v] = uploads[v])
    BY <1>2 DEF BudgetInv, Types
  <1>9. Types'
    BY <1>1, <1>2, <1>3, <1>5, Zenon DEF BudgetInv, Types
  <1>10. ReadersOpen'
    BY <1>5, <1>7, <1>8 DEF BudgetInv, Types, ReadersOpen
  <1>11. \A d \in Conns : Readers(d)' = Readers(d)
    BY <1>8 DEF Readers
  <1>12. CreditFollowsUploads'
    <2> SUFFICES ASSUME NEW d \in Conns
                 PROVE  /\ conns'[d].wide <=> conns'[d].credit
                        /\ conns'[d].credit => Readers(d) # {}
                        /\ \A v \in Readers(d) : uploads'[v].funded => conns'[d].credit
      BY <1>11 DEF CreditFollowsUploads
    <2>1. CASE d = c
      BY <1>1, <1>5, <1>7, <2>1
    <2>2. CASE d # c
      BY <1>1, <1>7, <1>8, <2>2 DEF BudgetInv, CreditFollowsUploads, Readers
    <2> QED
      BY <2>1, <2>2
  <1>13. (\A d \in Conns : Sound(conns[d]))'
    BY <1>6, <1>7 DEF BudgetInv
  <1> QED
    BY <1>9, <1>10, <1>12, <1>13 DEF BudgetInv

\* The last upload that reads returns the credit; what noq drew of it stays charged.
LEMMA EndStep ==
    ASSUME BudgetInv, NEW u \in Uploads, EndReading(u)
    PROVE  BudgetInv'
  <1> DEFINE c == uploads[u].conn
             r == conns[c]
             last == Readers(c) = {u} /\ r.credit
             drawn == Credit - r.undrawn
             overdraft == r.overdraft + drawn
             n == [r EXCEPT !.credit = FALSE, !.wide = FALSE, !.undrawn = 0, !.overdraft = overdraft]
  <1>1. c \in Conns /\ r \in Conn /\ Sound(r) /\ r.at = "Open" /\ u \in Readers(c)
    BY DEF EndReading, BudgetInv, Types, ReadersOpen, Readers
  <1>2. uploads' = [uploads EXCEPT ![u] = [conn |-> None, funded |-> FALSE]]
    BY DEF EndReading
  <1>3. \A v \in Uploads : v # u => uploads'[v] = uploads[v]
    BY <1>2 DEF BudgetInv, Types
  <1>4. uploads'[u].conn = None
    BY <1>2 DEF BudgetInv, Types
  <1>5. \A d \in Conns : Readers(d)' = Readers(d) \ {u}
    BY <1>3, <1>4, BudgetAssumption DEF Readers
  <1>6. \A d \in Conns : d # c => u \notin Readers(d)
    BY DEF Readers
  <1>7. CASE last
    <2>1. conns' = [conns EXCEPT ![c] = n]
      BY <1>7 DEF EndReading, Returned
    <2>2. drawn \in Nat /\ r.charged = r.overdraft + drawn
      BY <1>1, <1>7, BudgetAssumption, SMTT(60) DEF Sound, Drawn, Conn
    <2>3. n \in Conn /\ n.at = "Open" /\ ~n.credit /\ ~n.wide /\ n.charged = r.charged
          /\ n.undrawn = 0 /\ n.overdraft = overdraft
      BY <1>1, <2>2, Zenon DEF Conn
    <2>4. Sound(n)
      BY <1>1, <2>2, <2>3 DEF Sound, Drawn, Conn
    <2> HIDE DEF n
    <2>5. \A d \in Conns : conns'[d] = IF d = c THEN n ELSE conns[d]
      BY <1>1, <2>1 DEF BudgetInv, Types
    <2>6. Types'
      BY <1>1, <1>2, <2>1, <2>3 DEF BudgetInv, Types
    <2>7. ReadersOpen'
      BY <1>3, <1>4, <2>3, <2>5 DEF BudgetInv, Types, ReadersOpen
    <2>8. CreditFollowsUploads'
      <3> SUFFICES ASSUME NEW d \in Conns
                   PROVE  /\ conns'[d].wide <=> conns'[d].credit
                          /\ conns'[d].credit => Readers(d)' # {}
                          /\ \A v \in Readers(d)' : uploads'[v].funded => conns'[d].credit
        BY DEF CreditFollowsUploads
      <3>1. CASE d = c
        BY <1>5, <1>7, <2>3, <2>5, <3>1
      <3>2. CASE d # c
        BY <1>3, <1>5, <1>6, <2>5, <3>2 DEF BudgetInv, CreditFollowsUploads, Readers
      <3> QED
        BY <3>1, <3>2
    <2>9. (\A d \in Conns : Sound(conns[d]))'
      BY <2>4, <2>5 DEF BudgetInv
    <2> QED
      BY <2>6, <2>7, <2>8, <2>9 DEF BudgetInv
  <1>8. CASE ~last
    <2>1. conns' = conns
      BY <1>8 DEF EndReading, Returned
    <2>2. Types'
      BY <1>2, <2>1 DEF BudgetInv, Types
    <2>3. ReadersOpen'
      BY <1>3, <1>4, <2>1 DEF BudgetInv, ReadersOpen
    <2>4. CreditFollowsUploads'
      <3> SUFFICES ASSUME NEW d \in Conns
                   PROVE  /\ conns[d].wide <=> conns[d].credit
                          /\ conns[d].credit => Readers(d)' # {}
                          /\ \A v \in Readers(d)' : uploads'[v].funded => conns[d].credit
        BY <2>1 DEF CreditFollowsUploads
      <3>1. conns[d].credit => Readers(d)' # {}
        BY <1>1, <1>5, <1>6, <1>8 DEF BudgetInv, CreditFollowsUploads
      <3>2. \A v \in Readers(d)' : uploads'[v].funded => conns[d].credit
        BY <1>3, <1>5 DEF BudgetInv, CreditFollowsUploads, Readers
      <3>3. conns[d].wide <=> conns[d].credit
        BY DEF BudgetInv, CreditFollowsUploads
      <3> QED
        BY <3>1, <3>2, <3>3
    <2>5. (\A d \in Conns : Sound(conns[d]))'
      BY <2>1 DEF BudgetInv, Sound, Drawn
    <2> QED
      BY <2>2, <2>3, <2>4, <2>5 DEF BudgetInv
  <1> QED
    BY <1>7, <1>8

LEMMA BudgetInit == Init => BudgetInv
  <1> SUFFICES ASSUME Init PROVE BudgetInv
    OBVIOUS
  <1>1. Types
    BY DEF Init, Types, Conn, NoConn
  <1>2. \A c \in Conns : Sound(conns[c])
    BY DEF Init, Sound, Drawn, NoConn
  <1>3. ReadersOpen /\ CreditFollowsUploads
    BY BudgetAssumption DEF Init, ReadersOpen, CreditFollowsUploads, Readers, NoConn
  <1> QED
    BY <1>1, <1>2, <1>3 DEF BudgetInv

LEMMA BudgetStep == ASSUME BudgetInv, [Next]_vars PROVE BudgetInv'
  <1>1. ASSUME UNCHANGED <<conns, uploads>> PROVE BudgetInv'
    BY <1>1 DEF BudgetInv, Types, Sound, Drawn, ReadersOpen, CreditFollowsUploads, Readers
  <1>2. ASSUME NEW e \in Endpoints,
               CountEndpoint(e) \/ ReserveEndpoint(e) \/ ReturnEndpoint(e) \/ ReleaseEndpoint(e)
        PROVE  BudgetInv'
    BY <1>1, <1>2 DEF CountEndpoint, ReserveEndpoint, ReturnEndpoint, ReleaseEndpoint
  <1>3. CASE ReadReleased \/ ReadUsed \/ ReadReserved \/ UsePressure
    BY <1>1, <1>3 DEF ReadReleased, ReadUsed, ReadReserved, UsePressure
  <1>4. ASSUME NEW c \in Conns, OpenConnection(c) PROVE BudgetInv'
    BY <1>4, ChargedStep, BudgetAssumption DEF OpenConnection
  <1>5. ASSUME NEW c \in Conns, RefuseConnection(c) \/ EndConnection(c) \/ DropConnection(c) PROVE BudgetInv'
    BY <1>5, MovedStep
  <1>6. ASSUME NEW c \in Conns, NEW bytes \in 1..Most, TryCharge(c, bytes) PROVE BudgetInv'
    <2>1. bytes \in Nat
      BY BudgetAssumption
    <2> QED
      BY <1>6, <2>1, ChargedStep DEF TryCharge
  <1>7. ASSUME NEW c \in Conns, NEW bytes \in 1..Most, Refund(c, bytes) PROVE BudgetInv'
    <2>1. bytes \in Nat /\ bytes > 0
      BY BudgetAssumption
    <2> QED
      BY <1>7, <2>1, RefundStep
  <1>8. ASSUME NEW c \in Conns, NEW u \in Uploads, BeginReading(u, c) PROVE BudgetInv'
    BY <1>8, BeginStep
  <1>9. ASSUME NEW u \in Uploads, NEW share \in BOOLEAN, Fund(u, share) PROVE BudgetInv'
    BY <1>9, FundStep
  <1>10. ASSUME NEW u \in Uploads, EndReading(u) PROVE BudgetInv'
    BY <1>10, EndStep
  <1>11. CASE UNCHANGED vars
    BY <1>1, <1>11 DEF vars
  <1> QED
    BY <1>2, <1>3, <1>4, <1>5, <1>6, <1>7, <1>8, <1>9, <1>10, <1>11, SMTT(60) DEF Next

LEMMA BudgetKept == BudgetInv => ChargesExact
  <1> SUFFICES ASSUME BudgetInv, NEW c \in Conns
               PROVE  /\ conns[c].charged = conns[c].overdraft + IF conns[c].credit THEN Credit - conns[c].undrawn ELSE 0
                      /\ conns[c].undrawn \in 0..(IF conns[c].credit THEN Credit ELSE 0)
                      /\ conns[c].at = "Dropped" => Holds(c) = 0
    BY DEF ChargesExact
  <1>1. Sound(conns[c]) /\ conns[c] \in Conn
    BY DEF BudgetInv, Types
  <1>2. conns[c].at = "Dropped" => ~conns[c].credit /\ conns[c].overdraft = 0
    BY <1>1 DEF Sound, Drawn, Conn
  <1>3. conns[c].at = "Dropped" => Holds(c) = 0
    BY <1>2 DEF Holds, Open
  <1> QED
    BY <1>1, <1>3 DEF Sound, Drawn

(***************************************************************************)
(* The shared budget: the sum of what the endpoints and connections hold.  *)
(***************************************************************************)
HoldsOf(r) ==
    (IF r.at \in {"Open", "Draining"} THEN Floor ELSE 0) + (IF r.credit THEN Credit ELSE 0) + r.overdraft

Holding == [c \in Conns |-> Holds(c)]

States == endpoints \in [Endpoints -> {"None", "Counted", "Held", "Returned", "Dropped"}]

Accounted == States /\ used = Held + Tally(Conns, Holding) /\ used <= Limit

AccountsInv == BudgetInv /\ Accounted

LEMMA HoldingNat ==
    ASSUME Types
    PROVE  Holding \in [Conns -> Nat] /\ \A c \in Conns : Holding[c] = HoldsOf(conns[c])
  <1>1. \A c \in Conns : Holds(c) = HoldsOf(conns[c])
    BY DEF Holds, HoldsOf, Open
  <1>2. \A c \in Conns : HoldsOf(conns[c]) \in Nat
    BY BudgetAssumption DEF HoldsOf, Types, Conn
  <1> QED
    BY <1>1, <1>2 DEF Holding

LEMMA HeldNat == Held \in Nat
  <1>1. IsFiniteSet({e \in Endpoints : endpoints[e] = "Held"})
    BY FS_Subset, BudgetAssumption
  <1>2. Cardinality({e \in Endpoints : endpoints[e] = "Held"}) \in Nat
    BY <1>1, FS_CardinalityType
  <1> QED
    BY <1>2, BudgetAssumption DEF Held

LEMMA UsedNat == ASSUME AccountsInv PROVE used \in Nat /\ Tally(Conns, Holding) \in Nat
  <1>1. Tally(Conns, Holding) \in Nat
    BY HoldingNat, TallyType, BudgetAssumption DEF AccountsInv, BudgetInv
  <1> QED
    BY <1>1, HeldNat DEF AccountsInv, Accounted

\* A step of one connection that charges the budget what its holding grows by.
LEMMA ConnAccounts ==
    ASSUME AccountsInv, NEW c \in Conns, NEW r \in Conn,
           conns' = [conns EXCEPT ![c] = r], endpoints' = endpoints, Types',
           used' = used + HoldsOf(r) - HoldsOf(conns[c]), used' <= Limit
    PROVE  Accounted'
  <1>1. Holding \in [Conns -> Nat] /\ Holding[c] = HoldsOf(conns[c])
    BY HoldingNat DEF AccountsInv, BudgetInv
  <1>2. Holding' \in [Conns -> Nat] /\ \A d \in Conns : Holding'[d] = HoldsOf(conns'[d])
    <2>1. \A d \in Conns : Holds(d)' = HoldsOf(conns'[d])
      BY DEF Holds, HoldsOf, Open
    <2>2. \A d \in Conns : HoldsOf(conns'[d]) \in Nat
      BY BudgetAssumption DEF HoldsOf, Types, Conn
    <2> QED
      BY <2>1, <2>2 DEF Holding
  <1>3. Holding'[c] = HoldsOf(r) /\ \A d \in Conns \ {c} : Holding'[d] = Holding[d]
    <2>1. conns'[c] = r /\ \A d \in Conns \ {c} : conns'[d] = conns[d]
      BY DEF AccountsInv, BudgetInv, Types
    <2>2. \A d \in Conns : Holding[d] = HoldsOf(conns[d])
      BY HoldingNat DEF AccountsInv, BudgetInv
    <2> QED
      BY <1>2, <2>1, <2>2
  <1>4. Tally(Conns, Holding') = Tally(Conns, Holding) + Holding'[c] - Holding[c]
    BY <1>1, <1>2, <1>3, TallyChange, BudgetAssumption
  <1>5. Held' = Held /\ Held \in Nat
    BY HeldNat DEF Held
  <1>6. Tally(Conns, Holding) \in Nat /\ HoldsOf(r) \in Nat /\ HoldsOf(conns[c]) \in Nat
    BY <1>1, <1>2, <1>3, UsedNat
  <1>7. used' = Held' + Tally(Conns, Holding')
    BY <1>1, <1>3, <1>4, <1>5, <1>6 DEF AccountsInv, Accounted
  <1> QED
    BY <1>7 DEF AccountsInv, Accounted, States

\* noq charges an open connection, or the one it opens with a floor.
LEMMA ChargedAccounts ==
    ASSUME AccountsInv, NEW c \in Conns, NEW bytes \in Nat, Charged(c, bytes), BudgetInv', used' <= Limit,
           \/ conns[c].at = "None" /\ used' = used + Floor + bytes
           \/ conns[c].at = "Open" /\ used' = used + Charges(c, bytes)
    PROVE  Accounted'
  <1> DEFINE r == conns[c]
             over == bytes - Min({r.undrawn, bytes})
             undrawn == r.undrawn - (bytes - over)
             overdraft == r.overdraft + over
             charged == r.charged + bytes
             n == [r EXCEPT !.at = "Open", !.undrawn = undrawn, !.overdraft = overdraft, !.charged = charged]
  <1>1. r \in Conn /\ Sound(r)
    BY DEF AccountsInv, BudgetInv, Types
  <1>2. conns' = [conns EXCEPT ![c] = n] /\ endpoints' = endpoints
    BY Zenon DEF Charged, Charges
  <1>3. Min({r.undrawn, bytes}) \in Nat /\ Min({r.undrawn, bytes}) <= r.undrawn /\ Min({r.undrawn, bytes}) <= bytes
    BY <1>1, MinOfTwo DEF Conn
  <1>4. over \in Nat /\ overdraft \in Nat
    BY <1>1, <1>3 DEF Conn
  <1>5. n \in Conn
    <2>1. conns'[c] = n
      BY <1>2 DEF AccountsInv, BudgetInv, Types
    <2>2. conns'[c] \in Conn
      BY DEF BudgetInv, Types
    <2> QED
      BY <2>1, <2>2
  <1>6. HoldsOf(n) = Floor + (IF r.credit THEN Credit ELSE 0) + overdraft
    <2>1. n.at = "Open" /\ n.credit = r.credit /\ n.overdraft = overdraft
      BY <1>1 DEF Conn
    <2> HIDE DEF n
    <2> QED
      BY <2>1 DEF HoldsOf
  <1>7. used' = used + HoldsOf(n) - HoldsOf(r)
    <2>1. CASE r.at = "None" /\ used' = used + Floor + bytes
      <3>1. r.overdraft = 0 /\ ~r.credit /\ r.undrawn = 0
        BY <1>1, <2>1 DEF Sound, Drawn, Conn
      <3>2. over = bytes
        BY <1>3, <3>1
      <3>3. HoldsOf(r) = 0
        BY <2>1, <3>1 DEF HoldsOf
      <3> HIDE DEF n, over, r
      <3> QED
        BY <1>4, <1>6, <2>1, <3>1, <3>2, <3>3, UsedNat, BudgetAssumption, SMTT(60)
    <2>2. CASE r.at = "Open" /\ used' = used + Charges(c, bytes)
      <3>1. Charges(c, bytes) = over
        BY DEF Charges
      <3>2. HoldsOf(r) = Floor + (IF r.credit THEN Credit ELSE 0) + r.overdraft /\ r.overdraft \in Nat
        BY <1>1, <2>2 DEF HoldsOf, Conn
      <3> HIDE DEF n, over, r
      <3> QED
        BY <1>4, <1>6, <2>2, <3>1, <3>2, UsedNat, BudgetAssumption, SMTT(60)
    <2> QED
      BY <2>1, <2>2
  <1> HIDE DEF n
  <1> QED
    BY <1>2, <1>5, <1>7, ConnAccounts, Zenon DEF BudgetInv

LEMMA RefundAccounts ==
    ASSUME AccountsInv, NEW c \in Conns, NEW bytes \in Nat, Refund(c, bytes), BudgetInv'
    PROVE  Accounted'
  <1> DEFINE r == conns[c]
             back == Min({r.overdraft, bytes})
             undrawn == r.undrawn + bytes - back
             overdraft == r.overdraft - back
             charged == r.charged - bytes
             n == [r EXCEPT !.overdraft = overdraft, !.undrawn = undrawn, !.charged = charged]
  <1>1. r \in Conn
    BY DEF AccountsInv, BudgetInv, Types
  <1>2. conns' = [conns EXCEPT ![c] = n] /\ endpoints' = endpoints /\ used' = used - back
    BY Zenon DEF Refund, Refunded
  <1>3. back \in Nat /\ back <= r.overdraft
    BY <1>1, MinOfTwo DEF Conn
  <1>4. n \in Conn
    <2>1. conns'[c] = n
      BY <1>2 DEF AccountsInv, BudgetInv, Types
    <2>2. conns'[c] \in Conn
      BY DEF BudgetInv, Types
    <2> QED
      BY <2>1, <2>2
  <1>5. n.at = r.at /\ n.credit = r.credit /\ n.overdraft = r.overdraft - back
    BY <1>1 DEF Conn
  <1> HIDE DEF n, back
  <1>6. HoldsOf(n) = HoldsOf(r) - back /\ HoldsOf(r) \in Nat
    BY <1>1, <1>3, <1>5, BudgetAssumption DEF HoldsOf, Conn
  <1>7. used' = used + HoldsOf(n) - HoldsOf(r) /\ used' <= Limit
    BY <1>2, <1>3, <1>6, UsedNat, BudgetAssumption DEF AccountsInv, Accounted
  <1> QED
    BY <1>2, <1>4, <1>7, ConnAccounts, Zenon DEF BudgetInv

LEMMA MovedAccounts ==
    ASSUME AccountsInv, NEW c \in Conns, RefuseConnection(c) \/ EndConnection(c) \/ DropConnection(c), BudgetInv'
    PROVE  Accounted'
  <1>1. PICK to \in {"Draining", "Dropped"} :
           /\ conns' = [conns EXCEPT ![c] = [conns[c] EXCEPT !.at = to]] /\ endpoints' = endpoints
           /\ \/ conns[c].at = "None" /\ to = "Dropped" /\ used' = used
              \/ conns[c].at = "Open" /\ to = "Draining" /\ used' = used
              \/ conns[c].at = "Draining" /\ to = "Dropped" /\ used' = used - Floor
    BY DEF RefuseConnection, EndConnection, DropConnection
  <1> DEFINE r == conns[c]
             n == [r EXCEPT !.at = to]
  <1>2. r \in Conn
    BY DEF AccountsInv, BudgetInv, Types
  <1>3. n \in Conn /\ n.at = to /\ n.credit = r.credit /\ n.overdraft = r.overdraft
    BY <1>2 DEF Conn
  <1> HIDE DEF n
  <1>4. used' = used + HoldsOf(n) - HoldsOf(r) /\ used' <= Limit
    BY <1>1, <1>2, <1>3, UsedNat, BudgetAssumption DEF HoldsOf, Conn, AccountsInv, Accounted
  <1>5. conns' = [conns EXCEPT ![c] = n] /\ endpoints' = endpoints
    BY <1>1 DEF n
  <1> QED
    BY <1>3, <1>4, <1>5, ConnAccounts, Zenon DEF BudgetInv

LEMMA FundAccounts ==
    ASSUME AccountsInv, NEW u \in Uploads, NEW share \in BOOLEAN, Fund(u, share), BudgetInv'
    PROVE  Accounted'
  <1> DEFINE c == uploads[u].conn
             r == conns[c]
             undrawn == IF r.credit THEN r.undrawn ELSE r.undrawn + Credit
             n == [r EXCEPT !.credit = TRUE, !.wide = TRUE, !.undrawn = undrawn]
  <1>1. c \in Conns /\ r \in Conn /\ endpoints' = endpoints
    BY DEF Fund, AccountsInv, BudgetInv, Types
  <1>2. /\ conns' = [conns EXCEPT ![c] = n]
        /\ used' = IF r.credit THEN used ELSE used + Credit
        /\ ~r.credit => used + Credit <= Limit
    <2>1. CASE r.credit
      BY <2>1 DEF Fund
    <2>2. CASE ~r.credit
      BY <2>2, Zenon DEF Fund, Fits
    <2> QED
      BY <2>1, <2>2
  <1>3. undrawn \in Nat
    BY <1>1, BudgetAssumption DEF Conn
  <1>4. n \in Conn /\ n.at = r.at /\ n.credit /\ n.overdraft = r.overdraft
    BY <1>1, <1>3, Zenon DEF Conn
  <1> HIDE DEF n
  <1>5. used' = used + HoldsOf(n) - HoldsOf(r) /\ used' <= Limit
    BY <1>1, <1>2, <1>4, UsedNat, BudgetAssumption DEF HoldsOf, Conn, AccountsInv, Accounted
  <1> QED
    BY <1>1, <1>2, <1>4, <1>5, ConnAccounts, Zenon DEF BudgetInv

LEMMA EndAccounts ==
    ASSUME AccountsInv, NEW u \in Uploads, EndReading(u), BudgetInv'
    PROVE  Accounted'
  <1> DEFINE c == uploads[u].conn
             r == conns[c]
             drawn == Credit - r.undrawn
             overdraft == r.overdraft + drawn
             n == [r EXCEPT !.credit = FALSE, !.wide = FALSE, !.undrawn = 0, !.overdraft = overdraft]
  <1>1. c \in Conns /\ r \in Conn /\ Sound(r) /\ endpoints' = endpoints
    BY DEF EndReading, AccountsInv, BudgetInv, Types
  <1>2. CASE Readers(c) = {u} /\ r.credit
    <2>1. conns' = [conns EXCEPT ![c] = n] /\ used' = used - (Credit - drawn)
      BY <1>2 DEF EndReading, Returned
    <2>2. drawn \in Nat /\ drawn <= Credit
      BY <1>1, <1>2, BudgetAssumption DEF Sound, Conn
    <2> HIDE DEF drawn
    <2>3. n \in Conn /\ n.at = r.at /\ ~n.credit /\ n.overdraft = r.overdraft + drawn
      <3>1. r.overdraft \in Nat /\ overdraft \in Nat
        BY <1>1, <2>2 DEF Conn
      <3> HIDE DEF overdraft
      <3>2. n \in Conn /\ n.at = r.at /\ ~n.credit /\ n.overdraft = overdraft
        BY <1>1, <3>1, Zenon DEF Conn
      <3> QED
        BY <3>2 DEF overdraft
    <2> HIDE DEF n
    <2>4. used' = used + HoldsOf(n) - HoldsOf(r) /\ used' <= Limit
      BY <1>1, <1>2, <2>1, <2>2, <2>3, UsedNat, BudgetAssumption DEF HoldsOf, Conn, AccountsInv, Accounted
    <2> QED
      BY <1>1, <2>1, <2>3, <2>4, ConnAccounts, Zenon DEF BudgetInv
  <1>3. CASE ~(Readers(c) = {u} /\ r.credit)
    <2>1. conns' = conns /\ used' = used
      BY <1>3 DEF EndReading, Returned
    <2> QED
      BY <1>1, <2>1 DEF AccountsInv, Accounted, States, Held, Holding, Holds, Open
  <1> QED
    BY <1>2, <1>3

\* An endpoint's bytes are used exactly while it is held.
LEMMA EndpointAccounts ==
    ASSUME AccountsInv, NEW e \in Endpoints,
           CountEndpoint(e) \/ ReserveEndpoint(e) \/ ReturnEndpoint(e) \/ ReleaseEndpoint(e)
    PROVE  Accounted'
  <1> DEFINE held == {d \in Endpoints : endpoints[d] = "Held"}
             n == Cardinality(held)
  <1>1. conns' = conns
    BY DEF CountEndpoint, ReserveEndpoint, ReturnEndpoint, ReleaseEndpoint
  <1>2. Tally(Conns, Holding)' = Tally(Conns, Holding) /\ Tally(Conns, Holding) \in Nat
    BY <1>1, UsedNat DEF Holding, Holds, Open
  <1>3. IsFiniteSet(held)
    BY FS_Subset, BudgetAssumption
  <1>4. n \in Nat /\ Held = Endpoint * n
    BY <1>3, FS_CardinalityType DEF Held
  <1>5. States'
    BY DEF AccountsInv, Accounted, States, CountEndpoint, ReserveEndpoint, ReturnEndpoint, ReleaseEndpoint
  <1>6. CASE endpoints' = [endpoints EXCEPT ![e] = "Held"] /\ endpoints[e] = "Counted" /\ used' = used + Endpoint /\ Fits(Endpoint)
    <2>1. held' = held \cup {e} /\ e \notin held
      BY <1>6 DEF AccountsInv, Accounted, States
    <2>2. Cardinality(held') = n + 1
      BY <1>3, <2>1, FS_AddElement, Zenon
    <2> HIDE DEF n, held
    <2>3. Held' = Endpoint * (n + 1)
      BY <2>2 DEF Held, held
    <2>4. Held' = Held + Endpoint /\ Held \in Nat
      BY <1>4, <2>3, BudgetAssumption
    <2> QED
      BY <1>2, <1>5, <1>6, <2>4, UsedNat, BudgetAssumption DEF AccountsInv, Accounted, Fits
  <1>7. CASE endpoints' = [endpoints EXCEPT ![e] = "Returned"] /\ endpoints[e] = "Held" /\ used' = used - Endpoint
    <2>1. held' = held \ {e} /\ e \in held
      BY <1>7 DEF AccountsInv, Accounted, States
    <2>2. Cardinality(held') = n - 1
      BY <1>3, <2>1, FS_RemoveElement, Zenon
    <2> HIDE DEF n, held
    <2>3. Held' = Endpoint * (n - 1)
      BY <2>2 DEF Held, held
    <2>4. Held' = Held - Endpoint /\ Held \in Nat
      BY <1>4, <2>3, BudgetAssumption
    <2> QED
      BY <1>2, <1>5, <1>7, <2>4, UsedNat, BudgetAssumption DEF AccountsInv, Accounted
  <1>8. CASE /\ used' = used /\ endpoints[e] # "Held"
             /\ \E to \in {"Counted", "Dropped"} : endpoints' = [endpoints EXCEPT ![e] = to]
    <2>1. held' = held
      BY <1>8 DEF AccountsInv, Accounted, States
    <2>2. Held' = Held
      BY <2>1 DEF Held
    <2> QED
      BY <1>2, <1>5, <1>8, <2>2 DEF AccountsInv, Accounted
  <1>9. CASE CountEndpoint(e)
    BY <1>8, <1>9 DEF CountEndpoint
  <1>10. CASE ReserveEndpoint(e)
    BY <1>6, <1>8, <1>10 DEF ReserveEndpoint
  <1>11. CASE ReturnEndpoint(e)
    BY <1>7, <1>11 DEF ReturnEndpoint
  <1>12. CASE ReleaseEndpoint(e)
    BY <1>8, <1>12 DEF ReleaseEndpoint
  <1> QED
    BY <1>9, <1>10, <1>11, <1>12

LEMMA AccountsInit == Init => AccountsInv
  <1> SUFFICES ASSUME Init PROVE Accounted
    BY BudgetInit DEF AccountsInv
  <1>1. \A c \in Conns : Holding[c] = 0
    BY DEF Init, Holding, Holds, Open, NoConn
  <1>2. Tally(Conns, Holding) = 0
    BY <1>1, TallyZero
  <1>3. {e \in Endpoints : endpoints[e] = "Held"} = {}
    BY DEF Init
  <1>4. Held = 0
    <2>1. Cardinality({e \in Endpoints : endpoints[e] = "Held"}) = 0
      BY <1>3, FS_EmptySet
    <2> QED
      BY <2>1, BudgetAssumption DEF Held
  <1> QED
    BY <1>2, <1>4, BudgetAssumption DEF Init, Accounted, States

LEMMA AccountsStep == AccountsInv /\ [Next]_vars => AccountsInv'
  <1> SUFFICES ASSUME AccountsInv, [Next]_vars PROVE AccountsInv'
    OBVIOUS
  <1>1. BudgetInv'
    BY BudgetStep DEF AccountsInv
  <1> SUFFICES Accounted'
    BY <1>1 DEF AccountsInv
  <1>2. ASSUME UNCHANGED <<used, endpoints, conns>> PROVE Accounted'
    BY <1>2 DEF AccountsInv, Accounted, States, Held, Holding, Holds, Open
  <1>3. ASSUME NEW e \in Endpoints,
               CountEndpoint(e) \/ ReserveEndpoint(e) \/ ReturnEndpoint(e) \/ ReleaseEndpoint(e)
        PROVE  Accounted'
    BY <1>3, EndpointAccounts
  <1>4. CASE ReadReleased \/ ReadUsed \/ ReadReserved \/ UsePressure
    BY <1>2, <1>4 DEF ReadReleased, ReadUsed, ReadReserved, UsePressure
  <1>5. ASSUME NEW c \in Conns, OpenConnection(c) PROVE Accounted'
    <2>1. used' = used + Floor + NoqFloor /\ used' <= Limit
      BY <1>5, UsedNat, BudgetAssumption DEF OpenConnection, Fits
    <2> QED
      BY <1>1, <1>5, <2>1, ChargedAccounts, BudgetAssumption DEF OpenConnection
  <1>6. ASSUME NEW c \in Conns, RefuseConnection(c) \/ EndConnection(c) \/ DropConnection(c) PROVE Accounted'
    BY <1>1, <1>6, MovedAccounts
  <1>7. ASSUME NEW c \in Conns, NEW bytes \in 1..Most, TryCharge(c, bytes) PROVE Accounted'
    <2>1. bytes \in Nat
      BY BudgetAssumption
    <2>2. Charges(c, bytes) \in Nat
      BY <2>1, MinOfTwo DEF Charges, AccountsInv, BudgetInv, Types, Conn
    <2>3. used' = used + Charges(c, bytes) /\ used' <= Limit
      BY <1>7, <2>2, UsedNat, BudgetAssumption DEF TryCharge, Fits, AccountsInv, Accounted
    <2> QED
      BY <1>1, <1>7, <2>1, <2>3, ChargedAccounts DEF TryCharge
  <1>8. ASSUME NEW c \in Conns, NEW bytes \in 1..Most, Refund(c, bytes) PROVE Accounted'
    BY <1>1, <1>8, RefundAccounts, BudgetAssumption
  <1>9. ASSUME NEW c \in Conns, NEW u \in Uploads, BeginReading(u, c) PROVE Accounted'
    BY <1>2, <1>9 DEF BeginReading
  <1>10. ASSUME NEW u \in Uploads, NEW share \in BOOLEAN, Fund(u, share) PROVE Accounted'
    BY <1>1, <1>10, FundAccounts
  <1>11. ASSUME NEW u \in Uploads, EndReading(u) PROVE Accounted'
    BY <1>1, <1>11, EndAccounts
  <1>12. CASE UNCHANGED vars
    BY <1>2, <1>12 DEF vars
  <1> QED
    BY <1>3, <1>4, <1>5, <1>6, <1>7, <1>8, <1>9, <1>10, <1>11, <1>12, SMTT(60) DEF Next

\* However endpoints come and go, and whatever noq charges and refunds while uploads
\* raise and return the credit (limits/budget.rs, transport/quic/budget.rs), every
\* byte used is held by someone and within the limit, a connection's accounts are
\* exact, and its credit follows its uploads.
THEOREM BudgetIsExact == Spec => []BudgetExact
  <1>1. Init => AccountsInv
    BY AccountsInit
  <1>2. AccountsInv /\ [Next]_vars => AccountsInv'
    BY AccountsStep
  <1>3. AccountsInv => BudgetExact
    BY BudgetKept DEF AccountsInv, Accounted, BudgetInv, BudgetExact, Holding
  <1> QED
    BY <1>1, <1>2, <1>3, PTL DEF Spec

(***************************************************************************)
(* The pressure.  Its three reads take the released total before the       *)
(* reserved one, so the reservations they leave out are at least the ones  *)
(* held when the use was read: the rest is what limit / 4 rounds.          *)
(***************************************************************************)
Waiting == {e \in Endpoints : endpoints[e] \in {"Counted", "Returned"}}
HeldOnes == {e \in Endpoints : endpoints[e] = "Held"}
Bytes(S) == Endpoint * Cardinality(S)

Totals == reserved \in Nat /\ released \in Nat /\ reserved = released + Bytes(Waiting) + Bytes(HeldOnes)

Reading ==
    /\ reader \in [pc : {"Idle", "Used", "Reserved", "Done"}, released : Nat, used : Nat, held : Nat, level : Nat]
    /\ reader.pc = "Used" => reader.released <= released
    /\ reader.pc = "Reserved" =>
         reader.held + reader.released <= reserved /\ reader.held <= reader.used /\ reader.used <= Limit
    /\ PressureBounded

ReaderInv == Totals /\ Reading

\* An endpoint's bytes come and go with it.
LEMMA BytesMove ==
    ASSUME NEW S \in SUBSET Endpoints, NEW e \in Endpoints
    PROVE  /\ Bytes(S) \in Nat
           /\ e \notin S => Bytes(S \cup {e}) = Bytes(S) + Endpoint
           /\ e \in S => Bytes(S \ {e}) = Bytes(S) - Endpoint
  <1>1. IsFiniteSet(S)
    BY FS_Subset, BudgetAssumption, Zenon
  <1>2. Cardinality(S) \in Nat
    BY <1>1, FS_CardinalityType, Zenon
  <1>3. e \notin S => Cardinality(S \cup {e}) = Cardinality(S) + 1
    BY <1>1, FS_AddElement, Zenon
  <1>4. e \in S => Cardinality(S \ {e}) = Cardinality(S) - 1
    BY <1>1, FS_RemoveElement, Zenon
  <1>5. \A n \in Nat : /\ Endpoint * n \in Nat /\ Endpoint * (n + 1) = Endpoint * n + Endpoint
                       /\ Endpoint * (n - 1) = Endpoint * n - Endpoint
    BY BudgetAssumption, SMT
  <1> QED
    BY <1>2, <1>3, <1>4, <1>5, Zenon DEF Bytes

\* Each step of an endpoint keeps the totals, which only grow.
LEMMA TotalsStep ==
    ASSUME States, Totals, NEW e \in Endpoints,
           CountEndpoint(e) \/ ReserveEndpoint(e) \/ ReturnEndpoint(e) \/ ReleaseEndpoint(e)
    PROVE  Totals' /\ released' >= released /\ reserved' >= reserved
  <1> DEFINE w == Bytes(Waiting)
             h == Bytes(HeldOnes)
  <1>1. Waiting \in SUBSET Endpoints /\ HeldOnes \in SUBSET Endpoints
    BY Zenon DEF Waiting, HeldOnes
  <1>2. /\ w \in Nat /\ h \in Nat
        /\ e \notin Waiting => Bytes(Waiting \cup {e}) = w + Endpoint
        /\ e \in Waiting => Bytes(Waiting \ {e}) = w - Endpoint
        /\ e \notin HeldOnes => Bytes(HeldOnes \cup {e}) = h + Endpoint
        /\ e \in HeldOnes => Bytes(HeldOnes \ {e}) = h - Endpoint
    BY <1>1, BytesMove, Zenon
  <1>3. reserved \in Nat /\ released \in Nat /\ reserved = released + w + h /\ Endpoint \in Nat
    BY BudgetAssumption, Zenon DEF Totals
  <1> HIDE DEF w, h
  <1>4. CASE CountEndpoint(e)
    <2>1. reserved' = reserved + Endpoint /\ released' = released
          /\ endpoints' = [endpoints EXCEPT ![e] = "Counted"] /\ endpoints[e] = "None"
      BY <1>4, Zenon DEF CountEndpoint
    <2>2. Waiting' = Waiting \cup {e} /\ HeldOnes' = HeldOnes /\ e \notin Waiting
      BY <2>1 DEF States, Waiting, HeldOnes
    <2>3. Bytes(Waiting') = w + Endpoint /\ Bytes(HeldOnes') = h
      BY <1>2, <2>2, Zenon DEF h
    <2>4. reserved' \in Nat /\ reserved' = released' + (w + Endpoint) + h /\ reserved' >= reserved /\ released' >= released
      BY <1>2, <1>3, <2>1, SMT
    <2> QED
      BY <1>3, <2>1, <2>3, <2>4, Zenon DEF Totals, Bytes
  <1>5. CASE ReserveEndpoint(e) /\ Fits(Endpoint)
    <2>1. reserved' = reserved /\ released' = released
          /\ endpoints' = [endpoints EXCEPT ![e] = "Held"] /\ endpoints[e] = "Counted"
      BY <1>5, Zenon DEF ReserveEndpoint
    <2>2. Waiting' = Waiting \ {e} /\ HeldOnes' = HeldOnes \cup {e} /\ e \in Waiting /\ e \notin HeldOnes
      BY <2>1 DEF States, Waiting, HeldOnes
    <2>3. Bytes(Waiting') = w - Endpoint /\ Bytes(HeldOnes') = h + Endpoint
      BY <1>2, <2>2, Zenon
    <2>4. reserved' = released' + (w - Endpoint) + (h + Endpoint) /\ reserved' >= reserved /\ released' >= released
      BY <1>2, <1>3, <2>1, SMT
    <2> QED
      BY <1>3, <2>1, <2>3, <2>4, Zenon DEF Totals, Bytes
  <1>6. CASE (ReserveEndpoint(e) /\ ~Fits(Endpoint)) \/ ReleaseEndpoint(e)
    <2>1. reserved' = reserved /\ released' = released + Endpoint
          /\ endpoints' = [endpoints EXCEPT ![e] = "Dropped"] /\ endpoints[e] \in {"Counted", "Returned"}
      BY <1>6, Zenon DEF ReserveEndpoint, ReleaseEndpoint
    <2>2. Waiting' = Waiting \ {e} /\ HeldOnes' = HeldOnes /\ e \in Waiting
      BY <2>1 DEF States, Waiting, HeldOnes
    <2>3. Bytes(Waiting') = w - Endpoint /\ Bytes(HeldOnes') = h
      BY <1>2, <2>2, Zenon DEF h
    <2>4. /\ released' \in Nat /\ reserved' = released' + (w - Endpoint) + h
          /\ reserved' >= reserved /\ released' >= released
      BY <1>2, <1>3, <2>1, SMT
    <2> QED
      BY <1>3, <2>1, <2>3, <2>4, Zenon DEF Totals, Bytes
  <1>7. CASE ReturnEndpoint(e)
    <2>1. reserved' = reserved /\ released' = released
          /\ endpoints' = [endpoints EXCEPT ![e] = "Returned"] /\ endpoints[e] = "Held"
      BY <1>7, Zenon DEF ReturnEndpoint
    <2>2. Waiting' = Waiting \cup {e} /\ HeldOnes' = HeldOnes \ {e} /\ e \notin Waiting /\ e \in HeldOnes
      BY <2>1 DEF States, Waiting, HeldOnes
    <2>3. Bytes(Waiting') = w + Endpoint /\ Bytes(HeldOnes') = h - Endpoint
      BY <1>2, <2>2, Zenon
    <2>4. reserved' = released' + (w + Endpoint) + (h - Endpoint) /\ reserved' >= reserved /\ released' >= released
      BY <1>2, <1>3, <2>1, SMT
    <2> QED
      BY <1>3, <2>1, <2>3, <2>4, Zenon DEF Totals, Bytes
  <1> QED
    BY <1>4, <1>5, <1>6, <1>7, Zenon

LEMMA Quarter == ASSUME NEW n \in Nat PROVE n \div 4 \in Nat /\ 4 * (n \div 4) <= n /\ n <= 4 * (n \div 4) + 3
  BY SMT

\* Leaving out more than is reserved lowers the pressure, but for the rounding.
LEMMA LevelBound ==
    ASSUME NEW limit \in Nat, NEW use \in Nat, use <= limit, NEW more \in Nat, more <= use
    PROVE  /\ Level(limit - more, use - more) \in Nat
           /\ Level(limit - more, use - more) >= 1 => use >= limit \div 4
           /\ Level(limit - more, use - more) = 2 => 4 * use + 9 >= 3 * limit
  <1> DEFINE rest == limit - more
             q == rest \div 4
             p == limit \div 4
  <1>1. rest \in Nat /\ use - more \in Nat
    BY SMT
  <1>2. q \in Nat /\ 4 * q <= rest /\ rest <= 4 * q + 3
    BY <1>1, Quarter, Zenon
  <1>3. p \in Nat /\ 4 * p <= limit /\ limit <= 4 * p + 3
    BY Quarter, Zenon
  <1>4. Level(rest, use - more) = IF use - more >= q * 3 THEN 2 ELSE IF use - more >= q THEN 1 ELSE 0
    BY Zenon DEF Level
  <1>5. limit = rest + more
    BY <1>1, SMT
  <1> HIDE DEF rest, q, p
  <1>6. use - more >= q => use >= p
    BY <1>1, <1>2, <1>3, <1>5, SMT
  <1>7. use - more >= q * 3 => use - more >= q /\ 4 * use + 9 >= 3 * limit
    BY <1>1, <1>2, <1>5, SMT
  <1>8. /\ Level(rest, use - more) \in Nat
        /\ Level(rest, use - more) >= 1 => use - more >= q
        /\ Level(rest, use - more) = 2 => use - more >= q * 3
    BY <1>4, <1>7, SMT
  <1> QED
    BY <1>6, <1>7, <1>8, Zenon DEF rest, p

\* A reader at rest keeps what it read, as the totals only grow.
LEMMA ReadingStays ==
    ASSUME Totals, Reading, Totals', released' >= released, reserved' >= reserved, reader' = reader
    PROVE  Reading'
  <1>1. PressureBounded'
    BY Zenon DEF Reading, PressureBounded
  <1>2. reader.pc = "Used" => reader.released <= released'
    <2>1. released \in Nat /\ released' \in Nat /\ reader.released \in Nat
      BY DEF Totals, Reading
    <2>2. reader.pc = "Used" => reader.released <= released
      BY Zenon DEF Reading
    <2> QED
      BY <2>1, <2>2, SMT
  <1>3. reader.pc = "Reserved" => reader.held + reader.released <= reserved'
    <2>1. reserved \in Nat /\ reserved' \in Nat /\ reader.released \in Nat /\ reader.held \in Nat
      BY DEF Totals, Reading
    <2>2. reader.pc = "Reserved" => reader.held + reader.released <= reserved
      BY Zenon DEF Reading
    <2> QED
      BY <2>1, <2>2, SMT
  <1> QED
    BY <1>1, <1>2, <1>3, Zenon DEF Reading

\* The three reads, in the order that lets them leave out too much only.
LEMMA ReadingMoves ==
    ASSUME AccountsInv, Totals, Reading, ReadReleased \/ ReadUsed \/ ReadReserved \/ UsePressure
    PROVE  Reading'
  <1> DEFINE Reads == [pc : {"Idle", "Used", "Reserved", "Done"}, released : Nat, used : Nat, held : Nat, level : Nat]
  <1>0. reader \in Reads /\ reserved \in Nat /\ released \in Nat /\ used \in Nat /\ Held \in Nat /\ Limit \in Nat
    BY UsedNat, HeldNat, BudgetAssumption, Zenon DEF Reading, Totals
  <1>1. CASE ReadReleased
    <2>1. reader' = [reader EXCEPT !.pc = "Used", !.released = released] /\ released' = released
      BY <1>1, Zenon DEF ReadReleased
    <2>2. reader' \in Reads /\ reader'.pc = "Used" /\ reader'.released = released
      BY <1>0, <2>1, Zenon
    <2>3. released <= released
      BY <1>0, SMT
    <2> QED
      BY <2>1, <2>2, <2>3, Zenon DEF Reading, PressureBounded
  <1>2. CASE ReadUsed
    <2>1. reader' = [reader EXCEPT !.pc = "Reserved", !.used = used, !.held = Held] /\ reserved' = reserved
          /\ reader.pc = "Used"
      BY <1>2, Zenon DEF ReadUsed
    <2>2. reader' \in Reads /\ reader'.pc = "Reserved" /\ reader'.used = used /\ reader'.held = Held
          /\ reader'.released = reader.released /\ reader.released \in Nat
      BY <1>0, <2>1, Zenon
    <2>3. Held = Bytes(HeldOnes) /\ Bytes(Waiting) \in Nat
      <3>1. Held = Bytes(HeldOnes)
        BY Zenon DEF Held, Bytes, HeldOnes
      <3>2. IsFiniteSet(Waiting)
        BY FS_Subset, BudgetAssumption DEF Waiting
      <3>3. Cardinality(Waiting) \in Nat
        BY <3>2, FS_CardinalityType, Zenon
      <3> QED
        BY <3>1, <3>3, BudgetAssumption, SMT DEF Bytes
    <2>4. Held + reader.released <= reserved
      <3>1. reader.released <= released
        BY <2>1, Zenon DEF Reading
      <3> QED
        BY <1>0, <2>2, <2>3, <3>1, SMT DEF Totals
    <2>5. Held <= used /\ used <= Limit
      BY <1>0, UsedNat, SMT DEF AccountsInv, Accounted
    <2> QED
      BY <2>1, <2>2, <2>4, <2>5, Zenon DEF Reading, PressureBounded
  <1>3. CASE ReadReserved
    <2> DEFINE kept == Min({reserved - reader.released, reader.used})
               lv == Level(Limit - kept, reader.used - kept)
               limit == Limit - reader.held
               use == reader.used - reader.held
               more == kept - reader.held
    <2>1. reader' = [reader EXCEPT !.pc = "Done", !.released = 0, !.level = lv] /\ reader.pc = "Reserved"
      BY <1>3, Zenon DEF ReadReserved
    <2>2. /\ reader.held + reader.released <= reserved /\ reader.held <= reader.used /\ reader.used <= Limit
          /\ reader.held \in Nat /\ reader.released \in Nat /\ reader.used \in Nat
      BY <1>0, <2>1 DEF Reading
    <2>3. reserved - reader.released \in Nat /\ reader.held <= reserved - reader.released
      BY <1>0, <2>2, SMT
    <2>4. kept \in Nat /\ kept <= reader.used /\ kept \in {reserved - reader.released, reader.used}
      BY <2>2, <2>3, MinOfTwo, Zenon
    <2>5. reader.held <= kept
      BY <2>2, <2>3, <2>4, Zenon
    <2> HIDE DEF kept
    <2>6. limit \in Nat /\ use \in Nat /\ use <= limit /\ more \in Nat /\ more <= use
          /\ Limit - kept = limit - more /\ reader.used - kept = use - more
      BY <1>0, <2>2, <2>4, <2>5, SMT
    <2>7. lv = Level(limit - more, use - more)
      BY <2>6, Zenon
    <2> HIDE DEF limit, use, more, lv
    <2>8. lv \in Nat /\ (lv >= 1 => use >= limit \div 4) /\ (lv = 2 => 4 * use + 9 >= 3 * limit)
      BY <2>6, <2>7, LevelBound, Zenon
    <2>9. /\ reader' \in Reads /\ reader'.pc = "Done" /\ reader'.level = lv
          /\ reader'.held = reader.held /\ reader'.used = reader.used
      BY <1>0, <2>1, <2>8, Zenon
    <2>10. PressureBounded'
      BY <2>8, <2>9, Zenon DEF PressureBounded, limit, use
    <2> QED
      BY <2>9, <2>10, Zenon DEF Reading
  <1>4. CASE UsePressure
    <2>1. reader' = NoReader
      BY <1>4, Zenon DEF UsePressure
    <2>2. reader' \in Reads /\ reader'.pc = "Idle"
      BY <2>1, SMT DEF NoReader
    <2> QED
      BY <2>2, Zenon DEF Reading, PressureBounded
  <1> QED
    BY <1>1, <1>2, <1>3, <1>4

LEMMA ReaderInit == Init => ReaderInv
  <1> SUFFICES ASSUME Init PROVE ReaderInv
    OBVIOUS
  <1>1. reserved = 0 /\ released = 0 /\ reader = NoReader
    BY Zenon DEF Init
  <1>2. Waiting = {} /\ HeldOnes = {}
    BY DEF Init, Waiting, HeldOnes
  <1>3. Bytes(Waiting) = 0 /\ Bytes(HeldOnes) = 0
    <2>1. Cardinality(Waiting) = 0 /\ Cardinality(HeldOnes) = 0
      BY <1>2, FS_EmptySet, Zenon
    <2> QED
      BY <2>1, BudgetAssumption, SMT DEF Bytes
  <1>4. Totals
    BY <1>1, <1>3, SMT DEF Totals
  <1>5. Reading
    BY <1>1, SMT DEF Reading, PressureBounded, NoReader
  <1> QED
    BY <1>4, <1>5, Zenon DEF ReaderInv

LEMMA ReaderStep == ASSUME AccountsInv, ReaderInv, [Next]_vars PROVE ReaderInv'
  <1>1. Totals /\ Reading /\ States /\ reserved \in Nat /\ released \in Nat
    BY Zenon DEF ReaderInv, AccountsInv, Accounted, Totals
  <1>2. reserved >= reserved /\ released >= released
    BY <1>1, SMT
  <1>3. ASSUME UNCHANGED <<reserved, released, endpoints>> PROVE Totals' /\ (reader' = reader => Reading')
    <2>1. Totals'
      BY <1>1, <1>3, Zenon DEF Totals, Waiting, HeldOnes, Bytes
    <2> QED
      BY <1>1, <1>2, <1>3, <2>1, ReadingStays, Zenon
  <1>4. ASSUME NEW e \in Endpoints,
               CountEndpoint(e) \/ ReserveEndpoint(e) \/ ReturnEndpoint(e) \/ ReleaseEndpoint(e)
        PROVE  ReaderInv'
    <2>1. Totals' /\ released' >= released /\ reserved' >= reserved
      BY <1>1, <1>4, TotalsStep, Zenon
    <2>2. reader' = reader
      BY <1>4, Zenon DEF CountEndpoint, ReserveEndpoint, ReturnEndpoint, ReleaseEndpoint
    <2> QED
      BY <1>1, <2>1, <2>2, ReadingStays, Zenon DEF ReaderInv
  <1>5. ASSUME ReadReleased \/ ReadUsed \/ ReadReserved \/ UsePressure PROVE ReaderInv'
    <2>1. UNCHANGED <<reserved, released, endpoints>>
      BY <1>5, Zenon DEF ReadReleased, ReadUsed, ReadReserved, UsePressure
    <2> QED
      BY <1>1, <1>3, <1>5, <2>1, ReadingMoves, Zenon DEF ReaderInv
  <1>6. ASSUME UNCHANGED <<reserved, released, endpoints, reader>> PROVE ReaderInv'
    BY <1>3, <1>6, Zenon DEF ReaderInv
  <1>7. ASSUME NEW c \in Conns,
               OpenConnection(c) \/ RefuseConnection(c) \/ EndConnection(c) \/ DropConnection(c)
        PROVE  ReaderInv'
    BY <1>6, <1>7, Zenon DEF OpenConnection, Charged, RefuseConnection, EndConnection, DropConnection
  <1>8. ASSUME NEW c \in Conns, NEW bytes \in 1..Most, TryCharge(c, bytes) \/ Refund(c, bytes) PROVE ReaderInv'
    BY <1>6, <1>8, Zenon DEF TryCharge, Charged, Refund, Refunded
  <1>9. ASSUME NEW c \in Conns, NEW u \in Uploads, BeginReading(u, c) PROVE ReaderInv'
    BY <1>6, <1>9, Zenon DEF BeginReading
  <1>10. ASSUME NEW u \in Uploads, EndReading(u) \/ \E share \in BOOLEAN : Fund(u, share) PROVE ReaderInv'
    BY <1>6, <1>10, Zenon DEF EndReading, Fund
  <1>11. CASE UNCHANGED vars
    BY <1>6, <1>11, Zenon DEF vars
  <1> QED
    BY <1>4, <1>5, <1>7, <1>8, <1>9, <1>10, <1>11, Zenon DEF Next

\* unreserved() and pressure() of limits/budget.rs read three counters that others
\* change meanwhile: whatever comes between, for every limit and endpoint size, the
\* pressure found is not above that of the reservations held when the use was read,
\* but for the bytes that limit / 4 * 3 rounds away.
THEOREM PressureNotOverread == Spec => []PressureBounded
  <1>1. Init => AccountsInv /\ ReaderInv
    BY AccountsInit, ReaderInit, Zenon
  <1>2. AccountsInv /\ ReaderInv /\ [Next]_vars => AccountsInv' /\ ReaderInv'
    BY AccountsStep, ReaderStep, Zenon
  <1>3. ReaderInv => PressureBounded
    BY Zenon DEF ReaderInv, Reading
  <1> QED
    BY <1>1, <1>2, <1>3, PTL DEF Spec
==============================================================================
