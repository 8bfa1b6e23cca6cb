---------------------------- MODULE HistorySaving ----------------------------
(***************************************************************************)
(* Saving results in the browser's History: one tab's queue of writes      *)
(* (saving.ts) over the database that every tab shares (repository.ts).    *)
(* The other tabs save, delete and clear as they like.                     *)
(*                                                                         *)
(* `requests' are this tab's transactions: the database commits them in    *)
(* order, and the tab hears of each later.  Records are numbered as they    *)
(* complete; warnings' wording is left out.  A step of the page runs to    *)
(* its end: nothing else happens here while `drain' is "Loop".             *)
(***************************************************************************)
EXTENDS Integers, SequencesExt

CONSTANTS
    MaxQueued,    \* writes waiting in a tab
    Limit,        \* rows kept
    MaxRecords, MaxClears, MaxFaults, MaxNotices, MaxRequests   \* bounds of the instance

VARIABLES
    rows, clears,         \* the database: the records kept, the clears ever made
    requests,             \* this tab's transactions not yet heard of
    notices,              \* other tabs' changes, not yet heard of here
    queue,                \* the writes waiting: a record, the count it was queued under, the changes by then
    drain,                \* the drain's step: "Idle", "Loop", "Counting", "Reading" or "Putting"
    retrying,             \* the retry timer is set
    settled, lost,        \* records done: in History or not; those refused or given up
    offered, saving,      \* the result shown, the preference
    known, changes,       \* the count of clears believed current, the clears heard of
    completed, faults,    \* bounds' counters
    overtaken,            \* queued records whose count was read and that a clear overtook
    crossed               \* a notice was heard before the answer to an earlier request

db == <<rows, clears>>
tab == <<queue, drain, retrying, settled, lost, offered, saving, known, changes>>
seen == <<overtaken, crossed>>
vars == <<db, requests, notices, tab, completed, faults, seen>>

None == 0
Unread == -1    \* a count asked for
Unknown == -2   \* a count that could not be read, and none known
Refused == -3   \* a database that refuses

Init ==
    /\ rows = {} /\ clears = 0 /\ requests = <<>> /\ notices = 0
    /\ queue = <<>> /\ drain = "Idle" /\ retrying = FALSE /\ settled = <<>> /\ lost = {}
    /\ offered = None /\ saving \in BOOLEAN /\ known = Unknown /\ changes = 0
    /\ completed = 0 /\ faults = 0 /\ overtaken = {} /\ crossed = FALSE

Request(kind, record, count) ==
    [kind |-> kind, record |-> record, count |-> count, pruned |-> {}, done |-> "Waiting"]

Settle(map, record, written) == [id \in DOMAIN map \cup {record} |-> IF id = record THEN written ELSE map[id]]

Drop(map, ids) == [id \in DOMAIN map |-> map[id] /\ id \notin ids]

(***************************************************************************)
(* The queue.                                                              *)
(***************************************************************************)
\* A full queue gives up the oldest write behind the head, which may be under way.
Shortened == IF Len(queue) >= MaxQueued THEN RemoveAt(queue, 2) ELSE queue

Queued(record) == \E i \in DOMAIN queue : queue[i].record = record

EnqueueOnly(record, before, spared) ==
    /\ UNCHANGED drain
    /\ IF record \in DOMAIN before \/ Queued(record)
       THEN settled' = before /\ lost' = spared /\ UNCHANGED <<queue, requests>>
       ELSE /\ queue' = Append(Shortened, [record |-> record, clears |-> Unread, at |-> changes])
            /\ settled' = before /\ lost' = spared
            /\ requests' = Append(requests, Request("Count", record, 0))

\* A record is queued once, under the count of clears now asked for; what is
\* settled already stays so.
Enqueue(record, before, spared) ==
    IF record \in DOMAIN before \/ Queued(record)
    THEN settled' = before /\ lost' = spared /\ UNCHANGED <<queue, requests, drain>>
    ELSE LET gone == {queue[i].record : i \in DOMAIN queue} \ {Shortened[i].record : i \in DOMAIN Shortened}
         IN /\ queue' = Append(Shortened, [record |-> record, clears |-> Unread, at |-> changes])
            /\ settled' = [id \in DOMAIN before \cup gone |-> id \notin gone /\ before[id]]
            /\ lost' = spared \cup gone
            /\ requests' = Append(requests, Request("Count", record, 0))
            /\ drain' = IF drain = "Idle" THEN "Loop" ELSE drain

\* What a page's step needs: its loop has run out, and there is room to ask.
Free == drain # "Loop" /\ Len(requests) < MaxRequests

Offer ==
    /\ Free /\ completed < MaxRecords /\ completed' = completed + 1 /\ offered' = completed'
    /\ IF saving THEN Enqueue(completed', <<>>, {})
       ELSE settled' = <<>> /\ lost' = {} /\ UNCHANGED <<queue, requests, drain>>
    /\ UNCHANGED <<db, notices, retrying, saving, known, changes, faults, seen>>

Withdraw ==
    /\ Free /\ offered # None /\ offered' = None
    /\ UNCHANGED <<db, requests, notices, queue, drain, retrying, settled, lost, saving, known, changes, completed, faults, seen>>

\* The preference, set here or in another tab: switched on, it saves the result shown.
Switch ==
    /\ Free /\ saving' = ~saving
    /\ IF saving' /\ offered # None THEN Enqueue(offered, settled, lost)
       ELSE UNCHANGED <<queue, requests, drain, settled, lost>>
    /\ UNCHANGED <<db, notices, retrying, offered, known, changes, completed, faults, seen>>

(***************************************************************************)
(* The drain: one write after the other, until one fails.                  *)
(***************************************************************************)
\* The head's write is over; a message is a refusal's or a write given up.
Settled(written, told) ==
    LET record == Head(queue).record
    IN /\ queue' = Tail(queue) /\ settled' = Settle(settled, record, written)
       /\ lost' = IF ~written /\ told THEN lost \cup {record} ELSE lost
       /\ drain' = "Loop"

\* Only a count from before the next change is the one a record was queued under.
Reread(entry) == changes = entry.at

Loop ==
    /\ drain = "Loop"
    /\ IF queue = <<>>
       THEN drain' = "Idle" /\ retrying' = FALSE /\ UNCHANGED <<requests, queue, settled, lost>>
       ELSE LET entry == Head(queue)
            IN /\ UNCHANGED retrying
               /\ \/ /\ entry.clears = Unread /\ drain' = "Counting" /\ UNCHANGED <<requests, queue, settled, lost>>
                  \/ entry.clears = Refused /\ Settled(FALSE, TRUE) /\ UNCHANGED requests
                  \/ entry.clears = Unknown /\ ~Reread(entry) /\ Settled(FALSE, TRUE) /\ UNCHANGED requests
                  \/ /\ entry.clears = Unknown /\ Reread(entry) /\ drain' = "Reading"
                     /\ requests' = Append(requests, Request("Read", entry.record, 0))
                     /\ UNCHANGED <<queue, settled, lost>>
                  \/ /\ entry.clears >= 0 /\ drain' = "Putting"
                     /\ requests' = Append(requests, Request("Put", entry.record, entry.clears))
                     /\ UNCHANGED <<queue, settled, lost>>
    /\ UNCHANGED <<db, notices, offered, saving, known, changes, completed, faults, seen>>

\* The timer, or the window's focus.
Retry ==
    /\ Free /\ retrying /\ drain = "Idle" /\ drain' = "Loop"
    /\ UNCHANGED <<db, requests, notices, queue, retrying, settled, lost, offered, saving, known, changes, completed, faults, seen>>

Fail == drain' = "Idle" /\ retrying' = TRUE /\ UNCHANGED <<queue, settled, lost>>

(***************************************************************************)
(* The database.  A clear is counted with the rows it deletes.             *)
(***************************************************************************)
\* Past the limit the oldest go, and the record itself if that is it.
Past(all) == IF Cardinality(all) <= Limit THEN {} ELSE {r \in all : Cardinality({s \in all : s >= r}) > Limit}

\* A write queued before a clear of any tab is dropped.
Writes(request) == clears <= request.count

Overtake ==
    overtaken' = overtaken \cup {queue[i].record : i \in {j \in DOMAIN queue : queue[j].clears >= 0}}

FirstWaiting == CHOOSE i \in DOMAIN requests :
    requests[i].done = "Waiting" /\ \A j \in 1..(i - 1) : requests[j].done # "Waiting"

Answer(i, answer) == requests' = [requests EXCEPT ![i] = answer]

Commit ==
    /\ \E i \in DOMAIN requests : requests[i].done = "Waiting"
    /\ LET i == FirstWaiting
           request == requests[i]
           all == rows \cup {request.record}
           ok == [request EXCEPT !.done = "Ok"]
       IN \/ /\ request.kind \in {"Count", "Read"} /\ Answer(i, [ok EXCEPT !.count = clears])
             /\ UNCHANGED <<db, overtaken>>
          \/ /\ request.kind = "Inspect" /\ Answer(i, [ok EXCEPT !.count = IF request.record \in rows THEN 1 ELSE 0])
             /\ UNCHANGED <<db, overtaken>>
          \/ /\ request.kind = "Put" /\ Writes(request) /\ rows' = all \ Past(all)
             /\ Answer(i, [ok EXCEPT !.pruned = Past(all)]) /\ UNCHANGED <<clears, overtaken>>
          \/ /\ request.kind = "Put" /\ ~Writes(request) /\ Answer(i, [request EXCEPT !.done = "Dropped"])
             /\ UNCHANGED <<db, overtaken>>
          \/ /\ request.kind = "Delete" /\ rows' = rows \ {request.record} /\ Answer(i, ok)
             /\ UNCHANGED <<clears, overtaken>>
          \/ /\ request.kind = "Clear" /\ clears < MaxClears /\ rows' = {} /\ clears' = clears + 1
             /\ Answer(i, ok) /\ Overtake
    /\ UNCHANGED <<notices, tab, completed, faults, crossed>>

\* A transaction or an open fails; a refusal is final.
Break ==
    /\ faults < MaxFaults /\ faults' = faults + 1
    /\ \E i \in DOMAIN requests : requests[i].done = "Waiting"
    /\ \E done \in {"Failed", "Refused"} :
          Answer(FirstWaiting, [requests[FirstWaiting] EXCEPT !.done = done])
    /\ UNCHANGED <<db, notices, tab, completed, seen>>

OtherSaves ==
    /\ completed < MaxRecords /\ completed' = completed + 1 /\ notices < MaxNotices
    /\ LET all == rows \cup {completed'} IN rows' = all \ Past(all)
    /\ notices' = notices + 1 /\ UNCHANGED <<clears, requests, tab, faults, seen>>

OtherDeletes ==
    /\ notices < MaxNotices /\ notices' = notices + 1 /\ \E record \in rows : rows' = rows \ {record}
    /\ UNCHANGED <<clears, requests, tab, completed, faults, seen>>

OtherClears ==
    /\ notices < MaxNotices /\ clears < MaxClears /\ notices' = notices + 1
    /\ rows' = {} /\ clears' = clears + 1 /\ Overtake
    /\ UNCHANGED <<requests, tab, completed, faults, crossed>>

(***************************************************************************)
(* What this tab hears.                                                    *)
(***************************************************************************)
\* Deletions here are heard by their ids, a clear by all that was settled.
Hear(ids) == settled' = Drop(settled, ids)

Counted(request) ==
    LET value == CASE request.done = "Ok" -> request.count
                   [] request.done = "Failed" -> known
                   [] request.done = "Refused" -> Refused
        at == {i \in DOMAIN queue : queue[i].record = request.record}
    IN /\ queue' = [i \in DOMAIN queue |-> IF i \in at THEN [queue[i] EXCEPT !.clears = value] ELSE queue[i]]
       /\ known' = IF request.done = "Ok" THEN request.count ELSE known
       /\ drain' = IF drain = "Counting" /\ 1 \in at THEN "Loop" ELSE drain
       /\ UNCHANGED <<retrying, settled, lost, changes>>

\* The count read at last goes straight into the write.
Reads(request, rest) ==
    \/ /\ request.done = "Ok" /\ known' = request.count /\ drain' = "Putting"
       /\ requests' = Append(rest, Request("Put", request.record, request.count))
       /\ UNCHANGED <<queue, retrying, settled, lost>>
    \/ request.done = "Failed" /\ Fail /\ requests' = rest /\ UNCHANGED known
    \/ request.done = "Refused" /\ Settled(FALSE, TRUE) /\ requests' = rest /\ UNCHANGED <<retrying, known>>

Puts(request) ==
    LET kept == request.done = "Ok" /\ request.record \notin request.pruned
        heard == Drop(settled, request.pruned)
    IN \/ request.done = "Failed" /\ Fail
       \/ /\ request.done # "Failed" /\ UNCHANGED retrying /\ drain' = "Loop" /\ queue' = Tail(queue)
          /\ settled' = Settle(heard, request.record, kept)
          /\ lost' = IF kept \/ request.done = "Dropped" THEN lost ELSE lost \cup {request.record}

Deliver ==
    /\ Len(requests) > 0 /\ drain # "Loop"
    /\ LET request == Head(requests)
           rest == Tail(requests)
       IN /\ request.done # "Waiting"
          /\ \/ request.kind = "Count" /\ Counted(request) /\ requests' = rest
             \/ request.kind = "Read" /\ Reads(request, rest) /\ UNCHANGED changes
             \/ request.kind = "Put" /\ Puts(request) /\ requests' = rest /\ UNCHANGED <<known, changes>>
             \/ /\ request.kind = "Inspect" /\ requests' = rest
                /\ IF request.done = "Ok" /\ request.count = 0 THEN Hear({request.record}) ELSE UNCHANGED settled
                /\ UNCHANGED <<queue, drain, retrying, lost, known, changes>>
             \/ /\ request.kind = "Delete" /\ requests' = rest
                /\ IF request.done = "Ok" THEN Hear({request.record}) ELSE UNCHANGED settled
                /\ UNCHANGED <<queue, drain, retrying, lost, known, changes>>
             \/ /\ request.kind = "Clear" /\ requests' = rest
                /\ IF request.done = "Ok"
                   THEN Hear(DOMAIN settled) /\ changes' = changes + 1 /\ known' = IF known >= 0 THEN known + 1 ELSE known
                   ELSE UNCHANGED <<settled, changes, known>>
                /\ UNCHANGED <<queue, drain, retrying, lost>>
    /\ UNCHANGED <<db, notices, offered, saving, completed, faults, seen>>

\* Another tab changed History, it does not say how: the result shown is looked up.
Notice ==
    /\ Free /\ notices > 0 /\ notices' = notices - 1
    /\ changes' = changes + 1 /\ known' = Unknown
    /\ requests' = IF offered # None /\ offered \in DOMAIN settled /\ settled[offered]
                   THEN Append(requests, Request("Inspect", offered, 0)) ELSE requests
    /\ crossed' = (crossed \/ \E i \in DOMAIN requests : requests[i].done # "Waiting")
    /\ UNCHANGED <<db, queue, drain, retrying, settled, lost, offered, saving, completed, faults, overtaken>>

\* The History page of this tab.
RemoveHere ==
    /\ Free
    /\ \/ clears < MaxClears /\ requests' = Append(requests, Request("Clear", None, 0))
       \/ \E record \in rows : requests' = Append(requests, Request("Delete", record, 0))
    /\ UNCHANGED <<db, notices, tab, completed, faults, seen>>

Next ==
    \/ Offer \/ Withdraw \/ Switch \/ Loop \/ Retry \/ Commit \/ Break
    \/ OtherSaves \/ OtherDeletes \/ OtherClears \/ Deliver \/ Notice \/ RemoveHere

Spec == Init /\ [][Next]_vars

(***************************************************************************)
(* Properties.                                                             *)
(***************************************************************************)
\* A write whose count of clears was read is dropped by any later clear, in this tab
\* or another: History never shows again what was cleared from it.  (A clear before
\* the count is read is not told from one before the write.)
ClearsOutlast == rows \cap overtaken = {}

\* A queued write is never forgotten: the drain has it, or a retry is set.
NeverForgotten == queue # <<>> => drain # "Idle" \/ retrying

\* Once everything is heard of, each answer before the notices of later changes, a
\* result shown as saved is in History; a lookup that failed says nothing.
SavedIsThere ==
    ~crossed /\ faults = 0 /\ requests = <<>> /\ notices = 0 /\ drain = "Idle" /\ offered # None =>
        (offered \in DOMAIN settled /\ settled[offered] => offered \in rows)
==============================================================================
