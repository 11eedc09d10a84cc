------------------------------ MODULE EventStore ------------------------------
(***************************************************************************)
(* The local store of one synced calendar and the user's operations on it  *)
(* (internal/api: api.go, outbox.go, remote.go, import.go): the events     *)
(* table, the sync_outbox table, and the handlers of the event loop, which *)
(* issue their SQL statements one by one and can be cut short between any  *)
(* two of them.                                                            *)
(*                                                                         *)
(* Tables are sets of records.  A content stands for everything an event   *)
(* says (title, times, rule, ...): who wrote it and a number, so that two  *)
(* edits never look alike.                                                 *)
(***************************************************************************)
EXTENDS Naturals

CONSTANTS MaxEdits,   \* bound: events created, edited or imported by the user
          Faults,     \* the kinds of failure that may happen
          MaxFaults   \* bound: how many failures happen

\* The process dies; enqueueOutbox fails; a push, its reply or the body of its
\* reply is lost; FetchChanges fails; the delta token has expired; another SQL
\* statement of the sync fails.
FaultKinds == {"crash", "enqueue", "push", "reply", "body", "fetch", "expire", "sql"}

ASSUME BoundsAssumption == MaxEdits \in Nat /\ MaxFaults \in Nat
ASSUME FaultsAssumption == Faults \subseteq FaultKinds

VARIABLES
  rows,      \* the events table of the calendar
  outbox,    \* the sync_outbox table
  lastId,    \* AUTOINCREMENT counters of the two tables: ids are not reused
  lastEntry,
  user,      \* the handler the event loop is in
  edits,     \* contents the user has written so far
  faults,    \* failures that have happened
  unqueued   \* history: changes that have not entered the outbox and will not

storeVars == <<rows, outbox, lastId, lastEntry, user, edits, faults, unqueued>>

Local(n)  == [by |-> "local", n |-> n]
Remote(n) == [by |-> "remote", n |-> n]
Content   == [by : {"local", "remote"}, n : Nat]

\* A resource URL: none yet, given to an event by its create-push, or made by
\* another client.  n tells apart the URLs a server hands out.
Url   == [made : {"none", "local", "remote"}, event : Nat, n : Nat]
NoUrl == [made |-> "none", event |-> 0, n |-> 0]

\* newer: updated_ts is later than the last_sync_at on disk.
Row   == [id : Nat, content : Content, url : Url, newer : BOOLEAN]
Entry == [id : Nat, event : Nat, op : {"upsert", "delete"}, url : Url]

\* The event loop: idle, or the next statement of the handler it runs.
User  == [phase : {"idle", "reread", "delete", "enqueue", "resolve"},
          op : {"upsert", "delete"}, event : Nat, url : Url]
Idle  == [phase |-> "idle", op |-> "upsert", event |-> 0, url |-> NoUrl]

StoreTypeOK ==
  /\ rows \subseteq Row
  /\ outbox \subseteq Entry
  /\ lastId \in Nat /\ lastEntry \in Nat
  /\ user \in User
  /\ edits \in 0..MaxEdits
  /\ faults \in 0..MaxFaults
  /\ unqueued \subseteq [event : Nat, url : Url]

-------------------------------------------------------------------------------
(* Statements on the tables.                                               *)

Exists(i) == \E r \in rows : r.id = i

\* Mutant: the lookup never finds the row (ErrNotFound taken for granted).
ByUrlNever(u) == {}

\* GetEventByResourceURL: of several matches the lowest rowid comes first.
ByUrl(u) ==
  {r \in rows : r.url = u /\ \A q \in rows : q.url = u => r.id <= q.id}

InsertEvent(content, url, newer) ==
  /\ lastId' = lastId + 1
  /\ rows' = rows \union {[id |-> lastId + 1, content |-> content, url |-> url, newer |-> newer]}

\* UPDATE ... WHERE id = i: no row, no error.
WriteContent(i, content, newer) ==
  rows' = {IF r.id = i THEN [r EXCEPT !.content = content, !.newer = newer] ELSE r : r \in rows}

\* Mutant: a created resource is not linked.
WriteUrlNever(i, url) == UNCHANGED rows

\* SetEventResourceURL.
WriteUrl(i, url) == rows' = {IF r.id = i THEN [r EXCEPT !.url = url] ELSE r : r \in rows}

RemoveEvent(i) == rows' = {r \in rows : r.id # i}

\* Mutant: DELETE ... WHERE event_id = ? instead of WHERE id = ?.
RemoveEntriesOfEvent(e) == outbox' = {f \in outbox : f.event # e.event}

\* DeleteOutboxEntry.
RemoveEntry(e) == outbox' = {f \in outbox : f.id # e.id}

\* A failure of kind k happens.
Fault(k) == k \in Faults /\ faults < MaxFaults /\ faults' = faults + 1

\* The last change of event i has not been queued.
Unqueued(i) == \E u \in unqueued : u.event = i

-------------------------------------------------------------------------------
(* The user's handlers.  An edit in the second last_sync_at was taken is   *)
(* not newer than it: the columns count seconds.                           *)

Begin(phase, op, i, url) ==
  user' = [phase |-> phase, op |-> op, event |-> i, url |-> url]

NeverQueued(i, url) == unqueued' = unqueued \union {[event |-> i, url |-> url]}

WriteNext == user.phase = "idle" /\ edits < MaxEdits /\ edits' = edits + 1

\* CreateEvent: INSERT, then the enqueue.
CreateEvent ==
  /\ WriteNext
  /\ \E newer \in BOOLEAN : InsertEvent(Local(edits + 1), NoUrl, newer)
  /\ Begin("enqueue", "upsert", lastId + 1, NoUrl)
  /\ UNCHANGED <<outbox, lastEntry, faults, unqueued>>

\* CreateImportedEvent, into this calendar: INSERT and nothing else.
ImportEvent ==
  /\ WriteNext
  /\ \E newer \in BOOLEAN : InsertEvent(Local(edits + 1), NoUrl, newer)
  /\ NeverQueued(lastId + 1, NoUrl)
  /\ UNCHANGED <<outbox, lastEntry, user, faults>>

\* UpdateEvent: UPDATE ...
UpdateEvent(i) ==
  /\ WriteNext
  /\ Exists(i)
  /\ \E newer \in BOOLEAN : WriteContent(i, Local(edits + 1), newer)
  /\ Begin("reread", "upsert", i, NoUrl)
  /\ UNCHANGED <<outbox, lastId, lastEntry, faults, unqueued>>

\* ... then GetEvent, and no enqueue when the row has gone meanwhile ...
Reread ==
  /\ user.phase = "reread"
  /\ user' = IF Exists(user.event) THEN [user EXCEPT !.phase = "enqueue"] ELSE Idle
  /\ UNCHANGED <<rows, outbox, lastId, lastEntry, edits, faults, unqueued>>

\* DeleteEvent: GetEvent remembers the resource URL ...
DeleteEvent(i) ==
  /\ user.phase = "idle"
  /\ \E r \in rows : r.id = i /\ Begin("delete", "delete", i, r.url)
  /\ UNCHANGED <<rows, outbox, lastId, lastEntry, edits, faults, unqueued>>

\* ... DELETE, and an enqueue only if there was a URL then.
DeleteRow ==
  /\ user.phase = "delete"
  /\ RemoveEvent(user.event)
  /\ user' = IF user.url = NoUrl THEN Idle ELSE [user EXCEPT !.phase = "enqueue"]
  /\ UNCHANGED <<outbox, lastId, lastEntry, edits, faults, unqueued>>

\* enqueueOutbox.  Only a delete uses the URL of its entry.
Enqueue ==
  /\ user.phase = "enqueue"
  /\ lastEntry' = lastEntry + 1
  /\ outbox' = outbox \union {[id |-> lastEntry + 1, event |-> user.event,
                               op |-> user.op, url |-> user.url]}
  /\ user' = Idle
  /\ unqueued' = {u \in unqueued : u.event # user.event}
  /\ UNCHANGED <<rows, lastId, edits, faults>>

\* The INSERT fails; the handler logs it and reports success.
EnqueueFails ==
  /\ user.phase = "enqueue"
  /\ Fault("enqueue")
  /\ user' = Idle
  /\ NeverQueued(user.event, user.url)
  /\ UNCHANGED <<rows, outbox, lastId, lastEntry, edits>>

UserStep == Reread \/ DeleteRow \/ Enqueue

UserNext ==
  \/ CreateEvent \/ ImportEvent
  \/ \E i \in 1..lastId : UpdateEvent(i) \/ DeleteEvent(i)
  \/ UserStep \/ EnqueueFails
===============================================================================
