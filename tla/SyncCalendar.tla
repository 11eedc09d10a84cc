----------------------------- MODULE SyncCalendar -----------------------------
(***************************************************************************)
(* One synced calendar: the sync of internal/syncer/engine.go (syncOne,    *)
(* drainOutbox, pushOne, applyChange) over the local store of EventStore,  *)
(* through the CalDAV or the Microsoft Graph adapter, against a server     *)
(* other clients write to as well; and the Conflict Queue                  *)
(* (internal/syncer/conflict.go).                                          *)
(*                                                                         *)
(* A sync is a sequence of SQL statements and HTTP requests; between any   *)
(* two of them the user's handlers, other clients and a crash may step in. *)
(* Workers are the goroutines that sync; those of one engine exclude each  *)
(* other (theorem Exclusion of SyncEngineProofs).                          *)
(***************************************************************************)
EXTENDS EventStore, FiniteSets

CONSTANTS Kinds,      \* the adapters looked at: "caldav", "outlook" or both
          Workers,    \* goroutines that sync the calendar
          EngineOf,   \* the engine each of them belongs to
          None,       \* no goroutine
          Buttons,    \* the conflict buttons the user presses
          MaxRemote   \* bound: changes other clients make on the server

ASSUME KindsAssumption == Kinds \subseteq {"caldav", "outlook"} /\ Kinds # {}
ASSUME WorkersAssumption == None \notin Workers /\ Workers # {}
ASSUME ButtonsAssumption == Buttons \subseteq {"keep-local", "remote-wins"}
ASSUME RemoteAssumption == MaxRemote \in Nat

VARIABLES
  kind,      \* the adapter of the calendar, fixed when it was connected
  server,    \* resources: url, content, seq of the last change, live or deleted
  seq,       \* changes the server has seen; ETags and delta tokens come from it
  redits,    \* contents and deletions by other clients
  saved,     \* the sync_state row
  conflicts, \* the conflicts table
  lock,      \* per engine, who holds the calendar's mutex
  pc,        \* per worker, its next statement or request
  mem,       \* ... the SyncState it loaded
  todo,      \* ... the outbox entries it still has to push, oldest first
  sent,      \* ... the event GetEvent returned for the entry it pushes
  changes,   \* ... the fetched changes it has not applied
  cur,       \* ... the change it applies
  found,     \* ... the row that change was matched with
  reached    \* history: the user's contents the server has held

serverVars == <<server, seq, redits>>
workerVars == <<lock, pc, mem, todo, sent, changes, cur, found>>
vars == <<storeVars, kind, serverVars, workerVars, saved, conflicts, reached>>

Resource == [url : Url, content : Content, seq : Nat, live : BOOLEAN]
SyncState == [etags : SUBSET [url : Url, tag : Nat], token : Nat, synced : BOOLEAN]
Change == [op : {"upsert", "delete"}, url : Url, content : Content, tag : Nat]
Conflict == [id : Nat, event : Nat, local : Content, remote : Content,
             resolution : {"pending", "remote-wins", "keep-local"}]
PCs == {"idle", "outbox", "drain", "push", "link", "clear",
        "fetch", "apply", "conflict", "write"}

NoState  == [etags |-> {}, token |-> 0, synced |-> FALSE]
NoChange == [op |-> "upsert", url |-> NoUrl, content |-> Remote(0), tag |-> 0]

TypeOK ==
  /\ StoreTypeOK
  /\ kind \in Kinds
  /\ server \subseteq Resource /\ seq \in Nat /\ redits \in 0..MaxRemote
  /\ saved \in SyncState
  /\ conflicts \subseteq Conflict
  /\ lock \in [{EngineOf[w] : w \in Workers} -> Workers \union {None}]
  /\ pc \in [Workers -> PCs]
  /\ mem \in [Workers -> SyncState]
  /\ todo \in [Workers -> SUBSET Entry]
  /\ sent \in [Workers -> SUBSET Row]
  /\ changes \in [Workers -> SUBSET Change]
  /\ cur \in [Workers -> Change]
  /\ found \in [Workers -> SUBSET Row]
  /\ reached \subseteq Nat

-------------------------------------------------------------------------------
(* GetETag and SetETag of state.go.  The empty ETag is 0.                  *)
Tag(state, url) ==
  IF \E e \in state.etags : e.url = url
  THEN (CHOOSE e \in state.etags : e.url = url).tag
  ELSE 0

WithTag(state, url, tag) ==
  [state EXCEPT !.etags = {e \in @ : e.url # url} \union
                          (IF tag = 0 THEN {} ELSE {[url |-> url, tag |-> tag]})]

\* The first entry of PendingOutbox's result.
Head(entries) == CHOOSE e \in entries : \A f \in entries : e.id <= f.id

-------------------------------------------------------------------------------
(* The server, as both adapters rely on it.                                *)

LiveAt(url) == \E s \in server : s.url = url /\ s.live
SeqAt(url) == (CHOOSE s \in server : s.url = url).seq

Put(url, content, live) ==
  /\ seq' = seq + 1
  /\ server' = {s \in server : s.url # url} \union
               {[url |-> url, content |-> content, seq |-> seq + 1, live |-> live]}

OtherClient ==
  /\ redits < MaxRemote
  /\ redits' = redits + 1
  /\ UNCHANGED <<storeVars, workerVars, saved, conflicts, reached>>

RemoteCreate ==
  /\ OtherClient
  /\ Put([made |-> "remote", event |-> 0, n |-> seq + 1], Remote(redits + 1), TRUE)

RemoteEdit ==
  /\ OtherClient
  /\ \E s \in server : s.live /\ Put(s.url, Remote(redits + 1), TRUE)

RemoteDelete ==
  /\ OtherClient
  /\ \E s \in server : s.live /\ Put(s.url, s.content, FALSE)

-------------------------------------------------------------------------------
(* The adapters.                                                           *)

\* The resource a push writes: the event's own, or a new one.  CalDAV derives
\* the name from the event's ID, Graph assigns one.
Target(ev) ==
  IF ev.url # NoUrl THEN ev.url
  ELSE [made |-> "local", event |-> ev.id,
        n |-> IF kind = "caldav" THEN 0 ELSE seq + 1]

\* CalDAV sends If-Match when it has an ETag; Graph never does.
Matches(state, url) ==
  kind = "caldav" /\ Tag(state, url) # 0 => LiveAt(url) /\ SeqAt(url) = Tag(state, url)

\* PUT creates or replaces; POST creates; PATCH needs the resource.
AcceptsPush(state, ev) ==
  /\ Matches(state, Target(ev))
  /\ kind = "outlook" /\ ev.url # NoUrl => LiveAt(ev.url)

AcceptsDelete(state, url) == LiveAt(url) /\ Matches(state, url)

\* fullFetch and multiget of CalDAV: the resources whose ETag is not the one
\* held.  Deleted resources are not listed, and no sync token is ever stored,
\* so incrementalFetch is not reached.
CalDAVChanges(state) ==
  {[op |-> "upsert", url |-> s.url, content |-> s.content, tag |-> s.seq] :
     s \in {r \in server : r.live /\ Tag(state, r.url) # r.seq}}

\* Mutant: @removed entries are ignored.
GraphUpserts(token) ==
  {[op |-> "upsert", url |-> s.url, content |-> s.content, tag |-> 0] :
     s \in {r \in server : r.live /\ r.seq >= token}}

\* Mutant: a delta starts after the first change its token does not cover.
GraphChangesLate(token) ==
  {[op |-> IF s.live THEN "upsert" ELSE "delete", url |-> s.url,
    content |-> s.content, tag |-> 0] :
     s \in {r \in server : IF token = 0 THEN r.live ELSE r.seq > token}}

\* Graph delta: what changed since the token, deletions included; without a
\* token whatever exists.  The changes carry no ETag.
GraphChanges(token) ==
  {[op |-> IF s.live THEN "upsert" ELSE "delete", url |-> s.url,
    content |-> s.content, tag |-> 0] :
     s \in {r \in server : IF token = 0 THEN r.live ELSE r.seq >= token}}

-------------------------------------------------------------------------------
Init ==
  /\ kind \in Kinds
  /\ lastEntry = 0 /\ outbox = {} /\ user = Idle
  /\ edits = 0 /\ faults = 0 /\ unqueued = {} /\ conflicts = {} /\ redits = 0
  /\ lock = [e \in {EngineOf[w] : w \in Workers} |-> None]
  /\ pc = [w \in Workers |-> "idle"]
  /\ mem = [w \in Workers |-> NoState]
  /\ todo = [w \in Workers |-> {}]
  /\ sent = [w \in Workers |-> {}]
  /\ changes = [w \in Workers |-> {}]
  /\ cur = [w \in Workers |-> NoChange]
  /\ found = [w \in Workers |-> {}]
  /\ \/ \* a calendar just connected
        /\ rows = {} /\ lastId = 0 /\ reached = {}
        /\ server = {} /\ seq = 0 /\ saved = NoState
     \/ \* one event, created here, pushed and in step with the server
        LET url == [made |-> "local", event |-> 1, n |-> IF kind = "caldav" THEN 0 ELSE 1]
        IN  /\ rows = {[id |-> 1, content |-> Local(0), url |-> url, newer |-> FALSE]}
            /\ lastId = 1 /\ reached = {0}
            /\ server = {[url |-> url, content |-> Local(0), seq |-> 1, live |-> TRUE]}
            /\ seq = 1
            /\ saved = [etags |-> IF kind = "caldav" THEN {[url |-> url, tag |-> 1]} ELSE {},
                        token |-> IF kind = "caldav" THEN 0 ELSE 2, synced |-> TRUE]

-------------------------------------------------------------------------------
(* syncOne: one action per statement or request.                           *)

Goto(w, label) == pc' = [pc EXCEPT ![w] = label]

\* Mutant: calLock makes a new mutex each time.
StartSyncUnlocked(w) ==
  /\ pc[w] = "idle"
  /\ lock' = [lock EXCEPT ![EngineOf[w]] = w]
  /\ mem' = [mem EXCEPT ![w] = saved]
  /\ Goto(w, "outbox")
  /\ UNCHANGED <<storeVars, serverVars, saved, conflicts, reached, todo, sent, changes, cur, found>>

\* The mutex, setStatus, LoadSyncState.
StartSync(w) ==
  /\ pc[w] = "idle"
  /\ lock[EngineOf[w]] = None
  /\ lock' = [lock EXCEPT ![EngineOf[w]] = w]
  /\ mem' = [mem EXCEPT ![w] = saved]
  /\ Goto(w, "outbox")
  /\ UNCHANGED <<storeVars, serverVars, saved, conflicts, reached, todo, sent, changes, cur, found>>

\* PendingOutbox: the queue as it is now.  If it cannot be read the pull goes
\* ahead without a push.
LoadOutbox(w) ==
  /\ pc[w] = "outbox"
  /\ \/ todo' = [todo EXCEPT ![w] = outbox] /\ UNCHANGED faults
     \/ Fault("sql") /\ UNCHANGED todo
  /\ Goto(w, "drain")
  /\ UNCHANGED <<rows, outbox, lastId, lastEntry, user, edits, unqueued, serverVars,
                 saved, conflicts, reached, lock, mem, sent, changes, cur, found>>

\* pushOne reads the event as it is now, whatever it was when queued; if it
\* has gone the entry is dropped.
ReadEvent(w) ==
  /\ pc[w] = "drain"
  /\ todo[w] # {}
  /\ LET e == Head(todo[w]) IN
       IF e.op = "upsert" /\ ~Exists(e.event)
       THEN /\ RemoveEntry(e)
            /\ todo' = [todo EXCEPT ![w] = @ \ {e}]
            /\ UNCHANGED <<pc, sent>>
       ELSE /\ sent' = [sent EXCEPT ![w] = {r \in rows : r.id = e.event /\ e.op = "upsert"}]
            /\ Goto(w, "push")
            /\ UNCHANGED <<outbox, todo>>
  /\ UNCHANGED <<rows, lastId, lastEntry, user, edits, faults, unqueued, serverVars,
                 saved, conflicts, reached, lock, mem, changes, cur, found>>

\* drainOutbox turns to the next entry.
NextEntry(w) ==
  /\ todo' = [todo EXCEPT ![w] = @ \ {Head(@)}]
  /\ sent' = [sent EXCEPT ![w] = {}]
  /\ Goto(w, "drain")

\* PushChange or DeleteRemote reaches the server and is accepted.
ServerTakes(w) ==
  LET e == Head(todo[w]) IN
    \/ /\ e.op = "delete"
       /\ AcceptsDelete(mem[w], e.url)
       /\ \E s \in server : s.url = e.url /\ Put(e.url, s.content, FALSE)
       /\ UNCHANGED reached
    \/ /\ e.op = "upsert"
       /\ \E ev \in sent[w] :
            /\ AcceptsPush(mem[w], ev)
            /\ Put(Target(ev), ev.content, TRUE)
            /\ reached' = reached \union (IF ev.content.by = "local" THEN {ev.content.n} ELSE {})

ServerRefuses(w) ==
  LET e == Head(todo[w]) IN
    \/ e.op = "delete" /\ ~AcceptsDelete(mem[w], e.url)
    \/ e.op = "upsert" /\ \E ev \in sent[w] : ~AcceptsPush(mem[w], ev)

\* The reply arrives: a create is linked next, anything else is done; the ETag
\* of what was written is remembered.
Push(w) ==
  /\ pc[w] = "push"
  /\ ServerTakes(w)
  /\ IF Head(todo[w]).op = "delete"
     THEN Goto(w, "clear") /\ UNCHANGED <<mem, sent>>
     ELSE \E ev \in sent[w] :
            /\ Goto(w, IF ev.url = NoUrl THEN "link" ELSE "clear")
            /\ mem' = [mem EXCEPT ![w] = WithTag(@, Target(ev), seq + 1)]
            /\ sent' = [sent EXCEPT ![w] = {[ev EXCEPT !.url = Target(ev)]}]
  /\ UNCHANGED <<storeVars, redits, saved, conflicts, lock, todo, changes, cur, found>>

\* Graph has created the event but the body of its reply, with the new ID, is
\* lost: PushChange ignores that, and the event stays without a URL.
PushUnread(w) ==
  /\ pc[w] = "push"
  /\ kind = "outlook"
  /\ \E ev \in sent[w] : ev.url = NoUrl
  /\ Fault("body")
  /\ ServerTakes(w)
  /\ Goto(w, "clear")
  /\ UNCHANGED <<rows, outbox, lastId, lastEntry, user, edits, unqueued, redits,
                 saved, conflicts, lock, mem, todo, sent, changes, cur, found>>

\* Mutant: what the server refuses is taken off the queue.
PushRefusedDrops(w) ==
  /\ pc[w] = "push"
  /\ ServerRefuses(w)
  /\ RemoveEntry(Head(todo[w]))
  /\ NextEntry(w)
  /\ UNCHANGED <<rows, lastId, lastEntry, user, edits, faults, unqueued, serverVars,
                 saved, conflicts, reached, lock, mem, changes, cur, found>>

\* The push fails and the entry stays for the next sync: the server refuses,
\* the request is lost, or the reply is and the server has taken it.
PushFails(w) ==
  /\ pc[w] = "push"
  /\ \/ ServerRefuses(w) /\ UNCHANGED <<faults, server, seq, reached>>
     \/ Fault("push") /\ UNCHANGED <<server, seq, reached>>
     \/ Fault("reply") /\ ServerTakes(w)
  /\ NextEntry(w)
  /\ UNCHANGED <<rows, outbox, lastId, lastEntry, user, edits, unqueued, redits,
                 saved, conflicts, lock, mem, changes, cur, found>>

\* SetEventResourceURL, on whatever the row says by now.
Link(w) ==
  /\ pc[w] = "link"
  /\ \E ev \in sent[w] : WriteUrl(ev.id, ev.url)
  /\ Goto(w, "clear")
  /\ UNCHANGED <<outbox, lastId, lastEntry, user, edits, faults, unqueued, serverVars,
                 saved, conflicts, reached, lock, mem, todo, sent, changes, cur, found>>

\* It fails: the entry stays, and the ETag of a Graph resource is not noted.
LinkFails(w) ==
  /\ pc[w] = "link"
  /\ Fault("sql")
  /\ mem' = IF kind = "caldav" THEN mem
            ELSE [mem EXCEPT ![w] = WithTag(@, (CHOOSE ev \in sent[w] : TRUE).url, 0)]
  /\ NextEntry(w)
  /\ UNCHANGED <<rows, outbox, lastId, lastEntry, user, edits, unqueued, serverVars,
                 saved, conflicts, reached, lock, changes, cur, found>>

\* DeleteOutboxEntry; when it fails the entry will be pushed again.
ClearEntry(w) ==
  /\ pc[w] = "clear"
  /\ \/ RemoveEntry(Head(todo[w])) /\ UNCHANGED faults
     \/ Fault("sql") /\ UNCHANGED outbox
  /\ NextEntry(w)
  /\ UNCHANGED <<rows, lastId, lastEntry, user, edits, unqueued, serverVars,
                 saved, conflicts, reached, lock, mem, changes, cur, found>>

\* FetchChanges.  CalDAV's multiget stores the ETags itself; Graph stores the
\* new delta link, and starts over when the old one has expired.
Fetch(w) ==
  /\ pc[w] = "drain" /\ todo[w] = {}
  /\ IF kind = "caldav"
     THEN LET got == CalDAVChanges(mem[w]) IN
            /\ changes' = [changes EXCEPT ![w] = got]
            /\ mem' = [mem EXCEPT ![w].etags =
                         {e \in @ : \A g \in got : g.url # e.url} \union
                         {[url |-> g.url, tag |-> g.tag] : g \in got}]
            /\ UNCHANGED faults
     ELSE /\ \/ changes' = [changes EXCEPT ![w] = GraphChanges(mem[w].token)] /\ UNCHANGED faults
             \/ mem[w].token # 0 /\ Fault("expire") /\ changes' = [changes EXCEPT ![w] = GraphChanges(0)]
          /\ mem' = [mem EXCEPT ![w].token = seq + 1]
  /\ Goto(w, "apply")
  /\ UNCHANGED <<rows, outbox, lastId, lastEntry, user, edits, unqueued, serverVars,
                 saved, conflicts, reached, lock, todo, sent, cur, found>>

\* Mutant: an early return without Unlock.
LeaveLocked(w) ==
  /\ UNCHANGED lock
  /\ mem' = [mem EXCEPT ![w] = NoState]
  /\ Goto(w, "idle")

\* The end of syncOne gives the mutex back and forgets the SyncState.
Leave(w) ==
  /\ lock' = [lock EXCEPT ![EngineOf[w]] = None]
  /\ mem' = [mem EXCEPT ![w] = NoState]
  /\ Goto(w, "idle")

\* FetchChanges fails: syncOne returns, and nothing is saved.
FetchFails(w) ==
  /\ pc[w] = "drain" /\ todo[w] = {}
  /\ Fault("fetch")
  /\ Leave(w)
  /\ UNCHANGED <<rows, outbox, lastId, lastEntry, user, edits, unqueued, serverVars,
                 saved, conflicts, reached, todo, sent, changes, cur, found>>

\* applyChange: a change held already is skipped; else its row is looked up.
TakeChange(w) ==
  /\ pc[w] = "apply"
  /\ \E ch \in changes[w] :
       LET held == ch.op = "upsert" /\ ch.tag # 0 /\ Tag(mem[w], ch.url) = ch.tag
           rs == ByUrl(ch.url)
           newer == \E r \in rs : mem[w].synced /\ r.newer
       IN  /\ changes' = [changes EXCEPT ![w] = @ \ {ch}]
           /\ IF held \/ (ch.op = "delete" /\ rs = {})
              THEN UNCHANGED <<pc, cur, found>>
              ELSE /\ cur' = [cur EXCEPT ![w] = ch]
                   /\ found' = [found EXCEPT ![w] = rs]
                   /\ Goto(w, IF ch.op = "upsert" /\ newer THEN "conflict" ELSE "write")
  /\ UNCHANGED <<storeVars, serverVars, saved, conflicts, reached, lock, mem, todo, sent>>

\* RecordConflict, with the row as it was looked up; when it fails the remote
\* wins all the same.
RecordConflict(w) ==
  /\ pc[w] = "conflict"
  /\ \/ /\ \E r \in found[w] :
             conflicts' = conflicts \union
               {[id |-> Cardinality(conflicts) + 1, event |-> r.id, local |-> r.content,
                 remote |-> cur[w].content, resolution |-> "pending"]}
        /\ UNCHANGED faults
     \/ Fault("sql") /\ UNCHANGED conflicts
  /\ Goto(w, "write")
  /\ UNCHANGED <<rows, outbox, lastId, lastEntry, user, edits, unqueued, serverVars,
                 saved, reached, lock, mem, todo, sent, changes, cur, found>>

Applied(w) ==
  /\ cur' = [cur EXCEPT ![w] = NoChange]
  /\ found' = [found EXCEPT ![w] = {}]
  /\ Goto(w, "apply")

\* DeleteEventFromRemote, CreateEventFromRemote or UpdateEventFromRemote: the
\* remote wins.
WriteChange(w) ==
  /\ pc[w] = "write"
  /\ IF cur[w].op = "delete"
     THEN (\E r \in found[w] : RemoveEvent(r.id)) /\ UNCHANGED <<lastId, mem>>
     ELSE /\ IF found[w] = {}
             THEN InsertEvent(cur[w].content, cur[w].url, TRUE)
             ELSE (\E r \in found[w] : WriteContent(r.id, cur[w].content, TRUE)) /\ UNCHANGED lastId
          /\ mem' = [mem EXCEPT ![w] = WithTag(@, cur[w].url, cur[w].tag)]
  /\ Applied(w)
  /\ UNCHANGED <<outbox, lastEntry, user, edits, faults, unqueued, serverVars,
                 saved, conflicts, reached, lock, todo, sent, changes>>

\* The statement fails: logged, and the sync goes on.
WriteFails(w) ==
  /\ pc[w] = "write"
  /\ Fault("sql")
  /\ Applied(w)
  /\ UNCHANGED <<rows, outbox, lastId, lastEntry, user, edits, unqueued, serverVars,
                 saved, conflicts, reached, lock, mem, todo, sent, changes>>

\* Mutant: last_sync_at is the time the sync began.
SyncedAtStart == UNCHANGED rows

\* LastSyncAt is now: no row is newer than that.
SyncedNow == rows' = {[r EXCEPT !.newer = FALSE] : r \in rows}

\* Save.
Finish(w) ==
  /\ pc[w] = "apply" /\ changes[w] = {}
  /\ saved' = [mem[w] EXCEPT !.synced = TRUE]
  /\ SyncedNow
  /\ Leave(w)
  /\ UNCHANGED <<outbox, lastId, lastEntry, user, edits, faults, unqueued, serverVars,
                 conflicts, reached, todo, sent, changes, cur, found>>

\* Save fails: logged; the next sync starts from the previous state.
SaveFails(w) ==
  /\ pc[w] = "apply" /\ changes[w] = {}
  /\ Fault("sql")
  /\ Leave(w)
  /\ UNCHANGED <<rows, outbox, lastId, lastEntry, user, edits, unqueued, serverVars,
                 saved, conflicts, reached, todo, sent, changes, cur, found>>

-------------------------------------------------------------------------------
(* The Alerts tab.  Cards outlive their conflict, so a button may be       *)
(* pressed on one resolved already.                                        *)

Resolve(c, resolution) ==
  conflicts' = (conflicts \ {c}) \union {[c EXCEPT !.resolution = resolution]}

ResolveAcceptRemote(c) ==
  /\ "remote-wins" \in Buttons
  /\ user.phase = "idle"
  /\ Resolve(c, "remote-wins")
  /\ UNCHANGED <<storeVars, serverVars, workerVars, saved, reached>>

\* ResolveKeepLocal restores the row without an enqueue ...
RestoreLocal(c) ==
  /\ "keep-local" \in Buttons
  /\ user.phase = "idle"
  /\ WriteContent(c.event, c.local, TRUE)
  /\ NeverQueued(c.event, NoUrl)
  /\ user' = [Idle EXCEPT !.phase = "resolve", !.event = c.id]
  /\ UNCHANGED <<outbox, lastId, lastEntry, edits, faults, serverVars, workerVars,
                 saved, conflicts, reached>>

\* ... and marks the conflict.
KeepLocal ==
  /\ user.phase = "resolve"
  /\ \E c \in conflicts : c.id = user.event /\ Resolve(c, "keep-local")
  /\ user' = Idle
  /\ UNCHANGED <<rows, outbox, lastId, lastEntry, edits, faults, unqueued, serverVars,
                 workerVars, saved, reached>>

-------------------------------------------------------------------------------
\* The process dies and is started again: only the database survives.
Crash ==
  /\ Fault("crash")
  /\ user' = Idle
  /\ IF user.phase \in {"reread", "enqueue"}
     THEN NeverQueued(user.event, user.url) ELSE UNCHANGED unqueued
  /\ lock' = [e \in DOMAIN lock |-> None]
  /\ pc' = [w \in Workers |-> "idle"]
  /\ mem' = [w \in Workers |-> NoState]
  /\ todo' = [w \in Workers |-> {}]
  /\ sent' = [w \in Workers |-> {}]
  /\ changes' = [w \in Workers |-> {}]
  /\ cur' = [w \in Workers |-> NoChange]
  /\ found' = [w \in Workers |-> {}]
  /\ UNCHANGED <<rows, outbox, lastId, lastEntry, edits, serverVars, saved, conflicts, reached>>

SyncStep(w) ==
  \/ LoadOutbox(w) \/ ReadEvent(w) \/ Push(w) \/ PushUnread(w) \/ PushFails(w)
  \/ Link(w) \/ LinkFails(w) \/ ClearEntry(w)
  \/ Fetch(w) \/ FetchFails(w) \/ TakeChange(w) \/ RecordConflict(w)
  \/ WriteChange(w) \/ WriteFails(w) \/ Finish(w) \/ SaveFails(w)

UserAction == UserNext /\ UNCHANGED <<serverVars, workerVars, saved, conflicts, reached>>

ConflictAction ==
  \/ \E c \in conflicts : ResolveAcceptRemote(c) \/ RestoreLocal(c)
  \/ KeepLocal

Next ==
  /\ \/ UserAction
     \/ ConflictAction
     \/ RemoteCreate \/ RemoteEdit \/ RemoteDelete
     \/ \E w \in Workers : StartSync(w) \/ SyncStep(w)
     \/ Crash
  /\ UNCHANGED kind

Spec == Init /\ [][Next]_vars

(* The engine's ticker keeps syncing, requests end (30 s timeouts), the    *)
(* event loop finishes its handlers.  Users, other clients and failures    *)
(* owe nothing.                                                            *)
Fairness ==
  /\ \A w \in Workers : /\ SF_vars(StartSync(w) /\ UNCHANGED kind)
                         /\ WF_vars(SyncStep(w) /\ UNCHANGED kind)
  /\ WF_vars(UserStep /\ UserAction /\ UNCHANGED kind)
  /\ WF_vars(KeepLocal /\ UNCHANGED kind)

FairSpec == Spec /\ Fairness

-------------------------------------------------------------------------------
(* What the user wrote is on the server or on its way: a local content no  *)
(* server has held has an outbox entry, or a handler about to queue one,   *)
(* or its enqueue was cut off (crash, failed INSERT, import, keep-local).  *)
(* An edit made while its event is being pushed must survive ClearEntry.   *)
QueuedOrKnown ==
  \A r \in rows : r.content.by = "local" =>
    \/ r.content.n \in reached
    \/ \E e \in outbox : e.op = "upsert" /\ e.event = r.id
    \/ user.phase \in {"reread", "enqueue"} /\ user.event = r.id
    \/ Unqueued(r.id)

(* A queued delete leaves the outbox only once the resource is gone.       *)
DeletesReachServer ==
  [][\A e \in outbox \ outbox' : e.op = "delete" => ~LiveAt(e.url)]_vars

(* The user's own edits of an event arrive in the order they were made: no *)
(* push puts an older one back over a newer one, unless the older one is a *)
(* copy of the Conflict Queue, which Keep local restores.                  *)
PushesInOrder ==
  [][\A s \in server, t \in server' :
       s.url = t.url /\ s.content.by = "local" /\ t.content.by = "local"
         => s.content.n <= t.content.n \/ \E c \in conflicts : c.local = t.content]_vars

(* One resource is one event: no two rows claim the same URL.              *)
UniqueUrl ==
  \A r, q \in rows : r.url = q.url /\ r.url # NoUrl => r.id = q.id

(* The resource a create-push made belongs to the event it was made for:   *)
(* while that event exists no other row holds the resource.                *)
OwnCreateRecognised ==
  \A r \in rows : r.url.made = "local" => r.id = r.url.event \/ ~Exists(r.url.event)

\* An edit no server has held.
Unsent(content) == content.by = "local" /\ content.n \notin reached

\* A delete is on its way to the server.
Leaving(url) ==
  \/ \E e \in outbox : e.op = "delete" /\ e.url = url
  \/ user.phase = "enqueue" /\ user.op = "delete" /\ user.url = url

\* Its event was deleted here before it knew of its resource, or its last change
\* here will never be queued.
Estranged(url) ==
  \/ url.made = "local" /\ ~Exists(url.event)
  \/ \E u \in unqueued : u.url = url \/ \E r \in rows : r.id = u.event /\ r.url = url

(* The delta token never runs ahead of the store (FetchChanges,            *)
(* applyChange, Save). What the saved token covers no later delta names    *)
(* again, so it is in the store, as it is on the server or with an edit no *)
(* server has seen; or it was deleted here.                                *)
NothingSkipped ==
  \A s \in server : s.live /\ s.seq < saved.token =>
    \/ \E r \in rows : r.url = s.url /\ (r.content = s.content \/ Unsent(r.content))
    \/ Leaving(s.url) \/ Estranged(s.url)

(* Only what the user wrote since the last sync can be in conflict.        *)
ConflictsAreTheUsers == \A c \in conflicts : c.local.by = "local"

\* Bounds on identifiers, for the properties that follow one of them.
EntryIds == 1..(2 * MaxEdits + 1)
EventIds == 1..(MaxEdits + MaxRemote + 1)

OnServer(content) == \E s \in server : s.live /\ s.content = content /\ ~Estranged(s.url)
InStore(content) == \E r \in rows : r.content = content
Dangling(i) == \E r \in rows : r.id = i /\ r.url # NoUrl /\ ~LiveAt(r.url)
\* Deleted on the server, and the saved delta token does not cover it.
Missed(url) == \E s \in server : s.url = url /\ ~s.live /\ (saved.token = 0 \/ s.seq < saved.token)
Refused(i) ==
  \E s \in server : Missed(s.url) /\ (s.url.event = i \/ \E r \in rows : r.id = i /\ r.url = s.url)
Queued(k) == \E e \in outbox : e.id = k /\ e.op = "upsert" /\ ~Refused(e.event)

(* What another client writes reaches the local store, unless it is        *)
(* replaced or deleted first, on the server or here.                       *)
RemoteChangesArrive ==
  \A n \in 1..MaxRemote : OnServer(Remote(n)) ~> (InStore(Remote(n)) \/ ~OnServer(Remote(n)))

(* What another client deletes after a pull that has completed disappears  *)
(* here too: the next delta names it, however many syncs fail or are cut   *)
(* short meanwhile.                                                        *)
KnownDeletesArrive ==
  \A i \in EventIds :
    (Dangling(i) /\ \A r \in rows : r.id = i => ~Missed(r.url)) ~> ~Dangling(i)

(* Every queued create or update leaves the outbox, whatever fails a       *)
(* bounded number of times; but the server refuses an update for ever if   *)
(* it has deleted the resource and no pull says so.                        *)
UpsertsDrain == \A k \in EntryIds : Queued(k) ~> ~Queued(k)

(* In the end both sides agree, but for estranged events and for deletions *)
(* no pull will name.                                                      *)
Agree ==
  /\ \A r \in rows :
       \/ Unqueued(r.id) \/ Missed(r.url)
       \/ \E s \in server : s.live /\ s.url = r.url /\ s.content = r.content
  /\ \A s \in server : s.live => Estranged(s.url) \/ \E r \in rows : r.url = s.url
Converges == <>[]Agree

-------------------------------------------------------------------------------
(* ADR-0007: no local change is overridden without its copy in the queue.  *)
NoSilentOverwrite ==
  [][\A r \in rows, q \in rows' :
       /\ r.id = q.id /\ r.newer /\ r.content # q.content
       /\ r.content.by = "local" /\ r.content.n \notin reached
       /\ q.content.by = "remote"
       => \E c \in conflicts' : c.event = r.id /\ c.local = r.content]_vars
===============================================================================
