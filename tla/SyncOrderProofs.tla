----------------------------- MODULE SyncOrderProofs -----------------------------
(***************************************************************************)
(* Proofs about SyncCalendar when the goroutines are those of one engine,  *)
(* as in a process: what their exclusion gives the calendar.               *)
(***************************************************************************)
EXTENDS SyncCalendarProofs

OneEngine == \A v, w \in Workers : EngineOf[v] = EngineOf[w]

-------------------------------------------------------------------------------
(* Exclusion.                                                              *)

LockHeld == \A w \in Workers : pc[w] # "idle" => lock[EngineOf[w]] = w

(* Whoever syncs holds the one mutex, so while one goroutine takes a step  *)
(* the others rest.                                                        *)
LEMMA Alone ==
  ASSUME OneEngine, TInv, LockHeld, NEW w \in Workers, StartSync(w) \/ SyncStep(w)
  PROVE  LockHeld' /\ \A v \in Workers : v # w => pc[v] = "idle" /\ pc'[v] = "idle"
<1>t. /\ lock \in [{EngineOf[v] : v \in Workers} -> Workers \union {None}]
      /\ pc \in [Workers -> PCs] /\ EngineOf[w] \in {EngineOf[v] : v \in Workers}
  BY DEF TInv, TypeOK
<1>1. CASE StartSync(w)
  <2>1. lock[EngineOf[w]] = None /\ lock' = [lock EXCEPT ![EngineOf[w]] = w]
        /\ pc' = [pc EXCEPT ![w] = "outbox"]
    BY <1>1 DEF StartSync, Goto
  <2>2. \A v \in Workers : pc[v] = "idle"
    BY <2>1, WorkersAssumption DEF OneEngine, LockHeld
  <2> QED
    BY <1>t, <2>1, <2>2 DEF LockHeld
<1>2. CASE SyncStep(w)
  <2>1. pc[w] # "idle"
    BY <1>2 DEF SyncStep, LoadOutbox, ReadEvent, Push, PushUnread, PushFails, Link, LinkFails,
                ClearEntry, Fetch, FetchFails, TakeChange, RecordConflict, WriteChange, WriteFails,
                Finish, SaveFails
  <2>2. \A v \in Workers : v # w => pc[v] = "idle"
    BY <2>1 DEF OneEngine, LockHeld
  <2>3. UNCHANGED pc \/ \E x : pc' = [pc EXCEPT ![w] = x]
    BY <1>2 DEF SyncStep, LoadOutbox, ReadEvent, Push, PushUnread, PushFails, Link, LinkFails,
                ClearEntry, Fetch, FetchFails, TakeChange, RecordConflict, WriteChange, WriteFails,
                Finish, SaveFails, NextEntry, Applied, Leave, Goto
  <2>4. UNCHANGED lock \/ pc' = [pc EXCEPT ![w] = "idle"]
    BY <1>2 DEF SyncStep, LoadOutbox, ReadEvent, Push, PushUnread, PushFails, Link, LinkFails,
                ClearEntry, Fetch, FetchFails, TakeChange, RecordConflict, WriteChange, WriteFails,
                Finish, SaveFails, Leave, Goto
  <2>5. \A v \in Workers : v # w => pc'[v] = "idle"
    BY <1>t, <2>2, <2>3
  <2>6. pc'[w] # "idle" => lock'[EngineOf[w]] = w
    BY <1>t, <2>1, <2>4 DEF LockHeld
  <2> QED
    BY <2>2, <2>5, <2>6 DEF LockHeld
<1> QED
  BY <1>1, <1>2

-------------------------------------------------------------------------------
(* What a step makes of a row.                                             *)

\* What the handlers write: the next edit, or a copy of the Conflict Queue.
Written(content) ==
  \/ content = Local(edits + 1) /\ edits' = edits + 1
  \/ \E c \in conflicts : content = c.local

LEMMA InsertedRow ==
  ASSUME NEW content, NEW url, NEW newer, InsertEvent(content, url, newer), NEW q \in rows'
  PROVE  q \in rows \/ (q.id = lastId + 1 /\ q.url = url /\ q.content = content)
  BY DEF InsertEvent

LEMMA WrittenRow ==
  ASSUME TInv, NEW i, NEW content, NEW newer, WriteContent(i, content, newer), NEW q \in rows'
  PROVE  \E r \in rows : /\ q.id = r.id /\ q.url = r.url
                         /\ q = r \/ (r.id = i /\ q.content = content)
<1>1. PICK r \in rows : q = IF r.id = i THEN [r EXCEPT !.content = content, !.newer = newer] ELSE r
  BY DEF WriteContent
<1>2. r \in Row
  BY DEF TInv, TypeOK, StoreTypeOK
<1> DEFINE new == [r EXCEPT !.content = content, !.newer = newer]
<1>3. new.id = r.id /\ new.url = r.url /\ new.content = content
  BY <1>2 DEF Row
<1>4. q = IF r.id = i THEN new ELSE r
  BY <1>1
<1> HIDE DEF new
<1> QED
  BY <1>3, <1>4

LEMMA HandlerRow ==
  ASSUME TInv, UserAction \/ ConflictAction, NEW q \in rows'
  PROVE  \/ \E r \in rows : q.id = r.id /\ q.url = r.url /\ (q = r \/ Written(q.content))
         \/ q.id = lastId + 1 /\ q.url = NoUrl /\ Written(q.content)
<1>1. CASE CreateEvent \/ ImportEvent
  <2>1. PICK newer : InsertEvent(Local(edits + 1), NoUrl, newer) /\ edits' = edits + 1
    BY <1>1 DEF CreateEvent, ImportEvent, WriteNext
  <2> QED
    BY <2>1, InsertedRow DEF Written
<1>2. ASSUME NEW i, UpdateEvent(i)
      PROVE  \E r \in rows : q.id = r.id /\ q.url = r.url /\ (q = r \/ Written(q.content))
  <2>1. PICK newer : WriteContent(i, Local(edits + 1), newer) /\ edits' = edits + 1
    BY <1>2 DEF UpdateEvent, WriteNext
  <2>2. PICK r \in rows : q.id = r.id /\ q.url = r.url /\ (q = r \/ q.content = Local(edits + 1))
    BY <2>1, WrittenRow
  <2> QED
    BY <2>1, <2>2 DEF Written
<1>3. ASSUME NEW c \in conflicts, RestoreLocal(c)
      PROVE  \E r \in rows : q.id = r.id /\ q.url = r.url /\ (q = r \/ Written(q.content))
  <2>1. PICK i, content, newer : WriteContent(i, content, newer) /\ content = c.local
    BY <1>3 DEF RestoreLocal
  <2>2. PICK r \in rows : q.id = r.id /\ q.url = r.url /\ (q = r \/ q.content = content)
    BY <2>1, WrittenRow
  <2> QED
    BY <2>1, <2>2 DEF Written
<1>4. CASE rows' \subseteq rows
  BY <1>4
<1>5. \/ rows' \subseteq rows \/ CreateEvent \/ ImportEvent \/ (\E i : UpdateEvent(i))
      \/ \E c \in conflicts : RestoreLocal(c)
  BY DEF UserAction, UserNext, UserStep, DeleteEvent, Reread, DeleteRow, Enqueue, EnqueueFails,
         RemoveEvent, ConflictAction, ResolveAcceptRemote, KeepLocal, storeVars
<1> QED
  BY <1>1, <1>2, <1>3, <1>4, <1>5

LEMMA LinkedRow ==
  ASSUME TInv, NEW w \in Workers, Link(w), NEW q \in rows'
  PROVE  \E ev \in sent[w], r \in rows :
           /\ q.id = r.id /\ q.content = r.content /\ q.newer = r.newer
           /\ q.url = IF r.id = ev.id THEN ev.url ELSE r.url
<1>1. PICK ev \in sent[w] : WriteUrl(ev.id, ev.url)
  BY DEF Link
<1>2. PICK r \in rows : q = IF r.id = ev.id THEN [r EXCEPT !.url = ev.url] ELSE r
  BY <1>1 DEF WriteUrl
<1>3. r \in Row
  BY DEF TInv, TypeOK, StoreTypeOK
<1> DEFINE new == [r EXCEPT !.url = ev.url]
<1>4. new.id = r.id /\ new.content = r.content /\ new.newer = r.newer /\ new.url = ev.url
  BY <1>3 DEF Row
<1>5. q = IF r.id = ev.id THEN new ELSE r
  BY <1>2
<1> HIDE DEF new
<1> QED
  BY <1>4, <1>5

LEMMA FinishedRow ==
  ASSUME TInv, NEW w \in Workers, Finish(w), NEW q \in rows'
  PROVE  \E r \in rows : q.id = r.id /\ q.content = r.content /\ q.url = r.url /\ q.newer = FALSE
<1>1. PICK r \in rows : q = [r EXCEPT !.newer = FALSE]
  BY DEF Finish, SyncedNow
<1>2. r \in Row
  BY DEF TInv, TypeOK, StoreTypeOK
<1> QED
  BY <1>1, <1>2 DEF Row

LEMMA AppliedRow ==
  ASSUME TInv, NEW w \in Workers, WriteChange(w), NEW q \in rows'
  PROVE  \/ q \in rows
         \/ /\ q.content = cur[w].content
            /\ \E f \in found[w], r \in rows : r.id = f.id /\ q.id = r.id /\ q.url = r.url
         \/ /\ q.content = cur[w].content
            /\ found[w] = {} /\ q.id = lastId + 1 /\ q.url = cur[w].url
<1>1. CASE rows' \subseteq rows
  BY <1>1
<1>2. ASSUME found[w] = {},
             NEW content, NEW url, NEW newer, content = cur[w].content, url = cur[w].url,
             InsertEvent(content, url, newer)
      PROVE  q \in rows \/ (q.content = content /\ q.id = lastId + 1 /\ q.url = url)
  BY <1>2, InsertedRow
<1>3. ASSUME NEW f \in found[w],
             NEW content, NEW newer, content = cur[w].content, WriteContent(f.id, content, newer)
      PROVE  \/ q \in rows
             \/ q.content = content /\ \E r \in rows : r.id = f.id /\ q.id = r.id /\ q.url = r.url
  <2>1. PICK i : i = f.id
    OBVIOUS
  <2>2. PICK r \in rows : q.id = r.id /\ q.url = r.url /\ (q = r \/ (r.id = i /\ q.content = content))
    BY <1>3, <2>1, WrittenRow
  <2> QED
    BY <2>1, <2>2
<1>4. \/ rows' \subseteq rows
      \/ found[w] = {} /\ InsertEvent(cur[w].content, cur[w].url, TRUE)
      \/ \E f \in found[w] : WriteContent(f.id, cur[w].content, TRUE)
  BY DEF WriteChange, RemoveEvent
<1>5. PICK newer : newer = TRUE
  OBVIOUS
<1>6. CASE found[w] = {} /\ InsertEvent(cur[w].content, cur[w].url, newer)
  BY <1>2, <1>6
<1>7. ASSUME NEW f \in found[w], WriteContent(f.id, cur[w].content, newer)
      PROVE  \/ q \in rows
             \/ q.content = cur[w].content /\ \E r \in rows : r.id = f.id /\ q.id = r.id /\ q.url = r.url
  BY <1>3, <1>7
<1> QED
  BY <1>1, <1>4, <1>5, <1>6, <1>7

LEMMA SyncRow ==
  ASSUME NEW w \in Workers, StartSync(w) \/ SyncStep(w)
  PROVE  UNCHANGED rows \/ Link(w) \/ WriteChange(w) \/ Finish(w)
  BY DEF SyncStep, StartSync, LoadOutbox, ReadEvent, Push, PushUnread, PushFails, LinkFails, ClearEntry,
         Fetch, FetchFails, TakeChange, RecordConflict, WriteFails, SaveFails, storeVars

(* Handlers and other clients leave what the goroutines hold alone.        *)
LEMMA HandlersElse ==
  ASSUME TInv, UserAction \/ ConflictAction
  PROVE  /\ UNCHANGED <<server, seq, lock, pc, mem, todo, sent, changes, cur, found>>
         /\ \A c \in conflicts : \E d \in conflicts' : d.local = c.local
         /\ \A d \in conflicts' : \E c \in conflicts : d.local = c.local
<1>1. UNCHANGED <<server, seq, lock, pc, mem, todo, sent, changes, cur, found>>
  BY DEF UserAction, ConflictAction, ResolveAcceptRemote, RestoreLocal, KeepLocal, serverVars, workerVars
<1>2. UNCHANGED conflicts \/ \E c \in conflicts : \E resolution : Resolve(c, resolution)
  BY DEF UserAction, ConflictAction, ResolveAcceptRemote, RestoreLocal, KeepLocal
<1>3. ASSUME NEW c \in conflicts, NEW resolution, Resolve(c, resolution)
      PROVE  /\ \A b \in conflicts : \E d \in conflicts' : d.local = b.local
             /\ \A d \in conflicts' : \E b \in conflicts : d.local = b.local
  <2> DEFINE new == [c EXCEPT !.resolution = resolution]
  <2>1. new.local = c.local
    BY DEF TInv, TypeOK, Conflict
  <2>2. conflicts' = (conflicts \ {c}) \union {new}
    BY <1>3 DEF Resolve
  <2> HIDE DEF new
  <2> QED
    BY <2>1, <2>2
<1> QED
  BY <1>1, <1>2, <1>3

LEMMA OthersElse ==
  ASSUME RemoteCreate \/ RemoteEdit \/ RemoteDelete
  PROVE  UNCHANGED <<rows, outbox, lastId, user, edits, conflicts, lock, pc, mem, todo, sent, changes,
                     cur, found>>
  BY DEF RemoteCreate, RemoteEdit, RemoteDelete, OtherClient, storeVars, workerVars

-------------------------------------------------------------------------------
(* The server's resources.                                                 *)

LEMMA PutIs ==
  ASSUME NEW url, NEW content, NEW live, Put(url, content, live)
  PROVE  /\ seq' = seq + 1
         /\ \E new : /\ new.url = url /\ new.content = content /\ new.live = live /\ new.seq = seq + 1
                     /\ server' = {s \in server : s.url # url} \union {new}
<1> DEFINE new == [url |-> url, content |-> content, seq |-> seq + 1, live |-> live]
<1>1. /\ new.url = url /\ new.content = content /\ new.live = live /\ new.seq = seq + 1
      /\ server' = {s \in server : s.url # url} \union {new}
  BY DEF Put
<1>2. seq' = seq + 1
  BY DEF Put
<1> HIDE DEF new
<1> QED
  BY <1>1, <1>2

\* A URL no one has been given yet.
Fresh(url) == url.made # "none" /\ url.n = seq + 1

\* Other clients make a resource of their own, or write or delete one that lives.
OthersPut(url, content, live) ==
  \/ url.made = "remote" /\ Fresh(url) /\ content.by = "remote"
  \/ \E s \in server : s.url = url /\ s.live /\ ((content = s.content /\ ~live) \/ content.by = "remote")

LEMMA OthersChange ==
  ASSUME RemoteCreate \/ RemoteEdit \/ RemoteDelete
  PROVE  \E url, content, live : Put(url, content, live) /\ OthersPut(url, content, live)
<1>1. Remote(redits + 1).by = "remote"
  BY DEF Remote
<1>2. CASE RemoteCreate
  <2> DEFINE url == [made |-> "remote", event |-> 0, n |-> seq + 1]
  <2>1. url.made = "remote" /\ url.n = seq + 1
    OBVIOUS
  <2>2. Put(url, Remote(redits + 1), TRUE)
    BY <1>2 DEF RemoteCreate
  <2> HIDE DEF url
  <2>3. OthersPut(url, Remote(redits + 1), TRUE)
    BY <1>1, <2>1 DEF OthersPut, Fresh
  <2> QED
    BY <2>2, <2>3
<1>3. CASE RemoteEdit
  <2>1. PICK s \in server : s.live /\ Put(s.url, Remote(redits + 1), TRUE)
    BY <1>3 DEF RemoteEdit
  <2>2. OthersPut(s.url, Remote(redits + 1), TRUE)
    BY <1>1, <2>1 DEF OthersPut
  <2> QED
    BY <2>1, <2>2
<1>4. CASE RemoteDelete
  <2>1. PICK s \in server : s.live /\ Put(s.url, s.content, FALSE)
    BY <1>4 DEF RemoteDelete
  <2>2. OthersPut(s.url, s.content, FALSE)
    BY <2>1 DEF OthersPut
  <2> QED
    BY <2>1, <2>2
<1> QED
  BY <1>2, <1>3, <1>4

\* A goroutine writes the resource of the entry it pushes, or a new one.
TakenPut(w, url, content, live) ==
  \/ /\ Head(todo[w]).op = "delete"
     /\ ~live /\ url = Head(todo[w]).url
     /\ \E s \in server : s.url = url /\ s.content = content
  \/ /\ Head(todo[w]).op = "upsert"
     /\ \E ev \in sent[w] : /\ url = Target(ev) /\ content = ev.content
                            /\ kind = "outlook" /\ ev.url # NoUrl => LiveAt(ev.url)

LEMMA TakenChange ==
  ASSUME NEW w \in Workers, ServerTakes(w)
  PROVE  \E url, content, live : Put(url, content, live) /\ TakenPut(w, url, content, live)
<1>1. CASE Head(todo[w]).op = "delete" /\ \E s \in server : s.url = Head(todo[w]).url /\
             Put(Head(todo[w]).url, s.content, FALSE)
  <2>1. PICK s \in server : s.url = Head(todo[w]).url /\ Put(s.url, s.content, FALSE)
    BY <1>1
  <2>2. TakenPut(w, s.url, s.content, FALSE)
    BY <1>1, <2>1 DEF TakenPut
  <2> QED
    BY <2>1, <2>2
<1>2. CASE Head(todo[w]).op = "upsert" /\ \E ev \in sent[w] : AcceptsPush(mem[w], ev) /\
             Put(Target(ev), ev.content, TRUE)
  <2>1. PICK ev \in sent[w] : AcceptsPush(mem[w], ev) /\ Put(Target(ev), ev.content, TRUE)
    BY <1>2
  <2>2. TakenPut(w, Target(ev), ev.content, TRUE)
    BY <1>2, <2>1 DEF TakenPut, AcceptsPush
  <2> QED
    BY <2>1, <2>2
<1> QED
  BY <1>1, <1>2 DEF ServerTakes

LEMMA ServerChange ==
  ASSUME TInv, [Next]_vars
  PROVE  \/ UNCHANGED <<server, seq>>
         \/ \E url, content, live :
              /\ Put(url, content, live)
              /\ \/ RemoteCreate \/ RemoteEdit \/ RemoteDelete
                 \/ \E w \in Workers : Push(w) \/ PushUnread(w) \/ PushFails(w)
              /\ \/ OthersPut(url, content, live)
                 \/ \E w \in Workers : pc[w] = "push" /\ TakenPut(w, url, content, live)
<1>1. CASE RemoteCreate \/ RemoteEdit \/ RemoteDelete
  BY <1>1, OthersChange
<1>2. ASSUME NEW w \in Workers, StartSync(w) \/ SyncStep(w)
      PROVE  \/ UNCHANGED <<server, seq>>
             \/ pc[w] = "push" /\ ServerTakes(w) /\ (Push(w) \/ PushUnread(w) \/ PushFails(w))
  BY <1>2 DEF SyncStep, StartSync, LoadOutbox, ReadEvent, Push, PushUnread, PushFails, Link, LinkFails,
              ClearEntry, Fetch, FetchFails, TakeChange, RecordConflict, WriteChange, WriteFails, Finish,
              SaveFails, serverVars
<1>3. CASE Crash \/ UNCHANGED vars \/ UserAction \/ ConflictAction
  BY <1>3, HandlersElse DEF Crash, vars, serverVars
<1> QED
  BY <1>1, <1>2, <1>3, TakenChange DEF Next

-------------------------------------------------------------------------------
(* Which URL belongs to which event.                                       *)

Sending == {"push", "link"}
Applying == {"apply", "conflict", "write"}
Home(i) == [made |-> "local", event |-> i, n |-> 0]

\* The server hands out URLs in turn, for events there have been; an ETag is
\* never empty.
Issued(url) == url.n <= seq /\ (url.made = "local" => url.event \in 1..lastId)

UrlsIssued ==
  /\ \A s \in server : Issued(s.url) /\ s.url # NoUrl /\ s.seq # 0
  /\ \A r \in rows : Issued(r.url)
  /\ \A e \in outbox : Issued(e.url)
  /\ Issued(user.url)
  /\ \A w \in Workers : \A e \in todo[w] : Issued(e.url)

OnePerUrl == \A s, t \in server : s.url = t.url => s = t

\* A pull through CalDAV applies nothing (Fetch), so a row's URL is its own.
CalDAVRows == kind = "caldav" => \A r \in rows : r.url \in {NoUrl, Home(r.id)}

\* What a push sends is still the row's URL, and only that row's.
SentUrls(w) ==
  pc[w] \in Sending => \A ev \in sent[w] :
    /\ Issued(ev.url) /\ ev.id \in 1..lastId
    /\ kind = "caldav" => ev.url \in {NoUrl, Home(ev.id)}
    /\ pc[w] = "push" => \A r \in rows : /\ r.id = ev.id => r.url = ev.url
                                         /\ r.url = ev.url /\ r.url # NoUrl => r.id = ev.id
    /\ pc[w] = "link" => /\ ev.url.made = "local" /\ ev.url.event = ev.id
                         /\ \A r \in rows : r.url # ev.url /\ (r.id = ev.id => r.url = NoUrl)

\* ApplyChange takes a change as held already.
HeldAlready(w, ch) == ch.op = "upsert" /\ ch.tag # 0 /\ Tag(mem[w], ch.url) = ch.tag

\* The row a change was matched with has its URL; without a match no row has.
FetchedUrls(w) ==
  pc[w] \in Applying =>
    /\ \A ch \in changes[w] : Issued(ch.url) /\ ch.url # NoUrl
    /\ kind = "caldav" => pc[w] = "apply" /\ \A ch \in changes[w] : HeldAlready(w, ch)
    /\ pc[w] # "apply" =>
         /\ Issued(cur[w].url) /\ cur[w].url # NoUrl
         /\ found[w] = {} => \A r \in rows : r.url # cur[w].url
         /\ \A f \in found[w] : f.id \in 1..lastId /\ \A r \in rows : r.id = f.id => r.url = cur[w].url

\* A delete that has been pushed is done.
DeleteDone(w) ==
  pc[w] \in Pushing /\ Head(todo[w]).op = "delete" =>
    sent[w] = {} /\ (pc[w] = "clear" => ~LiveAt(Head(todo[w]).url))

UrlInv ==
  /\ LockHeld /\ UrlsIssued /\ OnePerUrl /\ CalDAVRows /\ UniqueUrl
  /\ \A w \in Workers : SentUrls(w) /\ FetchedUrls(w) /\ DeleteDone(w)

LEMMA InitUrl == Init => UrlInv
<1> SUFFICES ASSUME Init PROVE UrlInv
  OBVIOUS
<1>1. \A w \in Workers : pc[w] = "idle" /\ todo[w] = {}
  BY DEF Init
<1>2. LockHeld /\ \A w \in Workers : SentUrls(w) /\ FetchedUrls(w) /\ DeleteDone(w)
  BY <1>1 DEF LockHeld, SentUrls, FetchedUrls, DeleteDone, Sending, Applying, Pushing
<1>3. CASE rows = {} /\ server = {} /\ seq = 0
  BY <1>1, <1>2, <1>3 DEF Init, UrlInv, UrlsIssued, OnePerUrl, CalDAVRows, UniqueUrl, Issued, Idle, NoUrl
<1>4. ASSUME NEW url, url = [made |-> "local", event |-> 1, n |-> IF kind = "caldav" THEN 0 ELSE 1],
             rows = {[id |-> 1, content |-> Local(0), url |-> url, newer |-> FALSE]}, lastId = 1,
             server = {[url |-> url, content |-> Local(0), seq |-> 1, live |-> TRUE]}, seq = 1
      PROVE  UrlInv
  <2>1. url.made = "local" /\ url.event = 1 /\ url.n <= 1 /\ (kind = "caldav" => url = Home(1))
    BY <1>4 DEF Home
  <2>2. url # NoUrl /\ 1 # 0
    BY <2>1 DEF NoUrl
  <2>3. /\ \A s \in server : s.url = url /\ s.seq # 0
        /\ \A s, t \in server : s = t
        /\ \A r \in rows : r.url = url /\ r.id = 1
        /\ \A q, r \in rows : q = r
    BY <1>4
  <2>4. Issued(url) /\ Issued(NoUrl) /\ outbox = {} /\ user.url = NoUrl
    BY <1>4, <2>1 DEF Issued, NoUrl, Init, Idle
  <2> QED
    BY <1>1, <1>2, <2>1, <2>2, <2>3, <2>4 DEF UrlInv, UrlsIssued, OnePerUrl, CalDAVRows, UniqueUrl
<1> QED
  BY <1>3, <1>4 DEF Init

\* What has been issued stays so.
LEMMA StaysIssued ==
  ASSUME TInv, CoverInv, [Next]_vars
  PROVE  /\ seq <= seq' /\ lastId <= lastId'
         /\ \A url \in Url : Issued(url) => Issued(url)'
<1>1. seq \in Nat /\ seq' \in Nat /\ lastId \in Nat /\ lastId' \in Nat
  BY StepTyped DEF TInv, TypeOK, StoreTypeOK
<1>2. seq <= seq'
  BY <1>1, ServerChange, PutIs
<1>3. lastId <= lastId'
  BY StepRowIds DEF CoverInv
<1> QED
  BY <1>1, <1>2, <1>3 DEF Issued, Url

LEMMA NextPlace ==
  ASSUME TInv, NEW w \in Workers, StartSync(w) \/ SyncStep(w)
  PROVE  /\ pc'[w] = "push" => ReadEvent(w)
         /\ pc'[w] = "link" => Push(w)
         /\ pc'[w] = "clear" => Push(w) \/ PushUnread(w) \/ Link(w)
         /\ pc'[w] \in Applying => \/ Fetch(w) \/ TakeChange(w) \/ RecordConflict(w)
                                   \/ WriteChange(w) \/ WriteFails(w)
<1>t. pc \in [Workers -> PCs]
  BY DEF TInv, TypeOK
<1>1. CASE StartSync(w) \/ LoadOutbox(w) \/ FetchFails(w) \/ Finish(w) \/ SaveFails(w)
  BY <1>t, <1>1 DEF StartSync, LoadOutbox, FetchFails, Finish, SaveFails, Leave, Goto, Applying
<1>2. CASE PushFails(w) \/ LinkFails(w) \/ ClearEntry(w)
  BY <1>t, <1>2 DEF PushFails, LinkFails, ClearEntry, NextEntry, Goto, Applying
<1>3. CASE ReadEvent(w)
  BY <1>t, <1>3 DEF ReadEvent, Goto, Applying
<1>4. CASE Push(w) \/ PushUnread(w) \/ Link(w)
  BY <1>t, <1>4 DEF Push, PushUnread, Link, Goto, Applying
<1>5. CASE Fetch(w) \/ TakeChange(w) \/ RecordConflict(w) \/ WriteChange(w) \/ WriteFails(w)
  BY <1>t, <1>5 DEF Fetch, TakeChange, RecordConflict, WriteChange, WriteFails, Applied, Goto, Applying
<1> QED
  BY <1>1, <1>2, <1>3, <1>4, <1>5 DEF SyncStep

\* A resource has the URL it had, or the push that makes it has one for it.
LEMMA TargetIssued ==
  ASSUME TInv, UrlInv, NEW w \in Workers, pc[w] = "push", NEW ev \in sent[w]
  PROVE  /\ Target(ev) # NoUrl /\ Target(ev).n <= seq + 1
         /\ Target(ev).made = "local" => Target(ev).event \in 1..lastId
         /\ ev.url # NoUrl => Target(ev) = ev.url
         /\ ev.url = NoUrl => /\ Target(ev).made = "local" /\ Target(ev).event = ev.id
                              /\ kind = "caldav" => Target(ev) = Home(ev.id)
                              /\ kind # "caldav" => Target(ev).n = seq + 1
<1>1. Issued(ev.url) /\ ev.id \in 1..lastId /\ seq \in Nat /\ ev.url \in Url
  BY DEF UrlInv, SentUrls, Sending, TInv, TypeOK, Row
<1>2. CASE ev.url # NoUrl
  BY <1>1, <1>2 DEF Target, Issued, Url
<1>3. CASE ev.url = NoUrl
  <2> DEFINE new == [made |-> "local", event |-> ev.id, n |-> IF kind = "caldav" THEN 0 ELSE seq + 1]
  <2>1. new.made = "local" /\ new.event = ev.id /\ new.n = (IF kind = "caldav" THEN 0 ELSE seq + 1)
    OBVIOUS
  <2>2. kind = "caldav" => new = Home(ev.id)
    BY DEF Home
  <2>3. new # NoUrl
    BY <2>1 DEF NoUrl
  <2>4. Target(ev) = new
    BY <1>3 DEF Target
  <2> HIDE DEF new
  <2> QED
    BY <1>1, <1>3, <2>1, <2>2, <2>3, <2>4
<1> QED
  BY <1>2, <1>3

LEMMA ServerUrls ==
  ASSUME TInv, CoverInv, UrlInv, [Next]_vars
  PROVE  /\ \A s \in server' : Issued(s.url)' /\ s.url # NoUrl /\ s.seq # 0
         /\ OnePerUrl'
<1>1. CASE UNCHANGED <<server, seq>>
  <2>1. \A s \in server : s.url \in Url
    BY DEF TInv, TypeOK, Resource
  <2> QED
    BY <1>1, <2>1, StaysIssued DEF UrlInv, UrlsIssued, OnePerUrl
<1>2. ASSUME NEW url, NEW content, NEW live, Put(url, content, live),
             url # NoUrl, Issued(url)'
      PROVE  /\ \A s \in server' : Issued(s.url)' /\ s.url # NoUrl /\ s.seq # 0
             /\ OnePerUrl'
  <2>1. PICK new : new.url = url /\ new.seq = seq + 1 /\ server' = {s \in server : s.url # url} \union {new}
    BY <1>2, PutIs
  <2>2. seq + 1 # 0 /\ \A s \in server : s.url \in Url
    BY DEF TInv, TypeOK, Resource
  <2>3. \A s \in server : Issued(s.url)' /\ s.url # NoUrl /\ s.seq # 0
    BY <2>2, StaysIssued DEF UrlInv, UrlsIssued
  <2>4. OnePerUrl'
    BY <2>1 DEF UrlInv, OnePerUrl
  <2> QED
    BY <1>2, <2>1, <2>2, <2>3, <2>4
<1>3. ASSUME NEW url, NEW content, NEW live, Put(url, content, live), OthersPut(url, content, live)
      PROVE  url # NoUrl /\ Issued(url)'
  <2>1. CASE \E s \in server : s.url = url
    BY <2>1, StaysIssued DEF UrlInv, UrlsIssued, TInv, TypeOK, Resource
  <2>2. CASE url.made = "remote" /\ Fresh(url)
    <3>1. seq \in Nat /\ seq' = seq + 1
      BY <1>3, PutIs DEF TInv, TypeOK
    <3> QED
      BY <2>2, <3>1 DEF Fresh, Issued, NoUrl
  <2> QED
    BY <1>3, <2>1, <2>2 DEF OthersPut
<1>4. ASSUME NEW w \in Workers, pc[w] = "push",
             NEW url, NEW content, NEW live, Put(url, content, live), TakenPut(w, url, content, live)
      PROVE  url # NoUrl /\ Issued(url)'
  <2>1. CASE \E s \in server : s.url = url
    BY <2>1, StaysIssued DEF UrlInv, UrlsIssued, TInv, TypeOK, Resource
  <2>2. CASE \E ev \in sent[w] : url = Target(ev)
    <3>1. seq' = seq + 1 /\ lastId \in Nat /\ lastId <= lastId' /\ lastId' \in Nat
      BY <1>4, PutIs, StaysIssued, StepTyped DEF TInv, TypeOK, StoreTypeOK
    <3> QED
      BY <1>4, <2>2, <3>1, TargetIssued DEF Issued
  <2> QED
    BY <1>4, <2>1, <2>2 DEF TakenPut
<1> QED
  BY <1>1, <1>2, <1>3, <1>4, ServerChange

\* A row's URL is what it was, none for a new event, or what a sync writes.
Linked(w, q) == \E ev \in sent[w] : q.id = ev.id /\ q.url = ev.url
KeptUrl(q) == \/ \E r \in rows : q.id = r.id /\ q.url = r.url
              \/ q.id = lastId + 1 /\ q.url = NoUrl

LEMMA LinkedUrl ==
  ASSUME TInv, NEW w \in Workers, Link(w), NEW q \in rows'
  PROVE  Linked(w, q) \/ \E r \in rows : q.id = r.id /\ q.url = r.url
  BY LinkedRow DEF Linked

LEMMA AppliedUrl ==
  ASSUME TInv, NEW w \in Workers, WriteChange(w), NEW q \in rows'
  PROVE  \/ \E r \in rows : q.id = r.id /\ q.url = r.url
         \/ found[w] = {} /\ q.id = lastId + 1 /\ q.url = cur[w].url
  BY AppliedRow

LEMMA RowUrls ==
  ASSUME TInv, [Next]_vars
  PROVE  (\E w \in Workers : Link(w) \/ WriteChange(w)) \/ \A q \in rows' : KeptUrl(q)
<1>1. CASE UNCHANGED rows
  BY <1>1 DEF KeptUrl
<1>2. CASE UserAction \/ ConflictAction
  BY <1>2, HandlerRow DEF KeptUrl
<1>3. ASSUME NEW w \in Workers, Finish(w)
      PROVE  \A q \in rows' : KeptUrl(q)
  BY <1>3, FinishedRow DEF KeptUrl
<1>4. CASE RemoteCreate \/ RemoteEdit \/ RemoteDelete \/ Crash \/ UNCHANGED vars
  BY <1>1, <1>4, OthersElse DEF Crash, vars, storeVars
<1> QED
  BY <1>1, <1>2, <1>3, <1>4, SyncRow DEF Next

LEMMA StepRowUrls ==
  ASSUME TInv, CoverInv, UrlInv, [Next]_vars
  PROVE  UniqueUrl' /\ CalDAVRows' /\ \A q \in rows' : Issued(q.url)'
<1>t. /\ lastId \in Nat /\ kind' = kind /\ NoUrl \in Url
      /\ \A r \in rows : r.id \in 1..lastId /\ r.url \in Url /\ Issued(r.url)
  BY Typeful DEF CoverInv, RowIds, UrlInv, UrlsIssued, TInv, TypeOK, StoreTypeOK, Row, Next, vars
<1>i. \A url \in Url : Issued(url) => Issued(url)'
  BY StaysIssued
<1>n. Issued(NoUrl)
  BY <1>t DEF Issued, NoUrl, TInv, TypeOK
<1>1. CASE \A q \in rows' : KeptUrl(q)
  <2>1. UniqueUrl'
    BY <1>t, <1>1 DEF KeptUrl, UrlInv, UniqueUrl
  <2>2. CalDAVRows'
    BY <1>t, <1>1 DEF KeptUrl, UrlInv, CalDAVRows
  <2>3. \A q \in rows' : q.url \in Url /\ Issued(q.url)
    BY <1>t, <1>n, <1>1 DEF KeptUrl
  <2> QED
    BY <1>i, <2>1, <2>2, <2>3
<1>2. ASSUME NEW w \in Workers, Link(w)
      PROVE  UniqueUrl' /\ CalDAVRows' /\ \A q \in rows' : Issued(q.url)'
  <2>1. pc[w] = "link" /\ \A ev, fv \in sent[w] : ev = fv
    BY <1>2 DEF Link, CoverInv, OneEvent
  <2>2. \A ev \in sent[w] : /\ Issued(ev.url) /\ (\A r \in rows : r.url # ev.url)
                            /\ kind = "caldav" => ev.url \in {NoUrl, Home(ev.id)}
                            /\ ev.url \in Url
    BY <2>1 DEF UrlInv, SentUrls, Sending, TInv, TypeOK, Row
  <2>3. \A q \in rows' : Linked(w, q) \/ \E r \in rows : q.id = r.id /\ q.url = r.url
    BY <1>2, LinkedUrl
  <2>4. UniqueUrl'
    BY <2>1, <2>2, <2>3 DEF Linked, UrlInv, UniqueUrl
  <2>5. CalDAVRows'
    BY <1>t, <2>2, <2>3 DEF Linked, UrlInv, CalDAVRows
  <2>6. \A q \in rows' : q.url \in Url /\ Issued(q.url)
    BY <1>t, <2>2, <2>3 DEF Linked
  <2> QED
    BY <1>i, <2>4, <2>5, <2>6
<1>3. ASSUME NEW w \in Workers, WriteChange(w)
      PROVE  UniqueUrl' /\ CalDAVRows' /\ \A q \in rows' : Issued(q.url)'
  <2>1. pc[w] = "write"
    BY <1>3 DEF WriteChange
  <2>2. /\ kind # "caldav" /\ Issued(cur[w].url) /\ cur[w].url \in Url
        /\ found[w] = {} => \A r \in rows : r.url # cur[w].url
    BY <2>1 DEF UrlInv, FetchedUrls, Applying, TInv, TypeOK, Change
  <2>3. \A q \in rows' : \/ \E r \in rows : q.id = r.id /\ q.url = r.url
                         \/ found[w] = {} /\ q.id = lastId + 1 /\ q.url = cur[w].url
    BY <1>3, AppliedUrl
  <2>4. UniqueUrl'
    BY <2>2, <2>3 DEF UrlInv, UniqueUrl
  <2>5. CalDAVRows'
    BY <1>t, <2>2 DEF CalDAVRows
  <2>6. \A q \in rows' : q.url \in Url /\ Issued(q.url)
    BY <1>t, <2>2, <2>3
  <2> QED
    BY <1>i, <2>4, <2>5, <2>6
<1> QED
  BY <1>1, <1>2, <1>3, RowUrls

LEMMA StepQueueUrls ==
  ASSUME TInv, CoverInv, UrlInv, [Next]_vars
  PROVE  /\ Issued(user.url)'
         /\ \A e \in outbox' : Issued(e.url)'
         /\ \A w \in Workers : \A e \in todo'[w] : Issued(e.url)'
<1>i. \A url \in Url : Issued(url) => Issued(url)'
  BY StaysIssued
<1>t. /\ user \in User /\ user.url \in Url /\ NoUrl \in Url
      /\ \A r \in rows : r.url \in Url
      /\ \A e \in outbox : e.url \in Url
      /\ \A w \in Workers : \A e \in todo[w] : e.url \in Url
  BY Typeful DEF TInv, TypeOK, StoreTypeOK, User, Row, Entry
<1>n. Issued(NoUrl)
  BY DEF Issued, NoUrl, TInv, TypeOK
<1>1. user'.url = user.url \/ user'.url = NoUrl \/ \E r \in rows : user'.url = r.url
  <2>1. CASE UserNext
    BY <1>t, <2>1 DEF UserNext, UserStep, CreateEvent, ImportEvent, UpdateEvent, DeleteEvent, Reread,
                      DeleteRow, Enqueue, EnqueueFails, Begin, Idle, User
  <2>2. CASE ConflictAction
    <3>1. Idle.url = NoUrl
      BY DEF Idle
    <3>2. ASSUME NEW c \in conflicts, RestoreLocal(c)
          PROVE  user'.url = NoUrl
      <4>1. user' = [Idle EXCEPT !.phase = "resolve", !.event = c.id]
        BY <3>2 DEF RestoreLocal
      <4>2. user'.url = Idle.url
        BY <4>1, Typeful DEF User
      <4> QED
        BY <3>1, <4>2
    <3> QED
      BY <2>2, <3>1, <3>2 DEF ConflictAction, ResolveAcceptRemote, KeepLocal, storeVars
  <2>3. ASSUME NEW w \in Workers, StartSync(w) \/ SyncStep(w)
        PROVE  UNCHANGED user
    BY <2>3 DEF SyncStep, StartSync, LoadOutbox, ReadEvent, Push, PushUnread, PushFails, Link, LinkFails,
                ClearEntry, Fetch, FetchFails, TakeChange, RecordConflict, WriteChange, WriteFails, Finish,
                SaveFails, storeVars
  <2>4. CASE RemoteCreate \/ RemoteEdit \/ RemoteDelete \/ Crash \/ UNCHANGED vars
    BY <2>4, OthersElse DEF Crash, Idle, vars, storeVars
  <2> QED
    BY <2>1, <2>2, <2>3, <2>4 DEF Next, UserAction
<1>2. user'.url \in Url /\ Issued(user'.url)
  BY <1>t, <1>n, <1>1 DEF UrlInv, UrlsIssued
<1>3. \A e \in outbox' : e \in outbox \/ e.url = user.url
  BY OutboxChange DEF Enqueue
<1>4. \A e \in outbox' : e.url \in Url /\ Issued(e.url)
  BY <1>t, <1>3 DEF UrlInv, UrlsIssued
<1>5. \A w \in Workers : \A e \in todo'[w] : e \in todo[w] \/ e \in outbox
  BY TodoChange
<1>6. \A w \in Workers : \A e \in todo'[w] : e.url \in Url /\ Issued(e.url)
  BY <1>t, <1>5 DEF UrlInv, UrlsIssued
<1> QED
  BY <1>i, <1>2, <1>4, <1>6

\* Rows that keep their URLs, or are new and have none, are still the ones a
\* push and a pull have in hand.
LEMMA KeptUrls ==
  ASSUME TInv, CoverInv, UrlInv, [Next]_vars, \A q \in rows' : KeptUrl(q), NEW v \in Workers,
         UNCHANGED <<pc, mem, sent, changes, cur, found>>
  PROVE  SentUrls(v)' /\ FetchedUrls(v)'
<1>i. lastId <= lastId' /\ \A url \in Url : Issued(url) => Issued(url)'
  BY StaysIssued
<1>t. /\ lastId \in Nat /\ lastId' \in Nat /\ kind' = kind
      /\ \A ev \in sent[v] : ev.url \in Url
      /\ \A ch \in changes[v] : ch.url \in Url
      /\ cur[v].url \in Url
  BY StepTyped DEF TInv, TypeOK, StoreTypeOK, Row, Change, Next, vars
<1>n. NoUrl.made = "none"
  BY DEF NoUrl
<1>1. SentUrls(v)'
  <2> SUFFICES ASSUME pc[v] \in Sending, NEW ev \in sent[v]
               PROVE  /\ Issued(ev.url)' /\ ev.id \in 1..lastId'
                      /\ kind = "caldav" => ev.url \in {NoUrl, Home(ev.id)}
                      /\ pc[v] = "push" => \A r \in rows' : /\ r.id = ev.id => r.url = ev.url
                                                            /\ r.url = ev.url /\ r.url # NoUrl => r.id = ev.id
                      /\ pc[v] = "link" => /\ ev.url.made = "local" /\ ev.url.event = ev.id
                                           /\ \A r \in rows' : r.url # ev.url /\ (r.id = ev.id => r.url = NoUrl)
    BY <1>t DEF SentUrls
  <2>1. SentUrls(v)
    BY DEF UrlInv
  <2>2. Issued(ev.url)' /\ ev.id \in 1..lastId /\ ev.id \in 1..lastId' /\ ev.id # lastId + 1
    BY <1>i, <1>t, <2>1 DEF SentUrls
  <2>3. pc[v] = "push" => \A r \in rows' : /\ r.id = ev.id => r.url = ev.url
                                           /\ r.url = ev.url /\ r.url # NoUrl => r.id = ev.id
    BY <2>1, <2>2 DEF SentUrls, KeptUrl
  <2>4. pc[v] = "link" => /\ ev.url.made = "local" /\ ev.url.event = ev.id
                          /\ \A r \in rows' : r.url # ev.url /\ (r.id = ev.id => r.url = NoUrl)
    BY <1>n, <2>1, <2>2 DEF SentUrls, KeptUrl
  <2> QED
    BY <2>1, <2>2, <2>3, <2>4 DEF SentUrls
<1>2. FetchedUrls(v)'
  <2> SUFFICES ASSUME pc[v] \in Applying PROVE FetchedUrls(v)'
    BY DEF FetchedUrls
  <2>1. FetchedUrls(v)
    BY DEF UrlInv
  <2>2. \A ch \in changes[v] : Issued(ch.url)' /\ ch.url # NoUrl
    BY <1>i, <1>t, <2>1 DEF FetchedUrls
  <2>3. kind = "caldav" => pc[v] = "apply" /\ \A ch \in changes[v] : HeldAlready(v, ch)
    BY <2>1 DEF FetchedUrls
  <2>4. pc[v] # "apply" =>
         /\ Issued(cur[v].url)' /\ cur[v].url # NoUrl
         /\ found[v] = {} => \A r \in rows' : r.url # cur[v].url
         /\ \A f \in found[v] : f.id \in 1..lastId' /\ \A r \in rows' : r.id = f.id => r.url = cur[v].url
    <3> SUFFICES ASSUME pc[v] # "apply"
                 PROVE  /\ Issued(cur[v].url)' /\ cur[v].url # NoUrl
                        /\ found[v] = {} => \A r \in rows' : r.url # cur[v].url
                        /\ \A f \in found[v] : f.id \in 1..lastId' /\ \A r \in rows' : r.id = f.id => r.url = cur[v].url
      OBVIOUS
    <3>1. Issued(cur[v].url)' /\ cur[v].url # NoUrl
      BY <1>i, <1>t, <2>1 DEF FetchedUrls
    <3>2. found[v] = {} => \A r \in rows' : r.url # cur[v].url
      BY <2>1, <3>1 DEF FetchedUrls, KeptUrl
    <3>3. ASSUME NEW f \in found[v]
          PROVE  f.id \in 1..lastId' /\ \A r \in rows' : r.id = f.id => r.url = cur[v].url
      <4>1. f.id \in 1..lastId /\ \A r \in rows : r.id = f.id => r.url = cur[v].url
        BY <2>1 DEF FetchedUrls
      <4>2. f.id # lastId + 1 /\ f.id \in 1..lastId'
        BY <1>i, <1>t, <4>1
      <4> QED
        BY <4>1, <4>2 DEF KeptUrl
    <3> QED
      BY <3>1, <3>2, <3>3
  <2> QED
    BY <1>t, <2>2, <2>3, <2>4 DEF FetchedUrls, HeldAlready
<1> QED
  BY <1>1, <1>2

LEMMA SyncSentUrls ==
  ASSUME TInv, CoverInv, UrlInv, [Next]_vars, NEW w \in Workers, StartSync(w) \/ SyncStep(w)
  PROVE  SentUrls(w)'
<1>i. lastId <= lastId' /\ \A url \in Url : Issued(url) => Issued(url)'
  BY StaysIssued
<1>t. /\ lastId \in Nat /\ lastId' \in Nat /\ kind' = kind
      /\ pc \in [Workers -> PCs] /\ sent \in [Workers -> SUBSET Row]
      /\ \A r \in rows : r.id \in 1..lastId /\ r.url \in Url /\ Issued(r.url)
  BY StepTyped DEF CoverInv, RowIds, UrlInv, UrlsIssued, TInv, TypeOK, StoreTypeOK, Row, Next, vars
<1>1. CASE pc'[w] = "push"
  <2>1. ReadEvent(w)
    BY <1>1, NextPlace
  <2>2. sent' = [sent EXCEPT ![w] = {r \in rows : r.id = Head(todo[w]).event /\ Head(todo[w]).op = "upsert"}]
        /\ UNCHANGED <<rows, lastId>>
    BY <1>t, <1>1, <2>1 DEF ReadEvent, Goto
  <2>3. sent'[w] \subseteq rows
    BY <1>t, <2>2
  <2>4. \A ev \in sent'[w] : \A r \in rows' : /\ r.id = ev.id => r.url = ev.url
                                              /\ r.url = ev.url /\ r.url # NoUrl => r.id = ev.id
    BY <2>2, <2>3 DEF CoverInv, RowIds, UrlInv, UniqueUrl
  <2>5. \A ev \in sent'[w] : Issued(ev.url)' /\ ev.id \in 1..lastId'
    BY <1>i, <1>t, <2>2, <2>3
  <2>6. kind = "caldav" => \A ev \in sent'[w] : ev.url \in {NoUrl, Home(ev.id)}
    BY <2>3 DEF UrlInv, CalDAVRows
  <2> QED
    BY <1>1, <1>t, <2>4, <2>5, <2>6 DEF SentUrls
<1>2. CASE pc'[w] = "link"
  <2>1. Push(w)
    BY <1>2, NextPlace
  <2>2. PICK ev \in sent[w] : ev.url = NoUrl /\ sent' = [sent EXCEPT ![w] = {[ev EXCEPT !.url = Target(ev)]}]
    BY <1>t, <1>2, <2>1 DEF Push, Goto
  <2>3. pc[w] = "push" /\ ServerTakes(w) /\ UNCHANGED <<rows, lastId>>
    BY <2>1 DEF Push, storeVars
  <2>0. PICK url : url = Target(ev)
    OBVIOUS
  <2> DEFINE new == [ev EXCEPT !.url = Target(ev)]
  <2>4. new.id = ev.id /\ new.url = url
    BY <1>t, <2>0 DEF Row
  <2>5. sent'[w] = {new}
    BY <1>t, <2>2
  <2> HIDE DEF new
  <2>6. seq' = seq + 1 /\ seq \in Nat
    BY <2>3, TakenChange, PutIs DEF TInv, TypeOK
  <2>7. /\ url.n <= seq + 1 /\ url.made = "local" /\ url.event = ev.id
        /\ kind = "caldav" => url = Home(ev.id)
        /\ kind # "caldav" => url.n = seq + 1
    BY <2>0, <2>2, <2>3, TargetIssued
  <2>8. ev.id \in 1..lastId /\ \A r \in rows : r.id = ev.id => r.url = NoUrl
    BY <2>2, <2>3 DEF UrlInv, SentUrls, Sending
  <2>9. Issued(url)'
    BY <2>3, <2>6, <2>7, <2>8 DEF Issued
  <2>10. \A r \in rows : r.url # url
    <3>1. CASE kind = "caldav"
      <4>1. \A i : Home(i).event = i /\ Home(i).made = "local" /\ NoUrl.made = "none"
        BY DEF Home, NoUrl
      <4> QED
        BY <2>7, <2>8, <3>1, <4>1 DEF UrlInv, CalDAVRows
    <3>2. CASE kind # "caldav"
      BY <1>t, <2>6, <2>7, <3>2 DEF Issued, Url
    <3> QED
      BY <3>1, <3>2
  <2> QED
    BY <1>t, <1>2, <2>3, <2>4, <2>5, <2>7, <2>8, <2>9, <2>10 DEF SentUrls
<1> QED
  BY <1>1, <1>2 DEF SentUrls, Sending

\* Multiget notes the ETag of each change it returns.
LEMMA MultigetHolds ==
  ASSUME TInv, CoverInv, UrlInv, NEW w \in Workers, Fetch(w), kind = "caldav"
  PROVE  \A ch \in changes'[w] : HeldAlready(w, ch)'
<1> DEFINE got == CalDAVChanges(mem[w])
           tags == {e \in mem[w].etags : \A g \in got : g.url # e.url} \union
                   {[url |-> g.url, tag |-> g.tag] : g \in got}
<1>t. mem \in [Workers -> SyncState] /\ changes \in [Workers -> SUBSET Change]
  BY DEF TInv, TypeOK
<1>1. changes'[w] = got
  BY <1>t DEF Fetch
<1>2. mem'[w].etags = tags
  BY <1>t DEF Fetch, SyncState
<1>3. \A g \in got : g.op = "upsert" /\ g.tag # 0 /\ \E s \in server : g.url = s.url /\ g.tag = s.seq
  BY DEF CalDAVChanges, UrlInv, UrlsIssued
<1> HIDE DEF got
<1>4. \A g, h \in got : g.url = h.url => g.tag = h.tag
  BY <1>3 DEF UrlInv, OnePerUrl
<1>5. ASSUME NEW ch \in got
      PROVE  (CHOOSE e \in tags : e.url = ch.url).tag = ch.tag /\ \E e \in tags : e.url = ch.url
  <2>1. \A e \in tags : e.url = ch.url => e.tag = ch.tag
    BY <1>4
  <2>2. [url |-> ch.url, tag |-> ch.tag] \in tags /\ [url |-> ch.url, tag |-> ch.tag].url = ch.url
    OBVIOUS
  <2> HIDE DEF tags
  <2> QED
    BY <2>1, <2>2
<1> HIDE DEF tags
<1> QED
  BY <1>1, <1>2, <1>3, <1>5 DEF HeldAlready, Tag

LEMMA SyncFetchedUrls ==
  ASSUME TInv, CoverInv, UrlInv, [Next]_vars, NEW w \in Workers, StartSync(w) \/ SyncStep(w)
  PROVE  FetchedUrls(w)'
<1>i. lastId <= lastId' /\ \A url \in Url : Issued(url) => Issued(url)'
  BY StaysIssued
<1>t. /\ lastId \in Nat /\ lastId' \in Nat /\ kind' = kind
      /\ pc \in [Workers -> PCs] /\ changes \in [Workers -> SUBSET Change]
      /\ cur \in [Workers -> Change] /\ found \in [Workers -> SUBSET Row]
      /\ \A ch \in Change : ch.url \in Url
      /\ \A s \in server : s.url \in Url
      /\ \A r \in rows : r.id \in 1..lastId
  BY StepTyped DEF CoverInv, RowIds, TInv, TypeOK, StoreTypeOK, Change, Resource, Next, vars
<1>f. FetchedUrls(w)
  BY DEF UrlInv
<1>1. CASE Fetch(w)
  <2>1. pc'[w] = "apply"
    BY <1>t, <1>1 DEF Fetch, Goto
  <2>2. \A state, token : \A ch \in CalDAVChanges(state) \union GraphChanges(token) :
          \E s \in server : ch.url = s.url
    BY DEF CalDAVChanges, GraphChanges
  <2>3. \A ch \in changes'[w] : \E s \in server : ch.url = s.url
    <3>1. \E state, token : changes'[w] = CalDAVChanges(state) \/ changes'[w] = GraphChanges(token)
      BY <1>t, <1>1 DEF Fetch
    <3> QED
      BY <2>2, <3>1
  <2>4. \A ch \in changes'[w] : Issued(ch.url)' /\ ch.url # NoUrl
    BY <1>i, <1>t, <2>3 DEF UrlInv, UrlsIssued
  <2>5. kind = "caldav" => \A ch \in changes'[w] : HeldAlready(w, ch)'
    BY <1>1, MultigetHolds
  <2> QED
    BY <1>t, <2>1, <2>4, <2>5 DEF FetchedUrls
<1>2. CASE TakeChange(w)
  <2>1. PICK ch \in changes[w] :
          /\ changes' = [changes EXCEPT ![w] = @ \ {ch}]
          /\ \/ UNCHANGED <<pc, cur, found>>
             \/ /\ ~HeldAlready(w, ch)
                /\ cur' = [cur EXCEPT ![w] = ch]
                /\ found' = [found EXCEPT ![w] = ByUrl(ch.url)]
                /\ Goto(w, "conflict") \/ Goto(w, "write")
    BY <1>2 DEF TakeChange, HeldAlready
  <2>2. UNCHANGED <<rows, lastId, mem>> /\ pc[w] = "apply"
    BY <1>2 DEF TakeChange, storeVars
  <2>3. changes'[w] \subseteq changes[w]
    BY <1>t, <2>1
  <2>4. \A c \in changes[w] : Issued(c.url)' /\ c.url # NoUrl /\ (kind = "caldav" => HeldAlready(w, c))
    BY <1>i, <1>t, <1>f, <2>2 DEF FetchedUrls, Applying
  <2>5. \A c \in changes'[w] : Issued(c.url)' /\ c.url # NoUrl /\ (kind = "caldav" => HeldAlready(w, c)')
    BY <2>2, <2>3, <2>4 DEF HeldAlready
  <2>6. CASE UNCHANGED <<pc, cur, found>>
    BY <1>t, <2>2, <2>5, <2>6 DEF FetchedUrls
  <2>7. CASE ~UNCHANGED <<pc, cur, found>>
    <3>1. kind # "caldav" /\ cur'[w] = ch /\ found'[w] = ByUrl(ch.url)
      BY <1>t, <2>1, <2>4, <2>7
    <3>2. ByUrl(ch.url) = {} => \A r \in rows : r.url # ch.url
      <4>1. \A r \in rows : r.url = ch.url => r \in ByUrl(ch.url)
        BY <1>t, <2>4 DEF ByUrl, UrlInv, UniqueUrl
      <4> QED
        BY <4>1
    <3>3. \A f \in ByUrl(ch.url) : f.id \in 1..lastId /\ \A r \in rows : r.id = f.id => r.url = ch.url
      BY <1>t DEF ByUrl, CoverInv, RowIds
    <3>4. Issued(ch.url)' /\ ch.url # NoUrl
      BY <2>4
    <3> QED
      BY <1>t, <2>2, <2>5, <3>1, <3>2, <3>3, <3>4 DEF FetchedUrls
  <2> QED
    BY <2>6, <2>7
<1>3. CASE RecordConflict(w)
  <2>1. UNCHANGED <<rows, lastId, mem, changes, cur, found>> /\ pc[w] = "conflict"
    BY <1>3 DEF RecordConflict
  <2> QED
    BY <1>i, <1>t, <1>f, <2>1 DEF FetchedUrls, Applying
<1>4. CASE WriteChange(w) \/ WriteFails(w)
  <2>1. UNCHANGED changes /\ pc[w] = "write" /\ pc'[w] = "apply"
    BY <1>t, <1>4 DEF WriteChange, WriteFails, Applied, Goto
  <2> QED
    BY <1>i, <1>t, <1>f, <2>1 DEF FetchedUrls, Applying
<1> QED
  BY <1>1, <1>2, <1>3, <1>4, NextPlace DEF FetchedUrls

\* Other clients bring no deleted resource back.
LEMMA OthersDeleteDone ==
  ASSUME TInv, CoverInv, UrlInv, [Next]_vars, NEW v \in Workers, UNCHANGED <<pc, todo, sent>>,
         \/ UNCHANGED server
         \/ \E url, content, live : Put(url, content, live) /\ OthersPut(url, content, live)
  PROVE  DeleteDone(v)'
<1> SUFFICES ASSUME NEW url, url = Head(todo[v]).url, pc[v] = "clear", ~LiveAt(url), todo[v] # {}
             PROVE  ~LiveAt(url)'
  BY DEF DeleteDone, UrlInv, CoverInv, QueueRead, Pushing
<1>1. Issued(url) /\ url \in Url
  BY HeadIsOldest DEF CoverInv, UrlInv, UrlsIssued, TInv, TypeOK, Entry
<1>2. CASE UNCHANGED server
  BY <1>2 DEF LiveAt
<1>3. ASSUME NEW u, NEW content, NEW live, Put(u, content, live), OthersPut(u, content, live)
      PROVE  ~LiveAt(url)'
  <2>1. PICK new : new.url = u /\ server' = {s \in server : s.url # u} \union {new}
    BY <1>3, PutIs
  <2>2. u # url
    BY <1>1, <1>3 DEF OthersPut, Fresh, Issued, LiveAt, TInv, TypeOK, Url
  <2> QED
    BY <2>1, <2>2 DEF LiveAt
<1> QED
  BY <1>2, <1>3

LEMMA SyncDeleteDone ==
  ASSUME TInv, CoverInv, UrlInv, [Next]_vars, NEW w \in Workers, StartSync(w) \/ SyncStep(w)
  PROVE  DeleteDone(w)'
<1>t. pc \in [Workers -> PCs] /\ sent \in [Workers -> SUBSET Row]
  BY DEF TInv, TypeOK
<1>d. DeleteDone(w)
  BY DEF UrlInv
<1>1. CASE ReadEvent(w)
  <2>1. CASE pc'[w] = "push"
    <3>1. /\ sent' = [sent EXCEPT ![w] = {r \in rows : r.id = Head(todo[w]).event /\ Head(todo[w]).op = "upsert"}]
          /\ UNCHANGED todo
      BY <1>1, <1>t, <2>1 DEF ReadEvent, Goto
    <3>2. Head(todo[w]).op = "delete" => sent'[w] = {}
      BY <1>t, <3>1
    <3> QED
      BY <2>1, <3>1, <3>2 DEF DeleteDone
  <2>2. CASE pc'[w] # "push"
    BY <1>1, <1>t, <2>2 DEF ReadEvent, Goto, DeleteDone, Pushing
  <2> QED
    BY <2>1, <2>2
<1>2. CASE (Push(w) \/ PushUnread(w) \/ Link(w)) /\ Head(todo[w]).op # "delete"
  BY <1>2 DEF Push, PushUnread, Link, DeleteDone
<1>3. CASE (Push(w) \/ PushUnread(w) \/ Link(w)) /\ Head(todo[w]).op = "delete"
  <2>1. pc[w] \in Pushing /\ sent[w] = {}
    BY <1>3, <1>d DEF Push, PushUnread, Link, DeleteDone, Pushing
  <2>2. Push(w)
    BY <1>3, <2>1 DEF PushUnread, Link
  <2>3. UNCHANGED <<todo, sent>> /\ ServerTakes(w)
    BY <1>3, <2>2 DEF Push
  <2>4. PICK url : url = Head(todo[w]).url
    OBVIOUS
  <2>5. PICK content, live : Put(url, content, live) /\ ~live
    BY <1>3, <2>3, <2>4, TakenChange DEF TakenPut
  <2>6. ~LiveAt(url)'
    <3>1. PICK new : new.url = url /\ ~new.live /\ server' = {s \in server : s.url # url} \union {new}
      BY <2>5, PutIs
    <3> QED
      BY <3>1 DEF LiveAt
  <2> QED
    BY <2>1, <2>3, <2>4, <2>6 DEF DeleteDone
<1> QED
  BY <1>1, <1>2, <1>3, NextPlace DEF DeleteDone, Pushing

LEMMA StepUrl ==
  ASSUME OneEngine, TInv, CoverInv, UrlInv, [Next]_vars
  PROVE  UrlInv'
<1>1. UrlsIssued' /\ OnePerUrl' /\ CalDAVRows' /\ UniqueUrl'
  BY ServerUrls, StepRowUrls, StepQueueUrls DEF UrlsIssued
<1>2. LockHeld' /\ \A v \in Workers : SentUrls(v)' /\ FetchedUrls(v)' /\ DeleteDone(v)'
  <2>1. CASE UserAction \/ ConflictAction \/ RemoteCreate \/ RemoteEdit \/ RemoteDelete \/ UNCHANGED vars
    <3>1. UNCHANGED <<lock, pc, mem, todo, sent, changes, cur, found>>
      BY <2>1, HandlersElse, OthersElse DEF vars, workerVars
    <3>2. \A q \in rows' : KeptUrl(q)
      BY <2>1, HandlerRow, OthersElse DEF KeptUrl, vars, storeVars
    <3>3. \/ UNCHANGED server
          \/ \E url, content, live : Put(url, content, live) /\ OthersPut(url, content, live)
      BY <2>1, HandlersElse, OthersChange DEF vars, serverVars
    <3>4. LockHeld'
      BY <3>1 DEF UrlInv, LockHeld
    <3> QED
      BY <3>1, <3>2, <3>3, <3>4, KeptUrls, OthersDeleteDone
  <2>2. ASSUME NEW w \in Workers, StartSync(w) \/ SyncStep(w)
        PROVE  LockHeld' /\ \A v \in Workers : SentUrls(v)' /\ FetchedUrls(v)' /\ DeleteDone(v)'
    <3>1. LockHeld' /\ \A v \in Workers : v # w => pc'[v] = "idle"
      BY <2>2, Alone DEF UrlInv
    <3>2. \A v \in Workers : v # w => SentUrls(v)' /\ FetchedUrls(v)' /\ DeleteDone(v)'
      BY <3>1 DEF SentUrls, FetchedUrls, DeleteDone, Sending, Applying, Pushing
    <3> QED
      BY <2>2, <3>1, <3>2, SyncSentUrls, SyncFetchedUrls, SyncDeleteDone
  <2>3. CASE Crash
    <3>1. \A v \in Workers : pc'[v] = "idle"
      BY <2>3 DEF Crash
    <3> QED
      BY <3>1 DEF LockHeld, SentUrls, FetchedUrls, DeleteDone, Sending, Applying, Pushing
  <2> QED
    BY <2>1, <2>2, <2>3 DEF Next
<1> QED
  BY <1>1, <1>2 DEF UrlInv

-------------------------------------------------------------------------------
(* What one engine gives the calendar.                                     *)

\* The invariants so far, of every behaviour.
EngineInv == TInv /\ CoverInv /\ UrlInv

LEMMA EngineCorrect == OneEngine => (Spec => []EngineInv)
<1> SUFFICES ASSUME OneEngine PROVE Spec => []EngineInv
  OBVIOUS
<1>1. Init => EngineInv
  BY InitTyped, InitCover, InitUrl DEF EngineInv
<1>2. EngineInv /\ [Next]_vars => EngineInv'
  BY StepTyped, StepCover, StepUrl DEF EngineInv
<1> QED
  BY <1>1, <1>2, PTL DEF Spec

(* With one engine no two rows ever claim the same resource: a create is   *)
(* linked to a URL no row has, and a pull makes a row only for a resource  *)
(* that has none (pushOne, applyChange).                                   *)
THEOREM OneRowPerResource == OneEngine /\ Spec => []UniqueUrl
<1> SUFFICES ASSUME OneEngine PROVE Spec => []UniqueUrl
  OBVIOUS
<1>1. EngineInv => UniqueUrl
  BY DEF EngineInv, UrlInv
<1> QED
  BY <1>1, EngineCorrect, PTL

\* A queued delete stays in the outbox while the server has its resource.
LEMMA DeletesStay ==
  ASSUME EngineInv, [Next]_vars, NEW e \in outbox, e.op = "delete", LiveAt(e.url)
  PROVE  e \in outbox'
<1> SUFFICES ASSUME e \notin outbox' PROVE FALSE
  OBVIOUS
<1>1. PICK w \in Workers : StartSync(w) \/ SyncStep(w)
  <2>1. CASE UserAction \/ ConflictAction
    BY <2>1 DEF UserAction, UserNext, UserStep, CreateEvent, ImportEvent, UpdateEvent, DeleteEvent, Reread,
                DeleteRow, Enqueue, EnqueueFails, ConflictAction, ResolveAcceptRemote, RestoreLocal,
                KeepLocal, storeVars
  <2> QED
    BY <2>1, OthersElse DEF Next, Crash, vars, storeVars
<1>2. \/ ReadEvent(w) \/ ClearEntry(w)
  BY <1>1 DEF SyncStep, StartSync, LoadOutbox, Push, PushUnread, PushFails, Link, LinkFails, Fetch,
              FetchFails, TakeChange, RecordConflict, WriteChange, WriteFails, Finish, SaveFails, storeVars
<1>3. RemoveEntry(Head(todo[w])) /\ todo[w] # {}
  BY <1>2 DEF ReadEvent, ClearEntry, EngineInv, CoverInv, QueueRead, Pushing
<1>4. e = Head(todo[w])
  BY <1>3, HeadIsOldest DEF RemoveEntry, EngineInv, CoverInv, QueueRead
<1>5. ClearEntry(w)
  BY <1>2, <1>4 DEF ReadEvent
<1> QED
  BY <1>4, <1>5 DEF ClearEntry, EngineInv, UrlInv, DeleteDone, Pushing

(* With one engine a queued delete leaves the outbox only when the server  *)
(* has no such resource any more, and no create-push or other client has   *)
(* brought it back meanwhile (pushOne, DeleteRemote, DeleteOutboxEntry).   *)
THEOREM DeletesAreDone == OneEngine /\ Spec => DeletesReachServer
<1> SUFFICES ASSUME OneEngine PROVE Spec => DeletesReachServer
  OBVIOUS
<1> DEFINE Done == \A e \in outbox \ outbox' : e.op = "delete" => ~LiveAt(e.url)
<1>1. EngineInv /\ [Next]_vars => [Done]_vars
  BY DeletesStay
<1> QED
  BY <1>1, EngineCorrect, PTL DEF Spec, DeletesReachServer

-------------------------------------------------------------------------------
(* The order of the user's edits.                                          *)

\* The Conflict Queue has a copy of it.
Restored(content) == \E c \in conflicts : c.local = content

\* Of the user's edits, one of the first n.
UpTo(n, content) == content.by = "local" => content.n <= n

ContentsKnown ==
  /\ \A s \in server : UpTo(edits, s.content)
  /\ \A r \in rows : UpTo(edits, r.content)
  /\ \A c \in conflicts : UpTo(edits, c.local)
  /\ \A w \in Workers :
       /\ pc[w] \in Sending => \A ev \in sent[w] : UpTo(edits, ev.content)
       /\ pc[w] \in Applying => \A ch \in changes[w] : UpTo(edits, ch.content)
       /\ pc[w] \in {"conflict", "write"} => UpTo(edits, cur[w].content) /\ \A f \in found[w] : UpTo(edits, f.content)

\* The server has no later edit of the user's at that URL.
Newest(content, url) ==
  content.by = "local" =>
    \/ Restored(content)
    \/ \A s \in server : s.url = url /\ s.content.by = "local" => s.content.n <= content.n

\* An event whose row says content is not older than what has been sent of it.
NotOlder(content, before) ==
  content.by = "local" /\ before.by = "local" => Restored(content) \/ before.n <= content.n

\* The resource an event is pushed to, and pulled from.
UrlOf(x) == IF kind = "caldav" THEN Home(x.id) ELSE x.url

RowsNewest == \A r \in rows : Newest(r.content, UrlOf(r))

SentNewest(w) ==
  /\ pc[w] = "push" => \A ev \in sent[w] :
       /\ Newest(ev.content, UrlOf(ev))
       /\ \A r \in rows : r.id = ev.id => NotOlder(r.content, ev.content)
  /\ pc[w] = "link" => \A ev \in sent[w], r \in rows : r.id = ev.id => Newest(r.content, ev.url)

FetchedNewest(w) ==
  /\ pc[w] \in Applying => \A ch \in changes[w] : Newest(ch.content, ch.url)
  /\ pc[w] \in {"conflict", "write"} => Newest(cur[w].content, cur[w].url)

OrderInv == ContentsKnown /\ RowsNewest /\ \A w \in Workers : SentNewest(w) /\ FetchedNewest(w)

LEMMA InitOrder == Init => OrderInv
<1> SUFFICES ASSUME Init PROVE OrderInv
  OBVIOUS
<1>1. \A w \in Workers : pc[w] = "idle"
  BY DEF Init
<1>2. conflicts = {} /\ edits = 0
  BY DEF Init
<1>3. /\ \A s \in server : s.content = Local(0)
      /\ \A r \in rows : r.content = Local(0)
  BY DEF Init
<1>4. Local(0).n = 0
  BY DEF Local
<1>5. ContentsKnown
  BY <1>1, <1>2, <1>3, <1>4 DEF ContentsKnown, UpTo, Sending, Applying
<1>6. RowsNewest
  BY <1>3, <1>4 DEF RowsNewest, Newest
<1> QED
  BY <1>1, <1>5, <1>6 DEF OrderInv, SentNewest, FetchedNewest, Sending, Applying

\* Copies stay in the Conflict Queue; a new one is of a row a pull has found.
LEMMA CopiesStay ==
  ASSUME TInv, [Next]_vars
  PROVE  /\ \A c \in conflicts : \E d \in conflicts' : d.local = c.local
         /\ \A d \in conflicts' : \/ \E c \in conflicts : d.local = c.local
                                  \/ \E w \in Workers : \E f \in found[w] :
                                       pc[w] = "conflict" /\ d.local = f.content
         /\ edits \in Nat /\ edits' \in Nat /\ edits <= edits'
<1>t. edits \in Nat /\ edits' \in Nat
  BY StepTyped, BoundsAssumption DEF TInv, TypeOK, StoreTypeOK
<1>1. CASE UserAction \/ ConflictAction
  <2>1. edits' = edits \/ edits' = edits + 1
    BY <1>1 DEF UserAction, UserNext, UserStep, CreateEvent, ImportEvent, UpdateEvent, DeleteEvent, Reread,
                DeleteRow, Enqueue, EnqueueFails, WriteNext, ConflictAction, ResolveAcceptRemote,
                RestoreLocal, KeepLocal, storeVars
  <2> QED
    BY <1>t, <1>1, <2>1, HandlersElse
<1>2. CASE RemoteCreate \/ RemoteEdit \/ RemoteDelete \/ Crash \/ UNCHANGED vars
  <2>1. UNCHANGED <<conflicts, edits>>
    BY <1>2, OthersElse DEF Crash, vars, storeVars
  <2> QED
    BY <1>t, <2>1
<1>3. ASSUME NEW w \in Workers, StartSync(w) \/ SyncStep(w)
      PROVE  /\ \A c \in conflicts : \E d \in conflicts' : d.local = c.local
             /\ \A d \in conflicts' : \/ \E c \in conflicts : d.local = c.local
                                      \/ \E f \in found[w] : pc[w] = "conflict" /\ d.local = f.content
             /\ UNCHANGED edits
  <2>1. UNCHANGED edits /\ (UNCHANGED conflicts \/ RecordConflict(w))
    BY <1>3 DEF SyncStep, StartSync, LoadOutbox, ReadEvent, Push, PushUnread, PushFails, Link, LinkFails,
                ClearEntry, Fetch, FetchFails, TakeChange, RecordConflict, WriteChange, WriteFails, Finish,
                SaveFails, storeVars
  <2>2. CASE RecordConflict(w)
    <3>1. \/ UNCHANGED conflicts
          \/ \E f \in found[w] : \E new : conflicts' = conflicts \union {new} /\ new.local = f.content
      <4>1. ASSUME NEW f \in found[w],
                   conflicts' = conflicts \union
                     {[id |-> Cardinality(conflicts) + 1, event |-> f.id, local |-> f.content,
                       remote |-> cur[w].content, resolution |-> "pending"]}
            PROVE  \E new : conflicts' = conflicts \union {new} /\ new.local = f.content
        <5> DEFINE new == [id |-> Cardinality(conflicts) + 1, event |-> f.id, local |-> f.content,
                           remote |-> cur[w].content, resolution |-> "pending"]
        <5>1. conflicts' = conflicts \union {new} /\ new.local = f.content
          BY <4>1
        <5> HIDE DEF new
        <5> QED
          BY <5>1
      <4> QED
        BY <2>2, <4>1 DEF RecordConflict
    <3> QED
      BY <2>1, <2>2, <3>1 DEF RecordConflict
  <2> QED
    BY <2>1, <2>2
<1> QED
  BY <1>t, <1>1, <1>2, <1>3 DEF Next

LEMMA StaysKnown ==
  ASSUME TInv, [Next]_vars, NEW content \in Content
  PROVE  (UpTo(edits, content) => UpTo(edits', content)) /\ (Restored(content) => Restored(content)')
  BY CopiesStay DEF UpTo, Restored, Content

\* What a row says is what it said, what a handler writes or what a pull brings.
LEMMA RowContents ==
  ASSUME TInv, [Next]_vars, NEW q \in rows'
  PROVE  \/ \E r \in rows : q.id = r.id /\ q.content = r.content
         \/ Written(q.content) /\ (UserAction \/ ConflictAction)
         \/ \E w \in Workers : WriteChange(w) /\ pc[w] = "write" /\ q.content = cur[w].content
<1>1. CASE UserAction \/ ConflictAction
  BY <1>1, HandlerRow
<1>2. CASE RemoteCreate \/ RemoteEdit \/ RemoteDelete \/ Crash \/ UNCHANGED vars
  BY <1>2, OthersElse DEF Crash, vars, storeVars
<1>3. ASSUME NEW w \in Workers, StartSync(w) \/ SyncStep(w)
      PROVE  \/ \E r \in rows : q.id = r.id /\ q.content = r.content
             \/ WriteChange(w) /\ pc[w] = "write" /\ q.content = cur[w].content
  <2>1. CASE Link(w)
    BY <2>1, LinkedRow
  <2>2. CASE WriteChange(w)
    BY <2>2, AppliedRow DEF WriteChange
  <2>3. CASE Finish(w)
    BY <2>3, FinishedRow
  <2> QED
    BY <1>3, <2>1, <2>2, <2>3, SyncRow
<1> QED
  BY <1>1, <1>2, <1>3 DEF Next

LEMMA StepContents ==
  ASSUME OneEngine, TInv, CoverInv, UrlInv, OrderInv, [Next]_vars
  PROVE  ContentsKnown'
<1>k. \A content \in Content : UpTo(edits, content) => UpTo(edits', content)
  BY StaysKnown
<1>t. /\ \A s \in server : s.content \in Content
      /\ \A r \in rows : r.content \in Content
      /\ \A c \in conflicts : c.local \in Content
      /\ \A w \in Workers : /\ \A ev \in sent[w] : ev.content \in Content
                            /\ \A ch \in changes[w] : ch.content \in Content
                            /\ cur[w].content \in Content
                            /\ \A f \in found[w] : f.content \in Content
  BY DEF TInv, TypeOK, StoreTypeOK, Resource, Row, Conflict, Change
<1>s. /\ \A s \in server : UpTo(edits', s.content)
      /\ \A r \in rows : UpTo(edits', r.content)
      /\ \A c \in conflicts : UpTo(edits', c.local)
      /\ \A w \in Workers :
           /\ pc[w] \in Sending => \A ev \in sent[w] : UpTo(edits', ev.content)
           /\ pc[w] \in Applying => \A ch \in changes[w] : UpTo(edits', ch.content)
           /\ pc[w] \in {"conflict", "write"} => UpTo(edits', cur[w].content) /\ \A f \in found[w] : UpTo(edits', f.content)
  BY <1>k, <1>t DEF OrderInv, ContentsKnown
<1>1. \A s \in server' : UpTo(edits', s.content)
  <2>1. ASSUME NEW url, NEW content, NEW live, Put(url, content, live), UpTo(edits', content)
        PROVE  \A s \in server' : UpTo(edits', s.content)
    <3>1. PICK new : new.content = content /\ server' = {s \in server : s.url # url} \union {new}
      BY <2>1, PutIs
    <3> QED
      BY <1>s, <2>1, <3>1
  <2>2. ASSUME NEW url, NEW content, NEW live, OthersPut(url, content, live)
        PROVE  UpTo(edits', content)
    BY <1>s, <2>2 DEF OthersPut, UpTo
  <2>3. ASSUME NEW w \in Workers, pc[w] = "push",
               NEW url, NEW content, NEW live, TakenPut(w, url, content, live)
        PROVE  UpTo(edits', content)
    BY <1>s, <2>3 DEF TakenPut, Sending
  <2> QED
    BY <1>s, <2>1, <2>2, <2>3, ServerChange
<1>2. \A q \in rows' : UpTo(edits', q.content)
  <2>1. ASSUME NEW content, Written(content)
        PROVE  UpTo(edits', content)
    <3>1. UpTo(edits', Local(edits + 1)) \/ edits' # edits + 1
      BY CopiesStay DEF UpTo, Local
    <3> QED
      BY <1>s, <2>1, <3>1 DEF Written, UpTo, Local
  <2> QED
    BY <1>s, <2>1, RowContents
<1>3. \A c \in conflicts' : UpTo(edits', c.local)
  BY <1>s, CopiesStay
<1>4. \A v \in Workers :
        /\ pc'[v] \in Sending => \A ev \in sent'[v] : UpTo(edits', ev.content)
        /\ pc'[v] \in Applying => \A ch \in changes'[v] : UpTo(edits', ch.content)
        /\ pc'[v] \in {"conflict", "write"} => UpTo(edits', cur'[v].content) /\ \A f \in found'[v] : UpTo(edits', f.content)
  <2>1. CASE UNCHANGED <<pc, sent, changes, cur, found>>
    BY <1>s, <2>1
  <2>2. CASE Crash
    BY <2>2 DEF Crash, Sending, Applying
  <2>3. ASSUME NEW w \in Workers, StartSync(w) \/ SyncStep(w)
        PROVE  /\ pc'[w] \in Sending => \A ev \in sent'[w] : UpTo(edits', ev.content)
               /\ pc'[w] \in Applying => \A ch \in changes'[w] : UpTo(edits', ch.content)
               /\ pc'[w] \in {"conflict", "write"} =>
                    UpTo(edits', cur'[w].content) /\ \A f \in found'[w] : UpTo(edits', f.content)
    <3>t. /\ pc \in [Workers -> PCs] /\ sent \in [Workers -> SUBSET Row] /\ cur \in [Workers -> Change]
          /\ changes \in [Workers -> SUBSET Change] /\ found \in [Workers -> SUBSET Row]
      BY DEF TInv, TypeOK
    <3>1. CASE ReadEvent(w)
      <4>1. pc'[w] = "push" => sent'[w] \subseteq rows
        BY <3>1, <3>t DEF ReadEvent, Goto
      <4> QED
        BY <1>s, <3>1, <3>t, <4>1 DEF ReadEvent, Goto, Sending, Applying
    <3>2. CASE Push(w)
      <4>1. \A ev \in sent'[w] : \E fv \in sent[w] : ev.content = fv.content
        <5>1. ASSUME NEW fv \in sent[w], sent' = [sent EXCEPT ![w] = {[fv EXCEPT !.url = Target(fv)]}]
              PROVE  \A ev \in sent'[w] : ev.content = fv.content
          <6>1. [fv EXCEPT !.url = Target(fv)].content = fv.content
            BY <3>t DEF Row
          <6> QED
            BY <3>t, <5>1, <6>1
        <5> QED
          BY <3>2, <5>1 DEF Push
      <4>2. pc[w] = "push" /\ pc'[w] \in {"link", "clear"}
        BY <3>2, <3>t DEF Push, Goto
      <4> QED
        BY <1>s, <4>1, <4>2 DEF Sending, Applying
    <3>3. CASE Fetch(w)
      <4>1. pc'[w] = "apply"
        BY <3>3, <3>t DEF Fetch, Goto
      <4>2. \A state, token : \A ch \in CalDAVChanges(state) \union GraphChanges(token) :
              \E s \in server : ch.content = s.content
        BY DEF CalDAVChanges, GraphChanges
      <4>3. \A ch \in changes'[w] : \E s \in server : ch.content = s.content
        <5>1. \E state, token : changes'[w] = CalDAVChanges(state) \/ changes'[w] = GraphChanges(token)
          BY <3>3, <3>t DEF Fetch
        <5> QED
          BY <4>2, <5>1
      <4> QED
        BY <1>s, <4>1, <4>3 DEF Sending
    <3>4. CASE TakeChange(w)
      <4>1. pc[w] = "apply"
        BY <3>4 DEF TakeChange
      <4>2. PICK ch \in changes[w] : /\ changes' = [changes EXCEPT ![w] = @ \ {ch}]
                                     /\ \/ UNCHANGED <<pc, cur, found>>
                                        \/ /\ cur' = [cur EXCEPT ![w] = ch]
                                           /\ found' = [found EXCEPT ![w] = ByUrl(ch.url)]
                                           /\ Goto(w, "conflict") \/ Goto(w, "write")
        BY <3>4 DEF TakeChange
      <4>3. changes'[w] \subseteq changes[w] /\ (pc'[w] = "apply" \/ (cur'[w] = ch /\ found'[w] \subseteq rows))
        BY <3>t, <4>1, <4>2 DEF ByUrl
      <4>4. pc'[w] \notin Sending
        BY <3>t, <4>1, <4>2 DEF Goto, Sending
      <4> QED
        BY <1>s, <4>1, <4>3, <4>4 DEF Applying
    <3>5. CASE RecordConflict(w)
      <4>1. pc[w] = "conflict" /\ UNCHANGED <<changes, cur, found>> /\ pc'[w] = "write"
        BY <3>5, <3>t DEF RecordConflict, Goto
      <4> QED
        BY <1>s, <4>1 DEF Sending, Applying
    <3>6. CASE WriteChange(w) \/ WriteFails(w)
      <4>1. pc[w] = "write" /\ UNCHANGED changes /\ pc'[w] = "apply"
        BY <3>6, <3>t DEF WriteChange, WriteFails, Applied, Goto
      <4> QED
        BY <1>s, <4>1 DEF Sending, Applying
    <3> QED
      BY <2>3, <3>1, <3>2, <3>3, <3>4, <3>5, <3>6, NextPlace DEF Sending, Applying
  <2>4. ASSUME NEW w \in Workers, StartSync(w) \/ SyncStep(w), NEW v \in Workers, v # w
        PROVE  pc'[v] \notin Sending \union Applying \union {"conflict", "write"}
    BY <2>4, Alone DEF UrlInv, Sending, Applying
  <2> QED
    BY <2>1, <2>2, <2>3, <2>4, HandlersElse, OthersElse DEF Next, vars, workerVars
<1> QED
  BY <1>1, <1>2, <1>3, <1>4 DEF ContentsKnown

\* The step puts no other content of the user's at that URL.
Calm(url) ==
  \A t \in server' : t.url = url /\ t.content.by = "local" => \E s \in server : s.url = url /\ s.content = t.content

LEMMA NewestStays ==
  ASSUME TInv, [Next]_vars, NEW content \in Content, NEW url, Calm(url), Newest(content, url)
  PROVE  Newest(content, url)'
<1>1. Restored(content) => Restored(content)'
  BY StaysKnown
<1> QED
  BY <1>1 DEF Newest, Calm

\* Only the push of a create or an update does.
LEMMA ServerCalm ==
  ASSUME TInv, CoverInv, UrlInv, [Next]_vars
  PROVE  \/ \A url : Calm(url)
         \/ \E w \in Workers : \E ev \in sent[w] : \E live :
              /\ pc[w] = "push" /\ (Push(w) \/ PushUnread(w) \/ PushFails(w))
              /\ Put(Target(ev), ev.content, live)
<1>1. CASE UNCHANGED server
  BY <1>1 DEF Calm
<1>2. ASSUME NEW url, NEW content, NEW live, Put(url, content, live),
             content.by = "remote" \/ \E s \in server : s.url = url /\ s.content = content
      PROVE  \A u : Calm(u)
  <2>1. PICK new : new.url = url /\ new.content = content /\ server' = {s \in server : s.url # url} \union {new}
    BY <1>2, PutIs
  <2> QED
    BY <1>2, <2>1 DEF Calm
<1>3. ASSUME NEW url, NEW content, NEW live, OthersPut(url, content, live)
      PROVE  content.by = "remote" \/ \E s \in server : s.url = url /\ s.content = content
  BY <1>3 DEF OthersPut
<1>4. ASSUME NEW w \in Workers, NEW url, NEW content, NEW live, TakenPut(w, url, content, live)
      PROVE  \/ \E s \in server : s.url = url /\ s.content = content
             \/ \E ev \in sent[w] : url = Target(ev) /\ content = ev.content
  BY <1>4 DEF TakenPut
<1>5. CASE RemoteCreate \/ RemoteEdit \/ RemoteDelete
  BY <1>2, <1>3, <1>5, OthersChange
<1>6. ASSUME NEW w \in Workers, StartSync(w) \/ SyncStep(w)
      PROVE  \/ UNCHANGED server
             \/ pc[w] = "push" /\ (Push(w) \/ PushUnread(w) \/ PushFails(w)) /\ ServerTakes(w)
  BY <1>6 DEF SyncStep, StartSync, LoadOutbox, ReadEvent, Push, PushUnread, PushFails, Link, LinkFails,
              ClearEntry, Fetch, FetchFails, TakeChange, RecordConflict, WriteChange, WriteFails, Finish,
              SaveFails, serverVars
<1>7. ASSUME NEW w \in Workers, pc[w] = "push", Push(w) \/ PushUnread(w) \/ PushFails(w), ServerTakes(w)
      PROVE  \/ \A url : Calm(url)
             \/ \E ev \in sent[w] : \E live : Put(Target(ev), ev.content, live)
  BY <1>2, <1>4, <1>7, TakenChange
<1>8. CASE UserAction \/ ConflictAction \/ Crash \/ UNCHANGED vars
  BY <1>1, <1>8, HandlersElse DEF Crash, vars, serverVars
<1> QED
  BY <1>1, <1>5, <1>6, <1>7, <1>8 DEF Next

\* Which row a push is of.
LEMMA AtTarget ==
  ASSUME TInv, CoverInv, UrlInv, NEW w \in Workers, pc[w] = "push", NEW ev \in sent[w],
         NEW r \in rows, UrlOf(r) = Target(ev)
  PROVE  r.id = ev.id
<1>t. seq \in Nat /\ r.url \in Url /\ Issued(r.url)
  BY DEF TInv, TypeOK, StoreTypeOK, Row, UrlInv, UrlsIssued
<1>1. CASE kind = "caldav"
  <2>1. Target(ev) = Home(ev.id)
    BY <1>1, TargetIssued DEF UrlInv, SentUrls, Sending
  <2>2. Home(r.id) = Home(ev.id)
    BY <1>1, <2>1 DEF UrlOf
  <2>3. Home(r.id).event = r.id /\ Home(ev.id).event = ev.id
    BY DEF Home
  <2> QED
    BY <2>2, <2>3
<1>2. CASE kind # "caldav"
  <2>1. r.url = Target(ev) /\ Target(ev) # NoUrl
    BY <1>2, TargetIssued DEF UrlOf
  <2>2. ev.url # NoUrl
    BY <1>t, <1>2, <2>1, TargetIssued DEF Issued, Url
  <2>3. r.url = ev.url /\ r.url # NoUrl
    BY <2>1, <2>2, TargetIssued
  <2> QED
    BY <2>3 DEF UrlInv, SentUrls, Sending
<1> QED
  BY <1>1, <1>2

\* Behind a push of an event nothing of it is older.
LEMMA PushedNewest ==
  ASSUME TInv, [Next]_vars, UNCHANGED conflicts, NEW url, NEW before \in Content, NEW live,
         Put(url, before, live), NEW content \in Content, NotOlder(content, before)
  PROVE  Newest(content, url)'
<1>1. PICK new : new.url = url /\ new.content = before /\ server' = {s \in server : s.url # url} \union {new}
  BY PutIs
<1> QED
  BY <1>1 DEF NotOlder, Newest, Restored

LEMMA PushElse ==
  ASSUME NEW w \in Workers, Push(w) \/ PushUnread(w) \/ PushFails(w)
  PROVE  UNCHANGED <<rows, conflicts, changes, cur, found, lastId, edits>>
  BY DEF Push, PushUnread, PushFails, storeVars

LEMMA StepRowsNewest ==
  ASSUME OneEngine, TInv, CoverInv, UrlInv, OrderInv, [Next]_vars
  PROVE  RowsNewest'
<1>t. /\ rows \subseteq Row /\ edits \in Nat /\ kind' = kind
      /\ \A r \in rows : r.content \in Content /\ Newest(r.content, UrlOf(r))
      /\ \A w \in Workers : cur[w].content \in Content /\ \A ev \in sent[w] : ev.content \in Content
  BY DEF OrderInv, RowsNewest, TInv, TypeOK, StoreTypeOK, Row, Change, Next, vars
<1>1. ASSUME NEW w \in Workers, NEW ev \in sent[w], NEW live, pc[w] = "push",
             Push(w) \/ PushUnread(w) \/ PushFails(w), Put(Target(ev), ev.content, live)
      PROVE  RowsNewest'
  <2>1. UNCHANGED <<rows, conflicts>>
    BY <1>1, PushElse
  <2>2. PICK url : url = Target(ev)
    OBVIOUS
  <2>3. PICK new : new.url = url /\ server' = {s \in server : s.url # url} \union {new}
    BY <1>1, <2>2, PutIs
  <2>4. ASSUME NEW r \in rows, NEW u, u = UrlOf(r)
        PROVE  Newest(r.content, u)'
    <3>1. CASE u # url
      <4>1. Calm(u)
        BY <2>3, <3>1 DEF Calm
      <4> QED
        BY <1>t, <2>1, <2>4, <4>1, NewestStays
    <3>2. CASE u = url
      <4>1. r.id = ev.id
        BY <1>1, <2>2, <2>4, <3>2, AtTarget
      <4>2. NotOlder(r.content, ev.content)
        BY <1>1, <4>1 DEF OrderInv, SentNewest
      <4> QED
        BY <1>1, <1>t, <2>1, <2>2, <3>2, <4>2, PushedNewest
    <3> QED
      BY <3>1, <3>2
  <2> QED
    BY <1>t, <2>1, <2>4 DEF RowsNewest, UrlOf
<1>2. ASSUME \A url : Calm(url)
      PROVE  RowsNewest'
  <2>0. \A content \in Content : \A url : Newest(content, url) => Newest(content, url)'
    BY <1>2, NewestStays
  <2>1. ASSUME NEW content, Written(content), NEW url
        PROVE  Newest(content, url)'
    <3>1. CASE \E c \in conflicts : content = c.local
      BY <3>1, CopiesStay DEF Newest, Restored
    <3>2. CASE content = Local(edits + 1)
      <4>1. content.n = edits + 1 /\ \A s \in server : UpTo(edits, s.content)
        BY <3>2 DEF Local, OrderInv, ContentsKnown
      <4>2. \A s \in server : s.content.n \in Nat
        BY DEF TInv, TypeOK, Resource, Content
      <4>3. \A s \in server' : s.url = url /\ s.content.by = "local" => s.content.n <= content.n
        BY <1>2, <1>t, <4>1, <4>2 DEF Calm, UpTo
      <4> QED
        BY <4>3 DEF Newest
    <3> QED
      BY <2>1, <3>1, <3>2 DEF Written
  <2>2. CASE \A q \in rows' : \/ \E r \in rows : q.id = r.id /\ q.url = r.url /\ q.content = r.content
                              \/ Written(q.content)
    <3>1. ASSUME NEW q \in rows', NEW u, u = UrlOf(q)
          PROVE  Newest(q.content, u)'
      <4>1. CASE Written(q.content)
        BY <2>1, <4>1
      <4>2. CASE \E r \in rows : q.id = r.id /\ q.url = r.url /\ q.content = r.content
        <5>1. PICK r \in rows : q.id = r.id /\ q.url = r.url /\ q.content = r.content
          BY <4>2
        <5>2. UrlOf(r) = u
          BY <3>1, <5>1 DEF UrlOf
        <5> QED
          BY <1>t, <2>0, <5>1, <5>2
      <4> QED
        BY <2>2, <4>1, <4>2
    <3> QED
      BY <1>t, <3>1 DEF RowsNewest, UrlOf
  <2>3. ASSUME NEW w \in Workers, Link(w)
        PROVE  RowsNewest'
    <3>1. pc[w] = "link"
      BY <2>3 DEF Link
    <3>2. ASSUME NEW q \in rows', NEW u, u = UrlOf(q)
          PROVE  Newest(q.content, u)'
      <4>1. PICK ev \in sent[w], r \in rows : /\ q.id = r.id /\ q.content = r.content
                                              /\ q.url = IF r.id = ev.id THEN ev.url ELSE r.url
        BY <2>3, LinkedRow
      <4>2. CASE UrlOf(r) = u
        BY <1>t, <2>0, <4>1, <4>2
      <4>3. CASE UrlOf(r) # u
        <5>1. r.id = ev.id /\ u = ev.url
          BY <3>2, <4>1, <4>3 DEF UrlOf
        <5>2. Newest(r.content, u)
          BY <3>1, <5>1 DEF OrderInv, SentNewest
        <5> QED
          BY <1>t, <2>0, <4>1, <5>2
      <4> QED
        BY <4>2, <4>3
    <3> QED
      BY <1>t, <3>2 DEF RowsNewest, UrlOf
  <2>4. ASSUME NEW w \in Workers, WriteChange(w)
        PROVE  RowsNewest'
    <3>1. pc[w] = "write"
      BY <2>4 DEF WriteChange
    <3>2. /\ kind # "caldav" /\ Newest(cur[w].content, cur[w].url)
          /\ \A f \in found[w], r \in rows : r.id = f.id => r.url = cur[w].url
      BY <3>1 DEF OrderInv, FetchedNewest, UrlInv, FetchedUrls, Applying
    <3>3. ASSUME NEW q \in rows', NEW u, u = q.url
          PROVE  Newest(q.content, u)'
      <4>1. q \in rows \/ (q.content = cur[w].content /\ q.url = cur[w].url)
        BY <2>4, <3>2, AppliedRow
      <4>2. CASE q \in rows
        <5>1. UrlOf(q) = u
          BY <3>2, <3>3 DEF UrlOf
        <5> QED
          BY <1>t, <2>0, <4>2, <5>1
      <4>3. CASE q.content = cur[w].content /\ q.url = cur[w].url
        BY <1>t, <2>0, <3>2, <3>3, <4>3
      <4> QED
        BY <4>1, <4>2, <4>3
    <3> QED
      BY <1>t, <3>2, <3>3 DEF RowsNewest, UrlOf
  <2>5. CASE UserAction \/ ConflictAction
    BY <2>2, <2>5, HandlerRow
  <2>6. CASE RemoteCreate \/ RemoteEdit \/ RemoteDelete \/ Crash \/ UNCHANGED vars
    BY <2>2, <2>6, OthersElse DEF Crash, vars, storeVars
  <2>7. ASSUME NEW w \in Workers, Finish(w)
        PROVE  RowsNewest'
    BY <2>2, <2>7, FinishedRow
  <2> QED
    BY <2>2, <2>3, <2>4, <2>5, <2>6, <2>7, SyncRow DEF Next
<1> QED
  BY <1>1, <1>2, ServerCalm

LEMMA IdleNewest ==
  ASSUME TInv, CoverInv, UrlInv, OrderInv, [Next]_vars, \A url : Calm(url),
         NEW v \in Workers, UNCHANGED <<pc, sent, changes, cur>>,
         \A q \in rows' : (\E r \in rows : q.id = r.id /\ q.content = r.content)
                          \/ q.id = lastId + 1 \/ Written(q.content)
  PROVE  SentNewest(v)' /\ FetchedNewest(v)'
<1>t. /\ edits \in Nat /\ kind' = kind /\ lastId \in Nat
      /\ \A r \in rows : r.content \in Content
      /\ \A ev \in sent[v] : ev.content \in Content
      /\ \A ch \in changes[v] : ch.content \in Content
      /\ cur[v].content \in Content
      /\ \A s \in server : s.content \in Content
  BY DEF TInv, TypeOK, StoreTypeOK, Row, Change, Resource, Next, vars
<1>s. \A content \in Content : \A url : Newest(content, url) => Newest(content, url)'
  BY NewestStays
<1>w. ASSUME NEW content, Written(content)
      PROVE  \/ \E d \in conflicts' : d.local = content
             \/ content.n = edits + 1
  BY <1>w, CopiesStay DEF Written, Local
<1>1. ASSUME pc[v] = "push", NEW ev \in sent[v], NEW u, u = UrlOf(ev)
      PROVE  /\ Newest(ev.content, u)'
             /\ \A q \in rows' : q.id = ev.id => NotOlder(q.content, ev.content)'
  <2>1. /\ Newest(ev.content, u) /\ UpTo(edits, ev.content) /\ ev.id \in 1..lastId
        /\ \A r \in rows : r.id = ev.id => NotOlder(r.content, ev.content)
    BY <1>1 DEF OrderInv, SentNewest, ContentsKnown, UrlInv, SentUrls, Sending
  <2>2. ASSUME NEW q \in rows', q.id = ev.id
        PROVE  NotOlder(q.content, ev.content)'
    <3>1. CASE Written(q.content)
      BY <1>t, <1>w, <2>1, <3>1 DEF NotOlder, Restored, UpTo, Content
    <3>2. CASE \E r \in rows : q.id = r.id /\ q.content = r.content
      BY <2>1, <2>2, <3>2, CopiesStay DEF NotOlder, Restored
    <3> QED
      BY <1>t, <2>1, <2>2, <3>1, <3>2
  <2> QED
    BY <1>t, <1>s, <2>1, <2>2
<1>2. ASSUME pc[v] = "link", NEW ev \in sent[v], NEW q \in rows', q.id = ev.id
      PROVE  Newest(q.content, ev.url)'
  <2>1. ev.id \in 1..lastId /\ \A r \in rows : r.id = ev.id => Newest(r.content, ev.url)
    BY <1>2 DEF OrderInv, SentNewest, UrlInv, SentUrls, Sending
  <2>2. CASE Written(q.content)
    <3>1. \A s \in server' : s.content.by = "local" => s.content.n <= edits /\ s.content.n \in Nat
      BY <1>t DEF Calm, OrderInv, ContentsKnown, UpTo, Content
    <3> QED
      BY <1>t, <1>w, <2>2, <3>1 DEF Newest, Restored
  <2>3. CASE \E r \in rows : q.id = r.id /\ q.content = r.content
    BY <1>t, <1>s, <1>2, <2>1, <2>3
  <2> QED
    BY <1>t, <1>2, <2>1, <2>2, <2>3
<1>3. SentNewest(v)'
  BY <1>t, <1>1, <1>2 DEF SentNewest, UrlOf
<1>4. FetchedNewest(v)'
  <2>1. pc[v] \in Applying => \A ch \in changes[v] : Newest(ch.content, ch.url)'
    BY <1>t, <1>s DEF OrderInv, FetchedNewest
  <2>2. ASSUME NEW content, content = cur[v].content, NEW url, url = cur[v].url, pc[v] \in {"conflict", "write"}
        PROVE  Newest(content, url)'
    BY <1>t, <1>s, <2>2 DEF OrderInv, FetchedNewest
  <2> QED
    BY <2>1, <2>2 DEF FetchedNewest
<1> QED
  BY <1>3, <1>4

LEMMA SyncSentNewest ==
  ASSUME TInv, CoverInv, UrlInv, OrderInv, [Next]_vars, NEW w \in Workers, StartSync(w) \/ SyncStep(w)
  PROVE  SentNewest(w)'
<1>t. /\ kind' = kind /\ pc \in [Workers -> PCs] /\ sent \in [Workers -> SUBSET Row]
      /\ \A r \in rows : r.content \in Content /\ r.content.n \in Nat
      /\ \A ev \in sent[w] : ev.content \in Content
  BY DEF TInv, TypeOK, StoreTypeOK, Row, Content, Next, vars
<1>1. CASE pc'[w] = "push"
  <2>1. ReadEvent(w)
    BY <1>1, NextPlace
  <2>2. /\ sent' = [sent EXCEPT ![w] = {r \in rows : r.id = Head(todo[w]).event /\ Head(todo[w]).op = "upsert"}]
        /\ UNCHANGED <<rows, server, conflicts>>
    BY <1>t, <1>1, <2>1 DEF ReadEvent, Goto, serverVars
  <2>3. sent'[w] \subseteq rows
    BY <1>t, <2>2
  <2>4. \A ev \in sent'[w] : \A r \in rows : r.id = ev.id => NotOlder(r.content, ev.content)'
    BY <1>t, <2>3 DEF NotOlder, CoverInv, RowIds
  <2>5. ASSUME NEW ev \in sent'[w], NEW u, u = UrlOf(ev)
        PROVE  Newest(ev.content, u)'
    <3>1. Newest(ev.content, u)
      BY <2>3, <2>5 DEF OrderInv, RowsNewest
    <3> QED
      BY <2>2, <3>1 DEF Newest, Restored
  <2> QED
    BY <1>t, <1>1, <2>2, <2>4, <2>5 DEF SentNewest, UrlOf
<1>2. CASE pc'[w] = "link"
  <2>1. Push(w)
    BY <1>2, NextPlace
  <2>2. PICK ev \in sent[w] : ev.url = NoUrl /\ sent' = [sent EXCEPT ![w] = {[ev EXCEPT !.url = Target(ev)]}]
    BY <1>t, <1>2, <2>1 DEF Push, Goto
  <2>3. pc[w] = "push" /\ ServerTakes(w) /\ UNCHANGED <<rows, conflicts>>
    BY <2>1 DEF Push, storeVars
  <2>4. PICK url : url = Target(ev)
    OBVIOUS
  <2> DEFINE new == [ev EXCEPT !.url = url]
  <2>5. new.id = ev.id /\ new.url = url
    BY <1>t DEF Row
  <2>6. sent'[w] = {new}
    BY <1>t, <2>2, <2>4
  <2> HIDE DEF new
  <2>7. PICK live : Put(url, ev.content, live)
    <3>1. Head(todo[w]).op # "delete"
      BY <2>3 DEF UrlInv, DeleteDone, Pushing
    <3>2. PICK fv \in sent[w] : \E live : Put(Target(fv), fv.content, live)
      BY <2>3, <3>1, TakenChange DEF TakenPut
    <3>3. fv = ev
      BY DEF CoverInv, OneEvent
    <3> QED
      BY <2>4, <3>2, <3>3
  <2>8. \A r \in rows : r.id = ev.id => NotOlder(r.content, ev.content)
    BY <2>3 DEF OrderInv, SentNewest
  <2>9. \A r \in rows : r.id = ev.id => Newest(r.content, url)'
    BY <1>t, <2>3, <2>7, <2>8, PushedNewest
  <2> QED
    BY <1>2, <2>3, <2>5, <2>6, <2>9 DEF SentNewest
<1> QED
  BY <1>1, <1>2 DEF SentNewest

LEMMA SyncFetchedNewest ==
  ASSUME TInv, CoverInv, UrlInv, OrderInv, [Next]_vars, NEW w \in Workers, StartSync(w) \/ SyncStep(w)
  PROVE  FetchedNewest(w)'
<1>t. /\ pc \in [Workers -> PCs] /\ cur \in [Workers -> Change] /\ changes \in [Workers -> SUBSET Change]
      /\ \A s \in server : s.content \in Content
  BY DEF TInv, TypeOK, Resource
<1>f. FetchedNewest(w)
  BY DEF OrderInv
<1>1. ASSUME UNCHANGED server, \A c \in conflicts : \E d \in conflicts' : d.local = c.local
      PROVE  \A content, url : Newest(content, url) => Newest(content, url)'
  BY <1>1 DEF Newest, Restored
<1>2. CASE Fetch(w)
  <2>1. pc'[w] = "apply" /\ UNCHANGED server
    BY <1>2, <1>t DEF Fetch, Goto, serverVars
  <2>2. \A state, token : \A ch \in CalDAVChanges(state) \union GraphChanges(token) :
          \E s \in server : ch.url = s.url /\ ch.content = s.content
    BY DEF CalDAVChanges, GraphChanges
  <2>3. \A ch \in changes'[w] : \E s \in server : ch.url = s.url /\ ch.content = s.content
    <3>1. \E state, token : changes'[w] = CalDAVChanges(state) \/ changes'[w] = GraphChanges(token)
      BY <1>t, <1>2 DEF Fetch
    <3> QED
      BY <2>2, <3>1
  <2>4. \A s \in server : Newest(s.content, s.url)'
    <3>1. \A s, t \in server : s.url = t.url => s = t
      BY DEF UrlInv, OnePerUrl
    <3>2. \A s \in server : s.content.n <= s.content.n
      BY <1>t DEF Content
    <3> QED
      BY <2>1, <3>1, <3>2 DEF Newest
  <2>5. \A ch \in changes'[w] : Newest(ch.content, ch.url)'
    BY <2>3, <2>4
  <2> QED
    BY <2>1, <2>5 DEF FetchedNewest
<1>3. CASE TakeChange(w)
  <2>1. pc[w] = "apply" /\ UNCHANGED <<server, conflicts>>
    BY <1>3 DEF TakeChange, serverVars
  <2>2. PICK ch \in changes[w] : /\ changes' = [changes EXCEPT ![w] = @ \ {ch}]
                                 /\ UNCHANGED <<pc, cur>> \/ cur' = [cur EXCEPT ![w] = ch]
    BY <1>3 DEF TakeChange
  <2>3. changes'[w] \subseteq changes[w] /\ (pc'[w] = "apply" \/ cur'[w] = ch)
    BY <1>t, <2>1, <2>2
  <2>4. \A c \in changes[w] : Newest(c.content, c.url)'
    BY <1>1, <1>f, <2>1 DEF FetchedNewest, Applying
  <2> QED
    BY <2>3, <2>4 DEF FetchedNewest
<1>4. CASE RecordConflict(w)
  <2>1. pc[w] = "conflict" /\ UNCHANGED <<server, changes, cur>>
    BY <1>4 DEF RecordConflict, serverVars
  <2>2. \A c \in changes[w] : Newest(c.content, c.url)'
    BY <1>1, <1>f, <2>1, CopiesStay DEF FetchedNewest, Applying
  <2>3. ASSUME NEW content, content = cur[w].content, NEW url, url = cur[w].url
        PROVE  Newest(content, url)'
    BY <1>1, <1>f, <2>1, <2>3, CopiesStay DEF FetchedNewest
  <2> QED
    BY <2>1, <2>2, <2>3 DEF FetchedNewest
<1>5. CASE WriteChange(w) \/ WriteFails(w)
  <2>1. pc[w] = "write" /\ UNCHANGED <<server, changes, conflicts>> /\ pc'[w] = "apply"
    BY <1>t, <1>5 DEF WriteChange, WriteFails, Applied, Goto, serverVars
  <2>2. \A c \in changes[w] : Newest(c.content, c.url)'
    BY <1>1, <1>f, <2>1 DEF FetchedNewest, Applying
  <2> QED
    BY <2>1, <2>2 DEF FetchedNewest
<1> QED
  BY <1>2, <1>3, <1>4, <1>5, NextPlace DEF FetchedNewest, Applying

LEMMA StepOrder ==
  ASSUME OneEngine, TInv, CoverInv, UrlInv, OrderInv, [Next]_vars
  PROVE  OrderInv'
<1>1. \A v \in Workers : SentNewest(v)' /\ FetchedNewest(v)'
  <2>1. CASE UserAction \/ ConflictAction \/ RemoteCreate \/ RemoteEdit \/ RemoteDelete \/ UNCHANGED vars
    <3>1. UNCHANGED <<pc, sent, changes, cur>>
      BY <2>1, HandlersElse, OthersElse DEF vars, workerVars
    <3>2. \A q \in rows' : (\E r \in rows : q.id = r.id /\ q.content = r.content)
                           \/ q.id = lastId + 1 \/ Written(q.content)
      BY <2>1, HandlerRow, OthersElse DEF vars, storeVars
    <3>3. \A url : Calm(url)
      <4>1. CASE UNCHANGED server
        BY <4>1 DEF Calm
      <4>2. ASSUME NEW url, NEW content, NEW live, Put(url, content, live), OthersPut(url, content, live)
            PROVE  \A u : Calm(u)
        <5>1. PICK new : new.url = url /\ new.content = content
                         /\ server' = {s \in server : s.url # url} \union {new}
          BY <4>2, PutIs
        <5> QED
          BY <4>2, <5>1 DEF Calm, OthersPut
      <4> QED
        BY <2>1, <4>1, <4>2, HandlersElse, OthersChange DEF vars, serverVars
    <3> QED
      BY <3>1, <3>2, <3>3, IdleNewest
  <2>2. ASSUME NEW w \in Workers, StartSync(w) \/ SyncStep(w)
        PROVE  \A v \in Workers : SentNewest(v)' /\ FetchedNewest(v)'
    <3>1. \A v \in Workers : v # w => SentNewest(v)' /\ FetchedNewest(v)'
      BY <2>2, Alone DEF UrlInv, SentNewest, FetchedNewest, Applying
    <3> QED
      BY <2>2, <3>1, SyncSentNewest, SyncFetchedNewest
  <2>3. CASE Crash
    BY <2>3 DEF Crash, SentNewest, FetchedNewest, Applying
  <2> QED
    BY <2>1, <2>2, <2>3 DEF Next
<1> QED
  BY <1>1, StepContents, StepRowsNewest DEF OrderInv

(* With one engine the user's edits of an event reach the server in the    *)
(* order they were made: neither a retried push nor a pull in between puts *)
(* an older one over a newer, but for a copy the Conflict Queue restores   *)
(* (pushOne reads the event when it pushes it, ResolveKeepLocal).          *)
THEOREM EditsArriveInOrder == OneEngine /\ Spec => PushesInOrder
<1> SUFFICES ASSUME OneEngine PROVE Spec => PushesInOrder
  OBVIOUS
<1> DEFINE Ordering ==
             \A s \in server, t \in server' :
               s.url = t.url /\ s.content.by = "local" /\ t.content.by = "local"
                 => s.content.n <= t.content.n \/ \E c \in conflicts : c.local = t.content
           Inv == EngineInv /\ OrderInv
<1>1. Init => Inv
  BY InitTyped, InitCover, InitUrl, InitOrder DEF EngineInv
<1>2. Inv /\ [Next]_vars => Inv'
  BY StepTyped, StepCover, StepUrl, StepOrder DEF EngineInv
<1>3. Inv /\ [Next]_vars => [Ordering]_vars
  <2> SUFFICES ASSUME EngineInv, OrderInv, [Next]_vars, NEW s \in server, NEW t \in server',
                      s.url = t.url, s.content.by = "local", t.content.by = "local"
               PROVE  s.content.n <= t.content.n \/ \E c \in conflicts : c.local = t.content
    BY DEF Inv
  <2>t. seq \in Nat /\ s.content.n \in Nat /\ s.url \in Url
    BY DEF EngineInv, TInv, TypeOK, Resource, Content
  <2>1. CASE Calm(t.url)
    <3>1. PICK r \in server : r.url = t.url /\ r.content = t.content
      BY <2>1 DEF Calm
    <3>2. r = s
      BY <3>1 DEF EngineInv, UrlInv, OnePerUrl
    <3> QED
      BY <2>t, <3>1, <3>2
  <2>2. ASSUME NEW w \in Workers, NEW ev \in sent[w], NEW live, pc[w] = "push",
               Put(Target(ev), ev.content, live)
        PROVE  s.content.n <= t.content.n \/ \E c \in conflicts : c.local = t.content
    <3>1. PICK new : new.url = Target(ev) /\ new.content = ev.content
                     /\ server' = {r \in server : r.url # Target(ev)} \union {new}
      BY <2>2, PutIs
    <3>2. CASE t = new
      <4>1. UrlOf(ev) = s.url
        <5>1. s.url = Target(ev) /\ Issued(s.url)
          BY <3>1, <3>2 DEF EngineInv, UrlInv, UrlsIssued
        <5>2. CASE kind = "caldav"
          <6>1. Target(ev) = Home(ev.id)
            BY <2>2, <5>2, TargetIssued DEF EngineInv, UrlInv, SentUrls, Sending
          <6> QED
            BY <5>1, <5>2, <6>1 DEF UrlOf
        <5>3. CASE kind # "caldav"
          <6>1. ev.url # NoUrl
            BY <2>t, <2>2, <5>1, <5>3, TargetIssued DEF EngineInv, Issued, Url
          <6> QED
            BY <2>2, <5>1, <5>3, <6>1, TargetIssued DEF EngineInv, UrlOf
        <5> QED
          BY <5>2, <5>3
      <4>2. Newest(ev.content, s.url)
        BY <2>2, <4>1 DEF OrderInv, SentNewest
      <4> QED
        BY <3>1, <3>2, <4>2 DEF Newest, Restored
    <3>3. CASE t # new
      BY <2>t, <3>1, <3>3 DEF EngineInv, UrlInv, OnePerUrl
    <3> QED
      BY <3>2, <3>3
  <2> QED
    BY <2>1, <2>2, ServerCalm DEF EngineInv
<1> QED
  BY <1>1, <1>2, <1>3, PTL DEF Spec, PushesInOrder

-------------------------------------------------------------------------------
(* Created resources.                                                      *)

\* Nothing comes between Graph's creating an event and its link: CalDAV needs no
\* such luck, it derives the URL from the event.
CreatesAreLinked ==
  Kinds = {"caldav"} \/ {"crash", "reply", "body", "sql"} \cap Faults = {}

\* The event a resource was made for, if it exists, is linked to it.
Owned(url) == url.made = "local" => \A r \in rows : r.id = url.event => r.url = url

\* About to be linked.
InHand(url) == \E w \in Workers : pc[w] = "link" /\ \E ev \in sent[w] : ev.url = url

OwnUrls ==
  /\ \A s \in server : Owned(s.url) \/ InHand(s.url)
  /\ \A r \in rows : Owned(r.url)
  /\ \A w \in Workers :
       /\ pc[w] \in Applying => \A ch \in changes[w] : Owned(ch.url)
       /\ pc[w] \in {"conflict", "write"} => Owned(cur[w].url)

LEMMA InitOwn == Init => OwnUrls
<1> SUFFICES ASSUME Init PROVE OwnUrls
  OBVIOUS
<1>1. \A w \in Workers : pc[w] = "idle"
  BY DEF Init
<1>2. \A x \in server \union rows : \A r \in rows : r.url = x.url
  BY DEF Init
<1> QED
  BY <1>1, <1>2 DEF OwnUrls, Owned, Applying

LEMMA NoSuchFault ==
  ASSUME CreatesAreLinked, kind \in Kinds, kind # "caldav"
  PROVE  ~Fault("crash") /\ ~Fault("reply") /\ ~Fault("body") /\ ~Fault("sql")
  BY DEF CreatesAreLinked, Fault

LEMMA OwnedStays ==
  ASSUME TInv, CoverInv, UrlInv, [Next]_vars, NEW url \in Url, Issued(url), Owned(url)
  PROVE  Owned(url)'
<1>t. lastId \in Nat /\ NoUrl.made = "none"
  BY DEF NoUrl, TInv, TypeOK, StoreTypeOK
<1> SUFFICES ASSUME url.made = "local", NEW q \in rows', q.id = url.event
             PROVE  q.url = url
  BY DEF Owned
<1>1. q.id \in 1..lastId
  BY DEF Issued
<1>2. CASE \E r \in rows : q.id = r.id /\ q.url = r.url
  BY <1>2 DEF Owned
<1>3. ASSUME NEW w \in Workers, Link(w)
      PROVE  q.url = url
  <2>1. PICK ev \in sent[w], r \in rows : q.id = r.id /\ q.url = IF r.id = ev.id THEN ev.url ELSE r.url
    BY <1>3, LinkedRow
  <2>2. r.id = ev.id => r.url = NoUrl
    BY <1>3 DEF Link, UrlInv, SentUrls, Sending
  <2> QED
    BY <1>t, <2>1, <2>2 DEF Owned
<1>4. ASSUME NEW w \in Workers, WriteChange(w)
      PROVE  q.url = url
  BY <1>t, <1>1, <1>2, <1>4, AppliedUrl
<1> QED
  BY <1>t, <1>1, <1>2, <1>3, <1>4, RowUrls DEF KeptUrl

\* Link makes the created resource the event's.
LEMMA LinkOwns ==
  ASSUME TInv, CoverInv, UrlInv, NEW w \in Workers, Link(w), NEW ev \in sent[w], NEW url, url = ev.url
  PROVE  Owned(url)'
<1>1. pc[w] = "link" /\ \A fv \in sent[w] : fv = ev
  BY DEF Link, CoverInv, OneEvent
<1>2. url.event = ev.id
  BY <1>1 DEF UrlInv, SentUrls, Sending
<1>3. ASSUME NEW q \in rows', q.id = url.event
      PROVE  q.url = url
  BY <1>1, <1>2, <1>3, LinkedRow
<1> QED
  BY <1>3 DEF Owned

LEMMA StepOwn ==
  ASSUME OneEngine, CreatesAreLinked, kind # "caldav", TInv, CoverInv, UrlInv, OwnUrls, [Next]_vars
  PROVE  OwnUrls'
<1>t. /\ \A s \in server : s.url \in Url /\ Issued(s.url)
      /\ \A r \in rows : r.url \in Url /\ Issued(r.url)
      /\ \A w \in Workers : /\ pc[w] \in Applying => \A ch \in changes[w] : ch.url \in Url /\ Issued(ch.url)
                            /\ pc[w] \in {"conflict", "write"} => cur[w].url \in Url /\ Issued(cur[w].url)
  BY DEF UrlInv, UrlsIssued, FetchedUrls, Applying, TInv, TypeOK, StoreTypeOK, Resource, Row, Change
<1>f. ~Fault("crash") /\ ~Fault("reply") /\ ~Fault("body") /\ ~Fault("sql")
  BY NoSuchFault DEF TInv, TypeOK
<1>s. \A url \in Url : Issued(url) /\ Owned(url) => Owned(url)'
  BY OwnedStays
<1>1. \A r \in rows : Owned(r.url)'
  BY <1>s, <1>t DEF OwnUrls
<1>2. \A w \in Workers :
        /\ pc[w] \in Applying => \A ch \in changes[w] : Owned(ch.url)'
        /\ pc[w] \in {"conflict", "write"} => \A url : url = cur[w].url => Owned(url)'
  BY <1>s, <1>t DEF OwnUrls
<1>3. ASSUME NEW url, NEW content, NEW live, Put(url, content, live), NEW s \in server'
      PROVE  s \in server \/ s.url = url
  BY <1>3, PutIs
<1>4. CASE UserAction \/ ConflictAction \/ RemoteCreate \/ RemoteEdit \/ RemoteDelete \/ UNCHANGED vars
  <2>1. UNCHANGED <<pc, sent, changes, cur>>
    BY <1>4, HandlersElse, OthersElse DEF vars, workerVars
  <2>2. \A url : InHand(url) => InHand(url)'
    BY <2>1 DEF InHand
  <2>3. \A s \in server : Owned(s.url)' \/ InHand(s.url)'
    BY <1>s, <1>t, <2>2 DEF OwnUrls
  <2>4. \A s \in server' : Owned(s.url)' \/ InHand(s.url)'
    <3>1. CASE UNCHANGED server
      BY <2>3, <3>1
    <3>2. ASSUME NEW url, NEW content, NEW live, Put(url, content, live), OthersPut(url, content, live)
          PROVE  \A s \in server' : Owned(s.url)' \/ InHand(s.url)'
      <4>1. Owned(url)' \/ InHand(url)'
        BY <2>3, <3>2 DEF OthersPut, Owned
      <4> QED
        BY <1>3, <2>3, <3>2, <4>1
    <3> QED
      BY <1>4, <3>1, <3>2, HandlersElse, OthersChange DEF vars, serverVars
  <2>5. \A q \in rows' : Owned(q.url)'
    <3>1. \A q \in rows' : q.url = NoUrl \/ \E r \in rows : q.url = r.url
      BY <1>4, HandlerRow, OthersElse DEF vars, storeVars
    <3>2. Owned(NoUrl)'
      BY DEF Owned, NoUrl
    <3> QED
      BY <1>1, <3>1, <3>2
  <2> QED
    BY <1>2, <2>1, <2>4, <2>5 DEF OwnUrls
<1>5. ASSUME NEW w \in Workers, StartSync(w) \/ SyncStep(w)
      PROVE  OwnUrls'
  <2>t. /\ pc \in [Workers -> PCs] /\ sent \in [Workers -> SUBSET Row] /\ cur \in [Workers -> Change]
        /\ changes \in [Workers -> SUBSET Change]
    BY DEF TInv, TypeOK
  <2>a. \A v \in Workers : v # w => pc[v] = "idle" /\ pc'[v] = "idle"
    BY <1>5, Alone DEF UrlInv
  <2>1. \A url : InHand(url) => pc[w] = "link" /\ \E ev \in sent[w] : ev.url = url
    BY <2>a DEF InHand
  <2>2. \A s \in server' : Owned(s.url)' \/ InHand(s.url)'
    <3>1. CASE Push(w)
      <4>1. pc[w] = "push" /\ ServerTakes(w) /\ UNCHANGED todo
        BY <3>1 DEF Push
      <4>2. \A s \in server : Owned(s.url)'
        BY <1>s, <1>t, <2>1, <4>1 DEF OwnUrls
      <4>3. PICK url, content, live : Put(url, content, live) /\ TakenPut(w, url, content, live)
        BY <4>1, TakenChange
      <4>4. CASE \E s \in server : s.url = url
        BY <1>3, <4>2, <4>3, <4>4
      <4>5. CASE \E ev \in sent[w] : ev.url # NoUrl /\ LiveAt(ev.url) /\ url = Target(ev)
        BY <1>3, <4>2, <4>3, <4>5 DEF Target, LiveAt
      <4>6. ASSUME NEW ev \in sent[w], ev.url = NoUrl, url = Target(ev), Head(todo[w]).op = "upsert"
            PROVE  InHand(url)'
        <5>1. \A fv \in sent[w] : fv = ev
          BY DEF CoverInv, OneEvent
        <5>2. pc' = [pc EXCEPT ![w] = "link"] /\ sent' = [sent EXCEPT ![w] = {[ev EXCEPT !.url = url]}]
          BY <3>1, <4>6, <5>1 DEF Push, Goto
        <5>3. [ev EXCEPT !.url = url].url = url
          BY <2>t DEF Row
        <5> QED
          BY <2>t, <5>2, <5>3 DEF InHand
      <4>7. kind = "outlook"
        BY KindsAssumption DEF TInv, TypeOK
      <4>8. \/ \E s \in server : s.url = url
            \/ \E ev \in sent[w] : ev.url # NoUrl /\ LiveAt(ev.url) /\ url = Target(ev)
            \/ \E ev \in sent[w] : ev.url = NoUrl /\ url = Target(ev) /\ Head(todo[w]).op = "upsert"
        BY <4>3, <4>7 DEF TakenPut
      <4> QED
        BY <1>3, <4>2, <4>3, <4>4, <4>5, <4>6, <4>8
    <3>2. CASE Link(w)
      <4>1. UNCHANGED server
        BY <3>2 DEF Link, serverVars
      <4>2. \A ev \in sent[w] : \A url : url = ev.url => Owned(url)'
        BY <3>2, LinkOwns
      <4>3. \A s \in server : Owned(s.url)'
        BY <1>s, <1>t, <2>1, <4>2 DEF OwnUrls
      <4> QED
        BY <4>1, <4>3
    <3>3. CASE ~Push(w) /\ ~Link(w)
      <4>1. UNCHANGED server /\ pc[w] # "link"
        BY <1>5, <1>f, <3>3 DEF SyncStep, StartSync, LoadOutbox, ReadEvent, PushUnread, PushFails, LinkFails,
                 ClearEntry, Fetch, FetchFails, TakeChange, RecordConflict, WriteChange, WriteFails, Finish,
                 SaveFails, serverVars
      <4>2. \A s \in server : Owned(s.url)'
        BY <1>s, <1>t, <2>1, <4>1 DEF OwnUrls
      <4> QED
        BY <4>1, <4>2
    <3> QED
      BY <3>1, <3>2, <3>3
  <2>3. \A q \in rows' : Owned(q.url)'
    <3>1. CASE Link(w)
      <4>1. \A q \in rows' : (\E ev \in sent[w] : q.url = ev.url) \/ \E r \in rows : q.url = r.url
        BY <3>1, LinkedUrl DEF Linked
      <4>2. \A ev \in sent[w] : \A url : url = ev.url => Owned(url)'
        BY <3>1, LinkOwns
      <4> QED
        BY <1>1, <4>1, <4>2
    <3>2. CASE WriteChange(w)
      <4>1. \A q \in rows' : q.url = cur[w].url \/ \E r \in rows : q.url = r.url
        BY <3>2, AppliedUrl
      <4>2. \A url : url = cur[w].url => Owned(url)'
        BY <1>2, <3>2 DEF WriteChange
      <4> QED
        BY <1>1, <4>1, <4>2
    <3>3. CASE Finish(w)
      BY <1>1, <3>3, FinishedRow
    <3> QED
      BY <1>1, <1>5, <3>1, <3>2, <3>3, SyncRow
  <2>4. /\ pc'[w] \in Applying => \A ch \in changes'[w] : Owned(ch.url)'
        /\ pc'[w] \in {"conflict", "write"} => \A url : url = cur'[w].url => Owned(url)'
    <3>1. CASE Fetch(w)
      <4>1. pc[w] = "drain" /\ pc'[w] = "apply" /\ UNCHANGED server
        BY <2>t, <3>1 DEF Fetch, Goto, serverVars
      <4>2. \A state, token : \A ch \in CalDAVChanges(state) \union GraphChanges(token) :
              \E s \in server : ch.url = s.url
        BY DEF CalDAVChanges, GraphChanges
      <4>3. \A ch \in changes'[w] : \E s \in server : ch.url = s.url
        <5>1. \E state, token : changes'[w] = CalDAVChanges(state) \/ changes'[w] = GraphChanges(token)
          BY <2>t, <3>1 DEF Fetch
        <5> QED
          BY <4>2, <5>1
      <4>4. \A s \in server : Owned(s.url)'
        BY <1>s, <1>t, <2>1, <4>1 DEF OwnUrls
      <4> QED
        BY <4>1, <4>3, <4>4
    <3>2. CASE TakeChange(w)
      <4>1. pc[w] = "apply"
        BY <3>2 DEF TakeChange
      <4>2. PICK ch \in changes[w] : /\ changes' = [changes EXCEPT ![w] = @ \ {ch}]
                                     /\ UNCHANGED <<pc, cur>> \/ cur' = [cur EXCEPT ![w] = ch]
        BY <3>2 DEF TakeChange
      <4>3. changes'[w] \subseteq changes[w] /\ (pc'[w] = "apply" \/ cur'[w] = ch)
        BY <2>t, <4>1, <4>2
      <4> QED
        BY <1>2, <4>1, <4>3 DEF Applying
    <3>3. CASE RecordConflict(w)
      <4>1. pc[w] = "conflict" /\ UNCHANGED <<changes, cur>>
        BY <3>3 DEF RecordConflict
      <4> QED
        BY <1>2, <4>1 DEF Applying
    <3>4. CASE WriteChange(w) \/ WriteFails(w)
      <4>1. pc[w] = "write" /\ UNCHANGED changes /\ pc'[w] = "apply"
        BY <2>t, <3>4 DEF WriteChange, WriteFails, Applied, Goto
      <4> QED
        BY <1>2, <4>1 DEF Applying
    <3> QED
      BY <1>5, <3>1, <3>2, <3>3, <3>4, NextPlace DEF Applying
  <2> QED
    BY <2>a, <2>2, <2>3, <2>4 DEF OwnUrls, Applying
<1> QED
  BY <1>4, <1>5, <1>f DEF Next, Crash

(* With one engine, and where nothing comes between the create and its     *)
(* link, the resource a create-push made belongs to its event: no pull     *)
(* makes a second event of it (pushOne, SetEventResourceURL, applyChange). *)
(* After a lost reply (PushUnread) a pull does make one.                   *)
THEOREM OwnCreates == OneEngine /\ CreatesAreLinked /\ Spec => []OwnCreateRecognised
<1> SUFFICES ASSUME OneEngine, CreatesAreLinked PROVE Spec => []OwnCreateRecognised
  OBVIOUS
<1> DEFINE Inv == EngineInv /\ (kind # "caldav" => OwnUrls)
<1>1. Init => Inv
  BY InitTyped, InitCover, InitUrl, InitOwn DEF EngineInv
<1>2. Inv /\ [Next]_vars => Inv'
  <2>1. [Next]_vars => kind' = kind
    BY DEF Next, vars
  <2> QED
    BY <2>1, StepTyped, StepCover, StepUrl, StepOwn DEF EngineInv
<1>3. Inv => OwnCreateRecognised
  <2> SUFFICES ASSUME EngineInv, kind # "caldav" => OwnUrls, NEW r \in rows, r.url.made = "local",
                      NEW q \in rows, q.id = r.url.event
               PROVE  r.id = r.url.event
    BY DEF OwnCreateRecognised, Exists
  <2>1. CASE kind = "caldav"
    <3>1. r.url = Home(r.id)
      BY <2>1 DEF EngineInv, UrlInv, CalDAVRows, NoUrl
    <3> QED
      BY <3>1 DEF Home
  <2>2. CASE kind # "caldav"
    <3>1. q.url = r.url
      BY <2>2 DEF OwnUrls, Owned
    <3>2. r.url # NoUrl
      BY DEF NoUrl
    <3> QED
      BY <3>1, <3>2 DEF EngineInv, UrlInv, UniqueUrl
  <2> QED
    BY <2>1, <2>2
<1> QED
  BY <1>1, <1>2, <1>3, PTL DEF Spec

-------------------------------------------------------------------------------
(* What is in the Conflict Queue.                                          *)

\* A sync that has begun to write rows ends with its Save: CalDAV's writes none.
SyncsEnd == Kinds = {"caldav"} \/ {"crash", "sql"} \cap Faults = {}

\* A pull brings one change of a resource, and goes on to the others.
OncePerPull(w) ==
  pc[w] \in Applying =>
    /\ \A ch, other \in changes[w] : ch.url = other.url => ch = other
    /\ pc[w] # "apply" => \A ch \in changes[w] : ch.url # cur[w].url

\* The change to that resource has been applied by w.
Pulled(w, url) ==
  /\ pc[w] \in Applying
  /\ \A ch \in changes[w] : ch.url # url
  /\ pc[w] # "apply" => cur[w].url # url

\* What looks like the user's is, or a pull under way has just written it.
JustPulled == \A r \in rows : r.newer /\ r.content.by = "remote" => \E w \in Workers : Pulled(w, r.url)

FoundLocal(w) == pc[w] = "conflict" => \A f \in found[w] : f.content.by = "local"

ConflictInv ==
  ConflictsAreTheUsers /\ JustPulled /\ \A w \in Workers : OncePerPull(w) /\ FoundLocal(w)

LEMMA InitConflict == Init => ConflictInv
<1> SUFFICES ASSUME Init PROVE ConflictInv
  OBVIOUS
<1>1. \A w \in Workers : pc[w] = "idle"
  BY DEF Init
<1>2. \A r \in rows : ~r.newer
  BY DEF Init
<1>3. conflicts = {}
  BY DEF Init
<1> QED
  BY <1>1, <1>2, <1>3 DEF ConflictInv, ConflictsAreTheUsers, JustPulled, OncePerPull, FoundLocal, Applying

\* A conflict is of a row a pull has found, and that row is the user's.
LEMMA StepConflicts ==
  ASSUME TInv, ConflictsAreTheUsers, \A w \in Workers : FoundLocal(w), [Next]_vars
  PROVE  ConflictsAreTheUsers'
  BY CopiesStay DEF ConflictsAreTheUsers, FoundLocal

LEMMA WrittenIsLocal ==
  ASSUME ConflictsAreTheUsers, NEW content, Written(content)
  PROVE  content.by = "local"
  BY DEF Written, ConflictsAreTheUsers, Local

\* Handlers and other clients leave a pull as it is.
LEMMA IdleConflict ==
  ASSUME ConflictInv, UNCHANGED <<pc, changes, cur, found>>,
         \A q \in rows' : q \in rows \/ q.content.by = "local"
  PROVE  JustPulled' /\ \A v \in Workers : OncePerPull(v)' /\ FoundLocal(v)'
<1>1. \A v \in Workers : OncePerPull(v)' /\ FoundLocal(v)'
  BY DEF ConflictInv, OncePerPull, FoundLocal
<1>2. ASSUME NEW q \in rows', q.newer, q.content.by = "remote"
      PROVE  \E w \in Workers : Pulled(w, q.url)'
  <2>1. PICK w \in Workers : Pulled(w, q.url)
    BY <1>2 DEF ConflictInv, JustPulled
  <2> QED
    BY <2>1 DEF Pulled
<1> QED
  BY <1>1, <1>2 DEF JustPulled

\* One change of each resource there is.
LEMMA FetchedOnce ==
  ASSUME TInv, UrlInv, NEW w \in Workers, Fetch(w)
  PROVE  \A ch, other \in changes'[w] : ch.url = other.url => ch = other
<1>1. \A state, token :
        /\ \A ch, other \in CalDAVChanges(state) : ch.url = other.url => ch = other
        /\ \A ch, other \in GraphChanges(token) : ch.url = other.url => ch = other
  BY DEF CalDAVChanges, GraphChanges, UrlInv, OnePerUrl
<1>2. \E state, token : changes'[w] = CalDAVChanges(state) \/ changes'[w] = GraphChanges(token)
  BY DEF Fetch, TInv, TypeOK
<1> QED
  BY <1>1, <1>2

\* A pull that is not at "apply" yet has written no row, and no other pull is.
LEMMA NonePulled ==
  ASSUME ConflictInv, NEW w \in Workers, pc[w] \notin Applying,
         \A v \in Workers : v # w => pc[v] = "idle"
  PROVE  \A r \in rows : r.newer => r.content.by # "remote"
  BY DEF ConflictInv, JustPulled, Pulled, Applying

LEMMA SyncPulls ==
  ASSUME OneEngine, TInv, CoverInv, UrlInv, ConflictInv, [Next]_vars,
         NEW w \in Workers, StartSync(w) \/ SyncStep(w)
  PROVE  OncePerPull(w)' /\ FoundLocal(w)'
<1>t. /\ pc \in [Workers -> PCs] /\ changes \in [Workers -> SUBSET Change]
      /\ cur \in [Workers -> Change] /\ found \in [Workers -> SUBSET Row]
      /\ \A r \in rows : r.content.by \in {"local", "remote"}
  BY DEF TInv, TypeOK, StoreTypeOK, Row, Content
<1>a. \A v \in Workers : v # w => pc[v] = "idle"
  BY Alone DEF UrlInv
<1>o. OncePerPull(w)
  BY DEF ConflictInv
<1>1. CASE Fetch(w)
  <2>1. pc'[w] = "apply"
    BY <1>1, <1>t DEF Fetch, Goto
  <2> QED
    BY <1>1, <2>1, FetchedOnce DEF OncePerPull, FoundLocal
<1>2. CASE TakeChange(w)
  <2>1. PICK ch \in changes[w] :
          /\ changes' = [changes EXCEPT ![w] = @ \ {ch}]
          /\ \/ UNCHANGED <<pc, cur, found>>
             \/ /\ cur' = [cur EXCEPT ![w] = ch]
                /\ found' = [found EXCEPT ![w] = ByUrl(ch.url)]
                /\ \/ Goto(w, "conflict") /\ \E r \in ByUrl(ch.url) : r.newer
                   \/ Goto(w, "write")
    BY <1>2 DEF TakeChange, Goto
  <2>2. pc[w] = "apply"
    BY <1>2 DEF TakeChange
  <2>3. /\ changes'[w] = changes[w] \ {ch}
        /\ \A c, other \in changes[w] : c.url = other.url => c = other
    BY <1>t, <1>o, <2>1, <2>2 DEF OncePerPull, Applying
  <2>4. CASE UNCHANGED <<pc, cur, found>>
    BY <2>2, <2>3, <2>4 DEF OncePerPull, FoundLocal
  <2>5. CASE cur' = [cur EXCEPT ![w] = ch] /\ found' = [found EXCEPT ![w] = ByUrl(ch.url)]
             /\ ((Goto(w, "conflict") /\ \E r \in ByUrl(ch.url) : r.newer) \/ Goto(w, "write"))
    <3>1. cur'[w] = ch /\ found'[w] = ByUrl(ch.url)
      BY <1>t, <2>5
    <3>2. OncePerPull(w)'
      BY <2>3, <3>1 DEF OncePerPull
    <3>3. pc'[w] = "conflict" => \E r \in ByUrl(ch.url) : r.newer
      BY <1>t, <2>5 DEF Goto
    <3>4. ASSUME pc'[w] = "conflict", NEW f \in ByUrl(ch.url)
          PROVE  f.content.by = "local"
      <4>1. PICK r \in ByUrl(ch.url) : r.newer
        BY <3>3, <3>4
      <4>2. f \in rows /\ r \in rows /\ f.url = ch.url /\ r.url = ch.url
        BY <4>1 DEF ByUrl
      <4>3. ch.url # NoUrl
        BY <2>2 DEF UrlInv, FetchedUrls, Applying
      <4>4. f = r
        BY <4>2, <4>3 DEF UrlInv, UniqueUrl, CoverInv, RowIds
      <4>5. r.content.by # "remote"
        <5>1. \A v \in Workers : ~Pulled(v, r.url)
          BY <1>a, <4>2 DEF Pulled, Applying
        <5> QED
          BY <4>1, <4>2, <5>1 DEF ConflictInv, JustPulled
      <4> QED
        BY <1>t, <4>2, <4>4, <4>5
    <3> QED
      BY <3>1, <3>2, <3>4 DEF FoundLocal
  <2> QED
    BY <2>1, <2>4, <2>5
<1>3. CASE RecordConflict(w)
  <2>1. pc[w] = "conflict" /\ pc'[w] = "write" /\ UNCHANGED <<changes, cur>>
    BY <1>t, <1>3 DEF RecordConflict, Goto
  <2> QED
    BY <1>o, <2>1 DEF OncePerPull, FoundLocal, Applying
<1>4. CASE WriteChange(w) \/ WriteFails(w)
  <2>1. pc[w] = "write" /\ pc'[w] = "apply" /\ UNCHANGED changes
    BY <1>t, <1>4 DEF WriteChange, WriteFails, Applied, Goto
  <2> QED
    BY <1>o, <2>1 DEF OncePerPull, FoundLocal, Applying
<1> QED
  BY <1>1, <1>2, <1>3, <1>4, NextPlace DEF OncePerPull, FoundLocal, Applying

\* What has been pulled stays so till the pull ends.
LEMMA PulledStays ==
  ASSUME TInv, NEW w \in Workers, NEW url, Pulled(w, url),
         TakeChange(w) \/ RecordConflict(w) \/ WriteChange(w) \/ WriteFails(w)
  PROVE  Pulled(w, url)'
<1>t. /\ pc \in [Workers -> PCs] /\ changes \in [Workers -> SUBSET Change]
      /\ cur \in [Workers -> Change]
  BY DEF TInv, TypeOK
<1>1. CASE TakeChange(w)
  <2>1. PICK ch \in changes[w] : /\ changes' = [changes EXCEPT ![w] = @ \ {ch}]
                                /\ \/ UNCHANGED <<pc, cur>>
                                   \/ /\ cur' = [cur EXCEPT ![w] = ch]
                                      /\ Goto(w, "conflict") \/ Goto(w, "write")
    BY <1>1 DEF TakeChange
  <2>2. changes'[w] \subseteq changes[w] /\ ch.url # url /\ pc[w] = "apply"
    BY <1>t, <1>1, <2>1 DEF Pulled, TakeChange
  <2>3. UNCHANGED pc \/ (cur'[w] = ch /\ pc'[w] \in {"conflict", "write"})
    BY <1>t, <2>1 DEF Goto
  <2> QED
    BY <2>2, <2>3 DEF Pulled, Applying
<1>2. CASE RecordConflict(w)
  <2>1. pc[w] = "conflict" /\ pc'[w] = "write" /\ UNCHANGED <<changes, cur>>
    BY <1>t, <1>2 DEF RecordConflict, Goto
  <2> QED
    BY <2>1 DEF Pulled, Applying
<1>3. CASE WriteChange(w) \/ WriteFails(w)
  <2>1. pc'[w] = "apply" /\ UNCHANGED changes
    BY <1>t, <1>3 DEF WriteChange, WriteFails, Applied, Goto
  <2> QED
    BY <2>1 DEF Pulled, Applying
<1> QED
  BY <1>1, <1>2, <1>3

LEMMA SyncJustPulled ==
  ASSUME OneEngine, SyncsEnd, kind # "caldav", TInv, CoverInv, UrlInv, ConflictInv, [Next]_vars,
         NEW w \in Workers, StartSync(w) \/ SyncStep(w)
  PROVE  JustPulled'
<1>t. pc \in [Workers -> PCs] /\ changes \in [Workers -> SUBSET Change]
  BY DEF TInv, TypeOK
<1>a. \A v \in Workers : v # w => pc[v] = "idle"
  BY Alone DEF UrlInv
<1>f. ~Fault("sql")
  BY DEF SyncsEnd, Fault, TInv, TypeOK
<1>p. ASSUME NEW r \in rows, r.newer, r.content.by = "remote"
      PROVE  Pulled(w, r.url)
  BY <1>a, <1>p DEF ConflictInv, JustPulled, Pulled, Applying
<1>1. CASE WriteChange(w)
  <2>1. pc[w] = "write" /\ pc'[w] = "apply" /\ UNCHANGED changes
    BY <1>t, <1>1 DEF WriteChange, Applied, Goto
  <2>2. ASSUME NEW url, url = cur[w].url
        PROVE  Pulled(w, url)'
    BY <2>1, <2>2 DEF ConflictInv, OncePerPull, Pulled, Applying
  <2>3. \A f \in found[w], r \in rows : r.id = f.id => r.url = cur[w].url
    BY <2>1 DEF UrlInv, FetchedUrls, Applying
  <2>4. ASSUME NEW q \in rows', q.newer, q.content.by = "remote"
        PROVE  Pulled(w, q.url)'
    <3>1. q \in rows \/ q.url = cur[w].url
      BY <1>1, <2>3, AppliedRow
    <3>2. CASE q \in rows
      <4>1. \A url : Pulled(w, url) => Pulled(w, url)'
        BY <1>1, PulledStays
      <4> QED
        BY <1>p, <2>4, <3>2, <4>1
    <3> QED
      BY <2>2, <3>1, <3>2
  <2> QED
    BY <2>4 DEF JustPulled
<1>2. CASE Finish(w)
  BY <1>2, FinishedRow DEF JustPulled
<1>3. CASE Link(w)
  <2>1. \A r \in rows : r.newer => r.content.by # "remote"
    BY <1>3, <1>p DEF Link, Pulled, Applying
  <2> QED
    BY <1>3, <2>1, LinkedRow DEF JustPulled
<1>4. CASE TakeChange(w) \/ RecordConflict(w) \/ WriteFails(w)
  <2>1. \A url : Pulled(w, url) => Pulled(w, url)'
    BY <1>4, PulledStays
  <2>2. UNCHANGED rows
    BY <1>4 DEF TakeChange, RecordConflict, WriteFails, storeVars
  <2> QED
    BY <1>p, <2>1, <2>2 DEF JustPulled
<1>5. CASE ~(WriteChange(w) \/ Finish(w) \/ Link(w) \/ TakeChange(w) \/ RecordConflict(w) \/ WriteFails(w))
  <2>1. pc[w] \notin Applying
    BY <1>5, <1>f DEF SyncStep, StartSync, LoadOutbox, ReadEvent, Push, PushUnread, PushFails, LinkFails,
                  ClearEntry, Fetch, FetchFails, SaveFails, Applying
  <2>2. UNCHANGED rows
    BY <1>5, SyncRow
  <2> QED
    BY <1>p, <2>1, <2>2 DEF JustPulled, Pulled
<1> QED
  BY <1>1, <1>2, <1>3, <1>4, <1>5

LEMMA StepConflict ==
  ASSUME OneEngine, SyncsEnd, kind # "caldav", TInv, CoverInv, UrlInv, ConflictInv, [Next]_vars
  PROVE  ConflictInv'
<1>1. ConflictsAreTheUsers'
  BY StepConflicts DEF ConflictInv
<1>2. JustPulled' /\ \A v \in Workers : OncePerPull(v)' /\ FoundLocal(v)'
  <2>1. CASE UserAction \/ ConflictAction \/ RemoteCreate \/ RemoteEdit \/ RemoteDelete \/ UNCHANGED vars
    <3>1. UNCHANGED <<pc, changes, cur, found>>
      BY <2>1, HandlersElse, OthersElse DEF vars, workerVars
    <3>2. \A q \in rows' : q \in rows \/ Written(q.content)
      BY <2>1, HandlerRow, OthersElse DEF vars, storeVars
    <3>3. \A q \in rows' : q \in rows \/ q.content.by = "local"
      BY <3>2, WrittenIsLocal DEF ConflictInv
    <3> QED
      BY <3>1, <3>3, IdleConflict
  <2>2. ASSUME NEW w \in Workers, StartSync(w) \/ SyncStep(w)
        PROVE  JustPulled' /\ \A v \in Workers : OncePerPull(v)' /\ FoundLocal(v)'
    <3>1. \A v \in Workers : v # w => OncePerPull(v)' /\ FoundLocal(v)'
      BY <2>2, Alone DEF UrlInv, OncePerPull, FoundLocal, Applying
    <3> QED
      BY <2>2, <3>1, SyncPulls, SyncJustPulled
  <2>3. ~Crash
    BY DEF Crash, SyncsEnd, Fault, TInv, TypeOK
  <2> QED
    BY <2>1, <2>2, <2>3 DEF Next
<1> QED
  BY <1>1, <1>2 DEF ConflictInv

(* With one engine, and where no sync is cut off after it has written a    *)
(* row, only what the user wrote is ever put in the Conflict Queue, however *)
(* many syncs, edits and other clients there are: what a pull wrote counts *)
(* as newer than the last sync till the Save at its end, and no pull meets *)
(* its own writes (applyChange, RecordConflict).                           *)
THEOREM OnlyTheUsersConflict == OneEngine /\ SyncsEnd /\ Spec => []ConflictsAreTheUsers
<1> SUFFICES ASSUME OneEngine, SyncsEnd PROVE Spec => []ConflictsAreTheUsers
  OBVIOUS
<1> DEFINE Inv == EngineInv /\ ConflictsAreTheUsers /\ (kind # "caldav" => ConflictInv)
<1>1. Init => Inv
  BY InitTyped, InitCover, InitUrl, InitConflict DEF EngineInv, Init, ConflictsAreTheUsers
<1>2. Inv /\ [Next]_vars => Inv'
  <2> SUFFICES ASSUME Inv, [Next]_vars PROVE Inv'
    OBVIOUS
  <2>1. kind' = kind
    BY DEF Next, vars
  <2>2. EngineInv'
    BY StepTyped, StepCover, StepUrl DEF EngineInv
  <2>3. CASE kind = "caldav"
    <3>1. \A w \in Workers : FoundLocal(w)
      BY <2>3 DEF EngineInv, UrlInv, FetchedUrls, FoundLocal, Applying
    <3> QED
      BY <2>1, <2>2, <2>3, <3>1, StepConflicts DEF EngineInv
  <2>4. CASE kind # "caldav"
    BY <2>1, <2>2, <2>4, StepConflict DEF EngineInv, ConflictInv
  <2> QED
    BY <2>3, <2>4
<1>3. Inv => ConflictsAreTheUsers
  OBVIOUS
<1> QED
  BY <1>1, <1>2, <1>3, PTL DEF Spec

-------------------------------------------------------------------------------
(* What the saved delta token covers.                                      *)

\* A row keeps its URL, and is deleted by its user or by a pull.
LEMMA RowStays ==
  ASSUME TInv, CoverInv, UrlInv, [Next]_vars, NEW r \in rows
  PROVE  \/ \E q \in rows' : q.id = r.id /\ (r.url # NoUrl => q.url = r.url)
         \/ DeleteRow /\ user.event = r.id
         \/ \E w \in Workers : WriteChange(w) /\ cur[w].op = "delete" /\ r.url = cur[w].url
<1>t. rows \subseteq Row
  BY DEF TInv, TypeOK, StoreTypeOK
<1>1. CASE rows \subseteq rows'
  BY <1>1
<1>2. ASSUME NEW i, NEW content, NEW newer, WriteContent(i, content, newer)
      PROVE  \E q \in rows' : q.id = r.id /\ q.url = r.url
  <2> DEFINE new == [r EXCEPT !.content = content, !.newer = newer]
  <2>1. new.id = r.id /\ new.url = r.url
    BY <1>t DEF Row
  <2>2. (IF r.id = i THEN new ELSE r) \in rows'
    BY <1>2 DEF WriteContent
  <2> HIDE DEF new
  <2> QED
    BY <2>1, <2>2
<1>3. ASSUME NEW w \in Workers, Link(w)
      PROVE  \E q \in rows' : q.id = r.id /\ (r.url # NoUrl => q.url = r.url)
  <2>1. PICK ev \in sent[w] : WriteUrl(ev.id, ev.url)
    BY <1>3 DEF Link
  <2>2. r.id = ev.id => r.url = NoUrl
    BY <1>3, <2>1 DEF Link, UrlInv, SentUrls, Sending
  <2> DEFINE new == [r EXCEPT !.url = ev.url]
  <2>3. new.id = r.id
    BY <1>t DEF Row
  <2>4. (IF r.id = ev.id THEN new ELSE r) \in rows'
    BY <2>1 DEF WriteUrl
  <2> HIDE DEF new
  <2> QED
    BY <2>2, <2>3, <2>4
<1>4. ASSUME NEW w \in Workers, Finish(w)
      PROVE  \E q \in rows' : q.id = r.id /\ q.url = r.url
  <2> DEFINE new == [r EXCEPT !.newer = FALSE]
  <2>1. new.id = r.id /\ new.url = r.url
    BY <1>t DEF Row
  <2>2. new \in rows'
    BY <1>4 DEF Finish, SyncedNow
  <2> HIDE DEF new
  <2> QED
    BY <2>1, <2>2
<1>5. ASSUME NEW content, NEW url, NEW newer, InsertEvent(content, url, newer)
      PROVE  rows \subseteq rows'
  BY <1>5 DEF InsertEvent
<1>6. CASE UserAction
  <2>1. \/ rows \subseteq rows' \/ (\E i, content, newer : WriteContent(i, content, newer)) \/ DeleteRow
    BY <1>5, <1>6 DEF UserAction, UserNext, UserStep, CreateEvent, ImportEvent, UpdateEvent, DeleteEvent,
                      Reread, Enqueue, EnqueueFails
  <2>2. CASE DeleteRow
    BY <2>2 DEF DeleteRow, RemoveEvent
  <2> QED
    BY <1>1, <1>2, <2>1, <2>2
<1>7. CASE ConflictAction
  <2>1. rows \subseteq rows' \/ \E i, content, newer : WriteContent(i, content, newer)
    BY <1>7 DEF ConflictAction, ResolveAcceptRemote, RestoreLocal, KeepLocal, storeVars
  <2> QED
    BY <1>1, <1>2, <2>1
<1>8. ASSUME NEW w \in Workers, WriteChange(w)
      PROVE  \/ \E q \in rows' : q.id = r.id /\ q.url = r.url
             \/ cur[w].op = "delete" /\ r.url = cur[w].url
  <2>1. CASE cur[w].op = "delete"
    <3>1. PICK f \in found[w] : RemoveEvent(f.id)
      BY <1>8, <2>1 DEF WriteChange
    <3>2. r.id = f.id => r.url = cur[w].url
      BY <1>8 DEF WriteChange, UrlInv, FetchedUrls, Applying
    <3> QED
      BY <2>1, <3>1, <3>2 DEF RemoveEvent
  <2>2. CASE cur[w].op # "delete"
    <3>1. rows \subseteq rows' \/ \E i, content, newer : WriteContent(i, content, newer)
      BY <1>5, <1>8, <2>2 DEF WriteChange
    <3> QED
      BY <1>2, <3>1
  <2> QED
    BY <2>1, <2>2
<1>9. CASE RemoteCreate \/ RemoteEdit \/ RemoteDelete \/ Crash \/ UNCHANGED vars
  BY <1>9, OthersElse DEF Crash, vars, storeVars
<1> QED
  BY <1>1, <1>3, <1>4, <1>6, <1>7, <1>8, <1>9, SyncRow DEF Next

\* What changes on the server is the last there.
LEMMA ServerStays ==
  ASSUME TInv, [Next]_vars
  PROVE  /\ seq' \in {seq, seq + 1}
         /\ \A s \in server' : s \in server \/ (s.seq = seq + 1 /\ seq' = seq + 1)
<1>1. ASSUME NEW url, NEW content, NEW live, Put(url, content, live)
      PROVE  seq' = seq + 1 /\ \A s \in server' : s \in server \/ s.seq = seq + 1
  BY <1>1, PutIs
<1>2. CASE server' = server /\ seq' = seq
  BY <1>2
<1>3. UNCHANGED <<server, seq>> \/ \E url, content, live : Put(url, content, live)
  BY ServerChange
<1> QED
  BY <1>1, <1>2, <1>3

\* Graph brings no deleted resource back.
LEMMA DeadStays ==
  ASSUME kind # "caldav", TInv, CoverInv, UrlInv, [Next]_vars, NEW url \in Url, Issued(url), ~LiveAt(url)
  PROVE  ~LiveAt(url)'
<1>1. CASE UNCHANGED server
  BY <1>1 DEF LiveAt
<1>k. kind = "outlook"
  BY KindsAssumption DEF TInv, TypeOK
<1>t. seq \in Nat /\ url.n \in Nat /\ url.n <= seq
  BY DEF Issued, TInv, TypeOK, Url
<1>2. ASSUME NEW u, NEW content, NEW live, Put(u, content, live), ~live \/ u # url
      PROVE  ~LiveAt(url)'
  <2>1. PICK new : new.url = u /\ new.live = live /\ server' = {s \in server : s.url # u} \union {new}
    BY <1>2, PutIs
  <2> QED
    BY <1>2, <2>1 DEF LiveAt
<1>3. ASSUME NEW content, NEW live, live, OthersPut(url, content, live)
      PROVE  FALSE
  BY <1>3, <1>t DEF OthersPut, Fresh, LiveAt
<1>4. ASSUME NEW w \in Workers, pc[w] = "push", NEW content, NEW live, live, TakenPut(w, url, content, live)
      PROVE  FALSE
  <2>1. PICK ev \in sent[w] : url = Target(ev) /\ (ev.url # NoUrl => LiveAt(ev.url))
    <3>1. ~(Head(todo[w]).op = "delete" /\ ~live)
      BY <1>4
    <3> QED
      BY <1>4, <1>k, <3>1 DEF TakenPut
  <2>2. CASE ev.url = NoUrl
    BY <1>t, <1>4, <2>1, <2>2, TargetIssued
  <2>3. CASE ev.url # NoUrl
    BY <1>4, <2>1, <2>3, TargetIssued
  <2> QED
    BY <2>2, <2>3
<1> QED
  BY <1>1, <1>2, <1>3, <1>4, ServerChange

\* The token that was loaded is the saved one till the pull gets a new one.
Tokens ==
  /\ saved.token <= seq + 1 /\ \A s \in server : s.seq <= seq
  /\ \A w \in Workers : pc[w] # "idle" =>
       /\ saved.token <= mem[w].token /\ mem[w].token <= seq + 1
       /\ pc[w] \notin Applying => mem[w].token = saved.token

LEMMA InitTokens == Init => Tokens
<1> SUFFICES ASSUME Init PROVE Tokens
  OBVIOUS
<1>1. \A w \in Workers : pc[w] = "idle"
  BY DEF Init
<1>2. CASE server = {} /\ seq = 0 /\ saved = NoState
  BY <1>1, <1>2 DEF Tokens, NoState
<1>3. ASSUME NEW url, server = {[url |-> url, content |-> Local(0), seq |-> 1, live |-> TRUE]}, seq = 1,
             saved.token \in {0, 2}
      PROVE  Tokens
  BY <1>1, <1>3 DEF Tokens
<1> DEFINE url == [made |-> "local", event |-> 1, n |-> IF kind = "caldav" THEN 0 ELSE 1]
<1>4. CASE server = {[url |-> url, content |-> Local(0), seq |-> 1, live |-> TRUE]} /\ seq = 1 /\
           saved = [etags |-> IF kind = "caldav" THEN {[url |-> url, tag |-> 1]} ELSE {},
                    token |-> IF kind = "caldav" THEN 0 ELSE 2, synced |-> TRUE]
  <2>1. saved.token \in {0, 2}
    BY <1>4
  <2> HIDE DEF url
  <2> QED
    BY <1>3, <1>4, <2>1
<1> QED
  BY <1>2, <1>4 DEF Init

\* What the token of a goroutine becomes.
LEMMA NextToken ==
  ASSUME TInv, NEW w \in Workers, StartSync(w) \/ SyncStep(w), pc'[w] # "idle"
  PROVE  \/ StartSync(w) /\ mem'[w] = saved
         \/ Fetch(w) /\ mem'[w].token = (IF kind = "caldav" THEN mem[w].token ELSE seq + 1)
         \/ ~StartSync(w) /\ ~Fetch(w) /\ pc[w] # "idle" /\ mem'[w].token = mem[w].token
<1>t. mem \in [Workers -> SyncState] /\ pc \in [Workers -> PCs]
  BY DEF TInv, TypeOK
<1>w. \A url, tag : WithTag(mem[w], url, tag).token = mem[w].token
  BY <1>t DEF WithTag, SyncState
<1>1. CASE StartSync(w)
  BY <1>1, <1>t DEF StartSync
<1>2. CASE Fetch(w)
  BY <1>2, <1>t DEF Fetch, SyncState
<1>3. CASE Push(w) \/ LinkFails(w) \/ WriteChange(w)
  <2>1. UNCHANGED mem \/ \E url, tag : mem' = [mem EXCEPT ![w] = WithTag(@, url, tag)]
    BY <1>3 DEF Push, LinkFails, WriteChange
  <2>2. mem'[w].token = mem[w].token
    BY <1>t, <1>w, <2>1
  <2>3. pc[w] # "idle" /\ ~StartSync(w) /\ ~Fetch(w)
    BY <1>3 DEF Push, LinkFails, WriteChange, StartSync, Fetch
  <2> QED
    BY <2>2, <2>3
<1>4. CASE LoadOutbox(w) \/ ReadEvent(w) \/ PushUnread(w) \/ PushFails(w) \/ Link(w) \/ ClearEntry(w)
           \/ TakeChange(w) \/ RecordConflict(w) \/ WriteFails(w)
  <2>1. UNCHANGED mem
    BY <1>4 DEF LoadOutbox, ReadEvent, PushUnread, PushFails, Link, ClearEntry, TakeChange, RecordConflict,
                WriteFails
  <2>2. pc[w] # "idle"
    BY <1>4 DEF LoadOutbox, ReadEvent, PushUnread, PushFails, Link, ClearEntry, TakeChange, RecordConflict,
                WriteFails
  <2> QED
    BY <1>1, <1>2, <2>1, <2>2
<1>5. CASE FetchFails(w) \/ Finish(w) \/ SaveFails(w)
  BY <1>5, <1>t DEF FetchFails, Finish, SaveFails, Leave, Goto
<1> QED
  BY <1>1, <1>2, <1>3, <1>4, <1>5 DEF SyncStep

\* Only the end of a pull saves a state.
LEMMA SavedChange ==
  ASSUME TInv, [Next]_vars
  PROVE  UNCHANGED saved \/ \E w \in Workers : Finish(w) /\ saved'.token = mem[w].token
<1>1. ASSUME NEW w \in Workers, Finish(w)
      PROVE  saved'.token = mem[w].token
  BY <1>1 DEF Finish, TInv, TypeOK, SyncState
<1>2. ASSUME NEW w \in Workers, StartSync(w) \/ SyncStep(w)
      PROVE  UNCHANGED saved \/ Finish(w)
  BY <1>2 DEF SyncStep, StartSync, LoadOutbox, ReadEvent, Push, PushUnread, PushFails, Link, LinkFails,
              ClearEntry, Fetch, FetchFails, TakeChange, RecordConflict, WriteChange, WriteFails, SaveFails
<1>3. CASE UserAction \/ ConflictAction \/ RemoteCreate \/ RemoteEdit \/ RemoteDelete \/ Crash \/ UNCHANGED vars
  BY <1>3 DEF UserAction, ConflictAction, ResolveAcceptRemote, RestoreLocal, KeepLocal, RemoteCreate,
              RemoteEdit, RemoteDelete, OtherClient, Crash, vars
<1> QED
  BY <1>1, <1>2, <1>3 DEF Next

LEMMA StepTokens ==
  ASSUME OneEngine, TInv, LockHeld, Tokens, kind # "caldav", [Next]_vars
  PROVE  Tokens'
<1>t. /\ seq \in Nat /\ seq' \in Nat /\ saved.token \in Nat /\ saved'.token \in Nat
      /\ \A w \in Workers : mem[w].token \in Nat /\ mem'[w].token \in Nat
      /\ \A s \in server' : s.seq \in Nat
      /\ pc \in [Workers -> PCs]
  BY StepTyped DEF TInv, TypeOK, SyncState, Resource
<1>s. seq <= seq' /\ \A s \in server' : s.seq <= seq'
  BY <1>t, ServerStays DEF Tokens
<1>1. CASE UserAction \/ ConflictAction \/ RemoteCreate \/ RemoteEdit \/ RemoteDelete \/ UNCHANGED vars
  <2>1. UNCHANGED <<pc, mem>> /\ UNCHANGED saved
    BY <1>1, HandlersElse, OthersElse DEF vars, workerVars, UserAction, ConflictAction, ResolveAcceptRemote,
       RestoreLocal, KeepLocal, RemoteCreate, RemoteEdit, RemoteDelete, OtherClient
  <2> QED
    BY <1>s, <1>t, <2>1 DEF Tokens
<1>2. CASE Crash
  <2>1. UNCHANGED saved /\ \A w \in Workers : pc'[w] = "idle"
    BY <1>2 DEF Crash
  <2> QED
    BY <1>s, <1>t, <2>1 DEF Tokens
<1>3. ASSUME NEW w \in Workers, StartSync(w) \/ SyncStep(w)
      PROVE  Tokens'
  <2>1. \A v \in Workers : v # w => pc'[v] = "idle"
    BY <1>3, Alone
  <2>2. CASE Finish(w)
    <3>1. saved'.token = mem[w].token /\ pc[w] # "idle" /\ pc'[w] = "idle"
      BY <1>t, <2>2 DEF Finish, Leave, Goto, TInv, TypeOK, SyncState
    <3> QED
      BY <1>s, <1>t, <2>1, <3>1 DEF Tokens
  <2>3. CASE ~Finish(w)
    <3>1. UNCHANGED saved
      BY <1>3, <2>3 DEF SyncStep, StartSync, LoadOutbox, ReadEvent, Push, PushUnread, PushFails, Link,
         LinkFails, ClearEntry, Fetch, FetchFails, TakeChange, RecordConflict, WriteChange, WriteFails, SaveFails
    <3>2. ASSUME pc'[w] # "idle"
          PROVE  /\ saved.token <= mem'[w].token /\ mem'[w].token <= seq' + 1
                 /\ pc'[w] \notin Applying => mem'[w].token = saved.token
      <4>1. CASE StartSync(w) /\ mem'[w] = saved
        BY <1>s, <1>t, <4>1 DEF Tokens
      <4>2. CASE Fetch(w) /\ mem'[w].token = seq + 1
        <5>1. pc'[w] \in Applying
          BY <1>t, <4>2 DEF Fetch, Goto, Applying
        <5>2. saved.token <= seq + 1
          BY DEF Tokens
        <5>3. \A n, m \in Nat : n <= m => n + 1 <= m + 1
          OBVIOUS
        <5>4. mem'[w].token = seq + 1
          BY <4>2
        <5>5. saved.token <= mem'[w].token
          BY <5>2, <5>4
        <5>6. seq + 1 <= seq' + 1
          BY <1>s, <1>t, <5>3
        <5>7. mem'[w].token <= seq' + 1
          BY <5>4, <5>6
        <5> QED
          BY <5>1, <5>5, <5>7
      <4>3. CASE ~StartSync(w) /\ ~Fetch(w) /\ pc[w] # "idle" /\ mem'[w].token = mem[w].token
        <5>1. pc[w] \in Applying => pc'[w] \in Applying
          BY <1>3, <1>t, <3>2, <4>3, <2>3 DEF SyncStep, LoadOutbox, ReadEvent, Push, PushUnread, PushFails, Link, LinkFails,
             ClearEntry, FetchFails, TakeChange, RecordConflict, WriteChange, WriteFails, SaveFails, Applied,
             Leave, Goto, Applying
        <5> QED
          BY <1>s, <1>t, <4>3, <5>1 DEF Tokens
      <4> QED
        BY <1>3, <3>2, <4>1, <4>2, <4>3, NextToken
    <3> QED
      BY <1>s, <1>t, <2>1, <3>1, <3>2 DEF Tokens
  <2> QED
    BY <2>2, <2>3
<1> QED
  BY <1>1, <1>2, <1>3 DEF Next

-------------------------------------------------------------------------------
\* Its event is not in the store, for the user has deleted it.
Gone(url) ==
  \/ Leaving(url)
  \/ url.made = "local" /\ ~Exists(url.event)
  \/ \E u \in unqueued : u.url = url

\* The handler that deletes an event remembers its URL, unless a push makes it one
\* meanwhile; the others have none.  What was cut off has deleted its event.
HandlerUrls ==
  /\ user.phase \in {"reread", "enqueue"} /\ user.op = "upsert" => user.url = NoUrl
  /\ user.phase = "delete" => \A r \in rows : r.id = user.event =>
       r.url = user.url \/ (user.url = NoUrl /\ r.url.made = "local" /\ r.url.event = r.id)
  /\ \A u \in unqueued : u.url # NoUrl =>
       /\ u.event \in 1..lastId /\ ~Exists(u.event)
       /\ user.phase \in {"reread", "delete", "enqueue"} => user.event # u.event

LEMMA InitHandlerUrls == Init => HandlerUrls
  BY DEF Init, HandlerUrls, Idle

\* What the handlers' steps leave undone.
LEMMA UnqueuedChange ==
  ASSUME TInv, [Next]_vars
  PROVE  /\ \A u \in unqueued' : \/ u \in unqueued
                                 \/ u.url = NoUrl
                                 \/ EnqueueFails /\ u.url = user.url /\ u.event = user.event
                                 \/ Crash /\ user.phase \in {"reread", "enqueue"}
                                    /\ u.url = user.url /\ u.event = user.event
         /\ \A u \in unqueued : u \in unqueued' \/ (Enqueue /\ u.event = user.event)
<1>1. ASSUME NEW i, NEW url, NeverQueued(i, url)
      PROVE  /\ unqueued \subseteq unqueued'
             /\ \A u \in unqueued' : u \in unqueued \/ (u.url = url /\ u.event = i)
  BY <1>1 DEF NeverQueued
<1>2. CASE UserAction
  <2>1. \/ UNCHANGED unqueued
        \/ \E i : NeverQueued(i, NoUrl)
        \/ EnqueueFails /\ NeverQueued(user.event, user.url)
        \/ Enqueue /\ unqueued' = {u \in unqueued : u.event # user.event}
    BY <1>2 DEF UserAction, UserNext, UserStep, CreateEvent, ImportEvent, UpdateEvent, DeleteEvent, Reread,
                DeleteRow, Enqueue, EnqueueFails
  <2> QED
    BY <1>1, <2>1
<1>3. CASE ConflictAction
  <2>1. UNCHANGED unqueued \/ \E i : NeverQueued(i, NoUrl)
    BY <1>3 DEF ConflictAction, ResolveAcceptRemote, RestoreLocal, KeepLocal, storeVars
  <2> QED
    BY <1>1, <2>1
<1>4. CASE Crash
  <2>1. \/ UNCHANGED unqueued
        \/ user.phase \in {"reread", "enqueue"} /\ NeverQueued(user.event, user.url)
    BY <1>4 DEF Crash
  <2> QED
    BY <1>1, <1>4, <2>1
<1>5. ASSUME NEW w \in Workers, StartSync(w) \/ SyncStep(w)
      PROVE  UNCHANGED unqueued
  BY <1>5 DEF SyncStep, StartSync, LoadOutbox, ReadEvent, Push, PushUnread, PushFails, Link, LinkFails,
              ClearEntry, Fetch, FetchFails, TakeChange, RecordConflict, WriteChange, WriteFails, Finish,
              SaveFails, storeVars
<1>6. CASE RemoteCreate \/ RemoteEdit \/ RemoteDelete \/ UNCHANGED vars
  BY <1>6 DEF RemoteCreate, RemoteEdit, RemoteDelete, OtherClient, vars, storeVars
<1> QED
  BY <1>2, <1>3, <1>4, <1>5, <1>6 DEF Next

\* The handler goes on, ends, or another begins.
LEMMA HandlerGoesOn ==
  ASSUME TInv, [Next]_vars
  PROVE  \/ UNCHANGED user
         \/ user'.phase \in {"idle", "resolve"}
         \/ /\ user'.phase = "enqueue" /\ user'.op = user.op /\ user'.event = user.event /\ user'.url = user.url
            /\ Reread \/ DeleteRow
         \/ /\ user'.op = "upsert" /\ user'.url = NoUrl
            /\ \/ CreateEvent /\ user'.phase = "enqueue" /\ user'.event = lastId + 1
               \/ UpdateEvent(user'.event) /\ user'.phase = "reread"
         \/ /\ user'.phase = "delete" /\ user'.op = "delete" /\ UNCHANGED rows
            /\ \E r \in rows : user'.event = r.id /\ user'.url = r.url
<1>t. user \in User /\ Idle.phase = "idle"
  BY DEF TInv, TypeOK, StoreTypeOK, Idle
<1>1. CASE CreateEvent
  BY <1>1 DEF CreateEvent, Begin
<1>2. ASSUME NEW i, UpdateEvent(i)
      PROVE  user'.op = "upsert" /\ user'.url = NoUrl /\ UpdateEvent(user'.event) /\ user'.phase = "reread"
  <2>1. user' = [phase |-> "reread", op |-> "upsert", event |-> i, url |-> NoUrl]
    BY <1>2 DEF UpdateEvent, Begin
  <2>2. user'.event = i /\ user'.op = "upsert" /\ user'.url = NoUrl /\ user'.phase = "reread"
    BY <2>1
  <2> QED
    BY <1>2, <2>2
<1>3. ASSUME NEW i, DeleteEvent(i)
      PROVE  /\ user'.phase = "delete" /\ user'.op = "delete" /\ UNCHANGED rows
             /\ \E r \in rows : user'.event = r.id /\ user'.url = r.url
  BY <1>3 DEF DeleteEvent, Begin
<1>4. CASE Reread
  BY <1>t, <1>4 DEF Reread, User
<1>5. CASE DeleteRow
  BY <1>t, <1>5 DEF DeleteRow, User
<1>6. CASE ImportEvent \/ Enqueue \/ EnqueueFails \/ Crash \/ KeepLocal
  BY <1>t, <1>6 DEF ImportEvent, Enqueue, EnqueueFails, Crash, KeepLocal
<1>7. ASSUME NEW c \in conflicts, ResolveAcceptRemote(c) \/ RestoreLocal(c)
      PROVE  UNCHANGED user \/ user'.phase = "resolve"
  <2>1. [Idle EXCEPT !.phase = "resolve", !.event = c.id].phase = "resolve"
    BY DEF Idle
  <2> QED
    BY <1>7, <2>1 DEF ResolveAcceptRemote, RestoreLocal, storeVars
<1>8. ASSUME NEW w \in Workers, StartSync(w) \/ SyncStep(w)
      PROVE  UNCHANGED user
  BY <1>8 DEF SyncStep, StartSync, LoadOutbox, ReadEvent, Push, PushUnread, PushFails, Link, LinkFails,
              ClearEntry, Fetch, FetchFails, TakeChange, RecordConflict, WriteChange, WriteFails, Finish,
              SaveFails, storeVars
<1>9. CASE RemoteCreate \/ RemoteEdit \/ RemoteDelete \/ UNCHANGED vars
  BY <1>9, OthersElse DEF vars, storeVars
<1> QED
  BY <1>1, <1>2, <1>3, <1>4, <1>5, <1>6, <1>7, <1>8, <1>9
     DEF Next, UserAction, UserNext, UserStep, ConflictAction

\* A handler that is about to enqueue does, unless it is cut off.
LEMMA HandlerEnqueues ==
  ASSUME TInv, [Next]_vars, user.phase = "enqueue"
  PROVE  UNCHANGED user \/ Enqueue \/ EnqueueFails \/ Crash
<1>1. CASE UserAction
  BY <1>1 DEF UserAction, UserNext, UserStep, CreateEvent, ImportEvent, UpdateEvent, DeleteEvent, Reread,
              DeleteRow, WriteNext
<1>2. CASE ConflictAction
  BY <1>2 DEF ConflictAction, ResolveAcceptRemote, RestoreLocal, KeepLocal
<1>3. ASSUME NEW w \in Workers, StartSync(w) \/ SyncStep(w)
      PROVE  UNCHANGED user
  BY <1>3 DEF SyncStep, StartSync, LoadOutbox, ReadEvent, Push, PushUnread, PushFails, Link, LinkFails,
              ClearEntry, Fetch, FetchFails, TakeChange, RecordConflict, WriteChange, WriteFails, Finish,
              SaveFails, storeVars
<1>4. CASE RemoteCreate \/ RemoteEdit \/ RemoteDelete \/ UNCHANGED vars
  BY <1>4, OthersElse DEF vars, storeVars
<1> QED
  BY <1>1, <1>2, <1>3, <1>4 DEF Next

LEMMA StepHandlerUrls ==
  ASSUME EngineInv, HandlerUrls, [Next]_vars
  PROVE  HandlerUrls'
<1>e. TInv /\ CoverInv /\ UrlInv
  BY DEF EngineInv
<1>t. /\ user \in User /\ lastId \in Nat /\ lastId' \in Nat /\ lastId <= lastId'
      /\ \A r \in rows : r.id \in 1..lastId
      /\ \A q \in rows' : (\E r \in rows : r.id = q.id) \/ q.id = lastId + 1
  BY <1>e, StepTyped, StepRowIds DEF TInv, TypeOK, StoreTypeOK, CoverInv, RowIds
<1>h. /\ user.phase \in {"delete", "enqueue"} /\ user.op = "delete" => user.event \in 1..lastId
      /\ user.phase = "enqueue" /\ user.op = "delete" => ~Exists(user.event)
      /\ user.phase = "delete" => user.op = "delete"
      /\ user.phase = "reread" => user.op = "upsert"
      /\ user.op \in {"upsert", "delete"}
  BY <1>e, <1>t DEF CoverInv, HandlerInStep, User
<1>1. user'.phase \in {"reread", "enqueue"} /\ user'.op = "upsert" => user'.url = NoUrl
  <2>1. CASE user' = user
    BY <2>1 DEF HandlerUrls
  <2>2. CASE user'.op = user.op /\ user'.url = user.url /\ (Reread \/ DeleteRow)
    BY <1>h, <2>2 DEF HandlerUrls, Reread, DeleteRow
  <2> QED
    BY <1>e, <2>1, <2>2, HandlerGoesOn
<1>2. ASSUME user'.phase = "delete", NEW q \in rows', q.id = user'.event
      PROVE  q.url = user'.url \/ (user'.url = NoUrl /\ q.url.made = "local" /\ q.url.event = q.id)
  <2>1. CASE user' = user
    <3>1. q.id \in 1..lastId /\ q.id # lastId + 1
      BY <1>h, <1>t, <1>2, <2>1
    <3>2. \A r \in rows : r.id = q.id =>
            r.url = user.url \/ (user.url = NoUrl /\ r.url.made = "local" /\ r.url.event = r.id)
      BY <1>2, <2>1 DEF HandlerUrls
    <3>3. CASE \E r \in rows : q.id = r.id /\ q.url = r.url
      BY <2>1, <3>2, <3>3
    <3>4. ASSUME NEW w \in Workers, Link(w)
          PROVE  q.url = user'.url \/ (user'.url = NoUrl /\ q.url.made = "local" /\ q.url.event = q.id)
      <4>1. PICK ev \in sent[w], r \in rows : q.id = r.id /\ q.url = IF r.id = ev.id THEN ev.url ELSE r.url
        BY <1>e, <3>4, LinkedRow
      <4>2. r.id = ev.id => r.url = NoUrl /\ ev.url.made = "local" /\ ev.url.event = ev.id
        BY <1>e, <3>4 DEF Link, UrlInv, SentUrls, Sending
      <4>3. NoUrl.made = "none"
        BY DEF NoUrl
      <4> QED
        BY <2>1, <3>2, <4>1, <4>2, <4>3
    <3>5. ASSUME NEW w \in Workers, WriteChange(w)
          PROVE  \E r \in rows : q.id = r.id /\ q.url = r.url
      BY <1>e, <3>1, <3>5, AppliedUrl
    <3> QED
      BY <1>e, <3>1, <3>3, <3>4, <3>5, RowUrls DEF KeptUrl
  <2>2. CASE UNCHANGED rows /\ \E r \in rows : user'.event = r.id /\ user'.url = r.url
    BY <1>e, <1>2, <2>2 DEF CoverInv, RowIds
  <2> QED
    BY <1>e, <1>2, <2>1, <2>2, HandlerGoesOn
<1>3. ASSUME NEW u \in unqueued', u.url # NoUrl
      PROVE  /\ u.event \in 1..lastId' /\ ~Exists(u.event)'
             /\ user'.phase \in {"reread", "delete", "enqueue"} => user'.event # u.event
  <2>1. u.event \in 1..lastId /\ ~Exists(u.event)
    <3>1. CASE u \in unqueued
      BY <1>3, <3>1 DEF HandlerUrls
    <3>2. CASE user.phase \in {"reread", "enqueue"} /\ u.url = user.url /\ u.event = user.event
      BY <1>3, <1>h, <3>2 DEF HandlerUrls
    <3>3. EnqueueFails => user.phase = "enqueue"
      BY DEF EnqueueFails
    <3> QED
      BY <1>e, <1>3, <3>1, <3>2, <3>3, UnqueuedChange
  <2>2. ~Exists(u.event)' /\ u.event \in 1..lastId'
    BY <1>t, <2>1 DEF Exists
  <2>3. ASSUME user'.phase \in {"reread", "delete", "enqueue"}
        PROVE  user'.event # u.event
    <3>1. CASE user.phase \in {"reread", "delete", "enqueue"} /\ user'.event = user.event
      <4>1. CASE u \in unqueued
        BY <1>3, <3>1, <4>1 DEF HandlerUrls
      <4>2. CASE EnqueueFails \/ Crash
        BY <2>3, <4>2 DEF EnqueueFails, Crash, Idle
      <4> QED
        BY <1>e, <1>3, <4>1, <4>2, UnqueuedChange
    <3>2. CASE UpdateEvent(user'.event)
      BY <2>1, <3>2 DEF UpdateEvent
    <3>3. CASE user'.event = lastId + 1
      BY <1>t, <2>1, <3>3
    <3>4. CASE \E r \in rows : user'.event = r.id
      BY <2>1, <3>4 DEF Exists
    <3>5. Reread \/ DeleteRow => user.phase \in {"reread", "delete"}
      BY DEF Reread, DeleteRow
    <3> QED
      BY <1>e, <2>3, <3>1, <3>2, <3>3, <3>4, <3>5, HandlerGoesOn
  <2> QED
    BY <2>2, <2>3
<1> QED
  BY <1>1, <1>2, <1>3 DEF HandlerUrls

\* What is gone stays so while the server has its resource ...
LEMMA GoneStays ==
  ASSUME EngineInv, HandlerUrls, [Next]_vars, NEW url \in Url, Issued(url), url # NoUrl, LiveAt(url), Gone(url)
  PROVE  Gone(url)'
<1>e. TInv /\ CoverInv /\ UrlInv
  BY DEF EngineInv
<1>1. ASSUME NEW e \in outbox, e.op = "delete", e.url = url
      PROVE  Gone(url)'
  BY <1>1, DeletesStay DEF Gone, Leaving
<1>2. CASE user.phase = "enqueue" /\ user.op = "delete" /\ user.url = url
  <2>1. CASE UNCHANGED user
    BY <1>2, <2>1 DEF Gone, Leaving
  <2>2. CASE Enqueue
    <3> DEFINE new == [id |-> lastEntry + 1, event |-> user.event, op |-> user.op, url |-> user.url]
    <3>1. new \in outbox' /\ new.op = "delete" /\ new.url = url
      BY <1>2, <2>2 DEF Enqueue
    <3> HIDE DEF new
    <3> QED
      BY <3>1 DEF Gone, Leaving
  <2>3. CASE EnqueueFails \/ Crash
    <3> DEFINE new == [event |-> user.event, url |-> user.url]
    <3>1. new \in unqueued' /\ new.url = url
      BY <1>2, <2>3 DEF EnqueueFails, Crash, NeverQueued
    <3> HIDE DEF new
    <3> QED
      BY <3>1 DEF Gone
  <2> QED
    BY <1>e, <1>2, <2>1, <2>2, <2>3, HandlerEnqueues
<1>3. CASE url.made = "local" /\ ~Exists(url.event)
  <2>1. url.event \in 1..lastId /\ lastId \in Nat
    BY <1>e, <1>3 DEF Issued, TInv, TypeOK, StoreTypeOK
  <2>2. ~Exists(url.event)'
    BY <1>e, <1>3, <2>1, StepRowIds DEF CoverInv, Exists
  <2> QED
    BY <1>3, <2>2 DEF Gone
<1>4. ASSUME NEW u \in unqueued, u.url = url
      PROVE  Gone(url)'
  <2>1. Enqueue => user.event # u.event
    BY <1>4 DEF Enqueue, HandlerUrls
  <2> QED
    BY <1>e, <1>4, <2>1, UnqueuedChange DEF Gone
<1> QED
  BY <1>1, <1>2, <1>3, <1>4 DEF Gone, Leaving

\* The event that holds a resource is in the store, or gone.
Held(i, url) == Gone(url) \/ \E r \in rows : r.id = i /\ r.url = url

\* ... and what is held stays held or goes.
LEMMA HeldStays ==
  ASSUME EngineInv, HandlerUrls, [Next]_vars, NEW url \in Url, Issued(url), url # NoUrl, LiveAt(url),
         NEW i, Held(i, url),
         \A w \in Workers : pc[w] = "write" /\ cur[w].op = "delete" => ~LiveAt(cur[w].url)
  PROVE  Held(i, url)'
<1>e. TInv /\ CoverInv /\ UrlInv
  BY DEF EngineInv
<1>1. CASE Gone(url)
  BY <1>1, GoneStays DEF Held
<1>2. ASSUME NEW r \in rows, r.id = i, r.url = url
      PROVE  Held(i, url)'
  <2>1. CASE \E q \in rows' : q.id = r.id /\ (r.url # NoUrl => q.url = r.url)
    BY <1>2, <2>1 DEF Held
  <2>2. CASE DeleteRow /\ user.event = r.id
    <3>1. url = user.url \/ (user.url = NoUrl /\ url.made = "local" /\ url.event = i)
      BY <1>2, <2>2 DEF DeleteRow, HandlerUrls
    <3>2. CASE url = user.url
      <4>1. user.op = "delete" /\ user \in User /\ user' = [user EXCEPT !.phase = "enqueue"]
        BY <1>e, <2>2, <3>2 DEF DeleteRow, CoverInv, HandlerInStep, TInv, TypeOK, StoreTypeOK
      <4>2. user'.phase = "enqueue" /\ user'.op = "delete" /\ user'.url = url
        BY <3>2, <4>1 DEF User
      <4> QED
        BY <4>2 DEF Held, Gone, Leaving
    <3>3. CASE url.made = "local" /\ url.event = i
      <4>1. ~Exists(i)'
        BY <1>2, <2>2 DEF DeleteRow, RemoveEvent, Exists
      <4> QED
        BY <3>3, <4>1 DEF Held, Gone
    <3> QED
      BY <3>1, <3>2, <3>3
  <2>3. ASSUME NEW w \in Workers, WriteChange(w), cur[w].op = "delete", r.url = cur[w].url
        PROVE  FALSE
    BY <1>2, <2>3 DEF WriteChange
  <2> QED
    BY <1>e, <2>1, <2>2, <2>3, RowStays
<1> QED
  BY <1>1, <1>2 DEF Held

\* What is written is of one event.
Author(i, content) ==
  /\ \A r \in rows : r.content = content => r.id = i
  /\ \A c \in conflicts : c.local = content => c.event = i
  /\ \A w \in Workers :
       /\ pc[w] = "push" => \A ev \in sent[w] : ev.content = content => ev.id = i
       /\ pc[w] = "conflict" => \A f \in found[w] : f.content = content => f.id = i

\* An edit no server has held is of one event, its copies too.
Authors ==
  /\ \A n \in reached : n <= edits
  /\ \A content \in Content : Unsent(content) => \E i \in Nat : Author(i, content)

LEMMA InitAuthors == Init => Authors
<1> SUFFICES ASSUME Init PROVE Authors
  OBVIOUS
<1>1. /\ \A r \in rows : r.content = Local(0) /\ reached = {0}
      /\ reached \subseteq {0} /\ edits = 0 /\ conflicts = {}
      /\ \A w \in Workers : pc[w] = "idle"
  BY DEF Init
<1>2. Local(0).n = 0
  BY DEF Local
<1>3. \A content : Unsent(content) => Author(0, content)
  BY <1>1, <1>2 DEF Unsent, Author
<1> QED
  BY <1>1, <1>3 DEF Authors

\* What a push makes known to the server.
LEMMA ReachedChange ==
  ASSUME TInv, [Next]_vars
  PROVE  \/ UNCHANGED reached
         \/ \E w \in Workers : pc[w] = "push" /\ \E ev \in sent[w] :
              /\ Put(Target(ev), ev.content, TRUE)
              /\ reached' = reached \union (IF ev.content.by = "local" THEN {ev.content.n} ELSE {})
<1>1. ASSUME NEW w \in Workers, StartSync(w) \/ SyncStep(w)
      PROVE  UNCHANGED reached \/ (pc[w] = "push" /\ ServerTakes(w))
  BY <1>1 DEF SyncStep, StartSync, LoadOutbox, ReadEvent, Push, PushUnread, PushFails, Link, LinkFails,
              ClearEntry, Fetch, FetchFails, TakeChange, RecordConflict, WriteChange, WriteFails, Finish,
              SaveFails
<1>2. ASSUME NEW w \in Workers, ServerTakes(w)
      PROVE  \/ UNCHANGED reached
             \/ \E ev \in sent[w] :
                  /\ Put(Target(ev), ev.content, TRUE)
                  /\ reached' = reached \union (IF ev.content.by = "local" THEN {ev.content.n} ELSE {})
  BY <1>2 DEF ServerTakes
<1>3. CASE UserAction \/ ConflictAction \/ RemoteCreate \/ RemoteEdit \/ RemoteDelete \/ Crash \/ UNCHANGED vars
  BY <1>3 DEF UserAction, ConflictAction, ResolveAcceptRemote, RestoreLocal, KeepLocal, RemoteCreate,
              RemoteEdit, RemoteDelete, OtherClient, Crash, vars
<1> QED
  BY <1>1, <1>2, <1>3 DEF Next

\* A step writes to one event what no server has held: the next edit or a copy.
LEMMA RowsEdited ==
  ASSUME TInv, CoverInv, [Next]_vars
  PROVE  \E i \in Nat : \A q \in rows' :
           \/ \E r \in rows : q.id = r.id /\ q.content = r.content
           \/ HeldByServer(q.content)
           \/ /\ q.id = i
              /\ \/ q.content = Local(edits + 1) /\ edits' = edits + 1
                 \/ \E c \in conflicts : c.event = i /\ c.local = q.content
<1>t. lastId + 1 \in Nat /\ \A c \in conflicts : c.event \in Nat
  BY DEF TInv, TypeOK, StoreTypeOK, Conflict
<1>1. ASSUME \A q \in rows' : (\E r \in rows : q.id = r.id /\ q.content = r.content) \/ HeldByServer(q.content)
      PROVE  \E i \in Nat : \A q \in rows' :
               (\E r \in rows : q.id = r.id /\ q.content = r.content) \/ HeldByServer(q.content)
  BY <1>1
<1>2. CASE CreateEvent \/ ImportEvent
  <2>1. PICK newer : InsertEvent(Local(edits + 1), NoUrl, newer) /\ edits' = edits + 1
    BY <1>2 DEF CreateEvent, ImportEvent, WriteNext
  <2>2. \A q \in rows' : q \in rows \/ (q.id = lastId + 1 /\ q.content = Local(edits + 1))
    BY <2>1, InsertedRow
  <2> QED
    BY <1>t, <2>1, <2>2
<1>3. ASSUME NEW i \in 1..lastId, UpdateEvent(i)
      PROVE  \A q \in rows' : \/ \E r \in rows : q.id = r.id /\ q.content = r.content
                              \/ q.id = i /\ q.content = Local(edits + 1) /\ edits' = edits + 1
  <2>1. PICK newer : WriteContent(i, Local(edits + 1), newer) /\ edits' = edits + 1
    BY <1>3 DEF UpdateEvent, WriteNext
  <2> QED
    BY <2>1, WrittenRow
<1>4. ASSUME NEW c \in conflicts, RestoreLocal(c)
      PROVE  \A q \in rows' : \/ \E r \in rows : q.id = r.id /\ q.content = r.content
                              \/ q.id = c.event /\ q.content = c.local
  <2>1. PICK i, content, newer : WriteContent(i, content, newer) /\ i = c.event /\ content = c.local
    BY <1>4 DEF RestoreLocal
  <2> QED
    BY <2>1, WrittenRow
<1>5. CASE rows' \subseteq rows
  BY <1>1, <1>5
<1>6. CASE UserAction \/ ConflictAction
  <2>1. \/ rows' \subseteq rows \/ CreateEvent \/ ImportEvent \/ (\E i \in 1..lastId : UpdateEvent(i))
        \/ \E c \in conflicts : RestoreLocal(c)
    BY <1>6 DEF UserAction, UserNext, UserStep, DeleteEvent, Reread, DeleteRow, Enqueue, EnqueueFails,
                RemoveEvent, ConflictAction, ResolveAcceptRemote, KeepLocal, storeVars
  <2>2. \A i \in 1..lastId : i \in Nat
    OBVIOUS
  <2> QED
    BY <1>t, <1>2, <1>3, <1>4, <1>5, <2>1, <2>2
<1>7. CASE ~(UserAction \/ ConflictAction)
  <2>1. ASSUME NEW q \in rows'
        PROVE  (\E r \in rows : q.id = r.id /\ q.content = r.content) \/ HeldByServer(q.content)
    BY <1>7, RowContents DEF CoverInv, ServerHasHeld
  <2> QED
    BY <1>1, <2>1
<1> QED
  BY <1>6, <1>7

\* A conflict keeps its event and its copy; a new one is of the row that was found.
LEMMA CopiesOf ==
  ASSUME TInv, [Next]_vars, NEW d \in conflicts'
  PROVE  \/ \E c \in conflicts : d.local = c.local /\ d.event = c.event
         \/ \E w \in Workers : \E f \in found[w] : pc[w] = "conflict" /\ d.local = f.content /\ d.event = f.id
<1>1. ASSUME NEW c \in conflicts, NEW resolution, Resolve(c, resolution)
      PROVE  \E b \in conflicts : d.local = b.local /\ d.event = b.event
  <2> DEFINE new == [c EXCEPT !.resolution = resolution]
  <2>1. new.local = c.local /\ new.event = c.event
    BY DEF TInv, TypeOK, Conflict
  <2>2. conflicts' = (conflicts \ {c}) \union {new}
    BY <1>1 DEF Resolve
  <2> HIDE DEF new
  <2> QED
    BY <2>1, <2>2
<1>2. CASE ConflictAction
  <2>1. UNCHANGED conflicts \/ \E c \in conflicts : \E resolution : Resolve(c, resolution)
    BY <1>2 DEF ConflictAction, ResolveAcceptRemote, RestoreLocal, KeepLocal
  <2> QED
    BY <1>1, <2>1
<1>3. ASSUME NEW w \in Workers, RecordConflict(w)
      PROVE  \/ d \in conflicts
             \/ \E f \in found[w] : pc[w] = "conflict" /\ d.local = f.content /\ d.event = f.id
  <2>1. UNCHANGED conflicts \/ \E f \in found[w] : conflicts' = conflicts \union
          {[id |-> Cardinality(conflicts) + 1, event |-> f.id, local |-> f.content,
            remote |-> cur[w].content, resolution |-> "pending"]}
    BY <1>3 DEF RecordConflict
  <2> QED
    BY <1>3, <2>1 DEF RecordConflict
<1>4. CASE UserAction \/ RemoteCreate \/ RemoteEdit \/ RemoteDelete \/ Crash \/ UNCHANGED vars
  BY <1>4 DEF UserAction, RemoteCreate, RemoteEdit, RemoteDelete, OtherClient, Crash, vars
<1>5. ASSUME NEW w \in Workers, StartSync(w) \/ SyncStep(w)
      PROVE  UNCHANGED conflicts \/ RecordConflict(w)
  BY <1>5 DEF SyncStep, StartSync, LoadOutbox, ReadEvent, Push, PushUnread, PushFails, Link, LinkFails,
              ClearEntry, Fetch, FetchFails, TakeChange, WriteChange, WriteFails, Finish, SaveFails
<1> QED
  BY <1>2, <1>3, <1>4, <1>5 DEF Next

\* What is pushed or found was a row's when it was read.
LEMMA TakenFromRows ==
  ASSUME OneEngine, TInv, LockHeld, [Next]_vars, NEW v \in Workers
  PROVE  /\ pc'[v] = "push" => (pc[v] = "push" /\ sent'[v] = sent[v]) \/ sent'[v] \subseteq rows
         /\ pc'[v] = "conflict" => (pc[v] = "conflict" /\ found'[v] = found[v]) \/ found'[v] \subseteq rows
<1>t. pc \in [Workers -> PCs] /\ sent \in [Workers -> SUBSET Row] /\ found \in [Workers -> SUBSET Row]
  BY DEF TInv, TypeOK
<1>1. CASE UserAction \/ ConflictAction \/ RemoteCreate \/ RemoteEdit \/ RemoteDelete \/ UNCHANGED vars
  BY <1>1, HandlersElse, OthersElse DEF vars, workerVars
<1>2. CASE Crash
  BY <1>2 DEF Crash
<1>3. ASSUME NEW w \in Workers, w # v, StartSync(w) \/ SyncStep(w)
      PROVE  pc'[v] = "idle"
  BY <1>3, Alone
<1>4. CASE StartSync(v) \/ SyncStep(v)
  <2>1. CASE ReadEvent(v)
    <3>1. pc'[v] = "push" => sent'[v] \subseteq rows
      BY <1>t, <2>1 DEF ReadEvent, Goto
    <3>2. pc'[v] # "conflict"
      BY <1>t, <2>1 DEF ReadEvent, Goto
    <3> QED
      BY <3>1, <3>2
  <2>2. CASE TakeChange(v)
    <3>1. pc'[v] # "push"
      BY <1>t, <2>2 DEF TakeChange, Goto
    <3>2. pc'[v] = "conflict" => found'[v] \subseteq rows
      BY <1>t, <2>2 DEF TakeChange, Goto, ByUrl
    <3> QED
      BY <3>1, <3>2
  <2>3. CASE Fetch(v) \/ RecordConflict(v) \/ WriteChange(v) \/ WriteFails(v)
    BY <1>t, <2>3 DEF Fetch, RecordConflict, WriteChange, WriteFails, Applied, Goto
  <2> QED
    BY <1>4, <2>1, <2>2, <2>3, NextPlace DEF Applying
<1> QED
  BY <1>1, <1>2, <1>3, <1>4 DEF Next

LEMMA StepAuthors ==
  ASSUME OneEngine, EngineInv, ContentsKnown, Authors, [Next]_vars
  PROVE  Authors'
<1>e. TInv /\ CoverInv /\ UrlInv /\ LockHeld
  BY DEF EngineInv, UrlInv
<1>t. /\ edits \in Nat /\ edits' \in Nat /\ edits <= edits' /\ reached \subseteq Nat
      /\ \A r \in rows : r.content \in Content /\ r.id \in Nat
      /\ \A c \in conflicts : c.local \in Content
      /\ \A w \in Workers : /\ \A ev \in sent[w] : ev.content \in Content
                            /\ \A f \in found[w] : f.content \in Content
  BY <1>e, CopiesStay DEF TInv, TypeOK, StoreTypeOK, Row, Conflict
<1>k. /\ \A r \in rows : UpTo(edits, r.content)
      /\ \A c \in conflicts : UpTo(edits, c.local)
      /\ \A w \in Workers : /\ pc[w] = "push" => \A ev \in sent[w] : UpTo(edits, ev.content)
                            /\ pc[w] = "conflict" => \A f \in found[w] : UpTo(edits, f.content)
  BY DEF ContentsKnown, Sending
<1>1. ASSUME NEW n \in reached'
      PROVE  n <= edits'
  <2>1. ASSUME n \in reached
        PROVE  n <= edits'
    <3>1. n \in Nat /\ n <= edits
      BY <1>t, <2>1 DEF Authors
    <3> QED
      BY <1>t, <3>1
  <2>2. ASSUME NEW w \in Workers, pc[w] = "push", NEW ev \in sent[w], ev.content.by = "local",
               n = ev.content.n
        PROVE  n <= edits'
    <3>1. n \in Nat /\ n <= edits
      BY <1>t, <1>k, <2>2 DEF UpTo, Content
    <3> QED
      BY <1>t, <3>1
  <2>3. \/ n \in reached
        \/ \E w \in Workers : pc[w] = "push" /\ \E ev \in sent[w] : ev.content.by = "local" /\ n = ev.content.n
    BY <1>e, ReachedChange
  <2> QED
    BY <2>1, <2>2, <2>3
<1>2. ASSUME NEW content \in Content, Unsent(content)'
      PROVE  \E i \in Nat : Author(i, content)'
  <2>1. Unsent(content) /\ ~HeldByServer(content)
    <3>1. reached \subseteq reached'
      BY <1>e, ReachedChange
    <3> QED
      BY <1>2, <3>1 DEF Unsent, HeldByServer
  <2>2. PICK j \in Nat : \A q \in rows' :
           \/ \E r \in rows : q.id = r.id /\ q.content = r.content
           \/ HeldByServer(q.content)
           \/ /\ q.id = j
              /\ \/ q.content = Local(edits + 1) /\ edits' = edits + 1
                 \/ \E c \in conflicts : c.event = j /\ c.local = q.content
    BY <1>e, RowsEdited
  <2>3. ASSUME NEW i \in Nat, Author(i, content), \A q \in rows' : q.content = content => q.id = i
        PROVE  Author(i, content)'
    <3>1. \A d \in conflicts' : d.local = content => d.event = i
      BY <1>e, <2>3, CopiesOf DEF Author
    <3>2. ASSUME NEW w \in Workers
          PROVE  /\ pc'[w] = "push" => \A ev \in sent'[w] : ev.content = content => ev.id = i
                 /\ pc'[w] = "conflict" => \A f \in found'[w] : f.content = content => f.id = i
      BY <1>e, <2>3, TakenFromRows DEF Author
    <3> QED
      BY <2>3, <3>1, <3>2 DEF Author
  <2>4. CASE content.n <= edits
    <3>1. PICK i \in Nat : Author(i, content)
      BY <2>1 DEF Authors
    <3>2. content # Local(edits + 1)
      <4>1. Local(edits + 1).n = edits + 1
        BY DEF Local
      <4> QED
        BY <1>t, <2>4, <4>1
    <3>3. \A q \in rows' : q.content = content => q.id = i
      BY <2>1, <2>2, <3>1, <3>2 DEF Author
    <3> QED
      BY <2>3, <3>1, <3>3
  <2>5. CASE ~(content.n <= edits)
    <3>0. content.by = "local"
      BY <2>1 DEF Unsent
    <3>1. /\ \A r \in rows : r.content # content
          /\ \A c \in conflicts : c.local # content
          /\ \A w \in Workers : /\ pc[w] = "push" => \A ev \in sent[w] : ev.content # content
                                /\ pc[w] = "conflict" => \A f \in found[w] : f.content # content
      BY <1>k, <2>5, <3>0 DEF UpTo
    <3>2. Author(j, content)
      BY <3>1 DEF Author
    <3>3. \A q \in rows' : q.content = content => q.id = j
      BY <2>1, <2>2, <3>1
    <3> QED
      BY <2>3, <3>2, <3>3
  <2> QED
    BY <2>4, <2>5
<1> QED
  BY <1>1, <1>2 DEF Authors

\* An edit no server has held stays so while its resource is as it was.
LEMMA UnsentStays ==
  ASSUME EngineInv, Tokens, Authors, [Next]_vars, NEW r \in rows, Unsent(r.content), r.url # NoUrl,
         NEW s \in server, s \in server', s.url = r.url
  PROVE  Unsent(r.content)'
<1>e. TInv /\ CoverInv /\ UrlInv
  BY DEF EngineInv
<1>1. CASE UNCHANGED reached
  BY <1>1 DEF Unsent
<1>2. ASSUME NEW w \in Workers, pc[w] = "push", NEW ev \in sent[w], Put(Target(ev), ev.content, TRUE),
             ev.content.by = "local", r.content.n = ev.content.n
      PROVE  FALSE
  <2>1. r.content = ev.content /\ r.content \in Content
    BY <1>e, <1>2 DEF Unsent, TInv, TypeOK, StoreTypeOK, Row, Content
  <2>2. PICK i \in Nat : Author(i, r.content)
    BY <2>1 DEF Authors
  <2>3. r.id = ev.id
    BY <1>2, <2>1, <2>2 DEF Author
  <2>4. r.url = ev.url
    BY <1>e, <1>2, <2>3 DEF UrlInv, SentUrls, Sending
  <2>5. Target(ev) = s.url
    BY <1>e, <1>2, <2>4, TargetIssued
  <2>6. s.seq = seq + 1
    <3>1. ASSUME NEW url, NEW content, NEW live, Put(url, content, live)
          PROVE  \A t \in server' : t.url = url => t.seq = seq + 1
      BY <3>1, PutIs
    <3> QED
      BY <1>2, <2>5, <3>1
  <2> QED
    BY <1>e, <2>6 DEF Tokens, TInv, TypeOK
<1> QED
  BY <1>e, <1>1, <1>2, ReachedChange DEF Unsent

InHandler(i) == user.phase \in {"reread", "enqueue"} /\ user.op = "upsert" /\ user.event = i

\* Its last change will not be queued, unless a handler is at it again.
Strayed(i) == Unqueued(i) /\ ~InHandler(i)

\* The row says what the resource says, or what the server has yet to be told.
Shows(r, s) == r.content = s.content \/ Unsent(r.content) \/ Strayed(r.id)

\* Nothing a pull could bring is missing here.
Reflected(s) == Gone(s.url) \/ \E r \in rows : r.url = s.url /\ Shows(r, s)

\* The next edit is one no server has held.
LEMMA NextEdit ==
  ASSUME TInv, Authors
  PROVE  Unsent(Local(edits + 1))
<1>1. edits \in Nat /\ reached \subseteq Nat /\ \A n \in reached : n <= edits
  BY DEF TInv, TypeOK, StoreTypeOK, Authors
<1>2. edits + 1 \notin reached
  BY <1>1
<1>3. Local(edits + 1).by = "local" /\ Local(edits + 1).n = edits + 1
  BY DEF Local
<1> QED
  BY <1>2, <1>3 DEF Unsent

\* Only a handler writes it.
LEMMA HandlerWrites ==
  ASSUME TInv, [Next]_vars, WriteNext
  PROVE  UNCHANGED reached
<1>1. edits' # edits
  BY DEF WriteNext, TInv, TypeOK, StoreTypeOK
<1>2. ASSUME NEW w \in Workers, StartSync(w) \/ SyncStep(w)
      PROVE  UNCHANGED edits
  BY <1>2 DEF SyncStep, StartSync, LoadOutbox, ReadEvent, Push, PushUnread, PushFails, Link, LinkFails,
              ClearEntry, Fetch, FetchFails, TakeChange, RecordConflict, WriteChange, WriteFails, Finish,
              SaveFails, storeVars
<1> QED
  BY <1>1, <1>2 DEF Next, UserAction, ConflictAction, ResolveAcceptRemote, RestoreLocal, KeepLocal, RemoteCreate,
              RemoteEdit, RemoteDelete, OtherClient, Crash, vars, storeVars

LEMMA RewrittenRow ==
  ASSUME TInv, NEW i, NEW content, NEW newer, WriteContent(i, content, newer), NEW q \in rows', q.id = i
  PROVE  q.content = content
<1>1. PICK r \in rows : q = IF r.id = i THEN [r EXCEPT !.content = content, !.newer = newer] ELSE r
  BY DEF WriteContent
<1>2. r \in Row
  BY DEF TInv, TypeOK, StoreTypeOK
<1>3. r.id = i
  BY <1>1, <1>2
<1> QED
  BY <1>1, <1>2, <1>3 DEF Row

\* A stray stays one till its event is edited again.
LEMMA StrayedStays ==
  ASSUME EngineInv, [Next]_vars, NEW r \in rows, Strayed(r.id), ~UpdateEvent(r.id)
  PROVE  Strayed(r.id)'
<1>e. TInv /\ CoverInv
  BY DEF EngineInv
<1>t. lastId \in Nat /\ r.id \in 1..lastId /\ Exists(r.id)
  BY <1>e DEF TInv, TypeOK, StoreTypeOK, CoverInv, RowIds, Exists
<1>1. Unqueued(r.id)'
  <2>1. Enqueue => user.event # r.id
    <3>1. user.op \in {"upsert", "delete"}
      BY <1>e DEF TInv, TypeOK, StoreTypeOK, User
    <3> QED
      BY <1>e, <1>t, <3>1 DEF Enqueue, Strayed, InHandler, CoverInv, HandlerInStep
  <2> QED
    BY <1>e, <2>1, UnqueuedChange DEF Strayed, Unqueued
<1>2. ~InHandler(r.id)'
  <2>1. CASE UNCHANGED user
    BY <2>1 DEF Strayed, InHandler
  <2>2. CASE Reread
    BY <1>e, <2>2, HandlerGoesOn DEF Reread, Strayed, InHandler, CoverInv, HandlerInStep, Idle
  <2>3. CASE DeleteRow
    <3>1. user \in User /\ user.op = "delete"
      BY <1>e, <2>3 DEF DeleteRow, CoverInv, HandlerInStep, TInv, TypeOK, StoreTypeOK
    <3>2. user' = Idle \/ user' = [user EXCEPT !.phase = "enqueue"]
      BY <2>3 DEF DeleteRow
    <3> QED
      BY <3>1, <3>2 DEF User, Idle, InHandler
  <2>4. lastId + 1 # r.id
    BY <1>t
  <2> QED
    BY <1>e, <2>1, <2>2, <2>3, <2>4, HandlerGoesOn DEF InHandler
<1> QED
  BY <1>1, <1>2 DEF Strayed

\* What a step does to what a row says.
LEMMA RowKept ==
  ASSUME EngineInv, [Next]_vars, NEW r \in rows, NEW q \in rows', q.id = r.id
  PROVE  \/ q.content = r.content
         \/ UpdateEvent(r.id)
         \/ \E c \in conflicts : RestoreLocal(c) /\ c.event = r.id
         \/ \E w \in Workers : /\ WriteChange(w) /\ cur[w].op = "upsert"
                               /\ q.content = cur[w].content /\ r.url = cur[w].url
<1>e. TInv /\ CoverInv /\ UrlInv
  BY DEF EngineInv
<1>t. /\ lastId \in Nat /\ r.id \in 1..lastId /\ q.id # lastId + 1
      /\ \A p \in rows : p.id = r.id => p = r
  BY <1>e DEF TInv, TypeOK, StoreTypeOK, CoverInv, RowIds
<1>1. CASE CreateEvent \/ ImportEvent
  <2>1. PICK newer : InsertEvent(Local(edits + 1), NoUrl, newer)
    BY <1>1 DEF CreateEvent, ImportEvent
  <2> QED
    BY <1>t, <2>1, InsertedRow
<1>2. ASSUME NEW i, UpdateEvent(i)
      PROVE  q.content = r.content \/ UpdateEvent(r.id)
  <2>1. PICK newer : WriteContent(i, Local(edits + 1), newer)
    BY <1>2 DEF UpdateEvent
  <2> QED
    BY <1>e, <1>t, <1>2, <2>1, WrittenRow
<1>3. ASSUME NEW c \in conflicts, RestoreLocal(c)
      PROVE  q.content = r.content \/ (RestoreLocal(c) /\ c.event = r.id)
  <2>1. PICK i, content, newer : WriteContent(i, content, newer) /\ i = c.event
    BY <1>3 DEF RestoreLocal
  <2> QED
    BY <1>e, <1>t, <1>3, <2>1, WrittenRow
<1>4. ASSUME NEW w \in Workers, WriteChange(w)
      PROVE  \/ q.content = r.content
             \/ /\ WriteChange(w) /\ cur[w].op = "upsert"
                /\ q.content = cur[w].content /\ r.url = cur[w].url
  <2>1. CASE cur[w].op = "delete"
    BY <1>t, <1>4, <2>1 DEF WriteChange, RemoveEvent
  <2>2. CASE cur[w].op # "delete"
    <3>1. cur[w].op = "upsert"
      BY <1>e, <2>2 DEF TInv, TypeOK, Change
    <3>2. \A f \in found[w] : r.id = f.id => r.url = cur[w].url
      BY <1>e, <1>4 DEF WriteChange, UrlInv, FetchedUrls, Applying
    <3> QED
      BY <1>e, <1>t, <1>4, <3>1, <3>2, AppliedRow
  <2> QED
    BY <2>1, <2>2
<1>5. CASE rows' \subseteq rows
  BY <1>t, <1>5
<1>6. CASE UserAction \/ ConflictAction
  <2>1. \/ rows' \subseteq rows \/ CreateEvent \/ ImportEvent \/ (\E i \in 1..lastId : UpdateEvent(i))
        \/ \E c \in conflicts : RestoreLocal(c)
    BY <1>6 DEF UserAction, UserNext, UserStep, DeleteEvent, Reread, DeleteRow, Enqueue, EnqueueFails,
                RemoveEvent, ConflictAction, ResolveAcceptRemote, KeepLocal, storeVars
  <2> QED
    BY <1>1, <1>2, <1>3, <1>5, <2>1
<1>7. ASSUME NEW w \in Workers, Link(w) \/ Finish(w)
      PROVE  q.content = r.content
  <2>1. CASE Link(w)
    BY <1>e, <1>t, <2>1, LinkedRow
  <2>2. CASE Finish(w)
    BY <1>e, <1>t, <2>2, FinishedRow
  <2> QED
    BY <1>7, <2>1, <2>2
<1>8. CASE RemoteCreate \/ RemoteEdit \/ RemoteDelete \/ Crash \/ UNCHANGED vars
  BY <1>5, <1>8, OthersElse DEF Crash, vars, storeVars
<1> QED
  BY <1>4, <1>5, <1>6, <1>7, <1>8, SyncRow DEF Next

\* What a row shows of a resource it shows after every step, if that only applies
\* what the resource says.
LEMMA ShowsStays ==
  ASSUME EngineInv, Tokens, Authors, [Next]_vars,
         NEW s \in server, s \in server', NEW r \in rows, r.url = s.url, Shows(r, s),
         NEW q \in rows', q.id = r.id,
         \A w \in Workers :
           WriteChange(w) /\ cur[w].op = "upsert" /\ cur[w].url = s.url => cur[w].content = s.content
  PROVE  Shows(q, s)'
<1>e. TInv /\ CoverInv /\ UrlInv
  BY DEF EngineInv
<1>1. CASE UpdateEvent(r.id)
  <2>1. PICK newer : WriteContent(r.id, Local(edits + 1), newer)
    BY <1>1 DEF UpdateEvent
  <2>2. q.content = Local(edits + 1)
    BY <1>e, <2>1, RewrittenRow
  <2>3. UNCHANGED reached
    BY <1>e, <1>1, HandlerWrites DEF UpdateEvent
  <2>4. Unsent(q.content)
    BY <1>e, <2>2, NextEdit
  <2> QED
    BY <2>3, <2>4 DEF Shows, Unsent
<1>2. ASSUME NEW c \in conflicts, RestoreLocal(c), c.event = r.id
      PROVE  Shows(q, s)'
  <2> DEFINE new == [event |-> c.event, url |-> NoUrl]
  <2>1. new \in unqueued' /\ new.event = q.id
    BY <1>2 DEF RestoreLocal, NeverQueued
  <2> HIDE DEF new
  <2>2. user'.phase = "resolve"
    BY <1>2 DEF RestoreLocal, Idle
  <2> QED
    BY <2>1, <2>2 DEF Shows, Strayed, InHandler, Unqueued
<1>3. ASSUME NEW w \in Workers, WriteChange(w), cur[w].op = "upsert", q.content = cur[w].content, r.url = cur[w].url
      PROVE  Shows(q, s)'
  BY <1>3 DEF Shows
<1>4. CASE q.content = r.content
  <2>1. CASE r.content = s.content
    BY <1>4, <2>1 DEF Shows
  <2>2. CASE Unsent(r.content)
    <3>1. r.url # NoUrl
      BY <1>e DEF UrlInv, UrlsIssued
    <3>2. Unsent(r.content)'
      BY <2>2, <3>1, UnsentStays
    <3> QED
      BY <1>4, <3>2 DEF Shows, Unsent
  <2>3. CASE Strayed(r.id) /\ ~UpdateEvent(r.id)
    <3>1. Strayed(r.id)'
      BY <2>3, StrayedStays
    <3> QED
      BY <3>1 DEF Shows, Strayed, Unqueued, InHandler
  <2> QED
    BY <1>1, <2>1, <2>2, <2>3 DEF Shows
<1> QED
  BY <1>1, <1>2, <1>3, <1>4, RowKept

\* What is reflected stays so.
LEMMA ReflectedStays ==
  ASSUME EngineInv, HandlerUrls, Tokens, Authors, [Next]_vars,
         NEW s \in server, s \in server', s.live, Reflected(s),
         \A w \in Workers : pc[w] = "write" /\ cur[w].op = "delete" => ~LiveAt(cur[w].url),
         \A w \in Workers :
           WriteChange(w) /\ cur[w].op = "upsert" /\ cur[w].url = s.url => cur[w].content = s.content
  PROVE  Reflected(s)'
<1>e. TInv /\ CoverInv /\ UrlInv
  BY DEF EngineInv
<1>t. s.url \in Url /\ Issued(s.url) /\ s.url # NoUrl /\ LiveAt(s.url)
  BY <1>e DEF TInv, TypeOK, Resource, UrlInv, UrlsIssued, LiveAt
<1>1. CASE Gone(s.url)
  <2>1. Gone(s.url)'
    BY <1>t, <1>1, GoneStays
  <2> QED
    BY <2>1 DEF Reflected
<1>2. ASSUME NEW r \in rows, r.url = s.url, Shows(r, s)
      PROVE  Reflected(s)'
  <2>1. Held(r.id, s.url)
    BY <1>2 DEF Held
  <2>2. Held(r.id, s.url)'
    BY <1>t, <2>1, HeldStays
  <2>3. ASSUME NEW q \in rows', q.id = r.id, q.url = s.url
        PROVE  Reflected(s)'
    <3>1. Shows(q, s)'
      BY <1>2, <2>3, ShowsStays
    <3> QED
      BY <2>3, <3>1 DEF Reflected
  <2>4. CASE Gone(s.url)'
    BY <2>4 DEF Reflected
  <2> QED
    BY <2>2, <2>3, <2>4 DEF Held
<1> QED
  BY <1>1, <1>2 DEF Reflected

-------------------------------------------------------------------------------
(* A pull.                                                                 *)

\* The changes it has yet to write.
InFlight(w) == changes[w] \union {ch \in {cur[w]} : pc[w] # "apply"}

\* A change says what the new token covers of its resource.
Told(w, ch) ==
  /\ ch.tag = 0
  /\ ch.op = "delete" => ~LiveAt(ch.url)
  /\ ch.op = "upsert" => \A s \in server : s.url = ch.url /\ s.seq < mem[w].token => s.content = ch.content

\* The row that was matched has the resource still, or is gone.
Matched(w) ==
  pc[w] \in {"conflict", "write"} =>
    \A f \in found[w], ch \in {cur[w]} : ch.op = "upsert" /\ LiveAt(ch.url) => Held(f.id, ch.url)

\* What the new token covers is in the store or in a change.
Underway(w) ==
  \A s \in server : s.live /\ s.seq < mem[w].token =>
    Reflected(s) \/ \E ch \in InFlight(w) : ch.op = "upsert" /\ ch.url = s.url

Flight(w) ==
  /\ Matched(w)
  /\ pc[w] \in Applying => Underway(w) /\ \A ch \in InFlight(w) : Told(w, ch)

\* What the saved token covers is in the store.
SavedCovers == \A s \in server : s.live /\ s.seq < saved.token => Reflected(s)

LEMMA ToldStays ==
  ASSUME EngineInv, Tokens, kind # "caldav", [Next]_vars,
         NEW w \in Workers, pc[w] # "idle", mem'[w].token = mem[w].token,
         NEW ch \in Change, Issued(ch.url), Told(w, ch)
  PROVE  Told(w, ch)'
<1>e. TInv /\ CoverInv /\ UrlInv
  BY DEF EngineInv
<1>1. ch.url \in Url
  BY DEF Change
<1>2. ch.op = "delete" => ~LiveAt(ch.url)'
  BY <1>e, <1>1, DeadStays DEF Told
<1>3. ASSUME ch.op = "upsert", NEW s \in server', s.url = ch.url, s.seq < mem'[w].token
      PROVE  s.content = ch.content
  <2>1. ~(seq + 1 < mem[w].token)
    BY <1>e DEF Tokens, TInv, TypeOK, SyncState
  <2>2. s \in server
    BY <1>e, <1>3, <2>1, ServerStays
  <2> QED
    BY <1>3, <2>2 DEF Told
<1> QED
  BY <1>2, <1>3 DEF Told

\* Of what a token covers nothing is new.
LEMMA CoveredBefore ==
  ASSUME TInv, [Next]_vars, NEW t \in Nat, t <= seq + 1, NEW s \in server', s.seq < t
  PROVE  s \in server
<1>1. ~(seq + 1 < t)
  BY DEF TInv, TypeOK
<1> QED
  BY <1>1, ServerStays

\* A pull writes what its changes say, and deletes what has been deleted.
LEMMA WritesTold ==
  ASSUME TInv, NEW w \in Workers, Flight(w)
  PROVE  /\ pc[w] = "write" /\ cur[w].op = "delete" => ~LiveAt(cur[w].url)
         /\ \A s \in server : pc[w] = "write" /\ cur[w].op = "upsert" /\ cur[w].url = s.url /\ s.seq < mem[w].token
              => cur[w].content = s.content
<1>1. pc[w] = "write" => Told(w, cur[w])
  BY DEF Flight, InFlight, Applying
<1> QED
  BY <1>1 DEF Told

\* What a token up to the goroutine's covers and the store has, the store keeps.
LEMMA CoverStays ==
  ASSUME OneEngine, EngineInv, HandlerUrls, Tokens, Authors, \A w \in Workers : Flight(w), [Next]_vars,
         NEW t \in Nat, t <= seq + 1, \A w \in Workers : pc[w] # "idle" => t <= mem[w].token,
         NEW s \in server', s.live, s.seq < t, s \in server => Reflected(s)
  PROVE  Reflected(s)'
<1>e. TInv /\ CoverInv /\ UrlInv
  BY DEF EngineInv
<1>1. s \in server /\ s.seq \in Nat
  BY <1>e, CoveredBefore DEF TInv, TypeOK, Resource
<1>2. \A w \in Workers : pc[w] = "write" /\ cur[w].op = "delete" => ~LiveAt(cur[w].url)
  BY <1>e, WritesTold
<1>3. ASSUME NEW w \in Workers, WriteChange(w), cur[w].op = "upsert", cur[w].url = s.url
      PROVE  cur[w].content = s.content
  <2>1. pc[w] = "write"
    BY <1>3 DEF WriteChange
  <2>2. t <= mem[w].token /\ mem[w].token \in Nat
    BY <1>e, <2>1 DEF TInv, TypeOK, SyncState
  <2>3. s.seq < mem[w].token
    BY <1>1, <2>2
  <2> QED
    BY <1>e, <1>1, <1>3, <2>1, <2>3, WritesTold
<1> QED
  BY <1>1, <1>2, <1>3, ReflectedStays

GraphInv == Tokens /\ SavedCovers /\ \A w \in Workers : Flight(w)

LEMMA OneAtWork ==
  ASSUME OneEngine, LockHeld, NEW v \in Workers, NEW w \in Workers, pc[v] # "idle", pc[w] # "idle"
  PROVE  v = w
  BY DEF OneEngine, LockHeld

\* What a match holds is held till the resource is deleted.
LEMMA HeldKept ==
  ASSUME EngineInv, HandlerUrls, kind # "caldav", \A w \in Workers : Flight(w), [Next]_vars,
         NEW url \in Url, Issued(url), url # NoUrl, LiveAt(url)', NEW i, Held(i, url)
  PROVE  Held(i, url)'
<1>e. TInv /\ CoverInv /\ UrlInv
  BY DEF EngineInv
<1>1. LiveAt(url)
  BY <1>e, DeadStays
<1>2. \A w \in Workers : pc[w] = "write" /\ cur[w].op = "delete" => ~LiveAt(cur[w].url)
  BY <1>e, WritesTold
<1> QED
  BY <1>1, <1>2, HeldStays

\* What the token of a pull covers, after a step.
LEMMA UnderwayKept ==
  ASSUME OneEngine, EngineInv, HandlerUrls, Authors, GraphInv, [Next]_vars,
         NEW w \in Workers, pc[w] \in Applying, NEW s \in server', s.live, s.seq < mem[w].token
  PROVE  /\ s \in server
         /\ Reflected(s)' \/ \E ch \in InFlight(w) : ch.op = "upsert" /\ ch.url = s.url
<1>e. TInv /\ CoverInv /\ UrlInv /\ LockHeld
  BY DEF EngineInv, UrlInv
<1>1. /\ mem[w].token \in Nat /\ mem[w].token <= seq + 1
      /\ \A v \in Workers : pc[v] # "idle" => mem[w].token <= mem[v].token
  BY <1>e, OneAtWork DEF GraphInv, Tokens, TInv, TypeOK, SyncState, Applying
<1>2. s \in server
  BY <1>e, <1>1, CoveredBefore
<1>3. CASE Reflected(s)
  <2> DEFINE t == mem[w].token
  <2>1. /\ t \in Nat /\ t <= seq + 1 /\ s.seq < t
        /\ \A v \in Workers : pc[v] # "idle" => t <= mem[v].token
    BY <1>1
  <2>2. Tokens /\ \A v \in Workers : Flight(v)
    BY DEF GraphInv
  <2> HIDE DEF t
  <2>3. Reflected(s)'
    BY <1>3, <2>1, <2>2, CoverStays
  <2> QED
    BY <1>2, <2>3
<1>4. CASE ~Reflected(s)
  BY <1>2, <1>4 DEF GraphInv, Flight, Underway
<1> QED
  BY <1>2, <1>3, <1>4

LEMMA InFlightIs ==
  ASSUME EngineInv, NEW w \in Workers, pc[w] \in Applying, NEW ch \in InFlight(w)
  PROVE  ch \in Change /\ Issued(ch.url) /\ ch.url # NoUrl
<1>1. changes[w] \subseteq Change /\ cur[w] \in Change
  BY DEF EngineInv, TInv, TypeOK
<1>2. /\ \A c \in changes[w] : Issued(c.url) /\ c.url # NoUrl
      /\ pc[w] # "apply" => Issued(cur[w].url) /\ cur[w].url # NoUrl
  BY DEF EngineInv, UrlInv, FetchedUrls
<1> QED
  BY <1>1, <1>2 DEF InFlight

\* What is in flight after a step of the pull was so before it, and says what it said.
LEMMA StillTold ==
  ASSUME EngineInv, GraphInv, kind # "caldav", [Next]_vars,
         NEW w \in Workers, pc[w] \in Applying, mem'[w].token = mem[w].token, NEW ch \in InFlight(w)
  PROVE  Told(w, ch)'
<1>1. Told(w, ch)
  BY DEF GraphInv, Flight
<1>2. ch \in Change /\ Issued(ch.url)
  BY InFlightIs
<1>3. Tokens /\ pc[w] # "idle"
  BY DEF GraphInv, Applying
<1> QED
  BY <1>1, <1>2, <1>3, ToldStays

\* A match of one change for another step.
LEMMA StillMatched ==
  ASSUME EngineInv, HandlerUrls, GraphInv, kind # "caldav", [Next]_vars,
         NEW w \in Workers, pc[w] \in {"conflict", "write"}, UNCHANGED <<cur[w], found[w]>>
  PROVE  Matched(w)'
<1>1. ASSUME NEW f \in found[w], NEW ch \in {cur[w]}, ch.op = "upsert", LiveAt(ch.url)'
      PROVE  Held(f.id, ch.url)'
  <2>1. ch \in InFlight(w) /\ pc[w] \in Applying
    BY DEF InFlight, Applying
  <2>2. ch.url \in Url /\ Issued(ch.url) /\ ch.url # NoUrl
    BY <2>1, InFlightIs DEF Change
  <2>3. LiveAt(ch.url)
    BY <1>1, <2>2, DeadStays DEF EngineInv
  <2>4. Held(f.id, ch.url)
    BY <2>3, <1>1 DEF GraphInv, Flight, Matched
  <2>5. \A v \in Workers : Flight(v)
    BY DEF GraphInv
  <2> QED
    BY <1>1, <2>2, <2>4, <2>5, HeldKept
<1> QED
  BY <1>1 DEF Matched

\* A pull others step beside.
LEMMA OthersFlight ==
  ASSUME OneEngine, EngineInv, HandlerUrls, Authors, GraphInv, kind # "caldav", [Next]_vars,
         NEW w \in Workers, UNCHANGED <<pc, mem, changes, cur, found>>
  PROVE  Flight(w)'
<1>1. Matched(w)'
  <2>1. CASE pc[w] \in {"conflict", "write"}
    BY <2>1, StillMatched
  <2>2. CASE pc[w] \notin {"conflict", "write"}
    BY <2>2 DEF Matched
  <2> QED
    BY <2>1, <2>2
<1>2. ASSUME pc[w] \in Applying
      PROVE  Underway(w)' /\ \A ch \in InFlight(w) : Told(w, ch)'
  <2>1. Underway(w)'
    BY <1>2, UnderwayKept DEF Underway, InFlight
  <2>2. \A ch \in InFlight(w) : Told(w, ch)'
    BY <1>2, StillTold
  <2> QED
    BY <2>1, <2>2
<1>3. InFlight(w)' = InFlight(w)
  BY DEF InFlight
<1> QED
  BY <1>1, <1>2, <1>3 DEF Flight

\* A delta carries what the token it starts from does not cover; a new one all there is.
LEMMA FetchFlight ==
  ASSUME OneEngine, EngineInv, HandlerUrls, Authors, GraphInv, kind # "caldav", [Next]_vars,
         NEW w \in Workers, Fetch(w)
  PROVE  Flight(w)'
<1>e. TInv /\ CoverInv /\ UrlInv /\ LockHeld
  BY DEF EngineInv, UrlInv
<1>t. /\ pc \in [Workers -> PCs] /\ changes \in [Workers -> SUBSET Change] /\ mem \in [Workers -> SyncState]
      /\ seq \in Nat /\ \A s \in server : s.live \in BOOLEAN /\ s.seq \in Nat /\ s.seq <= seq
  BY <1>e DEF TInv, TypeOK, Resource, GraphInv, Tokens
<1>1. /\ pc[w] = "drain" /\ pc'[w] = "apply" /\ UNCHANGED server /\ mem'[w].token = seq + 1
      /\ changes'[w] \in {GraphChanges(0), GraphChanges(mem[w].token)}
  <2>1. /\ pc[w] = "drain" /\ pc' = [pc EXCEPT ![w] = "apply"] /\ UNCHANGED serverVars
        /\ mem' = [mem EXCEPT ![w].token = seq + 1]
        /\ \/ changes' = [changes EXCEPT ![w] = GraphChanges(mem[w].token)]
           \/ changes' = [changes EXCEPT ![w] = GraphChanges(0)]
    BY DEF Fetch, Goto
  <2>2. mem'[w].token = seq + 1
    BY <1>t, <2>1 DEF SyncState
  <2>3. changes'[w] \in {GraphChanges(0), GraphChanges(mem[w].token)}
    BY <1>t, <2>1
  <2> QED
    BY <1>t, <2>1, <2>2, <2>3 DEF serverVars
<1>2. PICK token \in {0, mem[w].token} : changes'[w] = GraphChanges(token)
  BY <1>1
<1>3. InFlight(w)' = GraphChanges(token)
  BY <1>1, <1>2 DEF InFlight
<1>4. ASSUME NEW ch \in GraphChanges(token)
      PROVE  Told(w, ch)'
  <2>1. PICK s \in server : ch = [op |-> IF s.live THEN "upsert" ELSE "delete", url |-> s.url,
                                  content |-> s.content, tag |-> 0]
    BY <1>4 DEF GraphChanges
  <2>2. ch.url = s.url /\ ch.content = s.content /\ ch.tag = 0 /\ (ch.op = "upsert" <=> s.live)
    BY <1>t, <2>1
  <2>3. \A t \in server : t.url = ch.url => t = s
    BY <1>e, <2>2 DEF UrlInv, OnePerUrl
  <2>4. ch.op = "delete" => ~LiveAt(ch.url)
    <3>1. ch.op = "delete" => ~s.live
      BY <2>2
    <3> QED
      BY <2>3, <3>1 DEF LiveAt
  <2> QED
    BY <1>1, <2>2, <2>3, <2>4 DEF Told, LiveAt
<1>5. ASSUME NEW s \in server, s.live
      PROVE  Reflected(s)' \/ \E ch \in GraphChanges(token) : ch.op = "upsert" /\ ch.url = s.url
  <2>1. CASE token = 0 \/ s.seq >= token
    <3> DEFINE ch == [op |-> IF s.live THEN "upsert" ELSE "delete", url |-> s.url,
                      content |-> s.content, tag |-> 0]
    <3>1. ch \in GraphChanges(token)
      BY <1>5, <2>1 DEF GraphChanges
    <3>2. ch.op = "upsert" /\ ch.url = s.url
      BY <1>5
    <3> HIDE DEF ch
    <3> QED
      BY <3>1, <3>2
  <2>2. CASE token # 0 /\ ~(s.seq >= token)
    <3>1. token = mem[w].token /\ mem[w].token = saved.token /\ saved.token \in Nat
      BY <1>1, <1>e, <2>2 DEF GraphInv, Tokens, Applying, TInv, TypeOK, SyncState
    <3>2. s.seq < saved.token
      BY <1>t, <2>2, <3>1
    <3>3. Reflected(s)
      BY <1>5, <3>2 DEF GraphInv, SavedCovers
    <3>4. \A v \in Workers : pc[v] # "idle" => v = w
      BY <1>1, <1>e, OneAtWork
    <3>5. \A v \in Workers : pc[v] # "write"
      BY <1>1, <3>4
    <3>6. Reflected(s)'
      BY <1>1, <1>5, <3>3, <3>5, ReflectedStays DEF GraphInv, WriteChange
    <3> QED
      BY <3>6
  <2> QED
    BY <2>1, <2>2
<1>6. Underway(w)'
  <2>1. \A s \in server' : s.live =>
          Reflected(s)' \/ \E ch \in InFlight(w)' : ch.op = "upsert" /\ ch.url = s.url
    BY <1>1, <1>3, <1>5
  <2> QED
    BY <2>1 DEF Underway
<1>7. Matched(w)'
  BY <1>1 DEF Matched
<1> QED
  BY <1>3, <1>4, <1>6, <1>7 DEF Flight

\* What a change names is looked for in the store.
LEMMA TakeFlight ==
  ASSUME OneEngine, EngineInv, HandlerUrls, Authors, GraphInv, kind # "caldav", [Next]_vars,
         NEW w \in Workers, TakeChange(w)
  PROVE  Flight(w)'
<1>e. TInv /\ CoverInv /\ UrlInv /\ LockHeld
  BY DEF EngineInv, UrlInv
<1>t. /\ pc \in [Workers -> PCs] /\ changes \in [Workers -> SUBSET Change] /\ cur \in [Workers -> Change]
      /\ found \in [Workers -> SUBSET Row]
  BY <1>e DEF TInv, TypeOK
<1>1. pc[w] = "apply" /\ InFlight(w) = changes[w] /\ UNCHANGED <<mem, rows>>
  BY DEF TakeChange, InFlight, storeVars
<1>a. pc[w] \in Applying
  BY <1>1 DEF Applying
<1>2. PICK ch \in changes[w] :
        /\ changes'[w] = changes[w] \ {ch}
        /\ \/ UNCHANGED <<pc, cur, found>> /\ ((ch.op = "upsert" /\ ch.tag # 0) \/ ch.op = "delete")
           \/ cur'[w] = ch /\ found'[w] = ByUrl(ch.url) /\ pc'[w] \in {"conflict", "write"}
  BY <1>t DEF TakeChange, Goto
<1>3. Told(w, ch)
  BY <1>1, <1>2, <1>a DEF GraphInv, Flight
<1>4. \/ /\ pc'[w] = "apply" /\ InFlight(w)' = changes[w] \ {ch} /\ ch.op = "delete"
      \/ /\ pc'[w] \in {"conflict", "write"} /\ InFlight(w)' = changes[w]
         /\ cur'[w] = ch /\ found'[w] = ByUrl(ch.url)
  <2>1. CASE UNCHANGED <<pc, cur, found>> /\ ((ch.op = "upsert" /\ ch.tag # 0) \/ ch.op = "delete")
    BY <1>1, <1>2, <1>3, <2>1 DEF InFlight, Told
  <2>2. CASE cur'[w] = ch /\ found'[w] = ByUrl(ch.url) /\ pc'[w] \in {"conflict", "write"}
    <3>1. InFlight(w)' = (changes[w] \ {ch}) \union {ch}
      BY <1>2, <2>2 DEF InFlight
    <3> QED
      BY <1>2, <2>2, <3>1
  <2> QED
    BY <1>2, <2>1, <2>2
<1>5. Matched(w)'
  <2>1. ASSUME NEW f \in ByUrl(ch.url)
        PROVE  Held(f.id, ch.url)'
    BY <1>1, <2>1 DEF Held, ByUrl
  <2> QED
    BY <1>4, <2>1 DEF Matched
<1>6. Underway(w)'
  <2>1. ASSUME NEW s \in server', s.live, s.seq < mem[w].token
        PROVE  Reflected(s)' \/ \E c \in InFlight(w)' : c.op = "upsert" /\ c.url = s.url
    <3>1. Reflected(s)' \/ \E c \in changes[w] : c.op = "upsert" /\ c.url = s.url
      BY <1>1, <1>a, <2>1, UnderwayKept
    <3> QED
      BY <1>4, <3>1
  <2> QED
    BY <1>1, <2>1 DEF Underway
<1>7. \A c \in InFlight(w)' : Told(w, c)'
  <2>1. \A c \in InFlight(w) : Told(w, c)'
    BY <1>1, <1>a, StillTold
  <2> QED
    BY <1>1, <1>4, <2>1
<1> QED
  BY <1>5, <1>6, <1>7 DEF Flight

LEMMA RecordFlight ==
  ASSUME OneEngine, EngineInv, HandlerUrls, Authors, GraphInv, kind # "caldav", [Next]_vars,
         NEW w \in Workers, RecordConflict(w)
  PROVE  Flight(w)'
<1>t. pc \in [Workers -> PCs]
  BY DEF EngineInv, TInv, TypeOK
<1>1. /\ pc[w] = "conflict" /\ pc'[w] = "write" /\ UNCHANGED <<mem, changes, cur, found>>
      /\ pc[w] \in Applying
  BY <1>t DEF RecordConflict, Goto, Applying
<1>2. Matched(w)'
  BY <1>1, StillMatched
<1>3. InFlight(w)' = InFlight(w)
  BY <1>1 DEF InFlight
<1>4. \A ch \in InFlight(w) : Told(w, ch)'
  BY <1>1, StillTold
<1>5. Underway(w)'
  <2>1. ASSUME NEW s \in server', s.live, s.seq < mem[w].token
        PROVE  Reflected(s)' \/ \E c \in InFlight(w)' : c.op = "upsert" /\ c.url = s.url
    BY <1>1, <1>3, <2>1, UnderwayKept
  <2> QED
    BY <1>1, <2>1 DEF Underway
<1> QED
  BY <1>2, <1>3, <1>4, <1>5 DEF Flight

\* What a change says is in the store once it is written.
LEMMA WrittenShows ==
  ASSUME EngineInv, HandlerUrls, GraphInv, [Next]_vars, NEW w \in Workers, WriteChange(w),
         cur[w].op = "upsert", NEW s \in server, s.live, s.url = cur[w].url, s.seq < mem[w].token
  PROVE  Reflected(s)'
<1>e. TInv /\ CoverInv /\ UrlInv
  BY DEF EngineInv
<1>1. pc[w] = "write" /\ pc[w] \in Applying /\ cur[w] \in InFlight(w)
  BY DEF WriteChange, InFlight, Applying
<1>2. cur[w].content = s.content
  BY <1>1 DEF GraphInv, Flight, Told
<1>3. CASE InsertEvent(cur[w].content, cur[w].url, TRUE)
  <2> DEFINE new == [id |-> lastId + 1, content |-> cur[w].content, url |-> cur[w].url, newer |-> TRUE]
  <2>1. new \in rows' /\ new.content = s.content /\ new.url = s.url
    BY <1>2, <1>3 DEF InsertEvent
  <2> HIDE DEF new
  <2> QED
    BY <2>1 DEF Reflected, Shows
<1>4. ASSUME NEW f \in found[w], WriteContent(f.id, cur[w].content, TRUE)
      PROVE  Reflected(s)'
  <2>1. s.url \in Url /\ Issued(s.url) /\ s.url # NoUrl /\ LiveAt(s.url)
    BY <1>e DEF TInv, TypeOK, Resource, UrlInv, UrlsIssued, LiveAt
  <2>2. Held(f.id, s.url)
    BY <1>1, <2>1 DEF GraphInv, Flight, Matched
  <2>3. CASE Gone(s.url)
    <3>1. Gone(s.url)'
      BY <2>1, <2>3, GoneStays
    <3> QED
      BY <3>1 DEF Reflected
  <2>4. ASSUME NEW r \in rows, r.id = f.id, r.url = s.url
        PROVE  Reflected(s)'
    <3> DEFINE new == [r EXCEPT !.content = cur[w].content, !.newer = TRUE]
    <3>1. new.content = cur[w].content /\ new.url = r.url
      BY <1>e DEF TInv, TypeOK, StoreTypeOK, Row
    <3>2. new \in rows'
      BY <1>4, <2>4 DEF WriteContent
    <3> HIDE DEF new
    <3> QED
      BY <1>2, <2>4, <3>1, <3>2 DEF Reflected, Shows
  <2> QED
    BY <2>2, <2>3, <2>4 DEF Held
<1> QED
  BY <1>3, <1>4 DEF WriteChange

LEMMA WriteFlight ==
  ASSUME OneEngine, EngineInv, HandlerUrls, Authors, GraphInv, kind # "caldav", [Next]_vars,
         NEW w \in Workers, WriteChange(w)
  PROVE  Flight(w)'
<1>t. pc \in [Workers -> PCs] /\ TInv
  BY DEF EngineInv, TInv, TypeOK
<1>1. /\ pc[w] = "write" /\ pc'[w] = "apply" /\ UNCHANGED <<server, changes>> /\ pc[w] \in Applying
      /\ cur[w].op \in {"upsert", "delete"}
  BY <1>t DEF WriteChange, Applied, Goto, Applying, serverVars, TInv, TypeOK, Change
<1>2. mem'[w].token = mem[w].token
  <2>1. ~StartSync(w) /\ ~Fetch(w)
    BY <1>1 DEF StartSync, Fetch
  <2> QED
    BY <1>t, <1>1, <2>1, NextToken DEF SyncStep
<1>3. InFlight(w)' = changes[w] /\ changes[w] \subseteq InFlight(w)
  BY <1>1 DEF InFlight
<1>4. \A ch \in changes[w] : Told(w, ch)'
  BY <1>1, <1>2, <1>3, StillTold
<1>5. ASSUME NEW s \in server, s.live, s.seq < mem[w].token
      PROVE  Reflected(s)' \/ \E ch \in changes[w] : ch.op = "upsert" /\ ch.url = s.url
  <2>1. CASE cur[w].op = "upsert" /\ cur[w].url = s.url
    BY <1>5, <2>1, WrittenShows
  <2>2. CASE ~(cur[w].op = "upsert" /\ cur[w].url = s.url)
    <3>1. Reflected(s)' \/ \E ch \in InFlight(w) : ch.op = "upsert" /\ ch.url = s.url
      BY <1>1, <1>5, UnderwayKept
    <3> QED
      BY <2>2, <3>1 DEF InFlight
  <2> QED
    BY <2>1, <2>2
<1>6. Underway(w)'
  <2>1. \A s \in server' : s.live /\ s.seq < mem'[w].token =>
          Reflected(s)' \/ \E ch \in InFlight(w)' : ch.op = "upsert" /\ ch.url = s.url
    BY <1>1, <1>2, <1>3, <1>5
  <2> QED
    BY <2>1 DEF Underway
<1>7. Matched(w)'
  BY <1>1 DEF Matched
<1> QED
  BY <1>3, <1>4, <1>6, <1>7 DEF Flight

\* No statement that writes a fetched change fails.
EachIsWritten == \A w \in Workers : ~WriteFails(w)

LEMMA StepFlight ==
  ASSUME OneEngine, [EachIsWritten]_vars, EngineInv, HandlerUrls, Authors, GraphInv, kind # "caldav",
         [Next]_vars, NEW w \in Workers
  PROVE  Flight(w)'
<1>e. TInv /\ LockHeld
  BY DEF EngineInv, UrlInv
<1>1. ASSUME pc'[w] \notin Applying
      PROVE  Flight(w)'
  BY <1>1 DEF Flight, Matched, Applying
<1>2. CASE UserAction \/ ConflictAction \/ RemoteCreate \/ RemoteEdit \/ RemoteDelete \/ UNCHANGED vars
  <2>1. UNCHANGED <<pc, mem, changes, cur, found>>
    BY <1>2, HandlersElse, OthersElse, <1>e DEF vars, workerVars, UserAction, ConflictAction,
       ResolveAcceptRemote, RestoreLocal, KeepLocal, RemoteCreate, RemoteEdit, RemoteDelete, OtherClient
  <2> QED
    BY <2>1, OthersFlight
<1>3. CASE Crash
  <2>1. pc'[w] = "idle"
    BY <1>3 DEF Crash
  <2> QED
    BY <1>1, <2>1 DEF Applying
<1>4. ASSUME NEW v \in Workers, v # w, StartSync(v) \/ SyncStep(v)
      PROVE  Flight(w)'
  <2>1. pc'[w] = "idle"
    BY <1>e, <1>4, Alone
  <2> QED
    BY <1>1, <2>1 DEF Applying
<1>5. CASE StartSync(w) \/ SyncStep(w)
  <2>1. ~WriteFails(w) \/ UNCHANGED vars
    BY DEF EachIsWritten
  <2> QED
    BY <1>e, <1>1, <1>2, <1>5, <2>1, NextPlace, FetchFlight, TakeFlight, RecordFlight, WriteFlight
<1> QED
  BY <1>2, <1>3, <1>4, <1>5 DEF Next

LEMMA StepSaved ==
  ASSUME OneEngine, EngineInv, HandlerUrls, Authors, GraphInv, kind # "caldav", [Next]_vars
  PROVE  SavedCovers'
<1>e. TInv /\ LockHeld /\ Tokens /\ \A w \in Workers : Flight(w)
  BY DEF EngineInv, UrlInv, GraphInv
<1>1. CASE UNCHANGED saved
  <2> DEFINE t == saved.token
  <2>1. t \in Nat /\ t <= seq + 1 /\ \A w \in Workers : pc[w] # "idle" => t <= mem[w].token
    BY <1>e DEF Tokens, TInv, TypeOK, SyncState
  <2>2. \A s \in server : s.live /\ s.seq < t => Reflected(s)
    BY DEF GraphInv, SavedCovers
  <2> HIDE DEF t
  <2>3. \A s \in server' : s.live /\ s.seq < t => Reflected(s)'
    BY <1>e, <2>1, <2>2, CoverStays
  <2>4. t = saved'.token
    BY <1>1 DEF t
  <2> QED
    BY <2>3, <2>4 DEF SavedCovers
<1>2. ASSUME NEW w \in Workers, Finish(w), saved'.token = mem[w].token
      PROVE  SavedCovers'
  <2>1. pc[w] \in Applying /\ InFlight(w) = {}
    BY <1>2 DEF Finish, InFlight, Applying
  <2>2. \A s \in server' : s.live /\ s.seq < mem[w].token => Reflected(s)'
    BY <2>1, UnderwayKept
  <2> QED
    BY <1>2, <2>2 DEF SavedCovers
<1> QED
  BY <1>e, <1>1, <1>2, SavedChange

\* CalDAV gets no token.
NoTokens == saved.token = 0 /\ \A w \in Workers : pc[w] # "idle" => mem[w].token = 0

LEMMA StepNoTokens ==
  ASSUME OneEngine, TInv, LockHeld, NoTokens, kind = "caldav", [Next]_vars
  PROVE  NoTokens'
<1>1. saved'.token = 0
  BY SavedChange DEF NoTokens, Finish
<1>2. CASE UserAction \/ ConflictAction \/ RemoteCreate \/ RemoteEdit \/ RemoteDelete \/ UNCHANGED vars
  <2>1. UNCHANGED <<pc, mem>>
    BY <1>2, HandlersElse, OthersElse DEF vars, workerVars, UserAction, ConflictAction, ResolveAcceptRemote,
       RestoreLocal, KeepLocal, RemoteCreate, RemoteEdit, RemoteDelete, OtherClient
  <2> QED
    BY <1>1, <2>1 DEF NoTokens
<1>3. CASE Crash
  BY <1>1, <1>3 DEF Crash, NoTokens
<1>4. ASSUME NEW w \in Workers, StartSync(w) \/ SyncStep(w)
      PROVE  NoTokens'
  <2>1. \A v \in Workers : v # w => pc'[v] = "idle"
    BY <1>4, Alone
  <2>2. pc'[w] # "idle" => mem'[w].token = 0
    <3>1. Fetch(w) => pc[w] # "idle"
      BY DEF Fetch
    <3> QED
      BY <1>4, <3>1, NextToken DEF NoTokens
  <2> QED
    BY <1>1, <2>1, <2>2 DEF NoTokens
<1> QED
  BY <1>2, <1>3, <1>4 DEF Next

SkipInv ==
  /\ Authors /\ HandlerUrls
  /\ kind = "caldav" => NoTokens
  /\ kind # "caldav" => GraphInv

LEMMA InitSkip == Init => SkipInv
<1> SUFFICES ASSUME Init PROVE SkipInv
  OBVIOUS
<1>1. \A w \in Workers : pc[w] = "idle"
  BY DEF Init
<1>2. \A w \in Workers : Flight(w)
  BY <1>1 DEF Flight, Matched, Applying
<1>3. kind = "caldav" => NoTokens
  <2>1. kind = "caldav" => saved.token = 0
    BY DEF Init, NoState
  <2> QED
    BY <1>1, <2>1 DEF NoTokens
<1>4. SavedCovers
  <2>1. CASE server = {}
    BY <2>1 DEF SavedCovers
  <2>2. ASSUME NEW url, rows = {[id |-> 1, content |-> Local(0), url |-> url, newer |-> FALSE]},
               server = {[url |-> url, content |-> Local(0), seq |-> 1, live |-> TRUE]}
        PROVE  SavedCovers
    BY <2>2 DEF SavedCovers, Reflected, Shows
  <2> DEFINE url == [made |-> "local", event |-> 1, n |-> IF kind = "caldav" THEN 0 ELSE 1]
  <2>3. \/ server = {}
        \/ /\ rows = {[id |-> 1, content |-> Local(0), url |-> url, newer |-> FALSE]}
           /\ server = {[url |-> url, content |-> Local(0), seq |-> 1, live |-> TRUE]}
    BY DEF Init
  <2> HIDE DEF url
  <2> QED
    BY <2>1, <2>2, <2>3
<1> QED
  BY <1>2, <1>3, <1>4, InitAuthors, InitHandlerUrls, InitTokens DEF SkipInv, GraphInv

LEMMA StepSkip ==
  ASSUME OneEngine, [EachIsWritten]_vars, EngineInv, OrderInv, SkipInv, [Next]_vars
  PROVE  SkipInv'
<1>e. TInv /\ LockHeld /\ Authors /\ HandlerUrls /\ ContentsKnown
  BY DEF EngineInv, UrlInv, SkipInv, OrderInv
<1>1. UNCHANGED kind
  BY DEF Next, vars
<1>2. Authors' /\ HandlerUrls'
  BY <1>e, StepAuthors, StepHandlerUrls
<1>3. kind = "caldav" => NoTokens'
  BY <1>e, StepNoTokens DEF SkipInv
<1>4. ASSUME kind # "caldav"
      PROVE  GraphInv'
  <2>1. GraphInv /\ Tokens
    BY <1>4 DEF SkipInv, GraphInv
  <2>2. Tokens' /\ SavedCovers'
    BY <1>e, <1>4, <2>1, StepTokens, StepSaved
  <2>3. \A w \in Workers : Flight(w)'
    BY <1>e, <1>4, <2>1, StepFlight
  <2> QED
    BY <2>2, <2>3 DEF GraphInv
<1> QED
  BY <1>1, <1>2, <1>3, <1>4 DEF SkipInv

\* What is reflected is not skipped.
LEMMA SkipSafe == ASSUME TInv, SkipInv PROVE NothingSkipped
<1> SUFFICES ASSUME NEW s \in server, s.live, s.seq < saved.token
             PROVE  \/ \E r \in rows : r.url = s.url /\ (r.content = s.content \/ Unsent(r.content))
                    \/ Leaving(s.url) \/ Estranged(s.url)
  BY DEF NothingSkipped
<1>1. kind # "caldav"
  BY DEF SkipInv, NoTokens, TInv, TypeOK, Resource
<1>2. Reflected(s)
  BY <1>1 DEF SkipInv, GraphInv, SavedCovers
<1>3. CASE Gone(s.url)
  BY <1>3 DEF Gone, Estranged
<1>4. ASSUME NEW r \in rows, r.url = s.url, Shows(r, s)
      PROVE  \/ \E q \in rows : q.url = s.url /\ (q.content = s.content \/ Unsent(q.content))
             \/ Estranged(s.url)
  BY <1>4 DEF Shows, Strayed, Unqueued, Estranged
<1> QED
  BY <1>2, <1>3, <1>4 DEF Reflected

(* With one engine, and whatever fails but the writing of a fetched change *)
(* (applyChange, which only logs it), the saved delta token covers nothing *)
(* the store has not got: no remote change is skipped.                     *)
THEOREM NoChangeIsSkipped == OneEngine /\ Spec /\ [][EachIsWritten]_vars => []NothingSkipped
<1> SUFFICES ASSUME OneEngine PROVE Spec /\ [][EachIsWritten]_vars => []NothingSkipped
  OBVIOUS
<1> DEFINE Inv == EngineInv /\ OrderInv /\ SkipInv
<1>1. Init => Inv
  BY InitTyped, InitCover, InitUrl, InitOrder, InitSkip DEF EngineInv
<1>2. Inv /\ [Next]_vars /\ [EachIsWritten]_vars => Inv'
  BY StepTyped, StepCover, StepUrl, StepOrder, StepSkip DEF EngineInv
<1>3. Inv => NothingSkipped
  BY SkipSafe DEF EngineInv
<1> QED
  BY <1>1, <1>2, <1>3, PTL DEF Spec
================================================================================
