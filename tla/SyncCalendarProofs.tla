--------------------------- MODULE SyncCalendarProofs ---------------------------
(***************************************************************************)
(* Proofs about SyncCalendar, for any number of goroutines and engines,    *)
(* either adapter, any failures and any other clients: an edit the user    *)
(* has made is on the server or on its way.                                *)
(***************************************************************************)
EXTENDS SyncCalendar, FiniteSetTheorems, TLAPS

-------------------------------------------------------------------------------
(* The type invariant.                                                     *)

TInv == TypeOK /\ IsFiniteSet(conflicts)

LEMMA Typeful == NoUrl \in Url /\ Idle \in User /\ NoState \in SyncState /\ NoChange \in Change
                 /\ \A n \in Nat : Local(n) \in Content /\ Remote(n) \in Content
<1>1. NoUrl \in Url
  BY DEF NoUrl, Url
<1>2. \A n \in Nat : Local(n) \in Content /\ Remote(n) \in Content
  BY DEF Local, Remote, Content
<1>3. Remote(0) \in Content
  BY <1>2
<1>4. Idle \in User
  BY <1>1 DEF Idle, User
<1>5. NoState \in SyncState
  BY DEF NoState, SyncState
<1>6. NoChange \in Change
  BY <1>1, <1>3 DEF NoChange, Change
<1> QED
  BY <1>1, <1>2, <1>4, <1>5, <1>6

LEMMA WithTagTyped ==
  ASSUME NEW state \in SyncState, NEW url, NEW tag \in Nat, tag = 0 \/ url \in Url
  PROVE  WithTag(state, url, tag) \in SyncState
  BY DEF WithTag, SyncState

LEMMA PutTyped ==
  ASSUME server \subseteq Resource, seq \in Nat, NEW url \in Url, NEW content \in Content,
         NEW live \in BOOLEAN, Put(url, content, live)
  PROVE  server' \subseteq Resource /\ seq' \in Nat
<1> DEFINE new == [url |-> url, content |-> content, seq |-> seq + 1, live |-> live]
<1>1. new \in Resource /\ seq + 1 \in Nat
  BY DEF Resource
<1>2. server' = {s \in server : s.url # url} \union {new} /\ seq' = seq + 1
  BY DEF Put
<1> HIDE DEF new
<1> QED
  BY <1>1, <1>2

LEMMA TargetTyped ==
  ASSUME seq \in Nat, NEW ev \in Row
  PROVE  Target(ev) \in Url
  BY DEF Target, Row, Url

LEMMA FetchTyped ==
  ASSUME server \subseteq Resource, NEW state, NEW token
  PROVE  CalDAVChanges(state) \subseteq Change /\ GraphChanges(token) \subseteq Change
<1>1. \A s \in server : s.url \in Url /\ s.content \in Content /\ s.seq \in Nat
  BY DEF Resource
<1>2. CalDAVChanges(state) \subseteq Change
  BY <1>1 DEF CalDAVChanges, Change
<1>3. GraphChanges(token) \subseteq Change
  BY <1>1 DEF GraphChanges, Change
<1> QED
  BY <1>2, <1>3

LEMMA InsertTyped ==
  ASSUME rows \subseteq Row, lastId \in Nat, NEW content \in Content, NEW url \in Url,
         NEW newer \in BOOLEAN, InsertEvent(content, url, newer)
  PROVE  rows' \subseteq Row /\ lastId' \in Nat
<1> DEFINE new == [id |-> lastId + 1, content |-> content, url |-> url, newer |-> newer]
<1>1. new \in Row /\ lastId + 1 \in Nat
  BY DEF Row
<1>2. rows' = rows \union {new} /\ lastId' = lastId + 1
  BY DEF InsertEvent
<1> HIDE DEF new
<1> QED
  BY <1>1, <1>2

LEMMA WriteTyped ==
  ASSUME rows \subseteq Row, NEW i, NEW content \in Content, NEW newer \in BOOLEAN,
         WriteContent(i, content, newer)
  PROVE  rows' \subseteq Row
<1>1. \A r \in rows : [r EXCEPT !.content = content, !.newer = newer] \in Row
  BY DEF Row
<1> QED
  BY <1>1 DEF WriteContent

LEMMA TakenTyped ==
  ASSUME TypeOK, NEW w \in Workers, ServerTakes(w)
  PROVE  server' \subseteq Resource /\ seq' \in Nat /\ reached' \subseteq Nat
<1>1. \A s \in server : s.url \in Url /\ s.content \in Content
  BY DEF TypeOK, Resource
<1>2. \A ev \in sent[w] : Target(ev) \in Url /\ ev.content \in Content /\ ev.content.n \in Nat
  BY TargetTyped DEF TypeOK, Row, Content
<1>3. CASE \E s \in server : s.url = Head(todo[w]).url /\ Put(Head(todo[w]).url, s.content, FALSE)
           /\ UNCHANGED reached
  BY <1>1, <1>3, PutTyped DEF TypeOK
<1>4. CASE \E ev \in sent[w] :
             /\ Put(Target(ev), ev.content, TRUE)
             /\ reached' = reached \union (IF ev.content.by = "local" THEN {ev.content.n} ELSE {})
  BY <1>2, <1>4, PutTyped DEF TypeOK
<1> QED
  BY <1>3, <1>4 DEF ServerTakes

LEMMA InitTyped == Init => TInv
<1> SUFFICES ASSUME Init PROVE TInv
  OBVIOUS
<1>1. IsFiniteSet(conflicts)
  BY FS_EmptySet DEF Init
<1>2. /\ outbox \subseteq Entry /\ lastEntry \in Nat /\ user \in User /\ edits \in 0..MaxEdits
      /\ faults \in 0..MaxFaults /\ unqueued \subseteq [event : Nat, url : Url]
      /\ redits \in 0..MaxRemote /\ conflicts \subseteq Conflict /\ kind \in Kinds
  BY BoundsAssumption, RemoteAssumption, Typeful DEF Init
<1>3. /\ lock \in [{EngineOf[w] : w \in Workers} -> Workers \union {None}]
      /\ pc \in [Workers -> PCs]
      /\ mem \in [Workers -> SyncState]
      /\ todo \in [Workers -> SUBSET Entry]
      /\ sent \in [Workers -> SUBSET Row]
      /\ changes \in [Workers -> SUBSET Change]
      /\ cur \in [Workers -> Change]
      /\ found \in [Workers -> SUBSET Row]
  BY Typeful DEF Init, PCs
<1>4. rows \subseteq Row /\ lastId \in Nat /\ server \subseteq Resource /\ seq \in Nat
      /\ saved \in SyncState /\ reached \subseteq Nat
  <2>1. CASE rows = {} /\ lastId = 0 /\ reached = {} /\ server = {} /\ seq = 0 /\ saved = NoState
    BY <2>1, Typeful
  <2>2. ASSUME NEW url \in Url,
               rows = {[id |-> 1, content |-> Local(0), url |-> url, newer |-> FALSE]},
               lastId = 1, reached = {0},
               server = {[url |-> url, content |-> Local(0), seq |-> 1, live |-> TRUE]},
               seq = 1,
               saved = [etags |-> IF kind = "caldav" THEN {[url |-> url, tag |-> 1]} ELSE {},
                        token |-> IF kind = "caldav" THEN 0 ELSE 2, synced |-> TRUE]
        PROVE  /\ rows \subseteq Row /\ lastId \in Nat /\ server \subseteq Resource /\ seq \in Nat
               /\ saved \in SyncState /\ reached \subseteq Nat
    <3>1. Local(0) \in Content
      BY Typeful
    <3>2. rows \subseteq Row /\ server \subseteq Resource
      BY <2>2, <3>1 DEF Row, Resource
    <3>3. saved \in SyncState
      BY <2>2 DEF SyncState
    <3> QED
      BY <2>2, <3>2, <3>3
  <2>3. [made |-> "local", event |-> 1, n |-> IF kind = "caldav" THEN 0 ELSE 1] \in Url
    BY DEF Url
  <2> QED
    BY <2>1, <2>2, <2>3 DEF Init
<1> QED
  BY <1>1, <1>2, <1>3, <1>4 DEF TInv, TypeOK, StoreTypeOK

\* The steps of one goroutine, of the handlers and of the rest leave everything
\* in its type.
LEMMA UserTyped ==
  ASSUME TInv, UserAction, kind' = kind
  PROVE  TInv'
<1> USE DEF TInv
<1>0. /\ UNCHANGED <<serverVars, workerVars, saved, conflicts, reached, kind>> /\ UserNext
  BY DEF UserAction
<1>1. StoreTypeOK' => TInv'
  BY <1>0 DEF TypeOK, serverVars, workerVars
<1>2. StoreTypeOK /\ lastId + 1 \in Nat /\ edits + 1 \in Nat
  BY DEF TypeOK, StoreTypeOK
<1>3. Local(edits + 1) \in Content /\ NoUrl \in Url /\ Idle \in User
  BY <1>2, Typeful
<1>4. CASE CreateEvent
  <2>1. rows' \subseteq Row /\ lastId' \in Nat
    BY <1>2, <1>3, <1>4, InsertTyped DEF CreateEvent, StoreTypeOK
  <2>2. user' \in User /\ edits' \in 0..MaxEdits
    BY <1>2, <1>3, <1>4, BoundsAssumption DEF CreateEvent, Begin, WriteNext, User, StoreTypeOK
  <2> QED
    BY <1>1, <1>2, <1>4, <2>1, <2>2 DEF CreateEvent, StoreTypeOK
<1>5. CASE ImportEvent
  <2>1. rows' \subseteq Row /\ lastId' \in Nat
    BY <1>2, <1>3, <1>5, InsertTyped DEF ImportEvent, StoreTypeOK
  <2>2. unqueued' \subseteq [event : Nat, url : Url] /\ edits' \in 0..MaxEdits
    BY <1>2, <1>3, <1>5, BoundsAssumption DEF ImportEvent, NeverQueued, WriteNext, StoreTypeOK
  <2> QED
    BY <1>1, <1>2, <1>5, <2>1, <2>2 DEF ImportEvent, StoreTypeOK
<1>6. ASSUME NEW i \in 1..lastId, UpdateEvent(i)
      PROVE  TInv'
  <2>1. rows' \subseteq Row
    BY <1>2, <1>3, <1>6, WriteTyped DEF UpdateEvent, StoreTypeOK
  <2>2. user' \in User /\ edits' \in 0..MaxEdits
    BY <1>2, <1>3, <1>6, BoundsAssumption DEF UpdateEvent, Begin, WriteNext, User, StoreTypeOK
  <2> QED
    BY <1>1, <1>2, <1>6, <2>1, <2>2 DEF UpdateEvent, StoreTypeOK
<1>7. ASSUME NEW i \in 1..lastId, DeleteEvent(i)
      PROVE  TInv'
  <2>1. user' \in User
    BY <1>2, <1>7 DEF DeleteEvent, Begin, User, StoreTypeOK, Row
  <2> QED
    BY <1>1, <1>2, <1>7, <2>1 DEF DeleteEvent, StoreTypeOK
<1>8. CASE Reread
  BY <1>1, <1>2, <1>3, <1>8 DEF Reread, StoreTypeOK, User
<1>9. CASE DeleteRow
  BY <1>1, <1>2, <1>3, <1>9 DEF DeleteRow, RemoveEvent, StoreTypeOK, User
<1>10. CASE Enqueue
  <2>1. [id |-> lastEntry + 1, event |-> user.event, op |-> user.op, url |-> user.url] \in Entry
    BY <1>2 DEF StoreTypeOK, User, Entry
  <2> QED
    BY <1>1, <1>2, <1>3, <1>10, <2>1 DEF Enqueue, StoreTypeOK
<1>11. CASE EnqueueFails
  <2>1. [event |-> user.event, url |-> user.url] \in [event : Nat, url : Url]
    BY <1>2 DEF StoreTypeOK, User
  <2> QED
    BY <1>1, <1>2, <1>3, <1>11, <2>1, BoundsAssumption DEF EnqueueFails, NeverQueued, Fault, StoreTypeOK
<1> QED
  BY <1>0, <1>4, <1>5, <1>6, <1>7, <1>8, <1>9, <1>10, <1>11 DEF UserNext, UserStep

LEMMA ConflictTyped ==
  ASSUME TInv, ConflictAction, kind' = kind
  PROVE  TInv'
<1> USE DEF TInv
<1>1. ASSUME NEW c \in conflicts, NEW res \in {"remote-wins", "keep-local"}, Resolve(c, res)
      PROVE  conflicts' \subseteq Conflict /\ IsFiniteSet(conflicts')
  <2>1. [c EXCEPT !.resolution = res] \in Conflict
    BY <1>1 DEF TypeOK, Conflict
  <2>2. conflicts' = (conflicts \ {c}) \union {[c EXCEPT !.resolution = res]}
    BY <1>1 DEF Resolve
  <2>3. IsFiniteSet(conflicts \ {c})
    BY FS_RemoveElement
  <2> QED
    BY <2>1, <2>2, <2>3, FS_AddElement DEF TypeOK
<1>2. ASSUME NEW c \in conflicts, ResolveAcceptRemote(c)
      PROVE  TInv'
  BY <1>1, <1>2 DEF ResolveAcceptRemote, TypeOK, StoreTypeOK, storeVars, serverVars, workerVars
<1>3. ASSUME NEW c \in conflicts, RestoreLocal(c)
      PROVE  TInv'
  <2>1. c.event \in Nat /\ c.id \in Nat /\ c.local \in Content
    BY DEF TypeOK, Conflict
  <2>2. rows' \subseteq Row
    BY <1>3, <2>1, WriteTyped DEF RestoreLocal, TypeOK, StoreTypeOK
  <2>3. user' \in User
    BY <1>3, <2>1, Typeful DEF RestoreLocal, Idle, User
  <2>4. unqueued' \subseteq [event : Nat, url : Url]
    BY <1>3, <2>1, Typeful DEF RestoreLocal, NeverQueued, TypeOK, StoreTypeOK
  <2> QED
    BY <1>3, <2>2, <2>3, <2>4 DEF RestoreLocal, TypeOK, StoreTypeOK, serverVars, workerVars
<1>4. CASE KeepLocal
  <2>1. conflicts' \subseteq Conflict /\ IsFiniteSet(conflicts')
    BY <1>1, <1>4 DEF KeepLocal
  <2> QED
    BY <1>4, <2>1, Typeful DEF KeepLocal, TypeOK, StoreTypeOK, serverVars, workerVars
<1> QED
  BY <1>2, <1>3, <1>4 DEF ConflictAction

LEMMA OthersTyped ==
  ASSUME TInv, RemoteCreate \/ RemoteEdit \/ RemoteDelete, kind' = kind
  PROVE  TInv'
<1> USE DEF TInv
<1>1. redits + 1 \in Nat /\ seq \in Nat /\ seq + 1 \in Nat
  BY DEF TypeOK
<1>2. Remote(redits + 1) \in Content
  BY <1>1, Typeful
<1>3. [made |-> "remote", event |-> 0, n |-> seq + 1] \in Url
  BY <1>1 DEF Url
<1>4. server' \subseteq Resource /\ seq' \in Nat
  <2>1. CASE RemoteCreate
    BY <1>1, <1>2, <1>3, <2>1, PutTyped DEF RemoteCreate, TypeOK
  <2>2. CASE RemoteEdit
    <3>1. PICK s \in server : Put(s.url, Remote(redits + 1), TRUE)
      BY <2>2 DEF RemoteEdit
    <3>2. s.url \in Url
      BY DEF TypeOK, Resource
    <3> QED
      BY <1>1, <1>2, <3>1, <3>2, PutTyped DEF TypeOK
  <2>3. CASE RemoteDelete
    <3>1. PICK s \in server : Put(s.url, s.content, FALSE)
      BY <2>3 DEF RemoteDelete
    <3>2. s.url \in Url /\ s.content \in Content
      BY DEF TypeOK, Resource
    <3> QED
      BY <1>1, <3>1, <3>2, PutTyped DEF TypeOK
  <2> QED
    BY <2>1, <2>2, <2>3
<1>5. OtherClient
  BY DEF RemoteCreate, RemoteEdit, RemoteDelete
<1> QED
  BY <1>4, <1>5, RemoteAssumption DEF OtherClient, TypeOK, StoreTypeOK, storeVars, workerVars

LEMMA SyncTyped ==
  ASSUME TInv, NEW w \in Workers, StartSync(w) \/ SyncStep(w), kind' = kind
  PROVE  TInv'
<1> USE DEF TInv
<1> USE BoundsAssumption
<1>1. CASE StartSync(w)
  BY <1>1 DEF StartSync, Goto, TypeOK, StoreTypeOK, storeVars, serverVars, PCs
<1>2. CASE LoadOutbox(w)
  BY <1>2 DEF LoadOutbox, Goto, Fault, TypeOK, StoreTypeOK, serverVars, PCs
<1>3. CASE ReadEvent(w)
  BY <1>3 DEF ReadEvent, RemoveEntry, Goto, TypeOK, StoreTypeOK, serverVars, PCs
<1>4. CASE Push(w)
  <2>1. server' \subseteq Resource /\ seq' \in Nat /\ reached' \subseteq Nat
    BY <1>4, TakenTyped DEF Push
  <2>2. pc' \in [Workers -> PCs]
    BY <1>4 DEF Push, Goto, TypeOK, PCs
  <2>3. mem' \in [Workers -> SyncState] /\ sent' \in [Workers -> SUBSET Row]
    <3>1. CASE UNCHANGED <<mem, sent>>
      BY <3>1 DEF TypeOK
    <3>2. ASSUME NEW ev \in sent[w],
                 mem' = [mem EXCEPT ![w] = WithTag(@, Target(ev), seq + 1)],
                 sent' = [sent EXCEPT ![w] = {[ev EXCEPT !.url = Target(ev)]}]
          PROVE  mem' \in [Workers -> SyncState] /\ sent' \in [Workers -> SUBSET Row]
      <4>1. ev \in Row /\ Target(ev) \in Url /\ seq + 1 \in Nat
        BY TargetTyped DEF TypeOK
      <4>2. WithTag(mem[w], Target(ev), seq + 1) \in SyncState
        BY <4>1, WithTagTyped DEF TypeOK
      <4>3. [ev EXCEPT !.url = Target(ev)] \in Row
        BY <4>1 DEF Row
      <4> QED
        BY <3>2, <4>2, <4>3 DEF TypeOK
    <3> QED
      BY <1>4, <3>1, <3>2 DEF Push
  <2> QED
    BY <1>4, <2>1, <2>2, <2>3 DEF Push, TypeOK, StoreTypeOK, storeVars
<1>5. CASE PushUnread(w)
  <2>1. server' \subseteq Resource /\ seq' \in Nat /\ reached' \subseteq Nat
    BY <1>5, TakenTyped DEF PushUnread
  <2> QED
    BY <1>5, <2>1 DEF PushUnread, Goto, Fault, TypeOK, StoreTypeOK, PCs
<1>6. CASE PushFails(w)
  <2>1. server' \subseteq Resource /\ seq' \in Nat /\ reached' \subseteq Nat /\ faults' \in 0..MaxFaults
    <3>1. CASE ServerTakes(w)
      BY <1>6, <3>1, TakenTyped DEF PushFails, Fault, TypeOK, StoreTypeOK
    <3>2. CASE UNCHANGED <<server, seq, reached>>
      BY <1>6, <3>2 DEF PushFails, Fault, TypeOK, StoreTypeOK
    <3> QED
      BY <1>6, <3>1, <3>2 DEF PushFails
  <2> QED
    BY <1>6, <2>1 DEF PushFails, NextEntry, Goto, TypeOK, StoreTypeOK, PCs
<1>7. CASE Link(w)
  <2>1. PICK ev \in sent[w] : WriteUrl(ev.id, ev.url)
    BY <1>7 DEF Link
  <2>2. rows' \subseteq Row
    BY <2>1 DEF WriteUrl, TypeOK, StoreTypeOK, Row
  <2> QED
    BY <1>7, <2>2 DEF Link, Goto, TypeOK, StoreTypeOK, serverVars, PCs
<1>8. CASE LinkFails(w)
  <2>1. WithTag(mem[w], (CHOOSE ev \in sent[w] : TRUE).url, 0) \in SyncState
    BY WithTagTyped DEF TypeOK
  <2>2. mem' \in [Workers -> SyncState]
    BY <1>8, <2>1 DEF LinkFails, TypeOK
  <2> QED
    BY <1>8, <2>2 DEF LinkFails, NextEntry, Goto, Fault, TypeOK, StoreTypeOK, serverVars, PCs
<1>9. CASE ClearEntry(w)
  BY <1>9 DEF ClearEntry, RemoveEntry, NextEntry, Goto, Fault, TypeOK, StoreTypeOK, serverVars, PCs
<1>10. CASE Fetch(w)
  <2>1. \A state, token : CalDAVChanges(state) \subseteq Change /\ GraphChanges(token) \subseteq Change
    BY FetchTyped DEF TypeOK
  <2>2. changes' \in [Workers -> SUBSET Change] /\ faults' \in 0..MaxFaults
    BY <1>10, <2>1 DEF Fetch, Fault, TypeOK, StoreTypeOK
  <2>3. mem' \in [Workers -> SyncState]
    <3>1. CASE kind = "caldav"
      <4> DEFINE got == CalDAVChanges(mem[w])
                 tags == {e \in mem[w].etags : \A g \in got : g.url # e.url} \union
                         {[url |-> g.url, tag |-> g.tag] : g \in got}
      <4>1. mem' = [mem EXCEPT ![w].etags = tags]
        BY <1>10, <3>1 DEF Fetch
      <4>2. mem[w] \in SyncState
        BY DEF TypeOK
      <4>3. tags \subseteq [url : Url, tag : Nat]
        BY <2>1, <4>2 DEF SyncState, Change
      <4> HIDE DEF tags
      <4>4. [mem[w] EXCEPT !.etags = tags] \in SyncState
        BY <4>2, <4>3 DEF SyncState
      <4> QED
        BY <4>1, <4>4 DEF TypeOK
    <3>2. CASE kind # "caldav"
      <4>1. mem' = [mem EXCEPT ![w].token = seq + 1]
        BY <1>10, <3>2 DEF Fetch
      <4>2. mem[w] \in SyncState /\ seq + 1 \in Nat
        BY DEF TypeOK
      <4>3. [mem[w] EXCEPT !.token = seq + 1] \in SyncState
        BY <4>2 DEF SyncState
      <4> QED
        BY <4>1, <4>3 DEF TypeOK
    <3> QED
      BY <3>1, <3>2
  <2> QED
    BY <1>10, <2>2, <2>3 DEF Fetch, Goto, TypeOK, StoreTypeOK, serverVars, PCs
<1>11. CASE FetchFails(w)
  BY <1>11, Typeful DEF FetchFails, Leave, Goto, Fault, TypeOK, StoreTypeOK, serverVars, PCs
<1>12. CASE TakeChange(w)
  <2>1. PICK ch \in changes[w] :
          /\ changes' = [changes EXCEPT ![w] = @ \ {ch}]
          /\ \/ UNCHANGED <<pc, cur, found>>
             \/ /\ cur' = [cur EXCEPT ![w] = ch]
                /\ found' = [found EXCEPT ![w] = ByUrl(ch.url)]
                /\ Goto(w, "conflict") \/ Goto(w, "write")
    BY <1>12 DEF TakeChange
  <2>2. ch \in Change /\ ByUrl(ch.url) \subseteq Row
    BY DEF ByUrl, TypeOK, StoreTypeOK
  <2>3. /\ changes' \in [Workers -> SUBSET Change] /\ cur' \in [Workers -> Change]
        /\ found' \in [Workers -> SUBSET Row] /\ pc' \in [Workers -> PCs]
    BY <2>1, <2>2 DEF Goto, TypeOK, PCs
  <2> QED
    BY <1>12, <2>3 DEF TakeChange, TypeOK, StoreTypeOK, storeVars, serverVars
<1>13. CASE RecordConflict(w)
  <2>1. ASSUME NEW r \in found[w]
        PROVE  [id |-> Cardinality(conflicts) + 1, event |-> r.id, local |-> r.content,
                remote |-> cur[w].content, resolution |-> "pending"] \in Conflict
    <3>1. Cardinality(conflicts) \in Nat
      BY FS_CardinalityType
    <3>2. r \in Row /\ cur[w] \in Change
      BY DEF TypeOK
    <3> QED
      BY <3>1, <3>2 DEF Conflict, Row, Change
  <2>2. conflicts' \subseteq Conflict /\ IsFiniteSet(conflicts')
    <3>1. UNCHANGED conflicts \/ \E c \in Conflict : conflicts' = conflicts \union {c}
      BY <1>13, <2>1 DEF RecordConflict
    <3> QED
      BY <3>1, FS_AddElement DEF TypeOK
  <2>3. faults' \in 0..MaxFaults
    BY <1>13 DEF RecordConflict, Fault, TypeOK, StoreTypeOK
  <2> QED
    BY <1>13, <2>2, <2>3 DEF RecordConflict, Goto, TypeOK, StoreTypeOK, serverVars, PCs
<1>14. CASE WriteChange(w)
  <2>1. cur[w] \in Change /\ cur[w].content \in Content /\ cur[w].url \in Url /\ cur[w].tag \in Nat
    BY DEF TypeOK, Change
  <2>2. rows' \subseteq Row /\ lastId' \in Nat
    <3>1. CASE cur[w].op = "delete"
      BY <1>14, <3>1 DEF WriteChange, RemoveEvent, TypeOK, StoreTypeOK
    <3>2. CASE cur[w].op # "delete" /\ found[w] = {}
      BY <1>14, <2>1, <3>2, InsertTyped DEF WriteChange, TypeOK, StoreTypeOK
    <3>3. CASE cur[w].op # "delete" /\ found[w] # {}
      BY <1>14, <2>1, <3>3, WriteTyped DEF WriteChange, TypeOK, StoreTypeOK
    <3> QED
      BY <3>1, <3>2, <3>3
  <2>3. mem' \in [Workers -> SyncState]
    <3>1. mem[w] \in SyncState
      BY DEF TypeOK
    <3>2. WithTag(mem[w], cur[w].url, cur[w].tag) \in SyncState
      BY <2>1, <3>1, WithTagTyped
    <3>3. UNCHANGED mem \/ mem' = [mem EXCEPT ![w] = WithTag(@, cur[w].url, cur[w].tag)]
      BY <1>14 DEF WriteChange
    <3> QED
      BY <3>2, <3>3 DEF TypeOK
  <2> QED
    BY <1>14, <2>2, <2>3, Typeful DEF WriteChange, Applied, Goto, TypeOK, StoreTypeOK, serverVars, PCs
<1>15. CASE WriteFails(w)
  BY <1>15, Typeful DEF WriteFails, Applied, Goto, Fault, TypeOK, StoreTypeOK, serverVars, PCs
<1>16. CASE Finish(w)
  <2>1. rows' \subseteq Row
    <3>1. rows \subseteq Row
      BY DEF TypeOK, StoreTypeOK
    <3>2. \A r \in Row : [r EXCEPT !.newer = FALSE] \in Row
      BY DEF Row
    <3> QED
      BY <1>16, <3>1, <3>2 DEF Finish, SyncedNow
  <2>2. saved' \in SyncState
    BY <1>16 DEF Finish, TypeOK, SyncState
  <2> QED
    BY <1>16, <2>1, <2>2, Typeful DEF Finish, Leave, Goto, TypeOK, StoreTypeOK, serverVars, PCs
<1>17. CASE SaveFails(w)
  BY <1>17, Typeful DEF SaveFails, Leave, Goto, Fault, TypeOK, StoreTypeOK, serverVars, PCs
<1> QED
  BY <1>1, <1>2, <1>3, <1>4, <1>5, <1>6, <1>7, <1>8, <1>9, <1>10, <1>11, <1>12, <1>13, <1>14,
     <1>15, <1>16, <1>17 DEF SyncStep

LEMMA StepTyped == TInv /\ [Next]_vars => TInv'
<1> SUFFICES ASSUME TInv, [Next]_vars PROVE TInv'
  OBVIOUS
<1>1. CASE UNCHANGED vars
  BY <1>1 DEF vars, storeVars, serverVars, workerVars, TInv, TypeOK, StoreTypeOK
<1>2. CASE Crash /\ kind' = kind
  <2>1. unqueued' \subseteq [event : Nat, url : Url]
    BY <1>2 DEF Crash, NeverQueued, TInv, TypeOK, StoreTypeOK, User
  <2>2. /\ lock' \in [{EngineOf[w] : w \in Workers} -> Workers \union {None}]
        /\ pc' \in [Workers -> PCs] /\ mem' \in [Workers -> SyncState]
        /\ todo' \in [Workers -> SUBSET Entry] /\ sent' \in [Workers -> SUBSET Row]
        /\ changes' \in [Workers -> SUBSET Change] /\ cur' \in [Workers -> Change]
        /\ found' \in [Workers -> SUBSET Row]
    BY <1>2, Typeful DEF Crash, TInv, TypeOK, PCs
  <2> QED
    BY <1>2, <2>1, <2>2, Typeful, BoundsAssumption DEF Crash, Fault, TInv, TypeOK, StoreTypeOK, serverVars
<1> QED
  BY <1>1, <1>2, UserTyped, ConflictTyped, OthersTyped, SyncTyped DEF Next

-------------------------------------------------------------------------------
(* The inductive invariant of QueuedOrKnown.                               *)

\* Row ids are those AUTOINCREMENT has given out.
RowIds ==
  /\ \A r \in rows : r.id \in 1..lastId
  /\ \A r, q \in rows : r.id = q.id => r = q

Pushing == {"push", "link", "clear"}

\* A set of entries has an oldest, and so has each of its parts.
Ordered(S) == \A T \in SUBSET S : T # {} => \E e \in T : \A f \in T : e.id <= f.id

\* What a goroutine has read from the outbox is what the outbox says, as long as
\* it holds the entry; one in the middle of a push has an entry in hand.
QueueRead ==
  /\ \A e \in outbox : e.id \in 1..lastEntry
  /\ \A e, f \in outbox : e.id = f.id => e = f
  /\ Ordered(outbox)
  /\ \A w \in Workers :
       /\ \A e \in todo[w] : e.id \in 1..lastEntry
       /\ \A e \in todo[w], f \in outbox : e.id = f.id => e = f
       /\ Ordered(todo[w])
       /\ pc[w] \in Pushing => todo[w] # {}

\* A handler that is to enqueue a delete has deleted the row.
HandlerInStep ==
  /\ user.phase \in {"delete", "enqueue"} /\ user.op = "delete" => user.event \in 1..lastId
  /\ user.phase = "enqueue" /\ user.op = "delete" => ~Exists(user.event)
  /\ user.phase = "delete" => user.op = "delete"
  /\ user.phase = "reread" => user.op = "upsert"

HeldByServer(content) == content.by = "local" => content.n \in reached

\* What comes from the server has been there.
ServerHasHeld ==
  /\ \A s \in server : HeldByServer(s.content)
  /\ \A w \in Workers : HeldByServer(cur[w].content) /\ \A ch \in changes[w] : HeldByServer(ch.content)

\* A push sends one event.
OneEvent == \A w \in Workers : \A ev, fv \in sent[w] : ev = fv

\* The content of the row reaches the server without the entries up to number k.
Covered(r, k) ==
  \/ HeldByServer(r.content)
  \/ \E e \in outbox : e.op = "upsert" /\ e.event = r.id /\ e.id > k
  \/ user.phase \in {"reread", "enqueue"} /\ user.event = r.id
  \/ Unqueued(r.id)

\* While its entry is being pushed, a row says what is pushed, or has been edited
\* since and does not depend on that entry.
PushCovers(w) ==
  pc[w] \in Pushing /\ Head(todo[w]).op = "upsert" =>
    \A r \in rows : r.id = Head(todo[w]).event =>
      \/ pc[w] = "push" /\ \E ev \in sent[w] : ev.content = r.content
      \/ Covered(r, Head(todo[w]).id)

RowsCovered == \A r \in rows : Covered(r, 0)

CoverInv == RowIds /\ QueueRead /\ HandlerInStep /\ ServerHasHeld /\ OneEvent /\ RowsCovered
            /\ \A w \in Workers : PushCovers(w)

LEMMA InitCover == Init => CoverInv
<1> SUFFICES ASSUME Init PROVE CoverInv
  OBVIOUS
<1>1. QueueRead /\ HandlerInStep /\ OneEvent
  BY DEF Init, QueueRead, HandlerInStep, OneEvent, Ordered, Idle, Pushing
<1>2. \A w \in Workers : PushCovers(w)
  BY DEF Init, PushCovers, Pushing
<1>3. \A w \in Workers : HeldByServer(cur[w].content) /\ changes[w] = {}
  BY DEF Init, NoChange, Remote, HeldByServer
<1>4. RowIds /\ (\A s \in server : HeldByServer(s.content)) /\ \A r \in rows : HeldByServer(r.content)
  <2>1. CASE rows = {} /\ server = {}
    BY <2>1 DEF RowIds
  <2>2. ASSUME NEW url, rows = {[id |-> 1, content |-> Local(0), url |-> url, newer |-> FALSE]},
               lastId = 1, reached = {0},
               server = {[url |-> url, content |-> Local(0), seq |-> 1, live |-> TRUE]}
        PROVE  /\ RowIds
               /\ \A s \in server : HeldByServer(s.content)
               /\ \A r \in rows : HeldByServer(r.content)
    BY <2>2 DEF RowIds, HeldByServer, Local
  <2> QED
    BY <2>1, <2>2 DEF Init
<1> QED
  BY <1>1, <1>2, <1>3, <1>4 DEF CoverInv, ServerHasHeld, RowsCovered, Covered

(* Rows keep their ids; a new one has the next.                            *)
LEMMA RowsChange ==
  ASSUME TInv, [Next]_vars
  PROVE  \/ UNCHANGED <<rows, lastId>>
         \/ \E content, url, newer : InsertEvent(content, url, newer)
         \/ lastId' = lastId /\ \E i, content, newer : WriteContent(i, content, newer)
         \/ lastId' = lastId /\ \E i, url : WriteUrl(i, url)
         \/ lastId' = lastId /\ \E i : RemoveEvent(i)
         \/ lastId' = lastId /\ SyncedNow
<1>1. CASE UNCHANGED vars
  BY <1>1 DEF vars, storeVars
<1>2. CASE UserNext
  BY <1>2 DEF UserNext, UserStep, CreateEvent, ImportEvent, UpdateEvent, DeleteEvent, Reread,
              DeleteRow, Enqueue, EnqueueFails
<1>3. CASE ConflictAction
  BY <1>3 DEF ConflictAction, ResolveAcceptRemote, RestoreLocal, KeepLocal, storeVars
<1>4. CASE RemoteCreate \/ RemoteEdit \/ RemoteDelete
  BY <1>4 DEF RemoteCreate, RemoteEdit, RemoteDelete, OtherClient, storeVars
<1>5. ASSUME NEW w \in Workers, StartSync(w) \/ LoadOutbox(w) \/ ReadEvent(w) \/ Push(w) \/ PushUnread(w)
               \/ PushFails(w) \/ LinkFails(w) \/ ClearEntry(w) \/ Fetch(w) \/ FetchFails(w)
               \/ TakeChange(w) \/ RecordConflict(w) \/ WriteFails(w) \/ SaveFails(w)
      PROVE  UNCHANGED <<rows, lastId>>
  BY <1>5 DEF StartSync, LoadOutbox, ReadEvent, Push, PushUnread, PushFails, LinkFails, ClearEntry,
              Fetch, FetchFails, TakeChange, RecordConflict, WriteFails, SaveFails, storeVars
<1>6. ASSUME NEW w \in Workers, Link(w) \/ WriteChange(w) \/ Finish(w)
      PROVE  \/ \E content, url, newer : InsertEvent(content, url, newer)
             \/ lastId' = lastId /\ \E i, content, newer : WriteContent(i, content, newer)
             \/ lastId' = lastId /\ \E i, url : WriteUrl(i, url)
             \/ lastId' = lastId /\ \E i : RemoveEvent(i)
             \/ lastId' = lastId /\ SyncedNow
  BY <1>6 DEF Link, WriteChange, Finish
<1>7. CASE Crash
  BY <1>7 DEF Crash
<1> QED
  BY <1>1, <1>2, <1>3, <1>4, <1>5, <1>6, <1>7 DEF Next, UserAction, SyncStep

LEMMA StepRowIds ==
  ASSUME TInv, RowIds, [Next]_vars
  PROVE  /\ RowIds'
         /\ \A q \in rows' : (\E r \in rows : r.id = q.id) \/ q.id = lastId + 1
         /\ lastId <= lastId'
<1>1. rows \subseteq Row /\ lastId \in Nat
  BY DEF TInv, TypeOK, StoreTypeOK
<1>2. CASE UNCHANGED <<rows, lastId>>
  BY <1>1, <1>2 DEF RowIds
<1>3. ASSUME NEW content, NEW url, NEW newer, InsertEvent(content, url, newer)
      PROVE  /\ RowIds'
             /\ \A q \in rows' : (\E r \in rows : r.id = q.id) \/ q.id = lastId + 1
             /\ lastId <= lastId'
  <2>1. PICK new : rows' = rows \union {new} /\ new.id = lastId + 1 /\ lastId' = lastId + 1
    BY <1>3 DEF InsertEvent
  <2> QED
    BY <1>1, <2>1 DEF RowIds
<1>4. ASSUME NEW f, \A r \in rows : f[r].id = r.id, rows' = {f[r] : r \in rows}, lastId' = lastId
      PROVE  /\ RowIds'
             /\ \A q \in rows' : (\E r \in rows : r.id = q.id) \/ q.id = lastId + 1
             /\ lastId <= lastId'
  <2>1. \A q \in rows' : \E r \in rows : q = f[r] /\ q.id = r.id
    BY <1>4
  <2>2. \A p, q \in rows' : p.id = q.id => p = q
    BY <2>1 DEF RowIds
  <2> QED
    BY <1>1, <1>4, <2>1, <2>2 DEF RowIds
<1>5. ASSUME lastId' = lastId, NEW i, NEW content, NEW newer, WriteContent(i, content, newer)
      PROVE  /\ RowIds'
             /\ \A q \in rows' : (\E r \in rows : r.id = q.id) \/ q.id = lastId + 1
             /\ lastId <= lastId'
  <2> DEFINE f == [r \in rows |-> IF r.id = i THEN [r EXCEPT !.content = content, !.newer = newer] ELSE r]
  <2>1. rows' = {f[r] : r \in rows} /\ lastId' = lastId
    BY <1>5 DEF WriteContent
  <2>2. \A r \in rows : f[r].id = r.id
    BY <1>1 DEF Row
  <2> HIDE DEF f
  <2> QED
    BY <1>4, <2>1, <2>2
<1>6. ASSUME lastId' = lastId, NEW i, NEW url, WriteUrl(i, url)
      PROVE  /\ RowIds'
             /\ \A q \in rows' : (\E r \in rows : r.id = q.id) \/ q.id = lastId + 1
             /\ lastId <= lastId'
  <2> DEFINE f == [r \in rows |-> IF r.id = i THEN [r EXCEPT !.url = url] ELSE r]
  <2>1. rows' = {f[r] : r \in rows} /\ lastId' = lastId
    BY <1>6 DEF WriteUrl
  <2>2. \A r \in rows : f[r].id = r.id
    BY <1>1 DEF Row
  <2> HIDE DEF f
  <2> QED
    BY <1>4, <2>1, <2>2
<1>7. ASSUME lastId' = lastId, NEW i, RemoveEvent(i)
      PROVE  /\ RowIds'
             /\ \A q \in rows' : (\E r \in rows : r.id = q.id) \/ q.id = lastId + 1
             /\ lastId <= lastId'
  BY <1>1, <1>7 DEF RowIds, RemoveEvent
<1>8. ASSUME lastId' = lastId, SyncedNow
      PROVE  /\ RowIds'
             /\ \A q \in rows' : (\E r \in rows : r.id = q.id) \/ q.id = lastId + 1
             /\ lastId <= lastId'
  <2> DEFINE f == [r \in rows |-> [r EXCEPT !.newer = FALSE]]
  <2>1. rows' = {f[r] : r \in rows} /\ lastId' = lastId
    BY <1>8 DEF SyncedNow
  <2>2. \A r \in rows : f[r].id = r.id
    BY <1>1 DEF Row
  <2> HIDE DEF f
  <2> QED
    BY <1>4, <2>1, <2>2
<1> QED
  BY <1>2, <1>3, <1>5, <1>6, <1>7, <1>8, RowsChange

(* The outbox grows by its newest entry; a goroutine's copy only shrinks   *)
(* until it is read again.                                                 *)
LEMMA OutboxChange ==
  ASSUME TInv, [Next]_vars
  PROVE  \/ outbox' \subseteq outbox /\ lastEntry' = lastEntry
         \/ Enqueue
<1>1. CASE UNCHANGED vars
  BY <1>1 DEF vars, storeVars
<1>2. CASE UserNext
  BY <1>2 DEF UserNext, UserStep, CreateEvent, ImportEvent, UpdateEvent, DeleteEvent, Reread,
              DeleteRow, EnqueueFails
<1>3. CASE ConflictAction
  BY <1>3 DEF ConflictAction, ResolveAcceptRemote, RestoreLocal, KeepLocal, storeVars
<1>4. CASE RemoteCreate \/ RemoteEdit \/ RemoteDelete
  BY <1>4 DEF RemoteCreate, RemoteEdit, RemoteDelete, OtherClient, storeVars
<1>5. ASSUME NEW w \in Workers, StartSync(w) \/ SyncStep(w)
      PROVE  outbox' \subseteq outbox /\ lastEntry' = lastEntry
  BY <1>5 DEF SyncStep, StartSync, LoadOutbox, ReadEvent, Push, PushUnread, PushFails, Link, LinkFails,
              ClearEntry, Fetch, FetchFails, TakeChange, RecordConflict, WriteChange, WriteFails, Finish,
              SaveFails, RemoveEntry, storeVars
<1>6. CASE Crash
  BY <1>6 DEF Crash
<1> QED
  BY <1>1, <1>2, <1>3, <1>4, <1>5, <1>6 DEF Next, UserAction

LEMMA TodoChange ==
  ASSUME TInv, [Next]_vars, NEW v \in Workers
  PROVE  \/ todo'[v] \subseteq todo[v] /\ (pc'[v] \in Pushing => todo'[v] = todo[v]
                                             /\ (pc[v] \in Pushing \/ todo[v] # {}))
         \/ todo'[v] = outbox /\ outbox' = outbox /\ lastEntry' = lastEntry /\ pc'[v] \notin Pushing
<1>t. pc \in [Workers -> PCs] /\ todo \in [Workers -> SUBSET Entry]
  BY DEF TInv, TypeOK
<1>1. CASE UNCHANGED <<pc, todo>>
  BY <1>1
<1>2. ASSUME NEW w \in Workers, UNCHANGED todo,
             StartSync(w) \/ FetchFails(w) \/ Fetch(w) \/ Finish(w) \/ SaveFails(w) \/ TakeChange(w)
               \/ RecordConflict(w) \/ WriteChange(w) \/ WriteFails(w)
      PROVE  todo'[v] = todo[v] /\ (pc'[v] \in Pushing => pc[v] \in Pushing)
  BY <1>t, <1>2 DEF StartSync, FetchFails, Fetch, Finish, SaveFails, TakeChange, RecordConflict,
                    WriteChange, WriteFails, Leave, Applied, Goto, Pushing
<1>3. ASSUME NEW w \in Workers, Push(w) \/ PushUnread(w) \/ Link(w)
      PROVE  todo'[v] = todo[v] /\ (pc'[v] \in Pushing => pc[v] \in Pushing)
  BY <1>t, <1>3 DEF Push, PushUnread, Link, Goto, Pushing
<1>4. ASSUME NEW w \in Workers, NextEntry(w)
      PROVE  /\ todo'[v] \subseteq todo[v]
             /\ pc'[v] \in Pushing => todo'[v] = todo[v] /\ pc[v] \in Pushing
  BY <1>t, <1>4 DEF NextEntry, Goto, Pushing
<1>5. ASSUME NEW w \in Workers, ReadEvent(w)
      PROVE  /\ todo'[v] \subseteq todo[v]
             /\ pc'[v] \in Pushing => todo'[v] = todo[v] /\ (pc[v] \in Pushing \/ todo[v] # {})
  BY <1>t, <1>5 DEF ReadEvent, Goto, Pushing
<1>6. ASSUME NEW w \in Workers, LoadOutbox(w)
      PROVE  \/ todo'[v] = todo[v] /\ (pc'[v] \in Pushing => pc[v] \in Pushing)
             \/ todo'[v] = outbox /\ outbox' = outbox /\ lastEntry' = lastEntry /\ pc'[v] \notin Pushing
  BY <1>t, <1>6 DEF LoadOutbox, Goto, Pushing
<1>7. CASE Crash
  BY <1>t, <1>7 DEF Crash, Pushing
<1>8. ASSUME NEW w \in Workers, StartSync(w) \/ SyncStep(w)
      PROVE  \/ LoadOutbox(w) \/ ReadEvent(w) \/ NextEntry(w) \/ Push(w) \/ PushUnread(w) \/ Link(w)
             \/ UNCHANGED todo /\ (StartSync(w) \/ FetchFails(w) \/ Fetch(w) \/ Finish(w) \/ SaveFails(w)
                  \/ TakeChange(w) \/ RecordConflict(w) \/ WriteChange(w) \/ WriteFails(w))
  BY <1>8 DEF SyncStep, StartSync, FetchFails, Fetch, Finish, SaveFails, TakeChange, RecordConflict,
              WriteChange, WriteFails, PushFails, LinkFails, ClearEntry
<1>9. CASE UserAction \/ ConflictAction \/ RemoteCreate \/ RemoteEdit \/ RemoteDelete \/ UNCHANGED vars
  BY <1>1, <1>9 DEF UserAction, ConflictAction, ResolveAcceptRemote, RestoreLocal, KeepLocal, RemoteCreate,
                    RemoteEdit, RemoteDelete, OtherClient, workerVars, vars
<1> QED
  BY <1>2, <1>3, <1>4, <1>5, <1>6, <1>7, <1>8, <1>9 DEF Next

LEMMA StepQueueRead ==
  ASSUME TInv, QueueRead, [Next]_vars
  PROVE  QueueRead'
<1>t. outbox \subseteq Entry /\ lastEntry \in Nat /\ todo \in [Workers -> SUBSET Entry]
  BY DEF TInv, TypeOK, StoreTypeOK
<1>1. CASE outbox' \subseteq outbox /\ lastEntry' = lastEntry
  <2>1. Ordered(outbox')
    BY <1>1 DEF QueueRead, Ordered
  <2>2. ASSUME NEW v \in Workers
        PROVE  /\ \A e \in todo'[v] : e.id \in 1..lastEntry'
               /\ \A e \in todo'[v], f \in outbox' : e.id = f.id => e = f
               /\ Ordered(todo'[v])
               /\ pc'[v] \in Pushing => todo'[v] # {}
    <3>1. CASE todo'[v] \subseteq todo[v] /\ (pc'[v] \in Pushing => todo'[v] = todo[v]
                                             /\ (pc[v] \in Pushing \/ todo[v] # {}))
      BY <1>1, <3>1 DEF QueueRead, Ordered
    <3>2. CASE todo'[v] = outbox /\ outbox' = outbox /\ pc'[v] \notin Pushing
      BY <1>1, <3>2 DEF QueueRead, Ordered
    <3> QED
      BY <3>1, <3>2, TodoChange
  <2> QED
    BY <1>1, <2>1, <2>2 DEF QueueRead
<1>2. CASE Enqueue
  <2> DEFINE new == [id |-> lastEntry + 1, event |-> user.event, op |-> user.op, url |-> user.url]
  <2>1. outbox' = outbox \union {new} /\ lastEntry' = lastEntry + 1 /\ new.id = lastEntry + 1
    BY <1>2 DEF Enqueue
  <2> HIDE DEF new
  <2>2. \A e \in outbox : e.id <= lastEntry /\ e.id < new.id
    BY <1>t, <2>1 DEF QueueRead
  <2>3. ASSUME NEW T \in SUBSET outbox', T # {}
        PROVE  \E e \in T : \A f \in T : e.id <= f.id
    <3>1. CASE T \subseteq {new}
      BY <1>t, <2>1, <2>3, <3>1
    <3>2. CASE ~(T \subseteq {new})
      <4>1. T \ {new} \in SUBSET outbox /\ T \ {new} # {}
        BY <2>1, <3>2
      <4>2. PICK e \in T \ {new} : \A f \in T \ {new} : e.id <= f.id
        BY <4>1 DEF QueueRead, Ordered
      <4> QED
        BY <1>t, <2>1, <2>2, <4>1, <4>2 DEF Entry
    <3> QED
      BY <3>1, <3>2
  <2>4. ASSUME NEW v \in Workers
        PROVE  todo'[v] \subseteq todo[v] /\ (pc'[v] \in Pushing => todo'[v] # {})
    BY <2>1, TodoChange, <1>t DEF QueueRead
  <2>5. ASSUME NEW v \in Workers
        PROVE  /\ \A e \in todo'[v] : e.id \in 1..lastEntry'
               /\ \A e \in todo'[v], f \in outbox' : e.id = f.id => e = f
               /\ Ordered(todo'[v])
    BY <1>t, <2>1, <2>4 DEF QueueRead, Ordered
  <2>6. \A e \in outbox' : e.id \in 1..lastEntry'
    BY <1>t, <2>1 DEF QueueRead
  <2>7. \A e, f \in outbox' : e.id = f.id => e = f
    BY <1>t, <2>1, <2>2 DEF QueueRead, Entry
  <2> QED
    BY <2>3, <2>4, <2>5, <2>6, <2>7 DEF QueueRead, Ordered
<1> QED
  BY <1>1, <1>2, OutboxChange

LEMMA HeadIsOldest ==
  ASSUME QueueRead, NEW w \in Workers, todo[w] # {}
  PROVE  Head(todo[w]) \in todo[w] /\ Head(todo[w]).id \in 1..lastEntry
<1>1. \E e \in todo[w] : \A f \in todo[w] : e.id <= f.id
  BY DEF QueueRead, Ordered
<1>2. Head(todo[w]) \in todo[w]
  BY <1>1 DEF Head
<1> QED
  BY <1>2 DEF QueueRead

LEMMA StepHandler ==
  ASSUME TInv, RowIds, HandlerInStep, [Next]_vars
  PROVE  HandlerInStep'
<1>t. user \in User /\ lastId \in Nat /\ lastId' \in Nat
  BY StepTyped DEF TInv, TypeOK, StoreTypeOK
<1>1. lastId <= lastId' /\ \A q \in rows' : (\E r \in rows : r.id = q.id) \/ q.id = lastId + 1
  BY StepRowIds
<1>2. CASE UNCHANGED user
  BY <1>t, <1>1, <1>2 DEF HandlerInStep, Exists
<1>3. CASE user' = Idle
  BY <1>3 DEF HandlerInStep, Idle
<1>4. CASE CreateEvent
  BY <1>4 DEF CreateEvent, Begin, HandlerInStep
<1>5. ASSUME NEW i \in 1..lastId, UpdateEvent(i) PROVE HandlerInStep'
  BY <1>5 DEF UpdateEvent, Begin, HandlerInStep
<1>6. ASSUME NEW i \in 1..lastId, DeleteEvent(i) PROVE HandlerInStep'
  BY <1>t, <1>1, <1>6 DEF DeleteEvent, Begin, HandlerInStep
<1>7. CASE Reread
  BY <1>t, <1>7 DEF Reread, Idle, User, HandlerInStep
<1>8. CASE DeleteRow
  BY <1>t, <1>1, <1>8 DEF DeleteRow, RemoveEvent, Exists, Idle, User, HandlerInStep
<1>9. ASSUME NEW c \in conflicts, RestoreLocal(c) PROVE HandlerInStep'
  BY <1>9 DEF RestoreLocal, Idle, HandlerInStep
<1>10. \/ UNCHANGED user \/ user' = Idle
       \/ CreateEvent \/ Reread \/ DeleteRow
       \/ \E i \in 1..lastId : UpdateEvent(i) \/ DeleteEvent(i)
       \/ \E c \in conflicts : RestoreLocal(c)
  <2>1. CASE UserAction
    BY <2>1 DEF UserAction, UserNext, UserStep, ImportEvent, Enqueue, EnqueueFails
  <2>2. CASE ConflictAction
    BY <2>2 DEF ConflictAction, ResolveAcceptRemote, KeepLocal, storeVars
  <2>3. CASE RemoteCreate \/ RemoteEdit \/ RemoteDelete
    BY <2>3 DEF RemoteCreate, RemoteEdit, RemoteDelete, OtherClient, storeVars
  <2>4. ASSUME NEW w \in Workers, StartSync(w) \/ SyncStep(w)
        PROVE  UNCHANGED user
    BY <2>4 DEF SyncStep, StartSync, LoadOutbox, ReadEvent, Push, PushUnread, PushFails, Link, LinkFails,
                ClearEntry, Fetch, FetchFails, TakeChange, RecordConflict, WriteChange, WriteFails, Finish,
                SaveFails, storeVars
  <2>5. CASE Crash
    BY <2>5 DEF Crash
  <2>6. CASE UNCHANGED vars
    BY <2>6 DEF vars, storeVars
  <2> QED
    BY <2>1, <2>2, <2>3, <2>4, <2>5, <2>6 DEF Next
<1> QED
  BY <1>2, <1>3, <1>4, <1>5, <1>6, <1>7, <1>8, <1>9, <1>10

LEMMA PutHeld ==
  ASSUME NEW url, NEW content, NEW live, Put(url, content, live), reached \subseteq reached',
         \A s \in server : HeldByServer(s.content),
         content.by = "local" => content.n \in reached'
  PROVE  \A s \in server' : HeldByServer(s.content)'
  BY DEF Put, HeldByServer

(* A push makes known what it sends, and nothing else.                     *)
LEMMA TakenHeld ==
  ASSUME OneEvent, \A s \in server : HeldByServer(s.content), NEW w \in Workers, ServerTakes(w)
  PROVE  /\ reached \subseteq reached'
         /\ \A s \in server' : HeldByServer(s.content)'
         /\ Head(todo[w]).op = "upsert" => \A ev \in sent[w] : HeldByServer(ev.content)'
<1>1. CASE /\ Head(todo[w]).op = "delete"
           /\ \E s \in server : s.url = Head(todo[w]).url /\ Put(Head(todo[w]).url, s.content, FALSE)
           /\ UNCHANGED reached
  BY <1>1, PutHeld DEF HeldByServer
<1>2. ASSUME NEW ev \in sent[w], Put(Target(ev), ev.content, TRUE),
             reached' = reached \union (IF ev.content.by = "local" THEN {ev.content.n} ELSE {})
      PROVE  /\ reached \subseteq reached'
             /\ \A s \in server' : HeldByServer(s.content)'
             /\ \A fv \in sent[w] : HeldByServer(fv.content)'
  <2>1. reached \subseteq reached' /\ (ev.content.by = "local" => ev.content.n \in reached')
    BY <1>2
  <2>2. \A fv \in sent[w] : fv = ev
    BY DEF OneEvent
  <2> QED
    BY <1>2, <2>1, <2>2, PutHeld DEF HeldByServer
<1> QED
  BY <1>1, <1>2 DEF ServerTakes

LEMMA StepServerHasHeld ==
  ASSUME TInv, OneEvent, ServerHasHeld, [Next]_vars
  PROVE  ServerHasHeld' /\ reached \subseteq reached'
<1>t. cur \in [Workers -> Change] /\ changes \in [Workers -> SUBSET Change]
  BY DEF TInv, TypeOK
<1>n. HeldByServer(NoChange.content) /\ HeldByServer(NoChange.content)'
  BY DEF HeldByServer, NoChange, Remote
<1>1. ASSUME UNCHANGED <<cur, changes>>, reached \subseteq reached',
             \A s \in server' : HeldByServer(s.content)'
      PROVE  ServerHasHeld'
  BY <1>1 DEF ServerHasHeld, HeldByServer
<1>2. CASE UNCHANGED <<cur, changes, reached, server>>
  BY <1>1, <1>2 DEF ServerHasHeld, HeldByServer
<1>3. CASE RemoteCreate \/ RemoteEdit \/ RemoteDelete
  <2>1. UNCHANGED <<cur, changes, reached>>
    BY <1>3 DEF RemoteCreate, RemoteEdit, RemoteDelete, OtherClient, workerVars
  <2>2. Remote(redits + 1).by = "remote"
    BY DEF Remote
  <2>3. CASE RemoteCreate
    <3>1. PICK url : Put(url, Remote(redits + 1), TRUE)
      BY <2>3 DEF RemoteCreate
    <3> QED
      BY <1>1, <2>1, <2>2, <3>1, PutHeld DEF ServerHasHeld
  <2>4. CASE RemoteEdit
    <3>1. PICK url : Put(url, Remote(redits + 1), TRUE)
      BY <2>4 DEF RemoteEdit
    <3> QED
      BY <1>1, <2>1, <2>2, <3>1, PutHeld DEF ServerHasHeld
  <2>5. CASE RemoteDelete
    <3>1. PICK s \in server : Put(s.url, s.content, FALSE)
      BY <2>5 DEF RemoteDelete
    <3> QED
      BY <1>1, <2>1, <3>1, PutHeld DEF ServerHasHeld, HeldByServer
  <2> QED
    BY <1>3, <2>1, <2>3, <2>4, <2>5
<1>4. ASSUME NEW w \in Workers, ServerTakes(w), UNCHANGED <<cur, changes>>
      PROVE  ServerHasHeld' /\ reached \subseteq reached'
  BY <1>1, <1>4, TakenHeld DEF ServerHasHeld
<1>5. ASSUME NEW w \in Workers, Fetch(w)
      PROVE  ServerHasHeld' /\ reached \subseteq reached'
  <2>1. UNCHANGED <<cur, reached, server>>
    BY <1>5 DEF Fetch, serverVars
  <2>2. \A state, token : \A ch \in CalDAVChanges(state) \union GraphChanges(token) :
          \E s \in server : ch.content = s.content
    BY DEF CalDAVChanges, GraphChanges
  <2>3. \E got : /\ changes' = [changes EXCEPT ![w] = got]
                 /\ \A ch \in got : \E s \in server : ch.content = s.content
    <3>1. CASE kind = "caldav"
      <4> DEFINE got == CalDAVChanges(mem[w])
      <4>1. changes' = [changes EXCEPT ![w] = got]
        BY <1>5, <3>1 DEF Fetch
      <4>2. \A ch \in got : \E s \in server : ch.content = s.content
        BY <2>2
      <4> HIDE DEF got
      <4> QED
        BY <4>1, <4>2
    <3>2. CASE kind # "caldav"
      <4>1. PICK token : changes' = [changes EXCEPT ![w] = GraphChanges(token)]
        BY <1>5, <3>2 DEF Fetch
      <4> DEFINE got == GraphChanges(token)
      <4>2. \A ch \in got : \E s \in server : ch.content = s.content
        BY <2>2
      <4> HIDE DEF got
      <4>3. changes' = [changes EXCEPT ![w] = got]
        BY <4>1 DEF got
      <4> QED
        BY <4>2, <4>3
    <3> QED
      BY <3>1, <3>2
  <2> QED
    BY <1>t, <2>1, <2>3 DEF ServerHasHeld, HeldByServer
<1>6. ASSUME NEW w \in Workers, TakeChange(w)
      PROVE  ServerHasHeld' /\ reached \subseteq reached'
  <2>1. UNCHANGED <<reached, server>>
    BY <1>6 DEF TakeChange, serverVars
  <2>2. PICK ch \in changes[w] : /\ changes' = [changes EXCEPT ![w] = @ \ {ch}]
                                 /\ UNCHANGED cur \/ cur' = [cur EXCEPT ![w] = ch]
    BY <1>6 DEF TakeChange
  <2> QED
    BY <1>t, <2>1, <2>2 DEF ServerHasHeld, HeldByServer
<1>7. ASSUME NEW w \in Workers, WriteChange(w) \/ WriteFails(w)
      PROVE  ServerHasHeld' /\ reached \subseteq reached'
  <2>1. UNCHANGED <<reached, server, changes>> /\ cur' = [cur EXCEPT ![w] = NoChange]
    BY <1>7 DEF WriteChange, WriteFails, Applied, serverVars
  <2> QED
    BY <1>t, <1>n, <2>1 DEF ServerHasHeld, HeldByServer
<1>8. CASE Crash
  <2>1. /\ UNCHANGED <<reached, server>>
        /\ changes' = [w \in Workers |-> {}] /\ cur' = [w \in Workers |-> NoChange]
    BY <1>8 DEF Crash, serverVars
  <2> QED
    BY <1>n, <2>1 DEF ServerHasHeld, HeldByServer
<1>9. ASSUME NEW w \in Workers, StartSync(w) \/ SyncStep(w)
      PROVE  \/ UNCHANGED <<cur, changes, reached, server>>
             \/ ServerTakes(w) /\ UNCHANGED <<cur, changes>>
             \/ Fetch(w) \/ TakeChange(w) \/ WriteChange(w) \/ WriteFails(w)
  BY <1>9 DEF SyncStep, StartSync, LoadOutbox, ReadEvent, Push, PushUnread, PushFails, Link, LinkFails,
              ClearEntry, FetchFails, RecordConflict, Finish, SaveFails, serverVars
<1>10. CASE UserAction \/ ConflictAction \/ UNCHANGED vars
  BY <1>2, <1>10 DEF UserAction, ConflictAction, ResolveAcceptRemote, RestoreLocal, KeepLocal,
                     workerVars, serverVars, vars
<1> QED
  BY <1>2, <1>3, <1>4, <1>5, <1>6, <1>7, <1>8, <1>9, <1>10 DEF Next

LEMMA StepOneEvent ==
  ASSUME TInv, RowIds, OneEvent, [Next]_vars
  PROVE  OneEvent'
<1>t. sent \in [Workers -> SUBSET Row]
  BY DEF TInv, TypeOK
<1>1. CASE UNCHANGED sent
  BY <1>1 DEF OneEvent
<1>2. ASSUME NEW w \in Workers, NEW S, sent' = [sent EXCEPT ![w] = S], \A ev, fv \in S : ev = fv
      PROVE  OneEvent'
  BY <1>t, <1>2 DEF OneEvent
<1>3. CASE Crash
  BY <1>3 DEF Crash, OneEvent
<1>4. ASSUME NEW w \in Workers, StartSync(w) \/ SyncStep(w)
      PROVE  OneEvent'
  <2>1. CASE NextEntry(w)
    <3>1. sent' = [sent EXCEPT ![w] = {}]
      BY <2>1 DEF NextEntry
    <3> QED
      BY <1>t, <3>1 DEF OneEvent
  <2>2. CASE ReadEvent(w)
    <3> DEFINE S == {r \in rows : r.id = Head(todo[w]).event /\ Head(todo[w]).op = "upsert"}
    <3>1. \A ev, fv \in S : ev = fv
      BY DEF RowIds
    <3>2. UNCHANGED sent \/ sent' = [sent EXCEPT ![w] = S]
      BY <2>2 DEF ReadEvent
    <3> HIDE DEF S
    <3> QED
      BY <1>1, <1>2, <3>1, <3>2
  <2>3. CASE Push(w)
    <3>1. CASE UNCHANGED sent
      BY <1>1, <3>1
    <3>2. CASE \E ev \in sent[w] : sent' = [sent EXCEPT ![w] = {[ev EXCEPT !.url = Target(ev)]}]
      <4>1. PICK ev \in sent[w] : sent' = [sent EXCEPT ![w] = {[ev EXCEPT !.url = Target(ev)]}]
        BY <3>2
      <4> DEFINE new == [ev EXCEPT !.url = Target(ev)]
      <4>2. sent' = [sent EXCEPT ![w] = {new}]
        BY <4>1
      <4> HIDE DEF new
      <4> QED
        BY <1>t, <4>2 DEF OneEvent
    <3> QED
      BY <2>3, <3>1, <3>2 DEF Push
  <2>4. UNCHANGED sent \/ NextEntry(w) \/ ReadEvent(w) \/ Push(w)
    BY <1>4 DEF SyncStep, StartSync, LoadOutbox, PushUnread, PushFails, Link, LinkFails, ClearEntry, Fetch,
                FetchFails, TakeChange, RecordConflict, WriteChange, WriteFails, Finish, SaveFails
  <2> QED
    BY <1>1, <2>1, <2>2, <2>3, <2>4
<1>5. CASE UserAction \/ ConflictAction \/ RemoteCreate \/ RemoteEdit \/ RemoteDelete \/ UNCHANGED vars
  BY <1>1, <1>5 DEF UserAction, ConflictAction, ResolveAcceptRemote, RestoreLocal, KeepLocal, RemoteCreate,
                    RemoteEdit, RemoteDelete, OtherClient, workerVars, vars
<1> QED
  BY <1>1, <1>2, <1>3, <1>4, <1>5 DEF Next

-------------------------------------------------------------------------------
(* Coverage.  A row of the next state is one of this state, or one whose   *)
(* content needs none of the entries there are; a row that was covered is, *)
(* and every goroutine in the middle of a push stays where it was.         *)

Number == 0..lastEntry

RowsFollow ==
  \A q \in rows' : \/ \E r \in rows : r.id = q.id /\ r.content = q.content
                   \/ \A k \in Number : Covered(q, k)'

CoverKept ==
  \A r \in rows, q \in rows', k \in Number :
    r.id = q.id /\ r.content = q.content /\ Covered(r, k) => Covered(q, k)'

Stays(v) == pc'[v] \in Pushing => pc'[v] = pc[v] /\ todo'[v] = todo[v] /\ sent'[v] = sent[v]

LEMMA RowsStayCovered ==
  ASSUME TInv, CoverInv, RowsFollow, CoverKept
  PROVE  RowsCovered'
<1>1. 0 \in Number
  BY DEF Number, TInv, TypeOK, StoreTypeOK
<1> QED
  BY <1>1 DEF CoverInv, RowsCovered, RowsFollow, CoverKept

LEMMA PushStaysCovered ==
  ASSUME TInv, CoverInv, RowsFollow, CoverKept, NEW v \in Workers, Stays(v)
  PROVE  PushCovers(v)'
<1> SUFFICES ASSUME pc'[v] \in Pushing, NEW n, n = Head(todo'[v]).id,
                    NEW q \in rows', q.id = Head(todo'[v]).event, Head(todo'[v]).op = "upsert",
                    ~(pc'[v] = "push" /\ \E ev \in sent'[v] : ev.content = q.content)
             PROVE  Covered(q, n)'
  BY DEF PushCovers, Covered
<1>1. pc'[v] = pc[v] /\ todo'[v] = todo[v] /\ sent'[v] = sent[v]
  BY DEF Stays
<1>2. n \in Number /\ n = Head(todo[v]).id
  BY <1>1, HeadIsOldest DEF CoverInv, QueueRead, Number
<1>3. CASE \E r \in rows : r.id = q.id /\ r.content = q.content
  <2>1. PICK r \in rows : r.id = q.id /\ r.content = q.content
    BY <1>3
  <2>2. Covered(r, n)
    BY <1>1, <1>2, <2>1 DEF CoverInv, PushCovers
  <2> QED
    BY <1>2, <2>1, <2>2 DEF CoverKept
<1> QED
  BY <1>2, <1>3 DEF RowsFollow

\* A step that leaves the queue, the handler and what the server has held alone
\* keeps whatever is covered.
LEMMA QuietKeeps ==
  ASSUME UNCHANGED user, outbox \subseteq outbox', unqueued \subseteq unqueued',
         reached \subseteq reached'
  PROVE  CoverKept
  BY DEF CoverKept, Covered, HeldByServer, Unqueued

LEMMA SameRowsFollow == rows' \subseteq rows => RowsFollow
  BY DEF RowsFollow

\* Writing a row's URL or its age leaves what it says.
LEMMA MarkedRowsFollow ==
  ASSUME TInv, NEW f, rows' = {f[r] : r \in rows},
         \A r \in rows : f[r].id = r.id /\ f[r].content = r.content
  PROVE  RowsFollow
<1>1. \A q \in rows' : \E r \in rows : r.id = q.id /\ r.content = q.content
  BY DEF RowsFollow
<1> QED
  BY <1>1 DEF RowsFollow

\* The row a statement writes or makes, and the rest.
LEMMA WrittenRowsFollow ==
  ASSUME TInv, NEW i, NEW content, NEW newer, WriteContent(i, content, newer),
         \A q \in rows' : q.id = i /\ q.content = content => \A k \in Number : Covered(q, k)'
  PROVE  RowsFollow
<1>1. rows \subseteq Row
  BY DEF TInv, TypeOK, StoreTypeOK
<1>2. ASSUME NEW q \in rows'
      PROVE  (\E r \in rows : r.id = q.id /\ r.content = q.content) \/ (q.id = i /\ q.content = content)
  <2>1. PICK r \in rows : q = IF r.id = i THEN [r EXCEPT !.content = content, !.newer = newer] ELSE r
    BY DEF WriteContent
  <2> DEFINE new == [r EXCEPT !.content = content, !.newer = newer]
  <2>2. new.id = r.id /\ new.content = content
    BY <1>1 DEF Row
  <2>3. q = IF r.id = i THEN new ELSE r
    BY <2>1
  <2> HIDE DEF new
  <2> QED
    BY <2>2, <2>3
<1> QED
  BY <1>2 DEF RowsFollow

LEMMA InsertedRowsFollow ==
  ASSUME TInv, NEW content, NEW url, NEW newer, InsertEvent(content, url, newer),
         \A q \in rows' : q.id = lastId + 1 /\ q.content = content => \A k \in Number : Covered(q, k)'
  PROVE  RowsFollow
<1>1. PICK new : rows' = rows \union {new} /\ new.id = lastId + 1 /\ new.content = content
  <2> DEFINE n == [id |-> lastId + 1, content |-> content, url |-> url, newer |-> newer]
  <2>1. rows' = rows \union {n} /\ n.id = lastId + 1 /\ n.content = content
    BY DEF InsertEvent
  <2> HIDE DEF n
  <2> QED
    BY <2>1
<1> QED
  BY <1>1 DEF RowsFollow

LEMMA NeverQueuedIs ==
  ASSUME NEW i, NEW url, NeverQueued(i, url)
  PROVE  unqueued \subseteq unqueued' /\ \A q : q.id = i => Unqueued(q.id)'
<1> DEFINE new == [event |-> i, url |-> url]
<1>1. unqueued' = unqueued \union {new} /\ new.event = i
  BY DEF NeverQueued
<1> HIDE DEF new
<1> QED
  BY <1>1 DEF Unqueued

(* The user's handlers and the Conflict Queue's.                           *)
LEMMA HandlersFollow ==
  ASSUME TInv, CoverInv, UserAction \/ ConflictAction
  PROVE  RowsFollow /\ CoverKept /\ \A v \in Workers : Stays(v)
<1>1. reached' = reached /\ UNCHANGED <<pc, todo, sent>>
  BY DEF UserAction, ConflictAction, ResolveAcceptRemote, RestoreLocal, KeepLocal, workerVars
<1>2. \A v \in Workers : Stays(v)
  BY <1>1 DEF Stays
<1>t. /\ user \in User /\ lastEntry \in Nat /\ outbox \subseteq Entry /\ rows \subseteq Row
  BY DEF TInv, TypeOK, StoreTypeOK
<1>3. CASE CreateEvent
  <2>1. user'.phase = "enqueue" /\ user'.event = lastId + 1 /\ user.phase = "idle"
    BY <1>3 DEF CreateEvent, Begin, WriteNext
  <2>2. RowsFollow
    <3>1. PICK newer : InsertEvent(Local(edits + 1), NoUrl, newer)
      BY <1>3 DEF CreateEvent
    <3> QED
      BY <2>1, <3>1, InsertedRowsFollow DEF Covered
  <2>3. CoverKept
    BY <1>1, <1>3, <2>1 DEF CreateEvent, CoverKept, Covered, HeldByServer, Unqueued
  <2> QED
    BY <1>2, <2>2, <2>3
<1>4. CASE ImportEvent
  <2>0. NeverQueued(lastId + 1, NoUrl)
    BY <1>4 DEF ImportEvent
  <2>1. UNCHANGED <<user, outbox>> /\ unqueued \subseteq unqueued'
    BY <1>4, <2>0 DEF ImportEvent, NeverQueued
  <2>2. RowsFollow
    <3>1. PICK newer : InsertEvent(Local(edits + 1), NoUrl, newer)
      BY <1>4 DEF ImportEvent
    <3> QED
      <4>1. \A q : q.id = lastId + 1 => Unqueued(q.id)'
        BY <2>0, NeverQueuedIs
      <4>2. \A q : q.id = lastId + 1 => \A k \in Number : Covered(q, k)'
        BY <4>1 DEF Covered
      <4> QED
        BY <3>1, <4>2, InsertedRowsFollow
  <2> QED
    BY <1>1, <1>2, <2>1, <2>2, QuietKeeps DEF CoverInv
<1>5. ASSUME NEW i \in 1..lastId, UpdateEvent(i)
      PROVE  RowsFollow /\ CoverKept
  <2>1. user'.phase = "reread" /\ user'.event = i /\ user.phase = "idle"
    BY <1>5 DEF UpdateEvent, Begin, WriteNext
  <2>2. RowsFollow
    <3>1. PICK newer : WriteContent(i, Local(edits + 1), newer)
      BY <1>5 DEF UpdateEvent
    <3> QED
      BY <2>1, <3>1, WrittenRowsFollow DEF Covered
  <2>3. CoverKept
    BY <1>1, <1>5, <2>1 DEF UpdateEvent, CoverKept, Covered, HeldByServer, Unqueued
  <2> QED
    BY <2>2, <2>3
<1>6. ASSUME NEW i \in 1..lastId, DeleteEvent(i)
      PROVE  RowsFollow /\ CoverKept
  <2>1. user.phase = "idle" /\ UNCHANGED <<rows, outbox, unqueued>>
    BY <1>6 DEF DeleteEvent
  <2>2. CoverKept
    BY <1>1, <2>1 DEF CoverKept, Covered, HeldByServer, Unqueued
  <2> QED
    BY <1>2, <2>1, <2>2, SameRowsFollow
<1>7. CASE Reread
  <2>1. UNCHANGED <<rows, outbox, unqueued>>
    BY <1>7 DEF Reread
  <2>2. \A r \in rows : user.phase \in {"reread", "enqueue"} /\ user.event = r.id =>
          user'.phase = "enqueue" /\ user'.event = r.id
    BY <1>7, <1>t DEF Reread, Exists, User
  <2>3. CoverKept
    BY <1>1, <2>1, <2>2 DEF CoverKept, Covered, HeldByServer, Unqueued
  <2> QED
    BY <1>2, <2>1, <2>3, SameRowsFollow
<1>8. CASE DeleteRow
  <2>1. rows' \subseteq rows /\ UNCHANGED <<outbox, unqueued>> /\ user.phase = "delete"
    BY <1>8 DEF DeleteRow, RemoveEvent
  <2>2. CoverKept
    BY <1>1, <2>1 DEF CoverKept, Covered, HeldByServer, Unqueued
  <2> QED
    BY <1>2, <2>1, <2>2, SameRowsFollow
<1>9. CASE Enqueue
  <2> DEFINE new == [id |-> lastEntry + 1, event |-> user.event, op |-> user.op, url |-> user.url]
  <2>1. /\ outbox' = outbox \union {new} /\ new.id = lastEntry + 1 /\ new.op = user.op
        /\ new.event = user.event /\ UNCHANGED rows /\ user.phase = "enqueue"
        /\ unqueued' = {u \in unqueued : u.event # user.event}
    BY <1>9 DEF Enqueue
  <2> HIDE DEF new
  <2>2. \A r \in rows : r.id = user.event => user.op = "upsert"
    BY <1>t, <2>1 DEF CoverInv, HandlerInStep, Exists, User
  <2>3. \A k \in Number : lastEntry + 1 > k
    BY <1>t DEF Number
  <2>4. CoverKept
    BY <1>1, <2>1, <2>2, <2>3 DEF CoverKept, Covered, HeldByServer, Unqueued
  <2> QED
    BY <1>2, <2>1, <2>4, SameRowsFollow
<1>10. CASE EnqueueFails
  <2>1. /\ UNCHANGED <<rows, outbox>>
        /\ NeverQueued(user.event, user.url)
    BY <1>10 DEF EnqueueFails
  <2>2. unqueued \subseteq unqueued' /\ \A q : q.id = user.event => Unqueued(q.id)'
    BY <2>1, NeverQueuedIs
  <2>3. CoverKept
    BY <1>1, <2>1, <2>2 DEF CoverKept, Covered, HeldByServer, Unqueued
  <2> QED
    BY <1>2, <2>1, <2>3, SameRowsFollow
<1>11. ASSUME NEW c \in conflicts, ResolveAcceptRemote(c)
       PROVE  RowsFollow /\ CoverKept
  BY <1>11, SameRowsFollow, QuietKeeps DEF CoverInv, ResolveAcceptRemote, storeVars
<1>12. ASSUME NEW c \in conflicts, RestoreLocal(c)
       PROVE  RowsFollow /\ CoverKept
  <2>1. /\ user.phase = "idle" /\ UNCHANGED outbox
        /\ NeverQueued(c.event, NoUrl) /\ WriteContent(c.event, c.local, TRUE)
    BY <1>12 DEF RestoreLocal
  <2>2. RowsFollow
    <3>1. \A q : q.id = c.event => Unqueued(q.id)'
      BY <2>1, NeverQueuedIs
    <3>2. \A q : q.id = c.event => \A k \in Number : Covered(q, k)'
      BY <3>1 DEF Covered
    <3> QED
      BY <2>1, <3>2, WrittenRowsFollow
  <2>3. unqueued \subseteq unqueued'
    BY <2>1, NeverQueuedIs
  <2>4. CoverKept
    BY <1>1, <2>1, <2>3 DEF CoverKept, Covered, HeldByServer, Unqueued
  <2> QED
    BY <2>2, <2>4
<1>13. CASE KeepLocal
  <2>1. user.phase = "resolve" /\ UNCHANGED <<rows, outbox, unqueued>>
    BY <1>13 DEF KeepLocal
  <2>2. CoverKept
    BY <1>1, <2>1 DEF CoverKept, Covered, HeldByServer, Unqueued
  <2> QED
    BY <1>2, <2>1, <2>2, SameRowsFollow
<1> QED
  BY <1>2, <1>3, <1>4, <1>5, <1>6, <1>7, <1>8, <1>9, <1>10, <1>11, <1>12, <1>13
     DEF UserAction, UserNext, UserStep, ConflictAction

(* Other clients, and a crash, which takes every goroutine back to its     *)
(* start and leaves the edit of an unfinished handler unqueued.            *)
LEMMA OthersFollow ==
  ASSUME TInv, RemoteCreate \/ RemoteEdit \/ RemoteDelete \/ Crash \/ UNCHANGED vars
  PROVE  RowsFollow /\ CoverKept /\ \A v \in Workers : Stays(v)
<1>1. CASE RemoteCreate \/ RemoteEdit \/ RemoteDelete \/ UNCHANGED vars
  <2>1. UNCHANGED <<rows, outbox, user, unqueued, reached, pc, todo, sent>>
    BY <1>1 DEF RemoteCreate, RemoteEdit, RemoteDelete, OtherClient, storeVars, workerVars, vars
  <2> QED
    BY <2>1, SameRowsFollow, QuietKeeps DEF Stays
<1>2. CASE Crash
  <2>1. UNCHANGED <<rows, outbox, reached>> /\ \A v \in Workers : pc'[v] \notin Pushing
    BY <1>2 DEF Crash, Pushing
  <2>2. CASE user.phase \in {"reread", "enqueue"}
    <3>1. unqueued \subseteq unqueued' /\ \A q : q.id = user.event => Unqueued(q.id)'
      BY <1>2, <2>2, NeverQueuedIs DEF Crash
    <3> QED
      BY <2>1, <3>1, SameRowsFollow DEF Stays, CoverKept, Covered, HeldByServer, Unqueued
  <2>3. CASE user.phase \notin {"reread", "enqueue"}
    <3>1. UNCHANGED unqueued
      BY <1>2, <2>3 DEF Crash
    <3> QED
      BY <2>1, <2>3, <3>1, SameRowsFollow DEF Stays, CoverKept, Covered, HeldByServer, Unqueued
  <2> QED
    BY <2>2, <2>3
<1> QED
  BY <1>1, <1>2

(* A sync takes an entry off the queue when its event has gone, or when it *)
(* has pushed it: what the row says since then has a later entry.          *)
LEMMA SyncKeeps ==
  ASSUME TInv, CoverInv, NEW w \in Workers, StartSync(w) \/ SyncStep(w), reached \subseteq reached'
  PROVE  CoverKept
<1>t. outbox \subseteq Entry /\ lastEntry \in Nat
  BY DEF TInv, TypeOK, StoreTypeOK
<1>1. CASE UNCHANGED <<user, unqueued, outbox>>
  BY <1>1, QuietKeeps
<1>2. ASSUME NEW e \in todo[w], RemoveEntry(e), UNCHANGED <<rows, user, unqueued>>,
             \A r \in rows : e.op = "upsert" /\ e.event = r.id => Covered(r, e.id)
      PROVE  CoverKept
  <2>1. \A f \in outbox : f.id = e.id => f = e
    BY DEF CoverInv, QueueRead
  <2>2. \A f \in outbox : f.id # e.id => f \in outbox'
    BY <1>2 DEF RemoveEntry
  <2>3. e.id \in Nat /\ \A f \in outbox : f.id \in Nat
    BY <1>t DEF Entry, TInv, TypeOK
  <2>4. ASSUME NEW r \in rows, NEW k \in Number, Covered(r, k)
        PROVE  Covered(r, k)'
    <3>0. k \in Nat
      BY <1>t DEF Number
    <3>1. CASE \E f \in outbox : f.op = "upsert" /\ f.event = r.id /\ f.id > k
      <4>1. PICK f \in outbox : f.op = "upsert" /\ f.event = r.id /\ f.id > k
        BY <3>1
      <4>2. CASE f.id # e.id
        BY <2>2, <4>1, <4>2 DEF Covered
      <4>3. CASE f.id = e.id
        <5>1. Covered(r, e.id) /\ e.id > k
          BY <1>2, <2>1, <4>1, <4>3
        <5>2. CASE \E g \in outbox : g.op = "upsert" /\ g.event = r.id /\ g.id > e.id
          BY <2>2, <2>3, <3>0, <5>1, <5>2 DEF Covered
        <5>3. CASE ~\E g \in outbox : g.op = "upsert" /\ g.event = r.id /\ g.id > e.id
          BY <1>2, <5>1, <5>3 DEF Covered, HeldByServer, Unqueued
        <5> QED
          BY <5>2, <5>3
      <4> QED
        BY <4>2, <4>3
    <3>2. CASE ~\E f \in outbox : f.op = "upsert" /\ f.event = r.id /\ f.id > k
      BY <1>2, <2>4, <3>2 DEF Covered, HeldByServer, Unqueued
    <3> QED
      BY <3>1, <3>2
  <2>5. ASSUME NEW r \in rows, NEW q \in rows', NEW k \in Number,
               r.id = q.id, r.content = q.content, Covered(r, k)
        PROVE  Covered(q, k)'
    BY <2>4, <2>5 DEF Covered, HeldByServer, Unqueued
  <2> QED
    BY <2>5 DEF CoverKept
<1>3. CASE ReadEvent(w)
  <2>1. Head(todo[w]) \in todo[w]
    BY <1>3, HeadIsOldest DEF ReadEvent, CoverInv
  <2>2. CASE RemoveEntry(Head(todo[w])) /\ Head(todo[w]).op = "upsert" /\ ~Exists(Head(todo[w]).event)
    BY <1>2, <1>3, <2>1, <2>2 DEF ReadEvent, Exists
  <2>3. UNCHANGED <<user, unqueued>>
    BY <1>3 DEF ReadEvent
  <2> QED
    BY <1>1, <1>3, <2>2, <2>3 DEF ReadEvent
<1>4. CASE ClearEntry(w)
  <2>1. Head(todo[w]) \in todo[w]
    BY <1>4, HeadIsOldest DEF ClearEntry, CoverInv, QueueRead, Pushing
  <2>2. \A r \in rows : Head(todo[w]).op = "upsert" /\ Head(todo[w]).event = r.id
          => Covered(r, Head(todo[w]).id)
    BY <1>4 DEF ClearEntry, CoverInv, PushCovers, Pushing
  <2>3. UNCHANGED <<rows, user, unqueued>>
    BY <1>4 DEF ClearEntry
  <2> QED
    BY <1>1, <1>2, <1>4, <2>1, <2>2, <2>3 DEF ClearEntry
<1>5. UNCHANGED <<user, unqueued, outbox>> \/ ReadEvent(w) \/ ClearEntry(w)
  BY DEF SyncStep, StartSync, LoadOutbox, Push, PushUnread, PushFails, Link, LinkFails, Fetch,
         FetchFails, TakeChange, RecordConflict, WriteChange, WriteFails, Finish, SaveFails, storeVars
<1> QED
  BY <1>1, <1>3, <1>4, <1>5

LEMMA SyncRowsFollow ==
  ASSUME TInv, CoverInv, NEW w \in Workers, StartSync(w) \/ SyncStep(w)
  PROVE  RowsFollow
<1>t. rows \subseteq Row
  BY DEF TInv, TypeOK, StoreTypeOK
<1>1. CASE Link(w)
  <2>1. PICK ev \in sent[w] : WriteUrl(ev.id, ev.url)
    BY <1>1 DEF Link
  <2> DEFINE f == [r \in rows |-> IF r.id = ev.id THEN [r EXCEPT !.url = ev.url] ELSE r]
  <2>2. rows' = {f[r] : r \in rows} /\ \A r \in rows : f[r].id = r.id /\ f[r].content = r.content
    BY <1>t, <2>1 DEF WriteUrl, Row
  <2> HIDE DEF f
  <2> QED
    BY <2>2, MarkedRowsFollow
<1>2. CASE Finish(w)
  <2> DEFINE f == [r \in rows |-> [r EXCEPT !.newer = FALSE]]
  <2>1. rows' = {f[r] : r \in rows} /\ \A r \in rows : f[r].id = r.id /\ f[r].content = r.content
    BY <1>t, <1>2 DEF Finish, SyncedNow, Row
  <2> HIDE DEF f
  <2> QED
    BY <2>1, MarkedRowsFollow
<1>3. CASE WriteChange(w)
  <2>1. HeldByServer(cur[w].content) /\ UNCHANGED reached
    BY <1>3 DEF WriteChange, CoverInv, ServerHasHeld
  <2>2. \A q : q.content = cur[w].content => \A k \in Number : Covered(q, k)'
    BY <2>1 DEF Covered, HeldByServer
  <2>3. CASE \E i : RemoveEvent(i)
    BY <2>3, SameRowsFollow DEF RemoveEvent
  <2>4. CASE InsertEvent(cur[w].content, cur[w].url, TRUE)
    BY <2>2, <2>4, InsertedRowsFollow
  <2>5. CASE \E i : WriteContent(i, cur[w].content, TRUE)
    BY <2>2, <2>5, WrittenRowsFollow
  <2> QED
    BY <1>3, <2>3, <2>4, <2>5 DEF WriteChange
<1>4. UNCHANGED rows \/ Link(w) \/ WriteChange(w) \/ Finish(w)
  BY DEF SyncStep, StartSync, LoadOutbox, ReadEvent, Push, PushUnread, PushFails, LinkFails, ClearEntry,
         Fetch, FetchFails, TakeChange, RecordConflict, WriteFails, SaveFails, storeVars
<1> QED
  BY <1>1, <1>2, <1>3, <1>4, SameRowsFollow

\* A push goes on to its next statement: what it has sent has been held.
LEMMA PushGoesOn ==
  ASSUME TInv, CoverInv, RowsFollow, CoverKept, NEW w \in Workers, pc[w] \in Pushing, todo'[w] = todo[w],
         pc[w] = "push" /\ Head(todo[w]).op = "upsert" => \A ev \in sent[w] : HeldByServer(ev.content)'
  PROVE  PushCovers(w)'
<1> SUFFICES ASSUME NEW n, n = Head(todo[w]).id, Head(todo[w]).op = "upsert",
                    NEW q \in rows', q.id = Head(todo[w]).event
             PROVE  Covered(q, n)'
  BY DEF PushCovers, Covered
<1>1. n \in Number
  BY HeadIsOldest DEF CoverInv, QueueRead, Number
<1>2. ASSUME NEW r \in rows, r.id = q.id, r.content = q.content
      PROVE  Covered(q, n)'
  <2>1. CASE Covered(r, n)
    BY <1>1, <1>2, <2>1 DEF CoverKept
  <2>2. CASE pc[w] = "push" /\ \E ev \in sent[w] : ev.content = r.content
    BY <1>2, <2>2 DEF Covered, HeldByServer
  <2> QED
    BY <1>2, <2>1, <2>2 DEF CoverInv, PushCovers
<1> QED
  BY <1>1, <1>2 DEF RowsFollow

LEMMA SyncPushCovers ==
  ASSUME TInv, CoverInv, RowsFollow, CoverKept, NEW w \in Workers, StartSync(w) \/ SyncStep(w),
         NEW v \in Workers
  PROVE  PushCovers(v)'
<1>t. /\ pc \in [Workers -> PCs] /\ todo \in [Workers -> SUBSET Entry] /\ sent \in [Workers -> SUBSET Row]
  BY DEF TInv, TypeOK
<1>1. CASE v # w
  <2>1. ASSUME NEW x, pc' = [pc EXCEPT ![w] = x]
        PROVE  pc'[v] = pc[v]
    BY <1>t, <1>1, <2>1
  <2>2. \/ UNCHANGED pc \/ \E x : pc' = [pc EXCEPT ![w] = x]
    BY DEF SyncStep, StartSync, LoadOutbox, ReadEvent, Push, PushUnread, PushFails, Link, LinkFails,
           ClearEntry, Fetch, FetchFails, TakeChange, RecordConflict, WriteChange, WriteFails, Finish,
           SaveFails, NextEntry, Applied, Leave, Goto
  <2>3. UNCHANGED todo \/ \E x : todo' = [todo EXCEPT ![w] = x]
    BY DEF SyncStep, StartSync, LoadOutbox, ReadEvent, Push, PushUnread, PushFails, Link, LinkFails,
           ClearEntry, Fetch, FetchFails, TakeChange, RecordConflict, WriteChange, WriteFails, Finish,
           SaveFails, NextEntry
  <2>4. UNCHANGED sent \/ \E x : sent' = [sent EXCEPT ![w] = x]
    BY DEF SyncStep, StartSync, LoadOutbox, ReadEvent, Push, PushUnread, PushFails, Link, LinkFails,
           ClearEntry, Fetch, FetchFails, TakeChange, RecordConflict, WriteChange, WriteFails, Finish,
           SaveFails, NextEntry
  <2>5. pc'[v] = pc[v] /\ todo'[v] = todo[v] /\ sent'[v] = sent[v]
    BY <1>t, <1>1, <2>2, <2>3, <2>4
  <2> QED
    BY <2>5, PushStaysCovered DEF Stays
<1>2. CASE v = w /\ pc'[w] \notin Pushing
  BY <1>2 DEF PushCovers
<1>3. CASE ReadEvent(w) /\ v = w /\ pc'[w] \in Pushing
  <2>1. /\ pc' = [pc EXCEPT ![w] = "push"] /\ UNCHANGED <<todo, rows>>
        /\ sent' = [sent EXCEPT ![w] =
                      {r \in rows : r.id = Head(todo[w]).event /\ Head(todo[w]).op = "upsert"}]
    BY <1>3 DEF ReadEvent, Goto, Pushing
  <2>2. pc'[w] = "push" /\ todo'[w] = todo[w]
        /\ sent'[w] = {r \in rows : r.id = Head(todo[w]).event /\ Head(todo[w]).op = "upsert"}
    BY <1>t, <2>1
  <2>3. Head(todo'[w]) = Head(todo[w]) /\ rows' = rows
    BY <2>1, <2>2
  <2> QED
    BY <1>3, <2>2, <2>3 DEF PushCovers
<1>4. CASE (Push(w) \/ PushUnread(w)) /\ v = w
  <2>1. pc[w] = "push" /\ UNCHANGED todo /\ ServerTakes(w)
    BY <1>4 DEF Push, PushUnread
  <2>2. Head(todo[w]).op = "upsert" => \A ev \in sent[w] : HeldByServer(ev.content)'
    BY <2>1, TakenHeld DEF CoverInv, ServerHasHeld
  <2> QED
    BY <1>4, <2>1, <2>2, PushGoesOn DEF Pushing
<1>5. CASE Link(w) /\ v = w
  <2>1. pc[w] = "link" /\ UNCHANGED todo
    BY <1>5 DEF Link
  <2> QED
    BY <1>5, <2>1, PushGoesOn DEF Pushing
<1>6. pc'[w] \notin Pushing \/ ReadEvent(w) \/ Push(w) \/ PushUnread(w) \/ Link(w)
  BY <1>t DEF SyncStep, StartSync, LoadOutbox, PushFails, LinkFails, ClearEntry, Fetch, FetchFails,
              TakeChange, RecordConflict, WriteChange, WriteFails, Finish, SaveFails, NextEntry, Applied,
              Leave, Goto, Pushing
<1> QED
  BY <1>1, <1>2, <1>3, <1>4, <1>5, <1>6

LEMMA StepCover ==
  ASSUME TInv, CoverInv, [Next]_vars
  PROVE  CoverInv'
<1>1. RowIds' /\ QueueRead' /\ HandlerInStep' /\ ServerHasHeld' /\ OneEvent' /\ reached \subseteq reached'
  BY StepRowIds, StepQueueRead, StepHandler, StepServerHasHeld, StepOneEvent DEF CoverInv
<1>2. RowsFollow /\ CoverKept /\ \A v \in Workers : PushCovers(v)'
  <2>1. CASE UserAction \/ ConflictAction
    BY <2>1, HandlersFollow, PushStaysCovered
  <2>2. CASE RemoteCreate \/ RemoteEdit \/ RemoteDelete \/ Crash \/ UNCHANGED vars
    BY <2>2, OthersFollow, PushStaysCovered
  <2>3. ASSUME NEW w \in Workers, StartSync(w) \/ SyncStep(w)
        PROVE  RowsFollow /\ CoverKept /\ \A v \in Workers : PushCovers(v)'
    BY <1>1, <2>3, SyncKeeps, SyncRowsFollow, SyncPushCovers
  <2> QED
    BY <2>1, <2>2, <2>3 DEF Next
<1>3. RowsCovered'
  BY <1>2, RowsStayCovered
<1> QED
  BY <1>1, <1>2, <1>3 DEF CoverInv

-------------------------------------------------------------------------------
(* The theorems.                                                           *)

(* Whatever fails and whoever interferes, the rows, the outbox, the        *)
(* sync_state row and what each goroutine holds keep their types.          *)
THEOREM TypeCorrect == Spec => []TypeOK
<1>1. Init => TInv
  BY InitTyped
<1>2. TInv /\ [Next]_vars => TInv'
  BY StepTyped
<1>3. TInv => TypeOK
  BY DEF TInv
<1> QED
  BY <1>1, <1>2, <1>3, PTL DEF Spec

(* An edit the user has made of an event of a synced calendar is known to  *)
(* the server, or queued, or about to be, or was cut off before it was     *)
(* queued: no sync, of whichever engine, takes the entry of a newer edit   *)
(* away with that of the edit it has pushed.                               *)
THEOREM NoEditIsLost == Spec => []QueuedOrKnown
<1>1. Init => TInv /\ CoverInv
  BY InitTyped, InitCover
<1>2. TInv /\ CoverInv /\ [Next]_vars => (TInv /\ CoverInv)'
  BY StepTyped, StepCover
<1>3. TInv /\ CoverInv => QueuedOrKnown
  BY DEF CoverInv, RowsCovered, Covered, HeldByServer, QueuedOrKnown
<1> QED
  BY <1>1, <1>2, <1>3, PTL DEF Spec

===============================================================================
