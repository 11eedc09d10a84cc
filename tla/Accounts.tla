------------------------------- MODULE Accounts -------------------------------
(***************************************************************************)
(* The synced calendars and their accounts: the Calendars tab with its add,*)
(* edit and delete windows (ui/window.go), the Microsoft sign-in they start *)
(* (internal/graphauth), and what a sync does with the credentials and the *)
(* events of its calendar (internal/msgraph/oauth.go, syncwire).           *)
(*                                                                         *)
(* The callbacks of the windows run on the event loop, one at a time; a    *)
(* callback is a sequence of statements, and syncs, sign-ins and uninstall *)
(* step in between.  The windows are not modal, so one may be opened on a  *)
(* calendar another deletes.                                               *)
(***************************************************************************)
EXTENDS CredentialStore

CONSTANTS Home,       \* the default Local calendar, which cannot be deleted
          Loop,       \* the event loop
          MaxTokens,  \* bound: refresh tokens the server issues
          MaxLogins,  \* bound: presses of Connect
          MaxMoves    \* bound: what the user does, sign-ins left out

ASSUME HomeAssumption == Home \notin Ids
ASSUME LoopAssumption == Loop \in Actors
ASSUME BoundsAssumption == MaxTokens \in Nat /\ MaxLogins \in Nat /\ MaxMoves \in Nat

VARIABLES
  moves,      \* things the user has done
  up,         \* the tray runs
  kindOf,     \* per calendar ID, the adapter it was created for
  rows,       \* the calendars table, Local left out
  linked,     \* calendars whose sync_url is set
  events,     \* calendars some event belongs to
  registered, \* adapters of the running engine
  sync,       \* per goroutine, the sync it is in
  loop,       \* the callback the event loop is in
  form,       \* the Add Calendar window
  confirm,    \* open Delete windows
  login,      \* per press of Connect, its goroutine
  accepted,   \* refresh tokens the server takes
  issued,     \* refresh tokens issued so far
  cut,        \* history: calendars whose save was cut short
  stale,      \* history: calendars whose rotated token was not stored
  adrift      \* history: calendars whose events a race or a failure left behind

tableVars == <<kindOf, rows, linked>>
historyVars == <<cut, stale, adrift>>
tokenVars == <<accepted, issued>>
uiVars == <<loop, form, confirm, login>>
vars == <<storeVars, faults, moves, up, tableVars, events, registered, sync, uiVars,
          tokenVars, historyVars>>

\* The user does something, of this weight.
Move(weight) == moves + weight <= MaxMoves /\ moves' = moves + weight

Goroutines == Actors \ {Loop}
Logins == 1..MaxLogins
Tokens == 1..MaxTokens
Password == MaxTokens + 1   \* any CalDAV password

NoSync == [at |-> "idle", id |-> Nobody, token |-> 0, own |-> FALSE]
NoCall == [at |-> "idle", id |-> Nobody, to |-> Nobody, edit |-> FALSE]
NoForm == [open |-> FALSE, token |-> 0, login |-> 0]
NoLogin == [at |-> "new", got |-> "none", token |-> 0]
EndedLogin == [at |-> "over", got |-> "none", token |-> 0]

TypeOK ==
  /\ StoreTypeOK
  /\ moves \in 0..MaxMoves
  /\ up \in BOOLEAN
  /\ kindOf \in [Ids -> {"none", "caldav", "outlook"}]
  /\ rows \subseteq Ids /\ linked \subseteq Ids
  /\ events \subseteq Ids \union {Home}
  /\ registered \subseteq Ids
  /\ sync \in [Goroutines -> [at : {"idle", "load", "exchange", "rotate", "index", "pull"},
                              id : Ids \union {Nobody}, token : 0..(MaxTokens + 1), own : BOOLEAN]]
  /\ loop \in [at : {"idle", "link", "store", "index", "register",
                     "events", "row", "unregister"},
               id : Ids \union {Nobody}, to : Ids \union {Home, Nobody}, edit : BOOLEAN]
  /\ form \in [open : BOOLEAN, token : 0..MaxTokens, login : 0..MaxLogins]
  /\ confirm \subseteq [id : Ids, empty : BOOLEAN, others : SUBSET (Ids \union {Home})]
  /\ login \in [Logins -> [at : {"new", "wait", "exchange", "list", "over"},
                           got : {"none", "code", "refused"}, token : 0..MaxTokens]]
  /\ accepted \subseteq Tokens /\ issued \in 0..MaxTokens
  /\ cut \subseteq Ids /\ stale \subseteq Ids /\ adrift \subseteq Ids \union {Home}

\* Calendars of one kind connected earlier, and in step, or none.
Init ==
  /\ setting = [a \in Actors |-> Nobody]
  /\ uninst = "off" /\ left = {} /\ faults = 0 /\ loose = {} /\ late = {}
  /\ moves = 0 /\ up = TRUE /\ sync = [g \in Goroutines |-> NoSync]
  /\ loop = NoCall /\ form = NoForm /\ confirm = {} /\ login = [k \in Logins |-> NoLogin]
  /\ cut = {} /\ stale = {} /\ adrift = {}
  /\ \E known \in SUBSET Ids, kind \in {"caldav", "outlook"} :
       /\ \A i \in known, j \in Ids : j < i => j \in known
       /\ kind = "outlook" => Cardinality(known) <= MaxTokens
       /\ kindOf = [i \in Ids |-> IF i \in known THEN kind ELSE "none"]
       /\ rows = known /\ linked = known /\ registered = known /\ index = known
       /\ events \in {{Home}, {Home} \union known}
       /\ issued = IF kind = "outlook" THEN Cardinality(known) ELSE 0
       /\ accepted = 1..issued
       /\ keyring = [i \in Ids |-> IF i \notin known THEN 0
                                   ELSE IF kind = "outlook" THEN Cardinality({j \in known : j <= i})
                                   ELSE Password]

-------------------------------------------------------------------------------
(* A sync, as far as the account goes.  The goroutines of one engine       *)
(* exclude each other on a calendar (theorem Exclusion of SyncEngineProofs);*)
(* SyncNow makes an engine of its own for a calendar not registered yet.   *)

SyncLeaves == UNCHANGED <<up, tableVars, registered, uiVars, cut>>

Free(i) == \A g \in Goroutines : ~(sync[g].id = i /\ sync[g].own)

StartSync(g, i, own) ==
  sync' = [sync EXCEPT ![g] = [at |-> "load", id |-> i, token |-> 0, own |-> own]]

\* SyncAll visits the calendars it found registered; one that is unregistered
\* before its turn is, here, a sync that has not loaded its secret yet.
Visit(g) ==
  /\ sync[g].at = "idle"
  /\ \E i \in registered : Free(i) /\ StartSync(g, i, TRUE)
  /\ UNCHANGED <<storeVars, faults, events, tokenVars, stale, adrift>> /\ SyncLeaves

SyncNow(g) ==
  /\ up /\ sync[g].at = "idle"
  /\ \/ \E i \in registered : Free(i) /\ StartSync(g, i, TRUE)
     \/ \E i \in linked \ registered : StartSync(g, i, FALSE)
  /\ UNCHANGED <<storeVars, faults, events, tokenVars, stale, adrift>> /\ SyncLeaves

EndSync(g) == sync' = [sync EXCEPT ![g] = NoSync]
GoOn(g, at, token) ==
  sync' = [sync EXCEPT ![g] = [at |-> at, id |-> @.id, token |-> token, own |-> @.own]]

\* GetOAuthToken or GetCalDAV.
LoadSecret(g) ==
  /\ sync[g].at = "load"
  /\ LET secret == keyring[sync[g].id] IN
       IF secret = 0 THEN EndSync(g)
       ELSE IF kindOf[sync[g].id] = "caldav" THEN GoOn(g, "pull", 0) ELSE GoOn(g, "exchange", secret)
  /\ UNCHANGED <<storeVars, faults, events, tokenVars, stale, adrift>> /\ SyncLeaves

\* The server issues a new refresh token and may stop taking the one it got.
Issue(old) ==
  /\ issued < MaxTokens
  /\ issued' = issued + 1
  /\ \E kept \in {accepted, accepted \ {old}} : accepted' = kept \union {issued'}

\* The refresh token is exchanged: refused, answered with or without a new
\* one, or answered by a reply that is lost.
Exchange(g) ==
  LET token == sync[g].token IN
    /\ sync[g].at = "exchange"
    /\ \/ token \notin accepted /\ EndSync(g) /\ UNCHANGED <<faults, tokenVars, stale>>
       \/ token \in accepted /\ GoOn(g, "pull", 0) /\ UNCHANGED <<faults, tokenVars, stale>>
       \/ /\ token \in accepted /\ Issue(token)
          /\ GoOn(g, "rotate", issued')
          /\ UNCHANGED <<faults, stale>>
       \/ /\ token \in accepted /\ Issue(token) /\ Fault("reply")
          /\ EndSync(g)
          /\ stale' = stale \union {sync[g].id}
    /\ UNCHANGED <<storeVars, events, adrift>> /\ SyncLeaves

\* Mutant: the rotated token is stored when the sync has gone well.
RotateNever(g) ==
  /\ sync[g].at = "rotate"
  /\ GoOn(g, "pull", 0)
  /\ UNCHANGED <<storeVars, faults, stale, events, tokenVars, adrift>> /\ SyncLeaves

\* StoreOAuthToken; a failure is only logged.
Rotate(g) ==
  /\ sync[g].at = "rotate"
  /\ \/ /\ KeyringSet(g, sync[g].id, sync[g].token)
        /\ GoOn(g, "index", 0)
        /\ UNCHANGED <<faults, stale>>
     \/ /\ Fault("keyring")
        /\ GoOn(g, "pull", 0)
        /\ stale' = stale \union {sync[g].id}
        /\ UNCHANGED storeVars
  /\ UNCHANGED <<events, tokenVars, adrift>> /\ SyncLeaves

IndexRotated(g) ==
  /\ sync[g].at = "index"
  /\ (RecordIndex(g) /\ UNCHANGED faults) \/ RecordFails(g)
  /\ GoOn(g, "pull", 0)
  /\ UNCHANGED <<events, tokenVars, stale, adrift>> /\ SyncLeaves

\* Remote events are inserted, for the calendar ID the adapter was made with.
Pull(g) ==
  LET i == sync[g].id
      deleting == loop.id = i /\ loop.at \in {"row", "unregister"}
  IN  /\ sync[g].at = "pull"
      /\ \/ /\ events' = events \union {i}
            /\ adrift' = IF deleting THEN adrift \union {i} ELSE adrift
         \/ UNCHANGED <<events, adrift>>
      /\ EndSync(g)
      /\ UNCHANGED <<storeVars, faults, tokenVars, stale>> /\ SyncLeaves

SyncStep(g) ==
  LoadSecret(g) \/ Exchange(g) \/ Rotate(g) \/ IndexRotated(g) \/ Pull(g)

-------------------------------------------------------------------------------
(* Connect Microsoft account: Login on a goroutine of its own.             *)

LoginLeaves ==
  UNCHANGED <<storeVars, faults, up, tableVars, events, registered, sync, loop, confirm,
              historyVars>>

\* The button is disabled until the goroutine is done.
Connect ==
  /\ loop.at = "idle" /\ form.open /\ form.login = 0
  /\ \E k \in Logins :
       /\ login[k].at = "new" /\ \A j \in 1..(k - 1) : login[j].at # "new"
       /\ login' = [login EXCEPT ![k] = [at |-> "wait", got |-> "none", token |-> 0]]
       /\ form' = [form EXCEPT !.login = k]
  /\ UNCHANGED tokenVars /\ LoginLeaves

\* A browser tab answers, this sign-in's or, on a port used again, an earlier
\* one's.  The first answer is kept: an authorization code, or an error when
\* the user refuses or the state is not the one sent.
Callback(m) ==
  /\ login[m].at = "wait" /\ login[m].got = "none"
  /\ \E got \in {"code", "refused"} :
       login' = [login EXCEPT ![m] = [at |-> "wait", got |-> got, token |-> 0]]
  /\ UNCHANGED <<form, tokenVars>> /\ LoginLeaves

\* The goroutine hands its result to the window it was started from.
GiveUp(m) ==
  /\ login' = [login EXCEPT ![m] = EndedLogin]
  /\ form' = IF form.login = m THEN [form EXCEPT !.login = 0] ELSE form

\* The select of Login: the deadline may win over an answer.
AwaitCallback(m) ==
  /\ login[m].at = "wait"
  /\ \/ /\ login[m].got = "code"
        /\ login' = [login EXCEPT ![m] = [at |-> "exchange", got |-> "code", token |-> 0]]
        /\ UNCHANGED form
     \/ loop.at = "idle" /\ GiveUp(m)
  /\ UNCHANGED tokenVars /\ LoginLeaves

\* exchangeCode and ListCalendars: a token comes of it, or an error.
ExchangeCode(m) ==
  /\ login[m].at = "exchange"
  /\ \/ /\ issued < MaxTokens
        /\ issued' = issued + 1 /\ accepted' = accepted \union {issued'}
        /\ login' = [login EXCEPT ![m] = [at |-> "list", got |-> "code", token |-> issued']]
        /\ UNCHANGED form
     \/ loop.at = "idle" /\ GiveUp(m) /\ UNCHANGED tokenVars
  /\ LoginLeaves

Deliver(m) ==
  /\ login[m].at = "list" /\ loop.at = "idle"
  /\ \/ /\ login' = [login EXCEPT ![m] = EndedLogin]
        /\ form' = IF form.login = m THEN [form EXCEPT !.login = 0, !.token = login[m].token]
                   ELSE form
     \/ GiveUp(m)
  /\ UNCHANGED tokenVars /\ LoginLeaves

LoginStep(m) == AwaitCallback(m) \/ ExchangeCode(m) \/ Deliver(m)

-------------------------------------------------------------------------------
(* The Add and Edit windows.                                               *)

UILeaves == UNCHANGED <<up, sync, login, tokenVars, stale>>

OpenForm ==
  /\ up /\ loop.at = "idle" /\ ~form.open
  /\ form' = [open |-> TRUE, token |-> 0, login |-> 0]
  /\ UNCHANGED <<storeVars, faults, tableVars, events, registered, loop, confirm, cut, adrift>>
  /\ UILeaves

CancelForm ==
  /\ loop.at = "idle" /\ form.open
  /\ form' = NoForm
  /\ UNCHANGED <<storeVars, faults, tableVars, events, registered, loop, confirm, cut, adrift>>
  /\ UILeaves

Call(at, i, edit) == loop' = [at |-> at, id |-> i, to |-> Nobody, edit |-> edit]

\* Save of a new calendar: CreateCalendar; IDs are never used again.
Save(kind) ==
  /\ loop.at = "idle" /\ form.open
  /\ kind = "outlook" => form.token # 0
  /\ \E i \in Ids :
       /\ kindOf[i] = "none" /\ \A j \in Ids : j < i => kindOf[j] # "none"
       /\ kindOf' = [kindOf EXCEPT ![i] = kind]
       /\ rows' = rows \union {i}
       /\ Call("link", i, FALSE)
  /\ UNCHANGED <<storeVars, faults, linked, events, registered, form, confirm, cut, adrift>>
  /\ UILeaves

\* Save of a CalDAV calendar, whose window may be older than its deletion.
Edit(i) ==
  /\ up /\ loop.at = "idle" /\ kindOf[i] = "caldav"
  /\ Call("link", i, TRUE)
  /\ UNCHANGED <<storeVars, faults, tableVars, events, registered, form, confirm, cut, adrift>>
  /\ UILeaves

\* A step fails: a message, the window stays, and what was done stays done.
Abort ==
  /\ loop' = NoCall
  /\ cut' = IF loop.edit THEN cut ELSE cut \union {loop.id}

\* UpdateCalendar.
Link ==
  /\ loop.at = "link"
  /\ \/ /\ linked' = linked \union ({loop.id} \intersect rows)
        /\ Call("store", loop.id, loop.edit) /\ UNCHANGED <<cut, faults>>
     \/ Fault("sql") /\ Abort /\ UNCHANGED linked
  /\ UNCHANGED <<storeVars, kindOf, rows, events, registered, form, confirm, adrift>>
  /\ UILeaves

\* Mutant: the token is forgotten only when it has been stored.
StoreSecretKeeps ==
  /\ loop.at = "store"
  /\ LET i == loop.id
         oauth == kindOf[i] = "outlook"
     IN  /\ \/ /\ KeyringSet(Loop, i, IF oauth THEN form.token ELSE Password)
               /\ Call("index", i, loop.edit)
               /\ UNCHANGED <<cut, faults>>
            \/ Fault("keyring") /\ Abort /\ UNCHANGED storeVars
         /\ form' = form
  /\ UNCHANGED <<tableVars, events, registered, confirm, adrift>>
  /\ UILeaves

\* storeToken, which forgets the token in any case, or persistCalDAVCreds.
StoreSecret ==
  /\ loop.at = "store"
  /\ LET i == loop.id
         oauth == kindOf[i] = "outlook"
     IN  /\ \/ /\ KeyringSet(Loop, i, IF oauth THEN form.token ELSE Password)
               /\ Call("index", i, loop.edit)
               /\ UNCHANGED <<cut, faults>>
            \/ Fault("keyring") /\ Abort /\ UNCHANGED storeVars
         /\ form' = IF oauth THEN [form EXCEPT !.token = 0] ELSE form
  /\ UNCHANGED <<tableVars, events, registered, confirm, adrift>>
  /\ UILeaves

\* Mutant: a new calendar may be saved without a password.
KeepSecretAlways ==
  /\ loop.at = "store"
  /\ Call("register", loop.id, loop.edit)
  /\ UNCHANGED <<storeVars, faults, tableVars, events, registered, form, confirm, cut, adrift>>
  /\ UILeaves

\* A blank password keeps the stored one; a new user name needs it read back.
KeepSecret ==
  /\ loop.at = "store" /\ loop.edit
  /\ \/ Call("register", loop.id, TRUE) /\ UNCHANGED faults
     \/ keyring[loop.id] = 0 /\ loop' = NoCall /\ UNCHANGED faults
     \/ Fault("keyring") /\ loop' = NoCall
  /\ UNCHANGED <<storeVars, tableVars, events, registered, form, confirm, cut, adrift>>
  /\ UILeaves

IndexSecret ==
  /\ loop.at = "index"
  /\ \/ RecordIndex(Loop) /\ Call("register", loop.id, loop.edit) /\ UNCHANGED faults
     \/ RecordFails(Loop) /\ loop' = NoCall
  /\ UNCHANGED <<tableVars, events, registered, form, confirm, cut, adrift>>
  /\ UILeaves

\* RegisterCalendar reads the row again; the window closes whatever it says.
Register ==
  /\ loop.at = "register"
  /\ \/ registered' = registered \union ({loop.id} \intersect linked) /\ UNCHANGED faults
     \/ Fault("sql") /\ UNCHANGED registered
  /\ loop' = NoCall
  /\ form' = IF loop.edit THEN form ELSE NoForm
  /\ UNCHANGED <<storeVars, tableVars, events, confirm, cut, adrift>>
  /\ UILeaves

-------------------------------------------------------------------------------
(* The Delete windows.                                                     *)

\* The question depends on whether the calendar has events when it is asked;
\* if they cannot be counted it is taken to have none.
OpenConfirm(i) ==
  /\ up /\ loop.at = "idle" /\ i \in rows
  /\ \E empty \in BOOLEAN :
       /\ IF empty = (i \notin events) THEN UNCHANGED faults ELSE empty /\ Fault("sql")
       /\ confirm' = confirm \union
                     {[id |-> i, empty |-> empty, others |-> (rows \ {i}) \union {Home}]}
  /\ UNCHANGED <<storeVars, tableVars, events, registered, loop, form, cut, adrift>>
  /\ UILeaves

\* Delete, Delete events too, or Reassign to a calendar of the list the window
\* was opened with.  A window that is closed with Cancel is one never used.
Confirm(c) ==
  /\ loop.at = "idle"
  /\ confirm' = confirm \ {c}
  /\ \/ /\ c.empty /\ Call("row", c.id, FALSE)
        /\ adrift' = IF c.id \in events THEN adrift \union {c.id} ELSE adrift
     \/ ~c.empty /\ Call("events", c.id, FALSE) /\ UNCHANGED adrift
     \/ /\ ~c.empty /\ UNCHANGED adrift
        /\ \E to \in c.others : loop' = [at |-> "events", id |-> c.id, to |-> to, edit |-> FALSE]
  /\ UNCHANGED <<storeVars, faults, tableVars, events, registered, form, cut>>
  /\ UILeaves

\* Mutant: Reassign without a calendar selected.
MoveEventsUnselected ==
  /\ loop.at = "events"
  /\ events' = (events \ {loop.id}) \union {loop.to}
  /\ Call("row", loop.id, FALSE)
  /\ UNCHANGED <<storeVars, faults, adrift, tableVars, registered, form, confirm, cut>>
  /\ UILeaves

\* DeleteEventsByCalendar or ReassignCalendarEvents; an error is only logged.
MoveEvents ==
  /\ loop.at = "events"
  /\ LET moved == IF loop.id \in events /\ loop.to # Nobody THEN {loop.to} ELSE {} IN
       \/ /\ events' = (events \ {loop.id}) \union moved
          /\ adrift' = adrift \union (moved \ (rows \union {Home}))
          /\ UNCHANGED faults
       \/ Fault("sql") /\ adrift' = adrift \union {loop.id} /\ UNCHANGED events
  /\ Call("row", loop.id, FALSE)
  /\ UNCHANGED <<storeVars, tableVars, registered, form, confirm, cut>>
  /\ UILeaves

\* DeleteCalendar; an error is only logged.
DeleteRow ==
  /\ loop.at = "row"
  /\ \/ rows' = rows \ {loop.id} /\ linked' = linked \ {loop.id} /\ UNCHANGED faults
     \/ Fault("sql") /\ UNCHANGED <<rows, linked>>
  /\ Call("unregister", loop.id, FALSE)
  /\ UNCHANGED <<storeVars, kindOf, events, registered, form, confirm, cut, adrift>>
  /\ UILeaves

\* Mutant: the engine is not told.
UnregisterNot ==
  /\ loop.at = "unregister"
  /\ loop' = NoCall
  /\ UNCHANGED <<adrift, storeVars, faults, tableVars, events, registered, form, confirm, cut>>
  /\ UILeaves

\* UnregisterCalendar; a sync in flight goes on.
Unregister ==
  /\ loop.at = "unregister"
  /\ registered' = registered \ {loop.id}
  /\ loop' = NoCall
  /\ adrift' = IF \E g \in Goroutines : sync[g].id = loop.id
               THEN adrift \union {loop.id} ELSE adrift
  /\ UNCHANGED <<storeVars, faults, tableVars, events, form, confirm, cut>>
  /\ UILeaves

CallStep ==
  \/ Link \/ StoreSecret \/ KeepSecret \/ IndexSecret \/ Register
  \/ MoveEvents \/ DeleteRow \/ Unregister

-------------------------------------------------------------------------------
(* The process.                                                            *)

\* It ends, in the midst of whatever its goroutines do.
Die ==
  /\ up /\ up' = FALSE
  /\ CutOff
  /\ sync' = [g \in Goroutines |-> NoSync]
  /\ registered' = {}
  /\ loop' = NoCall /\ form' = NoForm /\ confirm' = {}
  /\ login' = [k \in Logins |-> IF login[k].at = "new" THEN NoLogin ELSE EndedLogin]
  /\ stale' = stale \union {sync[g].id : g \in {h \in Goroutines : sync[h].at = "rotate"}}
  /\ cut' = IF loop.at \in {"link", "store"} /\ ~loop.edit THEN cut \union {loop.id} ELSE cut
  /\ UNCHANGED <<tableVars, events, tokenVars, adrift>>

\* Quit waits for the callback, and for no Sync Now.
Quit == loop.at = "idle" /\ Die /\ UNCHANGED faults
Crash == loop.at # "idle" /\ Die /\ Fault("crash")

\* BuildEngine registers what the table names.
Start ==
  /\ ~up /\ uninst # "purged"
  /\ up' = TRUE
  /\ registered' = linked
  /\ UNCHANGED <<storeVars, faults, tableVars, events, sync, uiVars, tokenVars, historyVars>>

QueryAction ==
  /\ Query
  /\ UNCHANGED <<faults, up, tableVars, events, registered, sync, uiVars, tokenVars, historyVars>>

UninstallAction ==
  /\ Uninstall
  /\ UNCHANGED <<up, tableVars, events, registered, sync, uiVars, tokenVars, historyVars>>

\* Windows does not remove the file of a tray that runs.
PurgeAction ==
  /\ ~up /\ Purge
  /\ rows' = {} /\ linked' = {} /\ events' = {}
  /\ UNCHANGED <<faults, up, kindOf, registered, sync, uiVars, tokenVars, historyVars>>

WindowAction ==
  \/ OpenForm \/ CancelForm \/ Save("caldav") \/ Save("outlook")
  \/ \E i \in Ids : Edit(i) \/ OpenConfirm(i)
  \/ \E c \in confirm : Confirm(c)

OtherAction == Quit \/ QueryAction \/ \E g \in Goroutines : SyncNow(g)

Step ==
  \/ \E g \in Goroutines : Visit(g) \/ SyncStep(g)
  \/ Connect
  \/ \E m \in Logins : Callback(m) \/ LoginStep(m)
  \/ CallStep
  \/ Crash \/ Start
  \/ UninstallAction \/ PurgeAction

Next ==
  \/ Move(1) /\ WindowAction
  \/ Move(2) /\ OtherAction
  \/ Step /\ UNCHANGED moves

Spec == Init /\ [][Next]_vars

-------------------------------------------------------------------------------
(* A connected Outlook calendar stays connected: the refresh token in the  *)
(* keyring is one the server takes, however syncs of the engine and of a   *)
(* throwaway engine interleave, while none of them has a new one to store. *)
(* A lost reply, a keyring that fails and an exit at that moment end it.   *)
StayConnected ==
  \A i \in Ids :
    kindOf[i] = "outlook" /\ keyring[i] # 0
      => \/ keyring[i] \in accepted
         \/ i \in stale
         \/ \E g \in Goroutines : sync[g].id = i /\ sync[g].at = "rotate"

(* One refresh token serves one calendar: two that shared it would rotate  *)
(* it away from each other.                                                *)
OneHolder ==
  \A i, j \in Ids : keyring[i] \in Tokens /\ keyring[i] = keyring[j] => i = j

(* A synced calendar has its credentials, unless its save was cut short or *)
(* uninstall has run: the engine never syncs one without.                  *)
RowHasSecret ==
  \A i \in rows :
    keyring[i] # 0 \/ i \in cut \/ uninst # "off" \/ (loop.id = i /\ loop.at \in {"link", "store"})

(* CONTEXT.md: an event belongs to exactly one calendar.  So it does but   *)
(* for the ways `adrift' lists: a statement that failed; a count or a list *)
(* of calendars out of date when its Delete window is used; a sync that    *)
(* was under way when the calendar went.                                   *)
EventsBelong == events \subseteq rows \union {Home} \union adrift
===============================================================================
