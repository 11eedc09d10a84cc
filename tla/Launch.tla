-------------------------------- MODULE Launch --------------------------------
(***************************************************************************)
(* Starting the program (main.go): the modes that just open the database,  *)
(* and the tray, of which Windows runs one.  A named mutex settles which   *)
(* launch is the primary, and a named pipe carries the .ics path of a later*)
(* launch to it (internal/singleinstance), where the pipe's goroutine has  *)
(* the Import Dialog opened (ui/import_dialog.go) in the event loop of     *)
(* RunTray (ui/tray.go).                                                   *)
(***************************************************************************)
EXTENDS Schema

CONSTANT Nobody  \* no process
ASSUME NobodyAssumption == Nobody \notin Procs

VARIABLES
  mode,     \* per process, whether it is a tray
  path,     \* ... it was given an .ics path that nobody has taken yet
  alone,    \* ... it became the primary without the mutex, Acquire having failed
  handles,  \* who has a handle of the mutex; it exists while there is one
  pipe,     \* who listens on the pipe
  inbox,    \* per listener, the launches whose path it has not read
  server,   \* per tray, the pipe's goroutine: the launch it serves
  fyneApp,  \* per tray, the variable fyneApp; 0 for nil
  running,  \* per tray, the app whose Run it calls
  posted,   \* per tray, windows the event loop is to open, and in which app
  opened    \* launches whose Import Dialog has been shown

launchVars == <<mode, path, alone>>
ipcVars == <<handles, pipe, inbox>>
appVars == <<server, fyneApp, running, posted, opened>>
vars == <<schemaVars, launchVars, ipcVars, appVars>>

Places == InInitDB \union
  {"new", "listen", "second", "forward", "ready", "create", "loop",
   "unlisten", "release", "over"}
\* After InitDB, with the database in use.
Past == {"ready", "create", "loop"}
\* A tray that is to run, runs, or has not yet given up the mutex.
Primary == InInitDB \union Past \union {"listen", "unlisten", "release"}

Idle == [at |-> "idle", of |-> Nobody, app |-> 0]

TypeOK ==
  /\ SchemaTypeOK(Places)
  /\ mode \in [Procs -> {"tray", "other"}]
  /\ path \in [Procs -> BOOLEAN]
  /\ alone \subseteq Procs /\ handles \subseteq Procs
  /\ pipe \in Procs \union {Nobody}
  /\ inbox \in [Procs -> SUBSET Procs]
  /\ server \in [Procs -> {Idle} \union [at : {"app", "create", "post"}, of : Procs, app : 0..2]]
  /\ fyneApp \in [Procs -> 0..2] /\ running \in [Procs -> 0..2]
  /\ posted \in [Procs -> SUBSET (Procs \X (0..2))]
  /\ opened \subseteq Procs

Init ==
  /\ SchemaInit
  /\ mode = [p \in Procs |-> "other"] /\ path = [p \in Procs |-> FALSE] /\ alone = {}
  /\ handles = {} /\ pipe = Nobody /\ inbox = [p \in Procs |-> {}]
  /\ server = [p \in Procs |-> Idle]
  /\ fyneApp = [p \in Procs |-> 0] /\ running = [p \in Procs |-> 0]
  /\ posted = [p \in Procs |-> {}] /\ opened = {}

Move(p, place) == Goto(p, place) /\ UNCHANGED <<dbVars, version, stmt>>

-------------------------------------------------------------------------------
(* Acquire and Forward.                                                    *)

\* The next process to be started.
Starts(p) == at[p] = "new" /\ \A q \in Procs : q < p => at[q] # "new"

\* Mutant: an existing mutex is no reason to bow out.
CreateMutexAnyway(p, withPath) ==
  /\ Starts(p)
  /\ mode' = [mode EXCEPT ![p] = "tray"]
  /\ path' = [path EXCEPT ![p] = withPath]
  /\ handles' = handles \union {p}
  /\ Move(p, "listen")
  /\ UNCHANGED <<faults, alone, pipe, inbox, appVars>>

\* CreateMutexW gives a handle in any case, and says if the mutex was there.
CreateMutex(p, withPath) ==
  /\ Starts(p)
  /\ mode' = [mode EXCEPT ![p] = "tray"]
  /\ path' = [path EXCEPT ![p] = withPath]
  /\ handles' = handles \union {p}
  /\ Move(p, IF handles = {} THEN "listen" ELSE "second")
  /\ UNCHANGED <<faults, alone, pipe, inbox, appVars>>

\* The other modes go straight to InitDB.
StartOther(p) ==
  /\ Starts(p)
  /\ Move(p, "open")
  /\ UNCHANGED <<faults, launchVars, ipcVars, appVars>>

ListenPipe(p) ==
  /\ at[p] = "listen" /\ pipe = Nobody
  /\ pipe' = p
  /\ Move(p, "open")
  /\ UNCHANGED <<faults, launchVars, handles, inbox, appVars>>

\* Acquire closes the mutex and returns the error; the tray starts all the same.
ListenFails(p) ==
  /\ at[p] = "listen"
  /\ Fault("pipe")
  /\ handles' = handles \ {p}
  /\ alone' = alone \union {p}
  /\ Move(p, "open")
  /\ UNCHANGED <<mode, path, pipe, inbox, appVars>>

\* A secondary drops its handle, and forwards its path if it has one.
BowOut(p) ==
  /\ at[p] = "second"
  /\ handles' = handles \ {p}
  /\ Move(p, IF path[p] THEN "forward" ELSE "over")
  /\ UNCHANGED <<faults, launchVars, pipe, inbox, appVars>>

\* Dial, write, close.  Without a listener the path is lost with a warning.
Forward(p) ==
  /\ at[p] = "forward"
  /\ path' = [path EXCEPT ![p] = FALSE]
  /\ inbox' = IF pipe = Nobody THEN inbox ELSE [inbox EXCEPT ![pipe] = @ \union {p}]
  /\ Move(p, "over")
  /\ UNCHANGED <<faults, mode, alone, handles, pipe, appVars>>

\* So it is when the listener does not accept within dialTimeout.
ForwardFails(p) ==
  /\ at[p] = "forward"
  /\ Fault("pipe")
  /\ path' = [path EXCEPT ![p] = FALSE]
  /\ Move(p, "over")
  /\ UNCHANGED <<mode, alone, ipcVars, appVars>>

-------------------------------------------------------------------------------
(* serve: one connection after the other, each until OpenImportPath has    *)
(* posted its window.  getFyneApp creates the app when fyneApp is nil, with*)
(* no lock between its two callers.                                        *)

\* The process lives: its goroutines may run.
Alive(p) == at[p] \in Primary

Accept(p) ==
  /\ Alive(p) /\ server[p].at = "idle"
  /\ \E m \in inbox[p] :
       /\ inbox' = [inbox EXCEPT ![p] = @ \ {m}]
       /\ server' = [server EXCEPT ![p] = [at |-> "app", of |-> m, app |-> 0]]
  /\ UNCHANGED <<schemaVars, launchVars, handles, pipe, fyneApp, running, posted, opened>>

\* getFyneApp of the goroutine: the test of the variable ...
ServerReadsApp(p) ==
  /\ Alive(p) /\ server[p].at = "app"
  /\ server' = [server EXCEPT ![p] = [at |-> IF fyneApp[p] = 0 THEN "create" ELSE "post",
                                     of |-> @.of, app |-> fyneApp[p]]]
  /\ UNCHANGED <<schemaVars, launchVars, ipcVars, fyneApp, running, posted, opened>>

\* ... and the assignment.
ServerCreatesApp(p) ==
  /\ Alive(p) /\ server[p].at = "create"
  /\ fyneApp' = [fyneApp EXCEPT ![p] = 2]
  /\ server' = [server EXCEPT ![p] = [at |-> "post", of |-> @.of, app |-> 2]]
  /\ UNCHANGED <<schemaVars, launchVars, ipcVars, running, posted, opened>>

\* fyne.Do(showPreviewWindow); an unreadable file is reported the same way.
Post(p) ==
  /\ Alive(p) /\ server[p].at = "post"
  /\ posted' = [posted EXCEPT ![p] = @ \union {<<server[p].of, server[p].app>>}]
  /\ server' = [server EXCEPT ![p] = Idle]
  /\ UNCHANGED <<schemaVars, launchVars, ipcVars, fyneApp, running, opened>>

Serve(p) == Accept(p) \/ ServerReadsApp(p) \/ ServerCreatesApp(p) \/ Post(p)

-------------------------------------------------------------------------------
(* RunTray, and the end of the other modes.                                *)

\* Where InitDB's error leads: RunTray returns and main releases the mutex.
Failed(p) ==
  IF mode[p] = "other" THEN "over" ELSE IF p \in alone THEN "over" ELSE "unlisten"

InitDBStep(p) ==
  /\ InitDB(p, Failed(p))
  /\ UNCHANGED <<launchVars, ipcVars, appVars>>

InitDBFails(p) ==
  /\ StatementFails(p, Failed(p))
  /\ UNCHANGED <<launchVars, ipcVars, appVars>>

\* The other modes do their work and end.
FinishOther(p) ==
  /\ at[p] = "ready" /\ mode[p] = "other"
  /\ Move(p, "over")
  /\ UNCHANGED <<faults, launchVars, ipcVars, appVars>>

\* getFyneApp of RunTray.
MainReadsApp(p) ==
  /\ at[p] = "ready" /\ mode[p] = "tray"
  /\ running' = [running EXCEPT ![p] = fyneApp[p]]
  /\ Move(p, IF fyneApp[p] = 0 THEN "create" ELSE "loop")
  /\ UNCHANGED <<faults, launchVars, ipcVars, server, fyneApp, posted, opened>>

MainCreatesApp(p) ==
  /\ at[p] = "create"
  /\ fyneApp' = [fyneApp EXCEPT ![p] = 1]
  /\ running' = [running EXCEPT ![p] = 1]
  /\ Move(p, "loop")
  /\ UNCHANGED <<faults, launchVars, ipcVars, server, posted, opened>>

\* openPendingImportPath, on a goroutine started just before Run.
OpenPending(p) ==
  /\ at[p] = "loop" /\ path[p]
  /\ path' = [path EXCEPT ![p] = FALSE]
  /\ posted' = [posted EXCEPT ![p] = @ \union {<<p, fyneApp[p]>>}]
  /\ UNCHANGED <<schemaVars, mode, alone, ipcVars, server, fyneApp, running, opened>>

\* Mutant: a posted window replaces the ones that wait.
ShowPreviewLatest(p) ==
  /\ at[p] = "loop"
  /\ \E w \in posted[p] :
       /\ posted' = [posted EXCEPT ![p] = {}]
       /\ opened' = IF w[2] = running[p] THEN opened \union {w[1]} ELSE opened
  /\ UNCHANGED <<schemaVars, launchVars, ipcVars, server, fyneApp, running>>

\* The event loop takes up what was posted.  A window of an app that does not
\* run is never drawn.
ShowPreview(p) ==
  /\ at[p] = "loop"
  /\ \E w \in posted[p] :
       /\ posted' = [posted EXCEPT ![p] = @ \ {w}]
       /\ opened' = IF w[2] = running[p] THEN opened \union {w[1]} ELSE opened
  /\ UNCHANGED <<schemaVars, launchVars, ipcVars, server, fyneApp, running>>

Quit(p) ==
  /\ at[p] = "loop"
  /\ Move(p, IF p \in alone THEN "over" ELSE "unlisten")
  /\ UNCHANGED <<faults, launchVars, ipcVars, appVars>>

\* release: the listener first ...
Unlisten(p) ==
  /\ at[p] = "unlisten"
  /\ pipe' = Nobody
  /\ inbox' = [inbox EXCEPT ![p] = {}]
  /\ Move(p, "release")
  /\ UNCHANGED <<faults, launchVars, handles, appVars>>

\* ... then the mutex.
Release(p) ==
  /\ at[p] = "release"
  /\ handles' = handles \ {p}
  /\ Move(p, "over")
  /\ UNCHANGED <<faults, launchVars, pipe, inbox, appVars>>

\* The system closes the handles of a process that dies.
Crash(p) ==
  /\ at[p] \notin {"new", "over"}
  /\ Fault("crash")
  /\ handles' = handles \ {p}
  /\ pipe' = IF pipe = p THEN Nobody ELSE pipe
  /\ inbox' = [inbox EXCEPT ![p] = {}]
  /\ Move(p, "over")
  /\ UNCHANGED <<launchVars, appVars>>

-------------------------------------------------------------------------------
\* What a process does by itself, once started.
Main(p) ==
  \/ ListenPipe(p) \/ BowOut(p) \/ Forward(p)
  \/ InitDBStep(p) \/ FinishOther(p)
  \/ MainReadsApp(p) \/ MainCreatesApp(p)
  \/ Unlisten(p) \/ Release(p)

Others(p) ==
  \/ StartOther(p) \/ \E withPath \in BOOLEAN : CreateMutex(p, withPath)
  \/ Quit(p)
  \/ ListenFails(p) \/ ForwardFails(p) \/ InitDBFails(p) \/ Crash(p)

Next ==
  \E p \in Procs :
    Main(p) \/ Serve(p) \/ OpenPending(p) \/ ShowPreview(p) \/ Others(p)

\* Nobody has to start the program, or to quit it.
Fairness ==
  \A p \in Procs :
    /\ WF_vars(Main(p)) /\ WF_vars(Serve(p))
    /\ WF_vars(OpenPending(p)) /\ WF_vars(ShowPreview(p))

Spec == Init /\ [][Next]_vars /\ Fairness

-------------------------------------------------------------------------------
(* InitDB seen from here: every running process is past it on the newest   *)
(* schema.                                                                 *)
SchemaIsCurrent == Migrated(Past)

(* ADR-0009: "only one tray instance runs at a time", from the moment it   *)
(* has the mutex to its release, but for a tray that runs without one.     *)
OneTray ==
  \A p, q \in Procs :
    /\ mode[p] = "tray" /\ at[p] \in Primary /\ p \notin alone
    /\ mode[q] = "tray" /\ at[q] \in Primary /\ q \notin alone
    => p = q

\* The app that getFyneApp returns is the one that runs, and stays so.
AppSettled(p) == fyneApp[p] = running[p] /\ server[p].at # "create"

(* The path of a later launch is shown by the tray that runs: unless that  *)
(* tray quits, or something fails, or its two callers of getFyneApp have   *)
(* made an app each while it started.                                      *)
ForwardedIsOpened ==
  \A m \in Procs, n \in 0..MaxFaults :
    (/\ at[m] = "forward" /\ pipe # Nobody /\ at[pipe] = "loop"
     /\ AppSettled(pipe) /\ faults = n)
      ~> (m \in opened \/ faults > n \/ pipe = Nobody \/ at[pipe] # "loop")
===============================================================================
