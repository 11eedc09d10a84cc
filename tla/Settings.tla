------------------------------- MODULE Settings -------------------------------
(***************************************************************************)
(* The preferences in config.toml (internal/config/config.go) and those    *)
(* who read and write them: the tabs of the Settings window, each with the *)
(* copy it loaded when the window was built (ui/window.go), and goroutines *)
(* that persist the visible calendars or the selected view (ui/state.go).  *)
(*                                                                         *)
(* Everyone writes the whole file: os.Create empties it, then one write    *)
(* fills it.  Nothing serialises the writers but the event loop, and it    *)
(* only its own.  A preference is a field: desktop notifications, and the  *)
(* muted invites of one calendar; the others are like these two.           *)
(***************************************************************************)
EXTENDS Naturals

CONSTANTS Persisters,  \* goroutines that persist something
          Loop,        \* the event loop
          MaxSaves     \* bound: saves anyone starts

ASSUME LoopAssumption == Loop \notin Persisters
ASSUME SavesAssumption == MaxSaves \in Nat

VARIABLES
  file,    \* config.toml
  saver,   \* per writer, the Save it is in and what it writes
  tab,     \* the copies the tabs of the open Settings window hold
  saves    \* saves started

settingsVars == <<file, saver, tab, saves>>

Config == [desktop : BOOLEAN, muted : BOOLEAN]
Default == [desktop |-> TRUE, muted |-> FALSE]
\* What decoding an empty file leaves: Go's zero value, not Default().
Zero == [desktop |-> FALSE, muted |-> FALSE]

Tabs == {"notifications", "appearance"}
Savers == Persisters \union {Loop}
Saver == [step : {"idle", "create", "write"}, cfg : Config]
Idle == [step |-> "idle", cfg |-> Zero]
Empty == [state |-> "empty", cfg |-> Zero]
Garbled == [state |-> "garbled", cfg |-> Default]
Complete(cfg) == [state |-> "complete", cfg |-> cfg]

SettingsTypeOK ==
  /\ file \in [state : {"empty", "garbled", "complete"}, cfg : Config]
  /\ saver \in [Savers -> Saver]
  /\ tab \in [Tabs -> Config]
  /\ saves \in 0..MaxSaves

\* The Settings window has been opened.
SettingsInit ==
  /\ \E cfg \in Config : cfg.muted = FALSE /\ file = Complete(cfg) /\ tab = [t \in Tabs |-> cfg]
  /\ saver = [s \in Savers |-> Idle]
  /\ saves = 0

\* An empty file decodes without an error; one that does not parse gives way
\* to the defaults.
Load == file.cfg

StartSave(s, cfg) ==
  /\ saver[s].step = "idle"
  /\ saves < MaxSaves
  /\ saves' = saves + 1
  /\ saver' = [saver EXCEPT ![s] = [step |-> "create", cfg |-> cfg]]
  /\ UNCHANGED file

\* Every tab loads its own copy.
OpenSettings ==
  /\ saver[Loop].step = "idle"
  /\ tab' = [t \in Tabs |-> Load]
  /\ UNCHANGED <<file, saver, saves>>

\* Save of the Notifications tab, with the check box as the user left it.
SaveNotifications ==
  \E v \in BOOLEAN :
    /\ tab' = [tab EXCEPT !["notifications"].desktop = v]
    /\ StartSave(Loop, tab'["notifications"])

\* Save of a tab that sets neither (Appearance, General).
SaveAppearance ==
  /\ StartSave(Loop, tab["appearance"])
  /\ UNCHANGED tab

\* setMuted: loads the file anew.
SetMuted(v) ==
  /\ StartSave(Loop, [Load EXCEPT !.muted = v])
  /\ UNCHANGED tab

\* The goroutine of setCalendarVisible or of a view tab, or the end of the first
\* run's wizard on the event loop: load, change a field of their own, save.
Persist(s) ==
  /\ StartSave(s, Load)
  /\ UNCHANGED tab

\* os.Create ...
CreateFile(s) ==
  /\ saver[s].step = "create"
  /\ file' = Empty
  /\ saver' = [saver EXCEPT ![s].step = "write"]
  /\ UNCHANGED <<tab, saves>>

\* ... and the encoder's write, from offset 0.  If another writer has filled
\* the file meanwhile, the end of its text may stay behind.
WriteFile(s) ==
  /\ saver[s].step = "write"
  /\ \/ file' = Complete(saver[s].cfg)
     \/ file # Empty /\ file' = Garbled
  /\ saver' = [saver EXCEPT ![s] = Idle]
  /\ UNCHANGED <<tab, saves>>

SettingsNext ==
  \/ OpenSettings \/ SaveNotifications \/ SaveAppearance
  \/ \E v \in BOOLEAN : SetMuted(v)
  \/ \E s \in Savers : Persist(s) \/ CreateFile(s) \/ WriteFile(s)
===============================================================================
