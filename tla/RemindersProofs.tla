---------------------------- MODULE RemindersProofs ----------------------------
(***************************************************************************)
(* Reminders are shown once per session and in time, for any events, any   *)
(* interval and window, and any number of failures the window has room for.*)
(***************************************************************************)
EXTENDS Reminders, TLAPS

\* What the daemon remembers is lost when it stops; what a poll read is gone
\* when it ends.
Lifetimes ==
  /\ phase # "show" => batch = {}
  /\ phase = "down" => /\ notified = {} /\ moved = {}
                       /\ shown = [i \in Events |-> <<>>]

\* The clock never passes the ticker, which is less than an interval away.
Punctual ==
  /\ phase = "wait" => clock <= next /\ next <= clock + Interval
  /\ phase \in {"query", "show"} => clock = next

\* One row per event, as its event is unless that was written since.
BatchIsFresh ==
  /\ \A e, f \in batch : e.id = f.id => e = f
  /\ \A e \in batch :
       reminder[e.id] \in Nat => e.id \in moved \/ reminder[e.id] = e.at

\* Only what is marked was shown, and it was marked at once.
ShownIsMarked ==
  \A i \in Events : Len(shown[i]) <= 1 /\ (i \notin notified => Len(shown[i]) = 0)

\* The poll that will see the reminder of i next comes early enough for all
\* failures so far to have been in its window, and one poll to be left.
OnSchedule(i) ==
  LET poll == IF phase = "show" /\ ~Reading(i) THEN next + Interval ELSE next
  IN  poll + Window <= reminder[i] + Interval * failures + Interval

Pending ==
  phase # "down" =>
    \A i \in Events :
      reminder[i] \in Nat /\ i \notin late \union moved =>
        \/ WasShown(i, reminder[i])
        \/ i \notin notified /\ OnSchedule(i)

IInv == TypeOK /\ Lifetimes /\ Punctual /\ BatchIsFresh /\ ShownIsMarked /\ Pending

USE LoopAssumption, SavesAssumption, TimesAssumption, BoundsAssumption, NullAssumption

(* A save, by whomever, leaves the preferences well-formed.                *)
LEMMA SettingsTyped == SettingsTypeOK /\ [SettingsNext]_settingsVars => SettingsTypeOK'
<1> SUFFICES ASSUME SettingsTypeOK, [SettingsNext]_settingsVars PROVE SettingsTypeOK'
  OBVIOUS
<1> USE DEF SettingsTypeOK, Config, Default, Zero, Idle, Saver, Savers, Tabs, StartSave, Load
<1>1. CASE OpenSettings
  BY <1>1 DEF OpenSettings
<1>2. CASE SaveNotifications
  BY <1>2 DEF SaveNotifications
<1>3. CASE SaveAppearance
  BY <1>3 DEF SaveAppearance
<1>4. ASSUME NEW v \in BOOLEAN, SetMuted(v) PROVE SettingsTypeOK'
  BY <1>4 DEF SetMuted
<1>5. ASSUME NEW s \in Savers, Persist(s) PROVE SettingsTypeOK'
  BY <1>5 DEF Persist
<1>6. ASSUME NEW s \in Savers, CreateFile(s) PROVE SettingsTypeOK'
  BY <1>6 DEF CreateFile, Empty
<1>7. ASSUME NEW s \in Savers, WriteFile(s) PROVE SettingsTypeOK'
  <2>1. saver[s].cfg \in Config /\ Default \in Config
    OBVIOUS
  <2>2. file' \in [state : {"empty", "garbled", "complete"}, cfg : Config]
    <3> HIDE DEF Config, Default
    <3> QED
      BY <1>7, <2>1 DEF WriteFile, Complete, Garbled
  <2>3. saver' \in [Savers -> Saver]
    BY <1>7 DEF WriteFile
  <2> QED
    BY <1>7, <2>2, <2>3 DEF WriteFile
<1>8. CASE UNCHANGED settingsVars
  BY <1>8 DEF settingsVars
<1> QED
  BY <1>1, <1>2, <1>3, <1>4, <1>5, <1>6, <1>7, <1>8 DEF SettingsNext

LEMMA InitInv == Init => IInv
<1> SUFFICES ASSUME Init PROVE IInv
  OBVIOUS
<1> USE DEF Init
<1>1. SettingsTypeOK
  <2>1. Zero \in Config
    BY DEF Zero, Config
  <2>2. PICK c \in Config : file = Complete(c) /\ tab = [t \in Tabs |-> c]
    BY Zenon DEF SettingsInit
  <2>3. file \in [state : {"empty", "garbled", "complete"}, cfg : Config]
    BY <2>2 DEF Complete
  <2>4. saver \in [Savers -> Saver]
    BY <2>1 DEF SettingsInit, Idle, Saver
  <2>5. tab \in [Tabs -> Config]
    BY <2>2
  <2>6. saves \in 0..MaxSaves
    BY DEF SettingsInit
  <2> QED
    BY <2>3, <2>4, <2>5, <2>6 DEF SettingsTypeOK
<1>2. TypeOK
  BY <1>1 DEF TypeOK, Config, Zero
<1>3. Lifetimes /\ Punctual /\ BatchIsFresh /\ ShownIsMarked /\ Pending
  BY DEF Lifetimes, Punctual, BatchIsFresh, ShownIsMarked, Pending
<1> QED
  BY <1>2, <1>3 DEF IInv

(* A product with the number of failures, which the margin bounds.         *)
LEMMA Margin == ASSUME TypeOK
                PROVE  /\ Interval * failures \in Nat
                       /\ Interval * (failures + 1) = Interval * failures + Interval
                       /\ Interval * failures + Interval <= Window
<1>1. failures \in 0..MaxFailures
  BY DEF TypeOK
<1>2. DEFINE d == MaxFailures - failures
<1>3. d \in Nat /\ Interval * d \in Nat
  BY <1>1
<1>4. Interval * (MaxFailures + 1) = Interval * failures + Interval * d + Interval
  BY <1>1
<1>5. Interval * failures \in Nat /\ Interval * (failures + 1) = Interval * failures + Interval
  BY <1>1
<1> QED
  BY <1>3, <1>4, <1>5, MarginAssumption

(* A reminder that is still to come has not passed.                        *)
LEMMA InTime == ASSUME TypeOK, Punctual, phase # "down",
                       NEW i \in Events, reminder[i] \in Nat, OnSchedule(i)
                PROVE  clock <= reminder[i]
<1>1. next + Window <= reminder[i] + Interval * failures + Interval
  BY Margin DEF OnSchedule, TypeOK
<1>2. next <= reminder[i]
  BY <1>1, Margin DEF TypeOK
<1> QED
  BY <1>2 DEF Punctual, TypeOK

(* A write of event i leaves the others as they are, and i is either moved  *)
(* or has a whole window to go.                                            *)
LEMMA WriteInv ==
  ASSUME IInv, NEW i \in Events, NEW value \in Nat \union {Null, Gone},
         reminder' = [reminder EXCEPT ![i] = value], UNCHANGED <<daemonVars, clock>>,
         late' \ {i} = late \ {i}, moved' \ {i} = moved \ {i},
         value \in Nat => /\ i \in notified \/ Reading(i) => i \in moved'
                          /\ i \notin late' => clock + Window <= value
  PROVE  BatchIsFresh' /\ Pending'
<1>1. /\ reminder'[i] = value /\ \A j \in Events \ {i} : reminder'[j] = reminder[j]
      /\ \A j \in Events \ {i} : (j \in late' <=> j \in late) /\ (j \in moved' <=> j \in moved)
  BY DEF IInv, TypeOK
<1>2. /\ phase' = phase /\ next' = next /\ batch' = batch /\ notified' = notified
      /\ failures' = failures /\ shown' = shown /\ \A j : Reading(j)' <=> Reading(j)
  BY DEF daemonVars, Reading
<1>3. BatchIsFresh'
  <2> SUFFICES ASSUME NEW e \in batch, reminder'[e.id] \in Nat
               PROVE  e.id \in moved' \/ reminder'[e.id] = e.at
    BY <1>2 DEF IInv, BatchIsFresh
  <2>1. e.id \in Events
    BY DEF IInv, TypeOK, Row
  <2>2. CASE e.id = i
    BY <1>1, <2>2 DEF Reading
  <2>3. CASE e.id # i
    BY <1>1, <2>1, <2>3 DEF IInv, BatchIsFresh
  <2> QED
    BY <2>2, <2>3
<1>4. Pending'
  <2> SUFFICES ASSUME phase # "down", NEW j \in Events, reminder'[j] \in Nat, j \notin late' \union moved'
               PROVE  WasShown(j, reminder[j])' \/ (j \notin notified /\ OnSchedule(j)')
    BY <1>2 DEF Pending
  <2>1. CASE j = i
    <3>1. j \notin notified /\ ~Reading(j) /\ clock + Window <= value /\ value \in Nat
      BY <1>1, <2>1
    <3>2. next \in Nat /\ clock \in Nat /\ next <= clock + Interval /\ (phase = "show" => next = clock)
      BY DEF IInv, TypeOK, Punctual
    <3>3. Interval * failures \in Nat
      BY Margin DEF IInv
    <3>4. next + Window <= value + Interval * failures + Interval
          /\ (phase = "show" => next + Interval + Window <= value + Interval * failures + Interval)
      <4> DEFINE delay == Interval * failures
      <4>1. delay \in Nat
        BY <3>3
      <4> HIDE DEF delay
      <4>2. next + Window <= value + delay + Interval
            /\ (phase = "show" => next + Interval + Window <= value + delay + Interval)
        BY <3>1, <3>2, <4>1
      <4> QED
        BY <4>2 DEF delay
    <3>5. OnSchedule(j)'
      BY <1>1, <1>2, <2>1, <3>4 DEF OnSchedule
    <3> QED
      BY <3>1, <3>5
  <2>2. CASE j # i
    <3>1. reminder'[j] = reminder[j] /\ j \notin late \union moved
      BY <1>1, <2>2
    <3>2. WasShown(j, reminder[j]) \/ (j \notin notified /\ OnSchedule(j))
      BY <3>1 DEF IInv, Pending
    <3>3. (WasShown(j, reminder[j])' <=> WasShown(j, reminder[j])) /\ (OnSchedule(j)' <=> OnSchedule(j))
      BY <1>2, <3>1 DEF WasShown, OnSchedule
    <3> QED
      BY <3>2, <3>3
  <2> QED
    BY <2>1, <2>2
<1> QED
  BY <1>3, <1>4

(* Every step preserves the invariant.                                     *)
LEMMA StepInv == IInv /\ [Next]_vars => IInv'
<1> SUFFICES ASSUME IInv, [Next]_vars PROVE IInv'
  OBVIOUS
<1>2. ASSUME NEW i \in Events, NEW at \in 0..MaxTime, SetReminder(i, at) PROVE IInv'
  <2>0. SettingsTypeOK'
    BY <1>2, SettingsTyped DEF SetReminder, IInv, TypeOK
  <2>1. TypeOK' /\ Lifetimes' /\ Punctual' /\ ShownIsMarked'
    <3>1. TypeOK'
      BY <1>2, <2>0 DEF SetReminder, IInv, TypeOK, daemonVars
    <3>2. phase # "down" \/ (notified = {} /\ batch = {} /\ moved = {})
      BY DEF IInv, Lifetimes
    <3>3. Lifetimes'
      BY <1>2, <3>2 DEF SetReminder, IInv, Lifetimes, Reading, daemonVars
    <3>4. Punctual' /\ ShownIsMarked'
      BY <1>2 DEF SetReminder, IInv, Punctual, ShownIsMarked, daemonVars
    <3> QED
      BY <3>1, <3>3, <3>4
  <2>2. /\ reminder' = [reminder EXCEPT ![i] = at] /\ UNCHANGED <<daemonVars, clock>>
        /\ late' \ {i} = late \ {i} /\ moved' \ {i} = moved \ {i}
        /\ i \in notified \/ Reading(i) => i \in moved'
        /\ i \notin late' => clock + Window <= at
    BY <1>2 DEF SetReminder, IInv, TypeOK
  <2>3. at \in Nat \union {Null, Gone}
    OBVIOUS
  <2> QED
    BY <2>1, <2>2, <2>3, WriteInv DEF IInv
<1>3. ASSUME NEW i \in Events, ClearReminder(i) \/ DeleteEvent(i) PROVE IInv'
  <2>0. SettingsTypeOK'
    BY <1>3, SettingsTyped DEF ClearReminder, DeleteEvent, IInv, TypeOK
  <2>1. TypeOK' /\ Lifetimes' /\ Punctual' /\ ShownIsMarked'
    BY <1>3, <2>0 DEF ClearReminder, DeleteEvent, IInv, TypeOK, Lifetimes, Punctual, ShownIsMarked, daemonVars
  <2>2. PICK value \in {Null, Gone} :
          /\ reminder' = [reminder EXCEPT ![i] = value] /\ UNCHANGED <<daemonVars, clock>>
          /\ late' \ {i} = late \ {i} /\ moved' \ {i} = moved \ {i}
    BY <1>3 DEF ClearReminder, DeleteEvent
  <2>3. value \in Nat \union {Null, Gone} /\ value \notin Nat
    OBVIOUS
  <2> QED
    BY <2>1, <2>2, <2>3, WriteInv DEF IInv
<1> USE DEF IInv, TypeOK, Lifetimes, Punctual, BatchIsFresh, ShownIsMarked, Pending,
            Reading, WasShown, OnSchedule, Row, Imminent, daemonVars
<1>0. /\ Interval * failures \in Nat
      /\ Interval * (failures + 1) = Interval * failures + Interval
      /\ Interval * failures + Interval <= Window
  BY Margin
<1>1. CASE SettingsNext /\ UNCHANGED <<daemonVars, clock, reminder, writes, late, moved>>
  <2>1. SettingsTypeOK'
    BY <1>1, SettingsTyped
  <2> QED
    BY <1>1, <2>1
<1>4. CASE StartDaemon
  <2> USE <1>4 DEF StartDaemon
  <2>1. SettingsTypeOK'
    BY SettingsTyped
  <2>2. TypeOK' /\ Lifetimes' /\ Punctual'
    BY <2>1
  <2>3. BatchIsFresh' /\ ShownIsMarked'
    OBVIOUS
  <2>4. Pending'
    BY <1>0
  <2> QED
    BY <2>2, <2>3, <2>4
<1>5. CASE StopDaemon
  <2> USE <1>5 DEF StopDaemon, Zero, Config
  <2>1. SettingsTypeOK'
    BY SettingsTyped
  <2>2. TypeOK' /\ Lifetimes' /\ Punctual'
    BY <2>1
  <2>3. BatchIsFresh' /\ ShownIsMarked'
    OBVIOUS
  <2>4. Pending'
    BY <1>0
  <2> QED
    BY <2>2, <2>3, <2>4
<1>6. CASE Poll
  <2> USE <1>6 DEF Poll, Load, SettingsTypeOK
  <2>1. SettingsTypeOK'
    BY SettingsTyped
  <2>2. TypeOK' /\ Lifetimes' /\ Punctual'
    BY <2>1
  <2>3. BatchIsFresh' /\ ShownIsMarked'
    OBVIOUS
  <2>4. Pending'
    BY <1>0
  <2> QED
    BY <2>2, <2>3, <2>4
<1>7. CASE Query
  <2> USE <1>7 DEF Query, Due
  <2>1. SettingsTypeOK'
    BY SettingsTyped
  <2>2. TypeOK' /\ Lifetimes' /\ Punctual'
    BY <2>1
  <2>3. BatchIsFresh' /\ ShownIsMarked'
    OBVIOUS
  <2>4. Pending'
    <3> SUFFICES ASSUME NEW i \in Events, reminder[i] \in Nat, i \notin late \union moved,
                        ~WasShown(i, reminder[i])
                 PROVE  i \notin notified /\ OnSchedule(i)'
      OBVIOUS
    <3>1. i \notin notified /\ next + Window <= reminder[i] + Interval * failures + Interval
      OBVIOUS
    <3>2. CASE reminder[i] \in clock..(clock + Window)
      <4>1. [id |-> i, at |-> reminder[i]] \in batch'
        BY <3>2
      <4>2. Reading(i)'
        BY <4>1
      <4> QED
        BY <3>1, <4>2
    <3>3. CASE reminder[i] \notin clock..(clock + Window)
      <4>1. next = clock /\ clock \in Nat /\ clock <= reminder[i]
        BY <3>1, <1>0
      <4>2. clock + Window < reminder[i]
        BY <3>3, <4>1
      <4>3. next + Interval + Window <= reminder[i] + Interval * failures + Interval
        BY <4>1, <4>2, <1>0
      <4> QED
        BY <3>1, <4>3
    <3> QED
      BY <3>2, <3>3
  <2> QED
    BY <2>2, <2>3, <2>4
<1>8. CASE QueryFails
  <2> USE <1>8 DEF QueryFails, Fails
  <2>1. SettingsTypeOK'
    BY SettingsTyped
  <2>2. TypeOK' /\ Lifetimes' /\ Punctual'
    BY <2>1
  <2>3. BatchIsFresh' /\ ShownIsMarked'
    OBVIOUS
  <2>4. Pending'
    BY <1>0
  <2> QED
    BY <2>2, <2>3, <2>4
<1>9. ASSUME NEW e \in batch, SkipNotified(e) PROVE IInv'
  <2> USE <1>9 DEF SkipNotified, Takes
  <2>1. SettingsTypeOK'
    BY SettingsTyped
  <2>2. TypeOK' /\ Lifetimes' /\ Punctual'
    BY <2>1
  <2>3. BatchIsFresh' /\ ShownIsMarked'
    OBVIOUS
  <2>4. \A i \in Events : i \notin notified' => i # e.id
    OBVIOUS
  <2>5. \A i \in Events : i \notin notified' => (Reading(i)' <=> Reading(i))
    BY <2>4
  <2>6. Pending'
    <3> HIDE DEF Reading
    <3> QED
      BY <2>5
  <2> QED
    BY <2>2, <2>3, <2>6
<1>10. ASSUME NEW e \in batch, SkipDisabled(e) PROVE IInv'
  <2> USE <1>10 DEF SkipDisabled, Takes
  <2>1. SettingsTypeOK'
    BY SettingsTyped
  <2>2. TypeOK' /\ Lifetimes' /\ Punctual'
    BY <2>1
  <2>3. BatchIsFresh' /\ ShownIsMarked'
    OBVIOUS
  <2>4. \A i \in Events : i \notin notified' => i # e.id
    OBVIOUS
  <2>5. \A i \in Events : i \notin notified' => (Reading(i)' <=> Reading(i))
    BY <2>4
  <2>6. Pending'
    <3> HIDE DEF Reading
    <3> QED
      BY <2>5
  <2> QED
    BY <2>2, <2>3, <2>6
<1>11. ASSUME NEW e \in batch, Notify(e) PROVE IInv'
  <2> USE <1>11 DEF Notify, Takes
  <2>1. SettingsTypeOK'
    BY SettingsTyped
  <2>2. TypeOK' /\ Lifetimes' /\ Punctual'
    BY <2>1
  <2>3. BatchIsFresh' /\ ShownIsMarked'
    OBVIOUS
  <2>4. Pending'
    <3> SUFFICES ASSUME NEW i \in Events, reminder[i] \in Nat, i \notin late \union moved,
                        ~WasShown(i, reminder[i])'
                 PROVE  (i \notin notified /\ OnSchedule(i))'
      OBVIOUS
    <3>1. i # e.id
      <4>1. CASE i = e.id
        <5>1. reminder[i] = e.at /\ e.at \in Nat
          BY <4>1
        <5>2. shown'[i] = Append(shown[i], e.at)
          BY <4>1
        <5>3. Len(shown'[i]) = Len(shown[i]) + 1 /\ shown'[i][Len(shown[i]) + 1] = e.at
          BY <5>1, <5>2
        <5> QED
          BY <5>1, <5>3
      <4> QED
        BY <4>1
    <3>2. Reading(i)' <=> Reading(i)
      BY <3>1
    <3>3. WasShown(i, reminder[i])' <=> WasShown(i, reminder[i])
      BY <3>1
    <3> QED
      BY <3>1, <3>2, <3>3
  <2> QED
    BY <2>2, <2>3, <2>4
<1>12. ASSUME NEW e \in batch, NotifyFails(e) PROVE IInv'
  <2> USE <1>12 DEF NotifyFails, Takes, Fails
  <2>1. SettingsTypeOK'
    BY SettingsTyped
  <2>2. TypeOK' /\ Lifetimes' /\ Punctual'
    BY <2>1
  <2>3. BatchIsFresh' /\ ShownIsMarked'
    OBVIOUS
  <2>4. Pending'
    BY <1>0
  <2> QED
    BY <2>2, <2>3, <2>4
<1>13. CASE EndPoll
  <2> USE <1>13 DEF EndPoll, Zero, Config
  <2>1. SettingsTypeOK'
    BY SettingsTyped
  <2>2. TypeOK' /\ Lifetimes' /\ Punctual'
    BY <2>1
  <2>3. BatchIsFresh' /\ ShownIsMarked'
    OBVIOUS
  <2>4. Pending'
    BY <1>0
  <2> QED
    BY <2>2, <2>3, <2>4
<1>14. CASE Tick
  <2> USE <1>14 DEF Tick
  <2>1. SettingsTypeOK'
    BY SettingsTyped
  <2>2. TypeOK' /\ Lifetimes' /\ Punctual'
    BY <2>1
  <2>3. BatchIsFresh' /\ ShownIsMarked'
    OBVIOUS
  <2>4. Pending'
    BY <1>0
  <2> QED
    BY <2>2, <2>3, <2>4
<1>15. CASE Sleep
  <2> USE <1>15 DEF Sleep
  <2>1. SettingsTypeOK'
    BY SettingsTyped
  <2>2. TypeOK' /\ Lifetimes' /\ Punctual'
    BY <2>1
  <2>3. BatchIsFresh' /\ ShownIsMarked'
    OBVIOUS
  <2>4. Pending'
    BY <1>0
  <2> QED
    BY <2>2, <2>3, <2>4
<1>16. CASE UNCHANGED vars
  <2>1. SettingsTypeOK'
    BY <1>16, SettingsTyped DEF vars
  <2> QED
    BY <1>16, <2>1 DEF vars
<1> QED
  BY <1>1, <1>2, <1>3, <1>4, <1>5, <1>6, <1>7, <1>8, <1>9, <1>10, <1>11, <1>12, <1>13,
     <1>14, <1>15, <1>16 DEF Next

LEMMA Invariant == Spec => []IInv
<1>1. Init => IInv
  BY InitInv
<1>2. IInv /\ [Next]_vars => IInv'
  BY StepInv
<1> QED
  BY <1>1, <1>2, PTL DEF Spec

(* Every variable of the daemon and of the preferences keeps its type.     *)
THEOREM TypeCorrect == Spec => []TypeOK
<1>1. IInv => TypeOK
  BY DEF IInv
<1> QED
  BY <1>1, Invariant, PTL

(* checkReminders shows an event at most once between New and Stop.        *)
THEOREM ShownOnce == Spec => []OncePerSession
<1>1. IInv => OncePerSession
  BY DEF IInv, ShownIsMarked, OncePerSession
<1> QED
  BY <1>1, Invariant, PTL

(* checkReminders shows what was set a window ahead before its time, for   *)
(* every Interval and Window, though as many attempts fail as the window   *)
(* has polls but one.                                                      *)
THEOREM ShownByItsTime == Spec => []ShownInTime
<1>1. IInv => ShownInTime
  <2> SUFFICES ASSUME IInv, phase # "down", NEW i \in Events, reminder[i] \in Nat,
                      clock > reminder[i], ~WasShown(i, reminder[i]), i \notin late \union moved
               PROVE  FALSE
    BY DEF ShownInTime
  <2>1. OnSchedule(i)
    BY DEF IInv, Pending
  <2>2. clock <= reminder[i]
    BY <2>1, InTime DEF IInv
  <2> QED
    BY <2>2 DEF IInv, TypeOK
<1> QED
  BY <1>1, Invariant, PTL
================================================================================
