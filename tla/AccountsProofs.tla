---------------------------- MODULE AccountsProofs ----------------------------
(***************************************************************************)
(* Proofs about Accounts, for any calendars, any number of goroutines that *)
(* sync them, any number of failures and of things the user does: uninstall *)
(* finds every secret, no row is without credentials, no event is left     *)
(* without a calendar, and no calendar without a token the server takes,   *)
(* but for the exceptions that the histories name.                         *)
(***************************************************************************)
EXTENDS Accounts, FiniteSetTheorems, TLAPS

USE NobodyAssumption, LoopAssumption

-------------------------------------------------------------------------------
(* The inductive invariant.                                                *)

\* Uninstall has yet to delete what it finds in the table, or it came late.
LeftCovers ==
  uninst = "delete" => \A i \in Ids : keyring[i] # 0 /\ i \in index => i \in left \union late

\* What is in the table after it was cleared came late.
ClearedIsLate == uninst = "done" => index \subseteq late

StoreShape ==
  /\ keyring = [i \in Ids |-> keyring[i]]
  /\ setting \in [Actors -> Ids \union {Nobody}]

StoreInv == StoreShape /\ Indexed /\ LeftCovers /\ ClearedIsLate

\* An actor whose entry is to be indexed is at that step.
Ties ==
  /\ setting[Loop] # Nobody => loop.at = "index"
  /\ \A g \in Goroutines : setting[g] # Nobody => sync[g].at = "index"

Shape ==
  /\ sync = [g \in Goroutines |-> sync[g]]
  /\ kindOf = [i \in Ids |-> kindOf[i]]
  /\ issued \in Nat
  /\ rows \subseteq Ids /\ linked \subseteq rows /\ registered \subseteq Ids
  /\ \A c \in confirm : c.id \in Ids /\ c.id \notin c.others

\* The callback the loop is in; a tray that does not run is in none.
LoopInv ==
  /\ loop.at # "idle" => loop.id \in Ids /\ loop.to # loop.id
  /\ loop.at \in {"link", "store"} =>
       kindOf[loop.id] = "caldav" \/ (kindOf[loop.id] = "outlook" /\ form.token # 0)
  /\ ~up => loop.at = "idle" /\ form = NoForm /\ confirm = {} /\ registered = {}

SyncInv ==
  \A g \in Goroutines :
    /\ sync[g].at # "idle" => up /\ sync[g].id \in Ids
    /\ sync[g].at = "rotate" => sync[g].token # 0

\* A calendar that is in the table, or is being deleted, or whose events are adrift.
Owned(i) == i \in rows \/ i \in adrift \/ (loop.at = "unregister" /\ loop.id = i)

\* Nothing inserts events of a calendar that is gone unnoticed.
OwnInv ==
  /\ EventsBelong
  /\ \A g \in Goroutines : sync[g].at # "idle" => Owned(sync[g].id)
  /\ \A i \in registered : Owned(i)
  /\ loop.at = "row" => loop.id \notin events \/ loop.id \in adrift

\* RowHasSecret, where a save that edits gets no exception.
RowInv ==
  \A i \in rows :
    keyring[i] # 0 \/ i \in cut \/ uninst # "off"
      \/ (loop.id = i /\ loop.at \in {"link", "store"} /\ ~loop.edit)

RestInv == Shape /\ LoopInv /\ SyncInv /\ OwnInv /\ RowInv

IInv == StoreInv /\ Ties /\ RestInv

-------------------------------------------------------------------------------
LEMMA InitInv == Init => IInv
<1> SUFFICES ASSUME Init PROVE IInv
  OBVIOUS
<1>1. PICK known \in SUBSET Ids, kind \in {"caldav", "outlook"} :
        /\ kindOf = [i \in Ids |-> IF i \in known THEN kind ELSE "none"]
        /\ rows = known /\ linked = known /\ registered = known /\ index = known
        /\ events \in {{Home}, {Home} \union known}
        /\ issued = IF kind = "outlook" THEN Cardinality(known) ELSE 0
        /\ keyring = [i \in Ids |-> IF i \notin known THEN 0
                                    ELSE IF kind = "outlook" THEN Cardinality({j \in known : j <= i})
                                    ELSE Password]
  BY DEF Init
<1>2. \A i \in known : IsFiniteSet({j \in known : j <= i}) /\ i \in {j \in known : j <= i}
  <2> TAKE i \in known
  <2>1. i \in Nat
    BY IdsAssumption
  <2>2. {j \in known : j <= i} \in SUBSET Ids
    OBVIOUS
  <2>3. IsFiniteSet({j \in known : j <= i})
    BY <2>2, IdsAssumption, FS_Subset
  <2> QED
    BY <2>1, <2>3
<1>3. \A i \in known : Cardinality({j \in known : j <= i}) # 0
  BY <1>2, FS_EmptySet
<1>4. IsFiniteSet(known)
  BY IdsAssumption, FS_Subset
<1>5. Cardinality(known) \in Nat
  BY <1>4, FS_CardinalityType
<1>6. Password # 0
  BY BoundsAssumption DEF Password
<1>7. \A i \in known : keyring[i] # 0
  BY <1>1, <1>3, <1>6
<1>8. /\ setting = [a \in Actors |-> Nobody] /\ uninst = "off" /\ up = TRUE
      /\ sync = [g \in Goroutines |-> NoSync] /\ loop = NoCall /\ confirm = {}
  BY DEF Init
<1>9. StoreInv
  <2>1. StoreShape
    BY <1>1, <1>8 DEF StoreShape
  <2>2. Indexed /\ LeftCovers /\ ClearedIsLate
    BY <1>1, <1>8 DEF Indexed, LeftCovers, ClearedIsLate
  <2> QED
    BY <2>1, <2>2 DEF StoreInv
<1>10. Ties
  BY <1>8 DEF Ties, Goroutines
<1>11. Shape
  BY <1>1, <1>5, <1>8 DEF Shape
<1>12. LoopInv /\ SyncInv
  BY <1>8 DEF LoopInv, SyncInv, NoCall, NoSync
<1>13. OwnInv
  BY <1>1, <1>8 DEF OwnInv, EventsBelong, Owned, NoCall, NoSync
<1>14. RowInv
  BY <1>1, <1>7 DEF RowInv
<1> QED
  BY <1>9, <1>10, <1>11, <1>12, <1>13, <1>14 DEF IInv, RestInv

-------------------------------------------------------------------------------
(* The store.                                                              *)

LEMMA SetKeepsStore ==
  ASSUME StoreInv, NEW a \in Actors, NEW i \in Ids, NEW secret,
         setting[a] = Nobody, KeyringSet(a, i, secret)
  PROVE  StoreInv' /\ setting' = [setting EXCEPT ![a] = i]
<1>1. StoreShape'
  BY DEF StoreInv, StoreShape, KeyringSet
<1>2. Indexed'
  <2> SUFFICES ASSUME NEW j \in Ids, keyring'[j] # 0
               PROVE j \in index \union loose \union late' \/ \E b \in Actors : setting'[b] = j
    BY DEF Indexed, BeingSet, KeyringSet
  <2>1. CASE j = i
    BY <2>1 DEF KeyringSet, StoreInv, StoreShape
  <2>2. CASE j # i
    <3>1. keyring[j] # 0 /\ late \subseteq late'
      BY <2>2 DEF KeyringSet, StoreInv, StoreShape, Overlaps
    <3>2. \A b \in Actors : setting[b] = j => setting'[b] = j
      BY DEF KeyringSet, StoreInv, StoreShape
    <3> QED
      BY <3>1, <3>2 DEF StoreInv, Indexed, BeingSet
  <2> QED
    BY <2>1, <2>2
<1>3. LeftCovers'
  BY DEF StoreInv, StoreShape, LeftCovers, KeyringSet, Overlaps
<1>4. ClearedIsLate'
  BY DEF StoreInv, ClearedIsLate, KeyringSet, Overlaps
<1> QED
  BY <1>1, <1>2, <1>3, <1>4 DEF StoreInv, KeyringSet

LEMMA RecordKeepsStore ==
  ASSUME StoreInv, NEW a \in Actors, RecordIndex(a) \/ RecordFails(a)
  PROVE  StoreInv' /\ setting' = [setting EXCEPT ![a] = Nobody]
<1>1. /\ keyring' = keyring /\ uninst' = uninst /\ left' = left
      /\ setting' = [setting EXCEPT ![a] = Nobody]
      /\ index \subseteq index' /\ loose \subseteq loose' /\ late \subseteq late'
      /\ setting[a] \in index' \union loose'
  BY DEF RecordIndex, RecordFails, Overlaps
<1>2. /\ \A i \in index' : i \in index \/ i = setting[a]
      /\ uninst \in {"delete", "done"} => index' \subseteq index \union late'
  BY DEF RecordIndex, RecordFails, Overlaps
<1>3. StoreShape'
  BY <1>1 DEF StoreInv, StoreShape
<1>4. Indexed'
  BY <1>1 DEF StoreInv, StoreShape, Indexed, BeingSet
<1>5. LeftCovers' /\ ClearedIsLate'
  BY <1>1, <1>2 DEF StoreInv, LeftCovers, ClearedIsLate
<1> QED
  BY <1>1, <1>3, <1>4, <1>5 DEF StoreInv

LEMMA CutOffKeepsStore ==
  ASSUME StoreInv, CutOff
  PROVE  StoreInv' /\ setting' = [a \in Actors |-> Nobody]
<1>1. StoreShape'
  BY DEF StoreInv, StoreShape, CutOff
<1>2. Indexed'
  BY DEF StoreInv, Indexed, BeingSet, CutOff
<1>3. LeftCovers' /\ ClearedIsLate'
  BY DEF StoreInv, LeftCovers, ClearedIsLate, CutOff
<1> QED
  BY <1>1, <1>2, <1>3 DEF StoreInv, CutOff

LEMMA UninstallKeepsStore ==
  ASSUME StoreInv, Query \/ Uninstall \/ Purge
  PROVE  StoreInv' /\ setting' = setting
<1>1. CASE Query
  BY <1>1 DEF Query, StoreInv, StoreShape, Indexed, BeingSet, LeftCovers, ClearedIsLate
<1>2. CASE DeleteEntry
  BY <1>2 DEF DeleteEntry, StoreInv, StoreShape, Indexed, BeingSet, LeftCovers, ClearedIsLate
<1>3. CASE DeleteFails \/ UninstallDies \/ UninstallEnds
  BY <1>3 DEF DeleteFails, UninstallDies, UninstallEnds,
              StoreInv, StoreShape, Indexed, BeingSet, LeftCovers, ClearedIsLate
<1>4. CASE ClearIndex
  BY <1>4 DEF ClearIndex, StoreInv, StoreShape, Indexed, BeingSet, LeftCovers, ClearedIsLate
<1>5. CASE Purge
  BY <1>5 DEF Purge, StoreInv, StoreShape, Indexed, BeingSet, LeftCovers, ClearedIsLate
<1> QED
  BY <1>1, <1>2, <1>3, <1>4, <1>5 DEF Uninstall

LEMMA UnchangedKeepsStore ==
  ASSUME StoreInv, UNCHANGED storeVars
  PROVE  StoreInv' /\ setting' = setting
BY DEF storeVars, StoreInv, StoreShape, Indexed, BeingSet, LeftCovers, ClearedIsLate

-------------------------------------------------------------------------------
(* The actor at work and its entry.                                        *)

LEMMA GoroutineKeepsTies ==
  ASSUME Ties, StoreShape, NEW g \in Goroutines, NEW r, sync' = [sync EXCEPT ![g] = r],
         sync = [h \in Goroutines |-> sync[h]], loop' = loop,
         NEW s, setting' = [setting EXCEPT ![g] = s] \/ (setting' = setting /\ s = setting[g]),
         s # Nobody => r.at = "index"
  PROVE  Ties'
BY DEF Ties, StoreShape, Goroutines

LEMMA LoopKeepsTies ==
  ASSUME Ties, StoreShape, sync' = sync,
         NEW s, setting' = [setting EXCEPT ![Loop] = s] \/ (setting' = setting /\ s = setting[Loop]),
         s # Nobody => loop'.at = "index"
  PROVE  Ties'
BY DEF Ties, StoreShape, Goroutines

-------------------------------------------------------------------------------
(* Syncs.                                                                  *)

\* No secret is taken away.
KeepsSecrets == \A i \in Ids : keyring[i] # 0 => keyring'[i] # 0

LEMMA SyncKeepsRest ==
  ASSUME RestInv, NEW g \in Goroutines, NEW r, sync' = [sync EXCEPT ![g] = r],
         r.at # "idle" => up /\ r.id \in Ids /\ Owned(r.id),
         r.at = "rotate" => r.token # 0,
         UNCHANGED <<up, tableVars, registered, uiVars, cut, uninst>>,
         issued' \in Nat, KeepsSecrets,
         UNCHANGED <<events, adrift>>
  PROVE  RestInv'
<1> USE DEF RestInv, tableVars, uiVars
<1>1. \A h \in Goroutines : sync'[h] = IF h = g THEN r ELSE sync[h]
  BY DEF Shape
<1>2. Shape'
  BY DEF Shape
<1>3. LoopInv'
  BY DEF LoopInv
<1>4. SyncInv'
  BY <1>1 DEF SyncInv
<1>5. OwnInv'
  BY <1>1 DEF OwnInv, Owned, EventsBelong
<1>6. RowInv'
  BY DEF RowInv, KeepsSecrets, Shape
<1> QED
  BY <1>2, <1>3, <1>4, <1>5, <1>6

\* What a goroutine does when it goes on with the sync it is in, or ends it.
LEMMA GoOnKeepsRest ==
  ASSUME RestInv, NEW g \in Goroutines, sync[g].at # "idle",
         NEW to, NEW token, EndSync(g) \/ (GoOn(g, to, token) /\ (to = "rotate" => token # 0)),
         SyncLeaves, uninst' = uninst, issued' \in Nat, KeepsSecrets,
         UNCHANGED <<events, adrift>>
  PROVE  RestInv'
<1>1. up /\ sync[g].id \in Ids /\ Owned(sync[g].id)
  BY DEF RestInv, SyncInv, OwnInv
<1>2. CASE EndSync(g)
  BY <1>2, SyncKeepsRest DEF EndSync, NoSync, SyncLeaves
<1>3. CASE GoOn(g, to, token) /\ (to = "rotate" => token # 0)
  <2> DEFINE r == [at |-> to, id |-> sync[g].id, token |-> token, own |-> sync[g].own]
  <2>1. sync' = [sync EXCEPT ![g] = r]
    BY <1>3 DEF GoOn
  <2>2. r.at = to /\ r.id = sync[g].id /\ r.token = token
    OBVIOUS
  <2> HIDE DEF r
  <2> QED
    BY <1>1, <1>3, <2>1, <2>2, SyncKeepsRest DEF SyncLeaves
<1> QED
  BY <1>2, <1>3

LEMMA PullKeepsRest ==
  ASSUME RestInv, NEW g \in Goroutines, Pull(g)
  PROVE  RestInv'
<1> USE DEF RestInv
<1> DEFINE i == sync[g].id
<1>1. /\ sync[g].at = "pull" /\ sync' = [sync EXCEPT ![g] = NoSync]
      /\ UNCHANGED <<keyring, uninst, up, tableVars, registered, uiVars, cut, issued>>
  BY DEF Pull, EndSync, SyncLeaves, storeVars, tokenVars
<1>2. \/ UNCHANGED <<events, adrift>>
      \/ /\ events' = events \union {i} /\ adrift \subseteq adrift'
         /\ loop.id = i /\ loop.at \in {"row", "unregister"} => i \in adrift'
  BY DEF Pull
<1>3. i \in Ids /\ Owned(i)
  BY <1>1 DEF SyncInv, OwnInv
<1>4. Shape' /\ LoopInv' /\ SyncInv' /\ RowInv'
  BY <1>1 DEF Shape, LoopInv, SyncInv, RowInv, NoSync, tableVars, uiVars
<1>5. \A h \in Goroutines : sync'[h].at # "idle" => sync'[h] = sync[h]
  BY <1>1 DEF Shape, NoSync
<1>6. OwnInv'
  BY <1>1, <1>2, <1>3, <1>5 DEF OwnInv, Owned, EventsBelong, tableVars, uiVars
<1> QED
  BY <1>4, <1>6

LEMMA SyncAction ==
  ASSUME IInv, NEW g \in Goroutines, Visit(g) \/ SyncNow(g) \/ SyncStep(g)
  PROVE  IInv'
<1>a. StoreInv /\ Ties /\ RestInv /\ StoreShape /\ g \in Actors
      /\ issued \in Nat /\ sync = [h \in Goroutines |-> sync[h]]
  BY DEF IInv, StoreInv, RestInv, Shape, Goroutines
<1>b. setting[g] # Nobody => sync[g].at = "index"
  BY <1>a DEF Ties
<1>c. SyncLeaves => loop' = loop
  BY DEF SyncLeaves, uiVars
<1>1. CASE Visit(g) \/ SyncNow(g)
  <2>1. PICK i \in registered \union linked, own \in BOOLEAN : StartSync(g, i, own)
    BY <1>1 DEF Visit, SyncNow
  <2>2. /\ sync[g].at = "idle" /\ SyncLeaves
        /\ UNCHANGED <<storeVars, events, tokenVars, adrift>>
    BY <1>1 DEF Visit, SyncNow
  <2>3. up
    BY <1>1, <1>a DEF Visit, SyncNow, RestInv, LoopInv
  <2>4. i \in Ids /\ Owned(i)
    BY <1>a DEF RestInv, Shape, OwnInv, Owned
  <2> DEFINE r == [at |-> "load", id |-> i, token |-> 0, own |-> own]
  <2>5. sync' = [sync EXCEPT ![g] = r] /\ r.at = "load" /\ r.id = i
    BY <2>1 DEF StartSync
  <2> HIDE DEF r
  <2>6. RestInv'
    BY <1>a, <2>2, <2>3, <2>4, <2>5, SyncKeepsRest
       DEF SyncLeaves, storeVars, tokenVars, KeepsSecrets
  <2>7. StoreInv' /\ setting' = setting
    BY <1>a, <2>2, UnchangedKeepsStore
  <2>8. Ties'
    BY <1>a, <1>b, <1>c, <2>2, <2>5, <2>7, GoroutineKeepsTies
  <2> QED
    BY <2>6, <2>7, <2>8 DEF IInv
<1>2. CASE LoadSecret(g) \/ Exchange(g)
  <2>1. /\ sync[g].at \in {"load", "exchange"} /\ SyncLeaves
        /\ UNCHANGED <<storeVars, events, adrift>>
    BY <1>2 DEF LoadSecret, Exchange
  <2>2. /\ issued' \in Nat
        /\ \E to, token : /\ EndSync(g) \/ GoOn(g, to, token)
                         /\ to # "index" /\ (to = "rotate" => token # 0)
    <3>1. CASE LoadSecret(g)
      BY <1>a, <3>1 DEF LoadSecret, tokenVars
    <3>2. CASE Exchange(g)
      <4>1. CASE EndSync(g) \/ GoOn(g, "pull", 0)
        BY <1>a, <3>2, <4>1 DEF Exchange, tokenVars, Issue
      <4>2. CASE GoOn(g, "rotate", issued') /\ issued' = issued + 1
        BY <1>a, <4>2
      <4> QED
        BY <3>2, <4>1, <4>2 DEF Exchange, Issue
    <3> QED
      BY <1>2, <3>1, <3>2
  <2>3. PICK to, token : /\ EndSync(g) \/ GoOn(g, to, token)
                         /\ to # "index" /\ (to = "rotate" => token # 0)
    BY <2>2
  <2>4. RestInv'
    BY <1>a, <2>1, <2>2, <2>3, GoOnKeepsRest DEF storeVars, KeepsSecrets
  <2>5. StoreInv' /\ setting' = setting
    BY <1>a, <2>1, UnchangedKeepsStore
  <2>6. \E r : sync' = [sync EXCEPT ![g] = r]
    BY <2>3 DEF EndSync, GoOn
  <2>7. Ties'
    BY <1>a, <1>b, <1>c, <2>1, <2>5, <2>6, GoroutineKeepsTies
  <2> QED
    BY <2>4, <2>5, <2>7 DEF IInv
<1>3. CASE Rotate(g)
  <2>1. /\ sync[g].at = "rotate" /\ SyncLeaves
        /\ UNCHANGED <<events, tokenVars, adrift>>
    BY <1>3 DEF Rotate
  <2>2. sync[g].id \in Ids /\ sync[g].token # 0 /\ setting[g] = Nobody
    BY <1>a, <1>b, <2>1 DEF RestInv, SyncInv
  <2>3. CASE KeyringSet(g, sync[g].id, sync[g].token) /\ GoOn(g, "index", 0)
    <3>1. StoreInv' /\ setting' = [setting EXCEPT ![g] = sync[g].id]
      BY <1>a, <2>2, <2>3, SetKeepsStore
    <3>2. KeepsSecrets /\ uninst' = uninst
      BY <1>a, <2>2, <2>3 DEF KeepsSecrets, KeyringSet, StoreShape
    <3>3. RestInv'
      BY <1>a, <2>1, <2>3, <3>2, GoOnKeepsRest DEF tokenVars
    <3> DEFINE r == [at |-> "index", id |-> sync[g].id, token |-> 0, own |-> sync[g].own]
    <3>4. sync' = [sync EXCEPT ![g] = r] /\ r.at = "index"
      BY <2>3 DEF GoOn
    <3> HIDE DEF r
    <3>5. Ties'
      BY <1>a, <1>c, <2>1, <3>1, <3>4, GoroutineKeepsTies
    <3> QED
      BY <3>1, <3>3, <3>5 DEF IInv
  <2>4. CASE GoOn(g, "pull", 0) /\ UNCHANGED storeVars
    <3>1. StoreInv' /\ setting' = setting
      BY <1>a, <2>4, UnchangedKeepsStore
    <3>2. RestInv'
      BY <1>a, <2>1, <2>4, GoOnKeepsRest DEF storeVars, KeepsSecrets, tokenVars
    <3>3. \E r : sync' = [sync EXCEPT ![g] = r]
      BY <2>4 DEF GoOn
    <3>4. Ties'
      BY <1>a, <1>c, <2>1, <2>2, <3>1, <3>3, GoroutineKeepsTies
    <3> QED
      BY <3>1, <3>2, <3>4 DEF IInv
  <2> QED
    BY <1>3, <2>3, <2>4 DEF Rotate
<1>4. CASE IndexRotated(g)
  <2>1. /\ sync[g].at = "index" /\ SyncLeaves /\ GoOn(g, "pull", 0)
        /\ UNCHANGED <<events, tokenVars, adrift>>
        /\ RecordIndex(g) \/ RecordFails(g)
    BY <1>4 DEF IndexRotated
  <2>2. StoreInv' /\ setting' = [setting EXCEPT ![g] = Nobody]
    BY <1>a, <2>1, RecordKeepsStore
  <2>3. keyring' = keyring /\ uninst' = uninst
    BY <2>1 DEF RecordIndex, RecordFails
  <2>4. RestInv'
    BY <1>a, <2>1, <2>3, GoOnKeepsRest DEF KeepsSecrets, tokenVars
  <2>5. \E r : sync' = [sync EXCEPT ![g] = r]
    BY <2>1 DEF GoOn
  <2>6. Ties'
    BY <1>a, <1>c, <2>1, <2>2, <2>5, GoroutineKeepsTies
  <2> QED
    BY <2>2, <2>4, <2>6 DEF IInv
<1>5. CASE Pull(g)
  <2>1. RestInv'
    BY <1>a, <1>5, PullKeepsRest
  <2>2. StoreInv' /\ setting' = setting
    BY <1>a, <1>5, UnchangedKeepsStore DEF Pull
  <2>3. sync' = [sync EXCEPT ![g] = NoSync] /\ sync[g].at = "pull" /\ SyncLeaves
    BY <1>5 DEF Pull, EndSync
  <2>4. Ties'
    BY <1>a, <1>b, <1>c, <2>2, <2>3, GoroutineKeepsTies
  <2> QED
    BY <2>1, <2>2, <2>4 DEF IInv
<1> QED
  BY <1>1, <1>2, <1>3, <1>4, <1>5 DEF SyncStep

-------------------------------------------------------------------------------
(* Sign-ins.  They touch the window only while the loop is idle.           *)

LEMMA LoginAction ==
  ASSUME IInv, Connect \/ \E m \in Logins : Callback(m) \/ LoginStep(m)
  PROVE  IInv'
<1>a. StoreInv /\ Ties /\ RestInv /\ StoreShape
  BY DEF IInv, StoreInv
<1>1. LoginLeaves
  BY DEF Connect, Callback, LoginStep, AwaitCallback, ExchangeCode, Deliver
<1>2. issued' \in Nat
  <2>1. issued' = issued \/ issued' = issued + 1
    BY DEF Connect, Callback, LoginStep, AwaitCallback, ExchangeCode, Deliver, tokenVars
  <2> QED
    BY <1>a, <2>1 DEF RestInv, Shape
<1>3. form' = form \/ (loop.at = "idle" /\ up)
  <2>1. CASE Connect
    BY <1>a, <2>1 DEF Connect, RestInv, LoopInv, NoForm
  <2>2. ASSUME NEW m \in Logins, form' # form, loop.at = "idle", form.login = m PROVE up
    <3>1. m # 0
      BY DEF Logins
    <3> QED
      BY <1>a, <2>2, <3>1 DEF RestInv, LoopInv, NoForm
  <2>3. ASSUME NEW m \in Logins, Callback(m) \/ LoginStep(m)
        PROVE form' = form \/ (loop.at = "idle" /\ form.login = m)
    BY <2>3 DEF Callback, LoginStep, AwaitCallback, ExchangeCode, Deliver, GiveUp
  <2> QED
    BY <2>1, <2>2, <2>3
<1>4. StoreInv' /\ setting' = setting
  BY <1>a, <1>1, UnchangedKeepsStore DEF LoginLeaves
<1>5. UNCHANGED <<keyring, uninst, up, kindOf, rows, linked, events, registered, sync, loop, confirm,
                  cut, adrift>>
  BY <1>1 DEF LoginLeaves, storeVars, tableVars, historyVars
<1>6. Ties'
  BY <1>a, <1>4, <1>5 DEF Ties
<1>7. Shape' /\ SyncInv' /\ OwnInv' /\ RowInv'
  BY <1>a, <1>2, <1>5 DEF RestInv, Shape, SyncInv, OwnInv, Owned, EventsBelong, RowInv
<1>8. LoopInv'
  BY <1>a, <1>3, <1>5 DEF RestInv, LoopInv
<1> QED
  BY <1>4, <1>6, <1>7, <1>8 DEF IInv, RestInv

-------------------------------------------------------------------------------
(* The windows.                                                            *)

\* The Add and Edit windows: a step of the loop that changes no event.
LEMMA FormKeepsRest ==
  ASSUME RestInv, up, UILeaves, uninst' = uninst, KeepsSecrets,
         UNCHANGED <<events, confirm, adrift>>, loop.at \notin {"row", "unregister"},
         loop'.at \notin {"row", "unregister"},
         loop'.at # "idle" => loop'.id \in Ids /\ loop'.to = Nobody,
         loop'.at \in {"link", "store"} =>
           kindOf'[loop'.id] = "caldav" \/ (kindOf'[loop'.id] = "outlook" /\ form'.token # 0),
         kindOf' = [i \in Ids |-> kindOf'[i]],
         rows \subseteq rows', rows' \subseteq Ids, linked' \subseteq rows',
         registered' \subseteq registered \union linked,
         \A i \in rows' :
           keyring'[i] # 0 \/ i \in cut' \/ uninst # "off"
             \/ (loop'.id = i /\ loop'.at \in {"link", "store"} /\ ~loop'.edit)
  PROVE  RestInv'
<1> USE DEF RestInv
<1>1. up' = up /\ sync' = sync /\ issued' = issued
  BY DEF UILeaves, tokenVars
<1>2. Shape'
  BY <1>1 DEF Shape
<1>3. LoopInv' /\ SyncInv'
  BY <1>1 DEF LoopInv, SyncInv
<1>4. OwnInv'
  BY <1>1 DEF OwnInv, Owned, EventsBelong, Shape
<1>5. RowInv'
  BY DEF RowInv
<1> QED
  BY <1>2, <1>3, <1>4, <1>5

LEMMA FormAction ==
  ASSUME IInv, OpenForm \/ CancelForm \/ (\E kind \in {"caldav", "outlook"} : Save(kind))
               \/ \E i \in Ids : Edit(i)
  PROVE  IInv'
<1>a. StoreInv /\ Ties /\ RestInv /\ StoreShape
  BY DEF IInv, StoreInv
<1>b. Shape /\ LoopInv /\ RowInv
  BY <1>a DEF RestInv
<1>1. /\ loop.at = "idle" /\ UILeaves
      /\ UNCHANGED <<storeVars, events, registered, confirm, cut, adrift>>
  BY DEF OpenForm, CancelForm, Save, Edit, tableVars
<1>2. up
  <2>1. up \/ form.open
    BY DEF OpenForm, CancelForm, Save, Edit
  <2>2. ~NoForm.open
    BY DEF NoForm
  <2> QED
    BY <1>b, <2>1, <2>2 DEF LoopInv
<1>3. StoreInv' /\ setting' = setting
  BY <1>a, <1>1, UnchangedKeepsStore
<1>4. keyring' = keyring /\ uninst' = uninst /\ sync' = sync /\ KeepsSecrets
  BY <1>1 DEF storeVars, UILeaves, KeepsSecrets
<1>5. Ties'
  BY <1>a, <1>1, <1>3, <1>4 DEF Ties
<1>6. \A i \in rows : keyring[i] # 0 \/ i \in cut \/ uninst # "off"
  BY <1>1, <1>b DEF RowInv
<1>7. CASE OpenForm \/ CancelForm
  <2>1. UNCHANGED <<loop, kindOf, rows, linked>>
    BY <1>7 DEF OpenForm, CancelForm, tableVars
  <2> QED
    BY <1>a, <1>b, <1>1, <1>2, <1>3, <1>4, <1>5, <1>6, <2>1, FormKeepsRest DEF IInv, Shape
<1>8. ASSUME NEW kind \in {"caldav", "outlook"}, Save(kind) PROVE IInv'
  <2>1. PICK i \in Ids : /\ kindOf' = [kindOf EXCEPT ![i] = kind]
                         /\ rows' = rows \union {i}
                         /\ Call("link", i, FALSE)
    BY <1>8 DEF Save
  <2>2. linked' = linked /\ form' = form /\ (kind = "outlook" => form.token # 0)
    BY <1>8 DEF Save
  <2>3. loop'.at = "link" /\ loop'.id = i /\ loop'.to = Nobody /\ ~loop'.edit
    BY <2>1 DEF Call
  <2>4. kindOf' = [j \in Ids |-> kindOf'[j]] /\ kindOf'[i] = kind
    BY <1>b, <2>1 DEF Shape
  <2>5. rows \subseteq rows' /\ rows' \subseteq Ids /\ linked' \subseteq rows'
    BY <1>b, <2>1, <2>2 DEF Shape
  <2>6. \A j \in rows' : keyring'[j] # 0 \/ j \in cut' \/ uninst # "off" \/ j = i
    BY <1>1, <1>4, <1>6, <2>1
  <2>7. RestInv'
    BY <1>a, <1>1, <1>2, <1>4, <2>2, <2>3, <2>4, <2>5, <2>6, FormKeepsRest
  <2> QED
    BY <1>3, <1>5, <2>7 DEF IInv
<1>9. ASSUME NEW i \in Ids, Edit(i) PROVE IInv'
  <2>1. /\ kindOf[i] = "caldav" /\ Call("link", i, TRUE)
        /\ UNCHANGED <<kindOf, rows, linked>>
    BY <1>9 DEF Edit, tableVars
  <2>2. loop'.at = "link" /\ loop'.id = i /\ loop'.to = Nobody
    BY <2>1 DEF Call
  <2>3. RestInv'
    BY <1>a, <1>b, <1>1, <1>2, <1>4, <1>6, <2>1, <2>2, FormKeepsRest DEF Shape
  <2> QED
    BY <1>3, <1>5, <2>3 DEF IInv
<1> QED
  BY <1>7, <1>8, <1>9

LEMMA SaveAction ==
  ASSUME IInv, Link \/ StoreSecret \/ KeepSecret \/ IndexSecret \/ Register
  PROVE  IInv'
<1>a. StoreInv /\ Ties /\ RestInv /\ StoreShape
  BY DEF IInv, StoreInv
<1>b. Shape /\ LoopInv /\ RowInv
  BY <1>a DEF RestInv
<1>1. /\ loop.at \in {"link", "store", "index", "register"} /\ UILeaves
      /\ UNCHANGED <<events, confirm, adrift, kindOf, rows>>
  BY DEF Link, StoreSecret, KeepSecret, IndexSecret, Register, tableVars
<1>2. up /\ loop.id \in Ids /\ sync' = sync
  BY <1>b, <1>1 DEF LoopInv, UILeaves
<1> DEFINE i == loop.id
<1>4. CASE Link
  <2>1. /\ loop.at = "link" /\ linked' \subseteq linked \union rows
        /\ UNCHANGED <<storeVars, registered, form>>
    BY <1>4 DEF Link
  <2>2. StoreInv' /\ setting' = setting
    BY <1>a, <2>1, UnchangedKeepsStore
  <2>3. Ties'
    BY <1>a, <1>2, <2>1, <2>2 DEF Ties
  <2>4. keyring' = keyring /\ uninst' = uninst /\ KeepsSecrets
    BY <2>1 DEF storeVars, KeepsSecrets
  <2>5. \/ loop' = NoCall /\ cut' = (IF loop.edit THEN cut ELSE cut \union {i})
        \/ loop' = [at |-> "store", id |-> i, to |-> Nobody, edit |-> loop.edit] /\ cut' = cut
    BY <1>4 DEF Link, Abort, Call
  <2>6. \A j \in rows' :
           keyring'[j] # 0 \/ j \in cut' \/ uninst # "off"
             \/ (loop'.id = j /\ loop'.at \in {"link", "store"} /\ ~loop'.edit)
    BY <1>b, <1>1, <2>1, <2>4, <2>5 DEF RowInv
  <2>7. RestInv'
    <3>1. loop'.at \notin {"row", "unregister"} /\ (loop'.at # "idle" => loop'.id = i /\ loop'.to = Nobody)
      BY <2>5 DEF NoCall
    <3>2. kindOf[i] = "caldav" \/ (kindOf[i] = "outlook" /\ form.token # 0)
      BY <1>b, <2>1 DEF LoopInv
    <3> QED
      BY <1>a, <1>b, <1>1, <1>2, <2>1, <2>4, <2>6, <3>1, <3>2, FormKeepsRest DEF Shape
  <2> QED
    BY <2>2, <2>3, <2>7 DEF IInv
<1>5. CASE StoreSecret
  <2> DEFINE secret == IF kindOf[i] = "outlook" THEN form.token ELSE Password
  <2>1. /\ loop.at = "store" /\ UNCHANGED <<linked, registered>>
    BY <1>5 DEF StoreSecret, tableVars
  <2>2. kindOf[i] = "caldav" \/ (kindOf[i] = "outlook" /\ form.token # 0)
    BY <1>b, <2>1 DEF LoopInv
  <2>3. secret # 0
    BY <2>2, BoundsAssumption DEF Password
  <2>4. setting[Loop] = Nobody
    BY <1>a, <2>1 DEF Ties
  <2>5. CASE KeyringSet(Loop, i, secret) /\ Call("index", i, loop.edit) /\ cut' = cut
    <3>1. StoreInv' /\ setting' = [setting EXCEPT ![Loop] = i]
      BY <1>a, <1>2, <2>4, <2>5, SetKeepsStore
    <3>2. loop'.at = "index" /\ loop'.id = i /\ loop'.to = Nobody
      BY <2>5 DEF Call
    <3>3. Ties'
      BY <1>a, <1>2, <3>1, <3>2, LoopKeepsTies
    <3>4. keyring' = [keyring EXCEPT ![i] = secret] /\ uninst' = uninst
      BY <2>5 DEF KeyringSet
    <3>5. \A j \in Ids : keyring'[j] = IF j = i THEN secret ELSE keyring[j]
      BY <1>a, <3>4 DEF StoreShape
    <3>6. KeepsSecrets
      BY <2>3, <3>5 DEF KeepsSecrets
    <3>7. \A j \in rows' : keyring'[j] # 0 \/ j \in cut' \/ uninst # "off"
      BY <1>b, <1>1, <2>3, <2>5, <3>5 DEF RowInv, Shape
    <3>8. RestInv'
      BY <1>a, <1>b, <1>1, <1>2, <2>1, <3>2, <3>4, <3>6, <3>7, FormKeepsRest DEF Shape
    <3> QED
      BY <3>1, <3>3, <3>8 DEF IInv
  <2>6. CASE Abort /\ UNCHANGED storeVars
    <3>1. StoreInv' /\ setting' = setting
      BY <1>a, <2>6, UnchangedKeepsStore
    <3>2. Ties'
      BY <1>a, <1>2, <2>4, <3>1 DEF Ties
    <3>3. keyring' = keyring /\ uninst' = uninst /\ KeepsSecrets
      BY <2>6 DEF storeVars, KeepsSecrets
    <3>4. loop'.at = "idle" /\ cut' = (IF loop.edit THEN cut ELSE cut \union {i})
      BY <2>6 DEF Abort, NoCall
    <3>5. \A j \in rows' : keyring'[j] # 0 \/ j \in cut' \/ uninst # "off"
      BY <1>b, <1>1, <3>3, <3>4 DEF RowInv
    <3>6. RestInv'
      BY <1>a, <1>b, <1>1, <1>2, <2>1, <3>3, <3>4, <3>5, FormKeepsRest DEF Shape
    <3> QED
      BY <3>1, <3>2, <3>6 DEF IInv
  <2> QED
    BY <1>5, <2>5, <2>6 DEF StoreSecret
<1>6. CASE KeepSecret
  <2>1. /\ loop.at = "store" /\ loop.edit /\ UNCHANGED <<storeVars, linked, registered, cut>>
        /\ Call("register", i, TRUE) \/ loop' = NoCall
    BY <1>6 DEF KeepSecret, tableVars
  <2>2. StoreInv' /\ setting' = setting
    BY <1>a, <2>1, UnchangedKeepsStore
  <2>3. Ties'
    BY <1>a, <1>2, <2>1, <2>2 DEF Ties
  <2>4. keyring' = keyring /\ uninst' = uninst /\ KeepsSecrets
    BY <2>1 DEF storeVars, KeepsSecrets
  <2>5. /\ loop'.at \notin {"link", "store", "row", "unregister"}
        /\ loop'.at # "idle" => loop'.id = i /\ loop'.to = Nobody
    BY <2>1 DEF Call, NoCall
  <2>6. \A j \in rows' : keyring'[j] # 0 \/ j \in cut' \/ uninst # "off"
    BY <1>b, <1>1, <2>1, <2>4 DEF RowInv
  <2>7. RestInv'
    BY <1>a, <1>b, <1>1, <1>2, <2>1, <2>4, <2>5, <2>6, FormKeepsRest DEF Shape
  <2> QED
    BY <2>2, <2>3, <2>7 DEF IInv
<1>7. CASE IndexSecret
  <2>1. /\ loop.at = "index" /\ UNCHANGED <<linked, registered, cut>>
        /\ RecordIndex(Loop) \/ RecordFails(Loop)
        /\ Call("register", i, loop.edit) \/ loop' = NoCall
    BY <1>7 DEF IndexSecret, tableVars
  <2>2. StoreInv' /\ setting' = [setting EXCEPT ![Loop] = Nobody]
    BY <1>a, <2>1, RecordKeepsStore
  <2>3. Ties'
    BY <1>a, <1>2, <2>2, LoopKeepsTies
  <2>4. keyring' = keyring /\ uninst' = uninst /\ KeepsSecrets
    BY <2>1 DEF RecordIndex, RecordFails, KeepsSecrets
  <2>5. /\ loop'.at \notin {"link", "store", "row", "unregister"}
        /\ loop'.at # "idle" => loop'.id = i /\ loop'.to = Nobody
    BY <2>1 DEF Call, NoCall
  <2>6. \A j \in rows' : keyring'[j] # 0 \/ j \in cut' \/ uninst # "off"
    BY <1>b, <1>1, <2>1, <2>4 DEF RowInv
  <2>7. RestInv'
    BY <1>a, <1>b, <1>1, <1>2, <2>1, <2>4, <2>5, <2>6, FormKeepsRest DEF Shape
  <2> QED
    BY <2>2, <2>3, <2>7 DEF IInv
<1>8. CASE Register
  <2>1. /\ loop.at = "register" /\ UNCHANGED <<storeVars, linked, cut>>
        /\ registered' \subseteq registered \union linked /\ loop' = NoCall
    BY <1>8 DEF Register, tableVars
  <2>2. StoreInv' /\ setting' = setting
    BY <1>a, <2>1, UnchangedKeepsStore
  <2>3. Ties'
    BY <1>a, <1>2, <2>1, <2>2 DEF Ties
  <2>4. keyring' = keyring /\ uninst' = uninst /\ KeepsSecrets /\ loop'.at = "idle"
    BY <2>1 DEF storeVars, KeepsSecrets, NoCall
  <2>5. \A j \in rows' : keyring'[j] # 0 \/ j \in cut' \/ uninst # "off"
    BY <1>b, <1>1, <2>1, <2>4 DEF RowInv
  <2>6. RestInv'
    BY <1>a, <1>b, <1>1, <1>2, <2>1, <2>4, <2>5, FormKeepsRest DEF Shape
  <2> QED
    BY <2>2, <2>3, <2>6 DEF IInv
<1> QED
  BY <1>4, <1>5, <1>6, <1>7, <1>8

\* The Delete windows: nothing of the store changes.
LEMMA DeleteAction ==
  ASSUME IInv, (\E i \in Ids : OpenConfirm(i)) \/ (\E c \in confirm : Confirm(c))
               \/ MoveEvents \/ DeleteRow \/ Unregister
  PROVE  IInv'
<1>a. StoreInv /\ Ties /\ RestInv /\ StoreShape
  BY DEF IInv, StoreInv
<1>b. Shape /\ LoopInv /\ OwnInv /\ RowInv /\ SyncInv
  BY <1>a DEF RestInv
<1>1. UILeaves /\ UNCHANGED <<storeVars, kindOf, form, cut>>
  BY DEF OpenConfirm, Confirm, MoveEvents, DeleteRow, Unregister, tableVars
<1>2. up' = up /\ sync' = sync /\ issued' = issued /\ keyring' = keyring /\ uninst' = uninst
  BY <1>1 DEF UILeaves, tokenVars, storeVars
<1>3. StoreInv' /\ setting' = setting
  BY <1>a, <1>1, UnchangedKeepsStore
<1>4. SyncInv'
  BY <1>b, <1>2 DEF SyncInv
<1>5. \A i \in Ids : OpenConfirm(i) => IInv'
  <2> SUFFICES ASSUME NEW i \in Ids, OpenConfirm(i) PROVE IInv'
    OBVIOUS
  <2>1. /\ up /\ UNCHANGED <<rows, linked, registered, events, loop, adrift>>
        /\ \E empty \in BOOLEAN :
             confirm' = confirm \union
                          {[id |-> i, empty |-> empty, others |-> (rows \ {i}) \union {Home}]}
    BY DEF OpenConfirm, tableVars
  <2>2. \A c \in confirm' : c.id \in Ids /\ c.id \notin c.others
    BY <1>b, <2>1, HomeAssumption DEF Shape
  <2>3. Shape'
    BY <1>1, <1>2, <1>b, <2>1, <2>2 DEF Shape
  <2>4. LoopInv'
    BY <1>1, <1>2, <1>b, <2>1 DEF LoopInv
  <2>5. OwnInv' /\ RowInv' /\ Ties'
    BY <1>a, <1>b, <1>1, <1>2, <1>3, <2>1 DEF OwnInv, Owned, EventsBelong, RowInv, Ties
  <2> QED
    BY <1>3, <1>4, <2>3, <2>4, <2>5 DEF IInv, RestInv
<1>6. ASSUME NEW c \in confirm, Confirm(c) PROVE IInv'
  <2>1. /\ loop.at = "idle" /\ confirm' = confirm \ {c}
        /\ UNCHANGED <<rows, linked, registered, events>>
        /\ \/ /\ loop' = [at |-> "row", id |-> c.id, to |-> Nobody, edit |-> FALSE]
              /\ adrift' = IF c.id \in events THEN adrift \union {c.id} ELSE adrift
           \/ /\ \E to \in c.others \union {Nobody} :
                   loop' = [at |-> "events", id |-> c.id, to |-> to, edit |-> FALSE]
              /\ adrift' = adrift
    BY <1>6 DEF Confirm, Call, tableVars
  <2>2. c.id \in Ids /\ c.id \notin c.others
    BY <1>b DEF Shape
  <2>3. /\ loop'.at \in {"row", "events"} /\ loop'.id = c.id /\ loop'.to # c.id
        /\ loop'.at = "row" => c.id \notin events \/ c.id \in adrift'
        /\ adrift \subseteq adrift'
    BY <2>1, <2>2
  <2>4. up
    BY <1>b DEF LoopInv
  <2>5. Shape'
    BY <1>b, <1>1, <1>2, <2>1 DEF Shape
  <2>6. LoopInv'
    BY <1>2, <2>2, <2>3, <2>4 DEF LoopInv
  <2>7. OwnInv'
    BY <1>b, <1>2, <2>1, <2>3 DEF OwnInv, Owned, EventsBelong
  <2>8. RowInv'
    BY <1>b, <1>1, <1>2, <2>1 DEF RowInv
  <2>9. Ties'
    BY <1>a, <1>2, <1>3, <2>1 DEF Ties
  <2> QED
    BY <1>3, <1>4, <2>5, <2>6, <2>7, <2>8, <2>9 DEF IInv, RestInv
<1>7. CASE MoveEvents
  <2> DEFINE moved == IF loop.id \in events /\ loop.to # Nobody THEN {loop.to} ELSE {}
  <2>1. /\ loop.at = "events" /\ Call("row", loop.id, FALSE)
        /\ UNCHANGED <<rows, linked, registered, confirm>>
        /\ \/ /\ events' = (events \ {loop.id}) \union moved
              /\ adrift' = adrift \union (moved \ (rows \union {Home}))
           \/ adrift' = adrift \union {loop.id} /\ events' = events
    BY <1>7 DEF MoveEvents, tableVars
  <2>2. up /\ loop.id \in Ids /\ loop.to # loop.id
    BY <1>b, <2>1 DEF LoopInv
  <2>3. loop'.at = "row" /\ loop'.id = loop.id /\ loop'.to = Nobody
    BY <2>1 DEF Call
  <2>4. Shape'
    BY <1>b, <1>1, <1>2, <2>1 DEF Shape
  <2>5. LoopInv'
    BY <1>2, <2>2, <2>3 DEF LoopInv
  <2>6. OwnInv'
    BY <1>b, <1>2, <2>1, <2>2, <2>3 DEF OwnInv, Owned, EventsBelong
  <2>7. RowInv'
    BY <1>b, <1>1, <1>2, <2>1 DEF RowInv
  <2>8. Ties'
    BY <1>a, <1>2, <1>3, <2>1 DEF Ties
  <2> QED
    BY <1>3, <1>4, <2>4, <2>5, <2>6, <2>7, <2>8 DEF IInv, RestInv
<1>8. CASE DeleteRow
  <2>1. /\ loop.at = "row" /\ Call("unregister", loop.id, FALSE)
        /\ UNCHANGED <<registered, events, confirm, adrift>>
        /\ \/ rows' = rows \ {loop.id} /\ linked' = linked \ {loop.id}
           \/ UNCHANGED <<rows, linked>>
    BY <1>8 DEF DeleteRow
  <2>2. up /\ loop.id \in Ids
    BY <1>b, <2>1 DEF LoopInv
  <2>3. loop'.at = "unregister" /\ loop'.id = loop.id /\ loop'.to = Nobody
    BY <2>1 DEF Call
  <2>4. Shape'
    BY <1>b, <1>1, <1>2, <2>1 DEF Shape
  <2>5. LoopInv'
    BY <1>2, <2>2, <2>3 DEF LoopInv
  <2>6. OwnInv'
    BY <1>b, <1>2, <2>1, <2>3 DEF OwnInv, Owned, EventsBelong
  <2>7. RowInv'
    BY <1>b, <1>1, <1>2, <2>1 DEF RowInv
  <2>8. Ties'
    BY <1>a, <1>2, <1>3, <2>1 DEF Ties
  <2> QED
    BY <1>3, <1>4, <2>4, <2>5, <2>6, <2>7, <2>8 DEF IInv, RestInv
<1>9. CASE Unregister
  <2>1. /\ loop.at = "unregister" /\ loop' = NoCall /\ registered' = registered \ {loop.id}
        /\ UNCHANGED <<rows, linked, events, confirm>>
        /\ adrift' = IF \E g \in Goroutines : sync[g].id = loop.id
                     THEN adrift \union {loop.id} ELSE adrift
    BY <1>9 DEF Unregister, tableVars
  <2>2. up /\ loop'.at = "idle"
    BY <1>b, <2>1 DEF LoopInv, NoCall
  <2>3. Shape'
    BY <1>b, <1>1, <1>2, <2>1 DEF Shape
  <2>4. LoopInv'
    BY <1>2, <2>2 DEF LoopInv
  <2>5. OwnInv'
    BY <1>b, <1>2, <2>1, <2>2 DEF OwnInv, Owned, EventsBelong
  <2>6. RowInv'
    BY <1>b, <1>1, <1>2, <2>1 DEF RowInv
  <2>7. Ties'
    BY <1>a, <1>2, <1>3, <2>1 DEF Ties
  <2> QED
    BY <1>3, <1>4, <2>3, <2>4, <2>5, <2>6, <2>7 DEF IInv, RestInv
<1> QED
  BY <1>5, <1>6, <1>7, <1>8, <1>9

-------------------------------------------------------------------------------
(* The process, and uninstall.                                             *)

LEMMA DieKeeps ==
  ASSUME IInv, Die
  PROVE  IInv'
<1>a. StoreInv /\ Ties /\ RestInv /\ StoreShape
  BY DEF IInv, StoreInv
<1>1. /\ ~up' /\ sync' = [g \in Goroutines |-> NoSync] /\ registered' = {}
      /\ loop' = NoCall /\ form' = NoForm /\ confirm' = {}
      /\ UNCHANGED <<kindOf, rows, linked, events, issued, adrift>>
      /\ cut' = IF loop.at \in {"link", "store"} /\ ~loop.edit THEN cut \union {loop.id} ELSE cut
  BY DEF Die, tableVars, tokenVars
<1>2. StoreInv' /\ setting' = [a \in Actors |-> Nobody] /\ keyring' = keyring /\ uninst' = uninst
  BY <1>a, CutOffKeepsStore DEF Die, CutOff
<1>3. Ties'
  BY <1>2 DEF Ties, Goroutines
<1>4. Shape'
  BY <1>a, <1>1 DEF RestInv, Shape
<1>5. LoopInv' /\ SyncInv'
  BY <1>1 DEF LoopInv, SyncInv, NoCall, NoSync
<1>6. OwnInv'
  BY <1>a, <1>1 DEF RestInv, OwnInv, Owned, EventsBelong, NoCall, NoSync
<1>7. RowInv'
  BY <1>a, <1>1, <1>2 DEF RestInv, RowInv
<1> QED
  BY <1>2, <1>3, <1>4, <1>5, <1>6, <1>7 DEF IInv, RestInv

LEMMA StartKeeps ==
  ASSUME IInv, Start
  PROVE  IInv'
<1>a. StoreInv /\ Ties /\ RestInv /\ StoreShape
  BY DEF IInv, StoreInv
<1>1. /\ ~up /\ up' /\ registered' = linked
      /\ UNCHANGED <<storeVars, kindOf, rows, linked, events, sync, loop, form, confirm, issued, cut, adrift>>
  BY DEF Start, tableVars, uiVars, tokenVars, historyVars
<1>2. StoreInv' /\ setting' = setting /\ keyring' = keyring /\ uninst' = uninst
  BY <1>a, <1>1, UnchangedKeepsStore DEF storeVars
<1>3. Ties'
  BY <1>a, <1>1, <1>2 DEF Ties
<1>4. Shape'
  BY <1>a, <1>1 DEF RestInv, Shape
<1>5. LoopInv' /\ SyncInv'
  BY <1>a, <1>1 DEF RestInv, LoopInv, SyncInv
<1>6. OwnInv'
  BY <1>a, <1>1 DEF RestInv, Shape, OwnInv, Owned, EventsBelong
<1>7. RowInv'
  BY <1>a, <1>1, <1>2 DEF RestInv, RowInv
<1> QED
  BY <1>2, <1>3, <1>4, <1>5, <1>6, <1>7 DEF IInv, RestInv

LEMMA UninstallKeeps ==
  ASSUME IInv, QueryAction \/ UninstallAction \/ PurgeAction
  PROVE  IInv'
<1>a. StoreInv /\ Ties /\ RestInv /\ StoreShape
  BY DEF IInv, StoreInv
<1>1. /\ Query \/ Uninstall \/ Purge
      /\ UNCHANGED <<up, kindOf, registered, sync, loop, form, confirm, issued, cut, adrift>>
      /\ \/ UNCHANGED <<rows, linked, events>>
         \/ ~up /\ rows' = {} /\ linked' = {} /\ events' = {}
  BY DEF QueryAction, UninstallAction, PurgeAction, tableVars, uiVars, tokenVars, historyVars
<1>2. StoreInv' /\ setting' = setting
  BY <1>a, <1>1, UninstallKeepsStore
<1>3. uninst' # "off" \/ UNCHANGED <<keyring, uninst>>
  BY <1>1 DEF Query, Uninstall, Purge, DeleteEntry, DeleteFails, ClearIndex, UninstallDies,
              UninstallEnds
<1>4. Ties'
  BY <1>a, <1>1, <1>2 DEF Ties
<1>5. Shape'
  BY <1>a, <1>1 DEF RestInv, Shape
<1>6. LoopInv' /\ SyncInv'
  BY <1>a, <1>1 DEF RestInv, LoopInv, SyncInv
<1>7. OwnInv'
  <2>1. CASE UNCHANGED <<rows, linked, events>>
    BY <1>a, <1>1, <2>1 DEF RestInv, OwnInv, Owned, EventsBelong
  <2>2. CASE ~up /\ rows' = {} /\ linked' = {} /\ events' = {}
    <3>1. registered' = {} /\ loop'.at = "idle" /\ \A g \in Goroutines : sync'[g].at = "idle"
      BY <1>a, <1>1, <2>2 DEF RestInv, LoopInv, SyncInv
    <3> QED
      BY <2>2, <3>1 DEF OwnInv, Owned, EventsBelong
  <2> QED
    BY <1>1, <2>1, <2>2
<1>8. RowInv'
  BY <1>a, <1>1, <1>3 DEF RestInv, RowInv
<1> QED
  BY <1>2, <1>4, <1>5, <1>6, <1>7, <1>8 DEF IInv, RestInv

LEMMA StutterKeeps ==
  ASSUME IInv, UNCHANGED vars
  PROVE  IInv'
<1>a. StoreInv /\ Ties /\ RestInv /\ StoreShape
  BY DEF IInv, StoreInv
<1>1. UNCHANGED <<storeVars, up, kindOf, rows, linked, events, registered, sync, loop, form, confirm,
                  issued, cut, adrift>>
  BY DEF vars, tableVars, uiVars, tokenVars, historyVars
<1>2. StoreInv' /\ setting' = setting /\ keyring' = keyring /\ uninst' = uninst
  BY <1>a, <1>1, UnchangedKeepsStore DEF storeVars
<1>3. Ties' /\ Shape' /\ LoopInv' /\ SyncInv'
  BY <1>a, <1>1, <1>2 DEF RestInv, Ties, Shape, LoopInv, SyncInv
<1>4. OwnInv' /\ RowInv'
  BY <1>a, <1>1, <1>2 DEF RestInv, OwnInv, Owned, EventsBelong, RowInv
<1> QED
  BY <1>2, <1>3, <1>4 DEF IInv, RestInv

LEMMA StepInv == IInv /\ [Next]_vars => IInv'
<1> SUFFICES ASSUME IInv, [Next]_vars PROVE IInv'
  OBVIOUS
<1>1. CASE WindowAction
  BY <1>1, FormAction, DeleteAction DEF WindowAction
<1>2. CASE OtherAction
  BY <1>2, DieKeeps, UninstallKeeps, SyncAction DEF OtherAction, Quit
<1>3. CASE Step
  <2>1. CASE \E g \in Goroutines : Visit(g) \/ SyncStep(g)
    BY <2>1, SyncAction
  <2>2. CASE Connect \/ \E m \in Logins : Callback(m) \/ LoginStep(m)
    BY <2>2, LoginAction
  <2>3. CASE CallStep
    BY <2>3, SaveAction, DeleteAction DEF CallStep
  <2>4. CASE Crash \/ Start \/ UninstallAction \/ PurgeAction
    BY <2>4, DieKeeps, StartKeeps, UninstallKeeps DEF Crash
  <2> QED
    BY <1>3, <2>1, <2>2, <2>3, <2>4 DEF Step
<1>4. CASE UNCHANGED vars
  BY <1>4, StutterKeeps
<1> QED
  BY <1>1, <1>2, <1>3, <1>4 DEF Next

THEOREM Invariance == Spec => []IInv
<1>1. Init => IInv
  BY InitInv
<1>2. IInv /\ [Next]_vars => IInv'
  BY StepInv
<1> QED
  BY <1>1, <1>2, PTL DEF Spec

(* Uninstall finds every secret of this program, but for those `loose' and *)
(* `late' name, however stores, rotations and uninstalls interleave.       *)
THEOREM SecretsAreIndexed == Spec => []Indexed
<1>1. IInv => Indexed
  BY DEF IInv, StoreInv
<1> QED
  BY <1>1, Invariance, PTL

(* Every row has its credentials, but for the saves that `cut' names.      *)
THEOREM RowsHaveSecrets == Spec => []RowHasSecret
<1>1. IInv => RowHasSecret
  BY DEF IInv, RestInv, RowInv, RowHasSecret
<1> QED
  BY <1>1, Invariance, PTL

(* Every event belongs to a calendar there is, or `adrift' says why not.   *)
THEOREM EventsHaveCalendars == Spec => []EventsBelong
<1>1. IInv => EventsBelong
  BY DEF IInv, RestInv, OwnInv
<1> QED
  BY <1>1, Invariance, PTL

-------------------------------------------------------------------------------
(* The refresh tokens: no two calendars share one, and the one in the      *)
(* keyring is one the server takes, whatever number of syncs rotates it,   *)
(* in the engine or beside it.  The inductive invariant, with IInv.        *)

USE BoundsAssumption

\* What is in use was created for one kind of adapter.
KindInv ==
  /\ \A i \in Ids : kindOf[i] \in {"none", "caldav", "outlook"}
  /\ \A i \in rows \union registered : kindOf[i] # "none"
  /\ \A c \in confirm : kindOf[c.id] # "none"
  /\ loop.at # "idle" => kindOf[loop.id] # "none"
  /\ \A g \in Goroutines : sync[g].at # "idle" => kindOf[sync[g].id] # "none"
  /\ \A i \in Ids : keyring[i] # 0 => kindOf[i] # "none"

\* A token was issued, and what is taken was too.
IssuedInv == issued \in 0..MaxTokens /\ accepted \subseteq 1..issued

\* An Outlook calendar has a token of its own.
StoredInv ==
  /\ \A i \in Ids : keyring[i] # 0 =>
       IF kindOf[i] = "caldav" THEN keyring[i] = Password ELSE keyring[i] \in 1..issued
  /\ \A i, j \in Ids : keyring[i] # 0 /\ kindOf[i] = "outlook" /\ keyring[i] = keyring[j] => i = j

\* A token about to be stored is taken by the server and known to nobody else.
RotateInv ==
  \A g \in Goroutines : sync[g].at = "rotate" =>
    /\ sync[g].token \in accepted /\ kindOf[sync[g].id] = "outlook"
    /\ \A i \in Ids : keyring[i] # sync[g].token
    /\ \A h \in Goroutines \ {g} :
         sync[h].at \in {"rotate", "exchange"} => sync[h].token # sync[g].token

\* A token being exchanged is that of the calendar, or used to be.
ExchangeInv ==
  \A g \in Goroutines : sync[g].at = "exchange" =>
    /\ sync[g].token \in 1..issued /\ kindOf[sync[g].id] = "outlook"
    /\ \A i \in Ids : keyring[i] = sync[g].token => i = sync[g].id

\* Nor does anybody else know a token that waits in a window ...
FormInv ==
  /\ form \in [open : BOOLEAN, token : Nat, login : Nat]
  /\ form.token # 0 =>
       /\ form.token \in accepted
       /\ \A i \in Ids : keyring[i] # form.token
       /\ \A g \in Goroutines :
            sync[g].at \in {"rotate", "exchange"} => sync[g].token # form.token

\* ... or is on its way to one.
LoginInv ==
  /\ login = [k \in Logins |-> login[k]]
  /\ \A k \in Logins : login[k].at = "list" =>
       /\ login[k].token \in accepted /\ form.token # login[k].token
       /\ \A i \in Ids : keyring[i] # login[k].token
       /\ \A g \in Goroutines :
            sync[g].at \in {"rotate", "exchange"} => sync[g].token # login[k].token
       /\ \A j \in Logins \ {k} : login[j].at = "list" => login[j].token # login[k].token

TokenInv ==
  IssuedInv /\ StoredInv /\ StayConnected /\ RotateInv /\ ExchangeInv /\ FormInv /\ LoginInv

IITokens == IInv /\ KindInv /\ TokenInv

-------------------------------------------------------------------------------
(* Who uses a calendar.                                                    *)

LEMMA KindKept ==
  ASSUME KindInv, UNCHANGED kindOf,
         rows' \subseteq rows, registered' \subseteq registered \union rows,
         \A c \in confirm' : c \in confirm \/ c.id \in rows,
         loop'.at # "idle" => \/ loop.at # "idle" /\ loop'.id = loop.id
                              \/ \E c \in confirm : loop'.id = c.id
                              \/ kindOf[loop'.id] # "none",
         \A g \in Goroutines : sync'[g].at # "idle" =>
           \/ sync[g].at # "idle" /\ sync'[g].id = sync[g].id
           \/ sync'[g].id \in rows \union registered,
         \A i \in Ids : keyring'[i] # 0 => keyring[i] # 0 \/ kindOf[i] # "none"
  PROVE  KindInv'
BY DEF KindInv

-------------------------------------------------------------------------------
(* The tokens.                                                             *)

\* Tokens may be forgotten, and a sync may end or begin.
LEMMA QuietKeepsTokens ==
  ASSUME TokenInv, UNCHANGED <<accepted, issued>>,
         \A i \in Ids : keyring'[i] \in {keyring[i], 0},
         \A i \in Ids : kindOf'[i] = kindOf[i] \/ (kindOf[i] = "none" /\ keyring[i] = 0),
         \A g \in Goroutines : sync'[g].at \in {"rotate", "exchange"} => sync'[g] = sync[g],
         \A g \in Goroutines : sync[g].at \in {"rotate", "exchange"} => sync[g].id \in Ids,
         \A g \in Goroutines : sync[g].at = "rotate" => sync'[g] = sync[g] \/ sync[g].id \in stale',
         stale \subseteq stale',
         form' \in [open : BOOLEAN, token : Nat, login : Nat], form'.token \in {form.token, 0},
         login' = [k \in Logins |-> login'[k]],
         \A k \in Logins : login'[k].at = "list" => login'[k] = login[k]
  PROVE  TokenInv'
<1> USE DEF TokenInv
<1>1. IssuedInv'
  BY DEF IssuedInv
<1>2. StoredInv'
  BY DEF StoredInv
<1>3. StayConnected'
  BY DEF StayConnected
<1>4. RotateInv'
  BY DEF RotateInv, IssuedInv
<1>5. ExchangeInv'
  BY DEF ExchangeInv
<1>6. FormInv'
  BY DEF FormInv
<1>7. LoginInv'
  BY DEF LoginInv, FormInv, IssuedInv
<1> QED
  BY <1>1, <1>2, <1>3, <1>4, <1>5, <1>6, <1>7

\* A calendar gets a password, or a token nobody else knows.
LEMMA StoreKeepsTokens ==
  ASSUME TokenInv, UNCHANGED <<accepted, issued, kindOf, stale, login>>,
         keyring = [i \in Ids |-> keyring[i]],
         NEW i \in Ids, NEW secret, keyring' = [keyring EXCEPT ![i] = secret],
         \/ kindOf[i] = "caldav" /\ secret = Password
         \/ /\ kindOf[i] = "outlook" /\ secret \in accepted
            /\ \A j \in Ids : keyring[j] # secret,
         \A g \in Goroutines : sync'[g].at \in {"rotate", "exchange"} =>
           sync'[g] = sync[g] /\ sync[g].token # secret,
         \A g \in Goroutines : sync[g].at = "rotate" => sync'[g] = sync[g] \/ sync[g].id = i,
         form' \in [open : BOOLEAN, token : Nat, login : Nat], form'.token \in {form.token, 0},
         form'.token # 0 => form'.token # secret,
         \A k \in Logins : login[k].at = "list" => login[k].token # secret
  PROVE  TokenInv'
<1> USE DEF TokenInv
<1>1. \A j \in Ids : keyring'[j] = IF j = i THEN secret ELSE keyring[j]
  OBVIOUS
<1>2. IssuedInv'
  BY DEF IssuedInv
<1>3. StoredInv'
  BY <1>1 DEF StoredInv, IssuedInv, Password
<1>4. StayConnected'
  BY <1>1 DEF StayConnected
<1>5. RotateInv'
  BY <1>1 DEF RotateInv
<1>6. ExchangeInv'
  BY <1>1 DEF ExchangeInv
<1>7. FormInv'
  BY <1>1 DEF FormInv
<1>8. LoginInv'
  BY <1>1 DEF LoginInv, FormInv, IssuedInv
<1> QED
  BY <1>2, <1>3, <1>4, <1>5, <1>6, <1>7, <1>8

\* The server issues a token and may drop one that only a calendar has; the new
\* one goes to a sync or to a sign-in, or is lost.
LEMMA IssueKeepsTokens ==
  ASSUME TokenInv, UNCHANGED <<keyring, kindOf, form>>,
         NEW old, Issue(old),
         \A g \in Goroutines : sync[g].at = "rotate" => sync[g].token # old,
         form.token # old, \A k \in Logins : login[k].at = "list" => login[k].token # old,
         \A i \in Ids : kindOf[i] = "outlook" /\ keyring[i] # 0 /\ keyring[i] = old =>
           \/ i \in stale'
           \/ \E g \in Goroutines : sync'[g].id = i /\ sync'[g].at = "rotate",
         stale \subseteq stale',
         \A g \in Goroutines : sync[g].at = "rotate" => sync'[g] = sync[g],
         \A g \in Goroutines : sync'[g].at = "exchange" => sync'[g] = sync[g],
         \A g \in Goroutines : sync'[g].at = "rotate" =>
           sync'[g] = sync[g] \/ (sync'[g].token = issued' /\ kindOf[sync'[g].id] = "outlook"),
         \A g, h \in Goroutines :
           sync'[g].at = "rotate" /\ sync'[h].at = "rotate" /\ sync'[g].token = issued'
             /\ sync'[h].token = issued' => g = h,
         login' = [k \in Logins |-> login'[k]],
         \A k \in Logins : login'[k].at = "list" =>
           login'[k] = login[k] \/ login'[k].token = issued',
         \A k, m \in Logins :
           login'[k].at = "list" /\ login'[m].at = "list" /\ login'[k].token = issued'
             /\ login'[m].token = issued' => k = m,
         \A k \in Logins, g \in Goroutines :
           ~(login'[k].at = "list" /\ login'[k].token = issued'
             /\ sync'[g].at = "rotate" /\ sync'[g].token = issued')
  PROVE  TokenInv'
<1> USE DEF TokenInv
<1>1. /\ issued \in Nat /\ issued' = issued + 1 /\ issued' \in 0..MaxTokens
      /\ accepted \subseteq 1..issued /\ issued' \in accepted'
      /\ accepted' \subseteq 1..issued' /\ \A t \in accepted : t # old => t \in accepted'
  BY DEF Issue, IssuedInv
<1>2. \A i \in Ids : keyring[i] # issued'
  BY <1>1 DEF StoredInv, IssuedInv, Password
<1>3. IssuedInv'
  BY <1>1 DEF IssuedInv
<1>4. StoredInv'
  BY <1>1 DEF StoredInv
<1>5. StayConnected'
  <2> SUFFICES ASSUME NEW i \in Ids, kindOf[i] = "outlook", keyring[i] # 0,
                      keyring[i] \notin accepted', i \notin stale'
               PROVE \E g \in Goroutines : sync'[g].id = i /\ sync'[g].at = "rotate"
    BY DEF StayConnected
  <2>1. CASE keyring[i] = old
    BY <2>1
  <2>2. CASE keyring[i] # old
    <3>1. PICK g \in Goroutines : sync[g].id = i /\ sync[g].at = "rotate"
      BY <1>1, <2>2 DEF StayConnected
    <3> QED
      BY <3>1
  <2> QED
    BY <2>1, <2>2
<1>6. RotateInv'
  BY <1>1, <1>2 DEF RotateInv, ExchangeInv
<1>7. ExchangeInv'
  BY <1>1 DEF ExchangeInv
<1>8. FormInv'
  BY <1>1 DEF FormInv
<1>9. LoginInv'
  BY <1>1, <1>2 DEF LoginInv, FormInv, RotateInv, ExchangeInv
<1> QED
  BY <1>3, <1>4, <1>5, <1>6, <1>7, <1>8, <1>9

\* A sync reads the token of its calendar.
LEMMA LoadKeepsTokens ==
  ASSUME TokenInv, UNCHANGED <<keyring, kindOf, accepted, issued, stale, form, login>>,
         NEW g \in Goroutines, sync = [h \in Goroutines |-> sync[h]], sync[g].at = "load",
         NEW r, sync' = [sync EXCEPT ![g] = r],
         r.at = "exchange", r.id \in Ids, r.token = keyring[r.id], r.token # 0,
         kindOf[r.id] = "outlook"
  PROVE  TokenInv'
<1> USE DEF TokenInv
<1>1. \A h \in Goroutines : sync'[h] = IF h = g THEN r ELSE sync[h]
  OBVIOUS
<1>2. IssuedInv' /\ StoredInv'
  BY DEF IssuedInv, StoredInv
<1>3. StayConnected'
  BY <1>1 DEF StayConnected
<1>4. RotateInv'
  BY <1>1 DEF RotateInv
<1>5. ExchangeInv'
  BY <1>1 DEF ExchangeInv, StoredInv
<1>6. FormInv' /\ LoginInv'
  BY <1>1 DEF FormInv, LoginInv
<1> QED
  BY <1>2, <1>3, <1>4, <1>5, <1>6

\* A sign-in hands its token over.
LEMMA DeliverKeepsTokens ==
  ASSUME TokenInv, UNCHANGED <<keyring, kindOf, accepted, issued, stale, sync>>,
         NEW m \in Logins, login[m].at = "list", login' = [login EXCEPT ![m] = EndedLogin],
         form' = [form EXCEPT !.login = 0, !.token = login[m].token]
  PROVE  TokenInv'
<1> USE DEF TokenInv
<1>1. \A k \in Logins : login'[k] = IF k = m THEN EndedLogin ELSE login[k]
  BY DEF LoginInv
<1>2. EndedLogin.at = "over"
  BY DEF EndedLogin
<1>3. login[m].token \in Nat
  BY DEF LoginInv, IssuedInv
<1>4. form' \in [open : BOOLEAN, token : Nat, login : Nat] /\ form'.token = login[m].token
  BY <1>3 DEF FormInv
<1>5. IssuedInv' /\ StoredInv' /\ StayConnected' /\ RotateInv' /\ ExchangeInv'
  BY DEF IssuedInv, StoredInv, StayConnected, RotateInv, ExchangeInv
<1>6. FormInv'
  BY <1>4 DEF FormInv, LoginInv
<1>7. LoginInv'
  BY <1>1, <1>2, <1>4 DEF LoginInv
<1> QED
  BY <1>5, <1>6, <1>7

-------------------------------------------------------------------------------
(* What the lemmas above ask of a state.                                   *)

LEMMA Context ==
  ASSUME IITokens
  PROVE  /\ KindInv /\ TokenInv /\ Shape /\ LoopInv /\ SyncInv /\ Ties
         /\ keyring = [i \in Ids |-> keyring[i]] /\ sync = [g \in Goroutines |-> sync[g]]
         /\ form \in [open : BOOLEAN, token : Nat, login : Nat]
         /\ login = [k \in Logins |-> login[k]]
         /\ linked \subseteq rows
         /\ \A g \in Goroutines : sync[g].at # "idle" => sync[g].id \in Ids
BY DEF IITokens, IInv, StoreInv, StoreShape, RestInv, Shape, SyncInv, TokenInv, FormInv, LoginInv

-------------------------------------------------------------------------------
(* Syncs.                                                                  *)

LEMMA SyncKind ==
  ASSUME IITokens, NEW g \in Goroutines, NEW r, sync' = [sync EXCEPT ![g] = r],
         r.at # "idle" => \/ sync[g].at # "idle" /\ r.id = sync[g].id
                          \/ r.id \in rows \union registered,
         UNCHANGED <<kindOf, rows, registered, confirm, loop>>,
         \A i \in Ids : keyring'[i] # 0 => keyring[i] # 0 \/ kindOf[i] # "none"
  PROVE  KindInv'
<1>1. \A h \in Goroutines : sync'[h] = IF h = g THEN r ELSE sync[h]
  BY Context
<1>2. \A h \in Goroutines : sync'[h].at # "idle" =>
           \/ sync[h].at # "idle" /\ sync'[h].id = sync[h].id
           \/ sync'[h].id \in rows \union registered
  BY <1>1
<1> QED
  BY <1>2, Context, KindKept

LEMMA QuietSync ==
  ASSUME IITokens, NEW g \in Goroutines, NEW r, sync' = [sync EXCEPT ![g] = r],
         r.at \notin {"rotate", "exchange"},
         UNCHANGED <<keyring, kindOf, accepted, issued, form, login>>,
         stale \subseteq stale', sync[g].at = "rotate" => sync[g].id \in stale'
  PROVE  TokenInv'
<1>1. \A h \in Goroutines : sync'[h] = IF h = g THEN r ELSE sync[h]
  BY Context
<1> QED
  BY <1>1, Context, QuietKeepsTokens

\* A sync that ends, or goes on to a step that holds no token.
LEMMA GoOnQuietly ==
  ASSUME IITokens, NEW g \in Goroutines, sync[g].at # "idle",
         NEW at \in {"pull", "index"}, EndSync(g) \/ GoOn(g, at, 0),
         UNCHANGED <<keyring, accepted, issued>>, SyncLeaves,
         stale \subseteq stale', sync[g].at = "rotate" => sync[g].id \in stale'
  PROVE  KindInv' /\ TokenInv'
<1>1. UNCHANGED <<kindOf, rows, registered, confirm, loop, form, login>>
  BY DEF SyncLeaves, tableVars, uiVars
<1>2. CASE EndSync(g)
  <2>1. sync' = [sync EXCEPT ![g] = NoSync] /\ NoSync.at = "idle"
    BY <1>2 DEF EndSync, NoSync
  <2> QED
    BY <1>1, <2>1, SyncKind, QuietSync
<1>3. CASE GoOn(g, at, 0)
  <2> DEFINE r == [at |-> at, id |-> sync[g].id, token |-> 0, own |-> sync[g].own]
  <2>1. sync' = [sync EXCEPT ![g] = r] /\ r.at = at /\ r.id = sync[g].id
    BY <1>3 DEF GoOn
  <2> HIDE DEF r
  <2> QED
    BY <1>1, <2>1, SyncKind, QuietSync
<1> QED
  BY <1>2, <1>3

LEMMA StartTokens ==
  ASSUME IITokens, NEW g \in Goroutines, Visit(g) \/ SyncNow(g)
  PROVE  KindInv' /\ TokenInv'
<1>1. PICK i \in registered \union linked, own \in BOOLEAN : StartSync(g, i, own)
  BY DEF Visit, SyncNow
<1> DEFINE r == [at |-> "load", id |-> i, token |-> 0, own |-> own]
<1>2. sync' = [sync EXCEPT ![g] = r] /\ r.at = "load" /\ r.id = i
  BY <1>1 DEF StartSync
<1> HIDE DEF r
<1>3. /\ sync[g].at = "idle"
      /\ UNCHANGED <<keyring, kindOf, rows, registered, confirm, loop, accepted, issued, form, login, stale>>
  BY DEF Visit, SyncNow, SyncLeaves, storeVars, tableVars, uiVars, tokenVars
<1>4. i \in rows \union registered
  BY Context
<1>5. KindInv'
  BY <1>2, <1>3, <1>4, SyncKind
<1>6. TokenInv'
  BY <1>2, <1>3, QuietSync
<1> QED
  BY <1>5, <1>6

LEMMA LoadTokens ==
  ASSUME IITokens, NEW g \in Goroutines, LoadSecret(g)
  PROVE  KindInv' /\ TokenInv'
<1> DEFINE secret == keyring[sync[g].id]
<1>1. /\ sync[g].at = "load"
      /\ UNCHANGED <<keyring, kindOf, rows, registered, confirm, loop, accepted, issued, form, login, stale>>
  BY DEF LoadSecret, SyncLeaves, storeVars, tableVars, uiVars, tokenVars
<1>2. sync[g].id \in Ids /\ kindOf[sync[g].id] \in {"caldav", "outlook"}
  BY <1>1, Context DEF KindInv
<1>3. CASE EndSync(g) \/ GoOn(g, "pull", 0)
  <2>1. SyncLeaves
    BY DEF LoadSecret
  <2> QED
    BY <1>1, <1>3, <2>1, GoOnQuietly
<1>4. CASE GoOn(g, "exchange", secret) /\ secret # 0 /\ kindOf[sync[g].id] # "caldav"
  <2> DEFINE r == [at |-> "exchange", id |-> sync[g].id, token |-> secret, own |-> sync[g].own]
  <2>1. /\ sync' = [sync EXCEPT ![g] = r]
        /\ r.at = "exchange" /\ r.id = sync[g].id /\ r.token = secret
    BY <1>4 DEF GoOn
  <2> HIDE DEF r
  <2>2. KindInv'
    BY <1>1, <2>1, SyncKind
  <2>3. TokenInv'
    BY <1>1, <1>2, <1>4, <2>1, Context, LoadKeepsTokens
  <2> QED
    BY <2>2, <2>3
<1> QED
  BY <1>3, <1>4 DEF LoadSecret

LEMMA ExchangeTokens ==
  ASSUME IITokens, NEW g \in Goroutines, Exchange(g)
  PROVE  KindInv' /\ TokenInv'
<1> DEFINE token == sync[g].token
<1>1. sync[g].at = "exchange" /\ SyncLeaves /\ keyring' = keyring /\ stale \subseteq stale'
  BY DEF Exchange, storeVars
<1>2. UNCHANGED <<kindOf, rows, registered, confirm, loop, form, login>>
  BY <1>1 DEF SyncLeaves, tableVars, uiVars
<1>3. CASE (EndSync(g) \/ GoOn(g, "pull", 0)) /\ UNCHANGED tokenVars
  BY <1>1, <1>3, GoOnQuietly DEF tokenVars
<1>a. /\ kindOf[sync[g].id] = "outlook" /\ token # 0
      /\ \A i \in Ids : keyring[i] = token => i = sync[g].id
  BY <1>1, Context DEF TokenInv, ExchangeInv
<1>b. \A h \in Goroutines : sync[h].at = "rotate" => sync[h].token # token
  BY <1>1, Context DEF TokenInv, RotateInv
<1>c. form.token # token
  BY <1>1, <1>a, Context DEF TokenInv, FormInv
<1>d. \A k \in Logins : login[k].at = "list" => login[k].token # token
  BY <1>1, Context DEF TokenInv, LoginInv
<1>e. /\ issued \in Nat
      /\ \A h \in Goroutines : sync[h].at = "rotate" => sync[h].token \in 1..issued
      /\ \A k \in Logins : login[k].at = "list" => login[k].token \in 1..issued
  BY Context DEF TokenInv, IssuedInv, RotateInv, LoginInv
<1>4. CASE Issue(token) /\ GoOn(g, "rotate", issued')
  <2> DEFINE r == [at |-> "rotate", id |-> sync[g].id, token |-> issued', own |-> sync[g].own]
  <2>1. /\ sync' = [sync EXCEPT ![g] = r]
        /\ r.at = "rotate" /\ r.id = sync[g].id /\ r.token = issued'
    BY <1>4 DEF GoOn
  <2> HIDE DEF r
  <2>2. KindInv'
    BY <1>1, <1>2, <2>1, SyncKind
  <2>3. \A h \in Goroutines : sync'[h] = IF h = g THEN r ELSE sync[h]
    BY <2>1, Context
  <2>4. issued' = issued + 1
    BY <1>4 DEF Issue
  <2>5. \A h \in Goroutines : sync[h].at = "rotate" => sync[h].token # issued'
    BY <1>e, <2>4
  <2>6. \A k \in Logins : login[k].at = "list" => login[k].token # issued'
    BY <1>e, <2>4
  <2>7. TokenInv'
    BY <1>1, <1>2, <1>4, <1>a, <1>b, <1>c, <1>d, <2>1, <2>3, <2>5, <2>6, Context, IssueKeepsTokens
  <2> QED
    BY <2>2, <2>7
<1>5. CASE Issue(token) /\ EndSync(g) /\ stale' = stale \union {sync[g].id}
  <2>1. sync' = [sync EXCEPT ![g] = NoSync] /\ NoSync.at = "idle"
    BY <1>5 DEF EndSync, NoSync
  <2>2. KindInv'
    BY <1>1, <1>2, <2>1, SyncKind
  <2>3. \A h \in Goroutines : sync'[h] = IF h = g THEN NoSync ELSE sync[h]
    BY <2>1, Context
  <2>4. issued' = issued + 1
    BY <1>5 DEF Issue
  <2>5. \A h \in Goroutines : sync[h].at = "rotate" => sync[h].token # issued'
    BY <1>e, <2>4
  <2>6. \A k \in Logins : login[k].at = "list" => login[k].token # issued'
    BY <1>e, <2>4
  <2>7. TokenInv'
    BY <1>1, <1>2, <1>5, <1>a, <1>b, <1>c, <1>d, <2>1, <2>3, <2>5, <2>6, Context, IssueKeepsTokens
  <2> QED
    BY <2>2, <2>7
<1> QED
  BY <1>3, <1>4, <1>5 DEF Exchange

LEMMA RotateTokens ==
  ASSUME IITokens, NEW g \in Goroutines, Rotate(g)
  PROVE  KindInv' /\ TokenInv'
<1> DEFINE i == sync[g].id
           secret == sync[g].token
<1>1. sync[g].at = "rotate" /\ SyncLeaves /\ UNCHANGED <<accepted, issued>>
  BY DEF Rotate, tokenVars
<1>2. UNCHANGED <<kindOf, rows, registered, confirm, loop, form, login>>
  BY <1>1 DEF SyncLeaves, tableVars, uiVars
<1>3. CASE GoOn(g, "pull", 0) /\ stale' = stale \union {i} /\ UNCHANGED storeVars
  BY <1>1, <1>3, GoOnQuietly DEF storeVars
<1>4. CASE KeyringSet(g, i, secret) /\ GoOn(g, "index", 0) /\ stale' = stale
  <2> DEFINE r == [at |-> "index", id |-> sync[g].id, token |-> 0, own |-> sync[g].own]
  <2>1. sync' = [sync EXCEPT ![g] = r] /\ r.at = "index" /\ r.id = i
    BY <1>4 DEF GoOn
  <2> HIDE DEF r
  <2>2. \A h \in Goroutines : sync'[h] = IF h = g THEN r ELSE sync[h]
    BY <2>1, Context
  <2>3. keyring' = [keyring EXCEPT ![i] = secret] /\ i \in Ids
    BY <1>1, <1>4, Context DEF KeyringSet
  <2>4. /\ secret \in accepted /\ kindOf[i] = "outlook"
        /\ \A j \in Ids : keyring[j] # secret
        /\ \A h \in Goroutines \ {g} :
             sync[h].at \in {"rotate", "exchange"} => sync[h].token # secret
    BY <1>1, Context DEF TokenInv, RotateInv
  <2>5. form.token # 0 => form.token # secret
    BY <1>1, Context DEF TokenInv, FormInv
  <2>6. \A k \in Logins : login[k].at = "list" => login[k].token # secret
    BY <1>1, Context DEF TokenInv, LoginInv
  <2>7. \A h \in Goroutines : sync'[h].at \in {"rotate", "exchange"} =>
           sync'[h] = sync[h] /\ sync[h].token # secret
    BY <2>1, <2>2, <2>4
  <2>8. TokenInv'
    <3>1. \A h \in Goroutines : sync[h].at = "rotate" => sync'[h] = sync[h] \/ sync[h].id = i
      BY <2>2
    <3>2. /\ form' \in [open : BOOLEAN, token : Nat, login : Nat] /\ form'.token \in {form.token, 0}
          /\ form'.token # 0 => form'.token # secret
      BY <1>2, <2>5, Context
    <3>3. UNCHANGED <<accepted, issued, kindOf, stale, login>>
      BY <1>1, <1>2, <1>4
    <3>4. TokenInv /\ keyring = [j \in Ids |-> keyring[j]]
      BY Context
    <3> HIDE DEF i, secret
    <3> QED
      BY <2>3, <2>4, <2>6, <2>7, <3>1, <3>2, <3>3, <3>4, StoreKeepsTokens
  <2>9. \A j \in Ids : keyring'[j] # 0 => keyring[j] # 0 \/ kindOf[j] # "none"
    BY <2>3, <2>4, Context
  <2>10. KindInv'
    BY <1>1, <1>2, <2>1, <2>9, SyncKind
  <2> QED
    BY <2>8, <2>10
<1> QED
  BY <1>3, <1>4 DEF Rotate

LEMMA SyncTokens ==
  ASSUME IITokens, NEW g \in Goroutines, Visit(g) \/ SyncNow(g) \/ SyncStep(g)
  PROVE  KindInv' /\ TokenInv'
<1>1. CASE IndexRotated(g)
  <2>1. /\ sync[g].at = "index" /\ GoOn(g, "pull", 0) /\ SyncLeaves
        /\ UNCHANGED <<keyring, accepted, issued, stale>>
    BY <1>1 DEF IndexRotated, RecordIndex, RecordFails, tokenVars
  <2> QED
    BY <2>1, GoOnQuietly
<1>2. CASE Pull(g)
  <2>1. /\ sync[g].at = "pull" /\ EndSync(g) /\ SyncLeaves
        /\ UNCHANGED <<keyring, accepted, issued, stale>>
    BY <1>2 DEF Pull, storeVars, tokenVars
  <2> QED
    BY <2>1, GoOnQuietly
<1> QED
  BY <1>1, <1>2, StartTokens, LoadTokens, ExchangeTokens, RotateTokens DEF SyncStep

-------------------------------------------------------------------------------
(* Sign-ins.                                                               *)

LEMMA QuietLogin ==
  ASSUME IITokens, LoginLeaves, UNCHANGED tokenVars,
         NEW m \in Logins, NEW r, login' = [login EXCEPT ![m] = r], r.at # "list",
         form' \in [open : BOOLEAN, token : Nat, login : Nat], form'.token = form.token
  PROVE  TokenInv'
<1>1. UNCHANGED <<keyring, kindOf, sync, stale, accepted, issued>>
  BY DEF LoginLeaves, storeVars, tableVars, historyVars, tokenVars
<1>2. /\ login' = [k \in Logins |-> login'[k]]
      /\ \A k \in Logins : login'[k].at = "list" => login'[k] = login[k]
  BY Context
<1> QED
  BY <1>1, <1>2, Context, QuietKeepsTokens

LEMMA GiveUpTokens ==
  ASSUME IITokens, LoginLeaves, UNCHANGED tokenVars, NEW m \in Logins, GiveUp(m)
  PROVE  TokenInv'
<1>1. form' \in [open : BOOLEAN, token : Nat, login : Nat] /\ form'.token = form.token
  BY Context DEF GiveUp
<1>2. EndedLogin.at # "list"
  BY DEF EndedLogin
<1> QED
  BY <1>1, <1>2, QuietLogin DEF GiveUp

LEMMA CodeTokens ==
  ASSUME IITokens, LoginLeaves, NEW m \in Logins, issued < MaxTokens, form' = form,
         issued' = issued + 1, accepted' = accepted \union {issued'},
         NEW r, login' = [login EXCEPT ![m] = r], r.at = "list" => r.token = issued'
  PROVE  TokenInv'
<1>1. UNCHANGED <<keyring, kindOf, sync, stale, form>>
  BY DEF LoginLeaves, storeVars, tableVars, historyVars
<1>2. Issue(Password)
  BY DEF Issue
<1>3. issued \in 0..MaxTokens /\ accepted \subseteq 1..issued
  BY Context DEF TokenInv, IssuedInv
<1>4. \A g \in Goroutines : sync[g].at = "rotate" => sync[g].token \in 1..issued
  BY <1>3, Context DEF TokenInv, RotateInv
<1>5. form.token \in 0..issued
  BY <1>3, Context DEF TokenInv, FormInv
<1>6. \A k \in Logins : login[k].at = "list" => login[k].token \in 1..issued
  BY <1>3, Context DEF TokenInv, LoginInv
<1>7. \A i \in Ids : kindOf[i] = "outlook" /\ keyring[i] # 0 => keyring[i] \in 1..issued
  BY Context DEF TokenInv, StoredInv
<1>8. Password \notin 0..issued /\ issued' \notin 0..issued
  BY <1>3 DEF Password
<1>9. /\ login' = [k \in Logins |-> login'[k]]
      /\ \A k \in Logins : login'[k] = IF k = m THEN r ELSE login[k]
  BY Context
<1>10. \A t \in 1..issued : t # Password /\ t # issued'
  BY <1>3, <1>8
<1>11. TokenInv
  BY Context
<1> HIDE DEF Password
<1>12. /\ \A g \in Goroutines : sync[g].at = "rotate" => sync[g].token # Password
       /\ form.token # Password
       /\ \A k \in Logins : login[k].at = "list" => login[k].token # Password
       /\ \A i \in Ids : ~(kindOf[i] = "outlook" /\ keyring[i] # 0 /\ keyring[i] = Password)
  BY <1>4, <1>5, <1>6, <1>7, <1>8, <1>10
<1>13. \A g \in Goroutines : sync'[g].at = "rotate" => sync'[g] = sync[g] /\ sync'[g].token # issued'
  BY <1>1, <1>4, <1>10
<1>14. /\ \A k \in Logins : login'[k].at = "list" => login'[k] = login[k] \/ login'[k].token = issued'
       /\ \A k, n \in Logins :
            login'[k].at = "list" /\ login'[n].at = "list" /\ login'[k].token = issued'
              /\ login'[n].token = issued' => k = n
  BY <1>6, <1>9, <1>10
<1> QED
  BY <1>1, <1>2, <1>9, <1>11, <1>12, <1>13, <1>14, IssueKeepsTokens

LEMMA LoginTokens ==
  ASSUME IITokens, Connect \/ \E m \in Logins : Callback(m) \/ LoginStep(m)
  PROVE  KindInv' /\ TokenInv'
<1>1. LoginLeaves
  BY DEF Connect, Callback, LoginStep, AwaitCallback, ExchangeCode, Deliver
<1>2. KindInv'
  <2>1. UNCHANGED <<kindOf, rows, registered, confirm, loop, sync, keyring>>
    BY <1>1 DEF LoginLeaves, storeVars, tableVars
  <2> QED
    BY <2>1, Context DEF KindInv
<1>3. CASE Connect
  <2>1. PICK k \in Logins : /\ login' = [login EXCEPT ![k] = [at |-> "wait", got |-> "none", token |-> 0]]
                            /\ form' = [form EXCEPT !.login = k]
    BY <1>3 DEF Connect
  <2>2. UNCHANGED tokenVars
    BY <1>3 DEF Connect
  <2>3. form' \in [open : BOOLEAN, token : Nat, login : Nat] /\ form'.token = form.token
    BY <2>1, Context DEF Logins
  <2> DEFINE r == [at |-> "wait", got |-> "none", token |-> 0]
  <2>4. login' = [login EXCEPT ![k] = r] /\ r.at # "list"
    BY <2>1
  <2> HIDE DEF r
  <2> QED
    BY <1>1, <1>2, <2>2, <2>3, <2>4, QuietLogin
<1>4. ASSUME NEW m \in Logins, Callback(m) PROVE TokenInv'
  <2>1. PICK got \in {"code", "refused"} :
          login' = [login EXCEPT ![m] = [at |-> "wait", got |-> got, token |-> 0]]
    BY <1>4 DEF Callback
  <2>2. form' = form /\ UNCHANGED tokenVars
    BY <1>4 DEF Callback
  <2> DEFINE r == [at |-> "wait", got |-> got, token |-> 0]
  <2>3. login' = [login EXCEPT ![m] = r] /\ r.at # "list"
    BY <2>1
  <2>4. form' \in [open : BOOLEAN, token : Nat, login : Nat] /\ form'.token = form.token
    BY <2>2, Context
  <2> HIDE DEF r
  <2> QED
    BY <1>1, <2>2, <2>3, <2>4, QuietLogin
<1>5. ASSUME NEW m \in Logins, AwaitCallback(m) PROVE TokenInv'
  <2>1. UNCHANGED tokenVars
    BY <1>5 DEF AwaitCallback
  <2>2. CASE GiveUp(m)
    BY <1>1, <2>1, <2>2, GiveUpTokens
  <2>3. CASE form' = form
             /\ login' = [login EXCEPT ![m] = [at |-> "exchange", got |-> "code", token |-> 0]]
    <3> DEFINE r == [at |-> "exchange", got |-> "code", token |-> 0]
    <3>1. login' = [login EXCEPT ![m] = r] /\ r.at # "list"
      BY <2>3
    <3>2. form' \in [open : BOOLEAN, token : Nat, login : Nat] /\ form'.token = form.token
      BY <2>3, Context
    <3> HIDE DEF r
    <3> QED
      BY <1>1, <2>1, <3>1, <3>2, QuietLogin
  <2> QED
    BY <1>5, <2>2, <2>3 DEF AwaitCallback
<1>6. ASSUME NEW m \in Logins, ExchangeCode(m) PROVE TokenInv'
  <2>1. CASE GiveUp(m) /\ UNCHANGED tokenVars
    BY <1>1, <2>1, GiveUpTokens
  <2>2. CASE /\ issued < MaxTokens /\ form' = form
             /\ issued' = issued + 1 /\ accepted' = accepted \union {issued'}
             /\ login' = [login EXCEPT ![m] = [at |-> "list", got |-> "code", token |-> issued']]
    <3> DEFINE r == [at |-> "list", got |-> "code", token |-> issued']
    <3>1. login' = [login EXCEPT ![m] = r] /\ r.token = issued'
      BY <2>2
    <3> HIDE DEF r
    <3> QED
      BY <1>1, <2>2, <3>1, CodeTokens
  <2> QED
    BY <1>6, <2>1, <2>2 DEF ExchangeCode
<1>7. ASSUME NEW m \in Logins, Deliver(m) PROVE TokenInv'
  <2>1. login[m].at = "list" /\ UNCHANGED tokenVars
    BY <1>7 DEF Deliver
  <2>2. CASE GiveUp(m)
    BY <1>1, <2>1, <2>2, GiveUpTokens
  <2>3. CASE login' = [login EXCEPT ![m] = EndedLogin] /\ form' = form
    <3>1. form' \in [open : BOOLEAN, token : Nat, login : Nat] /\ form'.token = form.token
      BY <2>3, Context
    <3>2. EndedLogin.at # "list"
      BY DEF EndedLogin
    <3> QED
      BY <1>1, <2>1, <2>3, <3>1, <3>2, QuietLogin
  <2>4. CASE /\ login' = [login EXCEPT ![m] = EndedLogin]
             /\ form' = [form EXCEPT !.login = 0, !.token = login[m].token]
    <3>1. UNCHANGED <<keyring, kindOf, accepted, issued, stale, sync>>
      BY <1>1, <2>1 DEF LoginLeaves, storeVars, tableVars, historyVars, tokenVars
    <3> QED
      BY <2>1, <2>4, <3>1, Context, DeliverKeepsTokens
  <2> QED
    BY <1>7, <2>2, <2>3, <2>4 DEF Deliver
<1> QED
  BY <1>2, <1>3, <1>4, <1>5, <1>6, <1>7 DEF LoginStep

-------------------------------------------------------------------------------
(* The windows.                                                            *)

\* Nothing is stored, and no token moves but to be forgotten.
LEMMA CalmKeepsTokens ==
  ASSUME IITokens, UNCHANGED <<accepted, issued, sync, login>>, stale \subseteq stale',
         \A i \in Ids : keyring'[i] \in {keyring[i], 0},
         \A i \in Ids : kindOf'[i] = kindOf[i] \/ (kindOf[i] = "none" /\ keyring[i] = 0),
         form' \in [open : BOOLEAN, token : Nat, login : Nat], form'.token \in {form.token, 0}
  PROVE  TokenInv'
<1>1. \A g \in Goroutines : sync'[g] = sync[g]
  OBVIOUS
<1>2. login' = [k \in Logins |-> login'[k]] /\ \A k \in Logins : login'[k] = login[k]
  BY Context
<1> QED
  BY <1>1, <1>2, Context, QuietKeepsTokens

LEMMA NoFormShape ==
  /\ NoForm \in [open : BOOLEAN, token : Nat, login : Nat] /\ NoForm.token = 0
  /\ [open |-> TRUE, token |-> 0, login |-> 0] \in [open : BOOLEAN, token : Nat, login : Nat]
<1>1. \A b \in BOOLEAN : [open |-> b, token |-> 0, login |-> 0] \in
       [open : BOOLEAN, token : Nat, login : Nat]
  OBVIOUS
<1>2. TRUE \in BOOLEAN /\ FALSE \in BOOLEAN
  BY Zenon
<1>3. NoForm = [open |-> FALSE, token |-> 0, login |-> 0]
  BY Zenon DEF NoForm
<1>4. NoForm \in [open : BOOLEAN, token : Nat, login : Nat]
  BY <1>1, <1>2, <1>3, Zenon
<1>5. [open |-> TRUE, token |-> 0, login |-> 0] \in [open : BOOLEAN, token : Nat, login : Nat]
  BY <1>1, <1>2, Zenon
<1> QED
  BY <1>4, <1>5 DEF NoForm

LEMMA FormTokens ==
  ASSUME IITokens, OpenForm \/ CancelForm \/ (\E kind \in {"caldav", "outlook"} : Save(kind))
                   \/ \E i \in Ids : Edit(i)
  PROVE  KindInv' /\ TokenInv'
<1>1. /\ UNCHANGED <<keyring, registered, confirm, sync, accepted, issued, login, stale>>
  BY DEF OpenForm, CancelForm, Save, Edit, UILeaves, storeVars, tableVars, tokenVars
<1>2. form' = form \/ (form' = NoForm \/ form' = [open |-> TRUE, token |-> 0, login |-> 0])
  BY DEF OpenForm, CancelForm, Save, Edit
<1>3. form' \in [open : BOOLEAN, token : Nat, login : Nat] /\ form'.token \in {form.token, 0}
  <2>1. CASE form' = form \/ form' = NoForm
    BY <2>1, NoFormShape, Context
  <2>2. CASE form' = [open |-> TRUE, token |-> 0, login |-> 0]
    BY <2>2, NoFormShape
  <2> QED
    BY <1>2, <2>1, <2>2
<1>4. CASE OpenForm \/ CancelForm
  <2>1. UNCHANGED <<kindOf, rows, loop>>
    BY <1>4 DEF OpenForm, CancelForm, tableVars
  <2>2. KindInv'
    BY <1>1, <2>1, Context DEF KindInv
  <2> QED
    BY <1>1, <1>3, <2>1, <2>2, CalmKeepsTokens
<1>5. ASSUME NEW kind \in {"caldav", "outlook"}, Save(kind) PROVE KindInv' /\ TokenInv'
  <2>1. PICK i \in Ids : /\ kindOf[i] = "none" /\ kindOf' = [kindOf EXCEPT ![i] = kind]
                         /\ rows' = rows \union {i} /\ Call("link", i, FALSE)
    BY <1>5 DEF Save
  <2>2. \A j \in Ids : kindOf'[j] = IF j = i THEN kind ELSE kindOf[j]
    BY <2>1, Context DEF Shape
  <2>3. loop'.id = i
    BY <2>1 DEF Call
  <2>4. keyring[i] = 0 /\ \A j \in Ids : kindOf[j] # "none" => kindOf'[j] # "none"
    BY <2>1, <2>2, Context DEF KindInv
  <2>5. rows \union registered \subseteq Ids /\ \A c \in confirm : c.id \in Ids
    BY Context DEF Shape
  <2>6. KindInv'
    BY <1>1, <2>1, <2>2, <2>3, <2>4, <2>5, Context DEF KindInv
  <2> QED
    BY <1>1, <1>3, <2>2, <2>4, <2>1, <2>6, CalmKeepsTokens
<1>6. ASSUME NEW i \in Ids, Edit(i) PROVE KindInv' /\ TokenInv'
  <2>1. UNCHANGED <<kindOf, rows>> /\ kindOf[i] = "caldav" /\ Call("link", i, TRUE)
    BY <1>6 DEF Edit, tableVars
  <2>2. loop'.id = i
    BY <2>1 DEF Call
  <2>3. KindInv'
    BY <1>1, <2>1, <2>2, Context DEF KindInv
  <2> QED
    BY <1>1, <1>3, <2>1, <2>3, CalmKeepsTokens
<1> QED
  BY <1>4, <1>5, <1>6

LEMMA SecretTokens ==
  ASSUME IITokens, StoreSecret
  PROVE  KindInv' /\ TokenInv'
<1> DEFINE i == loop.id
           secret == IF kindOf[i] = "outlook" THEN form.token ELSE Password
<1>1. /\ loop.at = "store"
      /\ UNCHANGED <<kindOf, rows, registered, confirm, sync, accepted, issued, login, stale>>
  BY DEF StoreSecret, UILeaves, tableVars, tokenVars
<1>2. i \in Ids /\ kindOf[i] # "none"
  BY <1>1, Context DEF LoopInv, KindInv
<1>3. kindOf[i] = "caldav" \/ (kindOf[i] = "outlook" /\ form.token # 0)
  BY <1>1, Context DEF LoopInv
<1>4. form' = IF kindOf[i] = "outlook" THEN [form EXCEPT !.token = 0] ELSE form
  BY DEF StoreSecret
<1>5. /\ form' \in [open : BOOLEAN, token : Nat, login : Nat] /\ form'.token \in {form.token, 0}
      /\ kindOf[i] = "outlook" => form'.token = 0
  BY <1>4, Context
<1>6. loop' = NoCall \/ loop' = [at |-> "index", id |-> i, to |-> Nobody, edit |-> loop.edit]
  BY DEF StoreSecret, Abort, Call
<1>7. loop'.at # "idle" => loop'.id = i
  BY <1>6 DEF NoCall
<1>8. CASE UNCHANGED storeVars
  <2>1. keyring' = keyring
    BY <1>8 DEF storeVars
  <2>2. KindInv'
    BY <1>1, <1>2, <1>7, <2>1, Context DEF KindInv
  <2> QED
    BY <1>1, <1>5, <2>1, <2>2, CalmKeepsTokens
<1>9. CASE KeyringSet(Loop, i, secret)
  <2>1. keyring' = [keyring EXCEPT ![i] = secret]
    BY <1>9 DEF KeyringSet
  <2>2. issued \in 0..MaxTokens /\ accepted \subseteq 1..issued
    BY Context DEF TokenInv, IssuedInv
  <2>3. \A t \in 1..issued : t # Password
    BY <2>2 DEF Password
  <2>4. \A g \in Goroutines : sync[g].at \in {"rotate", "exchange"} => sync[g].token \in 1..issued
    BY <2>2, Context DEF TokenInv, RotateInv, ExchangeInv
  <2>5. \A k \in Logins : login[k].at = "list" =>
           login[k].token \in 1..issued /\ login[k].token # form.token
    BY <2>2, Context DEF TokenInv, LoginInv
  <2>6. form.token # 0 =>
           /\ form.token \in accepted /\ \A j \in Ids : keyring[j] # form.token
           /\ \A g \in Goroutines :
                sync[g].at \in {"rotate", "exchange"} => sync[g].token # form.token
    BY Context DEF TokenInv, FormInv
  <2>7. \/ kindOf[i] = "caldav" /\ secret = Password
        \/ /\ kindOf[i] = "outlook" /\ secret \in accepted
           /\ \A j \in Ids : keyring[j] # secret
    BY <1>3, <2>6
  <2>8. \A g \in Goroutines : sync'[g].at \in {"rotate", "exchange"} =>
           sync'[g] = sync[g] /\ sync[g].token # secret
    BY <1>1, <1>3, <2>3, <2>4, <2>6
  <2>9. \A k \in Logins : login[k].at = "list" => login[k].token # secret
    BY <1>3, <2>3, <2>5
  <2>10. form'.token # 0 => form'.token # secret
    BY <1>3, <1>5, <2>2, <2>3, <2>6
  <2>11. KindInv'
    BY <1>1, <1>2, <1>7, <2>1, Context DEF KindInv
  <2>12. TokenInv /\ keyring = [j \in Ids |-> keyring[j]]
    BY Context
  <2> HIDE DEF i, secret
  <2>13. TokenInv'
    BY <1>1, <1>2, <1>5, <2>1, <2>7, <2>8, <2>9, <2>10, <2>12, StoreKeepsTokens
  <2> QED
    BY <2>11, <2>13
<1> QED
  BY <1>8, <1>9 DEF StoreSecret

\* The other steps of a save.
LEMMA SaveTokens ==
  ASSUME IITokens, Link \/ KeepSecret \/ IndexSecret \/ Register
  PROVE  KindInv' /\ TokenInv'
<1>1. /\ loop.at # "idle" /\ registered' \subseteq registered \union linked
      /\ UNCHANGED <<keyring, kindOf, rows, confirm, sync, accepted, issued, login, stale>>
      /\ form' = form \/ form' = NoForm
  BY DEF Link, KeepSecret, IndexSecret, RecordIndex, RecordFails, Register, UILeaves, storeVars,
         tableVars, tokenVars
<1>2. loop'.at # "idle" => loop'.id = loop.id
  BY DEF Link, KeepSecret, IndexSecret, Register, Abort, Call, NoCall
<1>3. form' \in [open : BOOLEAN, token : Nat, login : Nat] /\ form'.token \in {form.token, 0}
  BY <1>1, NoFormShape, Context
<1>4. KindInv'
  BY <1>1, <1>2, Context DEF KindInv
<1> QED
  BY <1>1, <1>3, <1>4, CalmKeepsTokens

LEMMA DeleteTokens ==
  ASSUME IITokens, (\E i \in Ids : OpenConfirm(i)) \/ (\E c \in confirm : Confirm(c))
                   \/ MoveEvents \/ DeleteRow \/ Unregister
  PROVE  KindInv' /\ TokenInv'
<1>1. UNCHANGED <<keyring, kindOf, sync, accepted, issued, login, stale, form>>
  BY DEF OpenConfirm, Confirm, MoveEvents, DeleteRow, Unregister, UILeaves, storeVars, tableVars,
         tokenVars
<1>2. rows' \subseteq rows /\ registered' \subseteq registered
  BY DEF OpenConfirm, Confirm, MoveEvents, DeleteRow, Unregister, tableVars
<1>3. \A c \in confirm' : c \in confirm \/ c.id \in rows
  <2>1. CASE \E i \in Ids : OpenConfirm(i)
    BY <2>1 DEF OpenConfirm
  <2>2. CASE confirm' \subseteq confirm
    BY <2>2
  <2> QED
    BY <2>1, <2>2 DEF Confirm, MoveEvents, DeleteRow, Unregister
<1>4. loop'.at # "idle" => \/ loop.at # "idle" /\ loop'.id = loop.id
                           \/ \E c \in confirm : loop'.id = c.id
  BY DEF OpenConfirm, Confirm, MoveEvents, DeleteRow, Unregister, Call, NoCall
<1>5. KindInv'
  BY <1>1, <1>2, <1>3, <1>4, Context, KindKept
<1>6. TokenInv'
  BY <1>1, Context, CalmKeepsTokens
<1> QED
  BY <1>5, <1>6

-------------------------------------------------------------------------------
(* The process, and uninstall.                                             *)

LEMMA DieTokens ==
  ASSUME IITokens, Die
  PROVE  KindInv' /\ TokenInv'
<1>1. /\ UNCHANGED <<keyring, kindOf, rows, accepted, issued>>
      /\ sync' = [g \in Goroutines |-> NoSync] /\ registered' = {}
      /\ loop' = NoCall /\ form' = NoForm /\ confirm' = {}
      /\ login' = [k \in Logins |-> IF login[k].at = "new" THEN NoLogin ELSE EndedLogin]
      /\ stale' = stale \union {sync[g].id : g \in {h \in Goroutines : sync[h].at = "rotate"}}
  BY DEF Die, CutOff, tableVars, tokenVars
<1>2. KindInv'
  BY <1>1, Context DEF KindInv, NoCall, NoSync
<1>3. \A g \in Goroutines : sync'[g].at = "idle"
  BY <1>1 DEF NoSync
<1>4. form' \in [open : BOOLEAN, token : Nat, login : Nat] /\ form'.token = 0
  BY <1>1 DEF NoForm
<1>5. login' = [k \in Logins |-> login'[k]] /\ \A k \in Logins : login'[k].at # "list"
  BY <1>1 DEF NoLogin, EndedLogin
<1>6. \A g \in Goroutines : sync[g].at = "rotate" => sync[g].id \in stale'
  BY <1>1
<1>7. TokenInv'
  BY <1>1, <1>3, <1>4, <1>5, <1>6, Context, QuietKeepsTokens
<1> QED
  BY <1>2, <1>7

LEMMA RestTokens ==
  ASSUME IITokens, Start \/ QueryAction \/ UninstallAction \/ PurgeAction \/ UNCHANGED vars
  PROVE  KindInv' /\ TokenInv'
<1>1. UNCHANGED <<kindOf, sync, loop, form, confirm, login, accepted, issued, stale>>
  BY DEF Start, QueryAction, UninstallAction, PurgeAction, vars, tableVars, uiVars, tokenVars,
         historyVars
<1>2. rows' \subseteq rows /\ registered' \subseteq registered \union linked
  BY DEF Start, QueryAction, UninstallAction, PurgeAction, vars, tableVars
<1>3. \A i \in Ids : keyring'[i] \in {keyring[i], 0}
  <2>1. CASE keyring' = keyring
    BY <2>1
  <2>2. CASE \E i \in left : keyring' = [keyring EXCEPT ![i] = 0]
    BY <2>2, Context
  <2> QED
    BY <2>1, <2>2 DEF Start, QueryAction, UninstallAction, PurgeAction, Query, Uninstall, Purge,
       DeleteEntry, DeleteFails, ClearIndex, UninstallDies, UninstallEnds, vars, storeVars
<1>4. KindInv'
  BY <1>1, <1>2, <1>3, Context DEF KindInv
<1>5. TokenInv'
  BY <1>1, <1>3, Context, CalmKeepsTokens
<1> QED
  BY <1>4, <1>5

-------------------------------------------------------------------------------
LEMMA StepTokens == IITokens /\ [Next]_vars => IITokens'
<1> SUFFICES ASSUME IITokens, [Next]_vars PROVE KindInv' /\ TokenInv'
  BY StepInv DEF IITokens
<1>1. CASE WindowAction
  BY <1>1, FormTokens, DeleteTokens DEF WindowAction
<1>2. CASE OtherAction
  BY <1>2, DieTokens, RestTokens, SyncTokens DEF OtherAction, Quit
<1>3. CASE Step
  <2>1. CASE \E g \in Goroutines : Visit(g) \/ SyncStep(g)
    BY <2>1, SyncTokens
  <2>2. CASE Connect \/ \E m \in Logins : Callback(m) \/ LoginStep(m)
    BY <2>2, LoginTokens
  <2>3. CASE CallStep
    BY <2>3, SecretTokens, SaveTokens, DeleteTokens DEF CallStep
  <2>4. CASE Crash \/ Start \/ UninstallAction \/ PurgeAction
    BY <2>4, DieTokens, RestTokens DEF Crash
  <2> QED
    BY <1>3, <2>1, <2>2, <2>3, <2>4 DEF Step
<1>4. CASE UNCHANGED vars
  BY <1>4, RestTokens
<1> QED
  BY <1>1, <1>2, <1>3, <1>4 DEF Next

-------------------------------------------------------------------------------
\* The calendars connected earlier have tokens of their own.
LEMMA Ranks ==
  ASSUME NEW known \in SUBSET Ids, NEW rank,
         \A i \in known : rank[i] = Cardinality({j \in known : j <= i})
  PROVE  /\ Cardinality(known) \in Nat
         /\ \A i \in known : rank[i] \in 1..Cardinality(known)
         /\ \A i, j \in known : rank[i] = rank[j] => i = j
<1> DEFINE upTo(i) == {j \in known : j <= i}
<1>1. known \subseteq Nat /\ IsFiniteSet(known)
  BY IdsAssumption, FS_Subset
<1>2. \A i \in known : /\ upTo(i) \subseteq known /\ IsFiniteSet(upTo(i)) /\ i \in upTo(i)
  BY <1>1, FS_Subset
<1>3. \A i \in known : Cardinality(upTo(i)) <= Cardinality(known)
  BY <1>1, <1>2, FS_Subset
<1>4. \A i \in known : Cardinality(upTo(i)) \in Nat /\ Cardinality(upTo(i)) # 0
  BY <1>2, FS_CardinalityType, FS_EmptySet
<1>5. Cardinality(known) \in Nat
  BY <1>1, FS_CardinalityType
<1>6. \A i \in known : rank[i] \in 1..Cardinality(known)
  <2> TAKE i \in known
  <2>1. rank[i] = Cardinality(upTo(i))
    OBVIOUS
  <2> HIDE DEF upTo
  <2> QED
    BY <1>3, <1>4, <1>5, <2>1
<1>7. ASSUME NEW i \in known, NEW j \in known, i < j PROVE rank[i] # rank[j]
  <2>1. upTo(i) \subseteq upTo(j) /\ j \notin upTo(i)
    <3>1. i \in Nat /\ j \in Nat /\ \A m \in known : m \in Nat
      BY <1>1
    <3>2. \A m \in known : m <= i => m <= j
      BY <1>7, <3>1
    <3>3. ~(j <= i)
      BY <1>7, <3>1
    <3> QED
      BY <3>2, <3>3
  <2>2. Cardinality(upTo(i)) # Cardinality(upTo(j))
    BY <1>2, <2>1, FS_Subset
  <2> QED
    BY <2>2
<1>8. \A i, j \in known : rank[i] = rank[j] => i = j
  <2> TAKE i, j \in known
  <2>1. i < j \/ j < i \/ i = j
    BY <1>1
  <2> QED
    BY <1>7, <2>1
<1> QED
  BY <1>5, <1>6, <1>8

LEMMA InitTokens == Init => IITokens
<1> SUFFICES ASSUME Init PROVE KindInv /\ TokenInv
  BY InitInv DEF IITokens
<1>1. PICK known \in SUBSET Ids, kind \in {"caldav", "outlook"} :
        /\ kind = "outlook" => Cardinality(known) <= MaxTokens
        /\ kindOf = [i \in Ids |-> IF i \in known THEN kind ELSE "none"]
        /\ rows = known /\ registered = known
        /\ issued = IF kind = "outlook" THEN Cardinality(known) ELSE 0
        /\ accepted = 1..issued
        /\ keyring = [i \in Ids |-> IF i \notin known THEN 0
                                    ELSE IF kind = "outlook" THEN Cardinality({j \in known : j <= i})
                                    ELSE Password]
  BY DEF Init
<1>2. /\ sync = [g \in Goroutines |-> NoSync] /\ loop = NoCall /\ confirm = {} /\ form = NoForm
      /\ login = [k \in Logins |-> NoLogin] /\ stale = {}
  BY DEF Init
<1>3. KindInv
  BY <1>1, <1>2 DEF KindInv, NoCall, NoSync
<1> DEFINE rank == [i \in known |-> Cardinality({j \in known : j <= i})]
<1>4. /\ Cardinality(known) \in Nat
      /\ \A i \in known : rank[i] \in 1..Cardinality(known)
      /\ \A i, j \in known : rank[i] = rank[j] => i = j
  BY Ranks
<1>5. \A i \in Ids : keyring[i] = IF i \notin known THEN 0
                                  ELSE IF kind = "outlook" THEN rank[i] ELSE Password
  BY <1>1
<1> HIDE DEF rank
<1>6. issued \in Nat /\ issued <= MaxTokens
  BY <1>1, <1>4
<1>7. IssuedInv
  BY <1>1, <1>6 DEF IssuedInv
<1>8. StoredInv
  BY <1>1, <1>4, <1>5 DEF StoredInv
<1>9. StayConnected
  BY <1>1, <1>8 DEF StayConnected, StoredInv
<1>10. RotateInv /\ ExchangeInv
  BY <1>2 DEF RotateInv, ExchangeInv, NoSync
<1>11. FormInv
  BY <1>2, NoFormShape DEF FormInv
<1>12. LoginInv
  BY <1>2 DEF LoginInv, NoLogin
<1> QED
  BY <1>3, <1>7, <1>8, <1>9, <1>10, <1>11, <1>12 DEF TokenInv

THEOREM TokenInvariance == Spec => []IITokens
<1>1. Init => IITokens
  BY InitTokens
<1>2. IITokens /\ [Next]_vars => IITokens'
  BY StepTokens
<1> QED
  BY <1>1, <1>2, PTL DEF Spec

(* A connected calendar stays connected: what the keyring holds for it is  *)
(* a token the server takes, or a sync is about to store one, or a rotated *)
(* token was lost as `stale' names, for any number of syncs in the engine  *)
(* and beside it, of sign-ins, exits and failures.                         *)
THEOREM CalendarsStayConnected == Spec => []StayConnected
<1>1. IITokens => StayConnected
  BY DEF IITokens, TokenInv
<1> QED
  BY <1>1, TokenInvariance, PTL

(* No two calendars share a refresh token, so that neither rotates away    *)
(* the other's.                                                            *)
THEOREM TokensHaveOneHolder == Spec => []OneHolder
<1>1. IITokens => OneHolder
  <2> SUFFICES ASSUME IITokens, NEW i \in Ids, NEW j \in Ids, keyring[i] \in Tokens,
                      keyring[i] = keyring[j]
               PROVE i = j
    BY DEF OneHolder
  <2>1. keyring[i] # 0 /\ keyring[i] # Password
    BY DEF Tokens, Password
  <2>2. kindOf[i] = "outlook"
    BY <2>1, Context DEF KindInv, TokenInv, StoredInv
  <2> QED
    BY <2>1, <2>2, Context DEF TokenInv, StoredInv
<1> QED
  BY <1>1, TokenInvariance, PTL

-------------------------------------------------------------------------------
-------------------------------------------------------------------------------
(* The types, with the invariants above: what the loop and the goroutines  *)
(* have in hand is a calendar.                                             *)

StoreTypes ==
  /\ keyring \in [Ids -> Nat] /\ index \subseteq Ids
  /\ setting \in [Actors -> Ids \union {Nobody}]
  /\ uninst \in UninstallSteps /\ left \subseteq Ids
  /\ loose \subseteq Ids /\ late \subseteq Ids

SyncType == [at : {"idle", "load", "exchange", "rotate", "index", "pull"},
             id : Ids \union {Nobody}, token : 0..(MaxTokens + 1), own : BOOLEAN]

LoopType == [at : {"idle", "link", "store", "index", "register", "events", "row", "unregister"},
             id : Ids \union {Nobody}, to : Ids \union {Home, Nobody}, edit : BOOLEAN]

FormType == [open : BOOLEAN, token : 0..MaxTokens, login : 0..MaxLogins]

ConfirmType == [id : Ids, empty : BOOLEAN, others : SUBSET (Ids \union {Home})]

LoginType == [at : {"new", "wait", "exchange", "list", "over"},
              got : {"none", "code", "refused"}, token : 0..MaxTokens]

TableTypes ==
  /\ kindOf \in [Ids -> {"none", "caldav", "outlook"}]
  /\ rows \subseteq Ids /\ linked \subseteq Ids /\ registered \subseteq Ids
  /\ events \subseteq Ids \union {Home}

WindowTypes ==
  /\ up \in BOOLEAN /\ loop \in LoopType /\ form \in FormType
  /\ confirm \subseteq ConfirmType /\ login \in [Logins -> LoginType]

SyncTypes ==
  /\ sync \in [Goroutines -> SyncType]
  /\ accepted \subseteq Tokens /\ issued \in 0..MaxTokens

HistoryTypes == cut \subseteq Ids /\ stale \subseteq Ids /\ adrift \subseteq Ids \union {Home}

\* All but the two counters of what may happen.
Types == StoreTypes /\ TableTypes /\ WindowTypes /\ SyncTypes /\ HistoryTypes

LEMMA TypesAre == TypeOK <=> Types /\ moves \in 0..MaxMoves /\ faults \in 0..MaxFaults
BY DEF TypeOK, StoreTypeOK, Types, StoreTypes, TableTypes, WindowTypes, SyncTypes, HistoryTypes,
       SyncType, LoopType, FormType, ConfirmType, LoginType

LEMMA Constants ==
  /\ NoSync \in SyncType /\ NoCall \in LoopType /\ NoForm \in FormType
  /\ NoLogin \in LoginType /\ EndedLogin \in LoginType
BY BoundsAssumption DEF NoSync, NoCall, NoForm, NoLogin, EndedLogin, SyncType, LoopType, FormType, LoginType

\* What the loop and a goroutine have in hand.
LEMMA InHandAre ==
  ASSUME IITokens
  PROVE  /\ loop.at # "idle" => loop.id \in Ids
         /\ \A g \in Goroutines : sync[g].at # "idle" => sync[g].id \in Ids
         /\ Goroutines \subseteq Actors
BY DEF IITokens, IInv, RestInv, LoopInv, SyncInv, Goroutines

-------------------------------------------------------------------------------
LEMMA SetTyped ==
  ASSUME StoreTypes, NEW a \in Actors, NEW i \in Ids, NEW secret \in Nat, KeyringSet(a, i, secret)
  PROVE  StoreTypes'
BY DEF StoreTypes, KeyringSet, Overlaps

LEMMA RecordTyped ==
  ASSUME StoreTypes, NEW a \in Actors, RecordIndex(a) \/ RecordFails(a)
  PROVE  StoreTypes'
<1>1. setting[a] \in Ids
  BY DEF StoreTypes, RecordIndex, RecordFails
<1>2. CASE RecordIndex(a)
  BY <1>1, <1>2 DEF StoreTypes, RecordIndex, Overlaps
<1>3. CASE RecordFails(a)
  BY <1>1, <1>3 DEF StoreTypes, RecordFails
<1> QED
  BY <1>2, <1>3

LEMMA CutOffTyped ==
  ASSUME StoreTypes, CutOff
  PROVE  StoreTypes'
<1>1. {setting[a] : a \in Actors} \ (index \union {Nobody}) \subseteq Ids
  BY DEF StoreTypes
<1>2. setting' \in [Actors -> Ids \union {Nobody}]
  BY DEF CutOff
<1> QED
  BY <1>1, <1>2 DEF StoreTypes, CutOff

LEMMA UninstallTyped ==
  ASSUME StoreTypes, Query \/ Uninstall \/ Purge
  PROVE  StoreTypes'
<1>1. CASE Query
  BY <1>1 DEF StoreTypes, Query, UninstallSteps
<1>2. CASE DeleteEntry
  BY <1>2 DEF StoreTypes, DeleteEntry
<1>3. CASE ClearIndex \/ UninstallEnds \/ DeleteFails \/ UninstallDies
  BY <1>3 DEF StoreTypes, ClearIndex, UninstallEnds, DeleteFails, UninstallDies, UninstallSteps
<1>4. CASE Purge
  BY <1>4 DEF StoreTypes, Purge, UninstallSteps
<1> QED
  BY <1>1, <1>2, <1>3, <1>4 DEF Uninstall

-------------------------------------------------------------------------------
LEMMA SyncChangeTyped ==
  ASSUME SyncTypes, IITokens, NEW g \in Goroutines,
         \/ EndSync(g)
         \/ \E i \in Ids, own \in BOOLEAN : StartSync(g, i, own)
         \/ \E at \in {"exchange", "rotate", "index", "pull"}, token \in 0..(MaxTokens + 1) :
              GoOn(g, at, token)
  PROVE  sync' \in [Goroutines -> SyncType]
<1>t. sync \in [Goroutines -> SyncType] /\ sync[g] \in SyncType
  BY DEF SyncTypes
<1>1. CASE EndSync(g)
  BY <1>t, <1>1, Constants DEF EndSync
<1>2. ASSUME NEW i \in Ids, NEW own \in BOOLEAN, StartSync(g, i, own)
      PROVE  sync' \in [Goroutines -> SyncType]
  <2>1. [at |-> "load", id |-> i, token |-> 0, own |-> own] \in SyncType
    BY BoundsAssumption DEF SyncType
  <2> QED
    BY <1>t, <1>2, <2>1 DEF StartSync
<1>3. ASSUME NEW at \in {"exchange", "rotate", "index", "pull"}, NEW token \in 0..(MaxTokens + 1),
             GoOn(g, at, token)
      PROVE  sync' \in [Goroutines -> SyncType]
  <2>1. [at |-> at, id |-> sync[g].id, token |-> token, own |-> sync[g].own] \in SyncType
    BY <1>t DEF SyncType
  <2> QED
    BY <1>t, <1>3, <2>1 DEF GoOn
<1> QED
  BY <1>1, <1>2, <1>3

LEMMA SyncTyped ==
  ASSUME Types, IITokens, NEW g \in Goroutines, Visit(g) \/ SyncNow(g) \/ SyncStep(g)
  PROVE  Types'
<1>t. /\ StoreTypes /\ SyncTypes /\ WindowTypes /\ HistoryTypes /\ TableTypes
      /\ sync[g] \in SyncType /\ g \in Actors
  BY InHandAre DEF Types, SyncTypes
<1>n. MaxTokens \in Nat /\ issued \in Nat /\ 0 \in 0..(MaxTokens + 1)
  BY <1>t, BoundsAssumption DEF SyncTypes
<1>u. WindowTypes' /\ UNCHANGED <<kindOf, rows, linked, registered, cut>>
  BY <1>t DEF WindowTypes, Visit, SyncNow, SyncStep, LoadSecret, Exchange, Rotate, IndexRotated, Pull,
              SyncLeaves, uiVars, tableVars
<1>i. sync[g].at # "idle" => sync[g].id \in Ids
  BY InHandAre
<1>1. CASE Visit(g) \/ SyncNow(g) \/ LoadSecret(g)
  <2>1. UNCHANGED <<storeVars, events, tokenVars, stale, adrift>>
    BY <1>1 DEF Visit, SyncNow, LoadSecret
  <2>2. sync' \in [Goroutines -> SyncType]
    <3>1. CASE Visit(g) \/ SyncNow(g)
      <4>1. \E i \in registered \union linked, own \in BOOLEAN : StartSync(g, i, own)
        BY <3>1 DEF Visit, SyncNow
      <4> QED
        BY <1>t, <4>1, SyncChangeTyped DEF TableTypes
    <3>2. CASE LoadSecret(g)
      <4>1. sync[g].id \in Ids
        BY <1>i, <3>2 DEF LoadSecret
      <4>2. \/ EndSync(g) \/ GoOn(g, "pull", 0)
            \/ kindOf[sync[g].id] # "caldav" /\ keyring[sync[g].id] # 0 /\ GoOn(g, "exchange", keyring[sync[g].id])
        BY <3>2 DEF LoadSecret
      <4>3. kindOf[sync[g].id] # "caldav" => keyring[sync[g].id] \in 0..(MaxTokens + 1)
        BY <1>n, <4>1 DEF IITokens, TokenInv, StoredInv, IssuedInv
      <4> QED
        BY <1>t, <1>n, <4>2, <4>3, SyncChangeTyped
    <3> QED
      BY <1>1, <3>1, <3>2
  <2> QED
    BY <1>t, <1>u, <2>1, <2>2 DEF Types, StoreTypes, TableTypes, SyncTypes, HistoryTypes, storeVars, tokenVars
<1>2. CASE Exchange(g)
  <2>1. UNCHANGED <<storeVars, events, adrift>> /\ sync[g].at = "exchange"
    BY <1>2 DEF Exchange
  <2>2. stale' \subseteq Ids
    BY <1>t, <1>i, <2>1, <1>2 DEF Exchange, HistoryTypes
  <2>3. CASE UNCHANGED tokenVars /\ (EndSync(g) \/ GoOn(g, "pull", 0))
    <3>1. sync' \in [Goroutines -> SyncType]
      BY <1>t, <1>n, <2>3, SyncChangeTyped
    <3> QED
      BY <1>t, <1>u, <2>1, <2>2, <2>3, <3>1 DEF Types, StoreTypes, TableTypes, SyncTypes, HistoryTypes, storeVars, tokenVars
  <2>4. CASE Issue(sync[g].token) /\ (EndSync(g) \/ GoOn(g, "rotate", issued'))
    <3>1. issued' \in 1..MaxTokens /\ accepted' \subseteq Tokens
      BY <1>t, <1>n, <2>4 DEF Issue, SyncTypes, Tokens
    <3>2. issued' \in 0..(MaxTokens + 1)
      BY <1>n, <3>1
    <3>3. sync' \in [Goroutines -> SyncType]
      BY <1>t, <2>4, <3>2, SyncChangeTyped
    <3> QED
      BY <1>t, <1>u, <2>1, <2>2, <3>1, <3>3 DEF Types, StoreTypes, TableTypes, SyncTypes, HistoryTypes, storeVars
  <2> QED
    BY <1>2, <2>3, <2>4 DEF Exchange
<1>3. CASE Rotate(g) \/ IndexRotated(g)
  <2>1. UNCHANGED <<events, tokenVars, adrift>> /\ sync[g].at # "idle"
    BY <1>3 DEF Rotate, IndexRotated
  <2>2. StoreTypes'
    <3>1. sync[g].token \in Nat
      BY <1>t, <1>n DEF SyncType
    <3>2. CASE UNCHANGED storeVars
      BY <1>t, <3>2 DEF StoreTypes, storeVars
    <3>3. CASE KeyringSet(g, sync[g].id, sync[g].token)
      BY <1>t, <1>i, <2>1, <3>1, <3>3, SetTyped
    <3> QED
      BY <1>t, <1>3, <3>2, <3>3, RecordTyped DEF Rotate, IndexRotated
  <2>3. stale' \subseteq Ids
    BY <1>t, <1>i, <1>3, <2>1 DEF Rotate, IndexRotated, HistoryTypes
  <2>4. sync' \in [Goroutines -> SyncType]
    BY <1>t, <1>n, <1>3, SyncChangeTyped DEF Rotate, IndexRotated
  <2> QED
    BY <1>t, <1>u, <2>1, <2>2, <2>3, <2>4 DEF Types, TableTypes, SyncTypes, HistoryTypes, tokenVars
<1>4. CASE Pull(g)
  <2>1. UNCHANGED <<storeVars, tokenVars, stale>> /\ sync[g].id \in Ids /\ EndSync(g)
    BY <1>i, <1>4 DEF Pull
  <2>2. events' \subseteq Ids \union {Home} /\ adrift' \subseteq Ids \union {Home}
    BY <1>t, <1>4, <2>1 DEF Pull, TableTypes, HistoryTypes
  <2>3. sync' \in [Goroutines -> SyncType]
    BY <1>t, <2>1, SyncChangeTyped
  <2> QED
    BY <1>t, <1>u, <2>1, <2>2, <2>3 DEF Types, StoreTypes, TableTypes, SyncTypes, HistoryTypes, storeVars, tokenVars
<1> QED
  BY <1>1, <1>2, <1>3, <1>4 DEF SyncStep

-------------------------------------------------------------------------------
LEMMA FormTyped ==
  ASSUME form \in FormType
  PROVE  /\ \A m \in 0..MaxLogins : [form EXCEPT !.login = m] \in FormType
         /\ \A token \in 0..MaxTokens : [form EXCEPT !.token = token] \in FormType
         /\ \A token \in 0..MaxTokens : [form EXCEPT !.login = 0, !.token = token] \in FormType
         /\ [form EXCEPT !.login = 0] \in FormType /\ [form EXCEPT !.token = 0] \in FormType
         /\ [open |-> TRUE, token |-> 0, login |-> 0] \in FormType
<1>1. 0 \in 0..MaxLogins /\ 0 \in 0..MaxTokens
  BY BoundsAssumption
<1>2. ASSUME NEW m \in 0..MaxLogins
      PROVE  [form EXCEPT !.login = m] \in FormType
  BY DEF FormType
<1>3. ASSUME NEW token \in 0..MaxTokens
      PROVE  [form EXCEPT !.token = token] \in FormType
  BY DEF FormType
<1>4. ASSUME NEW token \in 0..MaxTokens
      PROVE  [form EXCEPT !.login = 0, !.token = token] \in FormType
  BY <1>1 DEF FormType
<1>5. [open |-> TRUE, token |-> 0, login |-> 0] \in FormType
  BY <1>1 DEF FormType
<1> QED
  BY <1>1, <1>2, <1>3, <1>4, <1>5

LEMMA LoginTyped ==
  ASSUME Types, IITokens, Connect \/ \E m \in Logins : Callback(m) \/ LoginStep(m)
  PROVE  Types'
<1>t. /\ WindowTypes /\ SyncTypes /\ form \in FormType /\ login \in [Logins -> LoginType]
      /\ MaxTokens \in Nat /\ MaxLogins \in Nat /\ 0 \in 0..MaxLogins /\ Logins \subseteq 0..MaxLogins
  BY BoundsAssumption DEF Types, WindowTypes, Logins
<1>u. UNCHANGED <<storeVars, up, tableVars, events, registered, sync, loop, confirm, historyVars>>
  BY DEF Connect, Callback, LoginStep, AwaitCallback, ExchangeCode, Deliver, LoginLeaves
<1>g. ASSUME NEW m \in Logins, GiveUp(m)
      PROVE  login' \in [Logins -> LoginType] /\ form' \in FormType
  <2>1. [form EXCEPT !.login = 0] \in FormType
    BY <1>t, FormTyped
  <2> QED
    BY <1>t, <1>g, <2>1, Constants DEF GiveUp
<1>1. CASE Connect
  <2>1. PICK m \in Logins : /\ login' = [login EXCEPT ![m] = [at |-> "wait", got |-> "none", token |-> 0]]
                           /\ form' = [form EXCEPT !.login = m]
    BY <1>1 DEF Connect
  <2>2. [at |-> "wait", got |-> "none", token |-> 0] \in LoginType
    BY <1>t DEF LoginType
  <2>3. [form EXCEPT !.login = m] \in FormType
    BY <1>t, FormTyped
  <2>4. login' \in [Logins -> LoginType] /\ form' \in FormType
    BY <1>t, <2>1, <2>2, <2>3
  <2> QED
    BY <1>1, <1>t, <1>u, <2>4 DEF Connect, Types, StoreTypes, TableTypes, WindowTypes, SyncTypes, HistoryTypes, storeVars,
                      tableVars, tokenVars, historyVars
<1>2. ASSUME NEW m \in Logins, Callback(m) \/ AwaitCallback(m)
      PROVE  login' \in [Logins -> LoginType] /\ form' \in FormType /\ UNCHANGED tokenVars
  <2>1. \A at \in {"wait", "exchange"}, got \in {"code", "refused"} : [at |-> at, got |-> got, token |-> 0] \in LoginType
    BY <1>t DEF LoginType
  <2>2. CASE Callback(m)
    BY <1>t, <2>1, <2>2 DEF Callback
  <2>3. CASE AwaitCallback(m)
    BY <1>t, <1>g, <2>1, <2>3 DEF AwaitCallback
  <2> QED
    BY <1>2, <2>2, <2>3
<1>3. ASSUME NEW m \in Logins, ExchangeCode(m)
      PROVE  login' \in [Logins -> LoginType] /\ form' \in FormType /\ accepted' \subseteq Tokens
             /\ issued' \in 0..MaxTokens
  <2>1. CASE GiveUp(m) /\ UNCHANGED tokenVars
    BY <1>t, <1>g, <2>1 DEF SyncTypes, tokenVars
  <2>2. CASE /\ issued < MaxTokens
             /\ issued' = issued + 1 /\ accepted' = accepted \union {issued'}
             /\ login' = [login EXCEPT ![m] = [at |-> "list", got |-> "code", token |-> issued']]
             /\ UNCHANGED form
    <3>1. issued' \in 1..MaxTokens
      BY <1>t, <2>2 DEF SyncTypes
    <3>2. [at |-> "list", got |-> "code", token |-> issued'] \in LoginType
      BY <1>t, <3>1 DEF LoginType
    <3> QED
      BY <1>t, <2>2, <3>1, <3>2 DEF SyncTypes, Tokens
  <2> QED
    BY <1>3, <2>1, <2>2 DEF ExchangeCode
<1>4. ASSUME NEW m \in Logins, Deliver(m)
      PROVE  login' \in [Logins -> LoginType] /\ form' \in FormType /\ UNCHANGED tokenVars
  <2>1. login[m].token \in 0..MaxTokens
    BY <1>t DEF LoginType
  <2>2. CASE GiveUp(m)
    BY <1>g, <1>4, <2>2 DEF Deliver
  <2>3. CASE /\ login' = [login EXCEPT ![m] = EndedLogin]
             /\ form' = IF form.login = m THEN [form EXCEPT !.login = 0, !.token = login[m].token] ELSE form
    BY <1>t, <1>4, <2>1, <2>3, FormTyped, Constants DEF Deliver
  <2> QED
    BY <1>4, <2>2, <2>3 DEF Deliver
<1>5. CASE /\ login' \in [Logins -> LoginType] /\ form' \in FormType /\ accepted' \subseteq Tokens
           /\ issued' \in 0..MaxTokens
  BY <1>t, <1>u, <1>5 DEF Types, StoreTypes, TableTypes, WindowTypes, SyncTypes, HistoryTypes, storeVars,
                    tableVars, historyVars
<1>6. UNCHANGED tokenVars => accepted' \subseteq Tokens /\ issued' \in 0..MaxTokens
  BY <1>t DEF SyncTypes, tokenVars
<1> QED
  BY <1>1, <1>2, <1>3, <1>4, <1>5, <1>6 DEF LoginStep

-------------------------------------------------------------------------------
LEMMA CallTyped ==
  ASSUME NEW at \in {"link", "store", "index", "register", "events", "row", "unregister"},
         NEW i \in Ids, NEW edit \in BOOLEAN
  PROVE  /\ [at |-> at, id |-> i, to |-> Nobody, edit |-> edit] \in LoopType
         /\ \A to \in Ids \union {Home} : [at |-> at, id |-> i, to |-> to, edit |-> edit] \in LoopType
BY DEF LoopType

LEMMA WindowTyped ==
  ASSUME Types, IITokens, WindowAction
  PROVE  Types'
<1>t. /\ StoreTypes /\ TableTypes /\ WindowTypes /\ SyncTypes /\ HistoryTypes
      /\ form \in FormType /\ loop \in LoopType
  BY DEF Types, WindowTypes
<1>1. CASE OpenForm \/ CancelForm
  <2>1. form' \in FormType
    BY <1>t, <1>1, FormTyped, Constants DEF OpenForm, CancelForm
  <2> QED
    BY <1>t, <1>1, <2>1 DEF OpenForm, CancelForm, UILeaves, Types, StoreTypes, TableTypes, WindowTypes,
                            SyncTypes, HistoryTypes, storeVars, tableVars, tokenVars
<1>2. ASSUME NEW kind \in {"caldav", "outlook"}, Save(kind)
      PROVE  Types'
  <2>1. PICK i \in Ids : /\ kindOf' = [kindOf EXCEPT ![i] = kind] /\ rows' = rows \union {i}
                         /\ loop' = [at |-> "link", id |-> i, to |-> Nobody, edit |-> FALSE]
    BY <1>2 DEF Save, Call
  <2>2. loop' \in LoopType /\ kindOf' \in [Ids -> {"none", "caldav", "outlook"}] /\ rows' \subseteq Ids
    BY <1>t, <2>1, CallTyped DEF TableTypes
  <2> QED
    BY <1>t, <1>2, <2>2 DEF Save, UILeaves, Types, StoreTypes, TableTypes, WindowTypes, SyncTypes, HistoryTypes,
                            storeVars, tokenVars
<1>3. ASSUME NEW i \in Ids, Edit(i)
      PROVE  Types'
  <2>1. loop' \in LoopType
    BY <1>3, CallTyped DEF Edit, Call
  <2> QED
    BY <1>t, <1>3, <2>1 DEF Edit, UILeaves, Types, StoreTypes, TableTypes, WindowTypes, SyncTypes, HistoryTypes,
                            storeVars, tableVars, tokenVars
<1>4. ASSUME NEW i \in Ids, OpenConfirm(i)
      PROVE  Types'
  <2>1. PICK empty \in BOOLEAN :
          confirm' = confirm \union {[id |-> i, empty |-> empty, others |-> (rows \ {i}) \union {Home}]}
    BY <1>4 DEF OpenConfirm
  <2>2. [id |-> i, empty |-> empty, others |-> (rows \ {i}) \union {Home}] \in ConfirmType
    BY <1>t DEF ConfirmType, TableTypes
  <2>3. confirm' \subseteq ConfirmType
    BY <1>t, <2>1, <2>2 DEF WindowTypes
  <2> QED
    BY <1>t, <1>4, <2>3 DEF OpenConfirm, UILeaves, Types, StoreTypes, TableTypes, WindowTypes, SyncTypes,
                            HistoryTypes, storeVars, tableVars, tokenVars
<1>5. ASSUME NEW c \in confirm, Confirm(c)
      PROVE  Types'
  <2>1. c.id \in Ids /\ c.others \subseteq Ids \union {Home}
    BY <1>t DEF WindowTypes, ConfirmType
  <2>2. loop' \in LoopType
    BY <1>5, <2>1, CallTyped DEF Confirm, Call
  <2>3. confirm' \subseteq ConfirmType /\ adrift' \subseteq Ids \union {Home}
    BY <1>t, <1>5, <2>1 DEF Confirm, WindowTypes, HistoryTypes
  <2> QED
    BY <1>t, <1>5, <2>2, <2>3 DEF Confirm, UILeaves, Types, StoreTypes, TableTypes, WindowTypes, SyncTypes,
                                  HistoryTypes, storeVars, tableVars, tokenVars
<1> QED
  BY <1>1, <1>2, <1>3, <1>4, <1>5 DEF WindowAction

LEMMA CallbackTyped ==
  ASSUME Types, IITokens, CallStep
  PROVE  Types'
<1>t. /\ StoreTypes /\ TableTypes /\ WindowTypes /\ SyncTypes /\ HistoryTypes
      /\ form \in FormType /\ loop \in LoopType /\ loop.edit \in BOOLEAN
  BY DEF Types, WindowTypes, LoopType
<1>i. loop.id \in Ids
  BY InHandAre DEF CallStep, Link, StoreSecret, KeepSecret, IndexSecret, Register, MoveEvents, DeleteRow, Unregister
<1>c. ASSUME NEW at \in {"link", "store", "index", "register", "events", "row", "unregister"},
             NEW edit \in BOOLEAN, Call(at, loop.id, edit)
      PROVE  loop' \in LoopType
  BY <1>i, <1>c, CallTyped DEF Call
<1>a. ASSUME Abort
      PROVE  loop' \in LoopType /\ cut' \subseteq Ids
  BY <1>t, <1>i, <1>a, Constants DEF Abort, HistoryTypes
<1>e. TRUE \in BOOLEAN /\ FALSE \in BOOLEAN
  OBVIOUS
<1>1. CASE Link
  <2>1. loop' \in LoopType /\ cut' \subseteq Ids /\ linked' \subseteq Ids
    BY <1>t, <1>i, <1>c, <1>a, <1>1 DEF Link, TableTypes, HistoryTypes
  <2> QED
    BY <1>t, <1>1, <2>1 DEF Link, UILeaves, Types, StoreTypes, TableTypes, WindowTypes, SyncTypes, HistoryTypes,
                            storeVars, tokenVars
<1>2. CASE StoreSecret
  <2>1. loop' \in LoopType /\ cut' \subseteq Ids
    BY <1>t, <1>i, <1>c, <1>a, <1>2 DEF StoreSecret, HistoryTypes
  <2>2. form.token \in Nat /\ Password \in Nat
    BY <1>t, BoundsAssumption DEF FormType, Password
  <2>3. StoreTypes'
    <3>1. CASE UNCHANGED storeVars
      BY <1>t, <3>1 DEF StoreTypes, storeVars
    <3>2. CASE \E secret \in Nat : KeyringSet(Loop, loop.id, secret)
      BY <1>t, <1>i, <3>2, SetTyped, LoopAssumption
    <3> QED
      BY <1>2, <2>2, <3>1, <3>2 DEF StoreSecret
  <2>4. form' \in FormType
    BY <1>t, <1>2, FormTyped DEF StoreSecret
  <2> QED
    BY <1>t, <1>2, <2>1, <2>3, <2>4 DEF StoreSecret, UILeaves, Types, TableTypes, WindowTypes, SyncTypes,
                                        HistoryTypes, tableVars, tokenVars
<1>3. CASE KeepSecret
  <2>1. loop' \in LoopType
    BY <1>c, <1>e, <1>3, Constants DEF KeepSecret
  <2> QED
    BY <1>t, <1>3, <2>1 DEF KeepSecret, UILeaves, Types, StoreTypes, TableTypes, WindowTypes, SyncTypes,
                            HistoryTypes, storeVars, tableVars, tokenVars
<1>4. CASE IndexSecret
  <2>1. loop' \in LoopType
    BY <1>t, <1>c, <1>4, Constants DEF IndexSecret
  <2>2. StoreTypes'
    BY <1>t, <1>4, RecordTyped, LoopAssumption DEF IndexSecret
  <2> QED
    BY <1>t, <1>4, <2>1, <2>2 DEF IndexSecret, UILeaves, Types, TableTypes, WindowTypes, SyncTypes,
                                  HistoryTypes, tableVars, tokenVars
<1>5. CASE Register
  <2>1. loop' \in LoopType /\ form' \in FormType
    BY <1>t, <1>5, Constants DEF Register
  <2>2. registered' \subseteq Ids
    BY <1>t, <1>i, <1>5 DEF Register, TableTypes
  <2> QED
    BY <1>t, <1>5, <2>1, <2>2 DEF Register, UILeaves, Types, StoreTypes, TableTypes, WindowTypes, SyncTypes,
                                  HistoryTypes, storeVars, tableVars, tokenVars
<1>6. CASE MoveEvents
  <2>1. loop' \in LoopType
    BY <1>c, <1>e, <1>6 DEF MoveEvents
  <2>2. loop.to # Nobody => loop.to \in Ids \union {Home}
    BY <1>t DEF LoopType
  <2>3. events' \subseteq Ids \union {Home} /\ adrift' \subseteq Ids \union {Home}
    BY <1>t, <1>i, <1>6, <2>2 DEF MoveEvents, TableTypes, HistoryTypes
  <2> QED
    BY <1>t, <1>6, <2>1, <2>3 DEF MoveEvents, UILeaves, Types, StoreTypes, TableTypes, WindowTypes, SyncTypes,
                                  HistoryTypes, storeVars, tableVars, tokenVars
<1>7. CASE DeleteRow
  <2>1. loop' \in LoopType
    BY <1>c, <1>e, <1>7 DEF DeleteRow
  <2> QED
    BY <1>t, <1>7, <2>1 DEF DeleteRow, UILeaves, Types, StoreTypes, TableTypes, WindowTypes, SyncTypes,
                            HistoryTypes, storeVars, tokenVars
<1>8. CASE Unregister
  <2>1. loop' \in LoopType /\ adrift' \subseteq Ids \union {Home}
    BY <1>t, <1>i, <1>8, Constants DEF Unregister, HistoryTypes
  <2> QED
    BY <1>t, <1>8, <2>1 DEF Unregister, UILeaves, Types, StoreTypes, TableTypes, WindowTypes, SyncTypes,
                            HistoryTypes, storeVars, tableVars, tokenVars
<1> QED
  BY <1>1, <1>2, <1>3, <1>4, <1>5, <1>6, <1>7, <1>8 DEF CallStep

-------------------------------------------------------------------------------
LEMMA DieTyped ==
  ASSUME Types, IITokens, Die
  PROVE  Types'
<1>t. StoreTypes /\ TableTypes /\ WindowTypes /\ SyncTypes /\ HistoryTypes
  BY DEF Types
<1>1. StoreTypes'
  BY <1>t, CutOffTyped DEF Die
<1>2. stale' \subseteq Ids /\ cut' \subseteq Ids
  BY <1>t, InHandAre DEF Die, HistoryTypes
<1>3. sync' \in [Goroutines -> SyncType] /\ login' \in [Logins -> LoginType]
  BY Constants DEF Die
<1>4. loop' \in LoopType /\ form' \in FormType /\ confirm' \subseteq ConfirmType /\ up' \in BOOLEAN
  BY Constants DEF Die
<1> QED
  BY <1>t, <1>1, <1>2, <1>3, <1>4 DEF Die, Types, TableTypes, WindowTypes, SyncTypes, HistoryTypes, tableVars, tokenVars

LEMMA RestTyped ==
  ASSUME Types, Start \/ QueryAction \/ UninstallAction \/ PurgeAction \/ UNCHANGED vars
  PROVE  Types'
<1>t. StoreTypes /\ TableTypes /\ WindowTypes /\ SyncTypes /\ HistoryTypes
  BY DEF Types
<1>1. StoreTypes'
  BY <1>t, UninstallTyped DEF Start, QueryAction, UninstallAction, PurgeAction, StoreTypes, storeVars, vars
<1>2. TableTypes'
  BY <1>t DEF Start, QueryAction, UninstallAction, PurgeAction, TableTypes, tableVars, vars
<1>3. WindowTypes' /\ SyncTypes' /\ HistoryTypes'
  BY <1>t DEF Start, QueryAction, UninstallAction, PurgeAction, WindowTypes, SyncTypes, HistoryTypes,
              uiVars, tokenVars, historyVars, vars
<1> QED
  BY <1>1, <1>2, <1>3 DEF Types

\* Bounds are bounds.
LEMMA CountersTyped ==
  ASSUME moves \in 0..MaxMoves, faults \in 0..MaxFaults, [Next]_vars
  PROVE  moves' \in 0..MaxMoves /\ faults' \in 0..MaxFaults
<1>n. MaxMoves \in Nat /\ MaxFaults \in Nat
  BY BoundsAssumption, MaxFaultsAssumption
<1>1. moves' \in 0..MaxMoves
  <2>1. UNCHANGED moves \/ Move(1) \/ Move(2)
    BY DEF Next, vars
  <2> QED
    BY <1>n, <2>1 DEF Move
<1>2. UNCHANGED faults \/ \E kind : Fault(kind)
  <2>1. CASE UNCHANGED vars \/ Connect \/ (\E m \in Logins : Callback(m) \/ LoginStep(m))
    BY <2>1 DEF vars, Connect, Callback, LoginStep, AwaitCallback, ExchangeCode, Deliver, LoginLeaves
  <2>2. CASE WindowAction \/ OtherAction \/ Crash \/ Start
    BY <2>2 DEF WindowAction, OpenForm, CancelForm, Save, Edit, OpenConfirm, Confirm, OtherAction, Quit, QueryAction,
                SyncNow, Crash, Start
  <2>3. CASE CallStep
    BY <2>3 DEF CallStep, Link, StoreSecret, KeepSecret, IndexSecret, RecordFails, Register, MoveEvents, DeleteRow,
                Unregister
  <2>4. CASE \E g \in Goroutines : Visit(g) \/ SyncStep(g)
    BY <2>4 DEF Visit, SyncStep, LoadSecret, Exchange, Rotate, IndexRotated, RecordFails, Pull
  <2>5. CASE UninstallAction \/ PurgeAction
    BY <2>5 DEF UninstallAction, Uninstall, DeleteFails, UninstallDies, PurgeAction
  <2> QED
    BY <2>1, <2>2, <2>3, <2>4, <2>5 DEF Next, Step
<1> QED
  BY <1>n, <1>1, <1>2 DEF Fault

LEMMA StepTypes ==
  ASSUME IITokens, TypeOK, [Next]_vars
  PROVE  TypeOK'
<1>1. Types /\ moves' \in 0..MaxMoves /\ faults' \in 0..MaxFaults
  BY TypesAre, CountersTyped
<1>2. Types'
  BY <1>1, SyncTyped, LoginTyped, WindowTyped, CallbackTyped, DieTyped, RestTyped
     DEF Next, Step, OtherAction, Quit, Crash
<1> QED
  BY <1>1, <1>2 DEF TypeOK, StoreTypeOK, Types, StoreTypes, TableTypes, WindowTypes, SyncTypes, HistoryTypes,
                    SyncType, LoopType, FormType, ConfirmType, LoginType

LEMMA InitTypes == Init => TypeOK
<1> SUFFICES ASSUME Init PROVE TypeOK
  OBVIOUS
<1>t. IITokens
  BY InitTokens
<1>1. StoreTypes
  <2>1. keyring \in [Ids -> Nat]
    BY <1>t, BoundsAssumption DEF IITokens, IInv, StoreInv, StoreShape, TokenInv, StoredInv, IssuedInv, Password
  <2> QED
    BY <2>1 DEF Init, StoreTypes, UninstallSteps
<1>2. TableTypes
  BY DEF Init, TableTypes
<1>3. WindowTypes
  BY Constants DEF Init, WindowTypes
<1>4. SyncTypes
  <2>1. issued \in 0..MaxTokens /\ accepted \subseteq 1..issued
    BY <1>t DEF IITokens, TokenInv, IssuedInv
  <2>2. accepted \subseteq Tokens
    BY <2>1, BoundsAssumption DEF Tokens
  <2> QED
    BY <2>1, <2>2, Constants DEF Init, SyncTypes
<1>5. HistoryTypes /\ moves \in 0..MaxMoves /\ faults \in 0..MaxFaults
  BY BoundsAssumption, MaxFaultsAssumption DEF Init, HistoryTypes
<1> QED
  BY <1>1, <1>2, <1>3, <1>4, <1>5, TypesAre DEF Types

(* The windows, the sign-ins, the syncs and the tables keep their types,   *)
(* for any number of each: what a callback, a sync or uninstall writes to  *)
(* the keyring, the index, the settings and the tables is about a calendar *)
(* it has in hand, never about none (window.go, engine.go, credstore.go).  *)
THEOREM TypeCorrect == Spec => []TypeOK
<1>1. Init => TypeOK
  BY InitTypes
<1>2. IITokens /\ TypeOK /\ [Next]_vars => TypeOK'
  BY StepTypes
<1> QED
  BY <1>1, <1>2, TokenInvariance, PTL DEF Spec
===============================================================================
