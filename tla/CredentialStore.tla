---------------------------- MODULE CredentialStore ----------------------------
(***************************************************************************)
(* The secrets of the synced calendars: entries of the OS keyring, and the *)
(* table credential_index that tells uninstall which entries are ours      *)
(* (internal/keychain/keychain.go).  Storing a secret is two steps, and    *)
(* uninstall (main.go, mode "uninstall") is another process, which may run *)
(* while the tray stores secrets.  DeleteCalendar of internal/credstore    *)
(* has no caller, so nothing else removes an entry.                        *)
(***************************************************************************)
EXTENDS Naturals, FiniteSets

CONSTANTS Ids,       \* calendar IDs; a secret is stored under one
          Actors,    \* the event loop and the goroutines that sync
          Nobody,    \* no calendar
          Faults,    \* kinds of failure looked at
          MaxFaults  \* bound: failures

ASSUME IdsAssumption == Ids \subseteq Nat /\ IsFiniteSet(Ids)
ASSUME NobodyAssumption == Nobody \notin Ids
ASSUME MaxFaultsAssumption == MaxFaults \in Nat

VARIABLES
  keyring,   \* per calendar, the secret stored for it; 0 for none
  index,     \* credential_index
  setting,   \* per actor, the calendar whose entry it has still to index
  uninst,    \* the uninstall process
  left,      \* ... the entries of its query it has not deleted
  faults,    \* failures so far
  loose,     \* history: entries whose indexing failed or was cut off
  late       \* history: entries stored or indexed while uninstall ran

storeVars == <<keyring, index, setting, uninst, left, loose, late>>

UninstallSteps == {"off", "delete", "failed", "done", "over", "purged"}

StoreTypeOK ==
  /\ keyring \in [Ids -> Nat]
  /\ index \subseteq Ids
  /\ setting \in [Actors -> Ids \union {Nobody}]
  /\ uninst \in UninstallSteps
  /\ left \subseteq Ids
  /\ faults \in 0..MaxFaults
  /\ loose \subseteq Ids
  /\ late \subseteq Ids

Fault(kind) == kind \in Faults /\ faults < MaxFaults /\ faults' = faults + 1

\* Uninstall has its list of entries and has not ended.
Overlaps(i) == IF uninst \in {"delete", "failed", "done"} THEN late \union {i} ELSE late

-------------------------------------------------------------------------------
(* Set: keyring.Set ...                                                    *)
KeyringSet(a, i, secret) ==
  /\ keyring' = [keyring EXCEPT ![i] = secret]
  /\ setting' = [setting EXCEPT ![a] = i]
  /\ late' = Overlaps(i)
  /\ UNCHANGED <<index, uninst, left, loose>>

\* ... and recordIndex, INSERT OR IGNORE.
RecordIndex(a) ==
  /\ setting[a] # Nobody
  /\ index' = index \union {setting[a]}
  /\ late' = Overlaps(setting[a])
  /\ setting' = [setting EXCEPT ![a] = Nobody]
  /\ UNCHANGED <<keyring, uninst, left, loose>>

\* The INSERT fails: Set returns the error, the secret stays in the keyring.
RecordFails(a) ==
  /\ setting[a] # Nobody
  /\ Fault("sql")
  /\ loose' = loose \union ({setting[a]} \ index)
  /\ setting' = [setting EXCEPT ![a] = Nobody]
  /\ UNCHANGED <<keyring, index, uninst, left, late>>

\* The process dies between the two.
CutOff ==
  /\ loose' = loose \union ({setting[a] : a \in Actors} \ (index \union {Nobody}))
  /\ setting' = [a \in Actors |-> Nobody]
  /\ UNCHANGED <<keyring, index, uninst, left, late>>

-------------------------------------------------------------------------------
(* DeleteAll of the uninstall process.                                     *)

\* The rows of credential_index are read to the end first.
Query ==
  /\ uninst \in {"off", "over"}
  /\ uninst' = "delete"
  /\ left' = index
  /\ UNCHANGED <<keyring, index, setting, loose, late>>

\* keyring.Delete, entry by entry; ErrNotFound is no error.
DeleteEntry ==
  /\ uninst = "delete"
  /\ \E i \in left :
       /\ keyring' = [keyring EXCEPT ![i] = 0]
       /\ left' = left \ {i}
  /\ UNCHANGED <<index, setting, uninst, loose, late>>

\* Another error: DeleteAll returns, the table is left as it is.
DeleteFails ==
  /\ uninst = "delete"
  /\ left # {}
  /\ Fault("keyring")
  /\ uninst' = "failed"
  /\ left' = {}
  /\ UNCHANGED <<keyring, index, setting, loose, late>>

\* Mutant: the table is cleared without waiting for the keyring.
ClearIndexEarly ==
  /\ uninst = "delete"
  /\ index' = {}
  /\ left' = {}
  /\ uninst' = "done"
  /\ UNCHANGED <<keyring, setting, loose, late>>

\* DELETE FROM credential_index: all of it, whatever the query saw.
ClearIndex ==
  /\ uninst = "delete"
  /\ left = {}
  /\ index' = {}
  /\ uninst' = "done"
  /\ UNCHANGED <<keyring, setting, left, loose, late>>

\* The user stops the uninstaller, or it dies.
UninstallDies ==
  /\ uninst = "delete"
  /\ Fault("crash")
  /\ uninst' = "over"
  /\ left' = {}
  /\ UNCHANGED <<keyring, index, setting, loose, late>>

\* --purge: the database goes, even when DeleteAll failed.
Purge ==
  /\ uninst \in {"failed", "done"}
  /\ uninst' = "purged"
  /\ index' = {}
  /\ loose' = IF uninst = "failed" THEN loose \union index ELSE loose
  /\ UNCHANGED <<keyring, setting, left, late>>

\* Without it the process just ends.
UninstallEnds ==
  /\ uninst \in {"failed", "done"}
  /\ uninst' = "over"
  /\ UNCHANGED <<keyring, index, setting, left, loose, late>>

Uninstall ==
  \/ (DeleteEntry \/ ClearIndex \/ UninstallEnds) /\ UNCHANGED faults
  \/ DeleteFails \/ UninstallDies

-------------------------------------------------------------------------------
\* Being stored right now.
BeingSet(i) == \E a \in Actors : setting[a] = i

(* credential_index names every secret this program has put into the       *)
(* keyring, so that uninstall leaves none behind.  The exceptions: a Set   *)
(* that is not finished, one whose second half failed or was cut off, and  *)
(* what the tray stored while uninstall was at work.  Purging the database *)
(* after DeleteAll has failed abandons the entries it did not get to.      *)
Indexed ==
  \A i \in Ids :
    keyring[i] # 0 => i \in index \union loose \union late \/ BeingSet(i)
===============================================================================
