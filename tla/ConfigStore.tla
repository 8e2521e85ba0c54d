---------------------------- MODULE ConfigStore ----------------------------
(***************************************************************************)
(* core/ConfigStore.cpp: config.json, its debounced writer thread, the     *)
(* flushes of the shutdown events and the migration of an old file, over   *)
(* several runs of OBS that may crash.                                     *)
(*                                                                         *)
(* An endpoint list is the number of changes that led to it.  A write is   *)
(* atomic (temporary file and rename) and fails or succeeds; m_endpoints   *)
(* is read once, right after load(), and left out, and so is the .v1.bak   *)
(* copy.                                                                   *)
(***************************************************************************)
EXTENDS Naturals

CONSTANTS
    DebouncePolls,   \* SAVE_DEBOUNCE_MS, in polls of the writer thread
    MaxChanges,      \* bound: changes, over all runs of OBS
    MaxFailures,     \* bound: writes that fail
    MaxRuns          \* bound: runs of OBS

ASSUME ConfigConstants ==
    DebouncePolls \in Nat /\ MaxChanges \in Nat /\ MaxFailures \in Nat /\ MaxRuns \in Nat

VARIABLES
    disk,            \* config.json: [list, schema]; schema 0: missing or corrupt
    failures,        \* writes that failed
    storeState,      \* "down", "up", "flushed" (by obs_module_unload), "closing" (in ~ConfigStore)
    runs,
    lastList,        \* the list of the last change: what EndpointRegistry::all() returns
    changes,
    pending, pendingList, pendingGen,   \* m_save_pending, m_pending_endpoints, m_pending_gen
    waited,          \* polls since m_last_change_request
    changeGen, writtenGen,
    saving,          \* m_save_thread_running
    pc,              \* writer thread: "none", "loop", "asleep", "write", "done"
    toSave, genToSave

fileVars == <<disk, failures>>
pendingVars == <<pending, pendingList, pendingGen, waited>>
threadVars == <<pc, toSave, genToSave>>
storeVars == <<fileVars, storeState, runs, lastList, changes, pendingVars, changeGen, writtenGen,
               saving, threadVars>>

CurrentSchema == 2

(* What read_from_disk() finds: the list that was there first counts as 0. *)
FileList == disk.list

StoreInit ==
    /\ disk \in [list : {0}, schema : 0..CurrentSchema]
    /\ failures = 0 /\ storeState = "down" /\ runs = 0 /\ lastList = 0 /\ changes = 0
    /\ pending = FALSE /\ pendingList = 0 /\ pendingGen = 0 /\ waited = 0
    /\ changeGen = 0 /\ writtenGen = 0
    /\ saving = FALSE /\ pc = "none" /\ toSave = 0 /\ genToSave = 0

(* write_to_disk() *)
Write(list, ok) ==
    IF ok THEN disk' = [list |-> list, schema |-> CurrentSchema] /\ UNCHANGED failures
    ELSE failures < MaxFailures /\ failures' = failures + 1 /\ UNCHANGED disk

Saved(gen, ok) == writtenGen' = IF ok THEN gen ELSE writtenGen

-----------------------------------------------------------------------------
(* UI thread *)

(* ConfigStore::ConfigStore() and load(): a migrated file is written back at
   once; when that fails the store counts as changed. *)
Load ==
    /\ storeState = "down" /\ runs < MaxRuns
    /\ storeState' = "up" /\ runs' = runs + 1
    /\ lastList' = FileList
    /\ \E ok \in BOOLEAN :
          /\ IF disk.schema \in 1..CurrentSchema - 1 THEN Write(FileList, ok)
             ELSE ok /\ UNCHANGED fileVars
          /\ changeGen' = IF ok THEN changeGen ELSE changeGen + 1
    /\ saving' = TRUE /\ pc' = "loop"
    /\ UNCHANGED <<changes, pendingVars, writtenGen, toSave, genToSave>>

(* A change of the endpoints that reaches schedule_save(). *)
Change ==
    /\ storeState = "up" /\ changes < MaxChanges
    /\ changes' = changes + 1 /\ lastList' = changes + 1
    /\ pending' = TRUE /\ pendingList' = changes + 1 /\ waited' = 0
    /\ changeGen' = changeGen + 1 /\ pendingGen' = changeGen + 1
    /\ UNCHANGED <<fileVars, storeState, runs, writtenGen, saving, threadVars>>

(* save_if_dirty() and save() *)
SaveIfDirty(list) ==
    IF changeGen = writtenGen THEN UNCHANGED <<fileVars, writtenGen>>
    ELSE \E ok \in BOOLEAN : Write(list, ok) /\ Saved(changeGen, ok)

(* flush_config() at SCRIPTING_SHUTDOWN and EXIT *)
Flush ==
    /\ storeState = "up"
    /\ SaveIfDirty(lastList)
    /\ UNCHANGED <<storeState, runs, lastList, changes, pendingVars, changeGen, saving, threadVars>>

(* flush_config() in obs_module_unload() *)
UnloadFlush ==
    /\ storeState = "up" /\ storeState' = "flushed"
    /\ SaveIfDirty(lastList)
    /\ UNCHANGED <<runs, lastList, changes, pendingVars, changeGen, saving, threadVars>>

(* ConfigStore::~ConfigStore() *)
Destroy ==
    /\ storeState = "flushed" /\ storeState' = "closing"
    /\ saving' = FALSE
    /\ UNCHANGED <<fileVars, runs, lastList, changes, pendingVars, changeGen, writtenGen,
                   threadVars>>

(* What is in memory goes with the store or the process. *)
ForgetAll ==
    /\ storeState' = "down"
    /\ pending' = FALSE /\ pendingList' = 0 /\ pendingGen' = 0 /\ waited' = 0
    /\ changeGen' = 0 /\ writtenGen' = 0
    /\ saving' = FALSE /\ pc' = "none" /\ toSave' = 0 /\ genToSave' = 0

Joined ==
    /\ storeState = "closing" /\ pc = "done"
    /\ ForgetAll
    /\ UNCHANGED <<fileVars, runs, lastList, changes>>

(* OBS crashes; the list of the session is gone with it. *)
Crash ==
    /\ storeState # "down"
    /\ ForgetAll /\ lastList' = FileList
    /\ UNCHANGED <<fileVars, runs, changes>>

-----------------------------------------------------------------------------
(* save_thread_func() *)

Loop ==
    /\ pc = "loop" /\ saving
    /\ pc' = "asleep"
    /\ UNCHANGED <<fileVars, storeState, runs, lastList, changes, pendingVars, changeGen,
                   writtenGen, saving, toSave, genToSave>>

(* The flush after the loop. *)
Leave_Unflushed ==
    /\ pc = "loop" /\ ~saving
    /\ pc' = "done"
    /\ UNCHANGED <<fileVars, storeState, runs, lastList, changes, pendingVars, changeGen,
                   writtenGen, saving, toSave, genToSave>>

Leave ==
    /\ pc = "loop" /\ ~saving
    /\ pc' = "done"
    /\ IF pending THEN \E ok \in BOOLEAN : Write(pendingList, ok) /\ Saved(pendingGen, ok)
       ELSE UNCHANGED <<fileVars, writtenGen>>
    /\ UNCHANGED <<storeState, runs, lastList, changes, pendingVars, changeGen, saving, toSave,
                   genToSave>>

(* 100 ms later: the critical section that takes the pending list. *)
TakePending ==
    /\ pending /\ waited >= DebouncePolls
    /\ toSave' = pendingList /\ genToSave' = pendingGen
    /\ pending' = FALSE
    /\ pc' = "write"
    /\ UNCHANGED <<pendingList, pendingGen, waited>>

StillWaiting_Restarts == waited' = 0
StillWaiting == waited' = waited + 1

Poll ==
    /\ pc = "asleep"
    /\ \/ TakePending
       \/ /\ ~pending /\ pc' = "loop"
          /\ UNCHANGED <<pendingVars, toSave, genToSave>>
       \/ /\ pending /\ waited < DebouncePolls /\ pc' = "loop"
          /\ StillWaiting
          /\ UNCHANGED <<pending, pendingList, pendingGen, toSave, genToSave>>
    /\ UNCHANGED <<fileVars, storeState, runs, lastList, changes, changeGen, writtenGen, saving>>

(* Later, under m_mutex. *)
ThreadWrite_AllClean ==
    /\ pc = "write" /\ pc' = "loop"
    /\ \E ok \in BOOLEAN : Write(toSave, ok) /\ Saved(changeGen, ok)
    /\ UNCHANGED <<storeState, runs, lastList, changes, pendingVars, changeGen, saving, toSave,
                   genToSave>>

ThreadWrite ==
    /\ pc = "write" /\ pc' = "loop"
    /\ \E ok \in BOOLEAN : Write(toSave, ok) /\ Saved(genToSave, ok)
    /\ UNCHANGED <<storeState, runs, lastList, changes, pendingVars, changeGen, saving, toSave,
                   genToSave>>

-----------------------------------------------------------------------------
Writer == Loop \/ Leave \/ Poll \/ ThreadWrite

StoreNext ==
    \/ Load \/ Change \/ Flush \/ UnloadFlush \/ Destroy \/ Joined \/ Crash
    \/ Writer

StoreSpec == StoreInit /\ [][StoreNext]_storeVars

(* The writer thread runs; the UI thread may never flush. *)
StoreFairSpec == StoreSpec /\ WF_storeVars(Writer)

-----------------------------------------------------------------------------
(* The type invariant. *)
StoreTypeOK ==
    /\ disk \in [list : Nat, schema : 0..CurrentSchema]
    /\ storeState \in {"down", "up", "flushed", "closing"}
    /\ failures \in Nat /\ runs \in Nat /\ lastList \in Nat /\ changes \in Nat
    /\ pendingList \in Nat /\ pendingGen \in Nat /\ waited \in Nat
    /\ changeGen \in Nat /\ writtenGen \in Nat /\ toSave \in Nat /\ genToSave \in Nat
    /\ pending \in BOOLEAN /\ saving \in BOOLEAN
    /\ pc \in {"none", "loop", "asleep", "write", "done"}

Dirty == changeGen # writtenGen

UpToDate == FileList = lastList /\ disk.schema \in {0, CurrentSchema}

(* A store that counts as clean, which no flush will write, has the last list in
   its file, migrated: whichever of the two writers wrote last. *)
CleanMeansWritten == storeState # "down" /\ ~Dirty => UpToDate

(* When ~ConfigStore() returns and every write succeeded, the file holds the
   last list, also when an older one was on its way to it during the flush. *)
UnloadSaves == storeState = "closing" /\ pc = "done" /\ failures = 0 => UpToDate

(* Without another change, the writer thread saves the last one by itself. *)
AutosaveWrites ==
    storeState # "down" /\ Dirty ~> UpToDate \/ failures > 0 \/ storeState = "down"
=============================================================================
