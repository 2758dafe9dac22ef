------------------------------ MODULE Storage ------------------------------
(* The server's storage (storage.ts): a database in memory, written to its   *)
(* file as a whole by a timer, by the clean-up of old rows, at the start and *)
(* at a shutdown.  The process may die at any moment, also in the middle of  *)
(* a write, and any write may fail.                                          *)
CONSTANTS
  Keys,       \* keys of rows
  Rows,       \* what a row may hold
  NoRow,
  NotOpen,    \* no process has the database open
  Missing     \* there is no file

Contents == [Keys -> Rows \cup {NoRow}]

ASSUME StorageAssumption ==
  NoRow \notin Rows /\ NotOpen \notin Contents /\ Missing \notin Contents

VARIABLES
  db,         \* the rows in memory, or NotOpen
  dirty,      \* _dirty
  saving,     \* why _save() runs: "no", "start", "timer", "cleanup", "close"
  file,       \* the database file: Missing or rows
  failed      \* history: the last _save() failed

storageVars == <<db, dirty, saving, file, failed>>

Empty == [k \in Keys |-> NoRow]

Ready == db # NotOpen /\ saving = "no"

StorageInit ==
  db = NotOpen /\ dirty = FALSE /\ saving = "no" /\ file = Missing /\ failed = FALSE

----------------------------------------------------------------------------
(* What the callers write: INSERT OR REPLACE and DELETE of one row.          *)
Written(k, row) == db' = [db EXCEPT ![k] = row] /\ dirty' = TRUE
Write(k, row) == Written(k, row) /\ UNCHANGED <<saving, file, failed>>

RemoveRow(k) == Write(k, NoRow)

(* _save() writes a temporary file, which nothing reads, and renames it: the *)
(* database file is replaced in one step at the end, or not at all.          *)
SaveBegins(why) == saving' = why /\ UNCHANGED <<db, dirty, file, failed>>

(* The rest of the caller of _save(), which does not learn of a failure.     *)
Cleared == dirty' = (dirty /\ saving \notin {"timer", "close"})
Saved ==
  /\ saving' = "no"
  /\ db' = IF saving = "close" THEN NotOpen ELSE db

SaveEnds == saving # "no" /\ file' = db /\ failed' = FALSE /\ Saved
SaveFails == saving # "no" /\ failed' = TRUE /\ Saved /\ UNCHANGED file

Open ==
  /\ db = NotOpen
  /\ db' = IF file = Missing THEN Empty ELSE file
  /\ dirty' = FALSE /\ saving' = "start"
  /\ UNCHANGED <<file, failed>>

SaveTimer == Ready /\ dirty /\ SaveBegins("timer")
Cleanup == Ready /\ SaveBegins("cleanup")
Close == Ready /\ SaveBegins("close")

Crash ==
  /\ db # NotOpen
  /\ db' = NotOpen /\ dirty' = FALSE /\ saving' = "no"
  /\ UNCHANGED <<file, failed>>

----------------------------------------------------------------------------
StorageTypeOK ==
  /\ db \in Contents \cup {NotOpen}
  /\ dirty \in BOOLEAN /\ failed \in BOOLEAN
  /\ saving \in {"no", "start", "timer", "cleanup", "close"}
  /\ file \in Contents \cup {Missing}

(* What a crash can lose is always known to the timer: rows that differ from *)
(* the file are marked dirty.  The exception is a failed write, which the    *)
(* timer takes for a done one: it waits for the next change.                 *)
UnsavedIsDirty == Ready /\ ~failed => dirty \/ file = db
=============================================================================
