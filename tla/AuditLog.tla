------------------------------ MODULE AuditLog ------------------------------
(* The audit log (audit.ts): entries are buffered, written in batches, and   *)
(* the files rotated, where any file operation may fail, a write part of the *)
(* way, and the process may die at any time; query() reads the files back.   *)
EXTENDS Integers, Sequences, SequencesExt, FiniteSets

CONSTANTS
  BufferSize,   \* entries at which a request flushes the buffer
  MaxBuffered,  \* entries kept when writing fails
  MaxFileSize,  \* entries in a file; the code counts bytes
  MaxFiles,     \* rotated files
  MaxEntries,   \* bound: entries logged
  MaxFailures   \* bound: file operations that fail

ASSUME AuditAssumption ==
  /\ {BufferSize, MaxBuffered, MaxFileSize, MaxFiles} \subseteq Nat \ {0}
  /\ MaxEntries \in Nat /\ MaxFailures \in Nat

VARIABLES
  buffer,       \* entries, numbered in the order they were logged
  logFile,      \* logFile[0] is audit.log, logFile[i] is audit.<i>.log: entries, and
                \* Torn for the first bytes of one
  currentSize,  \* what the code thinks audit.log holds
  logged,       \* entries logged so far
  failures,     \* file operations that failed
  overflow,     \* history: entries cut from a buffer that could not be written
  halfway,      \* history: entries that a write that failed had written
  lost          \* history: entries in the buffer of a process that died

auditVars == <<buffer, logFile, currentSize, logged, failures, overflow, halfway, lost>>

Torn == 0

AuditInit ==
  /\ buffer = << >> /\ logFile = [i \in 0..MaxFiles |-> << >>]
  /\ currentSize = 0 /\ logged = 0 /\ failures = 0 /\ overflow = {} /\ halfway = {} /\ lost = {}

----------------------------------------------------------------------------
(* _rotate(): the oldest file is removed, then the others are renamed from   *)
(* the oldest to the newest; a rename that fails, or has no file, leaves     *)
(* what is there, and the next one overwrites it.                            *)
Renamed(files, i, fails) ==
  IF i \in fails \/ files[i] = << >> THEN files
  ELSE [files EXCEPT ![i + 1] = files[i], ![i] = << >>]
Unlinked(fails) == IF MaxFiles \in fails THEN logFile ELSE [logFile EXCEPT ![MaxFiles] = << >>]
RotatedUpwards(fails) ==
  LET renames[i \in 0..MaxFiles] ==
        IF i = 0 THEN Unlinked(fails) ELSE Renamed(renames[i - 1], i - 1, fails)
  IN renames[MaxFiles]
Rotated(fails) ==
  LET renames[i \in 0..MaxFiles] ==
        IF i = MaxFiles THEN Unlinked(fails)
        ELSE Renamed(renames[i + 1], i, fails)
  IN renames[0]

(* appendFileSync() writes the batch; when it fails, any first part of it.   *)
Appended(files, chunks) == [files EXCEPT ![0] = @ \o chunks]
FirstPart(entries, reached, torn) ==
  SubSeq(entries, 1, reached) \o (IF torn THEN <<Torn>> ELSE << >>)

(* _flush(), of the entries of the buffer: a batch that could not be written *)
(* is put back whole.  A process that dies on the way is a write that fails  *)
(* and a Restart.                                                            *)
FlushEntries(entries) ==
  LET size == currentSize + Len(entries)
      full == size > MaxFileSize
  IN \E fails \in (IF full THEN SUBSET (0..MaxFiles) ELSE {{}}),
        written, torn \in BOOLEAN, reached \in 0..Len(entries) :
       /\ IF written THEN reached = Len(entries) /\ ~torn ELSE torn => reached < Len(entries)
       /\ failures + Cardinality(fails) + (IF written THEN 0 ELSE 1) <= MaxFailures
       /\ failures' = failures + Cardinality(fails) + (IF written THEN 0 ELSE 1)
       /\ logFile' = Appended(IF full THEN Rotated(fails) ELSE logFile, FirstPart(entries, reached, torn))
       /\ currentSize' = IF full THEN 0 ELSE size
       /\ buffer' = IF written THEN << >>
                    ELSE SubSeq(entries, 1, IF Len(entries) < MaxBuffered THEN Len(entries) ELSE MaxBuffered)
       /\ overflow' = overflow \cup (ToSet(entries) \ (ToSet(buffer') \cup ToSet(logFile'[0])))
       /\ halfway' = IF written THEN halfway ELSE halfway \cup ToSet(SubSeq(entries, 1, reached))
       /\ UNCHANGED lost

Flush ==
  /\ buffer # << >> /\ FlushEntries(buffer)
  /\ UNCHANGED logged

(* logRequest() flushes a full buffer; logClientEvent(), logAuth() and       *)
(* logSystem() only add to it.                                               *)
LogRequest ==
  /\ logged < MaxEntries /\ logged' = logged + 1
  /\ LET entries == Append(buffer, logged + 1)
     IN IF Len(entries) >= BufferSize THEN FlushEntries(entries)
        ELSE buffer' = entries /\ UNCHANGED <<logFile, currentSize, failures, overflow, halfway, lost>>

LogEvent ==
  /\ logged < MaxEntries /\ logged' = logged + 1
  /\ buffer' = Append(buffer, logged + 1)
  /\ UNCHANGED <<logFile, currentSize, failures, overflow, halfway, lost>>

(* The process ends and another one takes the size of the file it finds:     *)
(* what was buffered is lost, unless shutdown() has flushed it.              *)
Restart ==
  /\ buffer # << >> \/ currentSize # Len(logFile[0])
  /\ lost' = lost \cup ToSet(buffer) /\ buffer' = << >>
  /\ currentSize' = Len(logFile[0])
  /\ UNCHANGED <<logFile, logged, failures, overflow, halfway>>

AuditNext == Flush \/ LogRequest \/ LogEvent \/ Restart

AuditSpec == AuditInit /\ [][AuditNext]_auditVars

----------------------------------------------------------------------------
(* What query() reads, the oldest file first.  It skips the lines that are    *)
(* no JSON: Torn, with the entry written behind it in the same line.         *)
Lines == FlattenSeq([i \in 1..(MaxFiles + 1) |-> logFile[MaxFiles + 1 - i]])

AuditTypeOK ==
  /\ buffer \in Seq(1..MaxEntries) /\ Len(buffer) <= logged
  /\ DOMAIN logFile = 0..MaxFiles /\ \A i \in DOMAIN logFile : logFile[i] \in Seq(0..MaxEntries)
  /\ currentSize \in Nat /\ logged \in 0..MaxEntries /\ halfway \cup lost \subseteq 1..logged

(* No entry is there twice or out of order, in the files or still to be      *)
(* written, whichever writes and renames failed and whenever the process     *)
(* died, but for those that a write had written before it failed: _flush()   *)
(* writes them again with their batch.  And where no operation failed, all   *)
(* entries from some entry on are there but for those that a process had in  *)
(* its buffer when it died, and entries before that one are missing only     *)
(* when every rotated file is in use.                                        *)
InOrder(x, y) == Torn \in {x, y} \/ x < y \/ {x, y} \subseteq halfway
InOrderWithoutGaps ==
  LET all == Lines \o buffer
  IN /\ \A i, j \in 1..Len(all) : i < j => InOrder(all[i], all[j])
     /\ failures = 0 =>
          \E first \in 1..(logged + 1) :
            /\ ToSet(all) = (first..logged) \ lost
            /\ first > 1 => \A i \in DOMAIN logFile : logFile[i] # << >>

(* "Keep the failed batch plus the newest entries and drop the oldest        *)
(* overflow instead" (audit.ts:328): an entry that was cut is older than     *)
(* those that were kept.                                                     *)
NewestKept ==
  \A n \in overflow : \A i \in DOMAIN buffer : n < buffer[i]
=============================================================================
