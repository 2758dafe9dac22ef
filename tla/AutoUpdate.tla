----------------------------- MODULE AutoUpdate -----------------------------
(* The updater of the server (auto-update.ts): it asks the update server for *)
(* the newest version, downloads and verifies its archive and prepares it    *)
(* for the next start. Both exchanges are HTTP requests that may be answered *)
(* late, badly, in part or not at all.                                       *)
EXTENDS Integers

CONSTANTS
  Versions,        \* versions, as numbers; 1 is the one that runs
  Offers           \* what the update server may answer

ASSUME UpdateAssumption ==
  /\ Versions \subseteq Nat \ {0} /\ 1 \in Versions
  /\ Offers \subseteq [version : Versions, url : BOOLEAN, sha : {"right", "wrong", "absent"},
                       apply : BOOLEAN, script : {"none", "runs", "fails"}]

VARIABLES
  metadata,        \* the request for the metadata, made while _checking
  fetch,           \* the download, made while _downloading
  job,             \* the offer that is being downloaded
  latest,          \* _latestVersion, 0 before the first answer
  downloaded,      \* _downloadVersion, 0 before the first
  marker,          \* the version of .update-ready, 0 when there is none
  verified,        \* history: versions whose archive had the checksum
  lost             \* history: connections that closed within an answer

updateVars == <<metadata, fetch, job, latest, downloaded, marker, verified, lost>>

NoJob == [version |-> 1, url |-> FALSE, sha |-> "absent", apply |-> FALSE, script |-> "none"]

UpdateInit ==
  /\ metadata = "none" /\ fetch = "none" /\ job = NoJob /\ latest = 0
  /\ downloaded = 0 /\ marker = 0 /\ verified = {} /\ lost = {}

checking == metadata # "none"
downloading == fetch # "none"

----------------------------------------------------------------------------
(* checkForUpdate(), of the timer or the panel.                              *)
CheckForUpdate ==
  /\ ~checking /\ metadata' = "asked"
  /\ UNCHANGED <<fetch, job, latest, downloaded, marker, verified, lost>>

(* The answer begins to arrive.                                              *)
MetadataBegins ==
  /\ metadata = "asked" /\ metadata' = "answering"
  /\ UNCHANGED <<fetch, job, latest, downloaded, marker, verified, lost>>

(* The answer is whole: a newer version with a URL is downloaded, unless a   *)
(* download runs.                                                            *)
MetadataArrives(offer) ==
  /\ metadata = "answering" /\ metadata' = "none" /\ latest' = offer.version
  /\ IF offer.version > 1 /\ offer.url /\ ~downloading
     THEN fetch' = "asked" /\ job' = offer
     ELSE UNCHANGED <<fetch, job>>
  /\ UNCHANGED <<downloaded, marker, verified, lost>>

(* Without the listener for `timeout`, only an answer can fail.              *)
AnswerFails ==
  /\ metadata = "answering" /\ metadata' = "none"
  /\ UNCHANGED <<fetch, job, latest, downloaded, marker, verified, lost>>

(* An error, another status, no JSON, an answer that is too long; or the     *)
(* socket was silent for the time that `timeout` allows.                     *)
MetadataFails ==
  /\ metadata \in {"asked", "answering"} /\ metadata' = "none"
  /\ UNCHANGED <<fetch, job, latest, downloaded, marker, verified, lost>>

(* The connection is closed within the answer: the response has listeners    *)
(* for data and end only, the request no longer reports it, and the promise  *)
(* stays as it is.                                                           *)
MetadataLost ==
  /\ metadata = "answering" /\ metadata' = "lost" /\ lost' = lost \cup {"metadata"}
  /\ UNCHANGED <<fetch, job, latest, downloaded, marker, verified>>

----------------------------------------------------------------------------
DownloadBegins ==
  /\ fetch = "asked" /\ fetch' = "answering"
  /\ UNCHANGED <<metadata, job, latest, downloaded, marker, verified, lost>>

DownloadFails ==
  /\ fetch \in {"asked", "answering"} /\ fetch' = "none" /\ job' = NoJob
  /\ UNCHANGED <<metadata, latest, downloaded, marker, verified, lost>>

DownloadLost ==
  /\ fetch = "answering" /\ fetch' = "lost" /\ lost' = lost \cup {"archive"}
  /\ UNCHANGED <<metadata, job, latest, downloaded, marker, verified>>

(* The file is complete; without a checksum it is not used, else it is read  *)
(* once more for its hash.                                                   *)
DownloadEnds ==
  /\ fetch = "answering"
  /\ IF job.sha = "absent" THEN fetch' = "none" /\ job' = NoJob
     ELSE fetch' = "hashing" /\ UNCHANGED job
  /\ UNCHANGED <<metadata, latest, downloaded, marker, verified, lost>>

Pinned(offer) == offer.sha = "right"

(* _applyUpdate(): extraction and script run before the marker is written.   *)
Applied(offer, extracts) == extracts /\ offer.script # "fails"

Hashed ==
  /\ fetch = "hashing" /\ fetch' = "none" /\ job' = NoJob
  /\ verified' = IF job.sha = "right" THEN verified \cup {job.version} ELSE verified
  /\ IF Pinned(job)
     THEN /\ downloaded' = job.version
          /\ \E extracts \in BOOLEAN :
               marker' = IF job.apply /\ Applied(job, extracts) THEN job.version ELSE marker
     ELSE UNCHANGED <<downloaded, marker>>
  /\ UNCHANGED <<metadata, latest, lost>>

UpdateNext ==
  \/ CheckForUpdate \/ MetadataBegins \/ (\E offer \in Offers : MetadataArrives(offer))
  \/ MetadataFails \/ MetadataLost
  \/ DownloadBegins \/ DownloadFails \/ DownloadLost \/ DownloadEnds \/ Hashed

UpdateSpec == UpdateInit /\ [][UpdateNext]_updateVars

(* A request that is not answered times out; a file is read to its end.      *)
UpdateFairness ==
  /\ WF_updateVars(MetadataFails) /\ WF_updateVars(DownloadFails) /\ WF_updateVars(Hashed)
UpdateFairSpec == UpdateSpec /\ UpdateFairness

----------------------------------------------------------------------------
UpdateTypeOK ==
  /\ metadata \in {"none", "asked", "answering", "lost"}
  /\ fetch \in {"none", "asked", "answering", "hashing", "lost"}
  /\ job \in Offers \cup {NoJob} /\ (fetch = "none") = (job = NoJob)
  /\ {latest, downloaded, marker} \subseteq Versions \cup {0} /\ verified \subseteq Versions

(* What is prepared for the next start is newer than what runs, and its      *)
(* archive had the checksum of the metadata; whichever offers, failures and  *)
(* checks came before.                                                       *)
ReadyIsVerified == marker # 0 => marker > 1 /\ marker \in verified

(* Unless a connection was closed within an answer, every check and every    *)
(* download ends, so that the next one can be made.                          *)
UpdatesGoOn == <>(lost # {}) \/ ([]<>(~checking) /\ []<>(~downloading))

(* "Schedule periodic checks" (auto-update.ts:104): checks go on, whatever   *)
(* became of the last one.                                                   *)
ChecksGoOn == []<>(~checking)
=============================================================================
