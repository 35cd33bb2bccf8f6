------------------------------ MODULE Processor ------------------------------
(***************************************************************************)
(* processor.py: download and tag every row found 'pending', one at a      *)
(* time, with up to MAX_DOWNLOAD_ATTEMPTS attempts each.  The list of rows *)
(* is read once (process_pending_videos) and is worked through for as long *)
(* as the downloads take, without being read again.                        *)
(***************************************************************************)
EXTENDS VideoTable

CONSTANT MAX_DOWNLOAD_ATTEMPTS

ASSUME AttemptsAssumption == MAX_DOWNLOAD_ATTEMPTS \in Nat \ {0}

VARIABLE attempt \* attempts made so far on the thread's current row

\* Mutant: "WHERE file_path IS NULL" instead of the status.
SelectWithoutFile(t) ==
    /\ Goto(t, "select", "row")
    /\ Fetch(t, {v \in Videos : InTable(v) /\ ~filePath[v]})
    /\ UNCHANGED <<table, media, job, current, attempt>>

\* Mutant: rows that were requeued before are left out.
SelectNeverRequeued(t) ==
    /\ Goto(t, "select", "row")
    /\ Fetch(t, {v \in Videos : status[v] = "pending" /\ retryCount[v] = 0})
    /\ UNCHANGED <<table, media, job, current, attempt>>

\* The one SELECT: everything pending now is what this run will process.
SelectPending(t) ==
    /\ Goto(t, "select", "row")
    /\ Fetch(t, {v \in Videos : status[v] = "pending"})
    /\ UNCHANGED <<table, media, job, current, attempt>>

\* _process_one's first commit.  Its WHERE clause names only the video_id.
MarkDownloading(t) ==
    /\ Goto(t, "row", "download")
    /\ \E v \in rows[t] : NextRow(t, v) /\ SetStatus(v, "downloading")
    /\ attempt' = [attempt EXCEPT ![t] = 0]
    /\ UNCHANGED <<filePath, recent, retryCount, media, job>>

\* One call of download_fn that ends with the mp3 in place.
DownloadSucceeds(t) ==
    /\ Goto(t, "download", "stat")
    /\ media' = media \cup {current[t]}
    /\ UNCHANGED <<table, job, locals, attempt>>

\* Mutant: gives up when the attempts already made are MAX_DOWNLOAD_ATTEMPTS.
DownloadFailsOnceMore(t) ==
    /\ Goto(t, "download",
            IF attempt[t] = MAX_DOWNLOAD_ATTEMPTS THEN "failed" ELSE "download")
    /\ attempt' = [attempt EXCEPT ![t] = @ + 1]
    /\ UNCHANGED <<table, media, job, locals>>

\* One call of download_fn that fails: tried again, or given up.
DownloadFails(t) ==
    /\ Goto(t, "download",
            IF attempt[t] + 1 = MAX_DOWNLOAD_ATTEMPTS THEN "failed" ELSE "download")
    /\ attempt' = [attempt EXCEPT ![t] = @ + 1]
    /\ UNCHANGED <<table, media, job, locals>>

\* A fault: the mkdir at the head of download_audio is outside its try block.
MkdirFails(t) ==
    /\ Goto(t, "download", "raised")
    /\ UNCHANGED <<table, media, job, locals, attempt>>

\* Mutant: the commit is forgotten.
RecordFailureUncommitted(t) ==
    /\ Goto(t, "failed", "row")
    /\ Release(t)
    /\ UNCHANGED <<table, media, job, rows, attempt>>

RecordFailure(t) ==
    /\ Goto(t, "failed", "row")
    /\ SetStatus(current[t], "failed")
    /\ recent' = [recent EXCEPT ![current[t]] = TRUE]
    /\ Release(t)
    /\ UNCHANGED <<filePath, retryCount, media, job, rows, attempt>>

\* After tagging, whose failures are swallowed, the file is stat()ed again:
\* FileNotFoundError ends the whole run when the file is gone by now.
Stat(t) ==
    /\ Goto(t, "stat", IF current[t] \in media THEN "finish" ELSE "raised")
    /\ UNCHANGED <<table, media, job, locals, attempt>>

RecordDone(t) ==
    /\ Goto(t, "finish", "row")
    /\ SetStatus(current[t], "done")
    /\ filePath' = [filePath EXCEPT ![current[t]] = TRUE]
    /\ recent' = [recent EXCEPT ![current[t]] = TRUE]
    /\ Release(t)
    /\ UNCHANGED <<retryCount, media, job, rows, attempt>>

\* process_pending_videos returns.
Processed(t) ==
    /\ rows[t] = {}
    /\ Goto(t, "row", "processed")
    /\ UNCHANGED <<table, media, job, locals, attempt>>

Process(t) ==
    \/ SelectPending(t)
    \/ MarkDownloading(t)
    \/ DownloadSucceeds(t)
    \/ DownloadFails(t)
    \/ RecordFailure(t)
    \/ Stat(t)
    \/ RecordDone(t)
    \/ Processed(t)
=============================================================================
