------------------------------- MODULE Uploads ------------------------------
(***************************************************************************)
(* Uploading a file (controllers/v1.4/upload.go) to either storage driver  *)
(* (storage/filesystem.go, storage/s3.go), and what the log queue's job    *)
(* finds when it opens the file later (processLog in logparser/queue.go).  *)
(*                                                                         *)
(* A device sends a file again until it has an answer, so requests for one *)
(* path may overlap; they carry the same bytes, Chunks writes of them.  A  *)
(* file is the set of the chunks that are there.  The queue between PUT    *)
(* and job is LogQueue's; here a log that was handed over is parsed at any *)
(* time afterwards.                                                        *)
(*                                                                         *)
(* The job reads to the end of a compressed file as it finds it.  Neither  *)
(* the decompression nor the decoder misses what comes after a prefix that *)
(* is a compressed log of its own: above all none at all of a .zst file.   *)
(***************************************************************************)
EXTENDS Naturals

CONSTANTS
    Uploads,    \* requests to upload a file
    Paths,
    PathOf,     \* the path of each upload
    Logs,       \* paths of qlogs; the others are boot and crash logs
    Chunks,     \* writes a file takes
    CleanEnds,  \* of each qlog, the prefixes that read as complete logs
    Drivers     \* "filesystem", "s3"

ASSUME ChunksAssumption  == Chunks \in Nat \ {0}
ASSUME PathAssumption    == PathOf \in [Uploads -> Paths] /\ Logs \subseteq Paths
ASSUME EndsAssumption    == CleanEnds \in [Logs -> SUBSET (0..(Chunks - 1))]
ASSUME DriverAssumption  == Drivers \subseteq {"filesystem", "s3"}

VARIABLES
    driver,     \* config.Persistence.Uploads.Driver
    file,       \* chunks of the file at each path
    put,        \* where each request is
    written,    \* chunks each request has written
    job,        \* where the log of each request is
    chunk,      \* chunks each job has read
    object,     \* with S3, the version of the file each job reads
    rows,       \* boot and crash log rows, by the request that wrote them
    rewritten,  \* history: uploads whose file another one began to write later
    stopped     \* the storage is closed

handling == <<put, written>>
parsing  == <<job, chunk, object>>
vars == <<driver, file, handling, parsing, rows, rewritten, stopped>>

Whole == 1..Chunks

Init ==
    /\ driver \in Drivers
    /\ file = [p \in Paths |-> {}]
    /\ put = [u \in Uploads |-> "unsent"] /\ written = [u \in Uploads |-> 0]
    /\ job = [u \in Uploads |-> "none"] /\ chunk = [u \in Uploads |-> 0]
    /\ object = [u \in Uploads |-> {}]
    /\ rows = {} /\ rewritten = {} /\ stopped = FALSE

Unfinished == {"queued", "reading", "decoded"}

InProgress == {u \in Uploads : put[u] \in {"writing", "stored", "checked"}}

-----------------------------------------------------------------------------
(* PUTUpload.  Create truncates on the filesystem; S3 only sets up a       *)
(* buffer.  A closed storage has no subdirectories to upload to.           *)
Create(u) ==
    /\ put[u] = "unsent"
    /\ driver = "filesystem" => ~stopped
    /\ put' = [put EXCEPT ![u] = "writing"]
    /\ IF driver = "filesystem"
       THEN /\ file' = [file EXCEPT ![PathOf[u]] = {}]
            /\ rewritten' = rewritten \union
                 {v \in Uploads \ {u} : PathOf[v] = PathOf[u] /\ put[v] # "unsent"}
       ELSE UNCHANGED <<file, rewritten>>
    /\ UNCHANGED <<driver, written, parsing, rows, stopped>>

(* io.Copy, each request at its own offset.                                *)
Write(u) ==
    /\ put[u] = "writing" /\ written[u] < Chunks
    /\ written' = [written EXCEPT ![u] = @ + 1]
    /\ file' = IF driver = "filesystem"
               THEN [file EXCEPT ![PathOf[u]] = @ \union {written[u] + 1}] ELSE file
    /\ UNCHANGED <<driver, put, parsing, rows, rewritten, stopped>>

(* Mutant of CloseFile: closed without flushing the last write.            *)
CloseFileUnflushed(u) ==
    /\ put[u] = "writing" /\ written[u] >= Chunks - 1
    /\ put' = [put EXCEPT ![u] = "stored"]
    /\ file' = IF driver = "s3" THEN [file EXCEPT ![PathOf[u]] = 1..written[u]] ELSE file
    /\ UNCHANGED <<driver, written, parsing, rows, rewritten, stopped>>

(* Flush and Close; with S3 this puts the buffer as one object.            *)
CloseFile(u) ==
    /\ put[u] = "writing" /\ written[u] = Chunks
    /\ put' = [put EXCEPT ![u] = "stored"]
    /\ file' = IF driver = "s3" THEN [file EXCEPT ![PathOf[u]] = Whole] ELSE file
    /\ UNCHANGED <<driver, written, parsing, rows, rewritten, stopped>>

(* A qlog is opened again and must begin with the magic bytes.             *)
HeaderThere(u) == 1 \in file[PathOf[u]]

CheckHeader(u) ==
    /\ put[u] = "stored" /\ PathOf[u] \in Logs
    /\ put' = [put EXCEPT ![u] = IF HeaderThere(u) THEN "checked" ELSE "refused"]
    /\ UNCHANGED <<driver, file, written, parsing, rows, rewritten, stopped>>

(* Mutant of HandOver: a log of a path that was handed over is not again.  *)
HandOverFirst(u) ==
    /\ put[u] = "checked"
    /\ put' = [put EXCEPT ![u] = "ok"]
    /\ job' = [job EXCEPT ![u] =
                 IF \E v \in Uploads : PathOf[v] = PathOf[u] /\ job[v] # "none"
                 THEN @ ELSE "queued"]
    /\ UNCHANGED <<driver, file, written, chunk, object, rows, rewritten, stopped>>

(* go logQueue.AddLog, and the answer.                                     *)
HandOver(u) ==
    /\ put[u] = "checked"
    /\ put' = [put EXCEPT ![u] = "ok"]
    /\ job' = [job EXCEPT ![u] = "queued"]
    /\ UNCHANGED <<driver, file, written, chunk, object, rows, rewritten, stopped>>

(* A boot or crash log gets a row.                                         *)
InsertLogRow(u) ==
    /\ put[u] = "stored" /\ PathOf[u] \notin Logs
    /\ rows' = rows \union {u}
    /\ put' = [put EXCEPT ![u] = "ok"]
    /\ UNCHANGED <<driver, file, written, parsing, rewritten, stopped>>

(* Mutant of UploadFails: the error of io.Copy is ignored.                 *)
UploadBreaksUnseen(u) ==
    /\ put[u] \in {"writing", "stored"}
    /\ put' = [put EXCEPT ![u] = IF @ = "writing" THEN "stored" ELSE "refused"]
    /\ UNCHANGED <<driver, file, written, parsing, rows, rewritten, stopped>>

(* The connection breaks, or a statement fails: an error is the answer,    *)
(* and what is stored stays - nothing of it with S3 before the Close.      *)
UploadFails(u) ==
    /\ put[u] \in {"writing", "stored"}
    /\ put' = [put EXCEPT ![u] = "refused"]
    /\ UNCHANGED <<driver, file, written, parsing, rows, rewritten, stopped>>

-----------------------------------------------------------------------------
(* processLog: open the file, decode it to its end, save the segment.      *)
OpenLog(u) ==
    /\ job[u] = "queued"
    /\ IF stopped /\ driver = "filesystem"
       THEN job' = [job EXCEPT ![u] = "failed"] /\ UNCHANGED object
       ELSE /\ job' = [job EXCEPT ![u] = "reading"]
            /\ object' = [object EXCEPT ![u] = IF driver = "s3" THEN file[PathOf[u]] ELSE {}]
    /\ UNCHANGED <<driver, file, handling, chunk, rows, rewritten, stopped>>

(* An open file shows what is at the path now, an object what was there.   *)
Source(u) == IF driver = "s3" THEN object[u] ELSE file[PathOf[u]]

(* The next piece is missing: at the end of the file as it is now the      *)
(* decompression ends with io.EOF after a clean end, which is the end of   *)
(* the log to DecodeSegmentData, and otherwise with an error, as it does   *)
(* in a hole that a later write has left.                                  *)
AtCleanEnd(u) ==
    /\ Source(u) \subseteq 1..chunk[u]
    /\ chunk[u] \in CleanEnds[PathOf[u]] \union {Chunks}

ReadLog(u) ==
    /\ job[u] = "reading"
    /\ IF chunk[u] + 1 \in Source(u)
       THEN chunk' = [chunk EXCEPT ![u] = @ + 1] /\ UNCHANGED job
       ELSE /\ job' = [job EXCEPT ![u] = IF AtCleanEnd(u) THEN "decoded" ELSE "broken"]
            /\ UNCHANGED chunk
    /\ UNCHANGED <<driver, file, handling, object, rows, rewritten, stopped>>

(* The segment is merged into the route, an empty or a short one too.      *)
Merge(u) ==
    /\ job[u] = "decoded"
    /\ job' = [job EXCEPT ![u] = "merged"]
    /\ UNCHANGED <<driver, file, handling, chunk, object, rows, rewritten, stopped>>

(* The database refuses: the error is logged and the log is forgotten.     *)
IngestFails(u) ==
    /\ job[u] = "decoded"
    /\ job' = [job EXCEPT ![u] = "failed"]
    /\ UNCHANGED <<driver, file, handling, chunk, object, rows, rewritten, stopped>>

-----------------------------------------------------------------------------
(* On a signal the storage closes while requests and jobs go on.           *)
CloseStorage ==
    /\ ~stopped
    /\ stopped' = TRUE
    /\ UNCHANGED <<driver, file, handling, parsing, rows, rewritten>>

(* The process ends and starts again: files and rows are left, and nothing *)
(* looks for files that were not parsed.                                   *)
Restart ==
    /\ put' = [u \in Uploads |-> IF u \in InProgress THEN "refused" ELSE put[u]]
    /\ job' = [u \in Uploads |-> IF job[u] \in Unfinished THEN "lost" ELSE job[u]]
    /\ stopped' = FALSE
    /\ UNCHANGED <<driver, file, written, chunk, object, rows, rewritten>>

HandlerStep(u) == Create(u) \/ Write(u) \/ CloseFile(u) \/ CheckHeader(u) \/ HandOver(u)
                  \/ InsertLogRow(u) \/ UploadFails(u)

JobStep(u) == OpenLog(u) \/ ReadLog(u) \/ Merge(u) \/ IngestFails(u)

Next ==
    \/ \E u \in Uploads : HandlerStep(u) \/ JobStep(u)
    \/ CloseStorage \/ Restart

Spec == Init /\ [][Next]_vars /\ \A u \in Uploads : WF_vars(JobStep(u))

-----------------------------------------------------------------------------
TypeOK ==
    /\ driver \in Drivers
    /\ file \in [Paths -> SUBSET Whole]
    /\ put \in [Uploads -> {"unsent", "writing", "stored", "checked", "ok", "refused"}]
    /\ written \in [Uploads -> 0..Chunks]
    /\ job \in [Uploads -> {"none", "merged", "broken", "failed", "lost"} \union Unfinished]
    /\ chunk \in [Uploads -> 0..Chunks]
    /\ object \in [Uploads -> SUBSET Whole]
    /\ rows \subseteq Uploads /\ rewritten \subseteq Uploads /\ stopped \in BOOLEAN

(* The upload that was the last to create a file decides: once its bytes   *)
(* are stored the file is whole, however older requests go on writing and  *)
(* whatever fails after.  With S3 any stored upload makes it whole for     *)
(* good.  Boot and crash rows and answers come after that.                 *)
StoredIsWhole ==
    \A u \in Uploads \ rewritten :
        put[u] \in {"stored", "checked", "ok"} => file[PathOf[u]] = Whole

(* A job stops short of the end of its log - with an error, or with a      *)
(* shorter segment that it merges like any other - only while the latest   *)
(* upload of the file is another one, under way or given up: never once    *)
(* that is stored, and never with S3.  A log without clean ends is never   *)
(* merged short.                                                           *)
StopsShort(u) == job[u] \in {"decoded", "broken"} /\ chunk[u] < Chunks

ShortWhileRewritten ==
    [][\A u \in Uploads : StopsShort(u)' /\ ~StopsShort(u) =>
          /\ driver = "filesystem"
          /\ \E v \in Uploads \ ({u} \union rewritten) :
                PathOf[v] = PathOf[u] /\ put[v] \in {"writing", "refused"}
          /\ job'[u] = "decoded" => CleanEnds[PathOf[u]] # {}]_vars

(* An upload that is answered with success has its log parsed in the end - *)
(* each, also a repeated one - unless the file is rewritten, the database  *)
(* refuses, or the process stops before.                                   *)
AnsweredIsParsed ==
    \A u \in {v \in Uploads : PathOf[v] \in Logs} :
        put[u] = "ok" ~> job[u] \in {"merged", "broken", "failed", "lost"}
=============================================================================
