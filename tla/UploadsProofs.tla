--------------------------- MODULE UploadsProofs ----------------------------
(***************************************************************************)
(* Proofs about Uploads for any number of requests, paths and chunks.      *)
(***************************************************************************)
EXTENDS Uploads, TLAPS

USE ChunksAssumption, PathAssumption, DriverAssumption DEF Unfinished

Stored(u) == put[u] \in {"stored", "checked", "ok"}

(* What the file owes to a request.  On the filesystem a file keeps what a *)
(* request wrote as long as no later one creates it; an object is whole or *)
(* not there, and stays whole.                                             *)
FileInv(u) ==
    /\ put[u] = "unsent" => written[u] = 0
    /\ Stored(u) => written[u] = Chunks
    /\ driver = "filesystem" /\ put[u] # "unsent" /\ u \notin rewritten =>
         1..written[u] \subseteq file[PathOf[u]]
    /\ driver = "s3" /\ Stored(u) => file[PathOf[u]] = Whole

(* What a job may rely on.                                                 *)
JobInv(u) ==
    /\ job[u] # "none" => put[u] = "ok"
    /\ driver = "s3" /\ job[u] = "reading" => object[u] = Whole

(* A path that was created has an upload that created it last.             *)
Sent(u)   == put[u] # "unsent"
Latest(u) == {v \in Uploads \ rewritten : PathOf[v] = PathOf[u] /\ Sent(v)}

LatestInv(u) ==
    /\ u \in rewritten => Sent(u)
    /\ driver = "filesystem" /\ Sent(u) => Latest(u) # {}

IInv == TypeOK /\ \A u \in Uploads : FileInv(u) /\ JobInv(u) /\ LatestInv(u)

LEMMA InitInv == Init => IInv
<1> SUFFICES ASSUME Init PROVE IInv
  OBVIOUS
<1>1. TypeOK
  <2>1. /\ file \in [Paths -> SUBSET Whole] /\ object \in [Uploads -> SUBSET Whole]
    BY DEF Init
  <2>2. written \in [Uploads -> 0..Chunks] /\ chunk \in [Uploads -> 0..Chunks]
    BY DEF Init
  <2> QED BY <2>1, <2>2 DEF Init, TypeOK
<1>2. \A u \in Uploads : FileInv(u) /\ JobInv(u) /\ LatestInv(u)
  BY DEF Init, FileInv, JobInv, LatestInv, Sent, Stored
<1> QED BY <1>1, <1>2 DEF IInv

LEMMA StoredWhole ==
    ASSUME IInv, NEW u \in Uploads, Stored(u), u \notin rewritten
    PROVE  file[PathOf[u]] = Whole
<1>1. driver = "filesystem" \/ driver = "s3"
  BY DEF IInv, TypeOK
<1>2. FileInv(u) /\ file[PathOf[u]] \subseteq Whole
  BY DEF IInv, TypeOK
<1>3. CASE driver = "s3"
  BY <1>2, <1>3 DEF FileInv
<1>4. CASE driver = "filesystem"
  <2>1. put[u] # "unsent" /\ written[u] = Chunks
    BY <1>2 DEF FileInv, Stored
  <2> QED BY <2>1, <1>2, <1>4 DEF FileInv, Whole
<1> QED BY <1>1, <1>3, <1>4

(* Only Create sends an upload or makes one rewritten.                     *)
LEMMA LatestKept ==
    ASSUME UNCHANGED <<driver, rewritten>>,
           \A v \in Uploads : Sent(v)' <=> Sent(v),
           NEW w \in Uploads, LatestInv(w)
    PROVE  LatestInv(w)'
<1>1. Latest(w)' = Latest(w)
  BY DEF Latest
<1> QED BY <1>1 DEF LatestInv

LEMMA CreateKeeps ==
    ASSUME IInv, NEW u \in Uploads, Create(u)
    PROVE  IInv'
<1>1. TypeOK'
  BY DEF IInv, TypeOK, Create, Whole, handling, parsing
<1>2. ASSUME NEW w \in Uploads PROVE FileInv(w)' /\ JobInv(w)' /\ LatestInv(w)'
  <2>1. FileInv(w) /\ JobInv(w) /\ LatestInv(w) /\ TypeOK
    BY DEF IInv
  <2>2. FileInv(w)'
    BY <2>1 DEF Create, FileInv, Stored, Whole, TypeOK, handling, parsing
  <2>3. JobInv(w)'
    BY <2>1 DEF Create, JobInv, TypeOK, handling, parsing
  <2>4. LatestInv(w)'
    <3>1. /\ PathOf' = PathOf /\ driver' = driver /\ put[u] = "unsent"
          /\ \A v \in Uploads : Sent(v)' <=> Sent(v) \/ v = u
      BY DEF Create, IInv, TypeOK, Sent
    <3>2. u \notin rewritten
      BY <3>1 DEF IInv, LatestInv, Sent
    <3>3. CASE driver = "s3"
      BY <3>1, <3>3, <2>1 DEF Create, LatestInv
    <3>4. CASE driver = "filesystem"
      <4>1. rewritten' = rewritten \union {v \in Uploads \ {u} : PathOf[v] = PathOf[u] /\ Sent(v)}
        BY <3>4 DEF Create, Sent
      <4>2. CASE PathOf[w] = PathOf[u]
        <5>1. u \in Latest(w)'
          BY <3>1, <3>2, <4>1, <4>2 DEF Latest
        <5> QED BY <5>1, <3>1, <4>1, <2>1 DEF LatestInv
      <4>3. CASE PathOf[w] # PathOf[u]
        <5>1. Latest(w) \subseteq Latest(w)'
          BY <3>1, <4>1, <4>3 DEF Latest
        <5> QED BY <5>1, <3>1, <4>1, <4>3, <2>1 DEF LatestInv
      <4> QED BY <4>2, <4>3
    <3> QED BY <3>3, <3>4, <2>1 DEF TypeOK
  <2> QED BY <2>2, <2>3, <2>4
<1> QED BY <1>1, <1>2 DEF IInv

LEMMA WriteKeeps ==
    ASSUME IInv, NEW u \in Uploads, Write(u)
    PROVE  IInv'
<1>1. TypeOK'
  BY DEF IInv, TypeOK, Write, Whole, handling, parsing
<1>2. ASSUME NEW w \in Uploads PROVE FileInv(w)' /\ JobInv(w)' /\ LatestInv(w)'
  <2>1. FileInv(w) /\ JobInv(w) /\ LatestInv(w) /\ TypeOK
    BY DEF IInv
  <2>2. FileInv(w)'
    BY <2>1 DEF Write, FileInv, Stored, Whole, TypeOK, handling, parsing
  <2>3. JobInv(w)'
    BY <2>1 DEF Write, JobInv, TypeOK, handling, parsing
  <2>4. LatestInv(w)'
    BY <2>1, LatestKept DEF Write, IInv, TypeOK, Sent, handling
  <2> QED BY <2>2, <2>3, <2>4
<1> QED BY <1>1, <1>2 DEF IInv

LEMMA CloseFileKeeps ==
    ASSUME IInv, NEW u \in Uploads, CloseFile(u)
    PROVE  IInv'
<1>1. TypeOK'
  BY DEF IInv, TypeOK, CloseFile, Whole, handling, parsing
<1>2. ASSUME NEW w \in Uploads PROVE FileInv(w)' /\ JobInv(w)' /\ LatestInv(w)'
  <2>1. FileInv(w) /\ JobInv(w) /\ LatestInv(w) /\ TypeOK
    BY DEF IInv
  <2>2. FileInv(w)'
    BY <2>1 DEF CloseFile, FileInv, Stored, Whole, TypeOK, handling, parsing
  <2>3. JobInv(w)'
    BY <2>1 DEF CloseFile, JobInv, TypeOK, handling, parsing
  <2>4. LatestInv(w)'
    BY <2>1, LatestKept DEF CloseFile, IInv, TypeOK, Sent, handling
  <2> QED BY <2>2, <2>3, <2>4
<1> QED BY <1>1, <1>2 DEF IInv

LEMMA CheckHeaderKeeps ==
    ASSUME IInv, NEW u \in Uploads, CheckHeader(u)
    PROVE  IInv'
<1>1. TypeOK'
  BY DEF IInv, TypeOK, CheckHeader, Whole, handling, parsing
<1>2. ASSUME NEW w \in Uploads PROVE FileInv(w)' /\ JobInv(w)' /\ LatestInv(w)'
  <2>1. FileInv(w) /\ JobInv(w) /\ LatestInv(w) /\ TypeOK
    BY DEF IInv
  <2>2. FileInv(w)'
    BY <2>1 DEF CheckHeader, FileInv, Stored, Whole, TypeOK, handling, parsing
  <2>3. JobInv(w)'
    BY <2>1 DEF CheckHeader, JobInv, TypeOK, handling, parsing
  <2>4. LatestInv(w)'
    BY <2>1, LatestKept DEF CheckHeader, IInv, TypeOK, Sent, handling
  <2> QED BY <2>2, <2>3, <2>4
<1> QED BY <1>1, <1>2 DEF IInv

LEMMA HandOverKeeps ==
    ASSUME IInv, NEW u \in Uploads, HandOver(u)
    PROVE  IInv'
<1>1. TypeOK'
  BY DEF IInv, TypeOK, HandOver, Whole, handling, parsing
<1>2. ASSUME NEW w \in Uploads PROVE FileInv(w)' /\ JobInv(w)' /\ LatestInv(w)'
  <2>1. FileInv(w) /\ JobInv(w) /\ LatestInv(w) /\ TypeOK
    BY DEF IInv
  <2>2. FileInv(w)'
    BY <2>1 DEF HandOver, FileInv, Stored, Whole, TypeOK, handling, parsing
  <2>3. JobInv(w)'
    BY <2>1 DEF HandOver, JobInv, TypeOK, handling, parsing
  <2>4. LatestInv(w)'
    BY <2>1, LatestKept DEF HandOver, IInv, TypeOK, Sent, handling
  <2> QED BY <2>2, <2>3, <2>4
<1> QED BY <1>1, <1>2 DEF IInv

LEMMA InsertLogRowKeeps ==
    ASSUME IInv, NEW u \in Uploads, InsertLogRow(u)
    PROVE  IInv'
<1>1. TypeOK'
  BY DEF IInv, TypeOK, InsertLogRow, Whole, handling, parsing
<1>2. ASSUME NEW w \in Uploads PROVE FileInv(w)' /\ JobInv(w)' /\ LatestInv(w)'
  <2>1. FileInv(w) /\ JobInv(w) /\ LatestInv(w) /\ TypeOK
    BY DEF IInv
  <2>2. FileInv(w)'
    BY <2>1 DEF InsertLogRow, FileInv, Stored, Whole, TypeOK, handling, parsing
  <2>3. JobInv(w)'
    BY <2>1 DEF InsertLogRow, JobInv, TypeOK, handling, parsing
  <2>4. LatestInv(w)'
    BY <2>1, LatestKept DEF InsertLogRow, IInv, TypeOK, Sent, handling
  <2> QED BY <2>2, <2>3, <2>4
<1> QED BY <1>1, <1>2 DEF IInv

LEMMA UploadFailsKeeps ==
    ASSUME IInv, NEW u \in Uploads, UploadFails(u)
    PROVE  IInv'
<1>1. TypeOK'
  BY DEF IInv, TypeOK, UploadFails, Whole, handling, parsing
<1>2. ASSUME NEW w \in Uploads PROVE FileInv(w)' /\ JobInv(w)' /\ LatestInv(w)'
  <2>1. FileInv(w) /\ JobInv(w) /\ LatestInv(w) /\ TypeOK
    BY DEF IInv
  <2>2. FileInv(w)'
    BY <2>1 DEF UploadFails, FileInv, Stored, Whole, TypeOK, handling, parsing
  <2>3. JobInv(w)'
    BY <2>1 DEF UploadFails, JobInv, TypeOK, handling, parsing
  <2>4. LatestInv(w)'
    BY <2>1, LatestKept DEF UploadFails, IInv, TypeOK, Sent, handling
  <2> QED BY <2>2, <2>3, <2>4
<1> QED BY <1>1, <1>2 DEF IInv

LEMMA OpenLogKeeps ==
    ASSUME IInv, NEW u \in Uploads, OpenLog(u)
    PROVE  IInv'
<1>1. TypeOK'
  BY DEF IInv, TypeOK, OpenLog, Whole, handling, parsing
<1>2. ASSUME NEW w \in Uploads PROVE FileInv(w)' /\ JobInv(w)' /\ LatestInv(w)'
  <2>1. FileInv(w) /\ JobInv(w) /\ LatestInv(w) /\ TypeOK
    BY DEF IInv
  <2>2. FileInv(w)'
    BY <2>1 DEF OpenLog, FileInv, Stored, Whole, TypeOK, handling, parsing
  <2>3. JobInv(w)'
    <3>1. driver = "s3" => file[PathOf[u]] = Whole
      BY DEF OpenLog, IInv, FileInv, JobInv, Stored
    <3>2. CASE w = u
      BY <3>1, <3>2, <2>1 DEF OpenLog, JobInv, TypeOK, handling, parsing
    <3>3. CASE w # u
      BY <3>3, <2>1 DEF OpenLog, JobInv, TypeOK, handling, parsing
    <3> QED BY <3>2, <3>3
  <2>4. LatestInv(w)'
    BY <2>1, LatestKept DEF OpenLog, IInv, TypeOK, Sent, handling
  <2> QED BY <2>2, <2>3, <2>4
<1> QED BY <1>1, <1>2 DEF IInv

LEMMA ReadLogKeeps ==
    ASSUME IInv, NEW u \in Uploads, ReadLog(u)
    PROVE  IInv'
<1>1. TypeOK'
  <2>1. Source(u) \subseteq Whole /\ chunk[u] \in 0..Chunks
    BY DEF IInv, TypeOK, Source
  <2>2. CASE chunk[u] + 1 \in Source(u)
    <3>1. chunk[u] + 1 \in 0..Chunks
      BY <2>1, <2>2 DEF Whole
    <3> QED BY <2>2, <3>1 DEF IInv, TypeOK, ReadLog, handling
  <2>3. CASE chunk[u] + 1 \notin Source(u)
    BY <2>3 DEF IInv, TypeOK, ReadLog, handling
  <2> QED BY <2>2, <2>3
<1>2. ASSUME NEW w \in Uploads PROVE FileInv(w)' /\ JobInv(w)' /\ LatestInv(w)'
  <2>1. FileInv(w) /\ JobInv(w) /\ LatestInv(w) /\ TypeOK
    BY DEF IInv
  <2>2. FileInv(w)'
    BY <2>1 DEF ReadLog, FileInv, Stored, Whole, TypeOK, handling, parsing
  <2>3. JobInv(w)'
    BY <2>1 DEF ReadLog, JobInv, TypeOK, handling, parsing
  <2>4. LatestInv(w)'
    BY <2>1, LatestKept DEF ReadLog, IInv, TypeOK, Sent, handling
  <2> QED BY <2>2, <2>3, <2>4
<1> QED BY <1>1, <1>2 DEF IInv

LEMMA MergeKeeps ==
    ASSUME IInv, NEW u \in Uploads, Merge(u)
    PROVE  IInv'
<1>1. TypeOK'
  BY DEF IInv, TypeOK, Merge, Whole, handling, parsing
<1>2. ASSUME NEW w \in Uploads PROVE FileInv(w)' /\ JobInv(w)' /\ LatestInv(w)'
  <2>1. FileInv(w) /\ JobInv(w) /\ LatestInv(w) /\ TypeOK
    BY DEF IInv
  <2>2. FileInv(w)'
    BY <2>1 DEF Merge, FileInv, Stored, Whole, TypeOK, handling, parsing
  <2>3. JobInv(w)'
    BY <2>1 DEF Merge, JobInv, TypeOK, handling, parsing
  <2>4. LatestInv(w)'
    BY <2>1, LatestKept DEF Merge, IInv, TypeOK, Sent, handling
  <2> QED BY <2>2, <2>3, <2>4
<1> QED BY <1>1, <1>2 DEF IInv

LEMMA IngestFailsKeeps ==
    ASSUME IInv, NEW u \in Uploads, IngestFails(u)
    PROVE  IInv'
<1>1. TypeOK'
  BY DEF IInv, TypeOK, IngestFails, Whole, handling, parsing
<1>2. ASSUME NEW w \in Uploads PROVE FileInv(w)' /\ JobInv(w)' /\ LatestInv(w)'
  <2>1. FileInv(w) /\ JobInv(w) /\ LatestInv(w) /\ TypeOK
    BY DEF IInv
  <2>2. FileInv(w)'
    BY <2>1 DEF IngestFails, FileInv, Stored, Whole, TypeOK, handling, parsing
  <2>3. JobInv(w)'
    BY <2>1 DEF IngestFails, JobInv, TypeOK, handling, parsing
  <2>4. LatestInv(w)'
    BY <2>1, LatestKept DEF IngestFails, IInv, TypeOK, Sent, handling
  <2> QED BY <2>2, <2>3, <2>4
<1> QED BY <1>1, <1>2 DEF IInv

LEMMA RestartKeeps ==
    ASSUME IInv, Restart
    PROVE  IInv'
<1>1. TypeOK'
  BY DEF IInv, TypeOK, Restart
<1>2. ASSUME NEW w \in Uploads PROVE FileInv(w)' /\ JobInv(w)' /\ LatestInv(w)'
  <2>1. FileInv(w)' /\ JobInv(w)'
    BY DEF IInv, TypeOK, Restart, FileInv, JobInv, Stored, InProgress
  <2>2. LatestInv(w)'
    BY LatestKept DEF IInv, TypeOK, Restart, Sent, InProgress
  <2> QED BY <2>1, <2>2
<1> QED BY <1>1, <1>2 DEF IInv

LEMMA NextInv == IInv /\ [Next]_vars => IInv'
<1> SUFFICES ASSUME IInv, [Next]_vars PROVE IInv'
  OBVIOUS
<1>1. CASE UNCHANGED vars
  BY <1>1 DEF vars, handling, parsing, IInv, TypeOK, FileInv, JobInv, LatestInv, Latest, Sent,
              Stored
<1>2. CASE CloseStorage
  BY <1>2 DEF CloseStorage, handling, parsing, IInv, TypeOK, FileInv, JobInv, LatestInv, Latest,
              Sent, Stored
<1>3. ASSUME NEW u \in Uploads, HandlerStep(u) PROVE IInv'
  BY <1>3, CreateKeeps, WriteKeeps, CloseFileKeeps, CheckHeaderKeeps, HandOverKeeps,
     InsertLogRowKeeps, UploadFailsKeeps DEF HandlerStep
<1>4. ASSUME NEW u \in Uploads, JobStep(u) PROVE IInv'
  BY <1>4, OpenLogKeeps, ReadLogKeeps, MergeKeeps, IngestFailsKeeps DEF JobStep
<1> QED BY <1>1, <1>2, <1>3, <1>4, RestartKeeps DEF Next

LEMMA Always == Spec => []IInv
BY InitInv, NextInv, PTL DEF Spec

(* Every variable keeps its type, restarts included (PUTUpload,            *)
(* processLog).                                                            *)
THEOREM TypeCorrect == Spec => []TypeOK
<1>1. IInv => TypeOK
  BY DEF IInv
<1> QED BY <1>1, Always, PTL

(* PUTUpload, for any number of overlapping uploads of a path: the last to *)
(* create the file leaves it whole, and an object is never less.           *)
THEOREM StoredWholes == Spec => []StoredIsWhole
<1>1. IInv => StoredIsWhole
  BY StoredWhole DEF StoredIsWhole, Stored
<1> QED BY <1>1, Always, PTL

(* A job comes to stop short in no other step than a read that misses a    *)
(* piece.                                                                  *)
LEMMA StopsInRead ==
    ASSUME TypeOK, [Next]_vars, NEW u \in Uploads, StopsShort(u)', ~StopsShort(u)
    PROVE  ReadLog(u) /\ chunk[u] < Chunks /\ chunk[u] + 1 \notin Source(u)
<1> USE DEF StopsShort, TypeOK
<1>1. CASE Restart
  BY <1>1 DEF Restart
<1>2. CASE CloseStorage \/ UNCHANGED vars
  BY <1>2 DEF CloseStorage, vars, parsing
<1>3. ASSUME NEW w \in Uploads, HandlerStep(w) PROVE FALSE
  <2>1. CASE HandOver(w)
    BY <2>1 DEF HandOver
  <2>2. CASE ~HandOver(w)
    BY <1>3, <2>2 DEF HandlerStep, Create, Write, CloseFile, CheckHeader, InsertLogRow,
                      UploadFails, parsing
  <2> QED BY <2>1, <2>2
<1>4. ASSUME NEW w \in Uploads, OpenLog(w) \/ Merge(w) \/ IngestFails(w) PROVE FALSE
  BY <1>4 DEF OpenLog, Merge, IngestFails
<1>5. ASSUME NEW w \in Uploads, ReadLog(w)
      PROVE  w = u /\ chunk[u] < Chunks /\ chunk[u] + 1 \notin Source(u)
  BY <1>5 DEF ReadLog
<1> QED BY <1>1, <1>2, <1>3, <1>4, <1>5 DEF Next, JobStep

(* processLog, however uploads of its file overlap and break off: it takes *)
(* a part for the log only while a later upload has not stored the file.   *)
THEOREM ShortReads == Spec => ShortWhileRewritten
<1>1. ASSUME IInv, [Next]_vars, NEW u \in Uploads, StopsShort(u)', ~StopsShort(u)
      PROVE  /\ driver = "filesystem"
             /\ \E v \in Uploads \ ({u} \union rewritten) :
                   PathOf[v] = PathOf[u] /\ put[v] \in {"writing", "refused"}
             /\ job'[u] = "decoded" => CleanEnds[PathOf[u]] # {}
  <2>1. ReadLog(u) /\ chunk[u] < Chunks /\ chunk[u] + 1 \notin Source(u)
    BY <1>1, StopsInRead DEF IInv
  <2>2. /\ TypeOK /\ JobInv(u) /\ LatestInv(u) /\ job[u] = "reading" /\ put[u] = "ok"
        /\ chunk[u] + 1 \in Whole
    BY <1>1, <2>1 DEF IInv, TypeOK, ReadLog, JobInv, Whole
  <2>3. driver = "filesystem"
    BY <2>1, <2>2 DEF Source, JobInv, TypeOK
  <2>4. \A v \in Uploads : Stored(v) /\ v \notin rewritten => PathOf[v] # PathOf[u]
    BY <1>1, <2>1, <2>2, <2>3, StoredWhole DEF Source
  <2>5. PICK v \in Uploads \ rewritten : PathOf[v] = PathOf[u] /\ Sent(v)
    BY <2>2, <2>3 DEF LatestInv, Latest, Sent
  <2>6. v # u /\ put[v] \in {"writing", "refused"}
    BY <2>2, <2>4, <2>5 DEF Sent, Stored, TypeOK
  <2>7. ASSUME job'[u] = "decoded" PROVE CleanEnds[PathOf[u]] # {}
    BY <2>1, <2>2, <2>7 DEF ReadLog, AtCleanEnd, TypeOK
  <2> QED BY <2>3, <2>5, <2>6, <2>7
<1>2. IInv /\ [Next]_vars =>
        [\A u \in Uploads : StopsShort(u)' /\ ~StopsShort(u) =>
            /\ driver = "filesystem"
            /\ \E v \in Uploads \ ({u} \union rewritten) :
                  PathOf[v] = PathOf[u] /\ put[v] \in {"writing", "refused"}
            /\ job'[u] = "decoded" => CleanEnds[PathOf[u]] # {}]_vars
  BY <1>1
<1> QED BY <1>2, Always, PTL DEF Spec, ShortWhileRewritten
=============================================================================
