-------------------------- MODULE CaptureLoop_proofs --------------------------
(***************************************************************************)
(* Proofs about the capture loop, for any number of uploads.  Where two    *)
(* uploads would have to have different paths, the names of the files are  *)
(* assumed to differ.                                                      *)
(***************************************************************************)
EXTENDS CaptureLoop, FiniteSetTheorems, SequenceTheorems, TLAPS

Accepted == {u \in Upload : step[u] = "accepted"}

Types ==
    /\ step \in [Upload -> {"none", "stamped", "created", "written", "accepted", "refused"}]
    /\ dest \in [Upload -> Path \cup {NoFile}]
    /\ files \in [Path -> Upload \cup {Empty, NoFile}]
    /\ queue \in Seq(Path)
    /\ current \in Path \cup {Source, NoFile}
    /\ pc \in {"live", "check", "setStable", "open", "run", "flush", "clear"}
    /\ path \in Path \cup {Source, NoFile}
    /\ reading \in Upload \cup {Source, Empty, NoFile}
    /\ unstored \subseteq Upload \cup {Source, Empty}
    /\ processed \in Seq(Upload \cup {Empty})
    /\ overtaken \in [Upload -> 0..OvertakenCap]

\* A request beyond its first step has a path, and a file once it created one.
PathsOK ==
    \A u \in Upload :
        /\ step[u] = "none" => dest[u] = NoFile
        /\ step[u] # "none" => dest[u] \in Path
        /\ step[u] \in {"created", "written", "accepted"} => files[dest[u]] # NoFile

\* The paths in the queue, and the one in work, come from accepted uploads.
IsAccepted(p) == \E u \in Upload : step[u] = "accepted" /\ dest[u] = p

QueueOK == \A i \in 1..Len(queue) : IsAccepted(queue[i])

\* Where main is, and what it holds there.
MainOK ==
    /\ pc \in {"live", "check", "setStable"} => path = NoFile /\ current = NoFile
    /\ pc \in {"open", "run", "flush", "clear"} => current = path /\ path # NoFile
    /\ path \in Path => IsAccepted(path)
    /\ pc \in {"run", "flush", "clear"} /\ path \in Path => reading \in Upload \cup {Empty}
    /\ pc = "run" => reading # NoFile

\* Events wait in the buffer only until the flush that follows.
BufferOK == unstored # {} => pc \in {"flush", "live"}

InWork == IF path \in Path THEN 1 ELSE 0

\* Each accepted upload is in the queue, in work or processed.
CountOK == Len(queue) + InWork + Len(processed) = Cardinality(Accepted)

IndInv == Types /\ PathsOK /\ QueueOK /\ MainOK /\ BufferOK /\ CountOK

LEMMA Apart == /\ Source \notin Path /\ NoFile \notin Path /\ Source # NoFile
               /\ NoFile \notin Upload /\ Empty \notin Upload /\ Empty # NoFile
               /\ Source \notin Upload /\ Empty # Source
BY LoopAssumption DEF Path

LEMMA AcceptedFinite ==
    /\ IsFiniteSet(Accepted) /\ Cardinality(Accepted) \in Nat
    /\ IsFiniteSet(Upload) /\ Cardinality(Upload) \in Nat
    /\ Cardinality(Accepted) <= Cardinality(Upload)
<1>1. Accepted \subseteq Upload /\ IsFiniteSet(Upload)
  BY LoopAssumption DEF Accepted
<1> QED
  BY <1>1, FS_Subset, FS_CardinalityType

LEMMA InitEstablishes == Init => IndInv
<1> SUFFICES ASSUME Init PROVE IndInv
  OBVIOUS
<1>1. Types
  BY DEF Init, Types, OvertakenCap
<1>2. PathsOK /\ QueueOK
  BY DEF Init, PathsOK, QueueOK
<1>3. MainOK /\ BufferOK
  BY Apart DEF Init, MainOK, BufferOK
<1>4. CountOK
  <2>1. Accepted = {}
    BY DEF Init, Accepted
  <2>2. Cardinality(Accepted) = 0
    BY <2>1, FS_EmptySet
  <2> QED
    BY <2>2, Apart DEF Init, CountOK, InWork
<1> QED
  BY <1>1, <1>2, <1>3, <1>4 DEF IndInv

\* The steps of a worker before it pushes: no path becomes accepted.
LEMMA WritingPreserves ==
    ASSUME IndInv, NEW u \in Upload,
           StampPath(u) \/ CreateFile(u) \/ RefuseUpload(u) \/ WriteFile(u)
    PROVE  IndInv'
<1> USE DEF IndInv
<1>1. /\ UNCHANGED <<queue, current, main, processed, overtaken>>
      /\ step[u] \in {"none", "stamped", "created"}
  BY DEF StampPath, CreateFile, RefuseUpload, WriteFile, WorkerGoesTo
<1>2. step[u] # "none" => dest[u] \in Path
  BY DEF PathsOK
<1>3. Types'
  <2>1. CASE StampPath(u)
    <3>1. \A ms \in Millis : <<ms, NameOf[u]>> \in Path
      BY LoopAssumption DEF Path
    <3> QED
      BY <1>1, <2>1, <3>1 DEF Types, StampPath, WorkerGoesTo, main
  <2>2. CASE CreateFile(u)
    BY <1>1, <1>2, <2>2 DEF Types, CreateFile, WorkerGoesTo, main
  <2>3. CASE RefuseUpload(u)
    BY <1>1, <2>3 DEF Types, RefuseUpload, WorkerGoesTo, main
  <2>4. CASE WriteFile(u)
    BY <1>1, <1>2, <2>4 DEF Types, WriteFile, WorkerGoesTo, main
  <2> QED
    BY <2>1, <2>2, <2>3, <2>4
<1>4. \A v \in Upload : (step'[v] = "accepted") = (step[v] = "accepted")
  BY DEF Types, StampPath, CreateFile, RefuseUpload, WriteFile, WorkerGoesTo
<1>5. \A v \in Upload : step[v] = "accepted" => dest'[v] = dest[v]
  BY <1>1 DEF Types, StampPath, CreateFile, RefuseUpload, WriteFile, WorkerGoesTo
<1>6. PathsOK'
  <2>1. CASE StampPath(u)
    <3>1. \A ms \in Millis : <<ms, NameOf[u]>> \in Path
      BY LoopAssumption DEF Path
    <3> QED
      BY <2>1, <3>1 DEF PathsOK, Types, StampPath, WorkerGoesTo
  <2>2. CASE CreateFile(u)
    BY <1>2, <2>2, Apart DEF PathsOK, Types, CreateFile, WorkerGoesTo
  <2>3. CASE RefuseUpload(u)
    BY <2>3 DEF PathsOK, Types, RefuseUpload, WorkerGoesTo
  <2>4. CASE WriteFile(u)
    BY <1>2, <2>4, Apart DEF PathsOK, Types, WriteFile, WorkerGoesTo
  <2> QED
    BY <2>1, <2>2, <2>3, <2>4
<1>7. \A p : IsAccepted(p) => IsAccepted(p)'
  BY <1>4, <1>5 DEF IsAccepted
<1>8. QueueOK' /\ MainOK' /\ BufferOK'
  BY <1>1, <1>7 DEF QueueOK, MainOK, BufferOK, main
<1>9. CountOK'
  <2>1. Accepted' = Accepted
    BY <1>4 DEF Accepted
  <2> QED
    BY <1>1, <2>1 DEF CountOK, InWork, main
<1> QED
  BY <1>3, <1>6, <1>8, <1>9

LEMMA PushPreserves ==
    ASSUME IndInv, NEW u \in Upload, PushPath(u)
    PROVE  IndInv'
<1> USE DEF IndInv
<1>1. step[u] = "written" /\ dest[u] \in Path
  BY DEF PushPath, WorkerGoesTo, PathsOK
<1>2. step' = [step EXCEPT ![u] = "accepted"] /\ queue' = Append(queue, dest[u])
  BY DEF PushPath, WorkerGoesTo
<1>3. UNCHANGED <<dest, files, current, pc, path, reading, unstored, processed, overtaken>>
  BY DEF PushPath, main
<1>4. Types'
  BY <1>1, <1>2, <1>3 DEF Types
<1>5. PathsOK'
  BY <1>1, <1>2, <1>3 DEF PathsOK, Types
<1>6. \A p : IsAccepted(p) => IsAccepted(p)'
  BY <1>2, <1>3 DEF IsAccepted, Types
<1>8. QueueOK'
  <2>1. queue \in Seq(Path)
    BY DEF Types
  <2> SUFFICES ASSUME NEW i \in 1..(Len(queue) + 1)
               PROVE  \E v \in Upload : step'[v] = "accepted" /\ dest'[v] = queue'[i]
    BY <1>2, <2>1 DEF QueueOK, IsAccepted
  <2>2. CASE i \in 1..Len(queue)
    <3>1. queue'[i] = queue[i] /\ IsAccepted(queue[i])
      BY <1>2, <2>1, <2>2 DEF QueueOK
    <3> QED
      BY <1>2, <1>3, <3>1 DEF IsAccepted, Types
  <2>3. CASE i = Len(queue) + 1
    <3>1. queue'[i] = dest[u]
      BY <1>1, <1>2, <2>1, <2>3
    <3> QED
      BY <1>2, <1>3, <3>1 DEF Types
  <2> QED
    BY <2>2, <2>3
<1>9. MainOK' /\ BufferOK'
  BY <1>3, <1>6 DEF MainOK, BufferOK
<1>10. CountOK'
  <2>1. Accepted' = Accepted \cup {u} /\ u \notin Accepted
    BY <1>1, <1>2 DEF Accepted, Types
  <2>2. Cardinality(Accepted') = Cardinality(Accepted) + 1
    BY <2>1, AcceptedFinite, FS_AddElement
  <2>3. Len(queue') = Len(queue) + 1 /\ Len(queue) \in Nat /\ Len(processed) \in Nat
    BY <1>2 DEF Types
  <2>4. InWork' = InWork /\ InWork \in Nat
    BY <1>3 DEF InWork
  <2> QED
    BY <1>3, <2>2, <2>3, <2>4, AcceptedFinite DEF CountOK
<1> QED
  BY <1>4, <1>5, <1>8, <1>9, <1>10

LEMMA TakePreserves ==
    ASSUME IndInv, TakeUpload
    PROVE  IndInv'
<1> USE DEF IndInv
<1>1. queue \in Seq(Path) /\ queue # <<>> /\ pc = "check" /\ unstored = {} /\ path = NoFile
  BY DEF TakeUpload, Types, BufferOK, MainOK
<1>2. Head(queue) \in Path /\ Tail(queue) \in Seq(Path) /\ Len(queue) \in Nat \ {0}
      /\ Len(Tail(queue)) = Len(queue) - 1
  BY <1>1
<1>3. /\ queue' = Tail(queue) /\ path' = Head(queue) /\ current' = Head(queue) /\ pc' = "open"
      /\ UNCHANGED <<step, dest, files, reading, unstored, processed, overtaken>>
  BY DEF TakeUpload, workers
<1>4. Types'
  BY <1>2, <1>3 DEF Types
<1>5. PathsOK' /\ BufferOK'
  BY <1>1, <1>3 DEF PathsOK, BufferOK
<1>6. \A p : IsAccepted(p)' = IsAccepted(p)
  BY <1>3 DEF IsAccepted
<1>7. QueueOK'
  <2> SUFFICES ASSUME NEW i \in 1..(Len(queue) - 1) PROVE IsAccepted(Tail(queue)[i])
    BY <1>2, <1>3, <1>6 DEF QueueOK
  <2>1. Tail(queue)[i] = queue[i + 1] /\ i + 1 \in 1..Len(queue)
    BY <1>1, <1>2
  <2> QED
    BY <2>1 DEF QueueOK
<1>8. IsAccepted(Head(queue))
  BY <1>1, <1>2 DEF QueueOK
<1>9. MainOK'
  BY <1>2, <1>3, <1>6, <1>8, Apart DEF MainOK
<1>10. CountOK'
  <2>1. InWork = 0 /\ InWork' = 1
    BY <1>1, <1>2, <1>3, Apart DEF InWork
  <2>2. Accepted' = Accepted /\ Len(processed) \in Nat
    BY <1>3 DEF Accepted, Types
  <2> QED
    BY <1>2, <1>3, <2>1, <2>2 DEF CountOK
<1> QED
  BY <1>4, <1>5, <1>7, <1>9, <1>10

\* The steps of main that neither take an upload nor finish one.
LEMMA PassPreserves ==
    ASSUME IndInv,
           FindNoUpload \/ BeginStablePass \/ OpenReader \/ RunReader \/ FlushEvents
           \/ ReadInterface
    PROVE  IndInv'
<1> USE DEF IndInv
<1>1. UNCHANGED <<step, dest, files, queue, processed>>
  BY DEF FindNoUpload, BeginStablePass, OpenReader, RunReader, FlushEvents, ReadInterface,
         workers
<1>2. PathsOK' /\ QueueOK' /\ Accepted' = Accepted /\ \A p : IsAccepted(p)' = IsAccepted(p)
  BY <1>1 DEF PathsOK, QueueOK, Accepted, IsAccepted
<1>3. (path \in Path) = (path' \in Path)
  BY Apart DEF FindNoUpload, BeginStablePass, OpenReader, RunReader, FlushEvents,
               ReadInterface, MainOK
<1>4. CountOK'
  BY <1>1, <1>2, <1>3 DEF CountOK, InWork
<1>5. Types' /\ MainOK' /\ BufferOK'
  <2>1. CASE FindNoUpload
    BY <1>1, <1>2, <2>1 DEF FindNoUpload, Types, MainOK, BufferOK
  <2>2. CASE BeginStablePass
    <3>1. overtaken' \in [Upload -> 0..OvertakenCap]
      BY <2>2 DEF BeginStablePass, Types, OvertakenCap
    <3> QED
      BY <1>1, <1>2, <2>2, <3>1, Apart DEF BeginStablePass, Types, MainOK, BufferOK
  <2>3. CASE OpenReader
    <3>1. path \in Path => files[path] \in Upload \cup {Empty}
      BY DEF MainOK, PathsOK, IsAccepted, Types
    <3>2. path \in Path \cup {Source} /\ unstored = {} /\ pc = "open"
      BY <2>3 DEF OpenReader, MainOK, BufferOK, Types
    <3>3. /\ reading' \in Upload \cup {Source, Empty}
          /\ path \in Path => reading' \in Upload \cup {Empty}
      BY <2>3, <3>1, <3>2, Apart DEF OpenReader, ContentsOf
    <3> QED
      BY <1>1, <1>2, <2>3, <3>2, <3>3, Apart DEF OpenReader, Types, MainOK, BufferOK
  <2>4. CASE RunReader
    BY <1>1, <1>2, <2>4 DEF RunReader, Types, MainOK, BufferOK
  <2>5. CASE FlushEvents
    BY <1>1, <1>2, <2>5 DEF FlushEvents, Types, MainOK, BufferOK
  <2>6. CASE ReadInterface
    BY <1>1, <1>2, <2>6 DEF ReadInterface, Types, MainOK, BufferOK
  <2> QED
    BY <2>1, <2>2, <2>3, <2>4, <2>5, <2>6
<1> QED
  BY <1>2, <1>4, <1>5

LEMMA ClearPreserves ==
    ASSUME IndInv, ClearCurrent
    PROVE  IndInv'
<1> USE DEF IndInv
<1>1. /\ pc = "clear" /\ unstored = {} /\ path \in Path \cup {Source}
      /\ path \in Path => reading \in Upload \cup {Empty}
  BY DEF ClearCurrent, BufferOK, MainOK, Types
<1>2. /\ current' = NoFile /\ path' = NoFile /\ reading' = NoFile /\ pc' = "check"
      /\ processed' = IF path = Source THEN processed ELSE Append(processed, reading)
      /\ UNCHANGED <<step, dest, files, queue, unstored, overtaken>>
  BY DEF ClearCurrent, workers
<1>3. PathsOK' /\ QueueOK' /\ BufferOK' /\ MainOK' /\ Accepted' = Accepted
  BY <1>1, <1>2, Apart DEF PathsOK, QueueOK, IsAccepted, BufferOK, MainOK, Accepted
<1>4. processed' \in Seq(Upload \cup {Empty})
  BY <1>1, <1>2 DEF Types
<1>5. Types'
  BY <1>1, <1>2, <1>4 DEF Types
<1>6. CountOK'
  <2>1. InWork' = 0 /\ InWork = (IF path = Source THEN 0 ELSE 1)
    BY <1>1, <1>2, Apart DEF InWork
  <2>2. Len(processed') = Len(processed) + (IF path = Source THEN 0 ELSE 1)
    BY <1>2 DEF Types
  <2>3. Len(queue) \in Nat /\ Len(processed) \in Nat
    BY DEF Types
  <2> QED
    BY <1>2, <1>3, <2>1, <2>2, <2>3 DEF CountOK
<1> QED
  BY <1>3, <1>5, <1>6

LEMMA NextPreserves == IndInv /\ [Next]_vars => IndInv'
<1>1. ASSUME IndInv, Next PROVE IndInv'
  BY <1>1, WritingPreserves, PushPreserves, TakePreserves, PassPreserves, ClearPreserves
     DEF Next, Main, Worker
<1>2. ASSUME IndInv, UNCHANGED vars PROVE IndInv'
  BY <1>2 DEF IndInv, vars, workers, main, Types, PathsOK, QueueOK, IsAccepted, MainOK,
              BufferOK, CountOK, InWork, Accepted
<1> QED
  BY <1>1, <1>2

LEMMA Inductive == Spec => []IndInv
BY InitEstablishes, NextPreserves, PTL DEF Spec

\* The types of the loop's state; no more files are queued or processed than uploads
\* were sent.
THEOREM TypeCorrect == Spec => []TypeOK
<1>1. IndInv => TypeOK
  <2> SUFFICES ASSUME IndInv PROVE TypeOK
    OBVIOUS
  <2>1. Len(queue) \in Nat /\ Len(processed) \in Nat /\ InWork \in Nat
    BY DEF IndInv, Types, InWork
  <2>2. Len(queue) <= Cardinality(Upload) /\ Len(processed) <= Cardinality(Upload)
    BY <2>1, AcceptedFinite DEF IndInv, CountOK
  <2> QED
    BY <2>2 DEF IndInv, Types, TypeOK
<1> QED
  BY <1>1, Inductive, PTL

\* Between two files the buffer of the tracker is empty (main.cpp: flush_events before
\* current_pcap is cleared), whatever is uploaded and whatever cannot be opened.
THEOREM StoredBetweenFilesCorrect == Spec => []StoredBetweenFiles
<1>1. IndInv => StoredBetweenFiles
  BY Apart DEF IndInv, StoredBetweenFiles, MainOK, BufferOK
<1> QED
  BY <1>1, Inductive, PTL
-----------------------------------------------------------------------------
(* Uploads of different names.                                             *)

DistinctNames == \A u, v \in Upload : NameOf[u] = NameOf[v] => u = v

\* The path of an upload ends in its name, so no two have the same; what an upload
\* wrote stays; the contents read for an upload are those of an accepted one.
OwnOK ==
    /\ \A u \in Upload : step[u] # "none" => dest[u][2] = NameOf[u]
    /\ \A u \in Upload : step[u] \in {"written", "accepted"} => files[dest[u]] = u
    /\ reading \in Accepted \cup {Source, NoFile}
    /\ \A i \in 1..Len(processed) : processed[i] \in Accepted

InQueue(u) == \E i \in 1..Len(queue) : queue[i] = dest[u]

\* A pass overtakes an upload only if it was pushed since the queue was found empty.
LateOK ==
    \A u \in Upload :
        /\ overtaken[u] <= 1
        /\ step[u] # "accepted" => overtaken[u] = 0
        /\ pc = "setStable" /\ InQueue(u) => overtaken[u] = 0

OwnInv == IndInv /\ OwnOK /\ LateOK

LEMMA OwnPaths ==
    ASSUME DistinctNames, OwnInv, NEW u \in Upload, NEW v \in Upload,
           step[u] # "none", dest[u] = dest[v]
    PROVE  u = v
<1>1. dest[v] \in Path /\ NoFile \notin Path
  BY Apart DEF OwnInv, IndInv, PathsOK
<1>2. step[v] # "none"
  BY <1>1 DEF OwnInv, IndInv, PathsOK
<1> QED
  BY <1>2 DEF OwnInv, OwnOK, DistinctNames

LEMMA InQueueAccepted ==
    ASSUME DistinctNames, OwnInv, NEW u \in Upload, InQueue(u)
    PROVE  step[u] = "accepted"
<1>1. PICK v \in Upload : step[v] = "accepted" /\ dest[v] = dest[u]
  BY DEF InQueue, OwnInv, IndInv, QueueOK, IsAccepted
<1> QED
  BY <1>1, OwnPaths

LEMMA InitOwn == Init => OwnInv
<1> SUFFICES ASSUME Init PROVE OwnInv
  OBVIOUS
<1>1. OwnOK /\ LateOK
  BY DEF Init, OwnOK, LateOK, InQueue
<1> QED
  BY <1>1, InitEstablishes DEF OwnInv

LEMMA WritingOwn ==
    ASSUME DistinctNames, OwnInv, NEW u \in Upload,
           StampPath(u) \/ CreateFile(u) \/ RefuseUpload(u) \/ WriteFile(u)
    PROVE  OwnOK' /\ LateOK'
<1>1. /\ UNCHANGED <<queue, reading, processed, overtaken, pc>>
      /\ step[u] \in {"none", "stamped", "created"}
      /\ step' \in {[step EXCEPT ![u] = s] : s \in {"stamped", "created", "refused", "written"}}
  BY DEF StampPath, CreateFile, RefuseUpload, WriteFile, WorkerGoesTo, main
<1>2. Types /\ PathsOK
  BY DEF OwnInv, IndInv
<1>3. \A v \in Upload : (step'[v] = "accepted") = (step[v] = "accepted")
  BY <1>1, <1>2 DEF Types
<1>4. Accepted' = Accepted
  BY <1>3 DEF Accepted
<1>5. \A v \in Upload : v # u => step'[v] = step[v] /\ dest'[v] = dest[v]
  BY <1>2 DEF Types, StampPath, CreateFile, RefuseUpload, WriteFile, WorkerGoesTo
<1>6. \A v \in Upload : step'[v] # "none" => dest'[v][2] = NameOf[v]
  <2>1. \A v \in Upload : v # u => (step'[v] # "none" => dest'[v][2] = NameOf[v])
    BY <1>5 DEF OwnInv, OwnOK
  <2>2. dest'[u][2] = NameOf[u]
    BY <1>2 DEF OwnInv, OwnOK, Types, StampPath, CreateFile, RefuseUpload, WriteFile,
                WorkerGoesTo
  <2> QED
    BY <2>1, <2>2
<1>7. \A v \in Upload : step'[v] \in {"written", "accepted"} => files'[dest'[v]] = v
  <2> SUFFICES ASSUME NEW v \in Upload, step'[v] \in {"written", "accepted"}
               PROVE  files'[dest'[v]] = v
    OBVIOUS
  <2>1. CASE v # u
    <3>1. step[v] \in {"written", "accepted"} /\ dest'[v] = dest[v] /\ dest[v] \in Path
      BY <1>2, <1>5, <2>1 DEF PathsOK
    <3>2. files[dest[v]] = v
      BY <3>1 DEF OwnInv, OwnOK
    <3>3. dest[v] # dest[u]
      BY <2>1, <3>1, OwnPaths
    <3>4. files'[dest[v]] = files[dest[v]]
      BY <1>2, <3>1, <3>3 DEF StampPath, CreateFile, RefuseUpload, WriteFile, Types
    <3> QED
      BY <3>1, <3>2, <3>4
  <2>2. CASE v = u
    <3>1. WriteFile(u)
      BY <1>1, <1>2, <2>2 DEF StampPath, CreateFile, RefuseUpload, WorkerGoesTo, Types
    <3>2. dest[u] \in Path
      BY <1>2, <3>1 DEF WriteFile, WorkerGoesTo, PathsOK
    <3> QED
      BY <1>2, <2>2, <3>1, <3>2 DEF WriteFile, Types
  <2> QED
    BY <2>1, <2>2
<1>8. OwnOK'
  BY <1>1, <1>4, <1>6, <1>7 DEF OwnInv, OwnOK
<1>9. LateOK'
  <2> SUFFICES ASSUME NEW v \in Upload
               PROVE  /\ overtaken'[v] <= 1
                      /\ step'[v] # "accepted" => overtaken'[v] = 0
                      /\ pc' = "setStable" /\ InQueue(v)' => overtaken'[v] = 0
    BY DEF LateOK
  <2>1. overtaken[v] <= 1 /\ (step[v] # "accepted" => overtaken[v] = 0)
    BY DEF OwnInv, LateOK
  <2>2. CASE v # u
    BY <1>1, <1>3, <1>5, <2>1, <2>2 DEF OwnInv, LateOK, InQueue
  <2>3. CASE v = u
    BY <1>1, <1>3, <2>1, <2>3
  <2> QED
    BY <2>2, <2>3
<1> QED
  BY <1>8, <1>9

LEMMA PushOwn ==
    ASSUME DistinctNames, OwnInv, NEW u \in Upload, PushPath(u)
    PROVE  OwnOK' /\ LateOK'
<1>1. /\ step[u] = "written" /\ step' = [step EXCEPT ![u] = "accepted"]
      /\ queue' = Append(queue, dest[u])
      /\ UNCHANGED <<dest, files, pc, reading, processed, overtaken>>
  BY DEF PushPath, WorkerGoesTo, main
<1>2. Types
  BY DEF OwnInv, IndInv
<1>3. Accepted' = Accepted \cup {u}
  BY <1>1, <1>2 DEF Accepted, Types
<1>4. OwnOK'
  BY <1>1, <1>2, <1>3 DEF OwnInv, OwnOK, Types
<1>5. LateOK'
  <2> SUFFICES ASSUME NEW v \in Upload
               PROVE  /\ overtaken'[v] <= 1
                      /\ step'[v] # "accepted" => overtaken'[v] = 0
                      /\ pc' = "setStable" /\ InQueue(v)' => overtaken'[v] = 0
    BY DEF LateOK
  <2>1. overtaken[u] = 0
    BY <1>1 DEF OwnInv, LateOK
  <2>2. CASE v = u
    BY <1>1, <2>1, <2>2
  <2>3. CASE v # u
    <3>1. step'[v] = step[v]
      BY <1>1, <1>2, <2>3 DEF Types
    <3>2. InQueue(v)' => InQueue(v)
      <4> SUFFICES ASSUME NEW i \in 1..Len(queue'), queue'[i] = dest[v] PROVE InQueue(v)
        BY <1>1 DEF InQueue
      <4>1. queue \in Seq(Path) /\ dest[u] # dest[v] /\ dest[u] \in Path
        BY <1>1, <1>2, <2>3, OwnPaths DEF Types, OwnInv, IndInv, PathsOK
      <4>2. i \in 1..Len(queue) /\ queue'[i] = queue[i]
        BY <1>1, <4>1
      <4> QED
        BY <4>2 DEF InQueue
    <3> QED
      BY <1>1, <3>1, <3>2 DEF OwnInv, LateOK
  <2> QED
    BY <2>2, <2>3
<1> QED
  BY <1>4, <1>5

\* main reads the file that the accepted upload wrote.
LEMMA OpenOwn ==
    ASSUME DistinctNames, OwnInv, path \in Path
    PROVE  files[path] \in Accepted
<1>1. PICK v \in Upload : step[v] = "accepted" /\ dest[v] = path
  BY DEF OwnInv, IndInv, MainOK, IsAccepted
<1> QED
  BY <1>1 DEF OwnInv, OwnOK, Accepted

LEMMA MainOwn ==
    ASSUME DistinctNames, OwnInv, Main
    PROVE  OwnOK' /\ LateOK'
<1>1. UNCHANGED <<step, dest, files>> /\ Accepted' = Accepted
  BY DEF Main, TakeUpload, FindNoUpload, BeginStablePass, OpenReader, RunReader, FlushEvents,
         ClearCurrent, ReadInterface, workers, Accepted
<1>2. Types /\ MainOK
  BY DEF OwnInv, IndInv
<1>3. reading' \in Accepted \cup {Source, NoFile}
  <2>1. CASE OpenReader
    <3>1. pc = "open" /\ path \in Path \cup {Source}
      BY <1>2, <2>1 DEF OpenReader, MainOK, Types
    <3> QED
      BY <2>1, <3>1, OpenOwn, Apart DEF OpenReader, ContentsOf
  <2>2. CASE ClearCurrent
    BY <2>2 DEF ClearCurrent
  <2>3. CASE ~OpenReader /\ ~ClearCurrent
    BY <2>3 DEF OwnInv, OwnOK, Main, TakeUpload, FindNoUpload, BeginStablePass, RunReader,
                FlushEvents, ReadInterface
  <2> QED
    BY <2>1, <2>2, <2>3
<1>4. \A i \in 1..Len(processed') : processed'[i] \in Accepted
  <2>1. CASE ClearCurrent /\ path # Source
    <3>1. reading \in Accepted /\ processed \in Seq(Upload \cup {Empty})
      BY <1>2, <2>1, Apart DEF ClearCurrent, MainOK, OwnInv, OwnOK, Types
    <3>2. processed' = Append(processed, reading)
      BY <2>1 DEF ClearCurrent
    <3> QED
      BY <3>1, <3>2 DEF OwnInv, OwnOK
  <2>2. CASE ~(ClearCurrent /\ path # Source)
    <3>1. processed' = processed
      BY <2>2 DEF Main, TakeUpload, FindNoUpload, BeginStablePass, OpenReader, RunReader,
                  FlushEvents, ClearCurrent, ReadInterface
    <3> QED
      BY <3>1 DEF OwnInv, OwnOK
  <2> QED
    BY <2>1, <2>2
<1>5. OwnOK'
  BY <1>1, <1>3, <1>4 DEF OwnInv, OwnOK
<1>6. LateOK'
  <2> SUFFICES ASSUME NEW v \in Upload
               PROVE  /\ overtaken'[v] <= 1
                      /\ step[v] # "accepted" => overtaken'[v] = 0
                      /\ pc' = "setStable" /\ InQueue(v)' => overtaken'[v] = 0
    BY <1>1 DEF LateOK
  <2>1. CASE BeginStablePass
    <3>1. pc = "setStable" /\ pc' = "open"
      BY <2>1 DEF BeginStablePass
    <3>2. overtaken'[v] = IF dest[v] \in ToSet(queue) /\ overtaken[v] < OvertakenCap
                            THEN overtaken[v] + 1 ELSE overtaken[v]
      BY <2>1 DEF BeginStablePass
    <3>3. dest[v] \in ToSet(queue) <=> InQueue(v)
      <4>1. DOMAIN queue = 1..Len(queue)
        BY <1>2 DEF Types
      <4> QED
        BY Zenon, <4>1 DEF ToSet, InQueue
    <3>4. InQueue(v) => step[v] = "accepted" /\ overtaken[v] = 0
      BY <3>1, InQueueAccepted DEF OwnInv, LateOK
    <3>5. CASE InQueue(v)
      <4>1. overtaken'[v] = 1
        BY <3>2, <3>3, <3>4, <3>5 DEF OvertakenCap
      <4> QED
        BY <3>1, <3>4, <3>5, <4>1
    <3>6. CASE ~InQueue(v)
      <4>1. overtaken'[v] = overtaken[v]
        BY <3>2, <3>3, <3>6
      <4>2. overtaken[v] <= 1 /\ (step[v] # "accepted" => overtaken[v] = 0)
        BY DEF OwnInv, LateOK
      <4> QED
        BY <3>1, <4>1, <4>2
    <3> QED
      BY <3>5, <3>6
  <2>2. CASE FindNoUpload
    BY <1>1, <2>2 DEF FindNoUpload, InQueue, OwnInv, LateOK
  <2>3. CASE TakeUpload \/ OpenReader \/ RunReader \/ FlushEvents \/ ClearCurrent
             \/ ReadInterface
    <3>1. overtaken' = overtaken /\ pc' # "setStable"
      BY <2>3 DEF TakeUpload, OpenReader, RunReader, FlushEvents, ClearCurrent, ReadInterface
    <3> QED
      BY <3>1 DEF OwnInv, LateOK
  <2> QED
    BY <2>1, <2>2, <2>3 DEF Main
<1> QED
  BY <1>5, <1>6

LEMMA NextOwn == DistinctNames /\ OwnInv /\ [Next]_vars => OwnInv'
<1>1. ASSUME DistinctNames, OwnInv, Next PROVE OwnInv'
  <2>1. IndInv'
    BY <1>1, NextPreserves DEF OwnInv
  <2>2. OwnOK' /\ LateOK'
    BY <1>1, WritingOwn, PushOwn, MainOwn DEF Next, Worker
  <2> QED
    BY <2>1, <2>2 DEF OwnInv
<1>2. ASSUME OwnInv, UNCHANGED vars PROVE OwnInv'
  <2>1. IndInv'
    BY <1>2, NextPreserves DEF OwnInv
  <2> QED
    BY <1>2, <2>1 DEF OwnInv, OwnOK, LateOK, InQueue, Accepted, vars, workers, main
<1> QED
  BY <1>1, <1>2

LEMMA OwnInductive == ASSUME DistinctNames PROVE Spec => []OwnInv
BY InitOwn, NextOwn, PTL DEF Spec

\* Of uploads with different names, each is overtaken by at most one stable pass
\* (main.cpp: the queue is checked before each pass).
THEOREM OvertakenOnceCorrect == ASSUME DistinctNames PROVE Spec => []OvertakenOnce
<1>1. OwnInv => OvertakenOnce
  BY DEF OwnInv, LateOK, OvertakenOnce
<1> QED
  BY <1>1, OwnInductive, PTL

\* Of uploads with different names, none is read before it is written
\* (rest_server.cpp: the path is pushed after close).
THEOREM ReadsWholeFileCorrect == ASSUME DistinctNames PROVE Spec => []ReadsWholeFile
<1>1. OwnInv => ReadsWholeFile
  BY Apart DEF OwnInv, OwnOK, ReadsWholeFile, Accepted
<1> QED
  BY <1>1, OwnInductive, PTL
-----------------------------------------------------------------------------
(* The loop implements the queue of uploads.                               *)

Waiting == [k \in DOMAIN queue |-> files[queue[k]]]

\* What the abstract queue holds are accepted uploads.
LEMMA HeldAccepted ==
    ASSUME DistinctNames, OwnInv
    PROVE  /\ DOMAIN queue = 1..Len(queue) /\ Len(queue) \in Nat
           /\ \A k \in 1..Len(queue) : files[queue[k]] \in Accepted
           /\ Waiting \in Seq(Accepted) /\ Len(Waiting) = Len(queue)
           /\ Running \in Accepted \cup {NoFile}
           /\ path \in Path => Running \in Accepted
<1>1. DOMAIN queue = 1..Len(queue) /\ Len(queue) \in Nat
  BY DEF OwnInv, IndInv, Types
<1>2. \A p \in Path : IsAccepted(p) => files[p] \in Accepted
  BY DEF IsAccepted, Accepted, OwnInv, OwnOK
<1>3. \A k \in 1..Len(queue) : queue[k] \in Path /\ IsAccepted(queue[k])
  BY DEF OwnInv, IndInv, Types, QueueOK
<1>4. \A k \in 1..Len(queue) : files[queue[k]] \in Accepted
  BY <1>2, <1>3
<1>5. Waiting \in [1..Len(queue) -> Accepted]
  BY <1>1, <1>4 DEF Waiting
<1>6. Waiting \in Seq(Accepted) /\ Len(Waiting) = Len(queue)
  BY <1>1, <1>5
<1>7. path \in Path => Running \in Accepted
  <2> SUFFICES ASSUME path \in Path PROVE Running \in Accepted
    OBVIOUS
  <2>1. path # Source /\ path # NoFile
    BY Apart
  <2>2. files[path] \in Accepted
    BY <1>2 DEF OwnInv, IndInv, MainOK
  <2>3. pc \in {"run", "flush", "clear", "open"}
    BY <2>1 DEF OwnInv, IndInv, MainOK, Types
  <2>4. pc # "open" => reading \in Accepted
    BY <2>3, Apart DEF OwnInv, IndInv, MainOK, OwnOK
  <2> QED
    BY <2>1, <2>2, <2>4 DEF Running
<1>8. path \notin Path => Running = NoFile
  BY DEF Running, OwnInv, IndInv, Types
<1> QED
  BY <1>1, <1>4, <1>6, <1>7, <1>8

\* Until it is pushed a request writes to a path of its own.
LEMMA WritingStutters ==
    ASSUME DistinctNames, OwnInv, NEW u \in Upload,
           StampPath(u) \/ CreateFile(u) \/ RefuseUpload(u) \/ WriteFile(u)
    PROVE  Waiting' = Waiting /\ Running' = Running /\ processed' = processed
<1>1. /\ UNCHANGED <<queue, path, reading, processed, pc>>
      /\ step[u] \in {"none", "stamped", "created"}
  BY DEF StampPath, CreateFile, RefuseUpload, WriteFile, WorkerGoesTo, main
<1>2. \A p \in Path : IsAccepted(p) => files'[p] = files[p]
  <2> SUFFICES ASSUME NEW p \in Path, IsAccepted(p) PROVE files'[p] = files[p]
    OBVIOUS
  <2>1. PICK v \in Upload : step[v] = "accepted" /\ dest[v] = p
    BY DEF IsAccepted
  <2>2. dest[u] # p
    BY <1>1, <2>1, OwnPaths
  <2> QED
    BY <2>2 DEF StampPath, CreateFile, RefuseUpload, WriteFile, OwnInv, IndInv, Types
<1>3. \A k \in DOMAIN queue : files'[queue[k]] = files[queue[k]]
  <2>1. DOMAIN queue = 1..Len(queue)
    BY HeldAccepted
  <2>2. \A k \in 1..Len(queue) : queue[k] \in Path /\ IsAccepted(queue[k])
    BY DEF OwnInv, IndInv, Types, QueueOK
  <2> QED
    BY <1>2, <2>1, <2>2
<1>4. Waiting' = Waiting
  BY <1>1, <1>3 DEF Waiting
<1>5. path \in {Source, NoFile} \/ files'[path] = files[path]
  BY <1>2 DEF OwnInv, IndInv, MainOK, Types
<1>6. Running' = Running
  BY <1>1, <1>5 DEF Running
<1> QED
  BY <1>1, <1>4, <1>6

LEMMA PushAccepts ==
    ASSUME DistinctNames, OwnInv, NEW u \in Upload, PushPath(u)
    PROVE  Uploads!Accept(u)
<1>1. /\ step[u] = "written" /\ queue' = Append(queue, dest[u])
      /\ UNCHANGED <<files, path, reading, pc, processed>>
  BY DEF PushPath, WorkerGoesTo, main
<1>2. u \notin Accepted /\ u # NoFile
  BY <1>1, Apart DEF Accepted
<1>3. files[dest[u]] = u /\ dest[u] \in Path
  BY <1>1 DEF OwnInv, IndInv, OwnOK, PathsOK
<1>4. Waiting' = Append(Waiting, u)
  <2>1. queue \in Seq(Path)
    BY DEF OwnInv, IndInv, Types
  <2>2. /\ DOMAIN queue' = 1..(Len(queue) + 1)
        /\ \A k \in 1..Len(queue) : queue'[k] = queue[k]
        /\ queue'[Len(queue) + 1] = dest[u]
    BY <1>1, <1>3, <2>1
  <2>3. Waiting' = [k \in 1..(Len(queue) + 1) |-> files[queue'[k]]]
    BY <1>1, <2>2 DEF Waiting
  <2>4. /\ \A k \in 1..Len(queue) : Waiting'[k] = Waiting[k]
        /\ Waiting'[Len(queue) + 1] = u
    <3>1. \A k \in 1..Len(queue) : Waiting[k] = files[queue[k]]
      BY HeldAccepted DEF Waiting
    <3>2. Len(queue) \in Nat
      BY HeldAccepted
    <3> QED
      BY <1>3, <2>2, <2>3, <3>1, <3>2
  <2>5. Waiting \in Seq(Upload) /\ Len(Waiting) = Len(queue) /\ Len(queue) \in Nat
    BY HeldAccepted, SeqMonotonic DEF Accepted
  <2>6. Waiting' \in Seq(Upload) /\ Len(Waiting') = Len(queue) + 1
    <3>1. \A k \in 1..(Len(queue) + 1) : Waiting'[k] \in Upload
      BY <2>4, <2>5
    <3>2. Waiting' \in [1..(Len(queue) + 1) -> Upload]
      BY <2>3, <3>1
    <3> QED
      BY <2>5, <3>2
  <2>7. /\ Append(Waiting, u) \in Seq(Upload) /\ Len(Append(Waiting, u)) = Len(queue) + 1
        /\ \A k \in 1..Len(queue) : Append(Waiting, u)[k] = Waiting[k]
        /\ Append(Waiting, u)[Len(queue) + 1] = u
    BY <2>5
  <2>8. \A k \in 1..Len(Waiting') : Waiting'[k] = Append(Waiting, u)[k]
    BY <2>4, <2>5, <2>6, <2>7
  <2> QED
    BY <2>6, <2>7, <2>8, SeqEqual
<1>5. Running' = Running
  BY <1>1 DEF Running
<1>6. u \notin ToSet(Waiting)
  BY <1>2, HeldAccepted DEF ToSet, Waiting
<1>7. u # Running
  BY <1>2, HeldAccepted
<1>8. u \notin ToSet(processed)
  <2>1. DOMAIN processed = 1..Len(processed)
    BY DEF OwnInv, IndInv, Types
  <2> QED
    BY <1>2, <2>1 DEF ToSet, OwnInv, OwnOK
<1>9. u \notin ToSet(Waiting) \cup {Running} \cup ToSet(processed)
  BY <1>6, <1>7, <1>8
<1> QED
  BY <1>1, <1>4, <1>5, <1>9 DEF Uploads!Accept, Uploads!ToSet, ToSet, Waiting

LEMMA TakeBegins ==
    ASSUME DistinctNames, OwnInv, TakeUpload
    PROVE  Uploads!Begin
<1>1. /\ queue # <<>> /\ queue' = Tail(queue) /\ path' = Head(queue) /\ pc' = "open"
      /\ pc = "check" /\ UNCHANGED <<files, processed>>
  BY DEF TakeUpload, workers
<1>2. queue \in Seq(Path)
  BY DEF OwnInv, IndInv, Types
<1>3. /\ Len(queue) > 0 /\ Head(queue) = queue[1] /\ Head(queue) \in Path
      /\ queue' \in Seq(Path) /\ Len(queue') = Len(queue) - 1
      /\ \A k \in 1..(Len(queue) - 1) : queue'[k] = queue[k + 1]
  BY <1>1, <1>2, HeadTailProperties
<1>4. Running = NoFile
  BY <1>1 DEF Running, OwnInv, IndInv, MainOK
<1>5. Waiting \in Seq(Accepted) /\ Len(Waiting) = Len(queue) /\ Len(queue) \in Nat
  BY HeldAccepted
<1>6. \A k \in 1..Len(queue) : Waiting[k] = files[queue[k]]
  BY HeldAccepted DEF Waiting
<1>7. Waiting # <<>> /\ Head(Waiting) = Waiting[1]
  BY <1>3, <1>5
<1>8. Running' = Head(Waiting)
  <2>1. Head(Waiting) = files[path']
    BY <1>1, <1>3, <1>5, <1>6, <1>7
  <2>2. path' \notin {Source, NoFile}
    BY <1>1, <1>3, Apart
  <2> QED
    BY <1>1, <2>1, <2>2 DEF Running
<1>9. Waiting' = Tail(Waiting)
  <2>1. DOMAIN queue' = 1..(Len(queue) - 1)
    BY <1>3
  <2>2. Waiting' = [k \in 1..(Len(queue) - 1) |-> files[queue'[k]]]
    BY <1>1, <2>1 DEF Waiting
  <2>3. \A k \in 1..(Len(queue) - 1) : Waiting'[k] = Waiting[k + 1]
    BY <1>3, <1>5, <1>6, <2>2
  <2>4. /\ Tail(Waiting) \in Seq(Accepted) /\ Len(Tail(Waiting)) = Len(queue) - 1
        /\ \A k \in 1..Len(Tail(Waiting)) : Tail(Waiting)[k] = Waiting[k + 1]
    BY <1>5, <1>7, HeadTailProperties
  <2>5. Waiting' \in Seq(Accepted) /\ Len(Waiting') = Len(queue) - 1
    <3>1. \A k \in 1..(Len(queue) - 1) : Waiting'[k] \in Accepted
      BY <1>5, <2>3
    <3>2. Waiting' \in [1..(Len(queue) - 1) -> Accepted] /\ Len(queue) - 1 \in Nat
      BY <1>3, <1>5, <2>2, <3>1
    <3> QED
      BY <3>2
  <2>6. \A k \in 1..Len(Waiting') : Waiting'[k] = Tail(Waiting)[k]
    BY <2>3, <2>4, <2>5
  <2> QED
    BY <2>4, <2>5, <2>6, SeqEqual
<1> QED
  BY <1>1, <1>4, <1>7, <1>8, <1>9 DEF Uploads!Begin, Waiting

LEMMA ClearFinishes ==
    ASSUME DistinctNames, OwnInv, ClearCurrent
    PROVE  Uploads!Finish \/ UNCHANGED Uploads!vars
<1>1. /\ pc = "clear" /\ path' = NoFile /\ UNCHANGED <<queue, files>>
      /\ processed' = IF path = Source THEN processed ELSE Append(processed, reading)
  BY DEF ClearCurrent, workers
<1>2. Waiting' = Waiting /\ Running' = NoFile
  BY <1>1 DEF Waiting, Running
<1>3. CASE path = Source
  BY <1>1, <1>2, <1>3 DEF Uploads!vars, Waiting, Running
<1>4. CASE path # Source
  <2>1. path \in Path
    BY <1>1, <1>4 DEF OwnInv, IndInv, MainOK, Types
  <2>2. Running \in Accepted /\ Running = reading
    BY <1>1, <2>1, HeldAccepted, Apart DEF Running
  <2>3. Running # NoFile
    BY <2>2, Apart DEF Accepted
  <2> QED
    BY <1>1, <1>2, <1>4, <2>2, <2>3 DEF Uploads!Finish, Waiting
<1> QED
  BY <1>3, <1>4

LEMMA MainRefines ==
    ASSUME DistinctNames, OwnInv, Main
    PROVE  Uploads!Begin \/ Uploads!Finish \/ UNCHANGED Uploads!vars
<1>1. CASE TakeUpload
  BY <1>1, TakeBegins
<1>2. CASE ClearCurrent
  BY <1>2, ClearFinishes
<1>3. CASE ~TakeUpload /\ ~ClearCurrent
  <2>1. UNCHANGED <<queue, files, processed>>
    BY <1>3 DEF Main, FindNoUpload, BeginStablePass, OpenReader, RunReader, FlushEvents,
                ReadInterface, workers
  <2>2. Running' = Running
    <3>1. CASE OpenReader
      BY <2>1, <3>1 DEF OpenReader, Running, ContentsOf
    <3>2. CASE BeginStablePass
      BY <3>2 DEF BeginStablePass, Running, OwnInv, IndInv, MainOK
    <3>3. CASE FindNoUpload \/ RunReader \/ FlushEvents \/ ReadInterface
      BY <3>3 DEF FindNoUpload, RunReader, FlushEvents, ReadInterface, Running, OwnInv, IndInv,
                  MainOK
    <3> QED
      BY <1>3, <3>1, <3>2, <3>3 DEF Main
  <2> QED
    BY <2>1, <2>2 DEF Uploads!vars
<1> QED
  BY <1>1, <1>2, <1>3

\* Of uploads with different names, the loop takes each accepted one once, with its
\* own contents, one at a time and in the order of their acceptance.
THEOREM ImplementsUploadsCorrect == ASSUME DistinctNames PROVE Spec => ImplementsUploads
<1>1. Init => Uploads!Init
  <2> SUFFICES ASSUME Init PROVE Uploads!Init
    OBVIOUS
  <2>1. Waiting = <<>>
    BY DEF Init, Waiting
  <2> QED
    BY <2>1 DEF Init, Uploads!Init, Waiting, Running
<1>2. OwnInv /\ [Next]_vars => [Uploads!Next]_Uploads!vars
  <2> SUFFICES ASSUME OwnInv, [Next]_vars PROVE [Uploads!Next]_Uploads!vars
    OBVIOUS
  <2>1. CASE Main
    BY <2>1, MainRefines DEF Uploads!Next
  <2>2. ASSUME NEW u \in Upload, Worker(u) PROVE [Uploads!Next]_Uploads!vars
    <3>1. CASE PushPath(u)
      BY <3>1, PushAccepts DEF Uploads!Next
    <3>2. CASE ~PushPath(u)
      BY <2>2, <3>2, WritingStutters DEF Worker, Uploads!vars, Waiting
    <3> QED
      BY <3>1, <3>2
  <2>3. CASE UNCHANGED vars
    BY <2>3 DEF vars, workers, main, Uploads!vars, Running
  <2> QED
    BY <2>1, <2>2, <2>3 DEF Next
<1> QED
  BY <1>1, <1>2, OwnInductive, PTL DEF Spec, ImplementsUploads, Uploads!Spec
=============================================================================
