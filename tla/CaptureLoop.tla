----------------------------- MODULE CaptureLoop -----------------------------
(***************************************************************************)
(* The capture loop of main over the queue of uploaded files, and the REST *)
(* workers that fill the queue.  Every access of a thread to the queue and *)
(* to current_pcap is one critical section of PcapQueueManager::mutex, and *)
(* so one action; between its critical sections a thread is interleaved    *)
(* with the others anywhere.                                               *)
(*                                                                         *)
(* main chooses its mode once: an interface is read for ever, a capture    *)
(* file is read again and again, and uploads go in between its passes.     *)
(* The third mode of the source, idle and waiting for uploads, is reached  *)
(* only with an empty PCAP_FILE in the branch where it is not empty, so it *)
(* is dead code and not modelled.  Signals are left out.                   *)
(***************************************************************************)
EXTENDS Naturals, FiniteSets, Sequences, SequencesExt

CONSTANTS
    Upload,         \* upload requests, and the contents each one carries
    Name,           \* file names
    NameOf,         \* the file name of each request
    Millis,         \* readings of the wall clock, which can be set back
    Source,         \* what the configuration names, an interface or a capture
                    \* file (stable_pcap), and its contents
    NoFile,         \* the empty path, and a file that does not exist
    Empty           \* the contents of a file that was only created

ASSUME LoopAssumption ==
    /\ IsFiniteSet(Upload)
    /\ NameOf \in [Upload -> Name]
    /\ Source \notin Upload \cup (Millis \X Name)
    /\ NoFile \notin Upload \cup (Millis \X Name) \cup {Source, Empty}
    /\ Empty \notin Upload \cup {Source}

VARIABLES
    step,           \* how far the REST worker of a request is
    dest,           \* its dest_path
    files,          \* the contents of /tmp/uploads
    queue,          \* pcap_queue.queue
    current,        \* pcap_queue.current_pcap
    pc,             \* where main is
    path,           \* its priority_file, or the stable file
    reading,        \* the contents its reader got at the open
    unstored,       \* whose events wait in the buffer of the tracker
    processed,      \* history: the contents of the uploads taken, in order
    overtaken       \* history: stable passes begun while an upload waited,
                    \* counted up to OvertakenCap

workers == <<step, dest, files>>
main    == <<pc, path, reading, unstored>>
vars    == <<workers, queue, current, main, processed, overtaken>>

Path == Millis \X Name

OvertakenCap == 2

TypeOK ==
    /\ step \in [Upload -> {"none", "stamped", "created", "written", "accepted", "refused"}]
    /\ dest \in [Upload -> Path \cup {NoFile}]
    /\ files \in [Path -> Upload \cup {Empty, NoFile}]
    /\ queue \in Seq(Path) /\ Len(queue) <= Cardinality(Upload)
    /\ current \in Path \cup {Source, NoFile}
    /\ pc \in {"live", "check", "setStable", "open", "run", "flush", "clear"}
    /\ path \in Path \cup {Source, NoFile}
    /\ reading \in Upload \cup {Source, Empty, NoFile}
    /\ unstored \subseteq Upload \cup {Source, Empty}
    /\ processed \in Seq(Upload \cup {Empty}) /\ Len(processed) <= Cardinality(Upload)
    /\ overtaken \in [Upload -> 0..OvertakenCap]

Init ==
    /\ step = [u \in Upload |-> "none"]
    /\ dest = [u \in Upload |-> NoFile]
    /\ files = [p \in Path |-> NoFile]
    /\ queue = <<>> /\ current = NoFile
    /\ pc \in {"live", "check"}       \* PCAP_FILE is empty, or is not
    /\ path = NoFile /\ reading = NoFile /\ unstored = {}
    /\ processed = <<>>
    /\ overtaken = [u \in Upload |-> 0]
-----------------------------------------------------------------------------
(* The handler of POST /api/pcap/upload.                                   *)

WorkerGoesTo(u, from, to) ==
    /\ step[u] = from
    /\ step' = [step EXCEPT ![u] = to]

StampPath(u) ==
    /\ WorkerGoesTo(u, "none", "stamped")
    /\ \E ms \in Millis : dest' = [dest EXCEPT ![u] = <<ms, NameOf[u]>>]
    /\ UNCHANGED <<files, queue, current, main, processed, overtaken>>

\* std::ofstream creates the file or truncates the one that is there.
CreateFile(u) ==
    /\ WorkerGoesTo(u, "stamped", "created")
    /\ files' = [files EXCEPT ![dest[u]] = Empty]
    /\ UNCHANGED <<dest, queue, current, main, processed, overtaken>>

\* The file cannot be created: status 500.
RefuseUpload(u) ==
    /\ WorkerGoesTo(u, "stamped", "refused")
    /\ UNCHANGED <<dest, files, queue, current, main, processed, overtaken>>

\* write and close.
WriteFile(u) ==
    /\ WorkerGoesTo(u, "created", "written")
    /\ files' = [files EXCEPT ![dest[u]] = u]
    /\ UNCHANGED <<dest, queue, current, main, processed, overtaken>>

\* PcapQueueManager::push, then the answer "ok".
PushPath(u) ==
    /\ WorkerGoesTo(u, "written", "accepted")
    /\ queue' = Append(queue, dest[u])
    /\ UNCHANGED <<dest, files, current, main, processed, overtaken>>
-----------------------------------------------------------------------------
(* main, file mode.                                                        *)

\* Defect: the newest path is taken.
TakeNewest ==
    /\ pc = "check" /\ queue # <<>>
    /\ queue' = Front(queue)
    /\ path' = Last(queue) /\ current' = Last(queue)
    /\ pc' = "open"
    /\ UNCHANGED <<workers, reading, unstored, processed, overtaken>>

TakeUpload ==
    /\ pc = "check" /\ queue # <<>>
    /\ queue' = Tail(queue)
    /\ path' = Head(queue) /\ current' = Head(queue)
    /\ pc' = "open"
    /\ UNCHANGED <<workers, reading, unstored, processed, overtaken>>

FindNoUpload ==
    /\ pc = "check" /\ queue = <<>>
    /\ pc' = "setStable"
    /\ UNCHANGED <<workers, queue, current, path, reading, unstored, processed, overtaken>>

\* An upload may have been pushed since the queue was found empty.
BeginStablePass ==
    /\ pc = "setStable"
    /\ path' = Source /\ current' = Source
    /\ pc' = "open"
    /\ overtaken' = [u \in Upload |->
                        IF dest[u] \in ToSet(queue) /\ overtaken[u] < OvertakenCap
                          THEN overtaken[u] + 1 ELSE overtaken[u]]
    /\ UNCHANGED <<workers, queue, reading, unstored, processed>>

ContentsOf(p) == IF p = Source THEN Source ELSE files[p]

\* Defect: a stable file that cannot be opened is tried again, queue or no queue.
OpenOrRetry ==
    /\ pc = "open"
    /\ reading' = ContentsOf(path)
    /\ \/ pc' = "run" /\ reading' # Empty
       \/ pc' = IF path = Source THEN "setStable" ELSE "clear"
    /\ UNCHANGED <<workers, queue, current, path, unstored, processed, overtaken>>

\* The constructor of PcapReader throws for a file that is missing or is no
\* capture; an upload of that kind is given up. set_filter cannot throw, and
\* start cannot throw once the file is open.
OpenReader ==
    /\ pc = "open"
    /\ reading' = ContentsOf(path)
    /\ \/ pc' = "run" /\ reading' # Empty
       \/ pc' = IF path = Source THEN "flush" ELSE "clear"
    /\ UNCHANGED <<workers, queue, current, path, unstored, processed, overtaken>>

\* Defect: the events of an upload are left to the next stable pass.
RunReaderNoFlush ==
    /\ pc = "run"
    /\ unstored' \in {unstored, unstored \cup {reading}}
    /\ pc' = IF path = Source THEN "flush" ELSE "clear"
    /\ UNCHANGED <<workers, queue, current, path, reading, processed, overtaken>>

\* start(callback): one pass over the file. The tracker may have logged
\* events that it still holds.
RunReader ==
    /\ pc = "run"
    /\ unstored' \in {unstored, unstored \cup {reading}}
    /\ pc' = "flush"
    /\ UNCHANGED <<workers, queue, current, path, reading, processed, overtaken>>

\* flush_events; the handler of a failed stable pass flushes, too, and sleeps.
FlushEvents ==
    /\ pc = "flush"
    /\ unstored' = {}
    /\ pc' = "clear"
    /\ UNCHANGED <<workers, queue, current, path, reading, processed, overtaken>>

\* Defect: the loop goes on with the stable file instead of the queue.
ClearAndRepeat ==
    /\ pc = "clear"
    /\ current' = NoFile /\ path' = NoFile /\ reading' = NoFile
    /\ pc' = IF path = Source THEN "check" ELSE "setStable"
    /\ processed' = IF path = Source THEN processed ELSE Append(processed, reading)
    /\ UNCHANGED <<workers, queue, unstored, overtaken>>

ClearCurrent ==
    /\ pc = "clear"
    /\ current' = NoFile /\ path' = NoFile /\ reading' = NoFile
    /\ pc' = "check"
    /\ processed' = IF path = Source THEN processed ELSE Append(processed, reading)
    /\ UNCHANGED <<workers, queue, unstored, overtaken>>

\* main, live mode: start(callback) does not return. The queue is not looked at.
ReadInterface ==
    /\ pc = "live"
    /\ unstored' \in {{}, {Source}}
    /\ UNCHANGED <<workers, queue, current, pc, path, reading, processed, overtaken>>

Worker(u) ==
    StampPath(u) \/ CreateFile(u) \/ RefuseUpload(u) \/ WriteFile(u) \/ PushPath(u)

Main ==
    \/ TakeUpload \/ FindNoUpload \/ BeginStablePass \/ OpenReader
    \/ RunReader \/ FlushEvents \/ ClearCurrent \/ ReadInterface

Next == Main \/ \E u \in Upload : Worker(u)

Spec == Init /\ [][Next]_vars

\* The main thread keeps running: its capture files are finite and the only
\* wait is a sleep of two seconds.
FairSpec == Spec /\ WF_vars(Main)
-----------------------------------------------------------------------------
(* Properties.                                                             *)

\* The reader never opens a file that an upload has created but not written.
ReadsWholeFile == reading # Empty

\* Between two files no event waits in the buffer: an upload that is reported
\* as finished has its events in the database, unless a write failed
\* (flush_events before current_pcap is cleared).
StoredBetweenFiles == pc # "live" /\ current = NoFile => unstored = {}

\* Uploads have priority: once its path is queued, at most one stable pass
\* begins before an upload is processed, the one whose check of the queue came
\* just before the push.
OvertakenOnce == \A u \in Upload : overtaken[u] <= 1

\* In file mode an accepted upload is processed in the end, also when the stable
\* file can never be opened.
UploadProcessed ==
    \A u \in Upload : pc # "live" /\ step[u] = "accepted" ~> u \in ToSet(processed)

\* The loop, the workers and the files implement the queue of uploads, when no
\* two uploads get the same path.
Running == IF path \in {Source, NoFile} THEN NoFile
           ELSE IF pc = "open" THEN files[path] ELSE reading
Uploads == INSTANCE UploadQueue
             WITH waiting <- [k \in DOMAIN queue |-> files[queue[k]]],
                  running <- Running, done <- processed
ImplementsUploads == Uploads!Spec

\* rest_server.cpp:404: the timestamp keeps the names of uploads apart, so an
\* upload that is read is read with its own contents. Two requests for one
\* name in the same millisecond share a path: see the README.
OwnContents ==
    \A u \in Upload : step[u] \in {"written", "accepted"} /\ u \notin ToSet(processed)
        => files[dest[u]] = u

\* runtime_flow_and_demo.md:138: an upload is put into the queue and processed at
\* once, which is "very suitable for a live demo". In live mode it never is.
UploadProcessedInEveryMode ==
    \A u \in Upload : step[u] = "accepted" ~> u \in ToSet(processed)

\* rest_server.cpp:371-374, GET /api/pcap/status.
StatusMode ==
    IF current = NoFile THEN "idle"
    ELSE IF queue = <<>> THEN "stable_loop" ELSE "priority"

\* runtime_flow_and_demo.md:190: the status tells the processing mode. It is
\* computed from the files that still wait, not from the one that is read.
StatusTruthful ==
    StatusMode = IF current = NoFile THEN "idle"
                 ELSE IF current = Source THEN "stable_loop" ELSE "priority"
=============================================================================
