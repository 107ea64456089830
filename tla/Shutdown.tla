------------------------------ MODULE Shutdown ------------------------------
(***************************************************************************)
(* From the start of the REST server to the end of the process: main, the  *)
(* signal handler that interrupts it, RestServer::start and stop, the      *)
(* thread that listens and the workers that serve connections.             *)
(*                                                                         *)
(* The handler runs on the main thread, between any two of its steps:      *)
(* `frames' is the stack of stop sequences begun there, and main itself    *)
(* goes on only when it is empty.  The destructor of g_api_server calls    *)
(* RestServer::stop, too.  What main reads and where it puts it belongs to *)
(* CaptureLoop and AssetTracker.                                           *)
(***************************************************************************)
EXTENDS Naturals, Sequences

CONSTANTS
    Worker,         \* the threads of the pool of the HTTP server
    KeepAlive,      \* keep_alive_max_count_
    SignalPoints,   \* where in main a signal may arrive
    ReadyFirst,     \* signals arrive once the server accepts or has given up
    Nested,         \* another signal may arrive while a handler runs
    MaxSignals      \* bound: how many signals arrive

ASSUME ShutdownAssumption ==
    /\ KeepAlive \in Nat \ {0} /\ MaxSignals \in Nat
    /\ ReadyFirst \in BOOLEAN /\ Nested \in BOOLEAN
    /\ Worker \cap {"none", "main"} = {}

VARIABLES
    pc,             \* where main is
    live,           \* PCAP_FILE is empty
    frames,         \* the stop sequences on the main thread, innermost first
    signals,        \* how many signals have arrived
    reader,         \* g_reader is set
    breakLoop,      \* pcap_breakloop was called on its handle
    gRunning,       \* g_running
    gServer,        \* g_api_server is set
    running,        \* RestServer::running_
    thread,         \* RestServer::thread_: "empty" or "joinable"
    api,            \* where the listening thread is
    sock,           \* Server::svr_sock_ is open
    conn,           \* what each worker does
    left,           \* how many requests its connection may still bring
    mutex,          \* who holds pcap_queue.mutex
    queueAlive,     \* pcap_queue exists
    buffered        \* the tracker holds events that it has not written

process == <<pc, live, buffered, queueAlive>>
globals == <<reader, breakLoop, gRunning, gServer>>
server  == <<running, thread, api, sock>>
pool    == <<conn, left>>
vars    == <<process, frames, signals, globals, server, pool, mutex>>

MainPc  == {"make", "start", "spawn", "assign", "check", "locked", "open", "run",
            "flush", "clear", "clearing", "leave", "static"}
EndPc   == {"exited", "terminated", "undefined"}
FramePc == {"flag", "reader", "server", "check", "stop", "join", "joining", "clear"}

TypeOK ==
    /\ pc \in MainPc \cup EndPc /\ live \in BOOLEAN
    /\ frames \in Seq(FramePc) /\ signals \in 0..MaxSignals
    /\ {reader, breakLoop, gRunning, gServer, running, sock, queueAlive, buffered} \subseteq BOOLEAN
    /\ thread \in {"empty", "joinable"}
    /\ api \in {"unborn", "binding", "bound", "accepting", "draining", "done"}
    /\ conn \in [Worker -> {"free", "open", "plain", "wants", "holds"}]
    /\ left \in [Worker -> 0..KeepAlive]
    /\ mutex \in Worker \cup {"none", "main"}

Init ==
    /\ pc = "make" /\ live \in BOOLEAN /\ frames = <<>> /\ signals = 0
    /\ reader = FALSE /\ breakLoop = FALSE /\ gRunning = TRUE /\ gServer = FALSE
    /\ running = FALSE /\ thread = "empty" /\ api = "unborn" /\ sock = FALSE
    /\ conn = [w \in Worker |-> "free"] /\ left = [w \in Worker |-> 0]
    /\ mutex = "none" /\ queueAlive = TRUE /\ buffered = FALSE

IsRunning == api \in {"accepting", "draining"}      \* Server::is_running_
Alive     == pc \notin EndPc
-----------------------------------------------------------------------------
(* main.                                                                   *)

MainGoes(from, to) ==
    /\ pc = from /\ frames = <<>>
    /\ pc' = to
    /\ UNCHANGED <<live, frames, signals>>

MakeServer ==
    /\ MainGoes("make", "start")
    /\ gServer' = TRUE
    /\ UNCHANGED <<reader, breakLoop, gRunning, server, pool, mutex, queueAlive, buffered>>

\* RestServer::start in three steps: the flag, the thread, thread_.
MarkRunning ==
    /\ MainGoes("start", "spawn")
    /\ running' = TRUE
    /\ UNCHANGED <<globals, thread, api, sock, pool, mutex, queueAlive, buffered>>

SpawnThread ==
    /\ MainGoes("spawn", "assign")
    /\ api' = "binding"
    /\ UNCHANGED <<globals, running, thread, sock, pool, mutex, queueAlive, buffered>>

AssignThread ==
    /\ MainGoes("assign", IF live THEN "open" ELSE "check")
    /\ thread' = "joinable"
    /\ UNCHANGED <<globals, running, api, sock, pool, mutex, queueAlive, buffered>>

\* while (g_running), and the lock at the top of the loop.
BeginPass ==
    /\ MainGoes("check", "locked")
    /\ gRunning /\ mutex = "none"
    /\ mutex' = "main"
    /\ UNCHANGED <<globals, server, pool, queueAlive, buffered>>

EndLoop ==
    /\ MainGoes("check", "leave")
    /\ ~gRunning
    /\ UNCHANGED <<globals, server, pool, mutex, queueAlive, buffered>>

Unlock ==
    /\ MainGoes("locked", "open")
    /\ mutex' = "none"
    /\ UNCHANGED <<globals, server, pool, queueAlive, buffered>>

\* A new handle, whose break flag is clear.
OpenReader ==
    /\ MainGoes("open", "run")
    /\ reader' = TRUE /\ breakLoop' = FALSE
    /\ UNCHANGED <<gRunning, gServer, server, pool, mutex, queueAlive, buffered>>

\* A file that cannot be opened ends its pass, and the handler of a stable pass
\* flushes; g_reader keeps the reader before. An interface that cannot be opened
\* ends the try block of main.
OpenFails ==
    /\ MainGoes("open", IF live THEN "leave" ELSE "flush")
    /\ UNCHANGED <<globals, server, pool, mutex, queueAlive, buffered>>

\* pcap_loop: the callback may log events. The flag ends the loop, and so does
\* the end of a file, or an interface that goes down.
ReadPackets ==
    /\ MainGoes("run", "run")
    /\ ~breakLoop
    /\ buffered' \in BOOLEAN
    /\ UNCHANGED <<globals, server, pool, mutex, queueAlive>>

\* Defect: leaving without a last flush.
EndCaptureUnflushed ==
    /\ MainGoes("run", IF live THEN "leave" ELSE "clear")
    /\ UNCHANGED <<globals, server, pool, mutex, queueAlive, buffered>>

EndCapture ==
    /\ MainGoes("run", "flush")
    /\ UNCHANGED <<globals, server, pool, mutex, queueAlive, buffered>>

FlushEvents ==
    /\ MainGoes("flush", IF live THEN "leave" ELSE "clear")
    /\ buffered' = FALSE
    /\ UNCHANGED <<globals, server, pool, mutex, queueAlive>>

LockToClear ==
    /\ MainGoes("clear", "clearing")
    /\ mutex = "none"
    /\ mutex' = "main"
    /\ UNCHANGED <<globals, server, pool, queueAlive, buffered>>

ClearCurrent ==
    /\ MainGoes("clearing", "check")
    /\ mutex' = "none"
    /\ UNCHANGED <<globals, server, pool, queueAlive, buffered>>

\* The end of the try block destroys the queue and the tracker; then main
\* returns and ~RestServer calls stop.
LeaveTry ==
    /\ pc = "leave" /\ frames = <<>>
    /\ pc' = "static" /\ queueAlive' = FALSE
    /\ frames' = <<"check">>
    /\ UNCHANGED <<live, signals, buffered, globals, server, pool, mutex>>

\* ~thread: a thread that is still joinable ends the process.
DestroyServer ==
    /\ MainGoes("static", IF thread = "joinable" THEN "terminated" ELSE "exited")
    /\ UNCHANGED <<globals, server, pool, mutex, queueAlive, buffered>>

Main ==
    \/ MakeServer \/ MarkRunning \/ SpawnThread \/ AssignThread
    \/ BeginPass \/ EndLoop \/ Unlock \/ OpenReader \/ OpenFails
    \/ ReadPackets \/ EndCapture \/ FlushEvents \/ LockToClear \/ ClearCurrent
    \/ LeaveTry \/ DestroyServer
-----------------------------------------------------------------------------
(* Signals, signal_handler and RestServer::stop.                           *)

Signal ==
    /\ pc \in SignalPoints /\ signals < MaxSignals
    /\ Nested \/ frames = <<>>
    /\ ReadyFirst => api \in {"accepting", "draining", "done"}
    /\ signals' = signals + 1
    /\ frames' = <<"flag">> \o frames
    /\ UNCHANGED <<process, globals, server, pool, mutex>>

FrameAt(f) == Alive /\ frames # <<>> /\ Head(frames) = f
Go(f)      == frames' = <<f>> \o Tail(frames)
PopFrame   == frames' = Tail(frames)

ClearRunFlag ==
    /\ FrameAt("flag") /\ Go("reader")
    /\ gRunning' = FALSE
    /\ UNCHANGED <<process, signals, reader, breakLoop, gServer, server, pool, mutex>>

\* Defect: the loop flag is cleared, but the running pcap_loop is not broken.
StopReaderFlagOnly ==
    /\ FrameAt("reader") /\ Go("server")
    /\ UNCHANGED <<process, signals, globals, server, pool, mutex>>

\* PcapReader::stop, when there is a reader.
StopReader ==
    /\ FrameAt("reader") /\ Go("server")
    /\ breakLoop' = (breakLoop \/ reader)
    /\ UNCHANGED <<process, signals, reader, gRunning, gServer, server, pool, mutex>>

FindServer ==
    /\ FrameAt("server")
    /\ IF gServer THEN Go("check") ELSE PopFrame
    /\ UNCHANGED <<process, signals, globals, server, pool, mutex>>

StopIfRunning ==
    /\ FrameAt("check")
    /\ IF running THEN Go("stop") ELSE PopFrame
    /\ UNCHANGED <<process, signals, globals, server, pool, mutex>>

\* Server::stop does nothing to a server that does not run yet.
CloseSocket ==
    /\ FrameAt("stop") /\ Go("join")
    /\ sock' = (sock /\ ~IsRunning)
    /\ UNCHANGED <<process, signals, globals, running, thread, api, pool, mutex>>

\* A handler that interrupts the join of another one: pthread_join fails, and
\* join throws out of the handler.
JoinThread ==
    /\ FrameAt("join")
    /\ IF \E k \in 2..Len(frames) : frames[k] = "joining"
         THEN pc' = "undefined" /\ UNCHANGED frames
         ELSE Go(IF thread = "joinable" THEN "joining" ELSE "clear") /\ UNCHANGED pc
    /\ UNCHANGED <<live, buffered, queueAlive, signals, globals, server, pool, mutex>>

Joined ==
    /\ FrameAt("joining") /\ Go("clear")
    /\ api = "done"
    /\ thread' = "empty"
    /\ UNCHANGED <<process, signals, globals, running, api, sock, pool, mutex>>

ClearRunning ==
    /\ FrameAt("clear") /\ PopFrame
    /\ running' = FALSE
    /\ UNCHANGED <<process, signals, globals, thread, api, sock, pool, mutex>>

Handler ==
    \/ ClearRunFlag \/ StopReader \/ FindServer \/ StopIfRunning
    \/ CloseSocket \/ JoinThread \/ Joined \/ ClearRunning
-----------------------------------------------------------------------------
(* The listening thread: Server::listen.                                   *)

ApiGoes(from, to) ==
    /\ Alive /\ api = from
    /\ api' = to
    /\ UNCHANGED <<process, frames, signals, globals, running, thread, pool, mutex>>

\* The port may be taken: the thread ends, and nobody is told.
Bind ==
    \/ ApiGoes("binding", "bound") /\ sock' = TRUE
    \/ ApiGoes("binding", "done") /\ UNCHANGED sock

Listen == ApiGoes("bound", "accepting") /\ UNCHANGED sock

StopAccepting ==
    /\ ~sock
    /\ ApiGoes("accepting", "draining") /\ UNCHANGED sock

\* Defect: the pool is not waited for.
LeaveWorkers == ApiGoes("draining", "done") /\ UNCHANGED sock

\* task_queue->shutdown joins the workers.
EndListen ==
    /\ \A w \in Worker : conn[w] = "free"
    /\ ApiGoes("draining", "done") /\ UNCHANGED sock

Api == Bind \/ Listen \/ StopAccepting \/ EndListen
-----------------------------------------------------------------------------
(* A worker: process_and_close_socket.                                     *)

WorkerGoes(w, from, to) ==
    /\ Alive /\ conn[w] = from
    /\ conn' = [conn EXCEPT ![w] = to]
    /\ UNCHANGED <<process, frames, signals, globals, server>>

AcceptConn(w) ==
    /\ api = "accepting" /\ sock
    /\ WorkerGoes(w, "free", "open")
    /\ left' = [left EXCEPT ![w] = KeepAlive]
    /\ UNCHANGED mutex

\* A request that is there at once is served even after stop. Requests for the
\* queue and its status, and uploads, want the mutex; the others do not.
NextRequest(w) ==
    /\ left[w] > 0
    /\ \E kind \in {"plain", "wants"} : WorkerGoes(w, "open", kind)
    /\ left' = [left EXCEPT ![w] = @ - 1]
    /\ UNCHANGED mutex

\* The count is used up, the client is silent for too long, or the server
\* socket is closed.
CloseConn(w) == WorkerGoes(w, "open", "free") /\ UNCHANGED <<left, mutex>>

LockQueue(w) ==
    /\ mutex = "none"
    /\ WorkerGoes(w, "wants", "holds")
    /\ mutex' = w
    /\ UNCHANGED left

AnswerPlain(w) == WorkerGoes(w, "plain", "open") /\ UNCHANGED <<left, mutex>>

AnswerQueue(w) ==
    /\ WorkerGoes(w, "holds", "open")
    /\ mutex' = "none"
    /\ UNCHANGED left

Serve(w) ==
    \/ AcceptConn(w) \/ NextRequest(w) \/ CloseConn(w)
    \/ LockQueue(w) \/ AnswerPlain(w) \/ AnswerQueue(w)
-----------------------------------------------------------------------------
Ended == pc \in EndPc /\ UNCHANGED vars

Next == Main \/ Signal \/ Handler \/ Api \/ (\E w \in Worker : Serve(w)) \/ Ended

Spec == Init /\ [][Next]_vars

\* Every thread that can go on does, a file comes to its end, and so does a
\* connection (there is a bound on its requests and on its silence). Nothing
\* forces a signal to arrive or a connection to be made.
Fairness ==
    /\ WF_vars(Main) /\ WF_vars(~live /\ EndCapture)
    /\ WF_vars(Handler) /\ WF_vars(Api)
    /\ \A w \in Worker : /\ WF_vars(CloseConn(w)) /\ WF_vars(LockQueue(w))
                         /\ WF_vars(AnswerPlain(w)) /\ WF_vars(AnswerQueue(w))

FairSpec == Spec /\ Fairness
-----------------------------------------------------------------------------
(* Properties.                                                             *)

\* When a signal ends the process, a request works on the upload queue only while the
\* queue exists: the queue is a local of main, the workers belong to a global server
\* (main.cpp:117-122). A live capture that ends by itself ends main with the server
\* running, and then a request may find the queue gone: see the README.
QueueOutlivesRequests ==
    signals > 0 => \A w \in Worker : conn[w] \in {"wants", "holds"} => queueAlive

\* When the process ends in order, no event is left in the buffer of the
\* tracker (main.cpp:217).
FlushedBeforeExit == pc = "exited" => ~buffered

\* The process never ends with the listening thread still joinable
\* (RestServer::stop before the members are destroyed).
EndsInOrder == pc # "terminated"

\* The process comes down in order: the workers before the queue, the events before
\* the process, the threads before the server they belong to.
ExitsInOrder == TypeOK /\ QueueOutlivesRequests /\ FlushedBeforeExit /\ EndsInOrder

\* RestServer::stop returns only when no worker is at work any more, whatever
\* they were doing when it was called (listen waits for its pool).
StopIsComplete == frames # <<>> /\ Head(frames) = "clear" => \A w \in Worker : conn[w] = "free"

\* A signal ends the process in the end.
SignalEnds == signals > 0 ~> pc = "exited"

\* main.cpp:36: the handler can stop the reader.
SignalStopsReader == signals > 0 ~> pc \notin {"open", "run"}

\* main.cpp:36: the handler can stop the API.
SignalStopsApi == signals > 0 ~> api = "done"

\* httplib.h:11462, assertion: the socket of a server that is stopped is open.
StopsOpenSocket == frames # <<>> /\ Head(frames) = "stop" /\ IsRunning => sock
=============================================================================
