---------------------------- MODULE Process_proofs ----------------------------
(***************************************************************************)
(* Proofs about Process: the shutdown, for any pool of workers and any     *)
(* number of signals that may arrive wherever main has a server to stop,   *)
(* one inside another, and the configuration, for any keys, values and     *)
(* lines of .env.                                                          *)
(***************************************************************************)
EXTENDS Process, SequenceTheorems, TLAPS

\* The steps of main before its server is up.
Starting == {"make", "start", "spawn", "assign"}

\* The thread that stop is to join is there when a signal arrives.
AfterStart == SignalPoints \subseteq MainPc \ Starting

\* The destructor is not interrupted in its stop, either.
NotInDestructor == Nested => "static" \notin SignalPoints

Busy(w) == conn[w] # "free"
-----------------------------------------------------------------------------
(* The stack of stop sequences.                                            *)

LEMMA PushType ==
    ASSUME frames \in Seq(FramePc), NEW f \in FramePc
    PROVE  /\ <<f>> \o frames \in Seq(FramePc) /\ <<f>> \o frames # <<>>
           /\ \A k \in 1..Len(<<f>> \o frames) :
                 (<<f>> \o frames)[k] # f => \E j \in 1..Len(frames) : frames[j] = (<<f>> \o frames)[k]
<1>1. <<f>> \in Seq(FramePc) /\ Len(<<f>>) = 1 /\ <<f>>[1] = f
  OBVIOUS
<1>2. /\ <<f>> \o frames \in Seq(FramePc)
      /\ Len(<<f>> \o frames) = 1 + Len(frames)
      /\ \A k \in 1..(1 + Len(frames)) :
            (<<f>> \o frames)[k] = IF k <= 1 THEN <<f>>[k] ELSE frames[k - 1]
  BY <1>1, ConcatProperties
<1>3. Len(frames) \in Nat
  BY LenProperties
<1>4. \A k \in 1..Len(<<f>> \o frames) :
         (<<f>> \o frames)[k] # f => \E j \in 1..Len(frames) : frames[j] = (<<f>> \o frames)[k]
  <2> SUFFICES ASSUME NEW k \in 1..(1 + Len(frames)), (<<f>> \o frames)[k] # f
               PROVE  \E j \in 1..Len(frames) : frames[j] = (<<f>> \o frames)[k]
    BY <1>2
  <2>1. k # 1
    BY <1>1, <1>2, <1>3
  <2>2. k - 1 \in 1..Len(frames) /\ (<<f>> \o frames)[k] = frames[k - 1]
    BY <2>1, <1>2, <1>3
  <2> QED
    BY <2>2
<1> QED
  BY <1>2, <1>3, <1>4

LEMMA TailType ==
    ASSUME frames \in Seq(FramePc), frames # <<>>
    PROVE  /\ Tail(frames) \in Seq(FramePc) /\ Head(frames) = frames[1] /\ 1 \in 1..Len(frames)
           /\ \A k \in 1..Len(Tail(frames)) : \E j \in 1..Len(frames) : frames[j] = Tail(frames)[k]
<1>1. /\ Tail(frames) \in Seq(FramePc) /\ Len(Tail(frames)) = Len(frames) - 1
      /\ \A k \in 1..Len(Tail(frames)) : Tail(frames)[k] = frames[k + 1]
      /\ Head(frames) = frames[1]
  BY HeadTailProperties
<1>2. Len(frames) \in Nat /\ Len(frames) # 0
  BY LenProperties, EmptySeq
<1>3. \A k \in 1..Len(Tail(frames)) : k + 1 \in 1..Len(frames) /\ frames[k + 1] = Tail(frames)[k]
  BY <1>1, <1>2
<1> QED
  BY <1>1, <1>2, <1>3

\* The innermost sequence goes on: the others stay.
LEMMA GoType ==
    ASSUME frames \in Seq(FramePc), frames # <<>>, NEW f \in FramePc
    PROVE  /\ <<f>> \o Tail(frames) \in Seq(FramePc) /\ <<f>> \o Tail(frames) # <<>>
           /\ \A k \in 1..Len(<<f>> \o Tail(frames)) :
                 (<<f>> \o Tail(frames))[k] # f
                    => \E j \in 1..Len(frames) : frames[j] = (<<f>> \o Tail(frames))[k]
<1> DEFINE rest == Tail(frames)
<1>1. rest \in Seq(FramePc)
  BY TailType
<1>2. <<f>> \in Seq(FramePc) /\ Len(<<f>>) = 1 /\ <<f>>[1] = f
  OBVIOUS
<1>3. /\ <<f>> \o rest \in Seq(FramePc) /\ Len(<<f>> \o rest) = 1 + Len(rest)
      /\ \A k \in 1..(1 + Len(rest)) : (<<f>> \o rest)[k] = IF k <= 1 THEN <<f>>[k] ELSE rest[k - 1]
  BY <1>1, <1>2, ConcatProperties
<1>4. Len(rest) \in Nat
  BY <1>1, LenProperties
<1>5. ASSUME NEW k \in 1..(1 + Len(rest)), (<<f>> \o rest)[k] # f
      PROVE  \E j \in 1..Len(frames) : frames[j] = (<<f>> \o rest)[k]
  <2>1. k # 1
    BY <1>2, <1>3, <1>4, <1>5
  <2>2. k - 1 \in 1..Len(rest) /\ (<<f>> \o rest)[k] = rest[k - 1]
    BY <2>1, <1>3, <1>4
  <2> QED
    BY <2>2, TailType
<1> QED
  BY <1>3, <1>4, <1>5
-----------------------------------------------------------------------------
(* Types, the buffer and the queue, wherever signals arrive.               *)

\* Events wait only while packets are read, and the queue goes last.
MainInv ==
    /\ TypeOK
    /\ buffered => pc \in {"run", "flush", "undefined"}
    /\ ~queueAlive => pc \in {"static"} \cup EndPc

LEMMA MainInit == ShutdownAssumption /\ Init => MainInv
<1> SUFFICES ASSUME ShutdownAssumption, Init PROVE MainInv
  OBVIOUS
<1>1. frames \in Seq(FramePc)
  BY DEF Init
<1>2. left \in [Worker -> 0..KeepAlive] /\ signals \in 0..MaxSignals
  BY DEF Init, ShutdownAssumption
<1>3. conn \in [Worker -> {"free", "open", "plain", "wants", "holds"}]
  BY DEF Init
<1>4. {reader, breakLoop, gRunning, gServer, running, sock, queueAlive, buffered} \subseteq BOOLEAN
  BY DEF Init
<1> QED
  BY <1>1, <1>2, <1>3, <1>4, Zenon DEF Init, MainInv, TypeOK, MainPc

LEMMA MainStep ==
    ASSUME ShutdownAssumption, MainInv, Main
    PROVE  MainInv'
<1> USE DEF MainInv, TypeOK, MainGoes, process, globals, server, pool, MainPc, EndPc
<1>1. CASE MakeServer
  BY <1>1 DEF MakeServer
<1>2. CASE MarkRunning
  BY <1>2 DEF MarkRunning
<1>3. CASE SpawnThread
  BY <1>3 DEF SpawnThread
<1>4. CASE AssignThread
  BY <1>4 DEF AssignThread
<1>5. CASE BeginPass
  BY <1>5 DEF BeginPass
<1>6. CASE EndLoop
  BY <1>6 DEF EndLoop
<1>7. CASE Unlock
  BY <1>7 DEF Unlock
<1>8. CASE OpenReader
  BY <1>8 DEF OpenReader
<1>9. CASE OpenFails
  BY <1>9 DEF OpenFails
<1>10. CASE ReadPackets
  BY <1>10 DEF ReadPackets
<1>11. CASE EndCapture
  BY <1>11 DEF EndCapture
<1>12. CASE FlushEvents
  BY <1>12 DEF FlushEvents
<1>13. CASE LockToClear
  BY <1>13 DEF LockToClear
<1>14. CASE ClearCurrent
  BY <1>14 DEF ClearCurrent
<1>15. CASE DestroyServer
  BY <1>15 DEF DestroyServer
<1>16. CASE LeaveTry
  <2>1. <<"check">> \in Seq(FramePc)
    BY DEF FramePc
  <2> QED
    BY <1>16, <2>1 DEF LeaveTry
<1> QED
  BY <1>1, <1>2, <1>3, <1>4, <1>5, <1>6, <1>7, <1>8, <1>9, <1>10, <1>11, <1>12, <1>13, <1>14, <1>15, <1>16 DEF Main

\* What a step of a stop sequence leaves as it is.
LEMMA HandlerStep ==
    ASSUME ShutdownAssumption, MainInv, Handler
    PROVE  MainInv'
<1> USE DEF MainInv, TypeOK, process, globals, server, pool, EndPc
<1>1. /\ frames \in Seq(FramePc) /\ frames # <<>> /\ Alive
      /\ Head(frames) \in {"flag", "reader", "server", "check", "stop", "join", "joining", "clear"}
  BY DEF Handler, ClearRunFlag, StopReader, FindServer, StopIfRunning, CloseSocket, JoinThread,
         Joined, ClearRunning, FrameAt
<1>2. Tail(frames) \in Seq(FramePc)
  BY <1>1, TailType
<1>3. \A f \in FramePc : <<f>> \o Tail(frames) \in Seq(FramePc)
  BY <1>1, GoType
<1>4. {"reader", "server", "check", "stop", "join", "joining", "clear"} \subseteq FramePc
  BY DEF FramePc
<1> HIDE DEF FramePc
<1>5. CASE ClearRunFlag
  BY <1>1, <1>2, <1>3, <1>4, <1>5 DEF ClearRunFlag, Go, PopFrame
<1>6. CASE StopReader
  BY <1>1, <1>2, <1>3, <1>4, <1>6 DEF StopReader, Go, PopFrame
<1>7. CASE FindServer
  BY <1>1, <1>2, <1>3, <1>4, <1>7 DEF FindServer, Go, PopFrame
<1>8. CASE StopIfRunning
  BY <1>1, <1>2, <1>3, <1>4, <1>8 DEF StopIfRunning, Go, PopFrame
<1>9. CASE CloseSocket
  BY <1>1, <1>2, <1>3, <1>4, <1>9 DEF CloseSocket, Go, PopFrame
<1>10. CASE JoinThread
  BY <1>1, <1>2, <1>3, <1>4, <1>10 DEF JoinThread, Go, PopFrame
<1>11. CASE Joined
  BY <1>1, <1>2, <1>3, <1>4, <1>11 DEF Joined, Go, PopFrame
<1>12. CASE ClearRunning
  BY <1>1, <1>2, <1>3, <1>4, <1>12 DEF ClearRunning, Go, PopFrame
<1> QED
  BY <1>5, <1>6, <1>7, <1>8, <1>9, <1>10, <1>11, <1>12 DEF Handler

LEMMA ThreadsStep ==
    ASSUME ShutdownAssumption, MainInv, Api \/ (\E w \in Worker : Serve(w)) \/ Signal
    PROVE  MainInv'
<1> USE DEF MainInv, TypeOK, process, globals, server, pool, EndPc
<1>1. CASE Api
  <2> USE DEF ApiGoes
  <2>1. CASE Bind
    <3>1. CASE ApiGoes("binding", "bound") /\ sock' = TRUE
      BY <3>1
    <3>2. CASE ApiGoes("binding", "done") /\ UNCHANGED sock
      BY <3>2
    <3> QED
      BY <2>1, <3>1, <3>2 DEF Bind
  <2>2. CASE Listen
    BY <2>2 DEF Listen
  <2>3. CASE StopAccepting
    BY <2>3 DEF StopAccepting
  <2>4. CASE EndListen
    BY <2>4 DEF EndListen
  <2> QED
    BY <1>1, <2>1, <2>2, <2>3, <2>4 DEF Api
<1>2. CASE Signal
  <2>1. "flag" \in FramePc /\ signals + 1 \in 0..MaxSignals
    BY <1>2 DEF FramePc, Signal, ShutdownAssumption
  <2>2. <<"flag">> \o frames \in Seq(FramePc)
    BY <2>1, PushType
  <2> QED
    BY <1>2, <2>1, <2>2 DEF Signal
<1>3. ASSUME NEW w \in Worker, Serve(w)
      PROVE  MainInv'
  <2>1. KeepAlive \in 0..KeepAlive
    BY DEF ShutdownAssumption
  <2>2. left[w] > 0 => left[w] - 1 \in 0..KeepAlive
    BY DEF ShutdownAssumption
  <2> USE DEF WorkerGoes
  <2>3. CASE AcceptConn(w)
    BY <1>3, <2>1, <2>2, <2>3 DEF AcceptConn
  <2>4. CASE NextRequest(w)
    BY <1>3, <2>1, <2>2, <2>4 DEF NextRequest
  <2>5. CASE CloseConn(w)
    BY <1>3, <2>1, <2>2, <2>5 DEF CloseConn
  <2>6. CASE LockQueue(w)
    BY <1>3, <2>1, <2>2, <2>6 DEF LockQueue
  <2>7. CASE AnswerPlain(w)
    BY <1>3, <2>1, <2>2, <2>7 DEF AnswerPlain
  <2>8. CASE AnswerQueue(w)
    BY <1>3, <2>1, <2>2, <2>8 DEF AnswerQueue
  <2> QED
    BY <1>3, <2>3, <2>4, <2>5, <2>6, <2>7, <2>8 DEF Serve
<1> QED
  BY <1>1, <1>2, <1>3

LEMMA MainKept == ShutdownAssumption /\ MainInv /\ [Next]_vars => MainInv'
<1> SUFFICES ASSUME ShutdownAssumption, MainInv, [Next]_vars PROVE MainInv'
  OBVIOUS
<1>1. CASE UNCHANGED vars
  BY <1>1 DEF vars, MainInv, TypeOK, process, globals, server, pool
<1>2. CASE Ended
  BY <1>1, <1>2 DEF Ended
<1> QED
  BY <1>1, <1>2, MainStep, HandlerStep, ThreadsStep DEF Next

\* Shutdown: when the process ends in order, no event is left in the buffer, wherever
\* signals arrive.
THEOREM NothingLeftInBuffer == Spec => []FlushedBeforeExit
<1>1. Init => MainInv
  BY MainInit, ShutdownAssumption
<1>2. MainInv /\ [Next]_vars => MainInv'
  BY MainKept, ShutdownAssumption
<1>3. MainInv => FlushedBeforeExit
  BY DEF MainInv, FlushedBeforeExit
<1> QED
  BY <1>1, <1>2, <1>3, PTL DEF Spec
-----------------------------------------------------------------------------
(* The stop of the server, when no signal arrives before it is up.         *)

\* Nothing disturbs the start, and the thread to join is made in it.
StartInv ==
    /\ pc \in Starting => frames = <<>> /\ signals = 0
    /\ pc \in {"make", "start", "spawn"} => api = "unborn"
    /\ pc \in {"spawn", "assign"} => running
    /\ pc # "make" => gServer

\* A stop that has got past its join has joined, and no worker outlives the listening
\* thread.
JoinInv ==
    /\ pc \notin Starting /\ thread = "empty" => api = "done"
    /\ pc \notin Starting /\ ~running => thread = "empty"
    /\ \A k \in 1..Len(frames) : frames[k] = "clear" => thread = "empty"
    /\ api \notin {"accepting", "draining"} => \A w \in Worker : conn[w] = "free"

\* No stop sequence ends before the thread is joined.
ReturnInv ==
    /\ frames = <<>> /\ (signals > 0 \/ pc \in {"static", "exited"}) => thread = "empty"
    /\ pc # "terminated"

StopInv == MainInv /\ StartInv /\ JoinInv /\ ReturnInv

\* When the queue goes, a signal that arrived has been dealt with.
QueueInv == signals > 0 /\ ~queueAlive => thread = "empty"

LEMMA StopInit == ShutdownAssumption /\ Init => StopInv /\ QueueInv
<1> SUFFICES ASSUME ShutdownAssumption, Init PROVE StopInv /\ QueueInv
  OBVIOUS
<1>1. Len(frames) = 0 /\ 1..Len(frames) = {}
  BY DEF Init
<1> QED
  BY <1>1, MainInit DEF Init, StopInv, StartInv, JoinInv, ReturnInv, QueueInv, Starting

\* The steps of main: none but LeaveTry begins a stop.
LEMMA MainStops ==
    ASSUME StopInv, Main
    PROVE  StartInv' /\ JoinInv' /\ ReturnInv'
<1> USE DEF StopInv, MainInv, StartInv, JoinInv, ReturnInv, Starting, MainGoes, process,
            globals, server, pool
<1>1. CASE MakeServer
  BY <1>1 DEF MakeServer
<1>2. CASE MarkRunning
  BY <1>2 DEF MarkRunning
<1>3. CASE SpawnThread
  BY <1>3 DEF SpawnThread
<1>4. CASE AssignThread
  BY <1>4 DEF AssignThread
<1>5. CASE BeginPass
  BY <1>5 DEF BeginPass
<1>6. CASE EndLoop
  BY <1>6 DEF EndLoop
<1>7. CASE Unlock
  BY <1>7 DEF Unlock
<1>8. CASE OpenReader
  BY <1>8 DEF OpenReader
<1>9. CASE OpenFails
  BY <1>9 DEF OpenFails
<1>10. CASE ReadPackets
  BY <1>10 DEF ReadPackets
<1>11. CASE EndCapture
  BY <1>11 DEF EndCapture
<1>12. CASE FlushEvents
  BY <1>12 DEF FlushEvents
<1>13. CASE LockToClear
  BY <1>13 DEF LockToClear
<1>14. CASE ClearCurrent
  BY <1>14 DEF ClearCurrent
<1>15. CASE LeaveTry
  <2>1. frames' # <<>> /\ \A k \in 1..Len(frames') : frames'[k] = "check"
    BY <1>15 DEF LeaveTry
  <2> QED
    BY <1>15, <2>1 DEF LeaveTry
<1>16. CASE DestroyServer
  BY <1>16 DEF DestroyServer
<1> QED
  BY <1>1, <1>2, <1>3, <1>4, <1>5, <1>6, <1>7, <1>8, <1>9, <1>10, <1>11, <1>12, <1>13, <1>14, <1>15, <1>16 DEF Main

\* The steps of a stop sequence: it ends only behind its join, or when somebody else's
\* has been through it.
LEMMA HandlerStops ==
    ASSUME StopInv, Handler
    PROVE  StartInv' /\ JoinInv' /\ ReturnInv'
<1> USE DEF StopInv, MainInv, StartInv, JoinInv, ReturnInv, process, globals, server, pool
<1>1. /\ frames \in Seq(FramePc) /\ frames # <<>> /\ Alive
      /\ Head(frames) \in {"flag", "reader", "server", "check", "stop", "join", "joining", "clear"}
  BY DEF Handler, ClearRunFlag, StopReader, FindServer, StopIfRunning, CloseSocket, JoinThread,
         Joined, ClearRunning, FrameAt, TypeOK
<1>2. pc \notin Starting /\ gServer /\ pc \notin EndPc
  BY <1>1 DEF Starting, Alive
<1>3. ASSUME PopFrame, NEW k \in 1..Len(frames')
      PROVE  \E j \in 1..Len(frames) : frames[j] = frames'[k]
  BY <1>1, <1>3, TailType DEF PopFrame
<1>4. ASSUME NEW f \in FramePc, Go(f)
      PROVE  /\ frames' # <<>>
             /\ \A k \in 1..Len(frames') :
                   frames'[k] # f => \E j \in 1..Len(frames) : frames[j] = frames'[k]
  BY <1>1, <1>4, GoType DEF Go
<1>5. Head(frames) = "clear" => thread = "empty"
  BY <1>1, TailType
<1>6. {"reader", "server", "check", "stop", "join", "joining", "clear"} \subseteq FramePc
  BY DEF FramePc
<1> HIDE DEF FramePc
<1>7. CASE ClearRunFlag
  BY <1>2, <1>4, <1>6, <1>7 DEF ClearRunFlag
<1>8. CASE StopReader
  BY <1>2, <1>4, <1>6, <1>8 DEF StopReader
<1>9. CASE FindServer
  BY <1>2, <1>4, <1>6, <1>9 DEF FindServer
<1>10. CASE StopIfRunning
  BY <1>2, <1>3, <1>4, <1>6, <1>10 DEF StopIfRunning
<1>11. CASE CloseSocket
  BY <1>2, <1>4, <1>6, <1>11 DEF CloseSocket
<1>12. CASE JoinThread
  <2>1. CASE \E k \in 2..Len(frames) : frames[k] = "joining"
    BY <1>1, <1>2, <1>12, <2>1 DEF JoinThread, Starting
  <2>2. CASE ~\E k \in 2..Len(frames) : frames[k] = "joining"
    <3>1. CASE thread = "joinable"
      BY <1>2, <1>4, <1>6, <1>12, <2>2, <3>1 DEF JoinThread
    <3>2. CASE thread = "empty"
      BY <1>2, <1>4, <1>6, <1>12, <2>2, <3>2 DEF JoinThread
    <3> QED
      BY <3>1, <3>2 DEF TypeOK
  <2> QED
    BY <2>1, <2>2
<1>13. CASE Joined
  BY <1>2, <1>4, <1>6, <1>13 DEF Joined
<1>14. CASE ClearRunning
  <2>1. thread = "empty" /\ UNCHANGED <<process, signals, globals, thread, api, conn>>
    BY <1>5, <1>14 DEF ClearRunning, FrameAt
  <2> QED
    BY <1>2, <2>1 DEF Starting
<1> QED
  BY <1>7, <1>8, <1>9, <1>10, <1>11, <1>12, <1>13, <1>14 DEF Handler

\* The listening thread and its pool: a worker takes a connection only while the thread
\* accepts, and the thread ends only when all are free.
LEMMA ThreadsStop ==
    ASSUME StopInv, Api \/ (\E w \in Worker : Serve(w))
    PROVE  StartInv' /\ JoinInv' /\ ReturnInv'
<1> USE DEF StopInv, MainInv, StartInv, JoinInv, ReturnInv, process, globals, server, pool
<1>1. CASE Api
  <2> USE DEF ApiGoes, Starting
  <2>1. CASE Bind
    BY <2>1 DEF Bind
  <2>2. CASE Listen
    BY <2>2 DEF Listen
  <2>3. CASE StopAccepting
    BY <2>3 DEF StopAccepting
  <2>4. CASE EndListen
    BY <2>4 DEF EndListen
  <2> QED
    BY <1>1, <2>1, <2>2, <2>3, <2>4 DEF Api
<1>2. ASSUME NEW w \in Worker, Serve(w)
      PROVE  StartInv' /\ JoinInv' /\ ReturnInv'
  <2>1. api \in {"accepting", "draining"}
    BY <1>2 DEF Serve, AcceptConn, NextRequest, CloseConn, LockQueue, AnswerPlain, AnswerQueue,
                WorkerGoes
  <2>2. UNCHANGED <<process, frames, signals, globals, server>>
    BY <1>2 DEF Serve, AcceptConn, NextRequest, CloseConn, LockQueue, AnswerPlain, AnswerQueue,
                WorkerGoes
  <2> QED
    BY <2>1, <2>2
<1> QED
  BY <1>1, <1>2

\* A signal begins a stop, in a process that is up.
LEMMA SignalStops ==
    ASSUME AfterStart, StopInv, Signal
    PROVE  StartInv' /\ JoinInv' /\ ReturnInv'
<1> USE DEF StopInv, MainInv, StartInv, JoinInv, ReturnInv, process, globals, server, pool
<1>1. pc \notin Starting /\ pc \in MainPc
  BY DEF Signal, AfterStart
<1>2. /\ frames' # <<>>
      /\ \A k \in 1..Len(frames') :
            frames'[k] # "flag" => \E j \in 1..Len(frames) : frames[j] = frames'[k]
  BY PushType DEF Signal, FramePc, TypeOK
<1> QED
  BY <1>1, <1>2 DEF Signal, MainPc, EndPc

LEMMA StopKept == ShutdownAssumption /\ AfterStart /\ StopInv /\ [Next]_vars => StopInv'
<1> SUFFICES ASSUME ShutdownAssumption, AfterStart, StopInv, [Next]_vars PROVE StopInv'
  OBVIOUS
<1>1. MainInv'
  BY MainKept DEF StopInv
<1>2. StartInv' /\ JoinInv' /\ ReturnInv'
  <2>1. CASE UNCHANGED vars
    BY <2>1 DEF vars, process, globals, server, pool, StopInv, StartInv, JoinInv, ReturnInv
  <2>2. CASE Ended
    BY <2>1, <2>2 DEF Ended
  <2> QED
    BY <2>1, <2>2, MainStops, HandlerStops, ThreadsStop, SignalStops DEF Next
<1> QED
  BY <1>1, <1>2 DEF StopInv

LEMMA StopSafe == StopInv => StopIsComplete /\ EndsInOrder
<1> SUFFICES ASSUME StopInv PROVE StopIsComplete /\ EndsInOrder
  OBVIOUS
<1>1. ASSUME frames # <<>>, Head(frames) = "clear"
      PROVE  \A w \in Worker : conn[w] = "free"
  <2>1. thread = "empty"
    BY <1>1, TailType DEF StopInv, MainInv, TypeOK, JoinInv
  <2>2. api = "done"
    BY <1>1, <2>1 DEF StopInv, StartInv, JoinInv
  <2> QED
    BY <2>2 DEF StopInv, JoinInv
<1>2. EndsInOrder
  BY DEF StopInv, ReturnInv, EndsInOrder
<1> QED
  BY <1>1, <1>2 DEF StopIsComplete

\* Shutdown: stop returns only when no worker is at work any more, for any number of
\* signals, one inside another, wherever main is once its server is up.
THEOREM StopWaitsForWorkers == AfterStart => (Spec => []StopIsComplete)
<1> SUFFICES ASSUME AfterStart PROVE Spec => []StopIsComplete
  OBVIOUS
<1>1. Init => StopInv
  BY StopInit, ShutdownAssumption
<1>2. StopInv /\ [Next]_vars => StopInv'
  BY StopKept, ShutdownAssumption
<1>3. StopInv => StopIsComplete
  BY StopSafe
<1> QED
  BY <1>1, <1>2, <1>3, PTL DEF Spec

\* Shutdown: the process never ends with the listening thread still joinable.
THEOREM NoThreadLeftJoinable == AfterStart => (Spec => []EndsInOrder)
<1> SUFFICES ASSUME AfterStart PROVE Spec => []EndsInOrder
  OBVIOUS
<1>1. Init => StopInv
  BY StopInit, ShutdownAssumption
<1>2. StopInv /\ [Next]_vars => StopInv'
  BY StopKept, ShutdownAssumption
<1>3. StopInv => EndsInOrder
  BY StopSafe
<1> QED
  BY <1>1, <1>2, <1>3, PTL DEF Spec
-----------------------------------------------------------------------------
(* The queue.                                                              *)

\* main destroys the queue when its own steps have come to an end, with no stop
\* sequence under way: then a signal that came has stopped the server.
LEMMA QueueKept ==
    ASSUME ShutdownAssumption, AfterStart, NotInDestructor, StopInv, QueueInv, [Next]_vars
    PROVE  QueueInv'
<1> USE DEF QueueInv, process, globals, server, pool
<1>1. thread = "empty" /\ pc \notin Starting => thread' = "empty"
  <2>1. CASE Main
    BY <2>1 DEF Main, MakeServer, MarkRunning, SpawnThread, AssignThread, BeginPass, EndLoop,
                Unlock, OpenReader, OpenFails, ReadPackets, EndCapture, FlushEvents, LockToClear,
                ClearCurrent, LeaveTry, DestroyServer, MainGoes, Starting
  <2>2. CASE Handler
    BY <2>2 DEF Handler, ClearRunFlag, StopReader, FindServer, StopIfRunning, CloseSocket,
                JoinThread, Joined, ClearRunning
  <2>3. CASE Api \/ Signal
    BY <2>3 DEF Api, Bind, Listen, StopAccepting, EndListen, ApiGoes, Signal
  <2>4. CASE \E w \in Worker : Serve(w)
    BY <2>4 DEF Serve, AcceptConn, NextRequest, CloseConn, LockQueue, AnswerPlain, AnswerQueue,
                WorkerGoes
  <2> QED
    BY <2>1, <2>2, <2>3, <2>4 DEF Next, Ended, vars
<1>2. CASE LeaveTry
  <2>1. signals > 0 => thread = "empty"
    BY <1>2 DEF LeaveTry, StopInv, ReturnInv
  <2> QED
    BY <1>2, <2>1 DEF LeaveTry
<1>3. CASE Signal
  <2>1. ~queueAlive => pc = "static"
    BY <1>3 DEF StopInv, MainInv, Signal, AfterStart, MainPc, EndPc
  <2>2. pc = "static" => frames = <<>>
    BY <1>3 DEF Signal, NotInDestructor
  <2>3. ~queueAlive => thread = "empty"
    BY <2>1, <2>2 DEF StopInv, ReturnInv
  <2> QED
    BY <1>3, <2>3 DEF Signal
<1>4. CASE ~LeaveTry /\ ~Signal
  <2>1. UNCHANGED <<queueAlive, signals>>
    <3>1. CASE Main
      BY <1>4, <3>1 DEF Main, MakeServer, MarkRunning, SpawnThread, AssignThread, BeginPass, EndLoop,
                  Unlock, OpenReader, OpenFails, ReadPackets, EndCapture, FlushEvents, LockToClear,
                  ClearCurrent, DestroyServer, MainGoes
    <3>2. CASE Handler
      BY <3>2 DEF Handler, ClearRunFlag, StopReader, FindServer, StopIfRunning, CloseSocket,
                  JoinThread, Joined, ClearRunning
    <3>3. CASE Api
      BY <3>3 DEF Api, Bind, Listen, StopAccepting, EndListen, ApiGoes
    <3>4. CASE \E w \in Worker : Serve(w)
      BY <3>4 DEF Serve, AcceptConn, NextRequest, CloseConn, LockQueue, AnswerPlain, AnswerQueue,
                  WorkerGoes
    <3> QED
      BY <1>4, <3>1, <3>2, <3>3, <3>4 DEF Next, Ended, vars
  <2>2. ~queueAlive => pc \notin Starting
    BY DEF StopInv, MainInv, EndPc, Starting
  <2> QED
    BY <1>1, <2>1, <2>2
<1> QED
  BY <1>2, <1>3, <1>4

LEMMA QueueSafe == StopInv /\ QueueInv => QueueOutlivesRequests
<1> SUFFICES ASSUME StopInv, QueueInv, signals > 0, NEW w \in Worker, conn[w] # "free"
             PROVE  queueAlive
  BY DEF QueueOutlivesRequests
<1>1. api \in {"accepting", "draining"}
  BY DEF StopInv, JoinInv
<1>2. pc \notin Starting
  BY DEF StopInv, StartInv, MainInv, TypeOK
<1>3. thread # "empty"
  BY <1>1, <1>2 DEF StopInv, JoinInv
<1> QED
  BY <1>3 DEF QueueInv

ShutdownInv == StopInv /\ QueueInv

LEMMA ShutdownSafe == ShutdownInv => ExitsInOrder
<1> SUFFICES ASSUME ShutdownInv PROVE ExitsInOrder
  OBVIOUS
<1>1. TypeOK /\ FlushedBeforeExit
  BY DEF ShutdownInv, StopInv, MainInv, FlushedBeforeExit
<1> QED
  BY <1>1, StopSafe, QueueSafe DEF ShutdownInv, ExitsInOrder

\* Shutdown: the workers come down before the queue, the events before the process and
\* the threads before the server, for any number of signals that arrive once the server
\* is up, one inside another unless they meet the destructor.
THEOREM ComesDownInOrder == AfterStart /\ NotInDestructor => (Spec => []ExitsInOrder)
<1> SUFFICES ASSUME AfterStart, NotInDestructor PROVE Spec => []ExitsInOrder
  OBVIOUS
<1>1. Init => ShutdownInv
  BY StopInit, ShutdownAssumption DEF ShutdownInv
<1>2. ShutdownInv /\ [Next]_vars => ShutdownInv'
  BY StopKept, QueueKept, ShutdownAssumption DEF ShutdownInv
<1>3. ShutdownInv => ExitsInOrder
  BY ShutdownSafe
<1> QED
  BY <1>1, <1>2, <1>3, PTL DEF Spec
-----------------------------------------------------------------------------
(* The configuration.                                                      *)

\* The lines that set a key, among those that were read.
HitsRead(key) == {i \in 1..(next - 1) : dotenv[i].kind = "pair" /\ dotenv[i].key = key}

Line == Settings!Pair \union {[kind |-> "comment"]}

SettingsTypes ==
    /\ given \in [Settings!Keys -> Values \union {Settings!Unset}]
    /\ env \in [Settings!Keys -> Values \union {Settings!Unset}]
    /\ dotenv \in Seq(Line)
    /\ listed \in {<<>>, <<"first.pcap", "second.pcap">>}
    /\ next \in 1..(Len(dotenv) + 1)

\* The environment is the given one and the first of the lines read.
EnvInv ==
    \A k \in Settings!Keys :
       /\ given[k] # Settings!Unset => env[k] = given[k]
       /\ given[k] = Settings!Unset =>
             \/ env[k] = Settings!Unset /\ HitsRead(k) = {}
             \/ \E i \in HitsRead(k) : env[k] = dotenv[i].value /\ \A j \in HitsRead(k) : i <= j

FromEnvironment ==
    [k \in Settings!Keys |-> IF k = "API_PORT" THEN Settings!GetenvInt(k) ELSE Settings!GetenvOr(k)]

\* What was read from the environment, when all lines were read.
ConfigInv == config # <<>> => next = Len(dotenv) + 1 /\ config = FromEnvironment

\* What was chosen for it.
ChosenInv ==
    /\ source.mode # "" => config # <<>>
    /\ LET onCard == config["PCAP_FILE"] = ""
           name == IF onCard THEN config["INTERFACE"] ELSE config["PCAP_FILE"]
       IN  source = IF source.mode = "" THEN [mode |-> "", name |-> ""]
                    ELSE IF name = "" THEN [mode |-> "refused", name |-> ""]
                    ELSE IF onCard THEN [mode |-> "live", name |-> name]
                    ELSE [mode |-> "stable", name |-> config["PCAP_FILE"]]

ChoiceInv == ConfigInv /\ ChosenInv

SettingsInv == SettingsTypes /\ EnvInv /\ ChoiceInv


LEMMA SettingsStart == Settings!ConfigurationAssumption /\ Settings!Init => SettingsInv
<1> SUFFICES ASSUME Settings!ConfigurationAssumption, Settings!Init PROVE SettingsInv
  OBVIOUS
<1>0. next = 1 /\ env = given
  BY Zenon DEF Settings!Init
<1>1. dotenv \in Seq(Line)
  <2>1. dotenv \in UNION {[1..m -> Line] : m \in 0..MaxLines}
    BY Zenon DEF Settings!Init, Settings!BoundedSeq, Settings!SeqOf, Line
  <2>2. PICK m \in 0..MaxLines : dotenv \in [1..m -> Line]
    BY <2>1
  <2> QED
    BY <2>2 DEF Settings!ConfigurationAssumption
<1>2. SettingsTypes
  <2>1. /\ given \in [Settings!Keys -> Values \union {Settings!Unset}]
        /\ listed \in {<<>>, <<"first.pcap", "second.pcap">>}
    BY Zenon DEF Settings!Init
  <2>2. next \in 1..(Len(dotenv) + 1)
    BY <1>0, <1>1, LenProperties
  <2> QED
    BY <1>0, <1>1, <2>1, <2>2 DEF SettingsTypes
<1>3. EnvInv
  <2>1. \A k \in Settings!Keys : HitsRead(k) = {}
    <3>1. 1..(next - 1) = {}
      BY <1>0
    <3> QED
      BY <3>1 DEF HitsRead
  <2> QED
    BY <1>0, <2>1 DEF EnvInv
<1>4. ChoiceInv
  <2>1. config = <<>> /\ source = [mode |-> "", name |-> ""]
    BY Zenon DEF Settings!Init
  <2> QED
    BY <2>1 DEF ChoiceInv, ConfigInv, ChosenInv
<1> QED
  BY <1>2, <1>3, <1>4 DEF SettingsInv

LEMMA ReadLineKeeps ==
    ASSUME Settings!ConfigurationAssumption, SettingsInv, Settings!ReadLine
    PROVE  SettingsInv'
<1> USE DEF SettingsInv, SettingsTypes, Settings!ReadLine
<1>1. Len(dotenv) \in Nat /\ next \in 1..Len(dotenv) /\ next' = next + 1 /\ dotenv[next] \in Line
  BY LenProperties, ElementOfSeq
<1>2. dotenv[next].kind = "pair" => dotenv[next].key \in Settings!Keys /\ dotenv[next].value \in Values
  BY <1>1 DEF Line, Settings!Pair
<1>3. SettingsTypes'
  BY <1>1, <1>2
<1>4. ASSUME NEW k \in Settings!Keys
      PROVE  HitsRead(k)' = HitsRead(k) \cup
                (IF dotenv[next].kind = "pair" /\ dotenv[next].key = k THEN {next} ELSE {})
  BY <1>1 DEF HitsRead
<1>5. EnvInv'
  <2> SUFFICES ASSUME NEW k \in Settings!Keys
               PROVE  /\ given[k] # Settings!Unset => env'[k] = given[k]
                      /\ given[k] = Settings!Unset =>
                            \/ env'[k] = Settings!Unset /\ HitsRead(k)' = {}
                            \/ \E i \in HitsRead(k)' : env'[k] = dotenv[i].value
                                                          /\ \A j \in HitsRead(k)' : i <= j
    BY DEF EnvInv
  <2>1. \A i \in HitsRead(k) : i < next /\ dotenv[i].value \in Values
    <3> SUFFICES ASSUME NEW i \in HitsRead(k)
                 PROVE  i < next /\ dotenv[i].value \in Values
      OBVIOUS
    <3>1. i \in 1..Len(dotenv) /\ i < next
      BY <1>1 DEF HitsRead
    <3>2. dotenv[i] \in Line
      BY <3>1, ElementOfSeq
    <3> QED
      BY <3>1, <3>2 DEF Line, Settings!Pair, HitsRead
  <2>2. CASE dotenv[next].kind = "pair" /\ dotenv[next].key = k
    <3>1. CASE env[k] = Settings!Unset
      <4>1. env'[k] = dotenv[next].value
        BY <2>2, <3>1
      <4>2. given[k] = Settings!Unset => HitsRead(k) = {}
        BY <2>1, <3>1 DEF EnvInv, Settings!ConfigurationAssumption
      <4>3. given[k] = Settings!Unset
        BY <3>1 DEF EnvInv
      <4> QED
        BY <4>1, <4>2, <4>3, <1>1, <1>4, <2>2
    <3>2. CASE env[k] # Settings!Unset
      <4>1. env'[k] = env[k]
        BY <1>2, <2>2, <3>2
      <4>2. CASE given[k] # Settings!Unset
        BY <4>1, <4>2 DEF EnvInv
      <4>3. CASE given[k] = Settings!Unset
        <5>1. PICK i \in HitsRead(k) : env[k] = dotenv[i].value /\ \A j \in HitsRead(k) : i <= j
          BY <4>3, <3>2 DEF EnvInv
        <5>2. \A j \in HitsRead(k)' : i <= j
          BY <5>1, <2>1, <1>4, <1>1 DEF HitsRead
        <5> QED
          BY <4>1, <4>3, <5>1, <5>2, <1>4
      <4> QED
        BY <4>2, <4>3
    <3> QED
      BY <3>1, <3>2
  <2>3. CASE ~(dotenv[next].kind = "pair" /\ dotenv[next].key = k)
    <3>1. env'[k] = env[k]
      BY <2>3, <1>2
    <3>2. HitsRead(k)' = HitsRead(k)
      BY <2>3, <1>4
    <3> QED
      BY <3>1, <3>2 DEF EnvInv
  <2> QED
    BY <2>2, <2>3
<1>6. ChoiceInv'
  <2>1. config = <<>>
    BY <1>1 DEF ChoiceInv, ConfigInv
  <2>2. config' = config /\ source' = source
    OBVIOUS
  <2> QED
    BY <2>1, <2>2 DEF ChoiceInv, ConfigInv, ChosenInv
<1> QED
  BY <1>3, <1>5, <1>6

LEMMA EnvKept ==
    ASSUME SettingsTypes, EnvInv, UNCHANGED <<given, dotenv, listed, env, next>>
    PROVE  SettingsTypes' /\ EnvInv'
<1>1. SettingsTypes'
  BY DEF SettingsTypes
<1>2. \A k : HitsRead(k)' = HitsRead(k)
  BY DEF HitsRead
<1>3. given' = given /\ env' = env /\ dotenv' = dotenv
  OBVIOUS
<1>4. EnvInv'
  BY <1>2, <1>3 DEF EnvInv
<1> QED
  BY <1>1, <1>4

LEMMA ChoiceKeeps ==
    ASSUME SettingsInv, Settings!FromEnv \/ Settings!Choose
    PROVE  SettingsInv'
<1> USE DEF SettingsInv
<1>1. CASE Settings!FromEnv
  <2>1. SettingsTypes' /\ EnvInv'
    BY <1>1, EnvKept DEF Settings!FromEnv
  <2>2. next = Len(dotenv) + 1
    BY <1>1, LenProperties DEF Settings!FromEnv, SettingsTypes
  <2>3. config' = FromEnvironment /\ FromEnvironment' = FromEnvironment
    BY <1>1 DEF Settings!FromEnv, FromEnvironment, Settings!GetenvInt, Settings!GetenvOr
  <2>4. source.mode = "" /\ source = [mode |-> "", name |-> ""]
    BY <1>1 DEF Settings!FromEnv, ChoiceInv, ConfigInv, ChosenInv
  <2>5. ConfigInv'
    BY <1>1, <2>2, <2>3 DEF Settings!FromEnv, ConfigInv
  <2>6. source' = [mode |-> "", name |-> ""] /\ source'.mode = ""
    BY <1>1, <2>4 DEF Settings!FromEnv
  <2>7. ChoiceInv'
    BY Zenon, <2>5, <2>6 DEF ChoiceInv, ChosenInv
  <2> QED
    BY <2>1, <2>7
<1>2. CASE Settings!Choose
  <2>1. SettingsTypes' /\ EnvInv'
    BY <1>2, EnvKept DEF Settings!Choose
  <2>2. FromEnvironment' = FromEnvironment
    BY <1>2 DEF Settings!Choose, FromEnvironment, Settings!GetenvInt, Settings!GetenvOr
  <2>3. config["PCAP_FILE"] # "" => Settings!StablePcap = config["PCAP_FILE"]
    BY DEF Settings!StablePcap
  <2>4. ConfigInv'
    BY <1>2, <2>2 DEF Settings!Choose, ChoiceInv, ConfigInv
  <2>5. ChosenInv'
    BY <1>2, <2>3 DEF Settings!Choose, ChosenInv
  <2> QED
    BY <2>1, <2>4, <2>5 DEF ChoiceInv
<1> QED
  BY <1>1, <1>2

LEMMA SettingsKept ==
    ASSUME Settings!ConfigurationAssumption, SettingsInv, Settings!Next \/ UNCHANGED settings
    PROVE  SettingsInv'
<1>1. CASE UNCHANGED settings
  <2>1. FromEnvironment' = FromEnvironment
    BY <1>1 DEF settings, FromEnvironment, Settings!GetenvInt, Settings!GetenvOr
  <2>2. SettingsTypes' /\ EnvInv'
    BY <1>1, EnvKept DEF settings, SettingsInv
  <2>3. ChoiceInv'
    BY <1>1, <2>1 DEF settings, SettingsInv, ChoiceInv, ConfigInv, ChosenInv
  <2> QED
    BY <2>2, <2>3 DEF SettingsInv
<1> QED
  BY <1>1, ReadLineKeeps, ChoiceKeeps DEF Settings!Next

LEMMA SourceFields ==
    ASSUME NEW m, NEW n, source = [mode |-> m, name |-> n]
    PROVE  source.mode = m /\ source.name = n
OBVIOUS

\* When all lines are read, the environment is what is wanted.
LEMMA EnvironmentWanted ==
    ASSUME SettingsInv, next = Len(dotenv) + 1, NEW k \in Settings!Keys
    PROVE  env[k] = Settings!Wanted(k)
<1> DEFINE hits == {i \in DOMAIN dotenv : dotenv[i].kind = "pair" /\ dotenv[i].key = k}
<1>1. HitsRead(k) = hits
  BY LenProperties DEF HitsRead, SettingsInv, SettingsTypes
<1>2. hits \subseteq Nat
  BY LenProperties DEF SettingsInv, SettingsTypes
<1>3. \A i \in hits : (\A j \in hits : i <= j) => Settings!Min(hits) = i
  BY <1>2 DEF Settings!Min
<1>4. CASE given[k] # Settings!Unset
  BY <1>4 DEF SettingsInv, EnvInv, Settings!Wanted
<1>5. CASE given[k] = Settings!Unset /\ hits = {}
  BY <1>1, <1>5 DEF SettingsInv, EnvInv, Settings!Wanted, Settings!FirstLine
<1>6. CASE given[k] = Settings!Unset /\ hits # {}
  <2>1. PICK i \in hits : env[k] = dotenv[i].value /\ \A j \in hits : i <= j
    BY <1>1, <1>6 DEF SettingsInv, EnvInv
  <2>2. Settings!Min(hits) = i
    BY <1>3, <2>1
  <2> QED
    BY <1>6, <2>1, <2>2 DEF Settings!Wanted, Settings!FirstLine
<1> QED
  BY <1>4, <1>5, <1>6

LEMMA SettingsSafe ==
    ASSUME Settings!ConfigurationAssumption, SettingsInv
    PROVE  Settings!TypeOK /\ Settings!PrecedenceKept /\ Settings!NamedSourceTaken
<1>1. ASSUME config # <<>>, NEW k \in Settings!Keys
      PROVE  env[k] = Settings!Wanted(k)
  BY <1>1, EnvironmentWanted DEF SettingsInv, ChoiceInv, ConfigInv, ChosenInv
<1>2. Settings!PrecedenceKept
  <2> SUFFICES ASSUME config # <<>>, NEW k \in Settings!Keys
               PROVE  config[k] = IF k = "API_PORT"
                        THEN IF Settings!Stoi(Settings!Wanted(k)) = Settings!Unset
                               THEN Settings!Default(k) ELSE Settings!Stoi(Settings!Wanted(k))
                      ELSE IF Settings!Wanted(k) = Settings!Unset
                             THEN Settings!Default(k) ELSE Settings!Wanted(k)
    BY DEF Settings!PrecedenceKept
  <2>1. config[k] = FromEnvironment[k] /\ env[k] = Settings!Wanted(k)
    BY <1>1 DEF SettingsInv, ChoiceInv, ConfigInv, ChosenInv
  <2>2. Settings!Stoi(Settings!Unset) = Settings!Unset
    BY DEF Settings!Stoi, Settings!ConfigurationAssumption
  <2> QED
    BY <2>1, <2>2 DEF FromEnvironment, Settings!GetenvInt, Settings!GetenvOr
<1>3. ASSUME config # <<>>
      PROVE  /\ config["PCAP_FILE"] = IF Settings!Wanted("PCAP_FILE") = Settings!Unset
                                        THEN "" ELSE Settings!Wanted("PCAP_FILE")
             /\ config["INTERFACE"] = IF Settings!Wanted("INTERFACE") = Settings!Unset
                                        THEN "eth0" ELSE Settings!Wanted("INTERFACE")
  BY <1>2, <1>3 DEF Settings!PrecedenceKept, Settings!Keys, Settings!Default
<1>4. Settings!NamedSourceTaken
  <2> SUFFICES ASSUME source.mode # ""
               PROVE  /\ source.mode = "stable" => source.name = Settings!Wanted("PCAP_FILE")
                      /\ Settings!Wanted("PCAP_FILE") \notin {Settings!Unset, ""}
                            => source.mode = "stable"
                      /\ source.mode = "refused" <=>
                            /\ Settings!Wanted("PCAP_FILE") \in {Settings!Unset, ""}
                            /\ Settings!Wanted("INTERFACE") = ""
    BY DEF Settings!NamedSourceTaken
  <2>1. config # <<>>
    BY DEF SettingsInv, ChoiceInv, ConfigInv, ChosenInv
  <2>2. Settings!Unset # ""
    BY DEF Settings!Unset
  <2> DEFINE file == config["PCAP_FILE"]
             card == config["INTERFACE"]
  <2>3. /\ file # "" => source = [mode |-> "stable", name |-> file]
        /\ file = "" /\ card # "" => source = [mode |-> "live", name |-> card]
        /\ file = "" /\ card = "" => source = [mode |-> "refused", name |-> ""]
    BY DEF SettingsInv, ChoiceInv, ConfigInv, ChosenInv
  <2> HIDE DEF file, card
  <2>4. /\ file # "" => source.mode = "stable" /\ source.name = file
        /\ file = "" /\ card # "" => source.mode = "live"
        /\ file = "" /\ card = "" => source.mode = "refused"
    BY <2>3, SourceFields
  <2>5. /\ file = IF Settings!Wanted("PCAP_FILE") = Settings!Unset
                    THEN "" ELSE Settings!Wanted("PCAP_FILE")
        /\ card = IF Settings!Wanted("INTERFACE") = Settings!Unset
                    THEN "eth0" ELSE Settings!Wanted("INTERFACE")
    BY <1>3, <2>1 DEF file, card
  <2> QED
    BY <2>2, <2>4, <2>5
<1>5. Settings!TypeOK
  <2>1. config \in Settings!Settings \union {<<>>}
    <3> SUFFICES ASSUME config # <<>> PROVE config \in Settings!Settings
      OBVIOUS
    <3>1. config = FromEnvironment
      BY DEF SettingsInv, ChoiceInv, ConfigInv, ChosenInv
    <3>2. ASSUME NEW k \in Settings!Keys
          PROVE  FromEnvironment[k] \in Values \union {"", "eth0", "8080"}
                                           \union {Numbers[v] : v \in DOMAIN Numbers}
      BY DEF FromEnvironment, Settings!GetenvInt, Settings!GetenvOr, Settings!Stoi,
             Settings!Default, Settings!Keys, SettingsInv, SettingsTypes
    <3> QED
      BY <3>1, <3>2 DEF Settings!Settings, FromEnvironment
  <2>2. ASSUME config # <<>>, NEW k \in {"PCAP_FILE", "INTERFACE"}
        PROVE  config[k] \in Values \union {"", "eth0"}
    BY <2>2 DEF SettingsInv, ChoiceInv, ConfigInv, ChosenInv, FromEnvironment, Settings!GetenvOr, Settings!Default,
             Settings!Keys, SettingsTypes
  <2>3. source \in [mode : {"", "live", "stable", "idle", "refused"},
                    name : Values \union {"", "eth0", "first.pcap"}]
    <3>1. CASE source.mode = ""
      <4>1. source = [mode |-> "", name |-> ""]
        BY <3>1 DEF SettingsInv, ChoiceInv, ConfigInv, ChosenInv
      <4> QED
        BY <4>1
    <3>2. CASE source.mode # ""
      <4>1. config["PCAP_FILE"] \in Values \union {"", "eth0"}
        BY <2>2, <3>2 DEF SettingsInv, ChoiceInv, ConfigInv, ChosenInv
      <4>2. config["INTERFACE"] \in Values \union {"", "eth0"}
        BY <2>2, <3>2 DEF SettingsInv, ChoiceInv, ConfigInv, ChosenInv
      <4> DEFINE file == config["PCAP_FILE"]
                 card == config["INTERFACE"]
      <4>3. \/ source = [mode |-> "stable", name |-> file]
            \/ source = [mode |-> "live", name |-> card]
            \/ source = [mode |-> "refused", name |-> ""]
        BY <3>2 DEF SettingsInv, ChoiceInv, ConfigInv, ChosenInv
      <4> HIDE DEF file, card
      <4>4. {file, card} \subseteq Values \union {"", "eth0"}
        BY <4>1, <4>2 DEF file, card
      <4>5. CASE source = [mode |-> "stable", name |-> file]
        BY <4>4, <4>5
      <4>6. CASE source = [mode |-> "live", name |-> card]
        BY <4>4, <4>6
      <4>7. CASE source = [mode |-> "refused", name |-> ""]
        BY <4>7
      <4> QED
        BY <4>3, <4>5, <4>6, <4>7
    <3> QED
      BY <3>1, <3>2
  <2> QED
    BY <2>1, <2>3 DEF Settings!TypeOK, SettingsInv, SettingsTypes
<1> QED
  BY <1>2, <1>4, <1>5

\* Configuration: what main captures from is what the environment, the first line of
\* .env and the defaults say, for any values and any number of lines.
THEOREM CapturesAsConfigured == ProcessSpec => []SourceAsConfigured
<1> DEFINE Inv == part = "settings" => SettingsInv
<1>1. ProcessInit => Inv
  BY SettingsStart, SettingsAssumption DEF ProcessInit, SettingsInit, RunningInit
<1>2. Inv /\ [ProcessNext]_both => Inv'
  <2> SUFFICES ASSUME Inv, [ProcessNext]_both, part' = "settings" PROVE SettingsInv'
    OBVIOUS
  <2>1. part = "settings" /\ (Settings!Next \/ UNCHANGED settings)
    BY DEF ProcessNext, ReadSettings, SettingsRead, Run, both
  <2> QED
    BY <2>1, SettingsKept, SettingsAssumption
<1>3. Inv => SourceAsConfigured
  BY SettingsSafe, SettingsAssumption DEF SourceAsConfigured
<1> QED
  BY <1>1, <1>2, <1>3, PTL DEF ProcessSpec

\* Process: its behaviours are behaviours of the shutdown, which stands still while the
\* configuration is read: what is proved of Spec holds of them.
THEOREM ProcessIsShutdown == ProcessSpec => Spec
<1>1. ProcessInit => Init
  BY DEF ProcessInit, SettingsInit, RunningInit
<1>2. [ProcessNext]_both => [Next]_vars
  BY DEF ProcessNext, ReadSettings, SettingsRead, Run, both
<1> QED
  BY <1>1, <1>2, PTL DEF ProcessSpec, Spec
=============================================================================
