---------------------------- MODULE RestConnection ----------------------------
(***************************************************************************)
(* The handlers of the REST server and the one libpqxx connection they     *)
(* share.  RestServer has a connection of its own, apart from the one of   *)
(* the tracker, but httplib runs every request on a thread of its pool,    *)
(* and no lock guards db_.  A handler is a sequence of transactions; a     *)
(* transaction registers with the connection, executes and commits, and a  *)
(* throw on the way destroys it, which rolls back.                         *)
(*                                                                         *)
(* libpqxx and the server behind it are modelled by what their callers     *)
(* see.  The connection refuses a transaction while another is registered; *)
(* the test and the registration are two steps of unsynchronised memory,   *)
(* so two threads may pass the test together.  Their statements then share *)
(* the one transaction of the session: a second BEGIN changes nothing, the *)
(* first COMMIT or ROLLBACK ends it for both.                              *)
(***************************************************************************)
EXTENDS Naturals, FiniteSets

CONSTANTS
    Worker,         \* threads of the pool
    Alert,          \* alerts; the request to acknowledge one is the alert itself
    MayLose,        \* whether the connection may be lost
    None

ASSUME ConnectionAssumption ==
    None \notin Worker /\ Alert \cap {"health", "stats", "list", "malformed", "none"} = {}

VARIABLES
    up,             \* the connection is alive: nothing reopens it
    registered,     \* the transaction the connection knows of
    inTxn, pending, \* the session: a transaction is open, and what it wrote
    acked,          \* the alerts with acknowledged = TRUE in the table
    job,            \* what each worker is answering
    left,           \* how many transactions its handler has before it
    pc,             \* where it is in the one it is about
    answer,         \* its last answer
    alone,          \* history: no other request was there at the same time
    refused         \* history: it was malformed, or the database refused its statement

session == <<registered, inTxn, pending, acked>>
past    == <<alone, refused>>
vars    == <<up, session, job, left, pc, answer, past>>

\* "malformed" is a request whose handler throws before it calls the database: an id
\* out of the range of int, or a body that is no JSON.
Request == {"health", "stats", "list", "malformed"} \cup Alert

\* The transactions of a handler: /health reads the assets and pings, /api/stats
\* reads the assets and two counts, all others make one call.
Calls(r) == CASE r = "health" -> 2 [] r = "stats" -> 3 [] OTHER -> 1

TypeOK ==
    /\ up \in BOOLEAN /\ inTxn \in BOOLEAN
    /\ registered \in Worker \cup {None}
    /\ pending \subseteq Alert /\ acked \subseteq Alert
    /\ job \in [Worker -> Request \cup {"none"}] /\ left \in [Worker -> 0..3]
    /\ pc \in [Worker -> {"idle", "test", "register", "execute", "commit"}]
    /\ answer \in [Worker -> {"none", "ok", "disconnected", "error"}]
    /\ alone \in [Worker -> BOOLEAN] /\ refused \in [Worker -> BOOLEAN]

Init ==
    /\ up = TRUE /\ inTxn = FALSE
    /\ registered = None /\ pending = {} /\ acked = {}
    /\ job = [w \in Worker |-> "none"] /\ left = [w \in Worker |-> 0]
    /\ pc = [w \in Worker |-> "idle"]
    /\ answer = [w \in Worker |-> "none"]
    /\ alone = [w \in Worker |-> FALSE] /\ refused = [w \in Worker |-> FALSE]

Busy == {w \in Worker : pc[w] # "idle"}

\* A request reaches a worker that is free.
Accept(w, r) ==
    /\ pc[w] = "idle"
    /\ job' = [job EXCEPT ![w] = r] /\ left' = [left EXCEPT ![w] = Calls(r)]
    /\ pc' = [pc EXCEPT ![w] = "test"] /\ answer' = [answer EXCEPT ![w] = "none"]
    /\ alone' = [v \in Worker |-> IF v = w THEN Busy = {} ELSE alone[v] /\ v \notin Busy]
    /\ refused' = [refused EXCEPT ![w] = FALSE]
    /\ UNCHANGED <<up, session>>

Reply(w, a) ==
    /\ answer' = [answer EXCEPT ![w] = a]
    /\ pc' = [pc EXCEPT ![w] = "idle"]
    /\ UNCHANGED <<job, left>>

\* A call threw.  The second call of /health is ping, which catches; elsewhere the
\* handler of POST /api/watchlist or the exception handler of the server answers.
Throw(w) == Reply(w, IF job[w] = "health" /\ left[w] = 1 THEN "disconnected" ELSE "error")

\* Defect: a call that throws leaves its transaction registered and open.
AbortKeeps == UNCHANGED session

\* The destructor of a transaction that was not committed.
Abort == registered' = None /\ inTxn' = FALSE /\ pending' = {} /\ UNCHANGED acked

\* Defect: a handler waits until the connection is free, in no order.
TestWaits(w) ==
    /\ pc[w] = "test"
    /\ registered = None
    /\ pc' = [pc EXCEPT ![w] = "register"]
    /\ UNCHANGED <<up, session, job, left, answer, past>>

\* The handler throws before its first call: std::stoi or json::parse.
Reject(w) ==
    /\ pc[w] = "test" /\ job[w] = "malformed"
    /\ refused' = [refused EXCEPT ![w] = TRUE]
    /\ Throw(w)
    /\ UNCHANGED <<up, session, alone>>

\* The constructor of pqxx::work, up to its look at the connection.
Test(w) ==
    /\ pc[w] = "test" /\ job[w] # "malformed"
    /\ IF registered = None
         THEN pc' = [pc EXCEPT ![w] = "register"] /\ UNCHANGED <<job, left, answer>>
         ELSE Throw(w)
    /\ UNCHANGED <<up, session, past>>

\* The rest of the constructor, with its BEGIN.
Register(w) ==
    /\ pc[w] = "register"
    /\ up
    /\ registered' = w /\ inTxn' = TRUE
    /\ pc' = [pc EXCEPT ![w] = "execute"]
    /\ UNCHANGED <<up, pending, acked, job, left, answer, past>>

\* Outside a transaction a statement commits by itself.
Execute(w) ==
    /\ pc[w] = "execute"
    /\ up
    /\ LET wrote == {job[w]} \cap Alert
       IN  IF inTxn THEN pending' = pending \cup wrote /\ UNCHANGED acked
                    ELSE acked' = acked \cup wrote /\ UNCHANGED pending
    /\ pc' = [pc EXCEPT ![w] = "commit"]
    /\ UNCHANGED <<up, registered, inTxn, job, left, answer, past>>

\* Defect: the handler catches the error of its call and answers as if it had none.
RefuseIgnored(w) ==
    /\ pc[w] = "execute"
    /\ up
    /\ refused' = [refused EXCEPT ![w] = TRUE]
    /\ Abort /\ Reply(w, "ok")
    /\ UNCHANGED <<up, alone>>

\* The database refuses the statement: a negative OFFSET, a filter that is not SQL, or
\* for reasons of its own.
Refuse(w) ==
    /\ pc[w] = "execute"
    /\ up
    /\ refused' = [refused EXCEPT ![w] = TRUE]
    /\ Abort /\ Throw(w)
    /\ UNCHANGED <<up, alone>>

Overlapped(w) == \E v \in Worker \ {w} : pc[v] \in {"execute", "commit"}

\* Otherwise a call throws when the connection is lost, and may throw when another
\* thread is using it ("another command is already in progress"). A BEGIN that throws
\* leaves the session as it is.
Fail(w) ==
    /\ pc[w] \in {"register", "execute", "commit"}
    /\ ~up \/ Overlapped(w)
    /\ IF pc[w] = "register" THEN registered' = None /\ UNCHANGED <<inTxn, pending, acked>>
                             ELSE Abort
    /\ Throw(w)
    /\ UNCHANGED <<up, past>>

\* Defect: the call to commit is missing.
CommitForgotten(w) ==
    /\ pc[w] = "commit"
    /\ up
    /\ Abort
    /\ IF left[w] = 1 THEN Reply(w, "ok")
       ELSE /\ left' = [left EXCEPT ![w] = @ - 1]
            /\ pc' = [pc EXCEPT ![w] = "test"]
            /\ UNCHANGED <<job, answer>>
    /\ UNCHANGED <<up, past>>

\* commit, the destructor, and the next call of the handler or its answer.
Commit(w) ==
    /\ pc[w] = "commit"
    /\ up
    /\ registered' = None /\ inTxn' = FALSE /\ pending' = {} /\ acked' = acked \cup pending
    /\ IF left[w] = 1 THEN Reply(w, "ok")
       ELSE /\ left' = [left EXCEPT ![w] = @ - 1]
            /\ pc' = [pc EXCEPT ![w] = "test"]
            /\ UNCHANGED <<job, answer>>
    /\ UNCHANGED <<up, past>>

\* The server ends the session and rolls its transaction back.
Lose ==
    /\ MayLose /\ up /\ up' = FALSE
    /\ inTxn' = FALSE /\ pending' = {}
    /\ UNCHANGED <<registered, acked, job, left, pc, answer, past>>

Step(w) ==
    Reject(w) \/ Test(w) \/ Register(w) \/ Execute(w) \/ Refuse(w) \/ Fail(w) \/ Commit(w)

Next ==
    \/ Lose
    \/ \E w \in Worker : Step(w) \/ \E r \in Request : Accept(w, r)

Spec     == Init /\ [][Next]_vars
FairSpec == Spec /\ \A w \in Worker : WF_vars(Step(w))
-----------------------------------------------------------------------------
(* Properties.                                                             *)

\* When every handler has returned, the connection is free again, however the
\* handlers overlapped and whatever threw: no transaction outlives its handler.
ReleasedInTheEnd == Busy = {} => registered = None /\ ~inTxn /\ pending = {}

Answered(w) == pc[w] = "idle" /\ answer[w] # "none"

\* A request that was the only one for its whole time is answered on its own merits
\* while the connection lives: with an error if and only if it is malformed or its own
\* statement was refused. Earlier requests, refused, failed and half-done ones too,
\* leave nothing behind that fails it, and what it was told was done is in the table.
AloneIsServed ==
    \A w \in Worker : Answered(w) /\ alone[w] =>
        /\ up => (answer[w] = "ok" <=> ~refused[w])
        /\ answer[w] = "ok" => {job[w]} \cap Alert \subseteq acked

\* Every request is answered, whatever throws in its handler.
EveryRequestAnswered == \A w \in Worker : pc[w] # "idle" ~> pc[w] = "idle"

\* README.md:162: POST /api/alerts/:id/ack marks the alert as handled.
AckIsStored ==
    \A w \in Worker : Answered(w) /\ answer[w] = "ok" => {job[w]} \cap Alert \subseteq acked

\* README.md:156: /health tells the state of the database: "disconnected" means
\* that the connection is lost.
DisconnectedMeansLost ==
    \A w \in Worker : Answered(w) /\ answer[w] = "disconnected" => ~up

\* README.md:156: /health answers with the state of the database, which is
\* "connected" or "disconnected".
HealthAlwaysAnswers ==
    \A w \in Worker : Answered(w) /\ job[w] = "health" => answer[w] # "error"
=============================================================================
