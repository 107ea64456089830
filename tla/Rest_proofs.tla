------------------------------ MODULE Rest_proofs ------------------------------
(***************************************************************************)
(* Proofs about the REST API: its shared connection, for any set of        *)
(* workers and alerts; the pages of a list, for any length, page size and  *)
(* changes; and the numbers of a page, for any range of int.               *)
(***************************************************************************)
EXTENDS Rest, FiniteSetTheorems, TLAPS

(* The connection.                                                         *)

\* The handlers that are between BEGIN and the end of their transaction.
Inside == {w \in Worker : pc[w] \in {"execute", "commit"}}

\* Whatever the connection and the session hold belongs to somebody inside.
SessionOK ==
    /\ registered # None => registered \in Inside
    /\ inTxn => Inside # {}
    /\ pending # {} => inTxn

HandlerOK ==
    \A w \in Worker : pc[w] # "idle" => job[w] \in Request /\ left[w] \in 1..3 /\ ~refused[w]

\* A lone handler owns the session.
LoneOK ==
    \A w \in Worker : alone[w] /\ pc[w] # "idle" =>
        /\ \A v \in Worker \ {w} : pc[v] = "idle"
        /\ up /\ pc[w] \in {"execute", "commit"} => inTxn
        /\ up /\ pc[w] = "commit" => {job[w]} \cap Alert \subseteq pending

IndInv == TypeOK /\ SessionOK /\ HandlerOK /\ LoneOK /\ AloneIsServed

LEMMA CallsType == ASSUME NEW r PROVE Calls(r) \in 1..3
BY DEF Calls

LEMMA InitEstablishes == Init => IndInv
<1> SUFFICES ASSUME Init PROVE IndInv
  OBVIOUS
<1> USE DEF Init
<1>1. TypeOK
  <2>1. up \in BOOLEAN /\ inTxn \in BOOLEAN /\ alone \in [Worker -> BOOLEAN]
        /\ refused \in [Worker -> BOOLEAN]
    BY Zenon
  <2>2. left \in [Worker -> 0..3]
    OBVIOUS
  <2> QED
    BY <2>1, <2>2, Zenon DEF TypeOK
<1>2. SessionOK
  BY DEF SessionOK
<1>3. HandlerOK /\ LoneOK /\ AloneIsServed
  BY DEF HandlerOK, LoneOK, AloneIsServed, Answered
<1> QED
  BY <1>1, <1>2, <1>3 DEF IndInv

LEMMA AcceptPreserves ==
    ASSUME IndInv, NEW w \in Worker, NEW r \in Request, Accept(w, r)
    PROVE  IndInv'
<1> USE DEF IndInv, Accept, session
<1>1. TypeOK'
  <2>1. Calls(r) \in 0..3
    BY CallsType
  <2> QED
    BY <2>1 DEF TypeOK
<1>2. SessionOK'
  BY DEF TypeOK, SessionOK, Inside
<1>3. HandlerOK'
  BY CallsType DEF TypeOK, HandlerOK
<1>4. LoneOK'
  BY DEF TypeOK, LoneOK, Busy
<1>5. AloneIsServed'
  BY DEF TypeOK, AloneIsServed, Answered
<1> QED
  BY <1>1, <1>2, <1>3, <1>4, <1>5

LEMMA RejectPreserves ==
    ASSUME IndInv, NEW w \in Worker, Reject(w)
    PROVE  IndInv'
<1> USE DEF IndInv, Reject, session
<1>1. PICK a \in {"disconnected", "error"} :
        /\ answer' = [answer EXCEPT ![w] = a]
        /\ pc' = [pc EXCEPT ![w] = "idle"]
        /\ UNCHANGED <<up, registered, inTxn, pending, acked, job, left, alone>>
  BY DEF Throw, Reply
<1>2. TypeOK' /\ HandlerOK'
  BY <1>1 DEF TypeOK, HandlerOK
<1>3. SessionOK'
  BY <1>1 DEF TypeOK, SessionOK, Inside
<1>4. LoneOK' /\ AloneIsServed'
  BY <1>1 DEF TypeOK, LoneOK, AloneIsServed, Answered
<1> QED
  BY <1>2, <1>3, <1>4

LEMMA TestPreserves ==
    ASSUME IndInv, NEW w \in Worker, Test(w)
    PROVE  IndInv'
<1> USE DEF IndInv, Test, session, past
<1>1. CASE registered = None
  <2>1. /\ pc' = [pc EXCEPT ![w] = "register"]
        /\ UNCHANGED <<up, registered, inTxn, pending, acked, job, left, answer, alone, refused>>
    BY <1>1
  <2>2. TypeOK' /\ HandlerOK'
    BY <2>1 DEF TypeOK, HandlerOK
  <2>3. SessionOK'
    BY <2>1 DEF TypeOK, SessionOK, Inside
  <2>4. LoneOK' /\ AloneIsServed'
    BY <2>1 DEF TypeOK, LoneOK, AloneIsServed, Answered
  <2> QED
    BY <2>2, <2>3, <2>4
<1>2. CASE registered # None
  <2>1. PICK a \in {"disconnected", "error"} :
          /\ answer' = [answer EXCEPT ![w] = a]
          /\ pc' = [pc EXCEPT ![w] = "idle"]
          /\ UNCHANGED <<up, registered, inTxn, pending, acked, job, left, alone, refused>>
    BY <1>2 DEF Throw, Reply
  <2>2. registered \in Worker \ {w} /\ pc[registered] # "idle"
    BY <1>2 DEF SessionOK, Inside
  <2>3. ~alone[w]
    BY <2>2 DEF LoneOK
  <2>4. TypeOK' /\ HandlerOK'
    BY <2>1 DEF TypeOK, HandlerOK
  <2>5. SessionOK'
    BY <2>1 DEF TypeOK, SessionOK, Inside
  <2>6. LoneOK' /\ AloneIsServed'
    BY <2>1, <2>3 DEF TypeOK, LoneOK, AloneIsServed, Answered
  <2> QED
    BY <2>4, <2>5, <2>6
<1> QED
  BY <1>1, <1>2

LEMMA RegisterPreserves ==
    ASSUME IndInv, NEW w \in Worker, Register(w)
    PROVE  IndInv'
<1> USE DEF IndInv, Register, past
<1>1. TypeOK' /\ HandlerOK'
  BY DEF TypeOK, HandlerOK
<1>2. SessionOK'
  BY DEF TypeOK, SessionOK, Inside
<1>3. LoneOK' /\ AloneIsServed'
  BY DEF TypeOK, LoneOK, AloneIsServed, Answered
<1> QED
  BY <1>1, <1>2, <1>3

LEMMA ExecutePreserves ==
    ASSUME IndInv, NEW w \in Worker, Execute(w)
    PROVE  IndInv'
<1> USE DEF IndInv, Execute, past
<1>1. TypeOK' /\ HandlerOK'
  BY DEF TypeOK, HandlerOK
<1>2. SessionOK'
  BY DEF TypeOK, SessionOK, Inside
<1>3. LoneOK'
  BY DEF TypeOK, LoneOK
<1>4. AloneIsServed'
  BY DEF TypeOK, AloneIsServed, Answered
<1> QED
  BY <1>1, <1>2, <1>3, <1>4

LEMMA RefusePreserves ==
    ASSUME IndInv, NEW w \in Worker, Refuse(w)
    PROVE  IndInv'
<1> USE DEF IndInv, Refuse, Abort
<1>1. PICK a \in {"disconnected", "error"} :
        /\ answer' = [answer EXCEPT ![w] = a]
        /\ pc' = [pc EXCEPT ![w] = "idle"]
        /\ UNCHANGED <<up, acked, job, left, alone>>
  BY DEF Throw, Reply
<1>2. TypeOK' /\ HandlerOK'
  BY <1>1 DEF TypeOK, HandlerOK
<1>3. SessionOK'
  BY <1>1 DEF TypeOK, SessionOK, Inside
<1>4. LoneOK'
  BY <1>1 DEF TypeOK, LoneOK
<1>5. AloneIsServed'
  BY <1>1 DEF TypeOK, AloneIsServed, Answered
<1> QED
  BY <1>2, <1>3, <1>4, <1>5

LEMMA FailPreserves ==
    ASSUME IndInv, NEW w \in Worker, Fail(w)
    PROVE  IndInv'
<1> USE DEF IndInv, Fail, Abort, past
<1>1. PICK a \in {"disconnected", "error"} :
        /\ answer' = [answer EXCEPT ![w] = a]
        /\ pc' = [pc EXCEPT ![w] = "idle"]
        /\ UNCHANGED <<up, acked, job, left, alone, refused>>
  BY DEF Throw, Reply
<1>2. ~up \/ ~alone[w]
  BY DEF Overlapped, LoneOK
<1>3. TypeOK' /\ HandlerOK'
  BY <1>1 DEF TypeOK, HandlerOK
<1>4. SessionOK'
  BY <1>1 DEF TypeOK, SessionOK, Inside
<1>5. LoneOK'
  BY <1>1, <1>2 DEF TypeOK, LoneOK
<1>6. AloneIsServed'
  BY <1>1, <1>2 DEF TypeOK, AloneIsServed, Answered
<1> QED
  BY <1>3, <1>4, <1>5, <1>6

LEMMA CommitPreserves ==
    ASSUME IndInv, NEW w \in Worker, Commit(w)
    PROVE  IndInv'
<1> USE DEF IndInv, Commit, Reply, past
<1>1. TypeOK'
  <2>1. left' \in [Worker -> 0..3] /\ pc' \in [Worker -> {"idle", "test", "register", "execute", "commit"}]
    BY DEF TypeOK, HandlerOK
  <2>2. answer' \in [Worker -> {"none", "ok", "disconnected", "error"}] /\ acked' \subseteq Alert
    BY DEF TypeOK
  <2> QED
    BY <2>1, <2>2 DEF TypeOK
<1>2. HandlerOK'
  BY DEF TypeOK, HandlerOK
<1>3. SessionOK'
  BY DEF TypeOK, SessionOK, Inside
<1>4. LoneOK'
  BY DEF TypeOK, LoneOK
<1>5. AloneIsServed'
  <2> SUFFICES ASSUME NEW v \in Worker, Answered(v)', alone[v]
               PROVE  /\ up => (answer'[v] = "ok" <=> ~refused[v])
                      /\ answer'[v] = "ok" => {job[v]} \cap Alert \subseteq acked'
    BY DEF AloneIsServed
  <2>1. CASE v # w
    <3>1. Answered(v) /\ answer'[v] = answer[v]
      BY <2>1 DEF TypeOK, Answered
    <3> QED
      BY <3>1 DEF TypeOK, AloneIsServed
  <2>2. CASE v = w
    <3>1. left[w] = 1 /\ answer'[w] = "ok"
      BY <2>2 DEF TypeOK, Answered
    <3>2. ~refused[w] /\ {job[w]} \cap Alert \subseteq pending
      BY <2>2 DEF HandlerOK, LoneOK
    <3> QED
      BY <2>2, <3>1, <3>2
  <2> QED
    BY <2>1, <2>2
<1> QED
  BY <1>1, <1>2, <1>3, <1>4, <1>5

LEMMA LosePreserves ==
    ASSUME IndInv, Lose
    PROVE  IndInv'
BY DEF IndInv, Lose, past, TypeOK, SessionOK, Inside, HandlerOK, LoneOK, AloneIsServed, Answered

LEMMA StutterPreserves ==
    ASSUME IndInv, UNCHANGED vars
    PROVE  IndInv'
BY DEF IndInv, vars, session, past, TypeOK, SessionOK, Inside, HandlerOK, LoneOK, AloneIsServed, Answered

LEMMA NextPreserves == IndInv /\ [Next]_vars => IndInv'
BY AcceptPreserves, RejectPreserves, TestPreserves, RegisterPreserves, ExecutePreserves,
   RefusePreserves, FailPreserves, CommitPreserves, LosePreserves, StutterPreserves
   DEF Next, Step

\* The handlers of the REST server keep IndInv, whatever throws and however they
\* overlap on the connection.
THEOREM InductiveInvariant == Spec => []IndInv
BY InitEstablishes, NextPreserves, PTL DEF Spec

\* Every variable of the server stays in its type.
THEOREM TypeCorrect == Spec => []TypeOK
<1>1. IndInv => TypeOK
  BY DEF IndInv
<1> QED
  BY <1>1, InductiveInvariant, PTL

\* No transaction outlives its handler: when none runs, the connection is free.
THEOREM ReleasedInTheEndCorrect == Spec => []ReleasedInTheEnd
<1>1. IndInv => ReleasedInTheEnd
  BY DEF IndInv, SessionOK, ReleasedInTheEnd, Inside, Busy
<1> QED
  BY <1>1, InductiveInvariant, PTL

\* A request that no other overlaps is answered on its own merits, whatever happened
\* before it: with an error only if it is malformed or its own statement is refused.
THEOREM AloneIsServedCorrect == Spec => []AloneIsServed
<1>1. IndInv => AloneIsServed
  BY DEF IndInv
<1> QED
  BY <1>1, InductiveInvariant, PTL

\* Rest: its behaviours are behaviours of the connection, which stands still while a list
\* is walked or a page computed: what is proved of Spec holds of them.
THEOREM RestIsConnection == RestSpec => Spec
<1>1. RestInit => Init
  BY DEF RestInit
<1>2. [RestNext]_<<part, vars, walk, request>> => [Next]_vars
  BY DEF RestNext, Handle, Walk, Compute, Computed
<1> QED
  BY <1>1, <1>2, PTL DEF RestSpec, Spec
-----------------------------------------------------------------------------
(* The pages of a list.                                                    *)

\* The rows before a row of a list l whose times are t, and those not after it.
Newer(l, t, r)    == {q \in l : t[q] > t[r]}
NotOlder(l, t, r) == {q \in l : t[q] >= t[r]}
Rank(l, t, r) == Cardinality(Newer(l, t, r))
Last(l, t, r) == Cardinality(NotOlder(l, t, r))

\* How many rows the pages hold that were shown, and those before them.
Passed == IF client = "view" THEN page * Size ELSE (page - 1) * Size

\* What was written since the walk began is no older than its beginning.
SinceBegan == \A q \in listed : time[q] >= began \/ (q \in DOMAIN start /\ time[q] = start[q])

\* A settled row that was not shown is still to come.
ToCome == \A r \in Lists!Settled : r \notin shown => Rank(listed, time, r) >= Passed

\* A row that belongs on page p has been shown when the walk was there.
Seen(r, p) ==
    /\ r \in shown <=> p < page \/ (p = page /\ client = "view")
    /\ client = "view" => (r \in screen <=> p = page)

\* While nothing changes the pages shown are the first rows of the list.
Undisturbed ==
    quiet => /\ client # "load" => total = Cardinality(listed)
             /\ \A r \in listed, p \in 1..MaxRows :
                    (p - 1) * Size <= Rank(listed, time, r) /\ Last(listed, time, r) <= p * Size
                        => Seen(r, p)

WalkInv == Lists!TypeOK /\ SinceBegan /\ Lists!NoGap /\ ToCome /\ Undisturbed

LEMMA ListConstants ==
    /\ Size \in Nat \ {0} /\ First \in Nat \ {0} /\ MaxRows \in Nat /\ First <= MaxRows
    /\ Batch \in Nat \ {0} /\ MaxChanges \in Nat
BY RestAssumption DEF Lists!PagesAssumption

LEMMA SizeMonotonic ==
    ASSUME NEW i \in Nat, NEW j \in Nat, i <= j
    PROVE  i * Size \in Nat /\ j * Size \in Nat /\ i * Size <= j * Size
<1> DEFINE d == j - i
<1>1. d \in Nat /\ j = i + d /\ Size \in Nat
  BY ListConstants
<1> HIDE DEF d
<1>2. j * Size = i * Size + d * Size /\ d * Size \in Nat /\ i * Size \in Nat
  BY <1>1
<1> QED
  BY <1>2

LEMMA TableFacts ==
    ASSUME Lists!TypeOK
    PROVE  /\ IsFiniteSet(DOMAIN time) /\ IsFiniteSet(listed)
           /\ Cardinality(DOMAIN time) \in 0..MaxRows /\ Cardinality(listed) \in 0..MaxRows
           /\ DOMAIN time = 1..Cardinality(DOMAIN time)
           /\ \A r \in DOMAIN time : time[r] \in 0..clock
           /\ clock \in Nat /\ listed \subseteq DOMAIN time /\ shown \subseteq DOMAIN time
           /\ DOMAIN start \subseteq DOMAIN time /\ \A r \in DOMAIN start : start[r] \in 0..clock
           /\ page \in Nat \ {0} /\ began \in 0..clock
<1>1. PICK n \in 0..MaxRows : time \in [1..n -> 0..clock]
  BY DEF Lists!TypeOK
<1>2. DOMAIN time = 1..n /\ n \in Nat /\ n <= MaxRows
  BY <1>1, ListConstants
<1>3. IsFiniteSet(DOMAIN time) /\ Cardinality(DOMAIN time) = n
  BY <1>2, FS_Interval
<1>4. listed \subseteq DOMAIN time
  BY DEF Lists!TypeOK
<1>5. IsFiniteSet(listed) /\ Cardinality(listed) <= n /\ Cardinality(listed) \in Nat
  BY <1>3, <1>4, FS_Subset, FS_CardinalityType
<1>6. PICK S \in SUBSET DOMAIN time : start \in [S -> 0..clock]
  BY DEF Lists!TypeOK
<1>7. DOMAIN start \subseteq DOMAIN time /\ \A r \in DOMAIN start : start[r] \in 0..clock
  BY <1>6
<1>8. Cardinality(DOMAIN time) \in 0..MaxRows /\ Cardinality(listed) \in 0..MaxRows
  BY <1>2, <1>3, <1>5, ListConstants
<1>9. clock \in Nat /\ shown \subseteq DOMAIN time /\ page \in Nat \ {0} /\ began \in 0..clock
  BY DEF Lists!TypeOK
<1> QED
  BY <1>1, <1>2, <1>3, <1>4, <1>5, <1>7, <1>8, <1>9

LEMMA RankType ==
    ASSUME NEW l, IsFiniteSet(l), NEW t, NEW r
    PROVE  /\ IsFiniteSet(Newer(l, t, r)) /\ Rank(l, t, r) \in Nat
           /\ IsFiniteSet(NotOlder(l, t, r)) /\ Last(l, t, r) \in Nat
<1>1. Newer(l, t, r) \in SUBSET l /\ NotOlder(l, t, r) \in SUBSET l
  BY DEF Newer, NotOlder
<1> QED
  BY <1>1, FS_Subset, FS_CardinalityType DEF Rank, Last

\* A row has no fewer rows before it when those that were are there still.
LEMMA RankGrows ==
    ASSUME NEW k, NEW l, IsFiniteSet(l), NEW s, NEW t, NEW r,
           Newer(k, s, r) \subseteq Newer(l, t, r)
    PROVE  Rank(k, s, r) <= Rank(l, t, r)
BY RankType, FS_Subset DEF Rank

LEMMA RankDrops ==
    ASSUME NEW l, IsFiniteSet(l), NEW t, NEW r, NEW x
    PROVE  Rank(l \ {x}, t, r) >= Rank(l, t, r) - 1
<1>1. Newer(l \ {x}, t, r) = Newer(l, t, r) \ {x}
  BY DEF Newer
<1>2. IsFiniteSet(Newer(l, t, r)) /\ Rank(l, t, r) \in Nat
  BY RankType
<1> DEFINE N == Newer(l, t, r)
<1> HIDE DEF N
<1>3. Cardinality(N \ {x}) >= Cardinality(N) - 1
  <2>1. Cardinality(N \ {x}) = IF x \in N THEN Cardinality(N) - 1 ELSE Cardinality(N)
    BY <1>2, FS_RemoveElement DEF N
  <2>2. Cardinality(N) \in Nat
    BY <1>2 DEF Rank, N
  <2> QED
    BY <2>1, <2>2
<1> QED
  BY <1>1, <1>3 DEF Rank, N

LEMMA ListsCardinality == \A S : Lists!Cardinality(S) = Cardinality(S)
BY Zenon DEF Lists!Cardinality, Cardinality

LEMMA BelongsMeans ==
    ASSUME NEW r, NEW p
    PROVE  Lists!Belongs(r, p) <=>
             (p - 1) * Size <= Rank(listed, time, r) /\ Last(listed, time, r) <= p * Size
BY ListsCardinality, Zenon DEF Lists!Belongs, Lists!Newer, Lists!AtLeast, Rank, Last, Newer, NotOlder

\* A settled row has a time of its own, older than the walk.
LEMMA SettledFacts ==
    ASSUME WalkInv, NEW r \in Lists!Settled
    PROVE  /\ r \in listed /\ r \in DOMAIN start /\ time[r] = start[r]
           /\ time[r] \in Nat /\ time[r] < began /\ began <= clock
           /\ Last(listed, time, r) = Rank(listed, time, r) + 1
<1>1. r \in listed /\ r \in DOMAIN start /\ time[r] = start[r] /\ time[r] < began
  BY DEF Lists!Settled
<1>2. /\ IsFiniteSet(listed) /\ \A q \in listed : time[q] \in Nat
      /\ began \in Nat /\ clock \in Nat /\ began <= clock
  BY TableFacts DEF WalkInv
<1>3. \A q \in listed : time[q] = time[r] => q = r
  <2> SUFFICES ASSUME NEW q \in listed, time[q] = time[r] PROVE q = r
    OBVIOUS
  <2>1. ~(time[q] >= began)
    BY <1>1, <1>2
  <2>2. q \in DOMAIN start /\ start[q] = start[r]
    BY <1>1, <2>1 DEF WalkInv, SinceBegan
  <2> QED
    BY <2>2 DEF Lists!Settled
<1>4. NotOlder(listed, time, r) = Newer(listed, time, r) \cup {r} /\ r \notin Newer(listed, time, r)
  BY <1>1, <1>2, <1>3 DEF NotOlder, Newer
<1>5. Last(listed, time, r) = Rank(listed, time, r) + 1
  BY <1>2, <1>4, RankType, FS_AddElement DEF Last, Rank
<1> QED
  BY <1>1, <1>2, <1>5

\* What LIMIT k gives.
LEMMA FirstRowsAre ==
    ASSUME Lists!TypeOK, NEW k \in Nat, NEW S \in Lists!FirstRows(k)
    PROVE  /\ S \subseteq listed
           /\ \A r \in listed : /\ Rank(listed, time, r) >= k => r \notin S
                                /\ Last(listed, time, r) <= k => r \in S
                                /\ \A q \in S : time[r] > time[q] => r \in S
<1> DEFINE c == Cardinality(listed)
           m == IF k <= c THEN k ELSE c
           N(r) == Newer(listed, time, r)
           L(r) == NotOlder(listed, time, r)
<1>1. /\ IsFiniteSet(listed) /\ c \in Nat /\ m \in Nat /\ m <= k
      /\ \A r \in listed : time[r] \in Nat
  BY TableFacts
<1>2. S \subseteq listed /\ Cardinality(S) = m /\ \A r \in S, q \in listed \ S : time[q] <= time[r]
  BY ListsCardinality DEF Lists!FirstRows, Lists!kSubset
<1>3. IsFiniteSet(S)
  BY <1>1, <1>2, FS_Subset
<1>4. ASSUME NEW r \in S PROVE ~(Rank(listed, time, r) >= k)
  <2>1. N(r) \subseteq S \ {r}
    BY <1>1, <1>2 DEF Newer
  <2>2. IsFiniteSet(S \ {r}) /\ Cardinality(S \ {r}) = m - 1
    BY <1>2, <1>3, FS_RemoveElement
  <2>3. Cardinality(N(r)) <= Cardinality(S \ {r})
    BY <2>1, <2>2, FS_Subset
  <2>4. Rank(listed, time, r) \in Nat
    BY <1>1, RankType
  <2> QED
    BY <1>1, <2>2, <2>3, <2>4 DEF Rank
<1>5. ASSUME NEW r \in listed \ S PROVE ~(Last(listed, time, r) <= k)
  <2>1. m = k
    <3>1. CASE k <= c
      BY <3>1
    <3>2. CASE ~(k <= c)
      <4>1. Cardinality(S) = Cardinality(listed)
        BY <1>2, <3>2
      <4>2. listed = S
        BY <1>1, <1>2, <4>1, FS_Subset
      <4> QED
        BY <4>2
    <3> QED
      BY <3>1, <3>2
  <2>2. S \cup {r} \subseteq L(r)
    BY <1>1, <1>2 DEF NotOlder
  <2>3. IsFiniteSet(L(r)) /\ Cardinality(S \cup {r}) = m + 1
    BY <1>1, <1>2, <1>3, RankType, FS_AddElement
  <2>4. Cardinality(S \cup {r}) <= Cardinality(L(r))
    BY <2>2, <2>3, FS_Subset
  <2>5. Last(listed, time, r) \in Nat
    BY <1>1, RankType
  <2> QED
    BY <1>1, <2>1, <2>3, <2>4, <2>5 DEF Last
<1>6. \A r \in listed, q \in S : time[r] > time[q] => r \in S
  BY <1>1, <1>2
<1> QED
  BY <1>2, <1>4, <1>5, <1>6

\* The rows of a page.
LEMMA PageHolds ==
    ASSUME Lists!TypeOK, NEW rows \in Lists!Pages(page), NEW a, NEW b,
           a = (page - 1) * Size, b = page * Size
    PROVE  /\ a \in Nat /\ b = a + Size /\ rows \subseteq listed
           /\ \A r \in listed :
                /\ Rank(listed, time, r) >= b => r \notin rows
                /\ Last(listed, time, r) <= a => r \notin rows
                /\ Rank(listed, time, r) >= a /\ Last(listed, time, r) <= b => r \in rows
                /\ Rank(listed, time, r) >= a => \A q \in rows : time[r] > time[q] => r \in rows
<1>1. page - 1 \in Nat /\ Size \in Nat /\ page = (page - 1) + 1
  <2>1. page \in Nat \ {0} /\ Size \in Nat \ {0}
    BY TableFacts, ListConstants
  <2> QED
    BY <2>1
<1>2. a \in Nat /\ b \in Nat /\ b = a + Size
  BY <1>1
<1>3. PICK cut \in Lists!FirstRows(a) \X Lists!FirstRows(b) : rows = cut[2] \ cut[1]
  BY DEF Lists!Pages
<1>4. cut[1] \in Lists!FirstRows(a) /\ cut[2] \in Lists!FirstRows(b)
  BY <1>3
<1> DEFINE S == cut[1]
           T == cut[2]
<1> HIDE DEF S, T
<1>5. \A r \in listed : /\ Rank(listed, time, r) >= a => r \notin S
                        /\ Last(listed, time, r) <= a => r \in S
  BY <1>2, <1>4, FirstRowsAre DEF S
<1>6. /\ T \subseteq listed
      /\ \A r \in listed : /\ Rank(listed, time, r) >= b => r \notin T
                           /\ Last(listed, time, r) <= b => r \in T
                           /\ \A q \in T : time[r] > time[q] => r \in T
  BY <1>2, <1>4, FirstRowsAre DEF T
<1>7. rows = T \ S
  BY <1>3 DEF S, T
<1> QED
  BY <1>2, <1>5, <1>6, <1>7

LEMMA PassedFacts ==
    ASSUME Lists!TypeOK
    PROVE  /\ (page - 1) * Size \in Nat /\ page * Size = (page - 1) * Size + Size
           /\ Passed \in Nat /\ (client = "view" => Passed = (page - 1) * Size + Size)
           /\ (client # "view" => Passed = (page - 1) * Size)
<1>1. page \in Nat \ {0} /\ Size \in Nat \ {0}
  BY TableFacts, ListConstants
<1>2. (page - 1) * Size \in Nat /\ page * Size = (page - 1) * Size + Size
  <2>1. page - 1 \in Nat
    BY <1>1
  <2> QED
    BY <1>1, <2>1
<1> DEFINE a == (page - 1) * Size
           b == page * Size
<1> HIDE DEF a, b
<1>3. Passed = IF client = "view" THEN b ELSE a
  BY DEF Passed, a, b
<1> QED
  BY <1>1, <1>2, <1>3 DEF a, b

LEMMA ChangeFacts ==
    ASSUME Lists!TypeOK, Lists!Change
    PROVE  changes' \in 0..MaxChanges /\ quiet' = FALSE
<1>1. changes \in 0..MaxChanges
  BY DEF Lists!TypeOK
<1> QED
  BY <1>1, ListConstants DEF Lists!Change

LEMMA WalkStarts == Lists!Init => WalkInv
<1> SUFFICES ASSUME Lists!Init PROVE WalkInv
  OBVIOUS
<1> USE DEF Lists!Init
<1>1. Lists!TypeOK
  <2>1. First \in 0..MaxRows
    BY ListConstants
  <2>2. \E n \in 0..MaxRows : time \in [1..n -> 0..clock]
    BY <2>1
  <2>3. DOMAIN time \in SUBSET DOMAIN time /\ start \in [DOMAIN time -> 0..clock]
    OBVIOUS
  <2>4. \E S \in SUBSET DOMAIN time : start \in [S -> 0..clock]
    BY <2>3
  <2>5. /\ clock \in Nat /\ listed \subseteq DOMAIN time /\ screen \subseteq shown /\ shown \subseteq DOMAIN time
        /\ page \in Nat \ {0} /\ total \in 0..MaxRows /\ client \in {"load", "counted", "view"}
        /\ began \in 0..clock /\ changes \in 0..MaxChanges
    BY ListConstants
  <2>6. quiet \in BOOLEAN /\ list \in {"assets", "alerts", "events"}
    BY Zenon
  <2> QED
    BY Zenon, <2>2, <2>4, <2>5, <2>6 DEF Lists!TypeOK
<1>2. SinceBegan
  BY DEF SinceBegan
<1>3. Passed = 0
  BY ListConstants DEF Passed
<1>4. \A r : Rank(listed, time, r) \in Nat
  BY <1>1, TableFacts, RankType
<1>5. ToCome
  BY <1>3, <1>4 DEF ToCome
<1>6. Undisturbed
  BY ListConstants DEF Undisturbed, Seen
<1>7. Lists!NoGap
  BY DEF Lists!NoGap
<1> QED
  BY <1>1, <1>2, <1>5, <1>6, <1>7 DEF WalkInv

LEMMA OpenKeeps ==
    ASSUME WalkInv, Lists!Open
    PROVE  WalkInv'
<1> USE DEF Lists!Open, Lists!Begin, Lists!table
<1>1. Lists!TypeOK /\ UNCHANGED <<list, time, clock, listed, total, changes>>
  BY DEF WalkInv
<1>2. Lists!TypeOK'
  <2>1. listed \in SUBSET DOMAIN time /\ start' \in [listed -> 0..clock] /\ began' \in 0..clock'
    BY <1>1, TableFacts
  <2>2. (\E S \in SUBSET DOMAIN time : start \in [S -> 0..clock])'
    BY <1>1, <2>1
  <2>3. (\E n \in 0..MaxRows : time \in [1..n -> 0..clock])'
    BY <1>1 DEF Lists!TypeOK
  <2>4. quiet' \in BOOLEAN
    BY Zenon
  <2>5. /\ clock' \in Nat /\ listed' \subseteq DOMAIN time' /\ screen' \subseteq shown'
        /\ shown' \subseteq DOMAIN time' /\ page' \in Nat \ {0} /\ total' \in 0..MaxRows
        /\ client' \in {"load", "counted", "view"} /\ list' \in {"assets", "alerts", "events"}
        /\ changes' \in 0..MaxChanges
    BY <1>1 DEF Lists!TypeOK
  <2> QED
    BY Zenon, <2>1, <2>2, <2>3, <2>4, <2>5 DEF Lists!TypeOK
<1>3. SinceBegan'
  BY <1>1 DEF SinceBegan
<1>4. Passed' = 0
  BY ListConstants DEF Passed
<1>5. \A r : Rank(listed, time, r)' \in Nat
  BY <1>1, TableFacts, RankType
<1>6. Lists!NoGap'
  BY DEF Lists!NoGap
<1>7. ToCome'
  BY <1>4, <1>5 DEF ToCome
<1>8. Undisturbed'
  BY ListConstants DEF Undisturbed, Seen
<1> QED
  BY <1>2, <1>3, <1>6, <1>7, <1>8 DEF WalkInv

LEMMA CountKeeps ==
    ASSUME WalkInv, Lists!Count
    PROVE  WalkInv'
<1> USE DEF Lists!Count, Lists!table
<1>1. Lists!TypeOK /\ UNCHANGED <<list, time, clock, listed, page, screen, shown, start, began, quiet, changes>>
  BY DEF WalkInv
<1>2. total' = Cardinality(listed) /\ client' = "counted" /\ client = "load"
  BY ListsCardinality
<1>3. Lists!TypeOK'
  <2>1. total' \in 0..MaxRows
    BY <1>1, <1>2, TableFacts
  <2> QED
    BY <1>1, <1>2, <2>1 DEF Lists!TypeOK
<1>4. Passed' = Passed
  BY <1>1, <1>2 DEF Passed
<1>5. SinceBegan' /\ Lists!NoGap' /\ ToCome'
  BY <1>1, <1>4 DEF WalkInv, SinceBegan, Lists!NoGap, Lists!Settled, ToCome
<1>6. Undisturbed'
  BY <1>1, <1>2 DEF WalkInv, Undisturbed, Seen
<1> QED
  BY <1>3, <1>5, <1>6 DEF WalkInv

LEMMA TurnKeeps ==
    ASSUME WalkInv, Lists!Turn
    PROVE  WalkInv'
<1> USE DEF Lists!Turn, Lists!table
<1>1. /\ Lists!TypeOK
      /\ UNCHANGED <<list, time, clock, listed, total, screen, shown, start, began, quiet, changes>>
  BY DEF WalkInv
<1>2. client = "view" /\ client' = "load" /\ page' = page + 1 /\ page \in Nat
  BY <1>1, TableFacts
<1>3. Lists!TypeOK'
  <2>1. page' \in Nat \ {0}
    BY <1>2
  <2> QED
    BY <1>1, <1>2, <2>1 DEF Lists!TypeOK
<1>4. Passed' = Passed
  <2>1. page' - 1 = page
    BY <1>2
  <2> QED
    BY <1>2, <2>1 DEF Passed
<1>5. SinceBegan' /\ Lists!NoGap' /\ ToCome'
  BY <1>1, <1>4 DEF WalkInv, SinceBegan, Lists!NoGap, Lists!Settled, ToCome
<1>6. Undisturbed'
  <2>1. \A p \in 1..MaxRows : p < page' <=> p < page \/ p = page
    BY <1>2, ListConstants
  <2> QED
    BY <1>1, <1>2, <2>1 DEF WalkInv, Undisturbed, Seen
<1> QED
  BY <1>3, <1>5, <1>6 DEF WalkInv

\* The answer brings the rows that come next.
LEMMA DataKeeps ==
    ASSUME WalkInv, Lists!Data
    PROVE  WalkInv'
<1>1. /\ Lists!TypeOK /\ UNCHANGED <<list, time, clock, listed, page, total, start, began, quiet, changes>>
      /\ client = "counted" /\ client' = "view"
  BY DEF WalkInv, Lists!Data, Lists!table
<1>2. PICK rows \in Lists!Pages(page) : screen' = rows /\ shown' = shown \cup rows
  BY DEF Lists!Data
<1> DEFINE R(r) == Rank(listed, time, r)
           L(r) == Last(listed, time, r)
           a == (page - 1) * Size
           b == page * Size
<1>3. Passed = a /\ Passed' = b
  BY <1>1 DEF Passed
<1>4. /\ a \in Nat /\ b = a + Size /\ rows \subseteq listed
      /\ \A r \in listed :
           /\ R(r) >= b => r \notin rows
           /\ L(r) <= a => r \notin rows
           /\ R(r) >= a /\ L(r) <= b => r \in rows
           /\ R(r) >= a => \A q \in rows : time[r] > time[q] => r \in rows
  BY <1>1, PageHolds
<1>5. /\ \A r : R(r) \in Nat /\ L(r) \in Nat
      /\ listed \subseteq DOMAIN time /\ IsFiniteSet(listed) /\ page \in Nat \ {0}
  BY <1>1, TableFacts, RankType
<1>6. \A r \in listed, p \in 1..MaxRows :
        (p - 1) * Size <= R(r) /\ L(r) <= p * Size => (r \in rows <=> p = page)
  <2> SUFFICES ASSUME NEW r \in listed, NEW p \in 1..MaxRows,
                      (p - 1) * Size <= R(r), L(r) <= p * Size
               PROVE  r \in rows <=> p = page
    OBVIOUS
  <2>1. p \in Nat /\ p - 1 \in Nat /\ page \in Nat /\ page - 1 \in Nat
    BY <1>5, ListConstants
  <2>2. CASE p = page
    BY <1>4, <2>2
  <2>3. CASE p < page
    <3>1. p <= page - 1
      BY <2>1, <2>3
    <3>2. p * Size \in Nat /\ p * Size <= a
      BY <2>1, <3>1, SizeMonotonic
    <3>3. L(r) <= a
      <4> HIDE DEF a, L
      <4> QED
        BY <1>4, <1>5, <3>2
    <3> QED
      BY <1>4, <2>3, <3>3, <2>1
  <2>4. CASE p > page
    <3>1. page <= p - 1
      BY <2>1, <2>4
    <3>2. (p - 1) * Size \in Nat /\ b \in Nat /\ b <= (p - 1) * Size
      BY <2>1, <3>1, SizeMonotonic
    <3>3. R(r) >= b
      <4> DEFINE e == (p - 1) * Size
      <4>1. e \in Nat /\ b \in Nat /\ b <= e /\ e <= R(r) /\ R(r) \in Nat
        BY <1>5, <3>2
      <4> HIDE DEF b, e, R
      <4> QED
        BY <4>1
    <3> QED
      BY <1>4, <2>4, <3>3, <2>1
  <2> QED
    BY <2>1, <2>2, <2>3, <2>4
<1> HIDE DEF R, L, a, b
<1>7. Lists!TypeOK'
  <2>1. rows \subseteq DOMAIN time
    BY <1>4, <1>5
  <2> QED
    BY <1>1, <1>2, <2>1 DEF Lists!TypeOK
<1>8. Lists!Settled' = Lists!Settled
  BY <1>1 DEF Lists!Settled
<1>9. \A r \in Lists!Settled : r \in listed /\ L(r) = R(r) + 1
  BY SettledFacts DEF L, R
<1>10. \A r \in Lists!Settled : r \notin shown => R(r) >= a
  BY <1>3 DEF WalkInv, ToCome, R
<1>11. \A r \in Lists!Settled : r \notin shown' => R(r) >= b
  <2> SUFFICES ASSUME NEW r \in Lists!Settled, r \notin shown, r \notin rows PROVE R(r) >= b
    BY <1>2
  <2>1. ~(L(r) <= b)
    BY <1>4, <1>9, <1>10
  <2> QED
    BY <1>4, <1>5, <1>9, <2>1, ListConstants
<1>12. ToCome'
  BY <1>1, <1>3, <1>8, <1>11 DEF ToCome, R
<1>13. Lists!NoGap'
  <2> SUFFICES ASSUME NEW r \in Lists!Settled, NEW q \in shown' \cap listed, time[r] > time[q], r \notin shown
               PROVE  r \in rows
    BY <1>1, <1>2, <1>8 DEF Lists!NoGap
  <2>1. q \notin shown
    BY DEF WalkInv, Lists!NoGap
  <2> QED
    BY <1>2, <1>4, <1>9, <1>10, <2>1
<1>14. SinceBegan'
  BY <1>1 DEF WalkInv, SinceBegan
<1>15. Undisturbed'
  <2> SUFFICES ASSUME quiet
               PROVE  /\ total = Cardinality(listed)
                      /\ \A r \in listed, p \in 1..MaxRows :
                           (p - 1) * Size <= R(r) /\ L(r) <= p * Size => Seen(r, p)'
    BY <1>1 DEF Undisturbed, R, L
  <2>1. total = Cardinality(listed)
    BY <1>1 DEF WalkInv, Undisturbed
  <2> SUFFICES ASSUME NEW r \in listed, NEW p \in 1..MaxRows, (p - 1) * Size <= R(r), L(r) <= p * Size
               PROVE  Seen(r, p)'
    BY <2>1
  <2>2. r \in shown <=> p < page
    BY <1>1 DEF WalkInv, Undisturbed, Seen, R, L
  <2>3. r \in rows <=> p = page
    BY <1>6
  <2> QED
    BY <1>1, <1>2, <2>2, <2>3 DEF Seen
<1> QED
  BY <1>7, <1>12, <1>13, <1>14, <1>15 DEF WalkInv

\* New rows come before all that are older than the walk.
LEMMA InsertKeeps ==
    ASSUME WalkInv, Lists!Insert
    PROVE  WalkInv'
<1> DEFINE n == Cardinality(DOMAIN time)
<1>1. /\ Lists!TypeOK /\ UNCHANGED <<list, page, total, client, screen, shown, start, began>>
      /\ changes' \in 0..MaxChanges /\ quiet' = FALSE
  BY ChangeFacts DEF WalkInv, Lists!Insert
<1>2. PICK k \in Nat, t \in {clock, clock + 1} :
        /\ n + k <= MaxRows
        /\ time' = [r \in 1..(n + k) |-> IF r \in DOMAIN time THEN time[r] ELSE t]
        /\ listed' = listed \cup (n + 1)..(n + k)
        /\ clock' = t
  BY ListsCardinality, ListConstants DEF Lists!Insert, Lists!Now
<1>3. /\ n \in 0..MaxRows /\ DOMAIN time = 1..n /\ clock \in Nat /\ \A r \in 1..n : time[r] \in 0..clock
      /\ listed \subseteq 1..n /\ shown \subseteq 1..n /\ began \in 0..clock /\ IsFiniteSet(listed)
      /\ DOMAIN start \subseteq 1..n /\ \A r \in DOMAIN start : start[r] \in 0..clock
  BY <1>1, TableFacts
<1> HIDE DEF n
<1>4. /\ DOMAIN time' = 1..(n + k) /\ 1..n \subseteq 1..(n + k) /\ (n + 1)..(n + k) \subseteq 1..(n + k)
      /\ n + k \in 0..MaxRows /\ clock' \in Nat /\ clock <= clock' /\ 0..clock \subseteq 0..clock'
      /\ IsFiniteSet(listed')
  <2>1. IsFiniteSet((n + 1)..(n + k))
    BY <1>3, FS_Interval
  <2>2. IsFiniteSet(listed')
    BY <1>2, <1>3, <2>1, FS_Union
  <2> QED
    BY <1>2, <1>3, <2>2, ListConstants
<1>5. /\ \A r \in 1..n : time'[r] = time[r]
      /\ \A r \in listed' : r \in listed \/ time'[r] = clock'
  BY <1>2, <1>3, <1>4
<1>6. Lists!TypeOK'
  <2>1. time' \in [1..(n + k) -> 0..clock']
    BY <1>2, <1>3, <1>4
  <2>2. (\E m \in 0..MaxRows : time \in [1..m -> 0..clock])'
    BY <1>4, <2>1
  <2>3. PICK S \in SUBSET DOMAIN time : start \in [S -> 0..clock]
    BY <1>1 DEF Lists!TypeOK
  <2>4. S \in SUBSET DOMAIN time' /\ start' \in [S -> 0..clock']
    BY <1>1, <1>3, <1>4, <2>3
  <2>5. (\E T \in SUBSET DOMAIN time : start \in [T -> 0..clock])'
    BY <2>4
  <2>6. listed' \subseteq DOMAIN time' /\ shown' \subseteq DOMAIN time' /\ began' \in 0..clock'
    BY <1>1, <1>2, <1>3, <1>4
  <2> QED
    BY <1>1, <1>4, <2>2, <2>5, <2>6 DEF Lists!TypeOK
<1>7. SinceBegan'
  <2> SUFFICES ASSUME NEW q \in listed'
               PROVE  time'[q] >= began \/ (q \in DOMAIN start /\ time'[q] = start[q])
    BY <1>1 DEF SinceBegan
  <2>1. CASE q \in listed
    <3>1. time'[q] = time[q]
      BY <1>3, <1>5, <2>1
    <3> QED
      BY <2>1, <3>1 DEF WalkInv, SinceBegan
  <2>2. CASE time'[q] = clock'
    BY <1>3, <1>4, <2>2
  <2> QED
    BY <1>5, <2>1, <2>2
<1>8. Lists!Settled' \subseteq Lists!Settled
  <2> SUFFICES ASSUME NEW r \in Lists!Settled' PROVE r \in Lists!Settled
    OBVIOUS
  <2>1. r \in DOMAIN start /\ r \in listed' /\ time'[r] = start[r] /\ start[r] < began
        /\ \A q \in DOMAIN start : start[q] = start[r] => q = r
    BY <1>1 DEF Lists!Settled
  <2>2. time'[r] # clock'
    BY <1>3, <1>4, <2>1
  <2>3. r \in listed /\ time[r] = start[r]
    BY <1>3, <1>5, <2>1, <2>2
  <2> QED
    BY <2>1, <2>3 DEF Lists!Settled
<1>9. \A r \in Lists!Settled : /\ Rank(listed, time, r) <= Rank(listed', time', r)
                               /\ Rank(listed, time, r) \in Nat /\ Rank(listed', time', r) \in Nat
  <2> SUFFICES ASSUME NEW r \in Lists!Settled
               PROVE  /\ Rank(listed, time, r) <= Rank(listed', time', r)
                      /\ Rank(listed, time, r) \in Nat /\ Rank(listed', time', r) \in Nat
    OBVIOUS
  <2>1. r \in listed
    BY DEF Lists!Settled
  <2>2. Newer(listed, time, r) \subseteq Newer(listed', time', r)
    BY <1>2, <1>3, <1>5, <2>1 DEF Newer
  <2> QED
    BY <1>3, <1>4, <2>2, RankGrows, RankType
<1>10. Passed' = Passed /\ Passed \in Nat
  BY <1>1, PassedFacts DEF Passed
<1>11. ToCome'
  <2> SUFFICES ASSUME NEW r \in Lists!Settled', r \notin shown' PROVE Rank(listed', time', r) >= Passed'
    BY DEF ToCome
  <2>1. Rank(listed, time, r) >= Passed
    BY <1>1, <1>8 DEF WalkInv, ToCome
  <2> QED
    BY <1>8, <1>9, <1>10, <2>1
<1>12. Lists!NoGap'
  <2> SUFFICES ASSUME NEW r \in Lists!Settled', NEW q \in shown' \cap listed', time'[r] > time'[q]
               PROVE  r \in shown'
    BY DEF Lists!NoGap
  <2>1. q \in shown /\ q \in 1..n /\ r \in Lists!Settled /\ r \in 1..n /\ time'[r] = start[r] /\ start[r] \in 0..clock
    BY <1>1, <1>3, <1>8 DEF Lists!Settled
  <2>2. time'[q] # clock'
    BY <1>3, <1>4, <1>5, <2>1
  <2>3. q \in listed
    BY <1>5, <2>2
  <2> QED
    BY <1>1, <1>5, <2>1, <2>3 DEF WalkInv, Lists!NoGap
<1>13. Undisturbed'
  BY <1>1 DEF Undisturbed
<1> QED
  BY <1>6, <1>7, <1>11, <1>12, <1>13 DEF WalkInv

\* A touched row comes before all that are older than the walk, and is not settled.
LEMMA TouchKeeps ==
    ASSUME WalkInv, NEW x \in DOMAIN time, Lists!Touch(x)
    PROVE  WalkInv'
<1>1. /\ Lists!TypeOK /\ UNCHANGED <<list, listed, page, total, client, screen, shown, start, began>>
      /\ changes' \in 0..MaxChanges /\ quiet' = FALSE
  BY ChangeFacts DEF WalkInv, Lists!Touch
<1>2. PICK t \in {clock, clock + 1} : time' = [time EXCEPT ![x] = t] /\ clock' = t
  BY DEF Lists!Touch, Lists!Now
<1>3. /\ clock \in Nat /\ \A r \in DOMAIN time : time[r] \in 0..clock
      /\ listed \subseteq DOMAIN time /\ shown \subseteq DOMAIN time /\ IsFiniteSet(listed)
      /\ DOMAIN start \subseteq DOMAIN time /\ \A r \in DOMAIN start : start[r] \in 0..clock
      /\ began \in 0..clock
  BY <1>1, TableFacts
<1>4. /\ DOMAIN time' = DOMAIN time /\ time'[x] = clock'
      /\ \A r \in DOMAIN time : r # x => time'[r] = time[r]
      /\ clock' \in Nat /\ clock <= clock' /\ 0..clock \subseteq 0..clock'
  BY <1>2, <1>3
<1>5. Lists!TypeOK'
  <2>1. PICK n \in 0..MaxRows : time \in [1..n -> 0..clock]
    BY <1>1 DEF Lists!TypeOK
  <2>2. time' \in [1..n -> 0..clock']
    BY <1>2, <1>4, <2>1
  <2>3. PICK S \in SUBSET DOMAIN time : start \in [S -> 0..clock]
    BY <1>1 DEF Lists!TypeOK
  <2>4. start' \in [S -> 0..clock'] /\ S \in SUBSET DOMAIN time'
    BY <1>1, <1>4, <2>3
  <2>5. (\E m \in 0..MaxRows : time \in [1..m -> 0..clock])' /\ (\E T \in SUBSET DOMAIN time : start \in [T -> 0..clock])'
    BY <2>2, <2>4
  <2>6. began' \in 0..clock'
    BY <1>1, <1>3, <1>4
  <2> QED
    BY <1>1, <1>4, <2>5, <2>6 DEF Lists!TypeOK
<1>6. SinceBegan'
  <2> SUFFICES ASSUME NEW q \in listed
               PROVE  time'[q] >= began \/ (q \in DOMAIN start /\ time'[q] = start[q])
    BY <1>1 DEF SinceBegan
  <2>1. CASE q = x
    BY <1>3, <1>4, <2>1
  <2>2. CASE q # x
    <3>1. time'[q] = time[q]
      BY <1>3, <1>4, <2>2
    <3> QED
      BY <3>1 DEF WalkInv, SinceBegan
  <2> QED
    BY <2>1, <2>2
<1>7. Lists!Settled' \subseteq Lists!Settled \ {x}
  <2> SUFFICES ASSUME NEW r \in Lists!Settled' PROVE r \in Lists!Settled /\ r # x
    OBVIOUS
  <2>1. r \in DOMAIN start /\ r \in listed /\ time'[r] = start[r] /\ start[r] < began
        /\ \A q \in DOMAIN start : start[q] = start[r] => q = r
    BY <1>1 DEF Lists!Settled
  <2>2. r # x
    BY <1>3, <1>4, <2>1
  <2>3. time[r] = start[r]
    BY <1>3, <1>4, <2>1, <2>2
  <2> QED
    BY <2>1, <2>2, <2>3 DEF Lists!Settled
<1>8. \A r \in Lists!Settled \ {x} : /\ Rank(listed, time, r) <= Rank(listed', time', r)
                                     /\ Rank(listed, time, r) \in Nat /\ Rank(listed', time', r) \in Nat
  <2> SUFFICES ASSUME NEW r \in Lists!Settled \ {x}
               PROVE  /\ Rank(listed, time, r) <= Rank(listed', time', r)
                      /\ Rank(listed, time, r) \in Nat /\ Rank(listed', time', r) \in Nat
    OBVIOUS
  <2>1. r \in listed /\ time[r] \in Nat /\ time[r] < began /\ began <= clock
    BY SettledFacts
  <2>2. time'[r] = time[r] /\ clock' > time[r]
    BY <1>3, <1>4, <2>1
  <2>3. Newer(listed, time, r) \subseteq Newer(listed', time', r)
    BY <1>1, <1>3, <1>4, <2>1, <2>2 DEF Newer
  <2>4. IsFiniteSet(listed')
    BY <1>1, <1>3
  <2> QED
    BY <1>3, <2>3, <2>4, RankGrows, RankType
<1>9. Passed' = Passed /\ Passed \in Nat
  BY <1>1, PassedFacts DEF Passed
<1>10. ToCome'
  <2> SUFFICES ASSUME NEW r \in Lists!Settled', r \notin shown' PROVE Rank(listed', time', r) >= Passed'
    BY DEF ToCome
  <2>1. Rank(listed, time, r) >= Passed
    BY <1>1, <1>7 DEF WalkInv, ToCome
  <2> QED
    BY <1>7, <1>8, <1>9, <2>1
<1>11. Lists!NoGap'
  <2> SUFFICES ASSUME NEW r \in Lists!Settled', NEW q \in shown' \cap listed', time'[r] > time'[q]
               PROVE  r \in shown'
    BY DEF Lists!NoGap
  <2>1. q \in shown \cap listed /\ r \in Lists!Settled /\ r # x /\ r \in listed
    BY <1>1, <1>7, SettledFacts
  <2>2. time'[r] = time[r] /\ time[r] <= clock /\ time[r] \in Nat
    BY <1>3, <1>4, <2>1
  <2>3. q # x
    BY <1>3, <1>4, <2>2
  <2>4. time[r] > time[q]
    BY <1>3, <1>4, <2>1, <2>2, <2>3
  <2> QED
    BY <1>1, <2>1, <2>4 DEF WalkInv, Lists!NoGap
<1>12. Undisturbed'
  BY <1>1 DEF Undisturbed
<1> QED
  BY <1>5, <1>6, <1>10, <1>11, <1>12 DEF WalkInv

\* An acknowledged row makes room for one, and the page is loaded again.
LEMMA AcknowledgeKeeps ==
    ASSUME WalkInv, NEW x, Lists!Acknowledge(x)
    PROVE  WalkInv'
<1>1. /\ Lists!TypeOK /\ UNCHANGED <<list, time, clock, page, total, screen, shown, start, began>>
      /\ listed' = listed \ {x} /\ client = "view" /\ client' = "load" /\ quiet' = FALSE
      /\ changes' \in 0..MaxChanges
  BY ChangeFacts DEF WalkInv, Lists!Acknowledge
<1>2. Lists!TypeOK'
  BY <1>1 DEF Lists!TypeOK
<1>3. Lists!Settled' \subseteq Lists!Settled
  BY <1>1 DEF Lists!Settled
<1>4. SinceBegan' /\ Lists!NoGap'
  BY <1>1, <1>3 DEF WalkInv, SinceBegan, Lists!NoGap
<1>5. ToCome'
  <2> SUFFICES ASSUME NEW r \in Lists!Settled', r \notin shown' PROVE Rank(listed', time', r) >= Passed'
    BY DEF ToCome
  <2> DEFINE old == Rank(listed, time, r)
             new == Rank(listed', time', r)
             a   == (page - 1) * Size
  <2>1. old >= Passed
    BY <1>1, <1>3 DEF WalkInv, ToCome
  <2>2. new >= old - 1 /\ new \in Nat /\ old \in Nat
    <3>1. IsFiniteSet(listed) /\ IsFiniteSet(listed')
      BY <1>1, <1>2, TableFacts, FS_RemoveElement
    <3> QED
      BY <1>1, <3>1, RankDrops, RankType
  <2>3. Passed = a + Size /\ a \in Nat
    BY <1>1, PassedFacts
  <2>4. Passed' = a
    BY <1>1 DEF Passed
  <2> HIDE DEF old, new, a
  <2>5. new >= Passed'
    BY <2>1, <2>2, <2>3, <2>4, ListConstants
  <2> QED
    BY <2>5 DEF new
<1>6. Undisturbed'
  BY <1>1 DEF Undisturbed
<1> QED
  BY <1>2, <1>4, <1>5, <1>6 DEF WalkInv

LEMMA WalkKept == ASSUME WalkInv, Lists!Next PROVE WalkInv'
BY OpenKeeps, CountKeeps, DataKeeps, TurnKeeps, InsertKeeps, TouchKeeps, AcknowledgeKeeps DEF Lists!Next

\* Rounding up.
LEMMA PagesNeeded ==
    ASSUME NEW c \in Nat, NEW s \in Nat \ {0}
    PROVE  LET q == (c + s - 1) \div s
           IN  q \in Nat /\ q * s >= c /\ (q - 1) * s < c
<1> DEFINE d == c + s - 1
           q == d \div s
<1>1. d \in Nat
  OBVIOUS
<1>2. q \in Int /\ d < s * (q + 1) /\ s * q <= d
  <2> HIDE DEF d
  <2> QED
    BY <1>1
<1>3. q \in Nat
  <2> HIDE DEF d
  <2> QED
    BY <1>1
<1>4. s * (q + 1) = q * s + s /\ s * q = q * s /\ (q - 1) * s = q * s - s /\ q * s \in Nat
  <2> HIDE DEF q
  <2> QED
    BY <1>3
<1>5. q * s >= c /\ (q - 1) * s < c
  <2> DEFINE e == q * s
             f == (q - 1) * s
  <2>1. d < e + s /\ e <= d /\ f = e - s /\ e \in Nat
    BY <1>2, <1>4
  <2> HIDE DEF e, f, q
  <2>2. e >= c /\ f < c
    BY <2>1
  <2> QED
    BY <2>2 DEF e, f
<1> QED
  BY <1>3, <1>5

LEMMA WalkAddsUp == WalkInv => Lists!TypeOK /\ Lists!NoGap /\ Lists!PagesPartition
<1> SUFFICES ASSUME WalkInv, quiet, client = "view", NEW r \in listed, NEW p \in 1..MaxRows,
                    (p - 1) * Size <= Rank(listed, time, r), Last(listed, time, r) <= p * Size
             PROVE  /\ r \in screen <=> page = p
                    /\ page >= Lists!TotalPages(total) => r \in shown
  BY BelongsMeans DEF WalkInv, Lists!PagesPartition
<1> DEFINE R == Rank(listed, time, r)
           t == Lists!TotalPages(total)
<1>1. Lists!TypeOK /\ total = Cardinality(listed) /\ Seen(r, p)
  BY DEF WalkInv, Undisturbed
<1>2. R < total /\ R \in Nat /\ total \in Nat
  <2>1. IsFiniteSet(listed) /\ total \in Nat /\ time[r] \in Nat
    BY <1>1, TableFacts
  <2>2. Newer(listed, time, r) \subseteq listed \ {r}
    BY <2>1 DEF Newer
  <2>3. Cardinality(listed \ {r}) = total - 1 /\ IsFiniteSet(listed \ {r})
    BY <1>1, <2>1, FS_RemoveElement
  <2>4. R <= total - 1 /\ R \in Nat
    BY <2>1, <2>2, <2>3, FS_Subset, RankType DEF Rank
  <2> HIDE DEF R
  <2> QED
    BY <2>1, <2>4
<1>3. t \in Nat /\ t * Size >= total
  BY <1>2, PagesNeeded, ListConstants DEF Lists!TotalPages
<1>4. page \in Nat /\ p \in Nat /\ p - 1 \in Nat
  BY <1>1, TableFacts, ListConstants
<1>5. ASSUME page >= t PROVE p <= page
  <2> SUFFICES ASSUME page <= p - 1 PROVE FALSE
    BY <1>4
  <2> HIDE DEF t, R
  <2>1. t <= p - 1
    BY <1>3, <1>4, <1>5
  <2> DEFINE d == t * Size
             e == (p - 1) * Size
  <2>2. d <= e /\ d \in Nat /\ e \in Nat /\ d >= total
    BY <1>3, <1>4, <2>1, SizeMonotonic
  <2>3. e <= R
    BY DEF R
  <2> HIDE DEF d, e
  <2> QED
    BY <1>2, <2>2, <2>3
<1> QED
  BY <1>1, <1>4, <1>5 DEF Seen
-----------------------------------------------------------------------------
(* The numbers of a page.                                                  *)

LEMMA IntRange == Half \in Nat /\ MaxTotal \in Nat /\ MaxTotal + 20 < Half
BY Zenon, RestAssumption DEF Numbers!RangeAssumption

LEMMA WrapFacts ==
    ASSUME NEW n \in Int
    PROVE  /\ Numbers!Wrap(n) \in Numbers!Int32
           /\ Numbers!Fits(n) => Numbers!Wrap(n) = n
<1> DEFINE h == Half
           m == (n + h) % (2 * h)
<1>1. h \in Nat /\ h > 0
  BY IntRange
<1> HIDE DEF h
<1>2. m \in 0..(2 * h - 1)
  BY <1>1
<1>3. n + h \in 0..(2 * h - 1) => m = n + h
  BY <1>1
<1> HIDE DEF m
<1>4. m - h \in (-h)..(h - 1) /\ (n \in (-h)..(h - 1) => m - h = n)
  BY <1>1, <1>2, <1>3
<1>5. Numbers!Wrap(n) = m - h
  BY DEF Numbers!Wrap, m, h
<1> QED
  BY <1>4, <1>5 DEF Numbers!Int32, Numbers!Fits, h

\* Overflow on either side, by less than the range of int.
LEMMA WrapAround ==
    ASSUME NEW n \in Int
    PROVE  /\ n >= Half /\ n < 3 * Half => Numbers!Wrap(n) = n - 2 * Half
           /\ n < -Half /\ n >= -3 * Half => Numbers!Wrap(n) = n + 2 * Half
<1> DEFINE h == Half
           m == (n + h) % (2 * h)
<1>1. h \in Nat /\ h > 0
  BY IntRange
<1> HIDE DEF h
<1>2. n >= h /\ n < 3 * h => m = n - h
  BY <1>1
<1>3. n < -h /\ n >= -3 * h => m = n + 3 * h
  BY <1>1
<1>4. Numbers!Wrap(n) = m - h
  BY DEF Numbers!Wrap, m, h
<1> HIDE DEF m
<1>5. /\ n >= h /\ n < 3 * h => m - h = n - 2 * h
      /\ n < -h /\ n >= -3 * h => m - h = n + 2 * h
  BY <1>1, <1>2, <1>3
<1> QED
  BY <1>4, <1>5 DEF h

LEMMA DivideFacts ==
    ASSUME NEW n \in Numbers!Int32, NEW s \in Nat \ {0}
    PROVE  /\ Numbers!Divide(n, s) \in Numbers!Int32
           /\ n >= 0 => Numbers!Divide(n, s) = n \div s
           /\ n < 0 => Numbers!Divide(n, s) <= 0
<1>1. \A m \in Nat : m \div s \in 0..m
  <2> SUFFICES ASSUME NEW m \in Nat PROVE m \div s \in 0..m
    OBVIOUS
  <2> DEFINE q == m \div s
  <2>1. q \in Int /\ s * q <= m /\ m < s * (q + 1)
    OBVIOUS
  <2> HIDE DEF q
  <2>2. q >= 0
    BY <2>1
  <2>3. q <= s * q
    BY <2>1, <2>2
  <2>4. q \in 0..m
    BY <2>1, <2>2, <2>3
  <2> QED
    BY <2>4 DEF q
<1>2. Half \in Nat /\ n \in (-Half)..(Half - 1)
  BY IntRange DEF Numbers!Int32
<1>3. CASE n >= 0
  <2>1. n \div s \in 0..n
    BY <1>1, <1>2, <1>3
  <2>2. Numbers!Divide(n, s) = n \div s
    BY <1>3 DEF Numbers!Divide
  <2> QED
    BY <1>2, <1>3, <2>1, <2>2 DEF Numbers!Int32
<1>4. CASE ~(n >= 0)
  <2> DEFINE q == (-n) \div s
  <2>1. q \in 0..(-n)
    BY <1>1, <1>2, <1>4
  <2>2. Numbers!Divide(n, s) = -q
    BY <1>4 DEF Numbers!Divide
  <2> HIDE DEF q
  <2> QED
    BY <1>2, <1>4, <2>1, <2>2 DEF Numbers!Int32
<1> QED
  BY <1>3, <1>4

LEMMA ServeFacts ==
    ASSUME Numbers!TypeOK, Numbers!Serve
    PROVE  Numbers!TypeOK' /\ Numbers!RightIffFits'
<1> DEFINE pg == Numbers!Page(asked.page)
           sz == Numbers!PageSize(asked.size)
           offset == Numbers!Offset(pg, sz)
           pages == Numbers!TotalPages(count, sz)
<1>1. /\ asked \in [page : Numbers!Int32, size : Numbers!Int32] /\ count \in 0..MaxTotal
      /\ asked' = asked /\ count' = count
  BY DEF Numbers!TypeOK, Numbers!Serve
<1>2. reply' = IF offset < 0 THEN [kind |-> "error"]
               ELSE [kind |-> "rows", offset |-> offset, limit |-> sz, total_pages |-> pages]
  BY DEF Numbers!Serve
<1>3. asked.page \in Numbers!Int32 /\ asked.size \in Numbers!Int32
  BY <1>1
<1>4. pg \in 1..(Half - 1) /\ sz \in 1..(Half - 1) /\ count \in Nat
  BY <1>1, <1>3, IntRange DEF Numbers!Page, Numbers!PageSize, Numbers!Int32
<1>5. pg = IF asked.page < 1 THEN 1 ELSE asked.page
  BY DEF Numbers!Page
<1> HIDE DEF pg, sz
<1>6. pg \in Nat \ {0} /\ sz \in Nat \ {0} /\ Half \in Nat
  BY <1>4, IntRange
<1>7. offset \in Numbers!Int32 /\ offset = Numbers!Wrap((pg - 1) * sz)
  <2>1. Numbers!Fits(pg - 1) /\ pg - 1 \in Int
    BY <1>4, <1>6 DEF Numbers!Fits, Numbers!Int32
  <2>2. Numbers!Wrap(pg - 1) = pg - 1
    BY <2>1, WrapFacts
  <2>3. (pg - 1) * sz \in Int
    BY <1>6
  <2> QED
    BY <2>2, <2>3, WrapFacts DEF Numbers!Offset
<1>8. pages \in Numbers!Int32
  <2>1. count + sz \in Int
    BY <1>4, <1>6
  <2>2. Numbers!Wrap(count + sz) - 1 \in Int
    BY <1>6, <2>1, WrapFacts DEF Numbers!Int32
  <2>3. Numbers!Wrap(Numbers!Wrap(count + sz) - 1) \in Numbers!Int32
    BY <2>2, WrapFacts
  <2> QED
    BY <1>6, <2>3, DivideFacts DEF Numbers!TotalPages
<1> HIDE DEF offset, pages
<1>9. Numbers!TypeOK'
  <2>1. offset < 0 => reply' \in [kind : {"none", "error"}]
    BY <1>2
  <2>2. ~(offset < 0) => offset \in 0..(Half - 1)
    BY <1>6, <1>7 DEF Numbers!Int32
  <2>3. ~(offset < 0) => reply' \in [kind : {"rows"}, offset : 0..(Half - 1), limit : 1..(Half - 1),
                                    total_pages : Numbers!Int32]
    BY <1>2, <1>4, <1>8, <2>2
  <2>4. reply' \in Numbers!Answers
    BY <2>1, <2>3 DEF Numbers!Answers
  <2> QED
    BY <1>1, <2>4 DEF Numbers!TypeOK
<1> DEFINE o == (pg - 1) * sz
           l == count + sz - 1
<1>10. o \in Nat /\ l \in Nat
  <2>1. pg - 1 \in Nat
    BY <1>6
  <2> QED
    BY <1>4, <1>6, <2>1
<1>11. /\ Numbers!Fits(l) => pages = l \div sz
       /\ ~Numbers!Fits(l) => pages <= 0 /\ count > 0
  <2> DEFINE w == Numbers!Wrap(count + sz)
             v == Numbers!Wrap(w - 1)
  <2>1. /\ count \in Nat /\ sz \in Nat /\ sz > 0 /\ sz < Half /\ count < Half /\ Half \in Nat
        /\ count + sz \in Int /\ l = (count + sz) - 1
    BY <1>1, <1>4, <1>6, IntRange
  <2>2. count + sz < Half => w = count + sz
    BY <2>1, WrapFacts DEF Numbers!Fits, Numbers!Int32
  <2>3. count + sz >= Half => w = count + sz - 2 * Half
    BY <2>1, WrapAround
  <2> HIDE DEF w
  <2>4. w - 1 \in Int
    BY <2>1, <2>2, <2>3
  <2>5. /\ w - 1 \in Numbers!Int32 => v = w - 1
        /\ w - 1 < -Half /\ w - 1 >= -3 * Half => v = (w - 1) + 2 * Half
        /\ v \in Numbers!Int32
    BY <2>4, WrapFacts, WrapAround DEF Numbers!Fits
  <2> HIDE DEF v, l
  <2>6. Numbers!Fits(l) <=> l < Half
    BY <1>10, <2>1 DEF Numbers!Fits, Numbers!Int32
  <2>7. l < Half => v = l
    BY <2>1, <2>2, <2>3, <2>5 DEF Numbers!Int32
  <2>8. l >= Half => v < 0 /\ count > 0
    BY <2>1, <2>3, <2>5 DEF Numbers!Int32
  <2>9. pages = Numbers!Divide(v, sz)
    BY DEF Numbers!TotalPages, pages, v, w
  <2>10. CASE l < Half
    BY <1>6, <1>10, <2>5, <2>6, <2>7, <2>9, <2>10, DivideFacts
  <2>11. CASE l >= Half
    BY <1>6, <2>1, <2>5, <2>6, <2>8, <2>9, <2>11, DivideFacts
  <2> QED
    BY <1>10, <2>1, <2>10, <2>11
<1>12. Numbers!Fits(l) => pages * sz >= count /\ (pages - 1) * sz < count
  BY <1>4, <1>6, <1>11, PagesNeeded
<1>13. Numbers!Fits(o) <=> offset = o
  <2>1. Numbers!Fits(o) => offset = o
    BY <1>7, <1>10, WrapFacts
  <2> HIDE DEF o
  <2>2. offset = o => Numbers!Fits(o)
    BY <1>7 DEF Numbers!Fits
  <2> QED
    BY <2>1, <2>2
<1>14. (asked.page >= 1 => o = (asked.page - 1) * sz) /\ (asked.page < 1 => o = 0) /\ asked.page \in Int
  <2>1. asked.page \in Int
    BY <1>3, <1>6 DEF Numbers!Int32
  <2>2. CASE asked.page < 1
    <3>1. pg = 1
      BY <1>5, <2>2
    <3> QED
      BY <1>6, <2>1, <2>2, <3>1
  <2>3. CASE asked.page >= 1
    <3>1. pg = asked.page
      BY <1>5, <2>1, <2>3
    <3> QED
      BY <2>1, <2>3, <3>1
  <2> QED
    BY <2>1, <2>2, <2>3
<1> HIDE DEF o, l
<1>15. ASSUME Numbers!Fits(o), Numbers!Fits(l)
       PROVE  Numbers!InPlace'
  <2>1. reply' = [kind |-> "rows", offset |-> o, limit |-> sz, total_pages |-> pages]
    BY <1>2, <1>10, <1>13, <1>15
  <2>2. reply'.kind = "rows" /\ reply'.offset = o /\ reply'.limit = sz /\ reply'.total_pages = pages
    BY <2>1
  <2> QED
    BY Zenon, <1>1, <1>12, <1>14, <1>15, <2>2 DEF Numbers!InPlace
<1>16. ASSUME Numbers!InPlace'
       PROVE  Numbers!Fits(o) /\ Numbers!Fits(l)
  <2>1. reply'.kind = "rows"
    BY <1>16 DEF Numbers!InPlace
  <2>2. reply' = [kind |-> "rows", offset |-> offset, limit |-> sz, total_pages |-> pages]
    BY <1>2, <2>1
  <2>3. reply'.offset = offset /\ reply'.limit = sz /\ reply'.total_pages = pages
    BY <2>2
  <2>4. /\ asked.page >= 1 => offset = (asked.page - 1) * sz
        /\ asked.page < 1 => offset = 0
        /\ pages * sz >= count
    BY Zenon, <1>1, <1>16, <2>3 DEF Numbers!InPlace
  <2>5. offset = o
    BY <1>14, <2>4
  <2>6. Numbers!Fits(l)
    <3> SUFFICES ASSUME ~Numbers!Fits(l) PROVE FALSE
      OBVIOUS
    <3>1. pages <= 0 /\ count > 0 /\ pages \in Int /\ sz \in Nat /\ count \in Nat
      BY <1>4, <1>6, <1>8, <1>11 DEF Numbers!Int32
    <3>2. pages * sz <= 0
      BY <3>1
    <3> QED
      BY <2>4, <3>1, <3>2
  <2> QED
    BY <1>13, <2>5, <2>6
<1>17. Numbers!RightIffFits'
  BY Zenon, <1>1, <1>15, <1>16 DEF Numbers!RightIffFits, pg, sz, o, l
<1> QED
  BY <1>9, <1>17

NumbersInv == Numbers!TypeOK /\ Numbers!RightIffFits

LEMMA NumbersStart == Numbers!Init => NumbersInv
<1> SUFFICES ASSUME Numbers!Init PROVE NumbersInv
  OBVIOUS
<1>1. reply = [kind |-> "none"]
  BY DEF Numbers!Init
<1>2. reply \in Numbers!Answers /\ reply.kind = "none"
  BY <1>1 DEF Numbers!Answers
<1> QED
  BY <1>2 DEF Numbers!Init, NumbersInv, Numbers!TypeOK, Numbers!RightIffFits

LEMMA NumbersKept == ASSUME NumbersInv, Numbers!Next PROVE NumbersInv'
BY ServeFacts DEF NumbersInv, Numbers!Next
-----------------------------------------------------------------------------
PagesInv ==
    /\ part \in {"handlers", "walk", "numbers"}
    /\ part = "walk" => WalkInv
    /\ part = "numbers" => NumbersInv

LEMMA PagesInvariant == RestSpec => []PagesInv
<1>1. RestInit => PagesInv
  BY WalkStarts, NumbersStart DEF RestInit, PagesInv
<1>2. PagesInv /\ [RestNext]_<<part, vars, walk, request>> => PagesInv'
  <2> SUFFICES ASSUME PagesInv, [RestNext]_<<part, vars, walk, request>> PROVE PagesInv'
    OBVIOUS
  <2>1. part' = part
    BY DEF RestNext, Handle, Walk, Compute, Computed
  <2>2. (part = "walk" /\ Lists!Next) \/ UNCHANGED walk \/ part # "walk"
    BY DEF RestNext, Handle, Walk, Compute, Computed
  <2>3. (part = "numbers" /\ Numbers!Next) \/ UNCHANGED request \/ part # "numbers"
    BY DEF RestNext, Handle, Walk, Compute, Computed
  <2>4. ASSUME WalkInv, UNCHANGED walk PROVE WalkInv'
    <3>1. UNCHANGED <<list, time, clock, listed, page, total, client, screen, shown, start, began, quiet, changes>>
      BY <2>4 DEF walk
    <3>2. Lists!TypeOK' /\ SinceBegan'
      BY <2>4, <3>1 DEF WalkInv, Lists!TypeOK, SinceBegan
    <3>3. Lists!NoGap' /\ ToCome' /\ Undisturbed'
      BY <2>4, <3>1 DEF WalkInv, Lists!NoGap, Lists!Settled, ToCome, Undisturbed, Seen, Passed
    <3> QED
      BY <3>2, <3>3 DEF WalkInv
  <2>5. ASSUME NumbersInv, UNCHANGED request PROVE NumbersInv'
    BY <2>5 DEF request, NumbersInv, Numbers!TypeOK, Numbers!RightIffFits, Numbers!InPlace
  <2> QED
    BY <2>1, <2>2, <2>3, <2>4, <2>5, WalkKept, NumbersKept DEF PagesInv
<1> QED
  BY <1>1, <1>2, PTL DEF RestSpec

\* The pages of a list add up, for any length of the list, any page size, any ties and any
\* changes while a client walks through them: no settled row is passed over, and while
\* nothing changes a row is on the page that it belongs on. An answer is the page that was
\* asked for if and only if two numbers fit into int, whatever its range (get_alerts_paged
\* and its like, GET /api/alerts, renderPagination).
THEOREM PagesAddUpCorrect == RestSpec => []PagesAddUp
<1>1. PagesInv => PagesAddUp
  BY WalkAddsUp DEF PagesInv, NumbersInv, PagesAddUp
<1> QED
  BY <1>1, PagesInvariant, PTL
=============================================================================
