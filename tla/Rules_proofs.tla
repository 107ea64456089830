----------------------------- MODULE Rules_proofs -----------------------------
(***************************************************************************)
(* Proofs about the detection rules and the events they get: that the      *)
(* window of the ARP spoofing rule never forgets a claim too early, for    *)
(* any network, window and threshold; that the tracker in front of it      *)
(* swallows no announcement that the rule would have needed (ArpClaims),   *)
(* for any debounce time and thresholds up to two; and what the watchlist  *)
(* rule makes of its copy, for any addresses, time to live and rows.       *)
(***************************************************************************)
EXTENDS Rules, Integers, FiniteSetTheorems, FunctionTheorems,
        WellFoundedInduction, TLAPS

\* The part of the type invariant that is inductive by itself; the bound on the
\* length of the deque follows from TrackedOnce.
TypeBase ==
    /\ now \in Nat
    /\ dq \in Seq(Claim)
    /\ alert \in BOOLEAN
    /\ lastClaim \in [Mac -> Nat \cup {Never}]

IndInv == TypeBase /\ TrackedOnce /\ ClaimantsTracked

Distinct(s) == \A j, k \in DOMAIN s : s[j].mac = s[k].mac => j = k

\* A set of naturals that is not empty has a least element; it is the set whose
\* interval 1..n is minimal for inclusion.
LEMMA LeastNat ==
    ASSUME NEW S \in SUBSET Nat, S # {}
    PROVE  \E n \in S : \A k \in S : n <= k
<1>1. PICK m \in S : TRUE
  OBVIOUS
<1> DEFINE D == 1..m
           T == {1..n : n \in {j \in S : j <= m}}
           R == StrictSubsetOrdering(D)
<1>2. IsWellFoundedOn(R, FiniteSubsetsOf(D))
  BY FS_StrictSubsetOrderingWellFounded
<1>3. T # {}
  BY <1>1
<1>4. T \subseteq FiniteSubsetsOf(D)
  <2> SUFFICES ASSUME NEW n \in S, n <= m PROVE 1..n \in FiniteSubsetsOf(D)
    OBVIOUS
  <2>1. IsFiniteSet(1..n)
    BY FS_Interval
  <2>2. 1..n \subseteq 1..m
    OBVIOUS
  <2> QED BY <2>1, <2>2 DEF FiniteSubsetsOf
<1>5. PICK x \in T : \A y \in T : ~ (<<y, x>> \in R)
  <2> HIDE DEF T, R, D
  <2> QED BY <1>2, <1>3, <1>4, WFMin
<1>6. PICK n \in S : n <= m /\ x = 1..n
  OBVIOUS
<1>7. ASSUME NEW k \in S, k < n PROVE FALSE
  <2>1. 1..k \in T
    BY <1>6, <1>7
  <2>2. 1..k \subseteq 1..n /\ n \in 1..n /\ n \notin 1..k
    BY <1>6, <1>7
  <2>3. 1..k \in SUBSET D /\ 1..n \in SUBSET D
    BY <1>6, <1>7
  <2>4. <<1..k, 1..n>> \in R
    BY <2>2, <2>3 DEF StrictSubsetOrdering
  <2> QED BY <1>5, <1>6, <2>1, <2>4
<1> QED BY <1>6, <1>7

\* The entries of a deque of claims, and their devices.
LEMMA EntriesOf ==
    ASSUME NEW s \in Seq(Claim)
    PROVE  /\ Len(s) \in Nat /\ DOMAIN s = 1..Len(s)
           /\ \A k \in DOMAIN s : s[k] \in Claim
           /\ \A k \in DOMAIN s : s[k].mac \in Mac
           /\ MacsOf(s) \subseteq Mac
<1>1. Len(s) \in Nat /\ DOMAIN s = 1..Len(s) /\ \A k \in DOMAIN s : s[k] \in Claim
  OBVIOUS
<1>2. \A k \in DOMAIN s : s[k].mac \in Mac
  BY <1>1 DEF Claim
<1> QED BY <1>1, <1>2 DEF MacsOf

\* The loop of prune stops: there is a first entry that is kept, or the end of
\* the deque, and everything before it is stale.
LEMMA FirstKeptFacts ==
    ASSUME NEW s \in Seq(Claim)
    PROVE  /\ FirstKept(s) \in 1..(Len(s) + 1)
           /\ \A j \in 1..(FirstKept(s) - 1) : Stale(s[j].ts)
<1> DEFINE S == {k \in 1..(Len(s) + 1) : k <= Len(s) => ~Stale(s[k].ts)}
           Kept(k) == /\ \A j \in 1..(k - 1) : Stale(s[j].ts)
                      /\ k <= Len(s) => ~Stale(s[k].ts)
<1>1. Len(s) \in Nat
  OBVIOUS
<1>2. S \in SUBSET Nat /\ Len(s) + 1 \in S
  BY <1>1
<1>3. PICK n \in S : \A k \in S : n <= k
  <2> HIDE DEF S
  <2> QED BY <1>2, LeastNat
<1>4. n \in 1..(Len(s) + 1) /\ Kept(n)
  <2>1. ASSUME NEW j \in 1..(n - 1) PROVE Stale(s[j].ts)
    <3>1. j \in 1..(Len(s) + 1) /\ ~(n <= j)
      BY <1>1, <1>3
    <3>2. j \notin S
      BY <3>1, <1>3
    <3> QED BY <3>1, <3>2
  <2> QED BY <2>1
<1>5. FirstKept(s) = CHOOSE k \in 1..(Len(s) + 1) : Kept(k)
  BY DEF FirstKept
<1> QED BY <1>4, <1>5

\* Pruning yields a deque, drops nothing but stale entries, and tracks no
\* device twice.
LEMMA PruneFacts ==
    ASSUME NEW s \in Seq(Claim)
    PROVE  /\ Prune(s) \in Seq(Claim)
           /\ Distinct(s) => Distinct(Prune(s))
           /\ \A k \in DOMAIN s :
                ~Stale(s[k].ts) => \E j \in DOMAIN Prune(s) : Prune(s)[j] = s[k]
<1> DEFINE f == FirstKept(s)
           p == Prune(s)
<1>1. f \in 1..(Len(s) + 1) /\ \A j \in 1..(f - 1) : Stale(s[j].ts)
  BY FirstKeptFacts
<1> HIDE DEF f
<1>2. p = SubSeq(s, f, Len(s))
  BY DEF Prune, f
<1>3. /\ Len(s) \in Nat /\ DOMAIN s = 1..Len(s)
      /\ p \in Seq(Claim)
      /\ Len(p) = Len(s) - f + 1 /\ DOMAIN p = 1..Len(p)
      /\ \A j \in 1..Len(p) : p[j] = s[f + j - 1]
  BY <1>1, <1>2
<1> HIDE DEF p
<1>4. ASSUME Distinct(s) PROVE Distinct(p)
  <2> SUFFICES ASSUME NEW j \in 1..Len(p), NEW k \in 1..Len(p), p[j].mac = p[k].mac
               PROVE  j = k
    BY <1>3 DEF Distinct
  <2>1. f + j - 1 \in DOMAIN s /\ f + k - 1 \in DOMAIN s
    BY <1>1, <1>3
  <2>2. s[f + j - 1].mac = s[f + k - 1].mac
    BY <1>3
  <2>3. f + j - 1 = f + k - 1
    BY <1>4, <2>1, <2>2 DEF Distinct
  <2> QED BY <2>3, <1>1
<1>5. ASSUME NEW k \in DOMAIN s, ~Stale(s[k].ts)
      PROVE  \E j \in DOMAIN p : p[j] = s[k]
  <2>1. k >= f
    BY <1>1, <1>3, <1>5
  <2>2. k - f + 1 \in 1..Len(p)
    BY <2>1, <1>1, <1>3
  <2>3. p[k - f + 1] = s[f + (k - f + 1) - 1] /\ f + (k - f + 1) - 1 = k
    BY <2>2, <1>1, <1>3
  <2> QED BY <2>2, <2>3, <1>3
<1> QED BY <1>3, <1>4, <1>5 DEF p

\* Tracking a claim yields a deque that holds the claim, keeps every other
\* entry, and tracks no device twice.
LEMMA TrackFacts ==
    ASSUME NEW s \in Seq(Claim), NEW m \in Mac, now \in Nat
    PROVE  /\ Track(s, m) \in Seq(Claim)
           /\ Distinct(s) => Distinct(Track(s, m))
           /\ \E k \in DOMAIN Track(s, m) : Track(s, m)[k] = [ts |-> now, mac |-> m]
           /\ \A k \in DOMAIN s : s[k].mac # m =>
                \E j \in DOMAIN Track(s, m) : Track(s, m)[j] = s[k]
<1> DEFINE c == [ts |-> now, mac |-> m]
           t == Track(s, m)
<1>1. c \in Claim /\ c.mac = m
  BY DEF Claim
<1>2. Len(s) \in Nat /\ DOMAIN s = 1..Len(s) /\ \A k \in 1..Len(s) : s[k] \in Claim
  OBVIOUS
<1>3. CASE m \in MacsOf(s)
  <2>1. \A k \in DOMAIN s : s[k].mac = m => [s[k] EXCEPT !.ts = now] = c
    BY <1>2 DEF Claim
  <2>2. t = [k \in 1..Len(s) |-> IF s[k].mac = m THEN c ELSE s[k]]
    BY <1>2, <1>3, <2>1 DEF Track
  <2>3. t \in Seq(Claim) /\ DOMAIN t = 1..Len(s)
    BY <1>1, <1>2, <2>2
  <2>4. \A k \in 1..Len(s) : t[k].mac = s[k].mac
    BY <1>1, <1>2, <2>2
  <2>5. Distinct(s) => Distinct(t)
    BY <1>2, <2>3, <2>4 DEF Distinct
  <2>6. \E k \in DOMAIN t : t[k] = c
    <3>1. PICK k \in DOMAIN s : s[k].mac = m
      BY <1>3 DEF MacsOf
    <3> QED BY <3>1, <1>2, <2>2, <2>3
  <2>7. \A k \in DOMAIN s : s[k].mac # m => t[k] = s[k]
    BY <1>2, <2>2
  <2> QED BY <1>2, <2>3, <2>5, <2>6, <2>7
<1>4. CASE m \notin MacsOf(s)
  <2>1. t = Append(s, c)
    BY <1>4 DEF Track
  <2>2. /\ t \in Seq(Claim) /\ DOMAIN t = 1..(Len(s) + 1)
        /\ t[Len(s) + 1] = c /\ \A k \in 1..Len(s) : t[k] = s[k]
    BY <1>1, <1>2, <2>1
  <2>3. \A k \in 1..Len(s) : s[k].mac # m
    BY <1>2, <1>4 DEF MacsOf
  <2>4. ASSUME Distinct(s) PROVE Distinct(t)
    <3> SUFFICES ASSUME NEW j \in 1..(Len(s) + 1), NEW k \in 1..(Len(s) + 1),
                        t[j].mac = t[k].mac
                 PROVE  j = k
      BY <2>2 DEF Distinct
    <3>1. CASE j \in 1..Len(s) /\ k \in 1..Len(s)
      BY <3>1, <1>2, <2>2, <2>4 DEF Distinct
    <3>2. CASE j = Len(s) + 1 /\ k \in 1..Len(s)
      BY <3>2, <1>1, <2>2, <2>3
    <3>3. CASE k = Len(s) + 1 /\ j \in 1..Len(s)
      BY <3>3, <1>1, <2>2, <2>3
    <3> QED BY <3>1, <3>2, <3>3, <1>2
  <2> QED BY <1>2, <2>2, <2>4
<1> QED BY <1>3, <1>4

\* The initial window is empty.
LEMMA InitInv == Init => IndInv
<1> SUFFICES ASSUME Init PROVE IndInv
  OBVIOUS
<1>1. TypeBase
  <2>1. dq \in Seq(Claim)
    <3>1. <<>> \in Seq(Claim)
      OBVIOUS
    <3> QED BY <3>1 DEF Init
  <2>2. lastClaim \in [Mac -> Nat \cup {Never}]
    BY DEF Init
  <2> QED BY <2>1, <2>2 DEF Init, TypeBase
<1>2. DOMAIN dq = {}
  BY DEF Init
<1>3. Claimants = {}
  BY DEF Init, Claimants
<1> QED BY <1>1, <1>2, <1>3 DEF IndInv, TrackedOnce, ClaimantsTracked

\* The clock only makes claims stale.
LEMMA TickInv == IndInv /\ Tick => IndInv'
<1> SUFFICES ASSUME IndInv, Tick PROVE IndInv'
  OBVIOUS
<1>1. TypeBase' /\ TrackedOnce'
  BY DEF IndInv, Tick, TypeBase, TrackedOnce
<1>2. ClaimantsTracked'
  <2> SUFFICES ASSUME NEW m \in Mac, lastClaim'[m] # Never, ~Stale(lastClaim[m])'
               PROVE  \E k \in DOMAIN dq' : dq'[k] = [ts |-> lastClaim'[m], mac |-> m]
    BY DEF ClaimantsTracked, Claimants, Stale
  <2>1. lastClaim' = lastClaim /\ dq' = dq /\ now' = now + 1
    BY DEF Tick
  <2>2. lastClaim[m] \in Nat /\ now \in Nat
    BY <2>1 DEF IndInv, TypeBase
  <2>3. ~Stale(lastClaim[m])
    BY <2>1, <2>2, RuleAssumption DEF Stale
  <2> QED BY <2>1, <2>3 DEF IndInv, ClaimantsTracked, Claimants
<1> QED BY <1>1, <1>2 DEF IndInv

\* A claim is tracked, and those of the other devices that are fresh survive.
LEMMA EvaluateInv ==
    ASSUME IndInv, NEW m \in Mac, Evaluate(m)
    PROVE  IndInv'
<1> DEFINE p == Prune(dq)
<1>1. dq \in Seq(Claim) /\ now \in Nat /\ Distinct(dq)
  BY DEF IndInv, TypeBase, TrackedOnce, Distinct
<1>2. /\ p \in Seq(Claim) /\ Distinct(p)
      /\ \A k \in DOMAIN dq : ~Stale(dq[k].ts) => \E j \in DOMAIN p : p[j] = dq[k]
  BY <1>1, PruneFacts
<1>3. /\ dq' = Track(p, m) /\ now' = now
      /\ lastClaim' = [lastClaim EXCEPT ![m] = now] /\ alert' \in BOOLEAN
  BY DEF Evaluate
<1> HIDE DEF p
<1>4. /\ dq' \in Seq(Claim) /\ Distinct(dq')
      /\ \E k \in DOMAIN dq' : dq'[k] = [ts |-> now, mac |-> m]
      /\ \A k \in DOMAIN p : p[k].mac # m => \E j \in DOMAIN dq' : dq'[j] = p[k]
  BY <1>1, <1>2, <1>3, TrackFacts
<1>5. TypeBase'
  BY <1>1, <1>3, <1>4 DEF IndInv, TypeBase
<1>6. TrackedOnce'
  BY <1>4 DEF TrackedOnce, Distinct
<1>7. ClaimantsTracked'
  <2> SUFFICES ASSUME NEW n \in Mac, lastClaim'[n] # Never, ~Stale(lastClaim'[n])
               PROVE  \E k \in DOMAIN dq' : dq'[k] = [ts |-> lastClaim'[n], mac |-> n]
    BY <1>3 DEF ClaimantsTracked, Claimants, Stale
  <2>1. CASE n = m
    BY <2>1, <1>3, <1>4 DEF IndInv, TypeBase
  <2>2. CASE n # m
    <3>1. lastClaim'[n] = lastClaim[n]
      BY <2>2, <1>3 DEF IndInv, TypeBase
    <3>2. PICK k \in DOMAIN dq : dq[k] = [ts |-> lastClaim[n], mac |-> n]
      BY <3>1 DEF IndInv, ClaimantsTracked, Claimants
    <3>3. PICK j \in DOMAIN p : p[j] = dq[k]
      BY <3>1, <3>2, <1>2
    <3> QED BY <2>2, <3>1, <3>2, <3>3, <1>4
  <2> QED BY <2>1, <2>2
<1> QED BY <1>5, <1>6, <1>7 DEF IndInv

\* Every step of the rule keeps the inductive invariant.
LEMMA NextInv == IndInv /\ [Next]_vars => IndInv'
<1> SUFFICES ASSUME IndInv, [Next]_vars PROVE IndInv'
  OBVIOUS
<1>1. CASE Tick
  BY <1>1, TickInv
<1>2. CASE \E m \in Mac : Evaluate(m)
  BY <1>2, EvaluateInv
<1>3. CASE UNCHANGED vars
  BY <1>3 DEF vars, IndInv, TypeBase, TrackedOnce, ClaimantsTracked, Claimants, Stale
<1> QED BY <1>1, <1>2, <1>3 DEF Next

LEMMA Invariance == Spec => []IndInv
<1> QED BY InitInv, NextInv, PTL DEF Spec

\* A deque that tracks every device at most once is no longer than the network.
LEMMA LengthBound == IndInv => TypeOK
<1> SUFFICES ASSUME IndInv PROVE Len(dq) <= Cardinality(Mac)
  BY DEF IndInv, TypeBase, TypeOK
<1>1. Len(dq) \in Nat /\ DOMAIN dq = 1..Len(dq) /\ \A k \in 1..Len(dq) : dq[k].mac \in Mac
  BY EntriesOf DEF IndInv, TypeBase
<1> DEFINE f == [k \in 1..Len(dq) |-> dq[k].mac]
<1>2. f \in Injection(1..Len(dq), Mac)
  BY <1>1 DEF IndInv, TrackedOnce, Injection, IsInjective
<1>3. IsFiniteSet(1..Len(dq)) /\ Cardinality(1..Len(dq)) = Len(dq)
  BY <1>1, FS_Interval
<1>4. Cardinality(1..Len(dq)) <= Cardinality(Mac)
  BY <1>2, <1>3, FS_Injection, RuleAssumption
<1> QED BY <1>3, <1>4

\* The window of an address has the right types and is bounded by the number of
\* devices, however many claims arrive (rule_arp_spoofing.cpp: window_).
THEOREM TypeCorrect == Spec => []TypeOK
<1> QED BY Invariance, LengthBound, PTL

\* No device is tracked twice in a window, so counting entries counts devices.
THEOREM TrackedOnceCorrect == Spec => []TrackedOnce
<1>1. IndInv => TrackedOnce
  BY DEF IndInv
<1> QED BY <1>1, Invariance, PTL

\* Pruning from the front only never forgets a device that claimed the address
\* within the window, although refreshing an entry does not move it to the back.
THEOREM ClaimantsTrackedCorrect == Spec => []ClaimantsTracked
<1>1. IndInv => ClaimantsTracked
  BY DEF IndInv
<1> QED BY <1>1, Invariance, PTL

\* A claim by which the threshold is reached raises the alert: the claimants are
\* tracked, so there are at least as many entries.
LEMMA AlertRaised ==
    ASSUME IndInv', NEW m \in Mac, Evaluate(m), Cardinality(Claimants') >= Threshold
    PROVE  alert'
<1>1. Claimants' \subseteq MacsOf(dq')
  BY DEF IndInv, ClaimantsTracked, MacsOf, Claimants
<1>2. MacsOf(dq') \subseteq Mac
  <2>1. dq' \in Seq(Claim)
    BY DEF IndInv, TypeBase
  <2> QED BY <2>1, EntriesOf
<1>3. IsFiniteSet(MacsOf(dq')) /\ Cardinality(MacsOf(dq')) \in Nat
  BY <1>2, FS_Subset, FS_CardinalityType, RuleAssumption
<1>4. IsFiniteSet(Claimants') /\ Cardinality(Claimants') \in Nat
      /\ Cardinality(Claimants') <= Cardinality(MacsOf(dq'))
  BY <1>1, <1>3, FS_Subset, FS_CardinalityType
<1>5. Cardinality(MacsOf(dq')) >= Threshold
  BY <1>3, <1>4, RuleAssumption
<1>6. alert' = (Cardinality(MacsOf(dq')) >= Threshold)
  BY DEF Evaluate
<1> QED BY <1>5, <1>6

\* The claim that makes mac_threshold devices within the window raises the
\* alert, for every window, threshold and network (evaluate).
THEOREM NoAlertMissed == Spec => NoMissedAlert
<1>1. IndInv /\ IndInv' /\ [Next]_vars
        => [\A m \in Mac : Evaluate(m) /\ Cardinality(Claimants') >= Threshold => alert']_vars
  BY AlertRaised
<1> QED BY <1>1, Invariance, PTL DEF Spec, NoMissedAlert
-----------------------------------------------------------------------------
(* The tracker in front of the rule.                                       *)

TrackerBase ==
    /\ ip \in [Mac -> Cached]
    /\ announced \in [Mac -> Nat \cup {Never}]
    /\ leased \subseteq Mac
    /\ lastFrame \in [Mac -> Nat \cup {Never}] /\ lastAnnounce \in [Mac -> Nat \cup {Never}]
    /\ lastAlert \in Nat \cup {Never}

\* What was noted was noted by now.
NotedByNow ==
    /\ \A m \in Mac : lastClaim[m] # Never => lastClaim[m] <= now
    /\ \A m \in Mac : announced[m] # Never => announced[m] <= now
    /\ \A m \in Mac : lastAnnounce[m] # Never => lastAnnounce[m] <= now
    /\ lastAlert # Never => lastAlert <= now

\* The last claim of a device that did not get its address by a lease is not
\* older than its last announcement, less what the debounce swallows.
ClaimedSince ==
    \A m \in Mac \ leased :
        /\ ip[m] = "contested" /\ announced[m] # Never
             => lastClaim[m] # Never /\ announced[m] <= lastClaim[m]
        /\ lastAnnounce[m] # Never
             => lastClaim[m] # Never /\ lastAnnounce[m] <= lastClaim[m] + Debounce

\* The second of two claims within the window raised the alert, or a later one did.
PairsAlerted ==
    \A m, n \in Mac :
        /\ m # n /\ lastClaim[m] # Never /\ lastClaim[n] # Never
        /\ lastClaim[m] <= lastClaim[n] /\ lastClaim[n] <= lastClaim[m] + Window
        => lastAlert # Never /\ lastClaim[n] <= lastAlert

ClaimsInv == IndInv /\ TrackerBase /\ NotedByNow /\ ClaimedSince /\ PairsAlerted

\* Nothing was noted when the process starts.
LEMMA ClaimsInitInv == ClaimsInit => ClaimsInv
<1> SUFFICES ASSUME ClaimsInit PROVE ClaimsInv
  OBVIOUS
<1>1. IndInv
  BY InitInv DEF ClaimsInit
<1>2. TrackerBase
  BY DEF ClaimsInit, TrackerBase
<1>3. \A m \in Mac : lastClaim[m] = Never /\ announced[m] = Never /\ lastAnnounce[m] = Never
  BY DEF ClaimsInit, Init
<1> QED BY <1>1, <1>2, <1>3 DEF ClaimsInit, ClaimsInv, NotedByNow, ClaimedSince, PairsAlerted

\* A lease makes no claim, and who gets one is not spoken of until it makes one.
LEMMA LeaseInv ==
    ASSUME ClaimsInv, NEW m \in Mac, NEW addr \in {"contested", "other", "empty"}, Lease(m, addr)
    PROVE  ClaimsInv'
<1>1. /\ UNCHANGED vars
      /\ UNCHANGED <<announced, lastFrame, lastAnnounce, lastAlert>>
      /\ ip' = [ip EXCEPT ![m] = addr] /\ leased' = leased \cup {m}
  BY DEF Lease
<1>2. IndInv'
  BY <1>1, NextInv DEF ClaimsInv
<1>3. TrackerBase'
  BY <1>1 DEF ClaimsInv, TrackerBase, Cached
<1>4. NotedByNow' /\ PairsAlerted'
  BY <1>1 DEF ClaimsInv, NotedByNow, PairsAlerted, vars
<1>5. ClaimedSince'
  <2> SUFFICES ASSUME NEW n \in Mac \ leased'
               PROVE  ClaimedSince!(n)'
    BY DEF ClaimedSince
  <2>1. n \in Mac \ leased /\ n # m /\ ip'[n] = ip[n]
    BY <1>1 DEF ClaimsInv, TrackerBase
  <2> QED BY <1>1, <2>1 DEF ClaimsInv, ClaimedSince, vars
<1> QED BY <1>2, <1>3, <1>4, <1>5 DEF ClaimsInv

\* Time changes nothing of what was noted.
LEMMA ClaimsTickInv ==
    ASSUME ClaimsInv, ClaimsTick
    PROVE  ClaimsInv'
<1>1. /\ Tick /\ UNCHANGED <<tracker, seen>>
      /\ now \in Nat /\ now' = now + 1 /\ lastClaim' = lastClaim
  BY DEF ClaimsTick, Tick, ClaimsInv, IndInv, TypeBase
<1>2. IndInv'
  BY <1>1, TickInv DEF ClaimsInv
<1>3. TrackerBase' /\ ClaimedSince' /\ PairsAlerted'
  BY <1>1 DEF ClaimsInv, TrackerBase, ClaimedSince, PairsAlerted, tracker, seen
<1>4. NotedByNow'
  BY <1>1 DEF ClaimsInv, IndInv, TypeBase, TrackerBase, NotedByNow, tracker, seen
<1> QED BY <1>2, <1>3, <1>4 DEF ClaimsInv

\* The second of two devices that claim within the window raises the alert.
LEMMA SecondAlerted ==
    ASSUME Threshold <= 2, IndInv, IndInv', NEW m \in Mac, Evaluate(m),
           NEW n \in Mac \ {m}, n \in Claimants'
    PROVE  alert'
<1>1. lastClaim'[m] = now /\ now' = now /\ now \in Nat
  BY DEF Evaluate, IndInv, TypeBase
<1>2. m \in Claimants'
  BY <1>1, RuleAssumption DEF Claimants, Stale
<1>3. Claimants' \subseteq Mac /\ IsFiniteSet(Claimants') /\ Cardinality(Claimants') \in Nat
  BY FS_Subset, FS_CardinalityType, RuleAssumption DEF Claimants
<1>4. IsFiniteSet({m}) /\ Cardinality({m}) = 1
  BY FS_Singleton
<1>5. IsFiniteSet({m} \cup {n}) /\ Cardinality({m} \cup {n}) = 2
  BY <1>4, FS_AddElement
<1>6. Cardinality({m} \cup {n}) <= Cardinality(Claimants')
  BY <1>2, <1>3, <1>5, FS_Subset
<1>7. Cardinality(Claimants') >= Threshold
  BY <1>3, <1>5, <1>6, RuleAssumption
<1> QED BY <1>7, AlertRaised

\* A frame makes a claim, unless its device is debounced and already known by the
\* address, and then its last claim is not older than the event that debounces it.
LEMMA FrameInv ==
    ASSUME ClaimsAssumption, Threshold <= 2, ClaimsInv,
           NEW m \in Mac, NEW addr \in {"contested", "other"}, NEW gratuitous \in BOOLEAN,
           Frame(m, addr, gratuitous)
    PROVE  ClaimsInv'
<1> DEFINE logs  == gratuitous /\ ~Debounced(m)
           claim == addr = "contested" /\ (ip[m] # addr \/ logs)
<1>1. /\ ip' = [ip EXCEPT ![m] = addr]
      /\ announced' = [announced EXCEPT ![m] = IF logs THEN now ELSE @]
      /\ leased' = IF claim THEN leased \ {m} ELSE leased
      /\ lastFrame' = [lastFrame EXCEPT ![m] = IF addr = "contested" THEN now ELSE @]
      /\ lastAnnounce' = [lastAnnounce EXCEPT
                             ![m] = IF addr = "contested" /\ gratuitous THEN now ELSE @]
      /\ claim => Evaluate(m)
      /\ ~claim => UNCHANGED vars
      /\ lastAlert' = IF claim /\ alert' THEN now ELSE lastAlert
  BY DEF Frame, At
<1>2. /\ now \in Nat /\ Window \in Nat /\ Debounce \in Nat /\ Never \notin Nat
      /\ lastClaim \in [Mac -> Nat \cup {Never}]
      /\ TrackerBase
  BY RuleAssumption DEF ClaimsAssumption, ClaimsInv, IndInv, TypeBase
<1>3. /\ now' = now
      /\ lastClaim' = [lastClaim EXCEPT ![m] = IF claim THEN now ELSE @]
  BY <1>1, <1>2 DEF Evaluate, vars
<1>4. IndInv'
  BY <1>1, EvaluateInv, NextInv DEF ClaimsInv
<1>5. claim /\ (\E n \in Mac \ {m} : n \in Claimants') => alert'
  BY <1>1, <1>4, SecondAlerted DEF ClaimsInv
<1>6. /\ addr = "contested" /\ ip[m] = addr /\ gratuitous /\ ~claim
           => announced[m] # Never /\ now < announced[m] + Debounce
      /\ addr = "contested" /\ ip[m] # addr => claim
      /\ addr = "contested" /\ logs => claim
      /\ claim => addr = "contested"
  BY DEF Debounced
<1> HIDE DEF logs, claim
<1>7. TrackerBase'
  BY <1>1, <1>2 DEF TrackerBase, Cached
<1>8. NotedByNow'
  BY <1>1, <1>2, <1>3 DEF ClaimsInv, NotedByNow, TrackerBase
<1>9. ClaimedSince'
  <2> SUFFICES ASSUME NEW n \in Mac \ leased'
               PROVE  ClaimedSince!(n)'
    BY DEF ClaimedSince
  <2>1. CASE n # m
    <3>1. n \in Mac \ leased /\ UNCHANGED <<ip[n], announced[n], lastAnnounce[n], lastClaim[n]>>
      BY <2>1, <1>1, <1>2, <1>3 DEF TrackerBase
    <3> QED BY <3>1 DEF ClaimsInv, ClaimedSince
  <2>2. CASE n = m /\ claim
    <3>1. lastClaim'[m] = now /\ now # Never
      BY <2>2, <1>2, <1>3
    <3>2. announced'[m] # Never => announced'[m] <= now
      BY <1>1, <1>2 DEF ClaimsInv, NotedByNow, TrackerBase
    <3>3. lastAnnounce'[m] # Never => lastAnnounce'[m] <= now + Debounce
      <4>1. lastAnnounce'[m] # Never => lastAnnounce'[m] \in Nat /\ lastAnnounce'[m] <= now
        BY <1>1, <1>2, <1>3, <1>7, <1>8 DEF NotedByNow, TrackerBase
      <4> QED BY <4>1, <1>2
    <3> QED BY <2>2, <3>1, <3>2, <3>3
  <2>3. CASE n = m /\ ~claim
    <3>1. m \in Mac \ leased /\ lastClaim'[m] = lastClaim[m] /\ ip'[m] = addr
      BY <2>3, <1>1, <1>2, <1>3 DEF TrackerBase
    <3>2. CASE addr = "contested"
      <4>1. ip[m] = "contested" /\ announced'[m] = announced[m]
        BY <2>3, <3>2, <1>1, <1>2, <1>6 DEF TrackerBase
      <4>2. announced[m] # Never => lastClaim[m] \in Nat /\ announced[m] <= lastClaim[m]
        BY <3>1, <4>1, <1>2 DEF ClaimsInv, ClaimedSince
      <4>3. CASE gratuitous
        <5>1. announced[m] \in Nat /\ now < announced[m] + Debounce
          BY <2>3, <3>2, <4>1, <4>3, <1>2, <1>6 DEF TrackerBase
        <5>2. lastAnnounce'[m] = now /\ now <= lastClaim[m] + Debounce
          BY <3>2, <4>2, <4>3, <5>1, <1>1, <1>2 DEF TrackerBase
        <5> QED BY <2>3, <3>1, <4>1, <4>2, <5>1, <5>2, <1>2
      <4>4. CASE ~gratuitous
        <5>1. lastAnnounce'[m] = lastAnnounce[m]
          BY <4>4, <1>1, <1>2 DEF TrackerBase
        <5> QED BY <2>3, <3>1, <4>1, <4>2, <5>1, <1>2 DEF ClaimsInv, ClaimedSince
      <4> QED BY <4>3, <4>4
    <3>3. CASE addr = "other"
      <4>1. ip'[m] # "contested" /\ lastAnnounce'[m] = lastAnnounce[m]
        BY <3>1, <3>3, <1>1, <1>2 DEF TrackerBase
      <4> QED BY <2>3, <3>1, <4>1 DEF ClaimsInv, ClaimedSince
    <3> QED BY <3>2, <3>3
  <2> QED BY <2>1, <2>2, <2>3
<1>10. PairsAlerted'
  <2>1. CASE ~claim
    BY <2>1, <1>1 DEF ClaimsInv, PairsAlerted, vars
  <2>2. CASE claim
    <3> SUFFICES ASSUME NEW n \in Mac, NEW k \in Mac, n # k,
                        lastClaim'[n] # Never, lastClaim'[k] # Never,
                        lastClaim'[n] <= lastClaim'[k],
                        lastClaim'[k] <= lastClaim'[n] + Window
                 PROVE  lastAlert' # Never /\ lastClaim'[k] <= lastAlert'
      BY DEF PairsAlerted
    <3>1. \A d \in Mac : lastClaim'[d] = IF d = m THEN now ELSE lastClaim[d]
      BY <2>2, <1>2, <1>3
    <3>2. lastClaim'[n] \in Nat /\ lastClaim'[k] \in Nat /\ lastClaim'[k] <= now
      BY <1>2, <1>3, <1>8, <3>1 DEF NotedByNow
    <3>3. CASE alert'
      BY <2>2, <3>2, <3>3, <1>1, <1>2
    <3>4. CASE ~alert'
      <4>1. \A d \in Mac \ {m} : d \notin Claimants'
        BY <2>2, <3>4, <1>5
      <4>2. n # m /\ k # m
        <5>1. CASE n = m
          <6>1. k \in Mac \ {m} /\ lastClaim'[k] + Window >= now'
            BY <5>1, <3>1, <3>2, <1>2, <1>3
          <6> QED BY <6>1, <4>1, <3>2, <1>2, <1>3 DEF Claimants, Stale
        <5>2. CASE k = m
          <6>1. n \in Mac \ {m} /\ lastClaim'[n] + Window >= now'
            BY <5>2, <3>1, <3>2, <1>2, <1>3
          <6> QED BY <6>1, <4>1, <3>2, <1>2, <1>3 DEF Claimants, Stale
        <5> QED BY <5>1, <5>2
      <4>3. lastClaim[n] = lastClaim'[n] /\ lastClaim[k] = lastClaim'[k] /\ lastAlert' = lastAlert
        BY <3>1, <3>4, <4>2, <1>1
      <4> QED BY <4>3 DEF ClaimsInv, PairsAlerted
    <3> QED BY <3>3, <3>4
  <2> QED BY <2>1, <2>2
<1> QED BY <1>4, <1>7, <1>8, <1>9, <1>10 DEF ClaimsInv

LEMMA ClaimsInvariance ==
    ASSUME ClaimsAssumption, Threshold <= 2 PROVE ClaimsSpec => []ClaimsInv
<1>1. ClaimsInv /\ [ClaimsNext]_<<vars, tracker, seen>> => ClaimsInv'
  <2>1. ASSUME ClaimsInv, UNCHANGED <<vars, tracker, seen>> PROVE ClaimsInv'
    <3>1. IndInv'
      BY <2>1, NextInv DEF ClaimsInv
    <3> QED BY <2>1, <3>1 DEF ClaimsInv, TrackerBase, NotedByNow, ClaimedSince,
                              PairsAlerted, vars, tracker, seen
  <2> QED BY <2>1, FrameInv, LeaseInv, ClaimsTickInv DEF ClaimsNext
<1> QED BY <1>1, ClaimsInitInv, PTL DEF ClaimsSpec

\* Two devices that announced the address lately have raised the alert, though
\* announcements are debounced and every device is debounced for itself: for any
\* network, window and debounce time, as long as two devices make a conflict
\* (process_arp in front of RuleArpSpoofing::evaluate).
THEOREM AnnouncersAlertedCorrect ==
    ASSUME ClaimsAssumption, Threshold <= 2 PROVE ClaimsSpec => []AnnouncersAlerted
<1>1. ClaimsInv => AnnounceAlert(Mac \ leased)
  <2> SUFFICES ASSUME ClaimsInv, NEW m \in Mac \ leased, NEW n \in Mac \ leased,
                      m # n, Debounce <= Window,
                      Within(lastAnnounce[m], Window - Debounce),
                      Within(lastAnnounce[n], Window - Debounce)
               PROVE  Within(lastAlert, Window)
    BY DEF AnnounceAlert
  <2>1. /\ now \in Nat /\ Window \in Nat /\ Debounce \in Nat /\ Never \notin Nat
        /\ lastAlert \in Nat \cup {Never}
        /\ \A d \in Mac : lastClaim[d] \in Nat \cup {Never} /\ lastAnnounce[d] \in Nat \cup {Never}
    BY RuleAssumption DEF ClaimsAssumption, ClaimsInv, IndInv, TypeBase, TrackerBase
  <2>2. ASSUME NEW d \in Mac \ leased, Within(lastAnnounce[d], Window - Debounce)
        PROVE  /\ lastClaim[d] # Never /\ lastClaim[d] \in Nat
               /\ lastClaim[d] <= now /\ now <= lastClaim[d] + Window
    <3>1. lastAnnounce[d] \in Nat /\ now <= lastAnnounce[d] + (Window - Debounce)
      BY <2>1, <2>2 DEF Within
    <3>2. lastClaim[d] \in Nat /\ lastClaim[d] # Never /\ lastAnnounce[d] <= lastClaim[d] + Debounce
      BY <2>1, <3>1 DEF ClaimsInv, ClaimedSince
    <3>3. lastClaim[d] <= now
      BY <3>2 DEF ClaimsInv, NotedByNow
    <3> QED BY <2>1, <3>1, <3>2, <3>3
  <2>3. ASSUME NEW c \in Mac \ leased, NEW d \in Mac \ leased, c # d,
               Within(lastAnnounce[c], Window - Debounce),
               Within(lastAnnounce[d], Window - Debounce),
               lastClaim[c] <= lastClaim[d]
        PROVE  Within(lastAlert, Window)
    <3>1. lastAlert # Never /\ lastClaim[d] <= lastAlert
      BY <2>1, <2>2, <2>3 DEF ClaimsInv, PairsAlerted
    <3> QED BY <2>1, <2>2, <2>3, <3>1 DEF Within
  <2>4. lastClaim[m] <= lastClaim[n] \/ lastClaim[n] <= lastClaim[m]
    BY <2>2
  <2> QED BY <2>3, <2>4
<1>2. ClaimsInv => ClaimsTypeOK
  BY LengthBound DEF ClaimsInv, TrackerBase, ClaimsTypeOK
<1>3. ClaimsInv => AnnouncersAlerted
  BY <1>1, <1>2 DEF AnnouncersAlerted
<1> QED BY <1>3, ClaimsInvariance, PTL

\* A device that takes the address over from one that claimed it within the
\* window raises the alert at once.
THEOREM TakeoverAlertedCorrect ==
    ASSUME ClaimsAssumption, Threshold <= 2 PROVE ClaimsSpec => TakeoverAlerted
<1> DEFINE Taken == \A m \in Mac : ip[m] # "contested" /\ lastFrame'[m] = now' /\ lastFrame[m] # now'
                      /\ (\E n \in Mac \ {m} : lastClaim[n] # Never /\ ~Stale(lastClaim[n]))
                      => lastAlert' = now'
<1>1. ClaimsInv /\ ClaimsInv' /\ [ClaimsNext]_<<vars, tracker, seen>> => [Taken]_<<vars, tracker, seen>>
  <2> SUFFICES ASSUME ClaimsInv, ClaimsInv', ClaimsNext,
                      NEW m \in Mac, ip[m] # "contested",
                      lastFrame'[m] = now', lastFrame[m] # now',
                      NEW n \in Mac \ {m}, lastClaim[n] # Never, ~Stale(lastClaim[n])
               PROVE  lastAlert' = now'
    OBVIOUS
  <2>1. PICK d \in Mac, addr \in {"contested", "other"}, gratuitous \in BOOLEAN :
             Frame(d, addr, gratuitous)
    BY DEF ClaimsNext, ClaimsTick, Lease, seen
  <2>2. d = m /\ addr = "contested"
    BY <2>1 DEF Frame, At, ClaimsInv, TrackerBase
  <2>3. /\ Evaluate(m) /\ lastAlert' = IF alert' THEN now ELSE lastAlert
    BY <2>1, <2>2 DEF Frame
  <2>4. n \in Claimants'
    BY <2>3 DEF Evaluate, Claimants, Stale, ClaimsInv, IndInv, TypeBase
  <2>5. alert'
    BY <2>3, <2>4, SecondAlerted DEF ClaimsInv
  <2> QED BY <2>3, <2>5 DEF Evaluate
<1> QED BY <1>1, ClaimsInvariance, PTL DEF ClaimsSpec, TakeoverAlerted
-----------------------------------------------------------------------------
(* The watchlist rule.                                                     *)

\* The rule matches only with a copy that is younger than the time to live.
CopyIsFresh == pc = "match" => copyAge < Ttl

WatchInv == Watchlist!TypeOK /\ CopyIsFresh /\ Watchlist!CopyIsSnapshot /\ Watchlist!AlertIsRecent

LEMMA WatchlistConstants ==
    Upper \in Spelling /\ Ttl \in Nat \ {0} /\ None \notin Ip \cup (Host \X Spelling)
BY RulesAssumption DEF RulesAssumption, Watchlist!WatchlistAssumption

LEMMA SecondFacts ==
    ASSUME NEW age \in 0..Ttl
    PROVE  /\ Watchlist!Second(age) \in 0..Ttl
           /\ \A other \in 0..Ttl : Watchlist!Second(age) > Watchlist!Second(other) => age > other
BY WatchlistConstants DEF Watchlist!Second

LEMMA WatchBegins == Watchlist!Init => WatchInv
<1> SUFFICES ASSUME Watchlist!Init PROVE WatchInv
  OBVIOUS
<1>1. Ttl \in Nat \ {0}
  BY WatchlistConstants
<1>2. Watchlist!TypeOK
  BY <1>1 DEF Watchlist!Init, Watchlist!TypeOK
<1>3. Watchlist!CopyIsSnapshot
  BY <1>1 DEF Watchlist!Init, Watchlist!CopyIsSnapshot
<1> QED
  BY <1>2, <1>3 DEF Watchlist!Init, WatchInv, CopyIsFresh, Watchlist!AlertIsRecent

LEMMA EvaluatePreserves ==
    ASSUME WatchInv, NEW a \in Watchlist!Asset, Watchlist!Evaluate(a)
    PROVE  WatchInv'
<1> USE DEF WatchInv, Watchlist!Evaluate
<1>1. Watchlist!TypeOK'
  BY DEF Watchlist!TypeOK
<1>2. CopyIsFresh'
  BY WatchlistConstants DEF CopyIsFresh, Watchlist!ReloadDue, Watchlist!TypeOK
<1>3. Watchlist!CopyIsSnapshot'
  BY DEF Watchlist!CopyIsSnapshot
<1>4. Watchlist!AlertIsRecent'
  BY DEF Watchlist!AlertIsRecent
<1> QED
  BY <1>1, <1>2, <1>3, <1>4

LEMMA ReloadPreserves ==
    ASSUME WatchInv, Watchlist!Reload
    PROVE  WatchInv'
<1> USE DEF WatchInv, Watchlist!Reload
<1>0. Ttl \in Nat \ {0}
  BY WatchlistConstants
<1>1. Watchlist!TypeOK'
  BY <1>0 DEF Watchlist!TypeOK
<1>2. CopyIsFresh'
  BY <1>0 DEF CopyIsFresh
<1>3. Watchlist!CopyIsSnapshot'
  BY DEF Watchlist!CopyIsSnapshot
<1>4. Watchlist!AlertIsRecent'
  BY DEF Watchlist!AlertIsRecent
<1> QED
  BY <1>1, <1>2, <1>3, <1>4

\* What is to be inserted is in a fresh copy, so it left the table a short while ago.
LEMMA MatchPreserves ==
    ASSUME WatchInv, Watchlist!Match
    PROVE  WatchInv'
<1> USE DEF WatchInv, Watchlist!Match
<1>1. Watchlist!TypeOK'
  BY DEF Watchlist!TypeOK
<1>2. CopyIsFresh' /\ Watchlist!CopyIsSnapshot'
  BY DEF CopyIsFresh, Watchlist!CopyIsSnapshot
<1>3. Watchlist!AlertIsRecent'
  <2> SUFFICES ASSUME NEW e \in todo', e \notin table
               PROVE  outAge[e] < Ttl
    BY DEF Watchlist!AlertIsRecent
  <2>1. e \in copy /\ e \in Watchlist!Entry
    BY DEF Watchlist!TypeOK
  <2>2. ~(outAge[e] > copyAge) /\ copyAge < Ttl
    BY <2>1 DEF Watchlist!CopyIsSnapshot, CopyIsFresh
  <2> QED
    BY <2>1, <2>2, WatchlistConstants DEF Watchlist!TypeOK
<1> QED
  BY <1>1, <1>2, <1>3

LEMMA InsertPreserves ==
    ASSUME WatchInv, NEW e \in Watchlist!Entry, Watchlist!InsertAlert(e)
    PROVE  WatchInv'
BY DEF WatchInv, Watchlist!InsertAlert, Watchlist!TypeOK, CopyIsFresh, Watchlist!CopyIsSnapshot, Watchlist!AlertIsRecent

LEMMA ThrowPreserves ==
    ASSUME WatchInv, Watchlist!ReloadThrows \/ Watchlist!InsertThrows
    PROVE  WatchInv'
BY DEF WatchInv, Watchlist!ReloadThrows, Watchlist!InsertThrows, Watchlist!TypeOK, CopyIsFresh, Watchlist!CopyIsSnapshot, Watchlist!AlertIsRecent

LEMMA PostPreserves ==
    ASSUME WatchInv, NEW e \in Watchlist!Entry, Watchlist!PostEntry(e)
    PROVE  WatchInv'
<1> USE DEF WatchInv, Watchlist!PostEntry
<1>0. Ttl \in Nat \ {0}
  BY WatchlistConstants
<1>1. Watchlist!TypeOK'
  BY <1>0 DEF Watchlist!TypeOK
<1>2. CopyIsFresh'
  BY DEF CopyIsFresh
<1>3. Watchlist!CopyIsSnapshot'
  BY DEF Watchlist!CopyIsSnapshot, Watchlist!TypeOK
<1>4. Watchlist!AlertIsRecent'
  BY <1>0 DEF Watchlist!AlertIsRecent, Watchlist!TypeOK
<1> QED
  BY <1>1, <1>2, <1>3, <1>4

LEMMA DeletePreserves ==
    ASSUME WatchInv, NEW e \in Watchlist!Entry, Watchlist!DeleteEntry(e)
    PROVE  WatchInv'
<1> USE DEF WatchInv, Watchlist!DeleteEntry
<1>0. Ttl \in Nat \ {0}
  BY WatchlistConstants
<1>1. Watchlist!TypeOK'
  BY <1>0 DEF Watchlist!TypeOK
<1>2. CopyIsFresh'
  BY DEF CopyIsFresh
<1>3. Watchlist!CopyIsSnapshot'
  BY DEF Watchlist!CopyIsSnapshot, Watchlist!TypeOK
<1>4. Watchlist!AlertIsRecent'
  BY <1>0 DEF Watchlist!AlertIsRecent, Watchlist!TypeOK
<1> QED
  BY <1>1, <1>2, <1>3, <1>4

\* All ages grow together, so their order stays.
LEMMA TickPreserves ==
    ASSUME WatchInv, Watchlist!Tick
    PROVE  WatchInv'
<1> USE DEF WatchInv, Watchlist!Tick
<1>0. Ttl \in Nat \ {0}
  BY WatchlistConstants
<1>1. Watchlist!TypeOK'
  BY <1>0, SecondFacts DEF Watchlist!TypeOK
<1>2. CopyIsFresh' /\ Watchlist!AlertIsRecent'
  BY DEF CopyIsFresh, Watchlist!AlertIsRecent
<1>3. Watchlist!CopyIsSnapshot'
  <2> SUFFICES ASSUME NEW e \in Watchlist!Entry
               PROVE  /\ e \in table /\ inAge'[e] > copyAge' => e \in copy
                      /\ e \notin table /\ outAge'[e] > copyAge' => e \notin copy
    BY DEF Watchlist!CopyIsSnapshot
  <2>1. inAge[e] \in 0..Ttl /\ outAge[e] \in 0..Ttl /\ copyAge \in 0..Ttl
    BY DEF Watchlist!TypeOK
  <2>2. CASE e \in table
    <3>1. inAge'[e] = Watchlist!Second(inAge[e])
      BY <2>2
    <3> QED
      BY <2>1, <2>2, <3>1, SecondFacts DEF Watchlist!CopyIsSnapshot
  <2>3. CASE e \notin table
    <3>1. outAge'[e] = Watchlist!Second(outAge[e])
      BY <2>3
    <3> QED
      BY <2>1, <2>3, <3>1, SecondFacts DEF Watchlist!CopyIsSnapshot
  <2> QED
    BY <2>2, <2>3
<1> QED
  BY <1>1, <1>2, <1>3

LEMMA WatchPreserved == WatchInv /\ [Watchlist!Next]_Watchlist!vars => WatchInv'
<1> SUFFICES ASSUME WatchInv, [Watchlist!Next]_Watchlist!vars PROVE WatchInv'
  OBVIOUS
<1>1. CASE Watchlist!Next
  <2>1. CASE \E a \in Watchlist!Asset : Watchlist!Evaluate(a)
    BY <2>1, EvaluatePreserves
  <2>2. CASE Watchlist!Reload \/ Watchlist!Match \/ Watchlist!Tick \/ Watchlist!ReloadThrows \/ Watchlist!InsertThrows
    BY <2>2, ReloadPreserves, MatchPreserves, TickPreserves, ThrowPreserves
  <2>3. CASE \E e \in Watchlist!Entry : Watchlist!InsertAlert(e) \/ Watchlist!PostEntry(e) \/ Watchlist!DeleteEntry(e)
    BY <2>3, InsertPreserves, PostPreserves, DeletePreserves
  <2> QED
    BY <1>1, <2>1, <2>2, <2>3 DEF Watchlist!Next
<1>2. CASE UNCHANGED Watchlist!vars
  BY <1>2 DEF Watchlist!vars, WatchInv, Watchlist!TypeOK, CopyIsFresh, Watchlist!CopyIsSnapshot, Watchlist!AlertIsRecent
<1> QED
  BY <1>1, <1>2

LEMMA MatchFindsSeasoned ==
    ASSUME WatchInv, Watchlist!Match, NEW e \in table, inAge[e] >= Ttl, Watchlist!NamesAsset(e)
    PROVE  e \in todo'
<1>1. e \in Watchlist!Entry /\ inAge[e] \in 0..Ttl /\ copyAge \in 0..Ttl /\ asset \in Watchlist!Asset
  BY DEF WatchInv, Watchlist!TypeOK
<1>2. inAge[e] > copyAge
  BY <1>1, WatchlistConstants DEF WatchInv, CopyIsFresh, Watchlist!Match
<1>3. e \in copy
  BY <1>1, <1>2 DEF WatchInv, Watchlist!CopyIsSnapshot
<1>4. Watchlist!Matches(e, asset)
  <2>1. <<asset.mac, Upper>> \in Host \X Spelling
    BY <1>1, WatchlistConstants DEF Watchlist!Asset
  <2>2. <<asset.mac, Upper>> # None
    BY <2>1, WatchlistConstants
  <2> QED
    BY <2>2 DEF Watchlist!NamesAsset, Watchlist!Matches
<1> QED
  BY <1>3, <1>4 DEF Watchlist!Match

-----------------------------------------------------------------------------
(* The rules together: a behaviour is one of each.                         *)

LEMMA RulesAreEach == RulesSpec => ClaimsSpec /\ Watchlist!Spec
<1>1. RulesInit => ClaimsInit /\ Watchlist!Init
  BY DEF RulesInit
<1>2. [RulesNext]_<<part, claims, edited>> => [ClaimsNext]_<<vars, tracker, seen>>
  BY DEF RulesNext, Hear, Watch, claims, ClaimsNext
<1>3. [RulesNext]_<<part, claims, edited>> => [Watchlist!Next]_Watchlist!vars
  BY DEF RulesNext, Hear, Watch, edited, Watchlist!vars
<1> QED
  BY <1>1, <1>2, <1>3, PTL DEF RulesSpec, ClaimsSpec, Watchlist!Spec

LEMMA WatchInductive == RulesSpec => []WatchInv
<1>1. Watchlist!Spec => []WatchInv
  BY WatchBegins, WatchPreserved, PTL DEF Watchlist!Spec
<1> QED
  BY <1>1, RulesAreEach, PTL

\* Two devices that both announced the address lately, and neither was given it by a
\* lease, have raised the alert, for any window, debounce time and devices.
THEOREM BothAnnouncersAlerted == Threshold <= 2 => (RulesSpec => []AnnouncersAlerted)
<1>1. ClaimsAssumption
  BY RulesAssumption DEF RulesAssumption
<1> SUFFICES ASSUME Threshold <= 2 PROVE RulesSpec => []AnnouncersAlerted
  OBVIOUS
<1>2. ClaimsSpec => []AnnouncersAlerted
  BY <1>1, AnnouncersAlertedCorrect
<1> QED
  BY <1>2, RulesAreEach, PTL

\* A device that takes the address over from one that claimed it within the window
\* raises the alert with its first frame.
THEOREM TakersAlerted == Threshold <= 2 => (RulesSpec => TakeoverAlerted)
<1>1. ClaimsAssumption
  BY RulesAssumption DEF RulesAssumption
<1> SUFFICES ASSUME Threshold <= 2 PROVE RulesSpec => TakeoverAlerted
  OBVIOUS
<1>2. ClaimsSpec => TakeoverAlerted
  BY <1>1, TakeoverAlertedCorrect
<1> QED
  BY <1>2, RulesAreEach, PTL

\* A row that is in the table, or out of it, for longer than the copy is old is so in
\* the copy (rule_watchlist.cpp:19).
THEOREM CopyIsSnapshotCorrect == RulesSpec => []Watchlist!CopyIsSnapshot
<1>1. WatchInv => Watchlist!CopyIsSnapshot
  BY DEF WatchInv
<1> QED
  BY <1>1, WatchInductive, PTL

\* The state of the watchlist rule has its types, and an alert is about a row that is in
\* the table or left it less than the time to live ago, however the table is edited
\* while the rule works.
THEOREM AlertIsRecentCorrect == RulesSpec => []AlertIsRecent
<1>1. WatchInv => AlertIsRecent
  BY DEF WatchInv, AlertIsRecent
<1> QED
  BY <1>1, WatchInductive, PTL

\* An event raises an alert for every row that names an address of its asset and was
\* in the table for the time to live.
THEOREM SeasonedRowMatchesCorrect == RulesSpec => SeasonedRowMatches
<1>1. WatchInv /\ [Watchlist!Next]_Watchlist!vars =>
        [Watchlist!Match => \A e \in table :
            inAge[e] >= Ttl /\ Watchlist!NamesAsset(e) => e \in todo']_Watchlist!vars
  BY MatchFindsSeasoned
<1> QED
  BY <1>1, WatchInductive, RulesAreEach, PTL
     DEF Watchlist!Spec, SeasonedRowMatches, Watchlist!SeasonedRowMatches
=============================================================================
