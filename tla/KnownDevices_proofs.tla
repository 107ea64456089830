------------------------- MODULE KnownDevices_proofs -------------------------
(***************************************************************************)
(* Proofs about what the tracker keeps up to date, for any devices, kinds  *)
(* of packets and times, and for any tables of fingerprints.               *)
(***************************************************************************)
EXTENDS KnownDevices, FiniteSetTheorems, WellFoundedInduction, TLAPS

(* Presence.                                                               *)

\* Whatever fails: a write of the row is never noted without the row, and an inactive
\* row is due to be written.
Due ==
    /\ Presence!TypeOK
    /\ \A d \in Device : rowAge[d] <= writeAge[d]
    /\ \A d \in Device : ~rowActive[d] => writeAge[d] > Throttle
    /\ pc \in {"expire", "gone"} => \A d \in stale : rowAge[d] > Timeout

\* While the database works: the row and the note of a device follow its packets,
\* except for the device the running handler works on.
Following ==
    /\ \A d \in Device : \/ rowAge[d] <= seenAge[d] + Throttle
                         \/ pc \in {"reactivate", "refresh"} /\ d = dev
    /\ \A d \in Device : cacheActive[d] => rowActive[d] \/ (pc \in {"reactivate", "gone"} /\ d = dev)
    /\ \A d \in Device : rowActive[d] \/ note[d] = "gone" \/ (pc = "gone" /\ d = dev)
    /\ \A d \in Device : "name" \notin Kinds[d] /\ rowActive[d] => note[d] = "returned"
    /\ pc = "refresh" /\ "name" \notin Kinds[dev] => rowActive[dev]
    /\ pc = "gone" => ~rowActive[dev] /\ ("name" \notin Kinds[dev] => note[dev] = "returned")
    /\ pc \in {"expire", "gone"} => \A d \in stale : rowActive[d] \/ (pc = "gone" /\ d = dev)

LEMMA Times ==
    ASSUME Presence!TypeOK
    PROVE  /\ Timeout \in Nat /\ Throttle \in Nat /\ Cap \in Nat
           /\ Throttle < Timeout /\ Timeout + Throttle < Cap
           /\ \A d \in Device : /\ rowAge[d] \in Nat /\ writeAge[d] \in Nat /\ seenAge[d] \in Nat
                                /\ rowAge[d] <= Cap /\ writeAge[d] <= Cap /\ seenAge[d] <= Cap
BY KnownAssumption DEF Presence!PresenceAssumption, Presence!TypeOK

LEMMA StartsFollowing == Presence!Init => Due /\ Following
<1> SUFFICES ASSUME Presence!Init PROVE Due /\ Following
  OBVIOUS
<1>1. Timeout \in Nat /\ Throttle \in Nat /\ Cap \in Nat /\ 0 \in 0..Cap
  BY KnownAssumption DEF Presence!PresenceAssumption
<1>2. /\ pc = "idle" /\ dev \in Device /\ moved = FALSE /\ stale = {}
      /\ cacheActive = [d \in Device |-> TRUE] /\ rowActive = [d \in Device |-> TRUE]
      /\ rowAge = [d \in Device |-> 0] /\ seenAge = [d \in Device |-> 0]
      /\ writeAge = [d \in Device |-> 0] /\ note = [d \in Device |-> "returned"]
  BY DEF Presence!Init
<1>3. Presence!TypeOK
  BY <1>1, <1>2 DEF Presence!TypeOK
<1>4. \A d \in Device : /\ rowAge[d] <= writeAge[d] /\ rowAge[d] <= seenAge[d] + Throttle
                        /\ rowActive[d] /\ note[d] = "returned"
  BY <1>1, <1>2
<1> QED
  BY <1>2, <1>3, <1>4 DEF Due, Following

\* A packet changes the cache and the ages of its device only.
LEMMA PacketKeepsDue ==
    ASSUME Due, NEW d \in Device, Presence!Upsert(d) \/ Presence!SeeName(d)
    PROVE  Due'
<1>1. /\ pc' \in {"reactivate", "refresh", "changeIp", "idle"} /\ dev' = d /\ moved' \in BOOLEAN
      /\ UNCHANGED <<stale, rowActive, rowAge, writeAge, note>>
      /\ seenAge' = [seenAge EXCEPT ![d] = 0]
      /\ cacheActive' \in [Device -> BOOLEAN]
  BY DEF Due, Presence!TypeOK, Presence!Upsert, Presence!SeeName, Presence!AfterSeen
<1>2. seenAge' \in [Device -> 0..Cap]
  BY <1>1, Times DEF Due, Presence!TypeOK
<1> QED
  BY <1>1, <1>2 DEF Due, Presence!TypeOK

LEMMA WriteKeepsDue ==
    ASSUME Due, Presence!Reactivate \/ Presence!Refresh
    PROVE  Due'
<1>1. /\ pc' \in {"changeIp", "idle"} /\ UNCHANGED <<dev, moved, stale, cacheActive, seenAge>>
      /\ rowActive' = [rowActive EXCEPT ![dev] = TRUE]
      /\ rowAge' = [rowAge EXCEPT ![dev] = 0] /\ writeAge' = [writeAge EXCEPT ![dev] = 0]
      /\ note' \in [Device -> {"gone", "returned"}]
  BY DEF Due, Presence!TypeOK, Presence!Reactivate, Presence!Refresh, Presence!WriteLastSeen,
         Presence!AfterSeen
<1>2. Presence!TypeOK'
  BY <1>1, Times DEF Due, Presence!TypeOK
<1>3. \A d \in Device : rowAge'[d] <= writeAge'[d] /\ (~rowActive'[d] => writeAge'[d] > Throttle)
  BY <1>1, Times DEF Due, Presence!TypeOK
<1> QED
  BY <1>1, <1>2, <1>3 DEF Due

LEMMA OthersKeepDue ==
    ASSUME Due, \/ Presence!ChangeIp \/ Presence!FindStale \/ Presence!InsertGone
                \/ Presence!Restart \/ Presence!Throw
                \/ \E d \in Device : Presence!SetInactive(d)
    PROVE  Due'
<1>1. CASE Presence!ChangeIp
  <2>1. /\ pc' = "idle" /\ rowAge' = [rowAge EXCEPT ![dev] = 0]
        /\ UNCHANGED <<dev, moved, stale, cacheActive, rowActive, writeAge, seenAge, note>>
    BY <1>1 DEF Presence!ChangeIp
  <2>2. Presence!TypeOK'
    BY <2>1, Times DEF Due, Presence!TypeOK
  <2>3. \A d \in Device : rowAge'[d] <= writeAge'[d]
    BY <2>1, Times DEF Due, Presence!TypeOK
  <2> QED
    BY <2>1, <2>2, <2>3 DEF Due
<1>2. CASE Presence!FindStale
  BY <1>2 DEF Presence!FindStale, Presence!ages, Due, Presence!TypeOK
<1>3. CASE Presence!InsertGone
  BY <1>3 DEF Presence!InsertGone, Presence!ages, Due, Presence!TypeOK
<1>4. CASE Presence!Restart
  <2>1. /\ pc = "idle" /\ pc' = pc /\ UNCHANGED <<dev, moved, stale, rowActive, rowAge, seenAge, note>>
        /\ cacheActive' = rowActive /\ writeAge' = [d \in Device |-> Cap]
    BY <1>4 DEF Presence!Restart, Presence!handler
  <2> QED
    BY <2>1, Times DEF Due, Presence!TypeOK
<1>5. CASE Presence!Throw
  BY <1>5 DEF Presence!Throw, Presence!ages, Due, Presence!TypeOK
<1>6. CASE \E d \in Device : Presence!SetInactive(d)
  <2>1. PICK d \in Device : Presence!SetInactive(d)
    BY <1>6
  <2>2. /\ pc = "expire" /\ d \in stale /\ pc' = "gone" /\ dev' = d
        /\ rowActive' = [rowActive EXCEPT ![d] = FALSE]
        /\ UNCHANGED <<moved, stale, cacheActive, rowAge, writeAge, seenAge, note>>
    BY <2>1 DEF Presence!SetInactive, Presence!ages
  <2>3. writeAge[d] > Throttle
    BY <2>2, Times DEF Due
  <2> QED
    BY <2>2, <2>3 DEF Due, Presence!TypeOK
<1> QED
  BY <1>1, <1>2, <1>3, <1>4, <1>5, <1>6

LEMMA TickKeepsDue ==
    ASSUME Due, Presence!Tick
    PROVE  Due'
<1>1. /\ pc = "idle" /\ UNCHANGED <<pc, dev, moved, stale, cacheActive, rowActive, note>>
      /\ rowAge' = [d \in Device |-> IF rowAge[d] < Cap THEN rowAge[d] + 1 ELSE rowAge[d]]
      /\ writeAge' = [d \in Device |-> IF writeAge[d] < Cap THEN writeAge[d] + 1 ELSE writeAge[d]]
      /\ seenAge' = [d \in Device |-> IF seenAge[d] < Cap THEN seenAge[d] + 1 ELSE seenAge[d]]
  BY DEF Presence!Tick, Presence!Older, Presence!handler
<1>2. \A d \in Device : /\ rowAge'[d] \in 0..Cap /\ writeAge'[d] \in 0..Cap /\ seenAge'[d] \in 0..Cap
                        /\ rowAge'[d] <= writeAge'[d] /\ writeAge'[d] >= writeAge[d]
  BY <1>1, Times DEF Due
<1>3. Presence!TypeOK'
  BY <1>1, <1>2 DEF Due, Presence!TypeOK
<1> QED
  BY <1>1, <1>2, <1>3, Times DEF Due

LEMMA DueKept == ASSUME Due, Presence!Next PROVE Due'
BY PacketKeepsDue, WriteKeepsDue, OthersKeepDue, TickKeepsDue DEF Presence!Next, Presence!Work

\* A device is active in the cache when its packet is seen, and its row is written if it
\* is behind.
LEMMA PacketKeepsFollowing ==
    ASSUME Due, Following, NEW d \in Device, Presence!Upsert(d) \/ Presence!SeeName(d)
    PROVE  Following'
<1>1. /\ pc = "idle" /\ dev' = d
      /\ UNCHANGED <<stale, rowActive, rowAge, writeAge, note>>
      /\ seenAge' = [seenAge EXCEPT ![d] = 0]
      /\ pc' \in {"reactivate", "refresh", "changeIp", "idle"}
      /\ pc' \notin {"reactivate", "refresh"} => ~(writeAge[d] > Throttle)
  BY DEF Presence!Upsert, Presence!SeeName, Presence!AfterSeen, Presence!WriteDue
<1>2. \A e \in Device : seenAge'[e] = IF e = d THEN 0 ELSE seenAge[e]
  BY <1>1 DEF Due, Presence!TypeOK
<1>3. ASSUME NEW e \in Device
      PROVE  rowAge'[e] <= seenAge'[e] + Throttle \/ (pc' \in {"reactivate", "refresh"} /\ e = dev')
  <2>1. CASE e = d
    BY <1>1, <1>2, <2>1, Times DEF Due
  <2>2. CASE e # d
    BY <1>1, <1>2, <2>2 DEF Following
  <2> QED
    BY <2>1, <2>2
<1>4. /\ \A e \in Device : cacheActive'[e] => rowActive'[e] \/ (pc' \in {"reactivate", "gone"} /\ e = dev')
      /\ pc' = "refresh" /\ "name" \notin Kinds[dev'] => rowActive'[dev']
  <2>1. CASE Presence!Upsert(d)
    <3>1. /\ cacheActive' = [cacheActive EXCEPT ![d] = TRUE]
          /\ ~cacheActive[d] => pc' = "reactivate"
      BY <2>1 DEF Presence!Upsert
    <3> QED
      BY <1>1, <3>1 DEF Following, Due, Presence!TypeOK
  <2>2. CASE Presence!SeeName(d)
    BY <1>1, <2>2 DEF Presence!SeeName, Following
  <2> QED
    BY <2>1, <2>2
<1> QED
  BY <1>1, <1>3, <1>4 DEF Following

LEMMA WriteKeepsFollowing ==
    ASSUME Due, Following, Presence!Reactivate \/ Presence!Refresh
    PROVE  Following'
<1>1. /\ pc' \in {"changeIp", "idle"} /\ UNCHANGED <<dev, stale, cacheActive, seenAge>>
      /\ rowActive' = [rowActive EXCEPT ![dev] = TRUE]
      /\ rowAge' = [rowAge EXCEPT ![dev] = 0]
      /\ pc \in {"reactivate", "refresh"}
      /\ pc = "reactivate" => note' = [note EXCEPT ![dev] = "returned"]
      /\ pc = "refresh" => note' = note
  BY DEF Presence!Reactivate, Presence!Refresh, Presence!WriteLastSeen, Presence!AfterSeen
<1>2. ASSUME NEW d \in Device
      PROVE  /\ rowAge'[d] <= seenAge'[d] + Throttle
             /\ cacheActive'[d] => rowActive'[d]
             /\ rowActive'[d] \/ note'[d] = "gone"
             /\ "name" \notin Kinds[d] /\ rowActive'[d] => note'[d] = "returned"
  <2>1. CASE d = dev
    BY <1>1, <2>1, Times DEF Due, Following, Presence!TypeOK
  <2>2. CASE d # dev
    <3>1. rowAge'[d] = rowAge[d] /\ rowActive'[d] = rowActive[d] /\ note'[d] = note[d]
      BY <1>1, <2>2 DEF Due, Presence!TypeOK
    <3> QED
      BY <1>1, <2>2, <3>1 DEF Following
  <2> QED
    BY <2>1, <2>2
<1> QED
  BY <1>1, <1>2 DEF Following

LEMMA ExpireKeepsFollowing ==
    ASSUME Due, Following,
           Presence!FindStale \/ Presence!InsertGone \/ \E d \in Device : Presence!SetInactive(d)
    PROVE  Following'
<1>1. CASE Presence!FindStale
  BY <1>1 DEF Presence!FindStale, Presence!ages, Following
<1>2. CASE Presence!InsertGone
  <2>1. /\ pc = "gone" /\ pc' \in {"idle", "expire"} /\ dev' = dev
        /\ note' = [note EXCEPT ![dev] = "gone"]
        /\ cacheActive' = [cacheActive EXCEPT ![dev] = FALSE]
        /\ stale' = stale \ {dev}
        /\ UNCHANGED <<rowActive, rowAge, writeAge, seenAge>>
    BY <1>2 DEF Presence!InsertGone, Presence!ages
  <2>2. ASSUME NEW d \in Device
        PROVE  /\ cacheActive'[d] => rowActive'[d]
               /\ rowActive'[d] \/ note'[d] = "gone"
    <3>1. /\ cacheActive'[d] = IF d = dev THEN FALSE ELSE cacheActive[d]
          /\ note'[d] = IF d = dev THEN "gone" ELSE note[d]
      BY <2>1 DEF Due, Presence!TypeOK
    <3> QED
      BY <2>1, <3>1 DEF Following
  <2>3. ASSUME NEW d \in Device, "name" \notin Kinds[d], rowActive'[d]
        PROVE  note'[d] = "returned"
    <3>1. d # dev /\ note'[d] = note[d]
      BY <2>1, <2>3 DEF Following, Due, Presence!TypeOK
    <3> QED
      BY <2>1, <2>3, <3>1 DEF Following
  <2> QED
    BY <2>1, <2>2, <2>3 DEF Following
<1>3. CASE \E d \in Device : Presence!SetInactive(d)
  <2>1. PICK d \in Device : Presence!SetInactive(d)
    BY <1>3
  <2>2. /\ pc = "expire" /\ d \in stale /\ pc' = "gone" /\ dev' = d
        /\ rowActive' = [rowActive EXCEPT ![d] = FALSE]
        /\ UNCHANGED <<moved, stale, cacheActive, rowAge, writeAge, seenAge, note>>
    BY <2>1 DEF Presence!SetInactive, Presence!ages
  <2>3. rowActive[d]
    BY <2>2 DEF Following
  <2> QED
    BY <2>2, <2>3 DEF Following, Due, Presence!TypeOK
<1> QED
  BY <1>1, <1>2, <1>3

LEMMA OthersKeepFollowing ==
    ASSUME Due, Following, Presence!ChangeIp \/ Presence!Restart \/ Presence!Tick
    PROVE  Following'
<1>1. CASE Presence!ChangeIp
  <2>1. /\ pc = "changeIp" /\ pc' = "idle" /\ rowAge' = [rowAge EXCEPT ![dev] = 0]
        /\ UNCHANGED <<dev, stale, cacheActive, rowActive, seenAge, note>>
    BY <1>1 DEF Presence!ChangeIp
  <2>2. \A d \in Device : rowAge'[d] <= seenAge'[d] + Throttle
    BY <2>1, Times DEF Due, Following, Presence!TypeOK
  <2> QED
    BY <2>1, <2>2 DEF Following
<1>2. CASE Presence!Restart
  BY <1>2 DEF Presence!Restart, Presence!handler, Following
<1>3. CASE Presence!Tick
  <2>1. /\ pc = "idle" /\ UNCHANGED <<pc, dev, stale, cacheActive, rowActive, note>>
        /\ rowAge' = [d \in Device |-> IF rowAge[d] < Cap THEN rowAge[d] + 1 ELSE rowAge[d]]
        /\ seenAge' = [d \in Device |-> IF seenAge[d] < Cap THEN seenAge[d] + 1 ELSE seenAge[d]]
    BY <1>3 DEF Presence!Tick, Presence!Older, Presence!handler
  <2>2. \A d \in Device : rowAge[d] <= seenAge[d] + Throttle
    BY <2>1 DEF Following
  <2>3. \A d \in Device : rowAge'[d] <= seenAge'[d] + Throttle
    BY <2>1, <2>2, Times DEF Due
  <2> QED
    BY <2>1, <2>3 DEF Following
<1> QED
  BY <1>1, <1>2, <1>3

LEMMA FollowingKept == ASSUME Due, Following, Presence!Work PROVE Following'
BY PacketKeepsFollowing, WriteKeepsFollowing, ExpireKeepsFollowing, OthersKeepFollowing
   DEF Presence!Work

PresenceInv == Due /\ (part = "sound" => Following)

LEMMA PresenceInvariant == KnownSpec => []PresenceInv
<1>1. KnownInit => PresenceInv
  BY StartsFollowing DEF KnownInit, PresenceInv
<1>2. PresenceInv /\ [KnownNext]_<<part, vars, present>> => PresenceInv'
  <2> SUFFICES ASSUME PresenceInv, [KnownNext]_<<part, vars, present>> PROVE PresenceInv'
    OBVIOUS
  <2>1. CASE Attend
    <3>1. part' = part /\ (Presence!Work \/ (part = "failing" /\ Presence!Throw))
      BY <2>1 DEF Attend
    <3>2. Due'
      BY <3>1, DueKept DEF PresenceInv, Presence!Next
    <3>3. part' = "sound" => Following'
      BY <3>1, FollowingKept DEF PresenceInv
    <3> QED
      BY <3>2, <3>3 DEF PresenceInv
  <2>2. CASE Enrich \/ UNCHANGED <<part, vars, present>>
    <3>1. part' = part /\ UNCHANGED present
      BY <2>2 DEF Enrich
    <3> QED
      BY <3>1 DEF present, PresenceInv, Due, Following, Presence!TypeOK
  <2> QED
    BY <2>1, <2>2 DEF KnownNext
<1> QED
  BY <1>1, <1>2, PTL DEF KnownSpec

\* The row of a device is as fresh as the throttle allows, an active entry is active in
\* the table and an inactive row was announced while the database works, and a row that
\* lags behind is written by the next packet whatever failed: for any devices, kinds of
\* packets, throttle and timeout.
THEOREM PresenceKeptCorrect == KnownSpec => []PresenceKept
<1>1. PresenceInv => PresenceKept
  <2> SUFFICES ASSUME PresenceInv PROVE PresenceKept
    OBVIOUS
  <2>1. Presence!LagIsRetried
    <3>1. \A d \in Device : ~rowActive[d] => writeAge[d] > Throttle
      BY DEF PresenceInv, Due
    <3>2. \A d \in Device : rowAge[d] > seenAge[d] + Throttle => writeAge[d] > Throttle
      BY Times DEF PresenceInv, Due
    <3> QED
      BY <3>1, <3>2 DEF Presence!LagIsRetried, Presence!WriteDue
  <2>2. ASSUME Following PROVE Presence!RowFresh /\ Presence!ActiveInTable /\ Presence!InactiveAnnounced
    BY <2>2 DEF Following, Presence!RowFresh, Presence!ActiveInTable, Presence!InactiveAnnounced
  <2> QED
    BY <2>1, <2>2 DEF PresenceInv, Due, PresenceKept
<1> QED
  BY <1>1, PresenceInvariant, PTL

\* While the database works, only a device that was silent for the timeout, less what
\* the throttle costs, goes, and one that sends ARP and DHCP goes and returns in turn.
THEOREM ComesAndGoesCorrect == KnownSpec => ComesAndGoes
<1>1. PresenceInv /\ [KnownNext]_<<part, vars, present>> =>
        [part = "sound" => Presence!SilenceFirst /\ Presence!InTurn]_present
  <2> SUFFICES ASSUME PresenceInv, Attend, part = "sound"
               PROVE  Presence!SilenceFirst /\ Presence!InTurn
    BY DEF KnownNext, Enrich
  <2>1. Due /\ Following /\ Presence!Work
    BY DEF PresenceInv, Attend
  <2>2. Presence!InTurn
    BY <2>1 DEF Following, Presence!InTurn, Presence!InsertGone
  <2>3. ASSUME NEW d \in Device, rowActive[d], ~rowActive'[d]
        PROVE  seenAge[d] + Throttle > Timeout
    <3>1. rowActive' # rowActive
      BY <2>3
    <3>2. rowActive' # [rowActive EXCEPT ![dev] = TRUE]
      BY <2>1, <2>3 DEF Due, Presence!TypeOK
    <3>3. PICK e \in Device : Presence!SetInactive(e)
      BY <2>1, <3>1, <3>2
         DEF Presence!Work, Presence!Upsert, Presence!SeeName, Presence!Reactivate, Presence!Refresh,
             Presence!WriteLastSeen, Presence!ChangeIp, Presence!FindStale, Presence!InsertGone,
             Presence!Restart, Presence!Tick, Presence!handler
    <3>4. pc = "expire" /\ e \in stale /\ rowActive' = [rowActive EXCEPT ![e] = FALSE]
      BY <3>3 DEF Presence!SetInactive
    <3>5. d = e
      BY <2>1, <2>3, <3>4 DEF Due, Presence!TypeOK
    <3>6. rowAge[d] > Timeout /\ rowAge[d] <= seenAge[d] + Throttle
      BY <2>1, <3>4, <3>5 DEF Due, Following
    <3> QED
      BY <2>1, <3>6, Times DEF Due
  <2> QED
    BY <2>2, <2>3 DEF Presence!SilenceFirst
<1> QED
  BY <1>1, PresenceInvariant, PTL DEF KnownSpec, ComesAndGoes
-----------------------------------------------------------------------------
(* Enrichment: a vote of the rules.                                        *)

\* A set of naturals that is not empty has a least element; it is the set whose
\* interval 1..n is minimal for inclusion.
LEMMA LeastNat ==
    ASSUME NEW S \in SUBSET Nat, S # {}
    PROVE  \E n \in S : \A k \in S : n <= k
<1>1. PICK m \in S : TRUE
  OBVIOUS
<1> DEFINE D == 1..m
           T == {1..n : n \in {j \in S : j <= m}}
           R == StrictSubsetOrdering(D)
<1>2. IsWellFoundedOn(R, FiniteSubsetsOf(D))
  BY FS_StrictSubsetOrderingWellFounded
<1>3. T # {}
  BY <1>1
<1>4. T \subseteq FiniteSubsetsOf(D)
  <2> SUFFICES ASSUME NEW n \in S, n <= m PROVE 1..n \in FiniteSubsetsOf(D)
    OBVIOUS
  <2>1. IsFiniteSet(1..n)
    BY FS_Interval
  <2>2. 1..n \subseteq 1..m
    OBVIOUS
  <2> QED BY <2>1, <2>2 DEF FiniteSubsetsOf
<1>5. PICK x \in T : \A y \in T : ~ (<<y, x>> \in R)
  <2> HIDE DEF T, R, D
  <2> QED BY <1>2, <1>3, <1>4, WFMin
<1>6. PICK n \in S : n <= m /\ x = 1..n
  OBVIOUS
<1>7. ASSUME NEW k \in S, k < n PROVE FALSE
  <2>1. 1..k \in T
    BY <1>6, <1>7
  <2>2. 1..k \subseteq 1..n /\ n \in 1..n /\ n \notin 1..k
    BY <1>6, <1>7
  <2>3. 1..k \in SUBSET D /\ 1..n \in SUBSET D
    BY <1>6, <1>7
  <2>4. <<1..k, 1..n>> \in R
    BY <2>2, <2>3 DEF StrictSubsetOrdering
  <2> QED BY <1>5, <1>6, <2>1, <2>4
<1> QED BY <1>6, <1>7


LEMMA MinIn == ASSUME NEW S \in SUBSET Nat, S # {} PROVE Min(S) \in S
<1>1. \E n \in S : \A k \in S : n <= k
  BY LeastNat
<1> QED
  BY <1>1 DEF Min

\* A fraction that exceeds one which no smaller is below exceeds that, too.
LEMMA Exceeds ==
    ASSUME NEW p \in Nat, NEW q \in Nat, NEW r \in Nat,
           NEW a \in Nat \ {0}, NEW b \in Nat \ {0}, NEW c \in Nat \ {0},
           p * b <= q * a, q * c < r * b
    PROVE  p * c <= r * a
<1>1. (p * b) * c <= (q * a) * c
  <2>1. \A x, y \in Nat : x <= y => x * c <= y * c
    OBVIOUS
  <2>2. p * b \in Nat /\ q * a \in Nat
    OBVIOUS
  <2> QED
    BY <2>1, <2>2
<1>2. (q * c) * a <= (r * b) * a
  <2>1. \A x, y \in Nat : x < y => x * a <= y * a
    OBVIOUS
  <2>2. q * c \in Nat /\ r * b \in Nat
    OBVIOUS
  <2> QED
    BY <2>1, <2>2
<1>3. (p * c) * b <= (r * a) * b
  BY <1>1, <1>2
<1>4. ASSUME p * c > r * a PROVE FALSE
  <2>1. \A x, y \in Nat : x > y => x * b > y * b
    OBVIOUS
  <2>2. p * c \in Nat /\ r * a \in Nat
    OBVIOUS
  <2>3. (p * c) * b > (r * a) * b
    BY <1>4, <2>1, <2>2
  <2>4. (p * c) * b \in Nat /\ (r * a) * b \in Nat
    OBVIOUS
  <2> QED
    BY <1>3, <2>3, <2>4
<1> QED
  BY <1>4

LEMMA SigFacts ==
    ASSUME NEW observed \in Seq(Nat), observed # <<>>, NEW i \in DOMAIN DhcpSigs
    PROVE  Points(observed, i) \in Nat /\ Scale(observed, i) \in Nat \ {0}
<1> DEFINE Entry == [options : Seq(Nat), os_name : STRING, weight : Nat]
           sig   == DhcpSigs[i].options
<1>1. DhcpSigs[i] \in Entry
  <2>1. DhcpSigs \in Seq(Entry)
    BY EnrichmentAssumption
  <2> HIDE DEF Entry
  <2> QED
    BY <2>1
<1>2. sig \in Seq(Nat) /\ DhcpSigs[i].weight \in Nat
  BY <1>1
<1>3. Matches(observed, sig) \in Nat
  <2> DEFINE hits == {k \in DOMAIN observed : \E j \in DOMAIN sig : sig[j] = observed[k]}
  <2>1. IsFiniteSet(1..Len(observed))
    BY FS_Interval
  <2>2. hits \subseteq 1..Len(observed)
    OBVIOUS
  <2>3. Cardinality(hits) \in Nat
    BY <2>1, <2>2, FS_Subset, FS_CardinalityType
  <2> QED
    BY <2>3 DEF Matches
<1>4. Scale(observed, i) \in Nat \ {0}
  <2>1. Len(observed) \in Nat /\ Len(observed) > 0 /\ Len(sig) \in Nat
    BY <1>2
  <2> HIDE DEF sig
  <2> QED
    BY <2>1 DEF Scale, Denom, sig
<1> QED
  BY <1>2, <1>3, <1>4 DEF Points

\* One of the signatures has the highest score.
LEMMA BestExists ==
    ASSUME NEW observed \in Seq(Nat), observed # <<>>
    PROVE  \E i \in DOMAIN DhcpSigs : \A j \in DOMAIN DhcpSigs : ~HigherScore(observed, j, i)
<1> DEFINE n == Len(DhcpSigs)
           Best(i, m) == \A j \in 1..m : ~HigherScore(observed, j, i)
           Bad == {m \in 1..n : ~\E i \in 1..m : Best(i, m)}
<1>1. n \in Nat /\ n >= 1 /\ DOMAIN DhcpSigs = 1..n
  <2> DEFINE Entry == [options : Seq(Nat), os_name : STRING, weight : Nat]
  <2>1. DhcpSigs \in Seq(Entry) /\ DhcpSigs # <<>>
    BY EnrichmentAssumption
  <2> HIDE DEF Entry
  <2> QED
    BY <2>1
<1>2. \A i \in 1..n : Points(observed, i) \in Nat /\ Scale(observed, i) \in Nat \ {0}
  BY <1>1, SigFacts
<1> HIDE DEF n
<1>3. Bad = {}
  <2> SUFFICES ASSUME Bad # {} PROVE FALSE
    OBVIOUS
  <2>1. PICK m \in Bad : \A k \in Bad : m <= k
    <3>1. Bad \in SUBSET Nat
      BY <1>1
    <3> HIDE DEF Bad
    <3> QED
      BY <3>1, LeastNat
  <2>2. m \in 1..n /\ ~\E i \in 1..m : Best(i, m)
    BY <2>1
  <2>3. m # 1
    <3>1. ~HigherScore(observed, 1, 1)
      BY <1>1, <1>2 DEF HigherScore
    <3> QED
      BY <2>2, <3>1
  <2>4. m - 1 \in 1..n /\ m - 1 \notin Bad
    <3>1. m - 1 \in 1..n /\ ~(m <= m - 1)
      BY <1>1, <2>2, <2>3
    <3> HIDE DEF Bad
    <3> QED
      BY <2>1, <3>1
  <2>5. PICK k \in 1..(m - 1) : Best(k, m - 1)
    <3> HIDE DEF Best
    <3> QED
      BY <2>4
  <2>6. k \in 1..n /\ k \in 1..m
    BY <1>1, <2>2, <2>5
  <2>7. \A j \in 1..m : j \in 1..(m - 1) \/ j = m
    BY <2>2
  <2>8. CASE ~HigherScore(observed, m, k)
    <3>1. Best(k, m)
      BY <2>5, <2>7, <2>8
    <3> QED
      BY <2>2, <2>6, <3>1
  <2>9. CASE HigherScore(observed, m, k)
    <3>1. ASSUME NEW j \in 1..m PROVE ~HigherScore(observed, j, m)
      <4> DEFINE p == Points(observed, j)
                 q == Points(observed, k)
                 r == Points(observed, m)
                 a == Scale(observed, j)
                 b == Scale(observed, k)
                 c == Scale(observed, m)
      <4>1. j \in 1..n
        BY <1>1, <2>2
      <4>2. p \in Nat /\ q \in Nat /\ r \in Nat /\ a \in Nat \ {0} /\ b \in Nat \ {0} /\ c \in Nat \ {0}
        BY <1>2, <2>2, <2>6, <4>1
      <4>3. q * c < r * b
        <5>1. r * b > q * c
          BY <2>9 DEF HigherScore
        <5> HIDE DEF p, q, r, a, b, c
        <5> QED
          BY <4>2, <5>1
      <4>4. CASE j \in 1..(m - 1)
        <5>1. ~(p * b > q * a)
          BY <2>5, <4>4 DEF HigherScore
        <5> HIDE DEF p, q, r, a, b, c
        <5>2. p * b <= q * a
          BY <4>2, <5>1
        <5>3. p * c <= r * a
          BY <4>2, <4>3, <5>2, Exceeds
        <5>4. ~(p * c > r * a)
          BY <4>2, <5>3
        <5> QED
          BY <5>4 DEF HigherScore, p, q, r, a, b, c
      <4>5. CASE j = m
        <5>1. p * c = r * a /\ r * a \in Nat
          <6>1. p = r /\ a = c
            BY <4>5
          <6> HIDE DEF p, q, r, a, b, c
          <6> QED
            BY <4>2, <6>1
        <5> HIDE DEF p, q, r, a, b, c
        <5>2. ~(p * c > r * a)
          BY <5>1
        <5> QED
          BY <5>2 DEF HigherScore, p, q, r, a, b, c
      <4> QED
        BY <2>7, <4>4, <4>5
    <3> QED
      BY <2>2, <3>1
  <2> QED
    BY <2>8, <2>9
<1>4. n \in 1..n
  BY <1>1
<1>5. \E i \in 1..n : Best(i, n)
  BY <1>3, <1>4
<1> QED
  BY <1>1, <1>5

LEMMA QuotientPositive ==
    ASSUME NEW p \in Nat, NEW c \in Nat \ {0}, p > 30 * c
    PROVE  p \div c \in Nat \ {0}
<1> DEFINE q == p \div c
<1>1. q \in Int /\ p < c * (q + 1)
  OBVIOUS
<1>2. q <= 0 => c * (q + 1) <= c
  <2> HIDE DEF q
  <2> SUFFICES ASSUME q <= 0 PROVE c * (q + 1) <= c
    OBVIOUS
  <2>1. q + 1 <= 1 /\ q + 1 \in Int
    BY <1>1
  <2> QED
    BY <2>1
<1> HIDE DEF q
<1>3. ~(q <= 0)
  BY <1>1, <1>2
<1>4. q \in Nat \ {0}
  BY <1>1, <1>3
<1> QED
  BY <1>4 DEF q

\* No signature exceeds the one that is chosen.
LEMMA BestIsBest ==
    ASSUME NEW observed \in Seq(Nat), observed # <<>>
    PROVE  /\ BestSig(observed) \in DOMAIN DhcpSigs
           /\ \A j \in DOMAIN DhcpSigs : ~HigherScore(observed, j, BestSig(observed))
<1> DEFINE best == {i \in DOMAIN DhcpSigs : \A j \in DOMAIN DhcpSigs : ~HigherScore(observed, j, i)}
<1>1. best \in SUBSET Nat /\ best # {}
  <2> DEFINE Entry == [options : Seq(Nat), os_name : STRING, weight : Nat]
  <2>1. DhcpSigs \in Seq(Entry)
    BY EnrichmentAssumption
  <2> HIDE DEF Entry
  <2>2. DOMAIN DhcpSigs \subseteq Nat
    BY <2>1
  <2> QED
    BY <2>2, BestExists
<1>2. Min(best) \in best
  <2> HIDE DEF best
  <2> QED
    BY <1>1, MinIn
<1>3. BestSig(observed) = Min(best)
  BY DEF BestSig
<1> QED
  BY <1>2, <1>3

\* A vote is for nobody, or for a system of the table with a weight.
LEMMA DhcpVoteFacts ==
    ASSUME NEW observed \in Seq(Nat)
    PROVE  \/ DhcpVote(observed) = <<"", 0>>
           \/ \E i \in DOMAIN DhcpSigs, w \in Nat \ {0} : DhcpVote(observed) = <<DhcpSigs[i].os_name, w>>
<1>1. CASE observed = <<>>
  BY <1>1 DEF DhcpVote
<1>2. CASE observed # <<>>
  <2> DEFINE b == BestSig(observed)
             p == Points(observed, b)
             c == Scale(observed, b)
  <2>1. b \in DOMAIN DhcpSigs
    BY <1>2, BestIsBest
  <2>2. p \in Nat /\ c \in Nat \ {0}
    BY <1>2, <2>1, SigFacts
  <2>3. DhcpVote(observed) = IF p > 30 * c THEN <<DhcpSigs[b].os_name, p \div c>> ELSE <<"", 0>>
    BY <1>2 DEF DhcpVote
  <2>4. p > 30 * c => p \div c \in Nat \ {0}
    <3> HIDE DEF p, c
    <3> QED
      BY <2>2, QuotientPositive
  <2> HIDE DEF p, c, b
  <2> QED
    BY <2>1, <2>3, <2>4
<1> QED
  BY <1>1, <1>2

\* What is above the bar lifts what is not below it.
LEMMA AboveBar ==
    ASSUME NEW p \in Nat, NEW q \in Nat, NEW a \in Nat \ {0}, NEW b \in Nat \ {0},
           p > 30 * a, p * b <= q * a
    PROVE  q > 30 * b
<1> SUFFICES ASSUME q <= 30 * b PROVE FALSE
  OBVIOUS
<1>1. q * a <= (30 * b) * a
  <2>1. \A x, y \in Nat : x <= y => x * a <= y * a
    OBVIOUS
  <2> QED
    BY <2>1
<1>2. (30 * a) * b < p * b
  <2>1. \A x, y \in Nat : x < y => x * b < y * b
    OBVIOUS
  <2> QED
    BY <2>1
<1>3. (30 * b) * a = (30 * a) * b
  OBVIOUS
<1>4. q * a \in Nat /\ p * b \in Nat /\ (30 * a) * b \in Nat
  OBVIOUS
<1> QED
  BY <1>1, <1>2, <1>3, <1>4

\* In a table of signatures that lie apart, the options of one lead to its system.
LEMMA OwnVote ==
    ASSUME SignaturesApart, NEW i \in DOMAIN DhcpSigs, Unshared(i)
    PROVE  /\ DhcpSigs[i].options # <<>>
           /\ DhcpVote(DhcpSigs[i].options)[1] = DhcpSigs[i].os_name
<1> DEFINE own == DhcpSigs[i].options
           b   == BestSig(own)
<1>1. own \in Seq(Nat)
  <2> DEFINE Entry == [options : Seq(Nat), os_name : STRING, weight : Nat]
  <2>1. DhcpSigs \in Seq(Entry)
    BY EnrichmentAssumption
  <2> HIDE DEF Entry
  <2>2. DhcpSigs[i] \in Entry
    BY <2>1
  <2> QED
    BY <2>2 DEF Entry
<1>2. /\ Points(own, i) > 30 * Scale(own, i)
      /\ \A j \in DOMAIN DhcpSigs : DhcpSigs[j].os_name # DhcpSigs[i].os_name => HigherScore(own, i, j)
  BY DEF SignaturesApart
<1>3. own # <<>>
  <2> SUFFICES ASSUME own = <<>> PROVE FALSE
    OBVIOUS
  <2>1. Points(own, i) = 0 /\ Scale(own, i) = 0
    <3>1. DhcpSigs[i].weight \in Nat
      <4> DEFINE Entry == [options : Seq(Nat), os_name : STRING, weight : Nat]
      <4>1. DhcpSigs \in Seq(Entry)
        BY EnrichmentAssumption
      <4> HIDE DEF Entry
      <4>2. DhcpSigs[i] \in Entry
        BY <4>1
      <4> QED
        BY <4>2 DEF Entry
    <3>2. Matches(<<>>, <<>>) = 0
      BY FS_EmptySet DEF Matches
    <3> QED
      BY <3>1, <3>2 DEF Points, Scale, Denom
  <2> QED
    BY <1>2, <2>1
<1> HIDE DEF own
<1>4. b \in DOMAIN DhcpSigs /\ ~HigherScore(own, i, b) /\ DhcpSigs[b].os_name = DhcpSigs[i].os_name
  BY <1>1, <1>2, <1>3, BestIsBest
<1>5. /\ Points(own, i) \in Nat /\ Scale(own, i) \in Nat \ {0}
      /\ Points(own, b) \in Nat /\ Scale(own, b) \in Nat \ {0}
  BY <1>1, <1>3, <1>4, SigFacts
<1>6. Points(own, i) * Scale(own, b) <= Points(own, b) * Scale(own, i)
  <2>1. ~(Points(own, i) * Scale(own, b) > Points(own, b) * Scale(own, i))
    BY <1>4 DEF HigherScore
  <2>2. \A x, y, u, v \in Nat : ~(x * y > u * v) => x * y <= u * v
    OBVIOUS
  <2> QED
    BY <1>5, <2>1, <2>2
<1>7. Points(own, b) > 30 * Scale(own, b)
  BY <1>2, <1>5, <1>6, AboveBar
<1>8. DhcpVote(own)[1] = DhcpSigs[b].os_name
  BY <1>3, <1>7 DEF DhcpVote
<1> QED
  BY <1>3, <1>4, <1>8 DEF own

LEMMA RuleFacts ==
    ASSUME NEW rules \in Seq(((SUBSET STRING) \ {{}}) \X STRING), NEW markers
    PROVE  /\ FirstRule(rules, {}) = ""
           /\ FirstRule(rules, markers) = "" \/ \E i \in DOMAIN rules : FirstRule(rules, markers) = rules[i][2]
<1> DEFINE hits(m) == {i \in DOMAIN rules : rules[i][1] \subseteq m}
<1>1. \A m : FirstRule(rules, m) = IF hits(m) = {} THEN "" ELSE rules[Min(hits(m))][2]
  BY DEF FirstRule
<1> DEFINE Rule == ((SUBSET STRING) \ {{}}) \X STRING
<1>2. hits({}) = {}
  <2>1. \A x \in Rule : x[1] # {}
    OBVIOUS
  <2>2. rules \in Seq(Rule)
    OBVIOUS
  <2> HIDE DEF Rule
  <2>3. \A i \in DOMAIN rules : rules[i][1] # {}
    BY <2>1, <2>2
  <2> QED
    BY <2>3
<1>3. \A m : hits(m) \in SUBSET Nat
  <2>1. rules \in Seq(Rule)
    OBVIOUS
  <2> HIDE DEF Rule
  <2> QED
    BY <2>1
<1>4. \A m : hits(m) # {} => Min(hits(m)) \in DOMAIN rules
  <2> SUFFICES ASSUME NEW m, hits(m) # {} PROVE Min(hits(m)) \in DOMAIN rules
    OBVIOUS
  <2>1. Min(hits(m)) \in hits(m)
    <3> DEFINE h == hits(m)
    <3>1. h \in SUBSET Nat /\ h # {}
      BY <1>3
    <3> HIDE DEF h
    <3>2. Min(h) \in h
      BY <3>1, MinIn
    <3> QED
      BY <3>2 DEF h
  <2> QED
    BY <2>1
<1> HIDE DEF hits
<1> QED
  BY <1>1, <1>2, <1>4

\* One kind of signal in a packet: at most one ballot has a name.
LEMMA BallotFacts ==
    ASSUME NEW s \in Signals
    PROVE  /\ \A i \in 1..4 : \/ Ballots(s)[i][1] = ""
                              \/ Ballots(s)[i][1] \in OsNames /\ Ballots(s)[i][2] \in Nat \ {0}
           /\ \A i, j \in 1..4 : i # j => Ballots(s)[i][1] = "" \/ Ballots(s)[j][1] = ""
<1> DEFINE b1 == TtlVote(s.ttl)
           b2 == DhcpVote(s.dhcp)
           r3 == FirstRule(ServiceRules, s.mdns)
           r4 == FirstRule(ServerRules, s.ssdp)
           b  == Ballots(s)
<1>1. /\ b[1] = b1 /\ b[2] = b2
      /\ b[3][1] = r3 /\ b[3][2] = 80 /\ b[4][1] = r4 /\ b[4][2] = 70
  <2> HIDE DEF b1, b2, r3, r4
  <2>1. b = <<b1, b2, <<r3, 80>>, <<r4, 70>>>>
    BY DEF Ballots, b1, b2, r3, r4
  <2> HIDE DEF b
  <2> QED
    BY <2>1
<1>2. /\ s.ttl = -1
      /\ s.dhcp \in Seq(Nat)
      /\ s.dhcp # <<>> => s.mdns = {} /\ s.ssdp = {}
      /\ s.mdns # {} => s.ssdp = {}
  <2>1. \/ s = NoSignals
        \/ \E d \in DhcpLists : s = [NoSignals EXCEPT !.dhcp = d]
        \/ \E m \in Services : s = [NoSignals EXCEPT !.mdns = m]
        \/ \E m \in Servers : s = [NoSignals EXCEPT !.ssdp = m]
    BY DEF Signals
  <2>2. <<>> \in Seq(Nat) /\ DhcpLists \subseteq Seq(Nat)
    <3>1. DhcpLists \subseteq Seq(Nat)
      BY Zenon, EnrichmentAssumption
    <3> QED
      BY <3>1
  <2> DEFINE N == Seq(Nat)
  <2> HIDE DEF N
  <2>3. <<>> \in N /\ DhcpLists \subseteq N
    BY <2>2 DEF N
  <2>4. s.ttl = -1 /\ s.dhcp \in N
    BY <2>1, <2>3 DEF NoSignals
  <2>5. (s.dhcp # <<>> => s.mdns = {} /\ s.ssdp = {}) /\ (s.mdns # {} => s.ssdp = {})
    BY <2>1 DEF NoSignals
  <2> QED
    BY <2>4, <2>5 DEF N
<1>3. b1[1] = ""
  <2>1. TtlVote(-1) = <<"", 0>>
    BY DEF TtlVote
  <2>2. b1 = <<"", 0>>
    BY <1>2, <2>1
  <2> HIDE DEF b1
  <2> QED
    BY <2>2
<1>4. b2[1] = "" \/ (b2[1] \in OsNames /\ b2[2] \in Nat \ {0} /\ s.dhcp # <<>>)
  <2>1. s.dhcp = <<>> => b2[1] = ""
    <3>1. DhcpVote(<<>>) = <<"", 0>>
      BY DEF DhcpVote
    <3> SUFFICES ASSUME s.dhcp = <<>> PROVE b2[1] = ""
      OBVIOUS
    <3>2. b2 = <<"", 0>>
      BY <3>1
    <3> HIDE DEF b2
    <3> QED
      BY <3>2
  <2>2. CASE b2 = <<"", 0>>
    <3> HIDE DEF b2
    <3> QED
      BY <2>2
  <2>3. CASE \E i \in DOMAIN DhcpSigs, w \in Nat \ {0} : b2 = <<DhcpSigs[i].os_name, w>>
    <3>1. PICK i \in DOMAIN DhcpSigs, w \in Nat \ {0} : b2 = <<DhcpSigs[i].os_name, w>>
      BY <2>3
    <3> HIDE DEF b2
    <3>2. b2[1] = DhcpSigs[i].os_name /\ b2[2] = w
      BY <3>1
    <3>3. b2[1] \in OsNames
      BY <3>2 DEF OsNames
    <3> QED
      BY <2>1, <3>2, <3>3
  <2> QED
    BY <1>2, <2>2, <2>3, DhcpVoteFacts
<1>5. r3 = "" \/ (r3 \in OsNames /\ s.mdns # {})
  BY RuleFacts, EnrichmentAssumption DEF OsNames
<1>6. r4 = "" \/ (r4 \in OsNames /\ s.ssdp # {})
  BY RuleFacts, EnrichmentAssumption DEF OsNames
<1> HIDE DEF b, b1, b2, r3, r4
<1>7. \A i \in 1..4 : i = 1 \/ i = 2 \/ i = 3 \/ i = 4
  OBVIOUS
<1>8. \A i \in 1..4 : b[i][1] = "" \/ (b[i][1] \in OsNames /\ b[i][2] \in Nat \ {0})
  <2>1. 80 \in Nat \ {0} /\ 70 \in Nat \ {0}
    OBVIOUS
  <2>2. b[1][1] = ""
    BY <1>1, <1>3
  <2>3. b[2][1] = "" \/ (b[2][1] \in OsNames /\ b[2][2] \in Nat \ {0})
    BY Zenon, <1>1, <1>4
  <2>4. b[3][1] = "" \/ (b[3][1] \in OsNames /\ b[3][2] \in Nat \ {0})
    BY Zenon, <1>1, <1>5, <2>1
  <2>5. b[4][1] = "" \/ (b[4][1] \in OsNames /\ b[4][2] \in Nat \ {0})
    BY Zenon, <1>1, <1>6, <2>1
  <2> QED
    BY Zenon, <1>7, <2>2, <2>3, <2>4, <2>5
<1>9. \A i, j \in 1..4 : i # j => b[i][1] = "" \/ b[j][1] = ""
  <2>1. b[1][1] = "" /\ b[2][1] = b2[1] /\ b[3][1] = r3 /\ b[4][1] = r4
    BY Zenon, <1>1, <1>3
  <2>2. (b2[1] = "" \/ r3 = "") /\ (b2[1] = "" \/ r4 = "") /\ (r3 = "" \/ r4 = "")
    BY Zenon, <1>2, <1>4, <1>5, <1>6
  <2> QED
    BY Zenon, <1>7, <2>1, <2>2
<1> QED
  BY <1>8, <1>9 DEF b

LEMMA SingleVoter ==
    ASSUME NEW b, NEW i \in 1..4, b[i][2] \in Nat, NEW names,
           b[i][1] \in names, \A j \in 1..4 : j # i => b[j][1] \notin names
    PROVE  VotesFor(names, b) = b[i][2]
<1>1. i = 1 \/ i = 2 \/ i = 3 \/ i = 4
  OBVIOUS
<1> QED
  BY <1>1 DEF VotesFor

\* A guess from one packet is certain of itself.
LEMMA GuessFacts ==
    ASSUME NEW s \in Signals, NEW g \in Guess(s)
    PROVE  /\ g.os \in OsNames /\ g.confidence \in Nat \X (Nat \ {0})
           /\ g.os # "Unknown" => g.confidence[1] = g.confidence[2]
<1> DEFINE b == Ballots(s)
           names == {b[i][1] : i \in 1..4} \ {""}
           winners == {os \in names : \A o \in names : VotesFor({o}, b) <= VotesFor({os}, b)}
<1>1. g \in IF names = {} THEN {[os |-> "Unknown", confidence |-> <<0, 1>>]}
            ELSE {[os |-> os, confidence |-> <<VotesFor({os}, b), VotesFor(names, b)>>] : os \in winners}
  BY Zenon DEF Guess
<1>2. CASE names = {}
  <2>1. g = [os |-> "Unknown", confidence |-> <<0, 1>>]
    BY <1>1, <1>2
  <2>2. g.os = "Unknown" /\ g.confidence = <<0, 1>>
    BY <2>1
  <2>3. g.os \in OsNames
    BY <2>2 DEF OsNames
  <2> QED
    BY <2>2, <2>3
<1>3. CASE names # {}
  <2>1. PICK os \in names : g = [os |-> os, confidence |-> <<VotesFor({os}, b), VotesFor(names, b)>>]
    BY <1>1, <1>3
  <2>2. PICK i \in 1..4 : os = b[i][1] /\ os # ""
    BY <2>1
  <2>3. os \in OsNames /\ b[i][2] \in Nat \ {0}
    BY <2>2, BallotFacts
  <2>4. \A j \in 1..4 : j # i => b[j][1] = ""
    BY <2>2, BallotFacts
  <2>5. \A j \in 1..4 : j # i => b[j][1] \notin {os} /\ b[j][1] \notin names
    BY <2>2, <2>4
  <2> HIDE DEF b, names
  <2>6. VotesFor({os}, b) = b[i][2]
    BY <2>2, <2>3, <2>5, SingleVoter
  <2>7. VotesFor(names, b) = b[i][2]
    BY <2>1, <2>2, <2>3, <2>5, SingleVoter
  <2> QED
    BY <2>1, <2>3, <2>6, <2>7
<1> QED
  BY <1>2, <1>3
-----------------------------------------------------------------------------
\* What the cache and the row say of the system, they are certain of.
Certain(a) == a.os # "Unknown" => a.confidence[1] = a.confidence[2]

EnrichedInv == TypeOK /\ CacheInTable /\ Certain(asset) /\ Certain(row)

LEMMA EnrichmentStarts == Init => EnrichedInv
<1> SUFFICES ASSUME Init PROVE EnrichedInv
  OBVIOUS
<1>1. Nobody \in Known /\ Nobody.vendor = "" /\ Nobody.os = "Unknown"
  <2>1. "Unknown" \in OsNames
    BY DEF OsNames
  <2>2. <<0, 1>> \in Nat \X (Nat \ {0})
    OBVIOUS
  <2> QED
    BY <2>1, <2>2 DEF Nobody, Known
<1> QED
  BY <1>1 DEF Init, EnrichedInv, TypeOK, CacheInTable, Certain

LEMMA VendorTyped == VendorFound \in {"", Vendor, Randomized}
BY DEF VendorFound

LEMMA WithVendorTyped ==
    ASSUME NEW a \in Known
    PROVE  /\ WithVendor(a) \in Known /\ WithVendor(a).vendor = VendorFound
           /\ WithVendor(a).os = a.os /\ WithVendor(a).confidence = a.confidence
BY VendorTyped DEF WithVendor, Known

LEMMA WithOsTyped ==
    ASSUME NEW a \in Known, NEW g, g.os \in OsNames, g.confidence \in Nat \X (Nat \ {0})
    PROVE  /\ WithOs(a, g) \in Known /\ WithOs(a, g).vendor = a.vendor
           /\ WithOs(a, g).os = g.os /\ WithOs(a, g).confidence = g.confidence
BY DEF WithOs, Known

\* Both change in the same way, or the row alone: the cache stays in the table, when
\* what it says already is left alone.
LEMMA VendorFailsKeeps ==
    ASSUME EnrichedInv, VendorFails
    PROVE  EnrichedInv' /\ GuessStays
<1>1. PICK o \in Outcomes \ {"stored"} : Write(asset, WithVendor(asset), row, WithVendor(row), o)
  BY DEF VendorFails
<1>2. asset' = asset /\ (row' = row \/ row' = WithVendor(row)) /\ asset.vendor = ""
  BY <1>1 DEF Write, VendorFails, VendorDue
<1>3. UNCHANGED <<mac, loaded>>
  BY DEF VendorFails
<1>4. asset \in Known /\ row \in Known
  BY DEF EnrichedInv, TypeOK
<1>5. row' \in Known /\ row'.os = row.os /\ row'.confidence = row.confidence
  BY <1>2, <1>4, WithVendorTyped
<1>6. TypeOK'
  BY <1>2, <1>3, <1>5 DEF EnrichedInv, TypeOK
<1>7. CacheInTable'
  BY <1>2, <1>5 DEF EnrichedInv, CacheInTable
<1>8. Certain(asset)' /\ Certain(row)'
  BY <1>2, <1>5 DEF EnrichedInv, Certain
<1> QED
  BY <1>2, <1>6, <1>7, <1>8 DEF EnrichedInv, GuessStays

LEMMA RefreshKeeps ==
    ASSUME EnrichedInv, Refresh
    PROVE  EnrichedInv' /\ GuessStays
<1> DEFINE a == IF VendorDue THEN WithVendor(asset) ELSE asset
           r == IF VendorDue THEN WithVendor(row) ELSE row
<1>1. PICK heardNow \in Guesses, o \in Outcomes :
        IF heardNow[2].os # "Unknown" /\ Surer(heardNow[2].confidence, asset.confidence)
          THEN Write(a, WithOs(a, heardNow[2]), r, WithOs(r, heardNow[2]), o)
          ELSE asset' = a /\ row' = r
  BY DEF Refresh
<1> DEFINE g == heardNow[2]
<1>2. UNCHANGED <<mac, loaded>>
  BY DEF Refresh
<1>3. PICK s \in Signals : heardNow \in {s} \X Guess(s)
  BY DEF Guesses
<1>4. g \in Guess(s)
  BY <1>3
<1>5. /\ g.os \in OsNames /\ g.confidence \in Nat \X (Nat \ {0})
      /\ g.os # "Unknown" => g.confidence[1] = g.confidence[2]
  <2> HIDE DEF g
  <2> QED
    BY <1>4, GuessFacts
<1>6. asset \in Known /\ row \in Known
  BY DEF EnrichedInv, TypeOK
<1>7. a \in Known /\ a.os = asset.os /\ a.confidence = asset.confidence
  BY <1>6, WithVendorTyped
<1>8. r \in Known /\ r.os = row.os /\ r.confidence = row.confidence
  BY <1>6, WithVendorTyped
<1>9. a.vendor # "" => r.vendor = a.vendor
  BY <1>6, WithVendorTyped DEF EnrichedInv, CacheInTable
<1>10. Certain(asset) /\ Certain(row) /\ (asset.os # "Unknown" => row.os = asset.os /\ row.confidence = asset.confidence)
  BY DEF EnrichedInv, CacheInTable
<1> HIDE DEF a, r, g
<1>11. CASE ~(g.os # "Unknown" /\ Surer(g.confidence, asset.confidence))
  <2>1. asset' = a /\ row' = r
    BY <1>1, <1>11 DEF g
  <2>2. TypeOK'
    BY <1>2, <1>7, <1>8, <2>1 DEF EnrichedInv, TypeOK
  <2>3. CacheInTable' /\ Certain(asset)' /\ Certain(row)' /\ GuessStays
    BY <1>7, <1>8, <1>9, <1>10, <2>1 DEF CacheInTable, Certain, GuessStays
  <2> QED
    BY <2>2, <2>3 DEF EnrichedInv
<1>12. CASE g.os # "Unknown" /\ Surer(g.confidence, asset.confidence)
  <2>1. Write(a, WithOs(a, g), r, WithOs(r, g), o)
    BY <1>1, <1>12 DEF g
  <2>2. asset.os = "Unknown"
    <3> SUFFICES ASSUME asset.os # "Unknown" PROVE FALSE
      OBVIOUS
    <3> DEFINE c == g.confidence
               d == asset.confidence
    <3>1. c \in Nat \X Nat /\ d \in Nat \X Nat /\ c[1] = c[2] /\ d[1] = d[2]
      BY <1>5, <1>6, <1>10, <1>12 DEF Known, Certain
    <3>2. Surer(c, d)
      BY <1>12
    <3> HIDE DEF c, d
    <3>3. c[1] \in Nat /\ d[1] \in Nat
      BY <3>1
    <3>4. c[1] * d[1] > d[1] * c[1]
      BY <3>1, <3>2 DEF Surer
    <3> QED
      BY <3>3, <3>4
  <2>3. WithOs(a, g) \in Known /\ WithOs(a, g).vendor = a.vendor /\ WithOs(a, g).os = g.os
        /\ WithOs(a, g).confidence = g.confidence
    BY <1>5, <1>7, WithOsTyped
  <2>4. WithOs(r, g) \in Known /\ WithOs(r, g).vendor = r.vendor /\ WithOs(r, g).os = g.os
        /\ WithOs(r, g).confidence = g.confidence
    BY <1>5, <1>8, WithOsTyped
  <2>5. \/ asset' = WithOs(a, g) /\ row' = WithOs(r, g)
        \/ asset' = a /\ row' = WithOs(r, g)
        \/ asset' = a /\ row' = r
    BY <2>1 DEF Write
  <2>6. TypeOK'
    BY <1>2, <1>7, <1>8, <2>3, <2>4, <2>5 DEF EnrichedInv, TypeOK
  <2>7. CacheInTable'
    BY <1>7, <1>8, <1>9, <2>2, <2>3, <2>4, <2>5 DEF CacheInTable
  <2>8. Certain(asset)' /\ Certain(row)'
    BY <1>5, <1>7, <1>8, <1>10, <2>3, <2>4, <2>5 DEF Certain
  <2> QED
    BY <2>2, <2>6, <2>7, <2>8 DEF EnrichedInv, GuessStays
<1> QED
  BY <1>11, <1>12

LEMMA RestartKeeps ==
    ASSUME EnrichedInv, Restart
    PROVE  EnrichedInv' /\ GuessStays
BY DEF Restart, EnrichedInv, TypeOK, CacheInTable, Certain, GuessStays

LEMMA EnrichmentKeeps ==
    ASSUME EnrichedInv, [Next]_vars
    PROVE  EnrichedInv' /\ (Next => GuessStays)
<1>1. CASE Next
  BY <1>1, VendorFailsKeeps, RefreshKeeps, RestartKeeps DEF Next
<1>2. CASE UNCHANGED vars
  <2>1. EnrichedInv'
    BY <1>2 DEF vars, EnrichedInv, TypeOK, CacheInTable, Certain
  <2>2. GuessStays
    BY <1>2 DEF vars, GuessStays
  <2> QED
    BY <2>1, <2>2
<1> QED
  BY <1>1, <1>2

LEMMA EnrichmentInvariant ==
    KnownSpec => [](part \in {"sound", "failing", "enriched"} /\ (part = "enriched" => EnrichedInv))
<1> DEFINE I == part \in {"sound", "failing", "enriched"} /\ (part = "enriched" => EnrichedInv)
<1>1. KnownInit => I
  BY EnrichmentStarts DEF KnownInit
<1>2. I /\ [KnownNext]_<<part, vars, present>> => I'
  <2> SUFFICES ASSUME I, [KnownNext]_<<part, vars, present>> PROVE I'
    OBVIOUS
  <2>1. part' = part /\ (part = "enriched" => [Next]_vars)
    BY DEF KnownNext, Attend, Enrich
  <2> QED
    BY <2>1, EnrichmentKeeps
<1> QED
  BY <1>1, <1>2, PTL DEF KnownSpec

\* Whatever writes fail and whenever the program starts again: what the cache says of
\* vendor and system is in the table (AssetTracker::refresh_enrichment).
THEOREM CacheInTableCorrect == KnownSpec => [](part = "enriched" => TypeOK /\ CacheInTable)
<1>1. (part = "enriched" => EnrichedInv) => (part = "enriched" => TypeOK /\ CacheInTable)
  BY DEF EnrichedInv
<1> QED
  BY <1>1, EnrichmentInvariant, PTL

\* The signals of a device are those it may send.
HeardOK == heard \in [ttl : {-1}, dhcp : DhcpLists \union {<<>>},
                      mdns : Services \union {{}}, ssdp : Servers \union {{}}]

LEMMA HeardInvariant == KnownSpec => [](part = "enriched" => HeardOK)
<1>1. KnownInit => (part = "enriched" => HeardOK)
  BY DEF KnownInit, Init, HeardOK, NoSignals
<1>2. HeardOK /\ [Next]_vars => HeardOK'
  <2> SUFFICES ASSUME HeardOK, [Next]_vars PROVE HeardOK'
    OBVIOUS
  <2>1. ASSUME NEW s \in Signals, Hear(s) PROVE HeardOK'
    <3>1. s.dhcp \in DhcpLists \union {<<>>} /\ s.mdns \in Services \union {{}} /\ s.ssdp \in Servers \union {{}}
      BY DEF Signals, NoSignals
    <3> QED
      BY <2>1, <3>1 DEF Hear, HeardOK
  <2>2. CASE VendorFails
    BY <2>1, <2>2 DEF VendorFails
  <2>3. CASE Refresh
    <3>1. PICK heardNow \in Guesses : Hear(heardNow[1])
      BY <2>3 DEF Refresh
    <3>2. heardNow[1] \in Signals
      BY DEF Guesses
    <3> QED
      BY <2>1, <3>1, <3>2
  <2>4. CASE Restart \/ UNCHANGED vars
    BY <2>4 DEF Restart, vars, HeardOK
  <2> QED
    BY <2>2, <2>3, <2>4 DEF Next
<1>3. (part = "enriched" => HeardOK) /\ [KnownNext]_<<part, vars, present>> => (part = "enriched" => HeardOK)'
  BY <1>2 DEF KnownNext, Attend, Enrich
<1> QED
  BY <1>1, <1>3, PTL DEF KnownSpec

\* With a table whose signatures lie apart, as TLC finds of the one in os_fingerprint.cpp:
\* a device that shows the signature of one system is taken for it by the vote, and the
\* cache stays in the table.
THEOREM EnrichmentKeptCorrect == ASSUME SignaturesApart PROVE KnownSpec => []EnrichmentKept
<1>1. (part = "enriched" => EnrichedInv) /\ (part = "enriched" => HeardOK) => EnrichmentKept
  <2> SUFFICES ASSUME EnrichedInv, HeardOK PROVE TypeOK /\ CacheInTable /\ OwnSignatureWins
    BY DEF EnrichmentKept
  <2>1. ASSUME NEW i \in DOMAIN DhcpSigs, heard.dhcp = DhcpSigs[i].options, Unshared(i)
        PROVE  DhcpVotes[heard.dhcp][1] = DhcpSigs[i].os_name
    <3>1. heard.dhcp # <<>> /\ DhcpVote(heard.dhcp)[1] = DhcpSigs[i].os_name
      BY <2>1, OwnVote
    <3>2. heard.dhcp \in DhcpLists
      BY <3>1 DEF HeardOK
    <3> QED
      BY <3>1, <3>2 DEF DhcpVotes
  <2> QED
    BY <2>1 DEF EnrichedInv, OwnSignatureWins
<1> QED
  BY <1>1, EnrichmentInvariant, HeardInvariant, PTL

\* With any tables of fingerprints, what a device is taken for at its first signal
\* stays (OsFingerprint::guess, AssetTracker::refresh_enrichment).
THEOREM FirstGuessStaysCorrect == KnownSpec => FirstGuessStays
<1>1. (part = "enriched" => EnrichedInv) /\ [KnownNext]_<<part, vars, present>> =>
        [part = "enriched" => GuessStays]_vars
  <2> SUFFICES ASSUME part = "enriched", EnrichedInv, KnownNext PROVE GuessStays
    <3>1. UNCHANGED <<part, vars, present>> => UNCHANGED vars
      OBVIOUS
    <3> QED
      BY <3>1
  <2>1. Next
    BY DEF KnownNext, Attend, Enrich
  <2> QED
    BY <2>1, EnrichmentKeeps
<1> QED
  BY <1>1, EnrichmentInvariant, PTL DEF KnownSpec, FirstGuessStays
=============================================================================
