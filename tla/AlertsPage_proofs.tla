-------------------------- MODULE AlertsPage_proofs --------------------------
(***************************************************************************)
(* What the alerts page says is true, for any page size, number of alerts, *)
(* clicks and polls under way and requests that fail.                      *)
(*                                                                         *)
(* The inductive invariant says of each request what it may be (CallsOK),  *)
(* and how the answers under way relate to the table (AckOK), to what the  *)
(* poller knows (PollOK) and to what the page asked for (ListOK, EmptyOK); *)
(* and, whatever overlaps, of the rows of a first page (FirstOK).          *)
(***************************************************************************)
EXTENDS AlertsPage, FiniteSetTheorems, TLAPS

\* The number of requests of a kind.
Of(c, k) == Cardinality({s \in Slot : c[s].kind = k})

\* An acknowledgement counts for the two requests that follow it: so there are slots
\* for them when it is answered.
Weight(c) == Of(c, "list") + Of(c, "count") + 2 * Of(c, "ack")

Fits(c) == Weight(c) <= 2 * MaxCalls /\ Of(c, "poll") <= MaxPolls

Asked == [page : 1..(MaxAlerts + 2), filter : Filter]

\* What a request is, for a table with n alerts.
Sound(r, n) ==
    /\ r.kind \in {"free", "list", "ack", "count", "poll"}
    /\ r.kind # "free" => /\ {"kind", "at"} \subseteq DOMAIN r
                          /\ r.at \in {"sent", "ok", "error", "down"}
    /\ r.kind = "list" => {"for", "mine"} \subseteq DOMAIN r /\ r.for \in Asked
    /\ r.kind = "list" /\ r.at = "ok" =>
          /\ {"data", "total"} \subseteq DOMAIN r
          /\ DOMAIN r.data \subseteq 1..n /\ Cardinality(DOMAIN r.data) <= Size
          /\ r.total \in 0..n
    /\ r.kind = "ack" => "id" \in DOMAIN r /\ r.id \in 1..n
    /\ r.kind \in {"count", "poll"} /\ r.at = "ok" => r.count \in 0..n /\ r.known \in 0..n

Calls(c, n) == DOMAIN c = Slot /\ Fits(c) /\ \A s \in Slot : Sound(c[s], n)

CallsOK == Calls(call, known)

\* An acknowledgement that was answered is in the table, or the server failed it.
AckOK ==
    /\ \A s \in Slot : call[s].kind = "ack" =>
          /\ call[s].at = "ok" => call[s].id \notin open
          /\ call[s].at = "error" => call[s].id \in refused
    /\ ResolvedMeansMarked

\* No more alerts are open of those a poll counted than it counted.
PollOK ==
    /\ polled \in [known : 0..known, lapped : BOOLEAN]
    /\ last = 0 \/ Cardinality(open \cap 1..polled.known) <= last
    /\ \A s \in Slot : call[s].kind = "poll" /\ call[s].at = "ok" =>
          Cardinality(open \cap 1..call[s].known) <= call[s].count
    /\ ~polled.lapped => \A s, t \in Slot : call[s].kind = "poll" /\ call[t].kind = "poll" => s = t
    /\ ~polled.lapped => \A s \in Slot : call[s].kind = "poll" /\ call[s].at = "ok" =>
          /\ polled.known <= call[s].known
          /\ call[s].known = polled.known => last = 0 \/ call[s].count <= last
    /\ AlarmMeansNew

Now == [page |-> page, filter |-> filter]

\* A user who waits for each list has at most one under way, for what the page shows.
ListOK ==
    /\ ~crossed => \A s, t \in Slot : call[s].kind = "list" /\ call[t].kind = "list" => s = t
    /\ here /\ ~crossed => \A s \in Slot : call[s].kind = "list" =>
          call[s].mine = TRUE /\ call[s].for = Now
    /\ ShowsWhatWasAsked

Listed(f) == IF f = "all" THEN 1..known ELSE open

\* A list of so many has this page.
HasPage(total, p) == p = 1 \/ (p - 1) * Size < total

\* "No alerts found" stands for a list of none.
NoneFound(r) == r.what = "rows" /\ DOMAIN r.data = {} => r.total = 0

\* While the list only grows, the page asked for exists, and the bar leads to such.
EmptyOK ==
    here /\ ~crossed /\ ~disturbed =>
       /\ HasPage(Cardinality(Listed(filter)), page)
       /\ \A s \in Slot : call[s].kind = "list" /\ call[s].at = "ok" =>
             /\ HasPage(call[s].total, page) /\ call[s].total <= Cardinality(Listed(filter))
             /\ DOMAIN call[s].data = {} => call[s].total = 0
       /\ (\A s \in Slot : call[s].kind # "list") =>
             \A p \in Buttons : HasPage(Cardinality(Listed(filter)), p)
       /\ NoneFound(rows)

IndInv == TypeOK /\ CallsOK /\ AckOK /\ PollOK /\ ListOK /\ EmptyOK

\* A first page without rows is that of a list of none.
FirstPage(r) == r.for.page = 1 /\ DOMAIN r.data = {} => r.total = 0

\* Which holds of every answer and of the rows, however requests overlap.
FirstOK ==
    /\ \A s \in Slot : call[s].kind = "list" /\ call[s].at = "ok" => FirstPage(call[s])
    /\ rows.what = "rows" => FirstPage(rows)

-----------------------------------------------------------------------------
(* How many requests of a kind there are, and that there is a slot for the *)
(* next one.                                                               *)

LEMMA Constant ==
    /\ Size \in Nat \ {0} /\ MaxAlerts \in Nat /\ MaxCalls \in Nat
    /\ MaxPolls \in Nat /\ MaxFaults \in Nat
<1>1. Size \in Nat \ {0} /\ {MaxAlerts, MaxCalls, MaxPolls, MaxFaults} \subseteq Nat
  BY Zenon, AlertsPageAssumption DEF AlertsPageAssumption
<1> QED
  BY Zenon, <1>1

LEMMA Slots == IsFiniteSet(Slot) /\ Slot \subseteq Nat /\ Cardinality(Slot) = 2 * MaxCalls + MaxPolls
<1> DEFINE n == 2 * MaxCalls + MaxPolls
<1>1. n \in Nat
  BY Constant
<1> HIDE DEF n
<1>2. IsFiniteSet(1..n) /\ Cardinality(1..n) = n
  BY <1>1, FS_Interval
<1>3. Slot = 1..n
  BY DEF Slot, n
<1> QED
  BY <1>1, <1>2, <1>3 DEF n

LEMMA PartOfSlots ==
    ASSUME NEW S, S \subseteq Slot
    PROVE  IsFiniteSet(S) /\ Cardinality(S) \in Nat
BY Slots, FS_Subset, FS_CardinalityType

\* A request takes a place among the others.
Puts(c, d, s, r) == d = [c EXCEPT ![s] = r]

LEMMA PutCount ==
    ASSUME NEW c, DOMAIN c = Slot, NEW s \in Slot, NEW r, NEW k,
           NEW d, Puts(c, d, s, r)
    PROVE  /\ Of(c, k) \in Nat /\ Of(d, k) \in Nat
           /\ c[s].kind # k /\ r.kind # k => Of(d, k) = Of(c, k)
           /\ c[s].kind # k /\ r.kind = k => Of(d, k) = Of(c, k) + 1
           /\ c[s].kind = k /\ r.kind # k => Of(c, k) >= 1 /\ Of(d, k) = Of(c, k) - 1
           /\ c[s].kind = k /\ r.kind = k => Of(d, k) = Of(c, k)
<1> DEFINE A == {t \in Slot : c[t].kind = k}
           B == {t \in Slot : d[t].kind = k}
<1>1. \A t \in Slot : d[t] = (IF t = s THEN r ELSE c[t])
  BY DEF Puts
<1>2. IsFiniteSet(A) /\ Cardinality(A) \in Nat /\ IsFiniteSet(B) /\ Cardinality(B) \in Nat
  BY PartOfSlots
<1>3. Of(c, k) = Cardinality(A) /\ Of(d, k) = Cardinality(B)
  BY DEF Of
<1>4. c[s].kind # k /\ r.kind # k => B = A
  BY <1>1
<1>5. c[s].kind # k /\ r.kind = k => B = A \cup {s} /\ s \notin A
  BY <1>1
<1>6. c[s].kind = k /\ r.kind # k => B = A \ {s} /\ s \in A
  BY <1>1
<1>7. c[s].kind = k /\ r.kind = k => B = A
  BY <1>1
<1>8. /\ Cardinality(A \cup {s}) = (IF s \in A THEN Cardinality(A) ELSE Cardinality(A) + 1)
      /\ Cardinality(A \ {s}) = (IF s \in A THEN Cardinality(A) - 1 ELSE Cardinality(A))
      /\ IsFiniteSet(A \ {s}) /\ Cardinality(A \ {s}) \in Nat
  BY <1>2, FS_AddElement, FS_RemoveElement, PartOfSlots
<1> HIDE DEF A, B
<1>9. c[s].kind = k /\ r.kind # k => Cardinality(A) >= 1
  BY <1>2, <1>6, <1>8
<1> QED
  BY <1>2, <1>3, <1>4, <1>5, <1>6, <1>7, <1>8, <1>9

LEMMA TwoParts ==
    ASSUME NEW S, NEW T, S \subseteq Slot, T \subseteq Slot, S \cap T = {}
    PROVE  Cardinality(S \cup T) = Cardinality(S) + Cardinality(T)
<1>1. IsFiniteSet(S) /\ IsFiniteSet(T) /\ Cardinality(S) \in Nat /\ Cardinality(T) \in Nat
  BY PartOfSlots
<1>2. Cardinality(S \cap T) = 0
  BY FS_EmptySet
<1>3. Cardinality(S \cup T) = Cardinality(S) + Cardinality(T) - Cardinality(S \cap T)
  BY <1>1, FS_Union
<1> DEFINE a == Cardinality(S)
           b == Cardinality(T)
           c == Cardinality(S \cap T)
           u == Cardinality(S \cup T)
<1>4. a \in Nat /\ b \in Nat /\ c = 0 /\ u = a + b - c
  BY <1>1, <1>2, <1>3
<1> HIDE DEF a, b, c, u
<1>5. u = a + b
  BY <1>4
<1> QED
  BY <1>5 DEF a, b, u

LEMMA Kinds ==
    ASSUME NEW c
    PROVE  /\ Of(c, "list") \in Nat /\ Of(c, "ack") \in Nat
           /\ Of(c, "count") \in Nat /\ Of(c, "poll") \in Nat
           /\ Cardinality({s \in Slot : c[s].kind \in {"list", "ack", "count"}})
                = Of(c, "list") + Of(c, "ack") + Of(c, "count")
           /\ Cardinality({s \in Slot : c[s].kind \in {"list", "ack", "count", "poll"}})
                = Of(c, "list") + Of(c, "ack") + Of(c, "count") + Of(c, "poll")
<1> DEFINE K(k) == {s \in Slot : c[s].kind = k}
           L == K("list")
           A == K("ack")
           C == K("count")
           P == K("poll")
<1>1. L \subseteq Slot /\ A \subseteq Slot /\ C \subseteq Slot /\ P \subseteq Slot
  OBVIOUS
<1>2. L \cap A = {} /\ (L \cup A) \cap C = {} /\ ((L \cup A) \cup C) \cap P = {}
  OBVIOUS
<1>3. /\ {s \in Slot : c[s].kind \in {"list", "ack", "count"}} = (L \cup A) \cup C
      /\ {s \in Slot : c[s].kind \in {"list", "ack", "count", "poll"}} = ((L \cup A) \cup C) \cup P
  OBVIOUS
<1>4. /\ Of(c, "list") = Cardinality(L) /\ Of(c, "ack") = Cardinality(A)
      /\ Of(c, "count") = Cardinality(C) /\ Of(c, "poll") = Cardinality(P)
  BY DEF Of
<1> HIDE DEF L, A, C, P
<1>5. Cardinality(L \cup A) = Cardinality(L) + Cardinality(A)
  BY <1>1, <1>2, TwoParts
<1>6. Cardinality((L \cup A) \cup C) = Cardinality(L \cup A) + Cardinality(C)
  BY <1>1, <1>2, TwoParts
<1>7. Cardinality(((L \cup A) \cup C) \cup P) = Cardinality((L \cup A) \cup C) + Cardinality(P)
  BY <1>1, <1>2, TwoParts
<1>8. /\ Cardinality(L) \in Nat /\ Cardinality(A) \in Nat
      /\ Cardinality(C) \in Nat /\ Cardinality(P) \in Nat
  BY <1>1, PartOfSlots
<1> QED
  BY <1>3, <1>4, <1>5, <1>6, <1>7, <1>8

LEMMA LeastNat ==
    ASSUME NEW S \in SUBSET Nat, S # {}
    PROVE  \E n \in S : \A k \in S : n <= k
<1>1. PICK m \in S : TRUE
  OBVIOUS
<1> DEFINE D == 1..m
           T == {1..n : n \in {j \in S : j <= m}}
           R == StrictSubsetOrdering(D)
<1>2. IsWellFoundedOn(R, FiniteSubsetsOf(D))
  BY FS_StrictSubsetOrderingWellFounded
<1>3. T # {}
  BY <1>1
<1>4. T \subseteq FiniteSubsetsOf(D)
  <2> SUFFICES ASSUME NEW n \in S, n <= m PROVE 1..n \in FiniteSubsetsOf(D)
    OBVIOUS
  <2>1. IsFiniteSet(1..n)
    BY FS_Interval
  <2>2. 1..n \subseteq 1..m
    OBVIOUS
  <2> QED BY <2>1, <2>2 DEF FiniteSubsetsOf
<1>5. PICK x \in T : \A y \in T : ~ (<<y, x>> \in R)
  <2> HIDE DEF T, R, D
  <2> QED BY <1>2, <1>3, <1>4, WFMin
<1>6. PICK n \in S : n <= m /\ x = 1..n
  OBVIOUS
<1>7. ASSUME NEW k \in S, k < n PROVE FALSE
  <2>1. 1..k \in T
    BY <1>6, <1>7
  <2>2. 1..k \subseteq 1..n /\ n \in 1..n /\ n \notin 1..k
    BY <1>6, <1>7
  <2>3. 1..k \in SUBSET D /\ 1..n \in SUBSET D
    BY <1>6, <1>7
  <2>4. <<1..k, 1..n>> \in R
    BY <2>2, <2>3 DEF StrictSubsetOrdering
  <2> QED BY <1>5, <1>6, <2>1, <2>4
<1> QED BY <1>6, <1>7

LEMMA LeastOf ==
    ASSUME NEW S, S \subseteq Slot, S # {}
    PROVE  (CHOOSE s \in S : \A t \in S : s <= t) \in S
<1>1. S \in SUBSET Nat
  BY Slots
<1>2. \E s \in S : \A t \in S : s <= t
  BY <1>1, LeastNat
<1> QED
  BY <1>2

\* What a request of a kind counts for.
Share(k) == IF k = "ack" THEN 2 ELSE IF k \in {"list", "count"} THEN 1 ELSE 0

LEMMA PutWeight ==
    ASSUME NEW c, DOMAIN c = Slot, NEW s \in Slot, NEW r, NEW d, Puts(c, d, s, r)
    PROVE  /\ Weight(c) \in Nat /\ Weight(d) \in Nat
           /\ Weight(d) + Share(c[s].kind) = Weight(c) + Share(r.kind)
           /\ Weight(c) >= Share(c[s].kind)
<1> DEFINE k == c[s].kind
           j == r.kind
<1> HIDE DEF k, j
<1>1. ASSUME NEW x
      PROVE  /\ Of(c, x) \in Nat /\ Of(d, x) \in Nat
             /\ k # x /\ j # x => Of(d, x) = Of(c, x)
             /\ k # x /\ j = x => Of(d, x) = Of(c, x) + 1
             /\ k = x /\ j # x => Of(c, x) >= 1 /\ Of(d, x) = Of(c, x) - 1
             /\ k = x /\ j = x => Of(d, x) = Of(c, x)
  BY PutCount DEF k, j
<1>2. ASSUME NEW x
      PROVE  k = x => Of(c, x) >= 1
  <2>1. PICK q : q.kind # x
    <3>1. Free.kind # x \/ CountCall.kind # x
      BY DEF Free, CountCall
    <3> QED
      BY <3>1
  <2>2. c[s].kind = x => Of(c, x) >= 1
    <3> DEFINE e == [c EXCEPT ![s] = q]
    <3>1. Puts(c, e, s, q)
      BY DEF Puts
    <3> HIDE DEF e
    <3> QED
      BY <2>1, <3>1, PutCount
  <2> QED
    BY <2>2 DEF k
<1> DEFINE lc == Of(c, "list")
           ld == Of(d, "list")
           ac == Of(c, "ack")
           ad == Of(d, "ack")
           cc == Of(c, "count")
           cd == Of(d, "count")
<1>3. /\ lc \in Nat /\ ld \in Nat
      /\ k # "list" /\ j # "list" => ld = lc
      /\ k # "list" /\ j = "list" => ld = lc + 1
      /\ k = "list" /\ j # "list" => ld = lc - 1
      /\ k = "list" /\ j = "list" => ld = lc
      /\ k = "list" => lc >= 1
  BY <1>1, <1>2
<1>4. /\ ac \in Nat /\ ad \in Nat
      /\ k # "ack" /\ j # "ack" => ad = ac
      /\ k # "ack" /\ j = "ack" => ad = ac + 1
      /\ k = "ack" /\ j # "ack" => ad = ac - 1
      /\ k = "ack" /\ j = "ack" => ad = ac
      /\ k = "ack" => ac >= 1
  BY <1>1, <1>2
<1>5. /\ cc \in Nat /\ cd \in Nat
      /\ k # "count" /\ j # "count" => cd = cc
      /\ k # "count" /\ j = "count" => cd = cc + 1
      /\ k = "count" /\ j # "count" => cd = cc - 1
      /\ k = "count" /\ j = "count" => cd = cc
      /\ k = "count" => cc >= 1
  BY <1>1, <1>2
<1>6. Weight(c) = lc + cc + 2 * ac /\ Weight(d) = ld + cd + 2 * ad
  BY DEF Weight
<1> HIDE DEF lc, ld, ac, ad, cc, cd
<1>7. /\ Weight(c) \in Nat /\ Weight(d) \in Nat
      /\ Weight(d) + Share(k) = Weight(c) + Share(j)
      /\ Weight(c) >= Share(k)
  BY <1>3, <1>4, <1>5, <1>6 DEF Share
<1> QED
  BY <1>7 DEF k, j

LEMMA Put ==
    ASSUME NEW c, NEW n, Calls(c, n), NEW s \in Slot, NEW r, Sound(r, n),
           Weight(c) + Share(r.kind) <= 2 * MaxCalls + Share(c[s].kind),
           \/ r.kind # "poll"
           \/ c[s].kind = "poll"
           \/ Of(c, "poll") < MaxPolls,
           NEW d, Puts(c, d, s, r)
    PROVE  Calls(d, n)
<1> DEFINE m == 2 * MaxCalls
           p == Of(c, "poll")
           q == Of(d, "poll")
           w == Weight(c)
           v == Weight(d)
           x == Share(c[s].kind)
           y == Share(r.kind)
<1>1. DOMAIN c = Slot /\ w <= m /\ p <= MaxPolls /\ \A t \in Slot : Sound(c[t], n)
  BY DEF Calls, Fits
<1>2. w \in Nat /\ v \in Nat /\ v + x = w + y
  BY <1>1, PutWeight
<1>3. m \in Nat /\ MaxPolls \in Nat
  BY Constant
<1>4. x \in Nat /\ y \in Nat
  BY DEF Share
<1>5. /\ p \in Nat /\ q \in Nat
      /\ c[s].kind # "poll" /\ r.kind # "poll" => q = p
      /\ c[s].kind # "poll" /\ r.kind = "poll" => q = p + 1
      /\ c[s].kind = "poll" /\ r.kind # "poll" => q = p - 1
      /\ c[s].kind = "poll" /\ r.kind = "poll" => q = p
  BY <1>1, PutCount
<1>6. w + y <= m + x
  OBVIOUS
<1>7. r.kind # "poll" \/ c[s].kind = "poll" \/ p < MaxPolls
  OBVIOUS
<1>8. DOMAIN d = Slot /\ \A t \in Slot : Sound(d[t], n)
  BY <1>1 DEF Puts
<1> HIDE DEF m, p, q, w, v, x, y
<1>9. v <= m
  BY <1>2, <1>3, <1>4, <1>6
<1>10. q <= MaxPolls
  BY <1>1, <1>3, <1>5, <1>7
<1> QED
  BY <1>8, <1>9, <1>10 DEF Calls, Fits, m, v, q

LEMMA SlotsLeft ==
    ASSUME CallsOK
    PROVE  LET n == Weight(call) - Of(call, "ack") + Of(call, "poll")
           IN  /\ n < 2 * MaxCalls + MaxPolls =>
                    Slot1 \in Slot /\ call[Slot1].kind = "free"
               /\ n + 1 < 2 * MaxCalls + MaxPolls =>
                    /\ Slot2(Slot1) \in Slot \ {Slot1} /\ call[Slot2(Slot1)].kind = "free"
<1> DEFINE B == {s \in Slot : call[s].kind \in {"list", "ack", "count", "poll"}}
           F == Busy({"free"})
           n == Weight(call) - Of(call, "ack") + Of(call, "poll")
           t == 2 * MaxCalls + MaxPolls
<1>1. \A s \in Slot : call[s].kind \in {"free", "list", "ack", "count", "poll"}
  BY DEF CallsOK, Calls, Sound
<1>2. B \subseteq Slot /\ F \subseteq Slot /\ B \cup F = Slot
  BY <1>1 DEF Busy
<1>3. Cardinality(B) = n
  <2>1. /\ Of(call, "list") \in Nat /\ Of(call, "ack") \in Nat
        /\ Of(call, "count") \in Nat /\ Of(call, "poll") \in Nat
        /\ Cardinality(B) = Of(call, "list") + Of(call, "ack") + Of(call, "count") + Of(call, "poll")
    BY Kinds
  <2> HIDE DEF B
  <2> QED
    BY <2>1 DEF Weight
<1>4. t \in Nat /\ Cardinality(Slot) = t
  BY Constant, Slots
<1>5. IsFiniteSet(B) /\ Cardinality(B) \in Nat
  BY <1>2, PartOfSlots
<1>6. \A s \in F : s \in Slot /\ call[s].kind = "free"
  BY DEF Busy
<1> HIDE DEF B, F, n, t
<1>7. ASSUME n < t PROVE Slot1 \in F
  <2>1. F # {}
    <3> SUFFICES ASSUME F = {} PROVE FALSE
      OBVIOUS
    <3>1. B = Slot
      BY <1>2
    <3>2. n = t
      BY <3>1, <1>3, <1>4
    <3> QED
      BY <3>2, <1>4, <1>7
  <2> QED
    BY <1>2, <2>1, LeastOf DEF Slot1, F
<1>8. ASSUME n + 1 < t PROVE Slot2(Slot1) \in F \ {Slot1}
  <2>1. F \ {Slot1} # {}
    <3> SUFFICES ASSUME F \ {Slot1} = {} PROVE FALSE
      OBVIOUS
    <3>0. Slot1 \in F
      BY <1>3, <1>4, <1>5, <1>7, <1>8
    <3>1. B \cup {Slot1} = Slot
      BY <1>2, <3>0
    <3>2. Cardinality(B \cup {Slot1}) <= n + 1
      <4>1. Cardinality(B \cup {Slot1}) \in {Cardinality(B), Cardinality(B) + 1}
        BY <1>5, FS_AddElement
      <4> QED
        BY <1>3, <1>5, <4>1
    <3>3. t <= n + 1
      BY <3>1, <3>2, <1>4
    <3> QED
      BY <3>3, <1>3, <1>4, <1>5, <1>8
  <2>2. (F \ {Slot1}) \subseteq Slot
    BY <1>2
  <2>3. (CHOOSE u \in F \ {Slot1} : \A v \in F \ {Slot1} : u <= v) \in F \ {Slot1}
    BY <2>1, <2>2, LeastOf
  <2> QED
    BY <2>3 DEF Slot2, F
<1>9. /\ n < t => Slot1 \in Slot /\ call[Slot1].kind = "free"
      /\ n + 1 < t => Slot2(Slot1) \in Slot \ {Slot1} /\ call[Slot2(Slot1)].kind = "free"
  BY <1>6, <1>7, <1>8
<1> QED
  BY <1>9 DEF n, t

\* A click, a poll and an acknowledgement that was answered find their slots.
LEMMA ClickRoom ==
    ASSUME CallsOK, MayClick
    PROVE  /\ Slot1 \in Slot /\ call[Slot1].kind = "free"
           /\ Slot2(Slot1) \in Slot \ {Slot1} /\ call[Slot2(Slot1)].kind = "free"
           /\ Weight(call) \in Nat /\ Weight(call) + 2 <= 2 * MaxCalls
<1> DEFINE l == Of(call, "list")
           a == Of(call, "ack")
           c == Of(call, "count")
           p == Of(call, "poll")
<1>1. /\ l \in Nat /\ a \in Nat /\ c \in Nat /\ p \in Nat
      /\ Cardinality({s \in Slot : call[s].kind \in {"list", "ack", "count"}}) = l + a + c
  BY Kinds
<1>2. {s \in Slot : call[s].kind \in {"list", "ack", "count"}} = Busy({"list", "ack", "count"})
  BY DEF Busy
<1>3. l + a + c < MaxCalls
  BY <1>1, <1>2 DEF MayClick
<1>4. p <= MaxPolls
  BY DEF CallsOK, Calls, Fits
<1>5. Weight(call) = l + c + 2 * a
  BY DEF Weight
<1>6. MaxCalls \in Nat /\ MaxPolls \in Nat
  BY Constant
<1> HIDE DEF l, a, c, p
<1>7. Weight(call) \in Nat /\ Weight(call) + 2 <= 2 * MaxCalls
  BY <1>1, <1>3, <1>5, <1>6
<1>8. (Weight(call) - a) + p + 1 < 2 * MaxCalls + MaxPolls
  BY <1>1, <1>3, <1>4, <1>5, <1>6
<1>9. (Weight(call) - a) + p < 2 * MaxCalls + MaxPolls
  BY <1>1, <1>3, <1>4, <1>5, <1>6
<1>10. /\ Slot1 \in Slot /\ call[Slot1].kind = "free"
       /\ Slot2(Slot1) \in Slot \ {Slot1} /\ call[Slot2(Slot1)].kind = "free"
  BY <1>8, <1>9, SlotsLeft DEF a, p
<1> QED
  BY <1>7, <1>10

LEMMA PollRoom ==
    ASSUME CallsOK, Cardinality(Busy({"poll"})) < MaxPolls
    PROVE  Slot1 \in Slot /\ call[Slot1].kind = "free" /\ Of(call, "poll") < MaxPolls
<1> DEFINE l == Of(call, "list")
           a == Of(call, "ack")
           c == Of(call, "count")
           p == Of(call, "poll")
<1>1. l \in Nat /\ a \in Nat /\ c \in Nat /\ p \in Nat
  BY Kinds
<1>2. Busy({"poll"}) = {s \in Slot : call[s].kind = "poll"}
  BY DEF Busy
<1>3. p < MaxPolls
  BY <1>2 DEF Of
<1>4. Weight(call) <= 2 * MaxCalls /\ Weight(call) = l + c + 2 * a
  BY DEF CallsOK, Calls, Fits, Weight
<1>5. MaxCalls \in Nat /\ MaxPolls \in Nat
  BY Constant
<1> HIDE DEF l, a, c, p
<1>6. (Weight(call) - a) + p < 2 * MaxCalls + MaxPolls
  BY <1>1, <1>3, <1>4, <1>5
<1>7. Slot1 \in Slot /\ call[Slot1].kind = "free"
  BY <1>6, SlotsLeft DEF a, p
<1> QED
  BY <1>3, <1>7 DEF p

LEMMA AckRoom ==
    ASSUME CallsOK, NEW s \in Slot, call[s].kind = "ack"
    PROVE  Slot1 \in Slot /\ call[Slot1].kind = "free"
<1> DEFINE l == Of(call, "list")
           a == Of(call, "ack")
           c == Of(call, "count")
           p == Of(call, "poll")
<1>1. l \in Nat /\ a \in Nat /\ c \in Nat /\ p \in Nat
  BY Kinds
<1>2. a >= 1
  <2>1. DOMAIN call = Slot
    BY DEF CallsOK, Calls
  <2> DEFINE d == [call EXCEPT ![s] = Free]
  <2>2. Puts(call, d, s, Free) /\ Free.kind = "free"
    BY DEF Free, Puts
  <2> HIDE DEF d
  <2> QED
    BY <2>1, <2>2, PutCount
<1>4. /\ Weight(call) <= 2 * MaxCalls /\ Weight(call) = l + c + 2 * a /\ p <= MaxPolls
  BY DEF CallsOK, Calls, Fits, Weight
<1>5. MaxCalls \in Nat /\ MaxPolls \in Nat
  BY Constant
<1> HIDE DEF l, a, c, p
<1>6. (Weight(call) - a) + p < 2 * MaxCalls + MaxPolls
  BY <1>1, <1>2, <1>4, <1>5
<1> QED
  BY <1>6, SlotsLeft DEF a, p

-----------------------------------------------------------------------------
(* What a request is.                                                      *)

LEMMA NewRequests ==
    ASSUME NEW n \in Nat
    PROVE  /\ Sound(Free, n) /\ Free.kind = "free"
           /\ Sound(CountCall, n) /\ CountCall.kind = "count" /\ CountCall.at = "sent"
           /\ Sound([kind |-> "poll", at |-> "sent"], n)
           /\ \A id \in 1..n : /\ Sound(Ack(id), n)
                               /\ Ack(id).kind = "ack" /\ Ack(id).at = "sent"
<1>1. Sound(Free, n) /\ Free.kind = "free"
  BY DEF Sound, Free
<1>2. Sound(CountCall, n) /\ CountCall.kind = "count" /\ CountCall.at = "sent"
  BY DEF Sound, CountCall
<1>3. Sound([kind |-> "poll", at |-> "sent"], n)
  BY DEF Sound
<1>4. ASSUME NEW id \in 1..n
      PROVE  Sound(Ack(id), n) /\ Ack(id).kind = "ack" /\ Ack(id).at = "sent"
  BY DEF Sound, Ack
<1> QED
  BY <1>1, <1>2, <1>3, <1>4

LEMMA NewListCall ==
    ASSUME NEW n \in Nat, NEW p \in 1..(MaxAlerts + 2), NEW f \in Filter
    PROVE  /\ Sound(ListCall(p, f), n)
           /\ ListCall(p, f).kind = "list" /\ ListCall(p, f).at = "sent"
           /\ ListCall(p, f).mine = TRUE /\ ListCall(p, f).for = [page |-> p, filter |-> f]
<1>1. [page |-> p, filter |-> f] \in Asked
  BY DEF Asked
<1> QED
  BY <1>1 DEF Sound, ListCall

\* An answer, or none, for a request.
LEMMA ChangeAt ==
    ASSUME NEW n \in Nat, NEW r, Sound(r, n), r.kind # "free", NEW how,
           how \in {"error", "down"} \/ (how = "ok" /\ r.kind = "ack")
    PROVE  LET q == [r EXCEPT !.at = how]
           IN  /\ Sound(q, n) /\ q.kind = r.kind /\ q.at = how
               /\ r.kind = "list" => q.mine = r.mine /\ q.for = r.for
               /\ r.kind = "ack" => q.id = r.id
<1> DEFINE q == [r EXCEPT !.at = how]
<1>1. {"kind", "at"} \subseteq DOMAIN r
  BY DEF Sound
<1>2. q.kind = r.kind /\ q.at = how /\ DOMAIN q = DOMAIN r
  BY <1>1
<1>3. r.kind = "list" => q.mine = r.mine /\ q.for = r.for
  BY <1>1 DEF Sound
<1>4. r.kind = "ack" => q.id = r.id
  BY <1>1 DEF Sound
<1> HIDE DEF q
<1>5. Sound(q, n)
  BY <1>2, <1>3, <1>4 DEF Sound
<1> QED
  BY <1>2, <1>3, <1>4, <1>5 DEF q

LEMMA SoundGrows ==
    ASSUME NEW n \in Nat, NEW m \in Nat, n <= m, NEW r, Sound(r, n)
    PROVE  Sound(r, m)
BY DEF Sound

LEMMA DisownedFacts ==
    ASSUME known \in Nat, CallsOK
    PROVE  /\ Calls(Disowned, known) /\ DOMAIN Disowned = Slot
           /\ Weight(Disowned) = Weight(call) /\ Of(Disowned, "poll") = Of(call, "poll")
           /\ \A s \in Slot : /\ Disowned[s].kind = call[s].kind
                              /\ call[s].kind # "list" => Disowned[s] = call[s]
<1>1. DOMAIN Disowned = Slot /\ DOMAIN call = Slot
  BY DEF Disowned, CallsOK, Calls
<1>2. ASSUME NEW s \in Slot
      PROVE  /\ Disowned[s].kind = call[s].kind
             /\ call[s].kind # "list" => Disowned[s] = call[s]
             /\ Sound(Disowned[s], known)
  <2> DEFINE r == call[s]
             q == [r EXCEPT !.mine = FALSE]
  <2>1. Sound(r, known)
    BY DEF CallsOK, Calls
  <2>2. Disowned[s] = IF r.kind = "list" THEN q ELSE r
    BY DEF Disowned
  <2>3. ASSUME r.kind = "list" PROVE Sound(q, known) /\ q.kind = r.kind
    <3> HIDE DEF r
    <3>1. {"kind", "at", "for", "mine"} \subseteq DOMAIN r
      BY <2>1, <2>3 DEF Sound
    <3>2. q.kind = r.kind /\ q.at = r.at /\ q.for = r.for /\ DOMAIN q = DOMAIN r
      BY <3>1
    <3>3. r.at = "ok" => q.data = r.data /\ q.total = r.total
      BY <2>1, <2>3 DEF Sound
    <3> HIDE DEF q
    <3> QED
      BY <2>1, <2>3, <3>2, <3>3 DEF Sound
  <2> QED
    BY <2>1, <2>2, <2>3
<1>3. \A k : Of(Disowned, k) = Of(call, k)
  <2> SUFFICES ASSUME NEW k PROVE Of(Disowned, k) = Of(call, k)
    OBVIOUS
  <2>1. {s \in Slot : Disowned[s].kind = k} = {s \in Slot : call[s].kind = k}
    BY <1>2
  <2> QED
    BY <2>1 DEF Of
<1>4. Weight(Disowned) = Weight(call) /\ Of(Disowned, "poll") = Of(call, "poll")
  BY <1>3 DEF Weight
<1>5. Calls(Disowned, known)
  BY <1>1, <1>2, <1>4 DEF CallsOK, Calls, Fits
<1> QED
  BY <1>1, <1>2, <1>4, <1>5
-----------------------------------------------------------------------------
(* How many pages a list has.                                              *)

LEMMA Products ==
    ASSUME NEW a \in Int, NEW b \in Int, a <= b
    PROVE  a * Size <= b * Size
BY Constant

LEMMA PagesOf ==
    ASSUME NEW t \in Nat
    PROVE  /\ TotalPages(t) \in 0..t
           /\ \A p \in 1..TotalPages(t) : HasPage(t, p)
<1> DEFINE n == t + Size - 1
           q == n \div Size
<1>1. Size \in Nat \ {0} /\ n \in Nat
  BY Constant
<1>2. q \in Int /\ Size * q <= n /\ n < Size * (q + 1)
  BY <1>1
<1>3. TotalPages(t) = q
  BY DEF TotalPages
<1> HIDE DEF q
<1>4. q >= 0
  BY <1>1, <1>2
<1>5. q <= t
  <2> SUFFICES ASSUME q > t PROVE FALSE
    BY <1>2
  <2>1. (t + 1) * Size <= q * Size
    BY <1>2, Products
  <2>2. (t + 1) * Size = t * Size + Size /\ t * Size >= t /\ t * Size \in Nat
    BY <1>1
  <2> QED
    BY <1>1, <1>2, <2>1, <2>2
<1>6. ASSUME NEW p \in 1..q PROVE HasPage(t, p)
  <2>1. p * Size <= q * Size
    BY <1>2, Products
  <2>2. p * Size = (p - 1) * Size + Size /\ (p - 1) * Size \in Nat /\ q * Size = Size * q
    BY <1>1, <1>2
  <2>3. (p - 1) * Size + Size <= n
    BY <1>1, <1>2, <2>1, <2>2
  <2> DEFINE x == (p - 1) * Size
  <2>4. x \in Nat /\ x + Size <= n
    BY <2>2, <2>3
  <2> HIDE DEF x
  <2>5. x < t
    BY <1>1, <2>4
  <2> QED
    BY <2>5 DEF HasPage, x
<1> QED
  BY <1>2, <1>3, <1>4, <1>5, <1>6

LEMMA HasPageGrows ==
    ASSUME NEW t \in Nat, NEW u \in Nat, t <= u, NEW p \in Nat \ {0}
    PROVE  /\ HasPage(t, p) => HasPage(u, p)
           /\ \A q \in 1..p : HasPage(t, p) => HasPage(t, q)
<1> DEFINE x == (p - 1) * Size
<1>1. x \in Int
  BY Constant
<1>2. HasPage(t, p) => HasPage(u, p)
  <2> HIDE DEF x
  <2> QED
    BY <1>1 DEF HasPage, x
<1>3. ASSUME NEW q \in 1..p, HasPage(t, p) PROVE HasPage(t, q)
  <2> DEFINE y == (q - 1) * Size
  <2>1. y <= x /\ y \in Int
    BY Products, Constant
  <2>2. p = 1 \/ x < t
    BY <1>3 DEF HasPage
  <2> HIDE DEF x, y
  <2>3. q = 1 \/ y < t
    BY <1>1, <2>1, <2>2
  <2> QED
    BY <2>3 DEF HasPage, y
<1> QED
  BY <1>2, <1>3

-----------------------------------------------------------------------------
(* The rows of a page, which are those with so many newer ones before them. *)

\* How many alerts of the list are newer.
Rank(L) == [id \in L |-> Cardinality({q \in L : q > id})]

Rows(L, p) == {id \in L : Rank(L)[id] >= (p - 1) * Size /\ Rank(L)[id] < p * Size}

LEMMA RankIsNew ==
    ASSUME NEW L, IsFiniteSet(L), L \subseteq Nat
    PROVE  /\ \A a, b \in L : a < b => Rank(L)[b] < Rank(L)[a]
           /\ \A a \in L : Rank(L)[a] \in 0..(Cardinality(L) - 1)
<1> DEFINE Newer(a) == {q \in L : q > a}
<1>1. Cardinality(L) \in Nat
  BY FS_CardinalityType
<1>2. ASSUME NEW a \in L
      PROVE  /\ IsFiniteSet(Newer(a)) /\ Cardinality(Newer(a)) \in Nat
             /\ Rank(L)[a] = Cardinality(Newer(a))
             /\ Cardinality(Newer(a)) < Cardinality(L)
  <2>1. Newer(a) \in SUBSET L
    OBVIOUS
  <2>2. IsFiniteSet(Newer(a)) /\ Cardinality(Newer(a)) <= Cardinality(L)
    BY <2>1, FS_Subset
  <2>3. Cardinality(Newer(a)) \in Nat
    BY <2>2, FS_CardinalityType
  <2>4. Newer(a) # L
    <3>1. ~(a > a)
      OBVIOUS
    <3> QED
      BY <3>1
  <2>5. Cardinality(L) # Cardinality(Newer(a))
    BY <2>1, <2>4, FS_Subset
  <2>6. Rank(L)[a] = Cardinality(Newer(a))
    BY DEF Rank
  <2> HIDE DEF Newer
  <2> QED
    BY <1>1, <2>2, <2>3, <2>5, <2>6
<1>3. ASSUME NEW a \in L, NEW b \in L, a < b
      PROVE  Cardinality(Newer(b)) < Cardinality(Newer(a))
  <2>0. a \in Nat /\ b \in Nat /\ \A q \in L : q \in Nat
    OBVIOUS
  <2>1. Newer(b) \in SUBSET Newer(a)
    <3>1. \A q \in L : q > b => q > a
      BY <1>3, <2>0
    <3> QED
      BY <3>1
  <2>2. b \in Newer(a) /\ b \notin Newer(b)
    BY <1>3
  <2>3. Newer(b) # Newer(a)
    BY <2>2
  <2> HIDE DEF Newer
  <2>4. /\ Cardinality(Newer(b)) <= Cardinality(Newer(a))
        /\ Cardinality(Newer(b)) # Cardinality(Newer(a))
    BY <1>2, <2>1, <2>3, FS_Subset
  <2> QED
    BY <1>2, <2>4
<1> HIDE DEF Newer
<1>4. \A a, b \in L : a < b => Rank(L)[b] < Rank(L)[a]
  BY <1>2, <1>3
<1>5. \A a \in L : Rank(L)[a] \in 0..(Cardinality(L) - 1)
  BY <1>1, <1>2
<1> QED
  BY <1>4, <1>5

LEMMA RankIsEach ==
    ASSUME NEW L, IsFiniteSet(L), L \subseteq Nat
    PROVE  /\ Rank(L) \in Injection(L, 0..(Cardinality(L) - 1))
           /\ \A k \in 0..(Cardinality(L) - 1) : \E a \in L : Rank(L)[a] = k
<1> DEFINE n == Cardinality(L)
           T == 0..(n - 1)
<1>1. n \in Nat
  BY FS_CardinalityType
<1>2. Rank(L) \in [L -> T]
  <2>1. \A a \in L : Rank(L)[a] \in T
    BY RankIsNew
  <2> QED
    BY <2>1 DEF Rank
<1>3. ASSUME NEW a \in L, NEW b \in L, Rank(L)[a] = Rank(L)[b]
      PROVE  a = b
  <2>1. Rank(L)[a] \in Int /\ Rank(L)[b] \in Int
    BY <1>2, <1>1
  <2>2. a < b => Rank(L)[b] < Rank(L)[a]
    BY RankIsNew
  <2>3. b < a => Rank(L)[a] < Rank(L)[b]
    BY RankIsNew
  <2> QED
    BY <1>3, <2>1, <2>2, <2>3
<1>4. Rank(L) \in Injection(L, T)
  <2>1. \A a, b \in L : Rank(L)[a] = Rank(L)[b] => a = b
    BY <1>3
  <2>2. DOMAIN Rank(L) = L
    BY DEF Rank
  <2> QED
    BY <1>2, <2>1, <2>2 DEF Injection, IsInjective
<1>5. IsFiniteSet(T) /\ Cardinality(T) = n
  <2> DEFINE m == n - 1
  <2>1. m \in Int
    BY <1>1
  <2> HIDE DEF m
  <2>2. IsFiniteSet(0..m) /\ Cardinality(0..m) = IF 0 > m THEN 0 ELSE m - 0 + 1
    BY <2>1, FS_Interval
  <2> HIDE DEF n
  <2>3. (IF 0 > m THEN 0 ELSE m - 0 + 1) = n
    BY <1>1, <2>1 DEF m
  <2>4. T = 0..m
    BY DEF m
  <2> QED
    BY <2>2, <2>3, <2>4
<1> HIDE DEF T, n
<1>6. Rank(L) \in Surjection(L, T)
  BY <1>4, <1>5, FS_Injection DEF n
<1>7. \A k \in T : \E a \in L : Rank(L)[a] = k
  BY <1>6 DEF Surjection
<1> QED
  BY <1>4, <1>7 DEF T, n

LEMMA RowsOfPage ==
    ASSUME NEW L, IsFiniteSet(L), L \subseteq Nat, NEW p \in Nat \ {0}
    PROVE  /\ Rows(L, p) \subseteq L /\ Cardinality(Rows(L, p)) <= Size
           /\ HasPage(Cardinality(L), p) /\ Rows(L, p) = {} => Cardinality(L) = 0
<1> DEFINE lo == (p - 1) * Size
           hi == p * Size
           R == Rows(L, p)
           n == Cardinality(L)
           f == [a \in R |-> Rank(L)[a]]
           T == lo..(hi - 1)
<1>1. lo \in Nat /\ hi \in Nat /\ hi = lo + Size /\ Size \in Nat \ {0}
  BY Constant
<1>2. n \in Nat
  BY FS_CardinalityType
<1>3. R \subseteq L /\ \A a \in L : a \in R <=> Rank(L)[a] >= lo /\ Rank(L)[a] < hi
  BY DEF Rows
<1>4. \A a \in L : Rank(L)[a] \in 0..(n - 1)
  BY RankIsNew
<1> HIDE DEF lo, hi, R, n
<1>5. IsFiniteSet(T) /\ Cardinality(T) = Size
  BY <1>1, FS_Interval
<1>6. f \in Injection(R, T)
  <2>1. \A a \in R : Rank(L)[a] \in T
    BY <1>1, <1>2, <1>3, <1>4
  <2>2. \A a, b \in L : Rank(L)[a] = Rank(L)[b] => a = b
    BY RankIsEach DEF Injection, IsInjective, Rank
  <2> QED
    BY <1>3, <2>1, <2>2 DEF Injection, IsInjective
<1>7. Cardinality(R) <= Size
  <2> HIDE DEF f, T
  <2> QED
    BY <1>5, <1>6, FS_Injection
<1>8. ASSUME HasPage(n, p), n # 0 PROVE R # {}
  <2>1. lo < n
    <3>1. p = 1 => lo = 0
      BY <1>1 DEF lo
    <3>2. p # 1 => lo < n
      BY <1>8 DEF HasPage, lo
    <3> QED
      BY <1>2, <1>8, <3>1, <3>2
  <2>2. lo \in 0..(n - 1)
    BY <1>1, <1>2, <2>1
  <2>3. PICK a \in L : Rank(L)[a] = lo
    BY <2>2, RankIsEach DEF n
  <2>4. a \in R
    BY <1>1, <1>3, <2>3
  <2> QED
    BY <2>4
<1> QED
  BY <1>3, <1>7, <1>8 DEF R, n

-----------------------------------------------------------------------------
(* What a step that leaves the requests of a kind alone preserves.         *)

LEMMA TableFacts ==
    ASSUME TypeOK
    PROVE  /\ known \in Nat /\ known <= MaxAlerts /\ open \subseteq 1..known
           /\ \A k \in 0..known :
                 /\ IsFiniteSet(open \cap 1..k) /\ Cardinality(open \cap 1..k) \in Nat
           /\ \A f \in Filter : /\ Listed(f) \subseteq 1..known /\ IsFiniteSet(Listed(f))
                                /\ Cardinality(Listed(f)) \in 0..known
           /\ IsFiniteSet(open) /\ Cardinality(open) \in 0..known
<1>1. known \in Nat /\ known <= MaxAlerts /\ open \subseteq 1..known
  BY Constant DEF TypeOK
<1>2. IsFiniteSet(1..known) /\ Cardinality(1..known) = known
  BY <1>1, FS_Interval
<1>3. ASSUME NEW S, S \subseteq 1..known
      PROVE  IsFiniteSet(S) /\ Cardinality(S) \in 0..known
  <2>1. IsFiniteSet(S) /\ Cardinality(S) <= known
    BY <1>2, <1>3, FS_Subset
  <2>2. Cardinality(S) \in Nat
    BY <2>1, FS_CardinalityType
  <2> QED
    BY <1>1, <2>1, <2>2
<1>4. \A f \in Filter : Listed(f) \subseteq 1..known
  BY <1>1 DEF Listed
<1>5. \A k \in 0..known : (open \cap 1..k) \subseteq 1..known
  BY <1>1
<1>6. ASSUME NEW k \in 0..known
      PROVE  IsFiniteSet(open \cap 1..k) /\ Cardinality(open \cap 1..k) \in Nat
  <2> DEFINE S == open \cap 1..k
  <2>1. S \subseteq 1..known
    BY <1>5
  <2> HIDE DEF S
  <2>2. IsFiniteSet(S) /\ Cardinality(S) \in 0..known
    BY <1>3, <2>1
  <2> QED
    BY <1>1, <2>2 DEF S
<1>7. ASSUME NEW f \in Filter
      PROVE  IsFiniteSet(Listed(f)) /\ Cardinality(Listed(f)) \in 0..known
  BY <1>3, <1>4
<1> QED
  BY <1>1, <1>3, <1>4, <1>6, <1>7

\* What the table shows, and the bar, for a table with n alerts.
RowsFit(r, n) ==
    /\ r.what \in {"loading", "error", "rows"}
    /\ r.what = "rows" => DOMAIN r.data \subseteq 1..n /\ Cardinality(DOMAIN r.data) <= Size

BarFits(b) == b # NoBar => b.pages \in 2..MaxAlerts /\ b.page \in 1..(MaxAlerts + 2)

LEMMA TypeParts == TypeOK => RowsFit(rows, known) /\ BarFits(bar)
BY DEF TypeOK, RowsFit, BarFits

LEMMA TypeKeeps ==
    ASSUME TypeOK, CallsOK', known' = known, open' \subseteq 1..known, faults' \in 0..MaxFaults,
           here' \in BOOLEAN, filter' \in Filter, page' \in 1..(MaxAlerts + 2),
           RowsFit(rows', known), BarFits(bar'),
           badge' \in 0..MaxAlerts, last' \in 0..MaxAlerts,
           crossed' \in BOOLEAN, disturbed' \in BOOLEAN,
           resolved' \subseteq 1..known, refused' \subseteq 1..known,
           alarm' \in {"none", "new", "false"}
    PROVE  TypeOK'
<1>1. \A s \in Slot : call'[s].kind \in {"free", "list", "ack", "count", "poll"}
  BY DEF CallsOK, Calls, Sound
<1>2. known' \in 0..MaxAlerts
  BY DEF TypeOK
<1>3. /\ rows'.what \in {"loading", "error", "rows"}
      /\ rows'.what = "rows" => DOMAIN rows'.data \subseteq 1..known'
                              /\ Cardinality(DOMAIN rows'.data) <= Size
  BY DEF RowsFit
<1>4. bar' # NoBar => bar'.pages \in 2..MaxAlerts /\ bar'.page \in 1..(MaxAlerts + 2)
  BY DEF BarFits
<1> QED
  BY <1>1, <1>2, <1>3, <1>4 DEF TypeOK

LEMMA AckKeeps ==
    ASSUME TypeOK, CallsOK, AckOK,
           open' \cap 1..known \subseteq open, refused \subseteq refused',
           \A id \in resolved' : id \in resolved \/ id \notin open' \/ id \in refused',
           \A t \in Slot : call'[t].kind = "ack" =>
              /\ call'[t].at = "ok" => call'[t] = call[t] \/ call'[t].id \notin open'
              /\ call'[t].at = "error" => call'[t] = call[t] \/ call'[t].id \in refused'
    PROVE  AckOK'
<1>1. ASSUME NEW t \in Slot, call'[t].kind = "ack", call'[t].at = "ok"
      PROVE  call'[t].id \notin open'
  <2>1. CASE call'[t] = call[t]
    <3>1. Sound(call[t], known) /\ call[t].kind = "ack" /\ call[t].at = "ok"
      BY <1>1, <2>1 DEF CallsOK, Calls
    <3>2. call[t].id \in 1..known /\ call[t].id \notin open
      BY <3>1 DEF Sound, AckOK
    <3> QED
      BY <2>1, <3>2
  <2> QED
    BY <1>1, <2>1
<1>2. ASSUME NEW t \in Slot, call'[t].kind = "ack", call'[t].at = "error"
      PROVE  call'[t].id \in refused'
  <2>1. CASE call'[t] = call[t]
    BY <1>2, <2>1 DEF AckOK
  <2> QED
    BY <1>2, <2>1
<1>3. ResolvedMeansMarked'
  <2>1. resolved \subseteq 1..known /\ resolved \cap open \subseteq refused
    BY DEF TypeOK, AckOK, ResolvedMeansMarked
  <2> QED
    BY <2>1 DEF ResolvedMeansMarked
<1> QED
  BY <1>1, <1>2, <1>3 DEF AckOK

\* Of the alerts up to k no more are open than were.
LEMMA OpenShrinks ==
    ASSUME TypeOK, open' \cap 1..known \subseteq open, NEW k \in 0..known
    PROVE  /\ Cardinality(open' \cap 1..k) \in Nat /\ Cardinality(open \cap 1..k) \in Nat
           /\ Cardinality(open' \cap 1..k) <= Cardinality(open \cap 1..k)
<1>1. known \in Nat /\ IsFiniteSet(open \cap 1..k)
  BY TableFacts
<1>2. (open' \cap 1..k) \subseteq (open \cap 1..k)
  <2>1. 1..k \subseteq 1..known
    BY <1>1
  <2> QED
    BY <2>1
<1> DEFINE S == open' \cap 1..k
           T == open \cap 1..k
<1>3. IsFiniteSet(T) /\ S \in SUBSET T
  BY <1>1, <1>2
<1> HIDE DEF S, T
<1>4. IsFiniteSet(S) /\ Cardinality(S) <= Cardinality(T)
  BY <1>3, FS_Subset
<1>5. Cardinality(S) \in Nat /\ Cardinality(T) \in Nat
  BY <1>3, <1>4, FS_CardinalityType
<1> QED
  BY <1>4, <1>5 DEF S, T

LEMMA PollKeeps ==
    ASSUME TypeOK, CallsOK, PollOK,
           known' \in Nat, known <= known', open' \cap 1..known \subseteq open,
           UNCHANGED <<polled, last, alarm>>,
           \A t \in Slot : call'[t].kind = "poll" =>
              call[t].kind = "poll" /\ (call'[t].at = "ok" => call'[t] = call[t])
    PROVE  PollOK'
<1>1. polled \in [known : 0..known, lapped : BOOLEAN] /\ known \in Nat
  BY TableFacts DEF PollOK
<1>2. polled'.known = polled.known /\ polled'.lapped = polled.lapped /\ polled.known \in 0..known
  BY <1>1
<1>3. polled' \in [known : 0..known', lapped : BOOLEAN]
  BY <1>1
<1>4. last' = 0 \/ Cardinality(open' \cap 1..polled'.known) <= last'
  <2> DEFINE x == Cardinality(open \cap 1..polled.known)
             y == Cardinality(open' \cap 1..polled.known)
  <2>1. x \in Nat /\ y \in Nat /\ y <= x
    BY <1>2, OpenShrinks
  <2>2. last \in Nat
    BY Constant DEF TypeOK
  <2>3. last = 0 \/ x <= last
    BY DEF PollOK
  <2> HIDE DEF x, y
  <2>4. last = 0 \/ y <= last
    BY <2>1, <2>2, <2>3
  <2> QED
    BY <1>2, <2>4 DEF y
<1>5. ASSUME NEW s \in Slot, call'[s].kind = "poll", call'[s].at = "ok"
      PROVE  Cardinality(open' \cap 1..call'[s].known) <= call'[s].count
  <2>1. call'[s] = call[s] /\ Sound(call[s], known)
    BY <1>5 DEF CallsOK, Calls
  <2> DEFINE k == call[s].known
             n == call[s].count
  <2>2. k \in 0..known /\ n \in 0..known /\ call'[s].known = k /\ call'[s].count = n
    BY <1>5, <2>1 DEF Sound
  <2>3. Cardinality(open \cap 1..k) <= n
    BY <1>5, <2>1 DEF PollOK
  <2> HIDE DEF k, n
  <2>4. /\ Cardinality(open' \cap 1..k) <= Cardinality(open \cap 1..k)
        /\ Cardinality(open \cap 1..k) \in Nat /\ Cardinality(open' \cap 1..k) \in Nat
    BY <2>2, OpenShrinks
  <2>5. n \in Int
    BY <1>1, <2>2
  <2>6. Cardinality(open' \cap 1..k) <= n
    BY <2>3, <2>4, <2>5
  <2> QED
    BY <2>2, <2>6
<1>6. ~polled'.lapped => \A s, t \in Slot : call'[s].kind = "poll" /\ call'[t].kind = "poll" => s = t
  BY <1>2 DEF PollOK
<1>7. ~polled'.lapped => \A s \in Slot : call'[s].kind = "poll" /\ call'[s].at = "ok" =>
          /\ polled'.known <= call'[s].known
          /\ call'[s].known = polled'.known => last' = 0 \/ call'[s].count <= last'
  BY <1>2 DEF PollOK
<1>8. AlarmMeansNew'
  BY <1>2 DEF PollOK, AlarmMeansNew
<1> QED
  BY <1>3, <1>4, <1>5, <1>6, <1>7, <1>8 DEF PollOK

\* A button of the bar leads to one of its pages or to the one before the page that
\* is highlighted.
ButtonsLead ==
    \A p \in Buttons : /\ p \in 1..(MaxAlerts + 2)
                       /\ bar # NoBar
                       /\ p \in 1..bar.pages \/ (p = bar.page - 1 /\ p >= 1)

LEMMA ButtonsAreNumbers == TypeOK => ButtonsLead
<1> SUFFICES ASSUME TypeOK, NEW p \in Buttons
             PROVE  /\ p \in 1..(MaxAlerts + 2)
                    /\ bar # NoBar
                    /\ p \in 1..bar.pages \/ (p = bar.page - 1 /\ p >= 1)
  BY DEF ButtonsLead
<1>1. \/ p \in 1..bar.pages
      \/ bar.page < bar.pages /\ p \in {bar.pages, bar.page + 1}
      \/ bar.page > 1 /\ p = bar.page - 1
  BY DEF Buttons
<1>2. bar # NoBar
  <2>1. NoBar.page = 1 /\ NoBar.pages = 0
    BY DEF NoBar
  <2> QED
    BY <1>1, <2>1
<1>3. bar.pages \in 2..MaxAlerts /\ bar.page \in 1..(MaxAlerts + 2)
  BY <1>2 DEF TypeOK
<1>4. MaxAlerts \in Nat
  BY Constant
<1> QED
  BY <1>1, <1>2, <1>3, <1>4

LEMMA ListKeeps ==
    ASSUME ListOK, UNCHANGED <<view, crossed>>,
           \A t \in Slot : call'[t].kind = "list" <=> call[t].kind = "list",
           \A t \in Slot : call[t].kind = "list" =>
              call'[t].mine = call[t].mine /\ call'[t].for = call[t].for
    PROVE  ListOK'
<1>1. UNCHANGED <<here, filter, page, rows, bar, crossed>>
  BY DEF view
<1>2. Now' = Now
  BY <1>1 DEF Now
<1>3. Busy({"list"})' = Busy({"list"})
  BY DEF Busy
<1>4. ShowsWhatWasAsked'
  BY <1>1, <1>3 DEF ListOK, ShowsWhatWasAsked
<1> QED
  BY <1>1, <1>2, <1>4 DEF ListOK

LEMMA EmptyKeeps ==
    ASSUME TypeOK, CallsOK, EmptyOK, TypeOK', UNCHANGED <<view, crossed, disturbed>>,
           known <= known', open \subseteq open',
           \A t \in Slot : call'[t].kind = "list" <=> call[t].kind = "list",
           \A t \in Slot : call'[t].kind = "list" /\ call'[t].at = "ok" => call'[t] = call[t]
    PROVE  EmptyOK'
<1> DEFINE n == Cardinality(Listed(filter))
           m == Cardinality(Listed(filter)')
<1>1. UNCHANGED <<here, filter, page, rows, bar, crossed, disturbed>>
  BY DEF view
<1>2. filter \in Filter /\ page \in Nat \ {0} /\ known \in Nat /\ known' \in Nat
  BY TableFacts, Constant DEF TypeOK
<1>3. n \in Nat /\ m \in Nat /\ n <= m
  <2>1. Listed(filter) \subseteq Listed(filter)'
    <3>1. 1..known \subseteq 1..known'
      BY <1>2
    <3> QED
      BY <1>1, <3>1 DEF Listed
  <2>2. IsFiniteSet(Listed(filter)')
    <3>1. Listed(filter)' \subseteq 1..known'
      BY <1>1, <1>2 DEF TypeOK, Listed
    <3>2. IsFiniteSet(1..known')
      BY <1>2, FS_Interval
    <3> QED
      BY <3>1, <3>2, FS_Subset
  <2> DEFINE S == Listed(filter)
             T == Listed(filter)'
  <2> HIDE DEF S, T
  <2>3. Cardinality(S) <= Cardinality(T) /\ Cardinality(S) \in Nat /\ Cardinality(T) \in Nat
    <3>1. S \in SUBSET T /\ IsFiniteSet(T)
      BY <2>1, <2>2 DEF S, T
    <3> QED
      BY <3>1, FS_Subset, FS_CardinalityType
  <2> QED
    BY <2>3 DEF S, T
<1>4. ASSUME NEW p \in Nat \ {0}, HasPage(n, p) PROVE HasPage(m, p)
  <2> HIDE DEF n, m
  <2> QED
    BY <1>3, <1>4, HasPageGrows
<1> SUFFICES ASSUME here, ~crossed, ~disturbed
             PROVE  /\ HasPage(m, page)
                    /\ \A s \in Slot : call'[s].kind = "list" /\ call'[s].at = "ok" =>
                          /\ HasPage(call'[s].total, page) /\ call'[s].total <= m
                          /\ DOMAIN call'[s].data = {} => call'[s].total = 0
                    /\ (\A s \in Slot : call'[s].kind # "list") => \A p \in Buttons : HasPage(m, p)
                    /\ NoneFound(rows)
  <2>1. Buttons' = Buttons
    BY <1>1 DEF Buttons
  <2> QED
    BY <1>1, <2>1 DEF EmptyOK
<1>5. /\ HasPage(n, page)
      /\ \A s \in Slot : call[s].kind = "list" /\ call[s].at = "ok" =>
            /\ HasPage(call[s].total, page) /\ call[s].total <= n
            /\ DOMAIN call[s].data = {} => call[s].total = 0
      /\ (\A s \in Slot : call[s].kind # "list") => \A p \in Buttons : HasPage(n, p)
      /\ NoneFound(rows)
  BY DEF EmptyOK
<1>6. ASSUME NEW s \in Slot, call'[s].kind = "list", call'[s].at = "ok"
      PROVE  /\ HasPage(call'[s].total, page) /\ call'[s].total <= m
             /\ DOMAIN call'[s].data = {} => call'[s].total = 0
  <2>1. call'[s] = call[s] /\ Sound(call[s], known)
    BY <1>6 DEF CallsOK, Calls
  <2>2. call[s].total \in 0..known
    BY <1>6, <2>1 DEF Sound
  <2>3. /\ HasPage(call[s].total, page) /\ call[s].total <= n
        /\ DOMAIN call[s].data = {} => call[s].total = 0
    BY <1>5, <1>6, <2>1
  <2> HIDE DEF n, m
  <2> QED
    BY <1>2, <1>3, <2>1, <2>2, <2>3
<1>7. ASSUME \A s \in Slot : call'[s].kind # "list"
      PROVE  \A p \in Buttons : HasPage(m, p)
  <2>1. \A p \in Buttons : p \in Nat \ {0}
    BY ButtonsAreNumbers DEF ButtonsLead
  <2>2. \A s \in Slot : call[s].kind # "list"
    BY <1>7
  <2> HIDE DEF n, m
  <2> QED
    BY <1>4, <1>5, <2>1, <2>2
<1> HIDE DEF n, m
<1> QED
  BY <1>2, <1>4, <1>5, <1>6, <1>7

\* A list is asked for, for what the page shows then.
LEMMA ListAsked ==
    ASSUME NEW n \in Slot,
           call'[n].kind = "list", call'[n].at = "sent", call'[n].mine = TRUE, call'[n].for = Now',
           crossed' \in BOOLEAN, Busy({"list"}) # {} => crossed',
           \A t \in Slot \ {n} : call'[t].kind = "list" => call[t].kind = "list",
           here' /\ ~crossed' /\ ~disturbed' =>
              HasPage(Cardinality(Listed(filter)'), page') /\ NoneFound(rows')
    PROVE  ListOK' /\ EmptyOK'
<1>1. ~crossed' => \A t \in Slot \ {n} : call'[t].kind # "list"
  <2>1. Busy({"list"}) = {} => \A t \in Slot : call[t].kind # "list"
    BY DEF Busy
  <2> QED
    BY <2>1
<1>2. n \in Busy({"list"})'
  BY DEF Busy
<1>3. ListOK'
  BY <1>1, <1>2 DEF ListOK, ShowsWhatWasAsked
<1>4. EmptyOK'
  BY <1>1 DEF EmptyOK
<1> QED
  BY <1>3, <1>4

-----------------------------------------------------------------------------
(* What the user does.                                                     *)

\* Every step that asks for a list, besides what else it does with the requests.
LEMMA Asking ==
    ASSUME IndInv,
           NEW n \in Slot, NEW c, NEW p \in 1..(MaxAlerts + 2), NEW f \in Filter,
           Calls(c, known), Weight(c) + 1 <= 2 * MaxCalls, c[n].kind = "free",
           \A t \in Slot : /\ c[t].kind = "list" => call[t].kind = "list"
                           /\ c[t].kind \in {"ack", "poll"} => c[t] = call[t],
           call' = [c EXCEPT ![n] = ListCall(p, f)], page' = p, filter' = f,
           UNCHANGED <<table, last, refused, polled, alarm>>,
           \A id \in resolved' : id \in resolved \/ id \notin open \/ id \in refused,
           crossed' \in BOOLEAN, Busy({"list"}) # {} => crossed',
           here' /\ ~crossed' /\ ~disturbed' =>
              HasPage(Cardinality(Listed(f)), p) /\ NoneFound(rows')
    PROVE  CallsOK' /\ AckOK' /\ PollOK' /\ ListOK' /\ EmptyOK'
<1>1. known' = known /\ open' = open /\ known \in Nat
  BY TableFacts DEF table, IndInv
<1> DEFINE r == ListCall(p, f)
<1>2. /\ Sound(r, known) /\ r.kind = "list" /\ r.at = "sent" /\ r.mine = TRUE
      /\ r.for = [page |-> p, filter |-> f]
  <2>1. known \in Nat /\ p \in 1..(MaxAlerts + 2) /\ f \in Filter
    BY <1>1
  <2>2. /\ Sound(ListCall(p, f), known)
        /\ ListCall(p, f).kind = "list" /\ ListCall(p, f).at = "sent"
        /\ ListCall(p, f).mine = TRUE /\ ListCall(p, f).for = [page |-> p, filter |-> f]
    BY <2>1, NewListCall
  <2> QED
    BY Zenon, <2>2
<1> HIDE DEF r
<1>3. DOMAIN c = Slot /\ \A t \in Slot : call'[t] = (IF t = n THEN r ELSE c[t])
  BY DEF Calls, r
<1>4. CallsOK'
  <2>1. Puts(c, call', n, r)
    BY DEF Puts, r
  <2>2. Share(r.kind) = 1 /\ Share(c[n].kind) = 0
    BY <1>2 DEF Share
  <2>3. Weight(c) + Share(r.kind) <= 2 * MaxCalls + Share(c[n].kind)
    <3>1. Weight(c) \in Nat /\ MaxCalls \in Nat
      BY <1>3, <2>1, PutWeight, Constant
    <3> QED
      BY <2>2, <3>1
  <2>4. Calls(call', known)
    BY <1>2, <2>1, <2>3, Put
  <2> QED
    BY <1>1, <2>4 DEF CallsOK
<1>5. AckOK'
  <2>1. \A t \in Slot : call'[t].kind = "ack" => call'[t] = call[t]
    BY <1>2, <1>3
  <2> QED
    BY <1>1, <2>1, AckKeeps DEF IndInv
<1>6. PollOK'
  <2>1. \A t \in Slot : call'[t].kind = "poll" => call[t].kind = "poll" /\ call'[t] = call[t]
    BY <1>2, <1>3
  <2> QED
    BY <1>1, <2>1, PollKeeps DEF IndInv
<1>7. ListOK' /\ EmptyOK'
  <2>1. call'[n] = r /\ \A t \in Slot \ {n} : call'[t].kind = "list" => call[t].kind = "list"
    BY <1>3
  <2>2. r.for = Now'
    BY <1>2 DEF Now
  <2>3. Listed(filter)' = Listed(f)
    BY <1>1 DEF Listed
  <2> QED
    BY <1>2, <2>1, <2>2, <2>3, ListAsked
<1> QED
  BY <1>4, <1>5, <1>6, <1>7

\* A new page, whose requests c come from those under way.
LEMMA Renders ==
    ASSUME IndInv, NEW n \in Slot, n = Slot1, NEW c,
           Calls(c, known), Weight(c) + 1 <= 2 * MaxCalls, c[n].kind = "free",
           \A t \in Slot : /\ c[t].kind = "list" => call[t].kind = "list"
                           /\ c[t].kind \in {"ack", "poll"} => c[t] = call[t],
           Render(c)
    PROVE  IndInv'
<1> USE DEF IndInv
<1>1. /\ here' = TRUE /\ filter' = "unacknowledged" /\ page' = 1
      /\ rows' = Blank("loading") /\ bar' = NoBar
      /\ call' = [c EXCEPT ![n] = ListCall(1, "unacknowledged")]
      /\ crossed' = (Busy({"list"}) # {}) /\ disturbed' = FALSE
      /\ UNCHANGED <<table, faults, counts, resolved, refused, polled, alarm>>
  BY DEF Render
<1>2. CallsOK' /\ AckOK' /\ PollOK' /\ ListOK' /\ EmptyOK'
  <2>1. 1 \in 1..(MaxAlerts + 2) /\ "unacknowledged" \in Filter
    BY Constant DEF Filter
  <2>2. HasPage(Cardinality(Listed("unacknowledged")), 1) /\ NoneFound(rows')
    BY <1>1 DEF HasPage, NoneFound, Blank
  <2>3. UNCHANGED <<table, last, refused, polled, alarm>>
    BY <1>1 DEF counts
  <2>4. \A id \in resolved' : id \in resolved \/ id \notin open \/ id \in refused
    BY <1>1
  <2>5. crossed' \in BOOLEAN /\ (Busy({"list"}) # {} => crossed')
    BY <1>1
  <2> QED
    BY <1>1, <2>1, <2>2, <2>3, <2>4, <2>5, Asking
<1>3. TypeOK'
  <2>1. UNCHANGED <<known, open, faults, badge, last, resolved, refused, alarm>>
    BY <1>1 DEF table, counts
  <2>2. RowsFit(rows', known) /\ BarFits(bar')
    BY <1>1 DEF RowsFit, BarFits, Blank
  <2>3. here' \in BOOLEAN /\ crossed' \in BOOLEAN /\ disturbed' \in BOOLEAN
    BY <1>1
  <2>4. filter' \in Filter /\ page' \in 1..(MaxAlerts + 2)
    BY <1>1, Constant DEF Filter
  <2> QED
    BY <1>2, <2>1, <2>2, <2>3, <2>4, TypeKeeps DEF TypeOK
<1> QED
  BY <1>2, <1>3

LEMMA OpenPageKeeps == ASSUME IndInv, OpenPage PROVE IndInv'
<1> USE DEF IndInv
<1>1. MayClick /\ Render(Disowned)
  BY DEF OpenPage
<1>2. PICK n \in Slot : n = Slot1 /\ call[n].kind = "free"
  BY <1>1, ClickRoom
<1>3. PICK c : c = Disowned
  OBVIOUS
<1>4. known \in Nat
  BY TableFacts
<1>5. /\ Calls(c, known) /\ Weight(c) = Weight(call)
      /\ \A s \in Slot : /\ c[s].kind = call[s].kind
                         /\ call[s].kind # "list" => c[s] = call[s]
  BY <1>3, <1>4, DisownedFacts
<1>6. Weight(c) + 1 <= 2 * MaxCalls
  BY <1>1, <1>5, ClickRoom, Constant
<1>7. c[n].kind = "free"
  BY <1>2, <1>5
<1>8. \A t \in Slot : /\ c[t].kind = "list" => call[t].kind = "list"
                      /\ c[t].kind \in {"ack", "poll"} => c[t] = call[t]
  BY <1>5
<1>9. Render(c)
  BY Zenon, <1>1, <1>3
<1> QED
  BY Zenon, <1>2, <1>5, <1>6, <1>7, <1>8, <1>9, Renders

LEMMA RefreshKeeps == ASSUME IndInv, Refresh PROVE IndInv'
<1> USE DEF IndInv
<1>1. MayClick /\ Render([Disowned EXCEPT ![Slot2(Slot1)] = CountCall])
  BY DEF Refresh
<1>2. PICK n \in Slot, m \in Slot : /\ n = Slot1 /\ m = Slot2(Slot1) /\ m # n
                                    /\ call[n].kind = "free" /\ call[m].kind = "free"
  BY <1>1, ClickRoom
<1>3. PICK c, d : d = Disowned /\ c = [d EXCEPT ![m] = CountCall]
  OBVIOUS
<1>4. known \in Nat
  BY TableFacts
<1>5. /\ Calls(d, known) /\ DOMAIN d = Slot /\ Weight(d) = Weight(call)
      /\ \A s \in Slot : /\ d[s].kind = call[s].kind
                         /\ call[s].kind # "list" => d[s] = call[s]
  BY <1>3, <1>4, DisownedFacts
<1>6. \A t \in Slot : c[t] = (IF t = m THEN CountCall ELSE d[t])
  BY <1>3, <1>5
<1>7. Sound(CountCall, known) /\ CountCall.kind = "count"
  BY <1>4, NewRequests
<1>8. Puts(d, c, m, CountCall)
  BY <1>3 DEF Puts
<1>9. Weight(call) \in Nat /\ Weight(call) + 2 <= 2 * MaxCalls /\ MaxCalls \in Nat
  BY <1>1, ClickRoom, Constant
<1>10. Share(CountCall.kind) = 1 /\ Share(d[m].kind) = 0
  BY <1>2, <1>5, <1>7 DEF Share
<1>11. Calls(c, known)
  <2>1. Weight(d) + Share(CountCall.kind) <= 2 * MaxCalls + Share(d[m].kind)
    BY <1>5, <1>9, <1>10
  <2>2. CountCall.kind # "poll"
    BY <1>7
  <2> QED
    BY <1>5, <1>7, <1>8, <2>1, <2>2, Put
<1>12. Weight(c) + 1 <= 2 * MaxCalls
  <2>1. Weight(c) \in Nat /\ Weight(c) + Share(d[m].kind) = Weight(d) + Share(CountCall.kind)
    BY <1>5, <1>8, PutWeight
  <2> QED
    BY <1>5, <1>9, <1>10, <2>1
<1>13. c[n].kind = "free"
  BY <1>2, <1>5, <1>6
<1>14. \A t \in Slot : /\ c[t].kind = "list" => call[t].kind = "list"
                       /\ c[t].kind \in {"ack", "poll"} => c[t] = call[t]
  BY <1>5, <1>6, <1>7
<1>15. Render(c)
  BY Zenon, <1>1, <1>2, <1>3
<1> QED
  BY Zenon, <1>2, <1>11, <1>12, <1>13, <1>14, <1>15, Renders

LEMMA LeaveKeeps == ASSUME IndInv, Leave PROVE IndInv'
<1> USE DEF IndInv
<1>1. /\ here' = FALSE /\ filter' = "unacknowledged" /\ rows' = Blank("loading") /\ bar' = NoBar
      /\ call' = Disowned
      /\ UNCHANGED <<table, faults, page, counts, history>>
  BY DEF Leave
<1>2. /\ UNCHANGED <<known, open, faults, page, badge, last, crossed, disturbed, resolved, refused>>
      /\ UNCHANGED <<polled, alarm>>
  BY <1>1 DEF table, counts, history
<1>3. known \in Nat /\ open \subseteq 1..known
  BY TableFacts
<1>4. /\ Calls(call', known)
      /\ \A s \in Slot : /\ call'[s].kind = call[s].kind
                         /\ call[s].kind # "list" => call'[s] = call[s]
  BY <1>1, <1>3, DisownedFacts
<1>5. CallsOK'
  BY <1>2, <1>4 DEF CallsOK
<1>6. AckOK'
  BY <1>2, <1>4, AckKeeps
<1>7. PollOK'
  BY <1>2, <1>3, <1>4, PollKeeps
<1>8. ListOK'
  <2>1. ~crossed' => \A s, t \in Slot : call'[s].kind = "list" /\ call'[t].kind = "list" => s = t
    BY <1>2, <1>4 DEF ListOK
  <2> QED
    BY <1>1, <2>1 DEF ListOK, ShowsWhatWasAsked
<1>9. EmptyOK'
  BY <1>1 DEF EmptyOK
<1>10. TypeOK'
  <2>1. RowsFit(rows', known) /\ BarFits(bar')
    BY <1>1 DEF RowsFit, BarFits, Blank
  <2>2. here' \in BOOLEAN /\ filter' \in Filter
    BY <1>1 DEF Filter
  <2> QED
    BY <1>2, <1>5, <2>1, <2>2, TypeKeeps DEF TypeOK
<1> QED
  BY <1>5, <1>6, <1>7, <1>8, <1>9, <1>10

\* A click on the list's filter or on a button of its bar.
LEMMA LoadKeeps ==
    ASSUME IndInv, MayClick, NEW p \in 1..(MaxAlerts + 2), NEW f \in Filter,
           Load(p, f), page' = p, filter' = f,
           here /\ ~crossed /\ ~disturbed /\ Busy({"list"}) = {} => HasPage(Cardinality(Listed(f)), p)
    PROVE  IndInv'
<1> USE DEF IndInv
<1>1. PICK n \in Slot : n = Slot1 /\ call[n].kind = "free"
  BY ClickRoom
<1>2. /\ call' = [call EXCEPT ![n] = ListCall(p, f)]
      /\ crossed' = (Busy({"list"}) # {}) /\ disturbed' = (disturbed \/ crossed)
      /\ UNCHANGED <<table, faults, here, rows, bar, counts, resolved, refused, polled, alarm>>
  BY <1>1 DEF Load
<1>3. PICK c : c = call
  OBVIOUS
<1>4. Calls(c, known) /\ c[n].kind = "free" /\ Weight(c) + 1 <= 2 * MaxCalls
  BY <1>1, <1>3, ClickRoom, Constant DEF CallsOK
<1>5. crossed \in BOOLEAN /\ disturbed \in BOOLEAN
  BY DEF TypeOK
<1>6. /\ crossed' \in BOOLEAN /\ (Busy({"list"}) # {} => crossed')
      /\ disturbed' \in BOOLEAN
      /\ ~crossed' /\ ~disturbed' => ~crossed /\ ~disturbed /\ Busy({"list"}) = {}
  BY <1>2, <1>5
<1>7. here' /\ ~crossed' /\ ~disturbed' => HasPage(Cardinality(Listed(f)), p) /\ NoneFound(rows')
  <2>1. UNCHANGED <<here, rows>>
    BY <1>2
  <2> QED
    BY <1>6, <2>1 DEF EmptyOK
<1>8. CallsOK' /\ AckOK' /\ PollOK' /\ ListOK' /\ EmptyOK'
  <2>1. \A t \in Slot : /\ c[t].kind = "list" => call[t].kind = "list"
                        /\ c[t].kind \in {"ack", "poll"} => c[t] = call[t]
    BY <1>3
  <2>2. call' = [c EXCEPT ![n] = ListCall(p, f)]
    BY Zenon, <1>2, <1>3
  <2>3. UNCHANGED <<table, last, refused, polled, alarm>>
    BY <1>2 DEF counts
  <2>4. \A id \in resolved' : id \in resolved \/ id \notin open \/ id \in refused
    BY <1>2
  <2> QED
    BY Zenon, <1>4, <1>6, <1>7, <2>1, <2>2, <2>3, <2>4, Asking
<1>9. TypeOK'
  <2>1. UNCHANGED <<known, open, faults, here, rows, bar, badge, last, resolved, refused, alarm>>
    BY <1>2 DEF table, counts
  <2>2. RowsFit(rows', known) /\ BarFits(bar')
    BY <2>1, TypeParts
  <2> QED
    BY <1>6, <1>8, <2>1, <2>2, TypeKeeps DEF TypeOK
<1> QED
  BY <1>8, <1>9

LEMMA SetFilterKeeps == ASSUME IndInv, NEW f \in Filter, SetFilter(f) PROVE IndInv'
<1>1. MayClick /\ Load(1, f) /\ page' = 1 /\ filter' = f
  BY DEF SetFilter
<1>2. 1 \in 1..(MaxAlerts + 2) /\ HasPage(Cardinality(Listed(f)), 1)
  BY Constant DEF HasPage
<1> QED
  BY <1>1, <1>2, LoadKeeps

LEMMA GoPageKeeps == ASSUME IndInv, NEW p \in Buttons, GoPage(p) PROVE IndInv'
<1>1. MayClick /\ Load(p, filter) /\ page' = p /\ filter' = filter
  BY DEF GoPage
<1>2. p \in 1..(MaxAlerts + 2) /\ filter \in Filter
  BY ButtonsAreNumbers DEF IndInv, TypeOK, ButtonsLead
<1>3. here /\ ~crossed /\ ~disturbed /\ Busy({"list"}) = {} => HasPage(Cardinality(Listed(filter)), p)
  <2>1. Busy({"list"}) = {} => \A s \in Slot : call[s].kind # "list"
    BY DEF Busy
  <2> QED
    BY <2>1 DEF IndInv, EmptyOK
<1>4. PICK q, f : q = p /\ f = filter
  OBVIOUS
<1>5. /\ q \in 1..(MaxAlerts + 2) /\ f \in Filter /\ Load(q, f) /\ page' = q /\ filter' = f
      /\ here /\ ~crossed /\ ~disturbed /\ Busy({"list"}) = {} => HasPage(Cardinality(Listed(f)), q)
  BY Zenon, <1>1, <1>2, <1>3, <1>4
<1> QED
  BY Zenon, <1>1, <1>5, LoadKeeps

LEMMA AcknowledgeKeeps == ASSUME IndInv, NEW id \in Alert, Acknowledge(id) PROVE IndInv'
<1> USE DEF IndInv
<1>1. /\ MayClick /\ rows.what = "rows" /\ id \in DOMAIN rows.data
      /\ call' = [call EXCEPT ![Slot1] = Ack(id)]
      /\ UNCHANGED <<table, faults, view, counts, history>>
  BY DEF Acknowledge
<1>2. PICK n \in Slot : n = Slot1 /\ call[n].kind = "free"
  BY <1>1, ClickRoom
<1>3. /\ UNCHANGED <<known, open, faults, here, filter, page, rows, bar, badge, last>>
      /\ UNCHANGED <<crossed, disturbed, resolved, refused, polled, alarm>>
  BY <1>1 DEF table, counts, view, history
<1>4. known \in Nat /\ open \subseteq 1..known
  BY TableFacts
<1> DEFINE r == Ack(id)
<1>5. Sound(r, known) /\ r.kind = "ack" /\ r.at = "sent"
  <2>1. id \in 1..known
    BY <1>1 DEF TypeOK
  <2> QED
    BY <1>4, <2>1, NewRequests
<1> HIDE DEF r
<1>6. \A t \in Slot : call'[t] = (IF t = n THEN r ELSE call[t])
  BY <1>1, <1>2 DEF CallsOK, Calls, r
<1>7. CallsOK'
  <2>1. Puts(call, call', n, r)
    BY <1>1, <1>2 DEF Puts, r
  <2>2. Weight(call) + Share(r.kind) <= 2 * MaxCalls + Share(call[n].kind)
    <3>1. Share(r.kind) = 2 /\ Share(call[n].kind) = 0
      BY <1>2, <1>5 DEF Share
    <3> QED
      BY <1>1, <3>1, ClickRoom, Constant
  <2>3. r.kind # "poll" /\ Calls(call, known)
    BY <1>5 DEF CallsOK
  <2>4. Calls(call', known)
    BY <1>5, <2>1, <2>2, <2>3, Put
  <2> QED
    BY <1>3, <2>4 DEF CallsOK
<1>8. AckOK'
  BY <1>3, <1>5, <1>6, AckKeeps
<1>9. PollOK'
  BY <1>3, <1>4, <1>5, <1>6, PollKeeps
<1>10. ListOK'
  <2>1. UNCHANGED <<view, crossed>>
    BY <1>1, <1>3
  <2> QED
    BY <1>2, <1>5, <1>6, <2>1, ListKeeps
<1>11. TypeOK'
  <2>1. RowsFit(rows', known) /\ BarFits(bar')
    BY <1>3, TypeParts
  <2> QED
    BY <1>3, <1>7, <2>1, TypeKeeps DEF TypeOK
<1>12. EmptyOK'
  <2>1. UNCHANGED <<view, crossed, disturbed>> /\ known <= known' /\ open \subseteq open'
    BY <1>1, <1>3, <1>4
  <2> QED
    BY <1>2, <1>5, <1>6, <1>11, <2>1, EmptyKeeps
<1> QED
  BY <1>7, <1>8, <1>9, <1>10, <1>11, <1>12

LEMMA PollSent == ASSUME IndInv, Poll PROVE IndInv'
<1> USE DEF IndInv
<1> DEFINE r == [kind |-> "poll", at |-> "sent"]
<1>1. /\ Cardinality(Busy({"poll"})) < MaxPolls
      /\ call' = [call EXCEPT ![Slot1] = r]
      /\ polled' = [polled EXCEPT !.lapped = Busy({"poll"}) # {}] /\ alarm' = "none"
      /\ UNCHANGED <<table, faults, view, counts, crossed, disturbed, resolved, refused>>
  BY DEF Poll
<1>2. PICK n \in Slot : n = Slot1 /\ call[n].kind = "free" /\ Of(call, "poll") < MaxPolls
  BY <1>1, PollRoom
<1>3. /\ UNCHANGED <<known, open, faults, here, filter, page, rows, bar, badge, last>>
      /\ UNCHANGED <<crossed, disturbed, resolved, refused>>
  BY <1>1 DEF table, counts, view
<1>4. known \in Nat /\ open \subseteq 1..known
  BY TableFacts
<1>5. Sound(r, known) /\ r.kind = "poll" /\ r.at = "sent"
  BY <1>4, NewRequests
<1> HIDE DEF r
<1>6. \A t \in Slot : call'[t] = (IF t = n THEN r ELSE call[t])
  BY <1>1, <1>2 DEF CallsOK, Calls
<1>7. CallsOK'
  <2>1. Puts(call, call', n, r) /\ DOMAIN call = Slot
    BY <1>1, <1>2 DEF Puts, CallsOK, Calls
  <2>2. Weight(call) + Share(r.kind) <= 2 * MaxCalls + Share(call[n].kind)
    <3>1. Share(r.kind) = 0 /\ Share(call[n].kind) = 0
      BY <1>2, <1>5 DEF Share
    <3>2. Weight(call) \in Nat /\ Weight(call) <= 2 * MaxCalls
      BY <2>1, PutWeight DEF CallsOK, Calls, Fits
    <3> QED
      BY <3>1, <3>2, Constant
  <2>3. Calls(call', known)
    BY <1>2, <1>5, <2>1, <2>2, Put DEF CallsOK
  <2> QED
    BY <1>3, <2>3 DEF CallsOK
<1>8. AckOK'
  BY <1>3, <1>5, <1>6, AckKeeps
<1>9. PollOK'
  <2>1. polled \in [known : 0..known, lapped : BOOLEAN]
    BY DEF PollOK
  <2>2. /\ polled' \in [known : 0..known, lapped : BOOLEAN] /\ polled'.known = polled.known
        /\ ~polled'.lapped => Busy({"poll"}) = {}
    BY <1>1, <2>1
  <2>3. Busy({"poll"}) = {} => \A t \in Slot : call[t].kind # "poll"
    BY DEF Busy
  <2>4. last' = 0 \/ Cardinality(open' \cap 1..polled'.known) <= last'
    BY <1>3, <2>2 DEF PollOK
  <2>5. \A s \in Slot : call'[s].kind = "poll" /\ call'[s].at = "ok" => call'[s] = call[s]
    BY <1>5, <1>6
  <2>6. \A s \in Slot : call'[s].kind = "poll" /\ call'[s].at = "ok" =>
            Cardinality(open' \cap 1..call'[s].known) <= call'[s].count
    BY <1>3, <2>5 DEF PollOK
  <2>7. ~polled'.lapped => \A s \in Slot : call'[s].kind = "poll" => s = n
    BY <1>6, <2>2, <2>3
  <2>8. ~polled'.lapped => \A s \in Slot : call'[s].kind = "poll" => call'[s].at = "sent"
    BY <1>5, <1>6, <2>7
  <2>9. AlarmMeansNew'
    BY <1>1 DEF AlarmMeansNew
  <2> QED
    BY <1>3, <2>2, <2>4, <2>6, <2>7, <2>8, <2>9 DEF PollOK
<1>10. ListOK'
  <2>1. UNCHANGED <<view, crossed>>
    BY <1>1, <1>3
  <2> QED
    BY <1>2, <1>5, <1>6, <2>1, ListKeeps
<1>11. TypeOK'
  <2>1. RowsFit(rows', known) /\ BarFits(bar')
    BY <1>3, TypeParts
  <2> QED
    BY <1>1, <1>3, <1>7, <2>1, TypeKeeps DEF TypeOK
<1>12. EmptyOK'
  <2>1. UNCHANGED <<view, crossed, disturbed>> /\ known <= known' /\ open \subseteq open'
    BY <1>1, <1>3, <1>4
  <2> QED
    BY <1>2, <1>5, <1>6, <1>11, <2>1, EmptyKeeps
<1> QED
  BY <1>7, <1>8, <1>9, <1>10, <1>11, <1>12
-----------------------------------------------------------------------------
(* What the server does.                                                   *)

LEMMA NewAlertKeeps == ASSUME IndInv, NewAlert PROVE IndInv'
<1> USE DEF IndInv
<1>1. /\ known < MaxAlerts /\ known' = known + 1 /\ open' = open \cup {known + 1}
      /\ UNCHANGED <<call, faults, view, counts, history>>
  BY DEF NewAlert
<1>2. /\ UNCHANGED <<faults, here, filter, page, rows, bar, badge, last>>
      /\ UNCHANGED <<crossed, disturbed, resolved, refused, polled, alarm>>
  BY <1>1 DEF counts, view, history
<1>3. known \in Nat /\ open \subseteq 1..known /\ MaxAlerts \in Nat
  BY TableFacts, Constant
<1>4. known' \in Nat /\ known <= known' /\ open \subseteq open'
  BY <1>1, <1>3
<1>5. open' \cap 1..known \subseteq open
  BY <1>1, <1>3
<1>6. CallsOK'
  <2>1. \A t \in Slot : Sound(call'[t], known')
    BY <1>1, <1>3, <1>4, SoundGrows DEF CallsOK, Calls
  <2> QED
    BY <1>1, <2>1 DEF CallsOK, Calls
<1>7. AckOK'
  BY <1>1, <1>2, <1>5, AckKeeps
<1>8. PollOK'
  BY <1>1, <1>2, <1>4, <1>5, PollKeeps
<1>9. ListOK'
  BY <1>1, <1>2, ListKeeps
<1>10. TypeOK'
  <2>1. 1..known \subseteq 1..known' /\ open' \subseteq 1..known' /\ known' \in 0..MaxAlerts
    BY <1>1, <1>3
  <2>2. /\ rows'.what = "rows" => DOMAIN rows'.data \subseteq 1..known'
                               /\ Cardinality(DOMAIN rows'.data) <= Size
        /\ rows'.what \in {"loading", "error", "rows"}
    BY <1>2, <2>1 DEF TypeOK
  <2>3. resolved' \subseteq 1..known' /\ refused' \subseteq 1..known'
    BY <1>2, <2>1 DEF TypeOK
  <2> QED
    BY <1>1, <1>2, <2>1, <2>2, <2>3 DEF TypeOK
<1>11. EmptyOK'
  <2>1. UNCHANGED <<view, crossed, disturbed>>
    BY <1>1, <1>2
  <2> QED
    BY <1>1, <1>4, <1>10, <2>1, EmptyKeeps
<1> QED
  BY <1>6, <1>7, <1>8, <1>9, <1>10, <1>11

\* The answer r, or none, comes for a request, or leaves it.
LEMMA Replaced ==
    ASSUME CallsOK, NEW s \in Slot, NEW r, Sound(r, known), r.kind \in {call[s].kind, "free"},
           call' = [call EXCEPT ![s] = r], known' = known
    PROVE  CallsOK' /\ \A t \in Slot : call'[t] = (IF t = s THEN r ELSE call[t])
<1>1. Calls(call, known) /\ DOMAIN call = Slot
  BY DEF CallsOK, Calls
<1>2. Puts(call, call', s, r)
  BY DEF Puts
<1>3. Weight(call) + Share(r.kind) <= 2 * MaxCalls + Share(call[s].kind)
  <2>1. Share(r.kind) <= Share(call[s].kind) /\ Share(r.kind) \in Nat /\ Share(call[s].kind) \in Nat
    BY DEF Share
  <2>2. Weight(call) \in Nat /\ Weight(call) <= 2 * MaxCalls
    BY <1>1, <1>2, PutWeight DEF Calls, Fits
  <2> QED
    BY <2>1, <2>2, Constant
<1>4. r.kind # "poll" \/ call[s].kind = "poll"
  OBVIOUS
<1>5. Calls(call', known)
  BY <1>1, <1>2, <1>3, <1>4, Put
<1> QED
  BY <1>1, <1>5 DEF CallsOK

LEMMA AnswerFacts ==
    ASSUME TypeOK, NEW f \in Asked
    PROVE  LET a == ListAnswer(f)
           IN  /\ DOMAIN a.data \subseteq 1..known /\ Cardinality(DOMAIN a.data) <= Size
               /\ a.total = Cardinality(Listed(f.filter)) /\ a.total \in 0..known
               /\ HasPage(a.total, f.page) /\ DOMAIN a.data = {} => a.total = 0
<1> DEFINE L == Listed(f.filter)
           a == ListAnswer(f)
<1>1. f.filter \in Filter /\ f.page \in Nat \ {0}
  BY Constant DEF Asked
<1>2. L \subseteq 1..known /\ IsFiniteSet(L) /\ Cardinality(L) \in 0..known /\ known \in Nat
  BY <1>1, TableFacts
<1>3. DOMAIN a.data = Rows(L, f.page) /\ a.total = Cardinality(L)
  <2>1. L = IF f.filter = "all" THEN 1..known ELSE open
    BY DEF Listed
  <2> DEFINE ids == {id \in L : /\ Cardinality({q \in L : q > id}) >= (f.page - 1) * Size
                                /\ Cardinality({q \in L : q > id}) < f.page * Size}
  <2>2. a = [data |-> [id \in ids |-> id \notin open], total |-> Cardinality(L)]
    BY Zenon, <2>1 DEF ListAnswer
  <2>3. ids = Rows(L, f.page)
    <3>1. \A id \in L : Rank(L)[id] = Cardinality({q \in L : q > id})
      BY DEF Rank
    <3> HIDE DEF L
    <3> QED
      BY <3>1 DEF Rows
  <2> HIDE DEF ids, L, a
  <2> QED
    BY <2>2, <2>3
<1> HIDE DEF L, a
<1>4. /\ Rows(L, f.page) \subseteq L /\ Cardinality(Rows(L, f.page)) <= Size
      /\ HasPage(Cardinality(L), f.page) /\ Rows(L, f.page) = {} => Cardinality(L) = 0
  <2>1. L \subseteq Nat
    BY <1>2
  <2> QED
    BY <1>1, <1>2, <2>1, RowsOfPage
<1>5. /\ DOMAIN a.data \subseteq 1..known /\ Cardinality(DOMAIN a.data) <= Size
      /\ a.total = Cardinality(L) /\ a.total \in 0..known
      /\ HasPage(a.total, f.page) /\ DOMAIN a.data = {} => a.total = 0
  BY <1>2, <1>3, <1>4
<1> QED
  BY <1>5 DEF a, L

LEMMA HandleListKeeps == ASSUME IndInv, NEW s \in Slot, HandleList(s) PROVE IndInv'
<1> USE DEF IndInv
<1> DEFINE f == call[s].for
           a == ListAnswer(f)
           r == [kind |-> "list", at |-> "ok", for |-> f, mine |-> call[s].mine,
                 data |-> a.data, total |-> a.total]
<1>1. /\ call[s].kind = "list" /\ call[s].at = "sent"
      /\ call' = [call EXCEPT ![s] = r]
      /\ UNCHANGED <<table, faults, view, counts, history>>
  BY DEF HandleList, Answered
<1>2. /\ UNCHANGED <<known, open, faults, here, filter, page, rows, bar, badge, last>>
      /\ UNCHANGED <<crossed, disturbed, resolved, refused, polled, alarm>>
  BY <1>1 DEF table, counts, view, history
<1>3. known \in Nat /\ open \subseteq 1..known
  BY TableFacts
<1>4. f \in Asked
  BY <1>1 DEF CallsOK, Calls, Sound
<1>5. /\ DOMAIN a.data \subseteq 1..known /\ Cardinality(DOMAIN a.data) <= Size
      /\ a.total = Cardinality(Listed(f.filter)) /\ a.total \in 0..known
      /\ HasPage(a.total, f.page) /\ DOMAIN a.data = {} => a.total = 0
  BY <1>4, AnswerFacts
<1>6. /\ r.kind = "list" /\ r.at = "ok" /\ r.for = f /\ r.mine = call[s].mine
      /\ r.data = a.data /\ r.total = a.total
      /\ {"kind", "at", "for", "mine", "data", "total"} \subseteq DOMAIN r
  OBVIOUS
<1> HIDE DEF r, a
<1>7. Sound(r, known)
  BY <1>4, <1>5, <1>6 DEF Sound
<1>8. CallsOK' /\ \A t \in Slot : call'[t] = (IF t = s THEN r ELSE call[t])
  <2>1. r.kind \in {call[s].kind, "free"}
    BY <1>1, <1>6
  <2> QED
    BY <1>1, <1>2, <1>7, <2>1, Replaced
<1>9. AckOK'
  BY <1>2, <1>6, <1>8, AckKeeps
<1>10. PollOK'
  BY <1>2, <1>3, <1>6, <1>8, PollKeeps
<1>11. ListOK'
  <2>1. UNCHANGED <<view, crossed>>
    BY <1>1, <1>2
  <2> QED
    BY <1>1, <1>6, <1>8, <2>1, ListKeeps
<1>12. TypeOK'
  <2>1. RowsFit(rows', known) /\ BarFits(bar')
    BY <1>2, TypeParts
  <2> QED
    BY <1>2, <1>8, <2>1, TypeKeeps DEF TypeOK
<1>13. EmptyOK'
  <2> SUFFICES ASSUME here, ~crossed, ~disturbed
               PROVE  /\ HasPage(Cardinality(Listed(filter)), page)
                      /\ \A t \in Slot : call'[t].kind = "list" /\ call'[t].at = "ok" =>
                            /\ HasPage(call'[t].total, page)
                            /\ call'[t].total <= Cardinality(Listed(filter))
                            /\ DOMAIN call'[t].data = {} => call'[t].total = 0
                      /\ \E t \in Slot : call'[t].kind = "list"
                      /\ NoneFound(rows)
    <3>1. Listed(filter)' = Listed(filter)
      BY <1>2 DEF Listed
    <3> QED
      BY <1>2, <3>1 DEF EmptyOK
  <2>1. /\ HasPage(Cardinality(Listed(filter)), page)
        /\ NoneFound(rows)
    BY DEF EmptyOK
  <2>2. f = [page |-> page, filter |-> filter]
    BY <1>1 DEF ListOK, Now
  <2>3. f.page = page /\ f.filter = filter
    BY <2>2
  <2>4. \A t \in Slot : call'[t].kind = "list" => t = s
    BY <1>1, <1>8 DEF ListOK
  <2>5. a.total <= Cardinality(Listed(filter)) /\ HasPage(a.total, page) /\ (DOMAIN a.data = {} => a.total = 0)
    BY <1>3, <1>5, <2>1, <2>3
  <2>6. call'[s] = r
    BY <1>8
  <2> QED
    BY <1>6, <2>1, <2>4, <2>5, <2>6
<1> QED
  BY <1>8, <1>9, <1>10, <1>11, <1>12, <1>13

LEMMA HandleAckKeeps == ASSUME IndInv, NEW s \in Slot, HandleAck(s) PROVE IndInv'
<1> USE DEF IndInv
<1> DEFINE r == [call[s] EXCEPT !.at = "ok"]
<1>1. /\ call[s].kind = "ack" /\ call[s].at = "sent"
      /\ open' = open \ {call[s].id} /\ disturbed' = TRUE
      /\ call' = [call EXCEPT ![s] = r]
      /\ UNCHANGED <<known, faults, view, counts, crossed, resolved, refused, polled, alarm>>
  BY DEF HandleAck, Answered
<1>2. /\ UNCHANGED <<known, faults, here, filter, page, rows, bar, badge, last>>
      /\ UNCHANGED <<crossed, resolved, refused, polled, alarm>>
  BY <1>1 DEF counts, view
<1>3. known \in Nat /\ open \subseteq 1..known
  BY TableFacts
<1>4. Sound(call[s], known)
  BY DEF CallsOK, Calls
<1>5. Sound(r, known) /\ r.kind = "ack" /\ r.at = "ok" /\ r.id = call[s].id
  BY <1>1, <1>3, <1>4, ChangeAt
<1> HIDE DEF r
<1>6. CallsOK' /\ \A t \in Slot : call'[t] = (IF t = s THEN r ELSE call[t])
  <2>1. r.kind \in {call[s].kind, "free"}
    BY <1>1, <1>5
  <2> QED
    BY <1>1, <1>2, <1>5, <2>1, Replaced
<1>7. AckOK'
  <2>1. r.id \notin open'
    BY <1>1, <1>5
  <2>2. open' \subseteq open
    BY <1>1
  <2> QED
    BY <1>2, <1>5, <1>6, <2>1, <2>2, AckKeeps
<1>8. PollOK'
  <2>1. open' \cap 1..known \subseteq open
    BY <1>1
  <2> QED
    BY <1>2, <1>3, <1>5, <1>6, <2>1, PollKeeps
<1>9. ListOK'
  BY <1>1, <1>2, <1>5, <1>6, ListKeeps
<1>10. TypeOK'
  <2>1. RowsFit(rows', known) /\ BarFits(bar')
    BY <1>2, TypeParts
  <2>2. open' \subseteq 1..known /\ disturbed' \in BOOLEAN
    BY <1>1, <1>3
  <2> QED
    BY <1>2, <1>6, <2>1, <2>2, TypeKeeps DEF TypeOK
<1>11. EmptyOK'
  BY <1>1 DEF EmptyOK
<1> QED
  BY <1>6, <1>7, <1>8, <1>9, <1>10, <1>11

LEMMA HandleStatsKeeps == ASSUME IndInv, NEW s \in Slot, HandleStats(s) PROVE IndInv'
<1> USE DEF IndInv
<1> DEFINE r == [kind |-> call[s].kind, at |-> "ok", count |-> Cardinality(open), known |-> known]
<1>1. /\ call[s].kind \in {"count", "poll"} /\ call[s].at = "sent"
      /\ call' = [call EXCEPT ![s] = r]
      /\ UNCHANGED <<table, faults, view, counts, history>>
  BY DEF HandleStats, Answered
<1>2. /\ UNCHANGED <<known, open, faults, here, filter, page, rows, bar, badge, last>>
      /\ UNCHANGED <<crossed, disturbed, resolved, refused, polled, alarm>>
  BY <1>1 DEF table, counts, view, history
<1>3. known \in Nat /\ open \subseteq 1..known /\ Cardinality(open) \in 0..known
  BY TableFacts
<1>4. /\ r.kind = call[s].kind /\ r.at = "ok" /\ r.count = Cardinality(open) /\ r.known = known
      /\ {"kind", "at"} \subseteq DOMAIN r
  OBVIOUS
<1> HIDE DEF r
<1>5. Sound(r, known)
  BY <1>1, <1>3, <1>4 DEF Sound
<1>6. CallsOK' /\ \A t \in Slot : call'[t] = (IF t = s THEN r ELSE call[t])
  BY <1>1, <1>2, <1>4, <1>5, Replaced
<1>7. AckOK'
  BY <1>1, <1>2, <1>4, <1>6, AckKeeps
<1>8. PollOK'
  <2>1. polled \in [known : 0..known, lapped : BOOLEAN] /\ polled.known \in 0..known
    BY DEF PollOK
  <2>2. open \cap 1..known = open
    BY <1>3
  <2>3. \A t \in Slot : call'[t].kind = "poll" /\ call'[t].at = "ok" =>
            Cardinality(open \cap 1..call'[t].known) <= call'[t].count
    <3>1. \A t \in Slot : call[t].kind = "poll" /\ call[t].at = "ok" =>
              Cardinality(open \cap 1..call[t].known) <= call[t].count
      BY DEF PollOK
    <3>2. Cardinality(open \cap 1..r.known) <= r.count
      BY <1>3, <1>4, <2>2
    <3> QED
      BY <1>6, <3>1, <3>2
  <2>4. \A t \in Slot : call'[t].kind = call[t].kind
    BY <1>4, <1>6
  <2>5. ASSUME ~polled.lapped, NEW t \in Slot, call'[t].kind = "poll", call'[t].at = "ok"
        PROVE  /\ polled.known <= call'[t].known
               /\ call'[t].known = polled.known => last = 0 \/ call'[t].count <= last
    <3>1. CASE t = s
      <4>1. polled.known <= known
        BY <1>3, <2>1
      <4>2. known = polled.known => last = 0 \/ Cardinality(open) <= last
        BY <2>2 DEF PollOK
      <4>3. call'[t].known = known /\ call'[t].count = Cardinality(open)
        BY <1>4, <1>6, <3>1
      <4> QED
        BY <4>1, <4>2, <4>3
    <3>2. CASE t # s
      <4>1. call'[t] = call[t]
        BY <1>6, <3>2
      <4> QED
        BY <2>5, <4>1 DEF PollOK
    <3> QED
      BY <3>1, <3>2
  <2> QED
    BY <1>2, <2>1, <2>3, <2>4, <2>5 DEF PollOK, AlarmMeansNew
<1>9. ListOK'
  <2>1. UNCHANGED <<view, crossed>>
    BY <1>1, <1>2
  <2> QED
    BY <1>1, <1>4, <1>6, <2>1, ListKeeps
<1>10. TypeOK'
  <2>1. RowsFit(rows', known) /\ BarFits(bar')
    BY <1>2, TypeParts
  <2> QED
    BY <1>2, <1>6, <2>1, TypeKeeps DEF TypeOK
<1>11. EmptyOK'
  <2>1. UNCHANGED <<view, crossed, disturbed>> /\ known <= known' /\ open \subseteq open'
    BY <1>1, <1>2, <1>3
  <2> QED
    BY <1>1, <1>4, <1>6, <1>10, <2>1, EmptyKeeps
<1> QED
  BY <1>6, <1>7, <1>8, <1>9, <1>10, <1>11

LEMMA FailKeeps == ASSUME IndInv, NEW s \in Slot, Fail(s) PROVE IndInv'
<1> USE DEF IndInv
<1>1. PICK how \in (IF call[s].at = "sent" THEN {"error", "down"} ELSE {"down"}) :
         /\ call[s].at \in {"sent", "ok"}
         /\ call' = [call EXCEPT ![s] = [call[s] EXCEPT !.at = how]]
         /\ refused' = IF how = "error" /\ call[s].kind = "ack" THEN refused \cup {call[s].id}
                                                               ELSE refused
  BY DEF Fail, Answered
<1>2. /\ call[s].kind # "free" /\ faults < MaxFaults /\ faults' = faults + 1
      /\ UNCHANGED <<table, view, counts, crossed, disturbed, resolved, polled, alarm>>
  BY DEF Fail
<1>3. /\ UNCHANGED <<known, open, here, filter, page, rows, bar, badge, last>>
      /\ UNCHANGED <<crossed, disturbed, resolved, polled, alarm>>
  BY <1>2 DEF table, counts, view
<1>4. known \in Nat /\ open \subseteq 1..known
  BY TableFacts
<1> DEFINE r == [call[s] EXCEPT !.at = how]
<1>5. Sound(call[s], known)
  BY DEF CallsOK, Calls
<1>6. how \in {"error", "down"}
  BY <1>1
<1>7. /\ Sound(r, known) /\ r.kind = call[s].kind /\ r.at = how
      /\ call[s].kind = "list" => r.mine = call[s].mine /\ r.for = call[s].for
      /\ call[s].kind = "ack" => r.id = call[s].id
  BY <1>2, <1>4, <1>5, <1>6, ChangeAt
<1>8. call' = [call EXCEPT ![s] = r]
  BY <1>1
<1> HIDE DEF r
<1>9. CallsOK' /\ \A t \in Slot : call'[t] = (IF t = s THEN r ELSE call[t])
  BY <1>3, <1>7, <1>8, Replaced
<1>10. AckOK'
  <2>1. refused \subseteq refused'
    BY <1>1
  <2>2. call[s].kind = "ack" /\ r.at = "error" => r.id \in refused'
    BY <1>1, <1>7
  <2> QED
    BY <1>3, <1>6, <1>7, <1>9, <2>1, <2>2, AckKeeps
<1>11. PollOK'
  BY <1>3, <1>4, <1>6, <1>7, <1>9, PollKeeps
<1>12. ListOK'
  <2>1. UNCHANGED <<view, crossed>>
    BY <1>2
  <2> QED
    BY <1>7, <1>9, <2>1, ListKeeps
<1>13. TypeOK'
  <2>1. RowsFit(rows', known) /\ BarFits(bar')
    BY <1>3, TypeParts
  <2>2. faults' \in 0..MaxFaults
    BY <1>2, Constant DEF TypeOK
  <2>3. refused' \subseteq 1..known
    BY <1>1, <1>5 DEF TypeOK, Sound
  <2> QED
    BY <1>3, <1>9, <2>1, <2>2, <2>3, TypeKeeps DEF TypeOK
<1>14. EmptyOK'
  <2>1. UNCHANGED <<view, crossed, disturbed>> /\ known <= known' /\ open \subseteq open'
    BY <1>2, <1>3, <1>4
  <2> QED
    BY <1>6, <1>7, <1>9, <1>13, <2>1, EmptyKeeps
<1> QED
  BY <1>9, <1>10, <1>11, <1>12, <1>13, <1>14

-----------------------------------------------------------------------------
(* What the page does with an answer.                                      *)

\* A request is answered and leaves its slot.
LEMMA Freed ==
    ASSUME IndInv, NEW s \in Slot, call' = [call EXCEPT ![s] = Free], known' = known
    PROVE  /\ CallsOK'
           /\ \A t \in Slot : call'[t] = (IF t = s THEN Free ELSE call[t])
           /\ \A t \in Slot : call'[t].kind # "free" => call'[t] = call[t]
<1>1. known \in Nat
  BY TableFacts DEF IndInv
<1>2. Sound(Free, known) /\ Free.kind = "free"
  BY <1>1, NewRequests
<1>3. CallsOK' /\ \A t \in Slot : call'[t] = (IF t = s THEN Free ELSE call[t])
  BY <1>2, Replaced DEF IndInv
<1> QED
  BY <1>2, <1>3

LEMMA ListArrivesKeeps == ASSUME IndInv, NEW s \in Slot, ListArrives(s) PROVE IndInv'
<1> USE DEF IndInv
<1> DEFINE c == call[s]
<1>1. /\ c.kind = "list" /\ c.at # "sent"
      /\ c.at = "ok" => /\ rows' = IF c.mine THEN Table(c) ELSE rows
                        /\ bar' = IF here THEN Bar(page, TotalPages(c.total)) ELSE NoBar
      /\ c.at # "ok" => rows' = (IF c.mine THEN Blank("error") ELSE rows) /\ bar' = bar
      /\ call' = [call EXCEPT ![s] = Free]
      /\ disturbed' = (disturbed \/ c.at # "ok")
      /\ UNCHANGED <<table, faults, here, filter, page, counts, crossed, resolved, refused, polled, alarm>>
  BY DEF ListArrives
<1>2. /\ UNCHANGED <<known, open, faults, here, filter, page, badge, last>>
      /\ UNCHANGED <<crossed, resolved, refused, polled, alarm>>
  BY <1>1 DEF table, counts
<1>3. known \in Nat /\ open \subseteq 1..known /\ known <= MaxAlerts /\ MaxAlerts \in Nat
  BY TableFacts, Constant
<1>4. Sound(c, known)
  BY DEF CallsOK, Calls
<1>5. c.at = "ok" => /\ DOMAIN c.data \subseteq 1..known /\ Cardinality(DOMAIN c.data) <= Size
                     /\ c.total \in 0..known
  BY <1>1, <1>4 DEF Sound
<1>6. /\ CallsOK'
      /\ \A t \in Slot : call'[t] = (IF t = s THEN Free ELSE call[t])
      /\ \A t \in Slot : call'[t].kind # "free" => call'[t] = call[t]
  BY <1>1, <1>2, Freed
<1>7. Table(c).what = "rows" /\ Table(c).for = c.for /\ Table(c).data = c.data /\ Table(c).total = c.total
  BY DEF Table
<1>8. Blank("error").what = "error"
  BY DEF Blank
<1> HIDE DEF c
<1>9. AckOK'
  BY <1>2, <1>6, AckKeeps
<1>10. PollOK'
  BY <1>2, <1>3, <1>6, PollKeeps
<1>11. c.at = "ok" => /\ TotalPages(c.total) \in 0..c.total
                      /\ \A p \in 1..TotalPages(c.total) : HasPage(c.total, p)
  BY <1>3, <1>5, PagesOf
<1>12. TypeOK'
  <2>1. RowsFit(rows', known)
    <3>1. RowsFit(rows, known)
      BY TypeParts
    <3>2. c.at = "ok" => RowsFit(Table(c), known)
      BY <1>5, <1>7 DEF RowsFit
    <3>3. RowsFit(Blank("error"), known)
      BY <1>8 DEF RowsFit
    <3> QED
      BY <1>1, <3>1, <3>2, <3>3
  <2>2. BarFits(bar')
    <3>1. BarFits(bar) /\ BarFits(NoBar)
      BY TypeParts DEF BarFits
    <3>2. c.at = "ok" => BarFits(Bar(page, TotalPages(c.total)))
      <4> DEFINE n == TotalPages(c.total)
                 b == [page |-> page, pages |-> n]
      <4>1. page \in 1..(MaxAlerts + 2) /\ b.pages = n /\ b.page = page
        BY DEF TypeOK
      <4>2. c.at = "ok" => n \in 0..MaxAlerts
        BY <1>3, <1>5, <1>11
      <4>3. Bar(page, n) = IF n <= 1 THEN NoBar ELSE b
        BY DEF Bar
      <4> HIDE DEF n, b
      <4>4. c.at = "ok" => BarFits(Bar(page, n))
        BY <4>1, <4>2, <4>3, <1>3 DEF BarFits
      <4> QED
        BY <4>4 DEF n
    <3> QED
      BY <1>1, <3>1, <3>2
  <2>3. disturbed' \in BOOLEAN
    BY <1>1 DEF TypeOK
  <2> QED
    BY <1>2, <1>6, <2>1, <2>2, <2>3, TypeKeeps DEF TypeOK
<1>13. ASSUME ~crossed
       PROVE  /\ \A t \in Slot : call'[t].kind # "list"
              /\ here => c.mine = TRUE /\ c.for = [page |-> page, filter |-> filter]
  <2>1. \A t \in Slot : call[t].kind = "list" => t = s
    BY <1>1, <1>13 DEF ListOK, c
  <2>2. \A t \in Slot : call'[t].kind # "list"
    BY <1>6, <2>1 DEF Free
  <2>3. here => c.mine = TRUE /\ c.for = Now
    BY <1>1, <1>13 DEF ListOK, c
  <2> QED
    BY <2>2, <2>3 DEF Now
<1>14. ASSUME ~crossed, here, c.at = "ok"
       PROVE  rows' = Table(c) /\ bar' = Bar(page, TotalPages(c.total))
  BY <1>1, <1>13, <1>14
<1>15. ListOK'
  <2>1. ShowsWhatWasAsked'
    <3> SUFFICES ASSUME here, rows'.what = "rows", ~crossed
                 PROVE  /\ rows'.for = [page |-> page, filter |-> filter]
                        /\ bar' = (IF TotalPages(rows'.total) <= 1 THEN NoBar
                                   ELSE [page |-> page, pages |-> TotalPages(rows'.total)])
      BY <1>2 DEF ShowsWhatWasAsked
    <3>1. c.at = "ok"
      BY <1>1, <1>8, <1>13
    <3>2. rows' = Table(c) /\ bar' = Bar(page, TotalPages(c.total))
      BY <1>14, <3>1
    <3> QED
      BY <1>7, <1>13, <3>2 DEF Bar
  <2>2. ~crossed' => \A t \in Slot : call'[t].kind # "list"
    BY <1>2, <1>13
  <2> QED
    BY <2>1, <2>2 DEF ListOK
<1>16. EmptyOK'
  <2> DEFINE n == Cardinality(Listed(filter))
  <2> SUFFICES ASSUME here, ~crossed, ~disturbed, c.at = "ok"
               PROVE  /\ HasPage(n, page)
                      /\ \A p \in Buttons' : HasPage(n, p)
                      /\ NoneFound(rows')
    <3>1. Listed(filter)' = Listed(filter)
      BY <1>2 DEF Listed
    <3>2. ~disturbed' => ~disturbed /\ c.at = "ok"
      BY <1>1
    <3>3. ~crossed' => \A t \in Slot : call'[t].kind # "list"
      BY <1>2, <1>13
    <3> QED
      BY <1>2, <3>1, <3>2, <3>3 DEF EmptyOK
  <2>1. /\ HasPage(n, page)
        /\ HasPage(c.total, page) /\ c.total <= n
        /\ DOMAIN c.data = {} => c.total = 0
    BY <1>1 DEF EmptyOK, c
  <2>2. n \in Nat /\ page \in Nat \ {0}
    BY <1>3, TableFacts DEF TypeOK
  <2>3. rows' = Table(c) /\ bar' = Bar(page, TotalPages(c.total))
    BY <1>14
  <2>4. NoneFound(rows')
    BY <1>7, <2>1, <2>3 DEF NoneFound
  <2>5. ASSUME NEW p \in Buttons' PROVE HasPage(n, p)
    <3>1. /\ p \in 1..(MaxAlerts + 2) /\ bar' # NoBar
          /\ p \in 1..bar'.pages \/ (p = bar'.page - 1 /\ p >= 1)
      <4>1. (TypeOK => ButtonsLead)'
        BY ButtonsAreNumbers, PTL
      <4> QED
        BY <1>12, <2>5, <4>1 DEF ButtonsLead
    <3>2. bar'.page = page /\ bar'.pages = TotalPages(c.total)
      BY <2>3, <3>1 DEF Bar
    <3>3. p \in Nat \ {0} /\ c.total \in Nat
      BY <1>3, <1>5, <3>1
    <3>4. HasPage(c.total, p)
      <4>1. CASE p \in 1..bar'.pages
        BY <1>11, <3>2, <4>1
      <4>2. CASE p = bar'.page - 1 /\ p >= 1
        <5>1. p \in 1..page
          BY <2>2, <3>2, <3>3, <4>2
        <5> QED
          BY <2>1, <2>2, <3>3, <5>1, HasPageGrows
      <4> QED
        BY <3>1, <4>1, <4>2
    <3> HIDE DEF n
    <3> QED
      BY <2>1, <2>2, <3>3, <3>4, HasPageGrows
  <2> QED
    BY <2>1, <2>4, <2>5
<1> QED
  BY <1>6, <1>9, <1>10, <1>12, <1>15, <1>16

LEMMA AckArrivesKeeps == ASSUME IndInv, NEW s \in Slot, AckArrives(s) PROVE IndInv'
<1> USE DEF IndInv
<1>1. /\ call[s].kind = "ack" /\ call[s].at # "sent"
      /\ UNCHANGED <<table, faults, view, counts, refused, polled, alarm>>
  BY DEF AckArrives
<1>2. /\ UNCHANGED <<known, open, faults, here, filter, page, rows, bar, badge, last>>
      /\ UNCHANGED <<refused, polled, alarm>>
  BY <1>1 DEF table, counts, view
<1>3. known \in Nat /\ open \subseteq 1..known
  BY TableFacts
<1>4. Sound(call[s], known) /\ DOMAIN call = Slot /\ Calls(call, known)
  BY DEF CallsOK, Calls
<1>5. call[s].id \in 1..known
  BY <1>1, <1>4 DEF Sound
<1>6. CASE call[s].at = "down"
  <2>1. call' = [call EXCEPT ![s] = Free] /\ UNCHANGED <<crossed, disturbed, resolved>>
    BY <1>6 DEF AckArrives
  <2>2. /\ CallsOK'
        /\ \A t \in Slot : call'[t] = (IF t = s THEN Free ELSE call[t])
        /\ \A t \in Slot : call'[t].kind # "free" => call'[t] = call[t]
    BY <1>2, <2>1, Freed
  <2>3. AckOK'
    BY <1>2, <2>1, <2>2, AckKeeps
  <2>4. PollOK'
    BY <1>2, <1>3, <2>2, PollKeeps
  <2>5. UNCHANGED <<view, crossed, disturbed>> /\ known <= known' /\ open \subseteq open'
    BY <1>1, <1>2, <1>3, <2>1
  <2>6. /\ \A t \in Slot : call'[t].kind = "list" <=> call[t].kind = "list"
        /\ \A t \in Slot : call[t].kind = "list" => call'[t] = call[t]
    BY <1>1, <2>2 DEF Free
  <2>7. ListOK'
    BY <2>5, <2>6, ListKeeps
  <2>8. TypeOK'
    <3>1. RowsFit(rows', known) /\ BarFits(bar')
      BY <1>2, TypeParts
    <3> QED
      BY <1>2, <2>1, <2>2, <3>1, TypeKeeps DEF TypeOK
  <2>9. EmptyOK'
    BY <2>2, <2>5, <2>6, <2>8, EmptyKeeps
  <2> QED
    BY <2>2, <2>3, <2>4, <2>7, <2>8, <2>9
<1>7. CASE call[s].at # "down"
  <2>1. /\ IF here
             THEN /\ call' = [call EXCEPT ![s] = CountCall, ![Slot1] = ListCall(page, filter)]
                  /\ crossed' = (Busy({"list"}) # {}) /\ disturbed' = (disturbed \/ crossed)
             ELSE call' = [call EXCEPT ![s] = CountCall] /\ UNCHANGED <<crossed, disturbed>>
        /\ resolved' = resolved \cup {call[s].id}
    BY <1>7 DEF AckArrives
  <2>2. call[s].at \in {"ok", "error"}
    BY <1>1, <1>4, <1>7 DEF Sound
  <2>3. call[s].id \notin open \/ call[s].id \in refused
    BY <1>1, <2>2 DEF AckOK
  <2>4. \A id \in resolved' : id \in resolved \/ id \notin open \/ id \in refused
    BY <2>1, <2>3
  <2>5. resolved' \subseteq 1..known /\ crossed' \in BOOLEAN /\ disturbed' \in BOOLEAN
    <3>1. resolved \subseteq 1..known /\ crossed \in BOOLEAN /\ disturbed \in BOOLEAN
      BY DEF TypeOK
    <3>2. resolved' \subseteq 1..known
      BY <1>5, <2>1, <3>1
    <3>3. crossed' \in BOOLEAN /\ disturbed' \in BOOLEAN
      BY <2>1, <3>1
    <3> QED
      BY <3>2, <3>3
  <2>6. PICK c : c = [call EXCEPT ![s] = CountCall]
    OBVIOUS
  <2>7. /\ Sound(CountCall, known) /\ CountCall.kind = "count" /\ CountCall.at = "sent"
        /\ \A t \in Slot : c[t] = (IF t = s THEN CountCall ELSE call[t])
    BY <1>3, <1>4, <2>6, NewRequests
  <2>8. Calls(c, known) /\ Weight(c) + 1 <= 2 * MaxCalls
    <3>1. Puts(call, c, s, CountCall)
      BY <2>6 DEF Puts
    <3>2. Share(CountCall.kind) = 1 /\ Share(call[s].kind) = 2
      BY <1>1, <2>7 DEF Share
    <3>3. /\ Weight(call) \in Nat /\ Weight(c) \in Nat /\ Weight(call) <= 2 * MaxCalls
          /\ Weight(c) + Share(call[s].kind) = Weight(call) + Share(CountCall.kind)
      BY <1>4, <3>1, PutWeight DEF Calls, Fits
    <3>4. Weight(c) + 1 <= 2 * MaxCalls /\ Weight(call) + 1 <= 2 * MaxCalls + 2
      BY <3>2, <3>3, Constant
    <3>5. CountCall.kind # "poll"
      BY <2>7
    <3>6. Weight(call) + Share(CountCall.kind) <= 2 * MaxCalls + Share(call[s].kind)
      BY <3>2, <3>4
    <3>7. Calls(c, known)
      BY <1>4, <2>7, <3>1, <3>5, <3>6, Put
    <3> QED
      BY <3>4, <3>7
  <2>9. \A t \in Slot : /\ c[t].kind = "list" => call[t].kind = "list"
                        /\ c[t].kind \in {"ack", "poll"} => c[t] = call[t]
    BY <2>7
  <2>10. CallsOK' /\ AckOK' /\ PollOK' /\ ListOK' /\ (TypeOK' => EmptyOK')
    <3>1. CASE here
      <4>1. PICK n \in Slot : n = Slot1 /\ call[n].kind = "free"
        BY <1>1, AckRoom
      <4>2. PICK p \in 1..(MaxAlerts + 2), f \in Filter : p = page /\ f = filter
        BY DEF TypeOK
      <4>3. call' = [c EXCEPT ![n] = ListCall(p, f)]
        BY <2>1, <2>6, <3>1, <4>1, <4>2
      <4>4. c[n].kind = "free"
        BY <1>1, <2>7, <4>1
      <4>5. page' = p /\ filter' = f /\ UNCHANGED <<table, last, refused, polled, alarm>>
        BY <1>1, <1>2, <4>2
      <4>6. /\ Busy({"list"}) # {} => crossed'
            /\ ~crossed' /\ ~disturbed' => ~crossed /\ ~disturbed
        BY <2>1, <3>1
      <4>7. here' /\ ~crossed' /\ ~disturbed' => HasPage(Cardinality(Listed(f)), p) /\ NoneFound(rows')
        BY <1>2, <3>1, <4>2, <4>6 DEF EmptyOK
      <4> QED
        BY Zenon, <2>4, <2>5, <2>8, <2>9, <4>3, <4>4, <4>5, <4>6, <4>7, Asking
    <3>2. CASE ~here
      <4>1. call' = c /\ UNCHANGED <<crossed, disturbed>>
        BY <2>1, <2>6, <3>2 DEF TypeOK
      <4>2. CallsOK'
        BY <1>2, <2>8, <4>1 DEF CallsOK
      <4>3. AckOK'
        BY <1>2, <2>4, <2>9, <4>1, AckKeeps
      <4>4. PollOK'
        BY <1>2, <1>3, <2>9, <4>1, PollKeeps
      <4>5. ~here'
        BY <1>2, <3>2
      <4>6. \A t \in Slot : /\ call'[t].kind = "list" <=> call[t].kind = "list"
                            /\ call[t].kind = "list" => call'[t] = call[t]
        BY <1>1, <2>7, <4>1
      <4>7. ListOK'
        BY <1>1, <4>1, <4>6, ListKeeps
      <4>8. EmptyOK'
        BY <4>5 DEF EmptyOK
      <4> QED
        BY <4>2, <4>3, <4>4, <4>7, <4>8
    <3> QED
      BY <3>1, <3>2 DEF TypeOK
  <2>11. TypeOK'
    <3>1. RowsFit(rows', known) /\ BarFits(bar')
      BY <1>2, TypeParts
    <3> QED
      BY <1>2, <2>5, <2>10, <3>1, TypeKeeps DEF TypeOK
  <2> QED
    BY <2>10, <2>11
<1> QED
  BY <1>6, <1>7

LEMMA CountArrivesKeeps == ASSUME IndInv, NEW s \in Slot, CountArrives(s) PROVE IndInv'
<1> USE DEF IndInv
<1>1. /\ call[s].kind = "count" /\ call[s].at # "sent"
      /\ badge' = IF call[s].at = "ok" THEN call[s].count ELSE badge
      /\ call' = [call EXCEPT ![s] = Free]
      /\ UNCHANGED <<table, faults, view, last, history>>
  BY DEF CountArrives, Badge
<1>2. /\ UNCHANGED <<known, open, faults, here, filter, page, rows, bar, last>>
      /\ UNCHANGED <<crossed, disturbed, resolved, refused, polled, alarm>>
  BY <1>1 DEF table, view, history
<1>3. known \in Nat /\ open \subseteq 1..known /\ known <= MaxAlerts /\ MaxAlerts \in Nat
  BY TableFacts, Constant
<1>4. /\ CallsOK'
      /\ \A t \in Slot : call'[t] = (IF t = s THEN Free ELSE call[t])
      /\ \A t \in Slot : call'[t].kind # "free" => call'[t] = call[t]
  BY <1>1, <1>2, Freed
<1>5. AckOK'
  BY <1>2, <1>4, AckKeeps
<1>6. PollOK'
  BY <1>2, <1>3, <1>4, PollKeeps
<1>7. UNCHANGED <<view, crossed, disturbed>> /\ known <= known' /\ open \subseteq open'
  BY <1>1, <1>2, <1>3
<1>8. /\ \A t \in Slot : call'[t].kind = "list" <=> call[t].kind = "list"
      /\ \A t \in Slot : call[t].kind = "list" => call'[t] = call[t]
  BY <1>1, <1>4 DEF Free
<1>9. ListOK'
  BY <1>7, <1>8, ListKeeps
<1>10. TypeOK'
  <2>1. RowsFit(rows', known) /\ BarFits(bar')
    BY <1>2, TypeParts
  <2>2. badge' \in 0..MaxAlerts
    <3>1. call[s].at = "ok" => call[s].count \in 0..known
      BY <1>1 DEF CallsOK, Calls, Sound
    <3> QED
      BY <1>1, <1>3, <3>1 DEF TypeOK
  <2> QED
    BY <1>2, <1>4, <2>1, <2>2, TypeKeeps DEF TypeOK
<1>11. EmptyOK'
  BY <1>4, <1>7, <1>8, <1>10, EmptyKeeps
<1> QED
  BY <1>4, <1>5, <1>6, <1>9, <1>10, <1>11

LEMMA PollArrivesKeeps == ASSUME IndInv, NEW s \in Slot, PollArrives(s) PROVE IndInv'
<1> USE DEF IndInv
<1> DEFINE c == call[s]
<1>1. /\ c.kind = "poll" /\ c.at # "sent"
      /\ call' = [call EXCEPT ![s] = Free]
      /\ UNCHANGED <<table, faults, view, crossed, disturbed, resolved, refused>>
  BY DEF PollArrives
<1>2. /\ UNCHANGED <<known, open, faults, here, filter, page, rows, bar>>
      /\ UNCHANGED <<crossed, disturbed, resolved, refused>>
  BY <1>1 DEF table, view
<1>3. c.at = "ok" => /\ badge' = c.count /\ last' = c.count
                     /\ alarm' = IF ~Announces(c.count) THEN "none"
                                 ELSE IF c.known > polled.known THEN "new" ELSE "false"
                     /\ polled' = [polled EXCEPT !.known = c.known]
  BY DEF PollArrives, Badge
<1>4. c.at # "ok" => UNCHANGED <<badge, last, alarm, polled>>
  BY DEF PollArrives
<1>5. known \in Nat /\ open \subseteq 1..known /\ known <= MaxAlerts /\ MaxAlerts \in Nat
  BY TableFacts, Constant
<1>6. c.at = "ok" => c.count \in 0..known /\ c.known \in 0..known
  BY <1>1 DEF CallsOK, Calls, Sound
<1>7. /\ CallsOK'
      /\ \A t \in Slot : call'[t] = (IF t = s THEN Free ELSE call[t])
      /\ \A t \in Slot : call'[t].kind # "free" => call'[t] = call[t]
  BY <1>1, <1>2, Freed
<1>8. AckOK'
  BY <1>2, <1>7, AckKeeps
<1>9. PollOK'
  <2>1. CASE c.at # "ok"
    <3>1. UNCHANGED <<polled, last, alarm>>
      BY <1>4, <2>1
    <3> QED
      BY <1>2, <1>5, <1>7, <3>1, PollKeeps
  <2>2. CASE c.at = "ok"
    <3>1. polled \in [known : 0..known, lapped : BOOLEAN] /\ polled.known \in 0..known
      BY DEF PollOK
    <3>2. /\ polled' \in [known : 0..known, lapped : BOOLEAN] /\ polled'.known = c.known
          /\ polled'.lapped = polled.lapped
      BY <1>3, <1>6, <2>2, <3>1
    <3>3. last' = 0 \/ Cardinality(open' \cap 1..polled'.known) <= last'
      BY <1>1, <1>2, <1>3, <2>2, <3>2 DEF PollOK
    <3>4. \A t \in Slot : call'[t].kind = "poll" => call[t].kind = "poll" /\ call'[t] = call[t]
      BY <1>7
    <3>5. \A t \in Slot : call'[t].kind = "poll" /\ call'[t].at = "ok" =>
              Cardinality(open' \cap 1..call'[t].known) <= call'[t].count
      BY <1>2, <3>4 DEF PollOK
    <3>6. ~polled.lapped => \A t \in Slot : call'[t].kind # "poll"
      <4>1. ~polled.lapped => \A t \in Slot : call[t].kind = "poll" => t = s
        BY <1>1 DEF PollOK
      <4> QED
        BY <1>7, <3>4, <4>1 DEF Free
    <3>7. ~polled.lapped => alarm' # "false"
      <4> SUFFICES ASSUME ~polled.lapped, Announces(c.count), ~(c.known > polled.known)
                   PROVE  FALSE
        BY <1>3, <2>2
      <4>1. polled.known <= c.known /\ (c.known = polled.known => last = 0 \/ c.count <= last)
        BY <1>1, <2>2 DEF PollOK
      <4>2. c.count > last /\ last > 0
        BY DEF Announces
      <4>3. last \in Nat /\ c.count \in Nat /\ c.known \in Nat /\ polled.known \in Nat
        BY <1>5, <1>6, <2>2, <3>1 DEF TypeOK
      <4> HIDE DEF c
      <4> QED
        BY <4>1, <4>2, <4>3
    <3> QED
      BY <1>2, <3>2, <3>3, <3>5, <3>6, <3>7 DEF PollOK, AlarmMeansNew
  <2> QED
    BY <2>1, <2>2
<1>10. UNCHANGED <<view, crossed, disturbed>> /\ known <= known' /\ open \subseteq open'
  BY <1>1, <1>2, <1>5
<1>11. /\ \A t \in Slot : call'[t].kind = "list" <=> call[t].kind = "list"
       /\ \A t \in Slot : call[t].kind = "list" => call'[t] = call[t]
  BY <1>1, <1>7 DEF Free
<1>12. ListOK'
  BY <1>10, <1>11, ListKeeps
<1>13. TypeOK'
  <2>1. RowsFit(rows', known) /\ BarFits(bar')
    BY <1>2, TypeParts
  <2>2. badge' \in 0..MaxAlerts /\ last' \in 0..MaxAlerts /\ alarm' \in {"none", "new", "false"}
    BY <1>3, <1>4, <1>5, <1>6 DEF TypeOK
  <2> QED
    BY <1>2, <1>7, <2>1, <2>2, TypeKeeps DEF TypeOK
<1>14. EmptyOK'
  BY <1>7, <1>10, <1>11, <1>13, EmptyKeeps
<1> QED
  BY <1>7, <1>8, <1>9, <1>12, <1>13, <1>14
-----------------------------------------------------------------------------
(* The first page.                                                         *)

LEMMA FirstKeeps ==
    ASSUME FirstOK,
           rows' = rows \/ rows'.what # "rows",
           \A t \in Slot : call'[t].kind = "list" /\ call'[t].at = "ok" =>
              call'[t] = call[t] \/ FirstPage(call'[t])
    PROVE  FirstOK'
<1>1. rows'.what = "rows" => FirstPage(rows')
  BY DEF FirstOK
<1>2. ASSUME NEW t \in Slot, call'[t].kind = "list", call'[t].at = "ok"
      PROVE  FirstPage(call'[t])
  BY <1>2 DEF FirstOK
<1> QED
  BY <1>1, <1>2 DEF FirstOK, FirstPage

\* A table that is taken away leaves the answers as they are.
LEMMA FirstDisowned ==
    ASSUME CallsOK, FirstOK, NEW s \in Slot,
           Disowned[s].kind = "list", Disowned[s].at = "ok"
    PROVE  FirstPage(Disowned[s])
<1> DEFINE r == call[s]
           q == [r EXCEPT !.mine = FALSE]
<1>1. Sound(r, known)
  BY DEF CallsOK, Calls
<1>2. Disowned[s] = IF r.kind = "list" THEN q ELSE r
  BY DEF Disowned
<1>3. CASE r.kind = "list"
  <2> HIDE DEF r
  <2>1. {"kind", "at", "for", "mine"} \subseteq DOMAIN r
    BY <1>1, <1>3 DEF Sound
  <2>2. q.kind = r.kind /\ q.at = r.at /\ q.for = r.for
    BY <2>1
  <2>3. r.at = "ok"
    BY <1>2, <1>3, <2>2
  <2>4. q.data = r.data /\ q.total = r.total
    BY <1>1, <1>3, <2>3 DEF Sound
  <2>5. FirstPage(r)
    BY <1>3, <2>3 DEF FirstOK, r
  <2> QED
    BY <1>2, <1>3, <2>2, <2>4, <2>5 DEF FirstPage
<1>4. CASE r.kind # "list"
  BY <1>2, <1>4
<1> QED
  BY <1>3, <1>4

LEMMA FirstRendered ==
    ASSUME CallsOK, FirstOK, NEW c, Render(c), DOMAIN c = Slot,
           \A t \in Slot : c[t] = Disowned[t] \/ c[t] = CountCall
    PROVE  FirstOK'
<1>1. rows'.what # "rows"
  BY DEF Render, Blank
<1>2. call' = [c EXCEPT ![Slot1] = ListCall(1, "unacknowledged")]
  BY DEF Render
<1>3. ListCall(1, "unacknowledged").at = "sent" /\ CountCall.at = "sent"
  BY DEF ListCall, CountCall
<1>4. \A t \in Slot : call'[t] \in {Disowned[t], CountCall, ListCall(1, "unacknowledged")}
  BY <1>2
<1>5. ASSUME NEW t \in Slot, call'[t].kind = "list", call'[t].at = "ok"
      PROVE  FirstPage(call'[t])
  <2>1. call'[t] = Disowned[t]
    BY <1>3, <1>4, <1>5
  <2> QED
    BY <1>5, <2>1, FirstDisowned
<1> QED
  BY <1>1, <1>5, FirstKeeps

\* A step of the table, of the poller or of a click that asks for no new page.
LEMMA FirstUser == ASSUME CallsOK, FirstOK,
                          OpenPage \/ Refresh \/ Leave \/ Poll \/ NewAlert
                   PROVE  FirstOK'
<1>1. DOMAIN Disowned = Slot /\ DOMAIN call = Slot
  BY DEF Disowned, CallsOK, Calls
<1>2. CASE OpenPage
  BY <1>1, <1>2, FirstRendered DEF OpenPage
<1>3. CASE Refresh
  <2>1. PICK c : c = [Disowned EXCEPT ![Slot2(Slot1)] = CountCall]
    OBVIOUS
  <2>2. Render(c) /\ DOMAIN c = Slot
    BY <1>1, <1>3, <2>1 DEF Refresh
  <2>3. \A t \in Slot : c[t] = Disowned[t] \/ c[t] = CountCall
    BY <1>1, <2>1
  <2> QED
    BY <2>2, <2>3, FirstRendered
<1>4. CASE Leave
  <2>1. call' = Disowned /\ rows'.what # "rows"
    BY <1>4 DEF Leave, Blank
  <2>2. \A t \in Slot : call'[t].kind = "list" /\ call'[t].at = "ok" => FirstPage(call'[t])
    BY <2>1, FirstDisowned
  <2> QED
    BY <2>1, <2>2, FirstKeeps
<1>5. CASE Poll
  <2>1. call' = [call EXCEPT ![Slot1] = [kind |-> "poll", at |-> "sent"]] /\ rows' = rows
    BY <1>5 DEF Poll, view
  <2>2. \A t \in Slot : call'[t] = call[t] \/ call'[t].at = "sent"
    BY <1>1, <2>1
  <2> QED
    BY <2>1, <2>2, FirstKeeps
<1>6. CASE NewAlert
  <2>1. call' = call /\ rows' = rows
    BY <1>6 DEF NewAlert, view
  <2> QED
    BY <2>1, FirstKeeps
<1> QED
  BY <1>2, <1>3, <1>4, <1>5, <1>6

LEMMA FirstClick == ASSUME CallsOK, FirstOK, NEW p, NEW f, NEW id,
                           Load(p, f) \/ Acknowledge(id)
                    PROVE  FirstOK'
<1>1. DOMAIN call = Slot
  BY DEF CallsOK, Calls
<1>2. rows' = rows
  BY DEF Load, Acknowledge, view
<1>3. call' = [call EXCEPT ![Slot1] = ListCall(p, f)] \/ call' = [call EXCEPT ![Slot1] = Ack(id)]
  BY DEF Load, Acknowledge
<1>4. ListCall(p, f).at = "sent" /\ Ack(id).at = "sent"
  BY DEF ListCall, Ack
<1>5. \A t \in Slot : call'[t] = call[t] \/ call'[t].at = "sent"
  BY <1>1, <1>3, <1>4
<1> QED
  BY <1>2, <1>5, FirstKeeps

\* An answer, or none, for the request in a slot.
LEMMA FirstReplaced ==
    ASSUME CallsOK, FirstOK, NEW s \in Slot, NEW r, call' = [call EXCEPT ![s] = r], rows' = rows,
           r.kind # "list" \/ r.at # "ok" \/ FirstPage(r)
    PROVE  FirstOK'
<1>1. \A t \in Slot : call'[t] = (IF t = s THEN r ELSE call[t])
  BY DEF CallsOK, Calls
<1> QED
  BY <1>1, FirstKeeps

LEMMA FirstServer == ASSUME TypeOK, CallsOK, FirstOK, NEW s \in Slot, Handle(s) \/ Fail(s)
                     PROVE  FirstOK'
<1>0. Sound(call[s], known) /\ rows' = rows
  BY DEF CallsOK, Calls, Handle, HandleList, HandleAck, HandleStats, Fail, view
<1>1. CASE HandleList(s)
  <2> DEFINE f == call[s].for
             a == ListAnswer(f)
             r == [kind |-> "list", at |-> "ok", for |-> f, mine |-> call[s].mine,
                   data |-> a.data, total |-> a.total]
  <2>1. call[s].kind = "list" /\ call' = [call EXCEPT ![s] = r]
    BY <1>1 DEF HandleList, Answered
  <2>2. f \in Asked
    BY <1>0, <2>1 DEF Sound
  <2>3. /\ DOMAIN a.data \subseteq 1..known /\ Cardinality(DOMAIN a.data) <= Size
        /\ a.total = Cardinality(Listed(f.filter)) /\ a.total \in 0..known
        /\ HasPage(a.total, f.page) /\ DOMAIN a.data = {} => a.total = 0
    BY <2>2, AnswerFacts
  <2>4. r.data = a.data /\ r.total = a.total /\ r.for = f
    OBVIOUS
  <2> HIDE DEF r, a
  <2>5. f.page = 1 => HasPage(a.total, f.page)
    BY DEF HasPage
  <2>6. FirstPage(r)
    BY <2>3, <2>4, <2>5 DEF FirstPage
  <2> QED
    BY <1>0, <2>1, <2>6, FirstReplaced
<1>2. CASE HandleAck(s)
  <2> DEFINE r == [call[s] EXCEPT !.at = "ok"]
  <2>1. call[s].kind = "ack" /\ call' = [call EXCEPT ![s] = r]
    BY <1>2 DEF HandleAck, Answered
  <2>2. r.kind = call[s].kind
    BY <1>0, <2>1 DEF Sound
  <2> HIDE DEF r
  <2> QED
    BY <1>0, <2>1, <2>2, FirstReplaced
<1>3. CASE HandleStats(s)
  <2> DEFINE r == [kind |-> call[s].kind, at |-> "ok", count |-> Cardinality(open), known |-> known]
  <2>1. call[s].kind # "list" /\ call' = [call EXCEPT ![s] = r] /\ r.kind = call[s].kind
    BY <1>3 DEF HandleStats, Answered
  <2> HIDE DEF r
  <2> QED
    BY <1>0, <2>1, FirstReplaced
<1>4. CASE Fail(s)
  <2>1. PICK how \in {"error", "down"} : call' = [call EXCEPT ![s] = [call[s] EXCEPT !.at = how]]
    BY <1>4 DEF Fail, Answered
  <2>2. call[s].kind # "free" /\ "at" \in DOMAIN call[s]
    BY <1>0, <1>4 DEF Fail, Sound
  <2> DEFINE r == [call[s] EXCEPT !.at = how]
  <2>3. r.at # "ok" /\ call' = [call EXCEPT ![s] = r]
    BY <2>1, <2>2
  <2> HIDE DEF r
  <2> QED
    BY <1>0, <2>3, FirstReplaced
<1> QED
  BY <1>1, <1>2, <1>3, <1>4 DEF Handle

LEMMA FirstArrives == ASSUME CallsOK, FirstOK, NEW s \in Slot, Arrives(s) PROVE FirstOK'
<1>0. DOMAIN call = Slot /\ Free.kind = "free" /\ CountCall.kind = "count"
  BY DEF CallsOK, Calls, Free, CountCall
<1>1. CASE ListArrives(s)
  <2> DEFINE c == call[s]
  <2>1. /\ c.kind = "list" /\ call' = [call EXCEPT ![s] = Free]
        /\ rows' \in {rows, Table(c), Blank("error")}
        /\ rows' = Table(c) => c.at = "ok" \/ rows' = rows \/ rows' = Blank("error")
    BY <1>1 DEF ListArrives
  <2>2. \A t \in Slot : call'[t].kind = "list" => call'[t] = call[t]
    BY <1>0, <2>1
  <2>3. Blank("error").what # "rows"
    BY DEF Blank
  <2>4. Table(c).for = c.for /\ Table(c).data = c.data /\ Table(c).total = c.total
    BY DEF Table
  <2>5. c.at = "ok" => FirstPage(c)
    BY <2>1 DEF FirstOK
  <2> HIDE DEF c
  <2>6. rows'.what = "rows" => rows' = rows \/ FirstPage(rows')
    BY <2>1, <2>3, <2>4, <2>5 DEF FirstPage
  <2>7. rows'.what = "rows" => FirstPage(rows')
    BY <2>6 DEF FirstOK
  <2>8. ASSUME NEW t \in Slot, call'[t].kind = "list", call'[t].at = "ok"
        PROVE  FirstPage(call'[t])
    BY <2>2, <2>8 DEF FirstOK
  <2> QED
    BY <2>7, <2>8 DEF FirstOK, FirstPage
<1>2. CASE AckArrives(s)
  <2>1. rows' = rows
    BY <1>2 DEF AckArrives, view
  <2>2. call' \in {[call EXCEPT ![s] = Free], [call EXCEPT ![s] = CountCall],
                   [call EXCEPT ![s] = CountCall, ![Slot1] = ListCall(page, filter)]}
    BY <1>2 DEF AckArrives
  <2>3. ListCall(page, filter).at = "sent"
    BY DEF ListCall
  <2>4. \A t \in Slot : call'[t] \in {call[t], Free, CountCall, ListCall(page, filter)}
    BY <1>0, <2>2
  <2>5. \A t \in Slot : call'[t].kind = "list" /\ call'[t].at = "ok" => call'[t] = call[t]
    BY <1>0, <2>3, <2>4
  <2> QED
    BY <2>1, <2>5, FirstKeeps
<1>3. CASE CountArrives(s) \/ PollArrives(s)
  <2>1. call' = [call EXCEPT ![s] = Free] /\ rows' = rows
    BY <1>3 DEF CountArrives, PollArrives, view
  <2> QED
    BY <1>0, <2>1, FirstReplaced
<1> QED
  BY <1>1, <1>2, <1>3 DEF Arrives

LEMMA FirstPreserved == ASSUME IndInv, FirstOK, [Next]_vars PROVE FirstOK'
<1> USE DEF IndInv
<1>1. CASE OpenPage \/ Refresh \/ Leave \/ Poll \/ NewAlert
  BY <1>1, FirstUser
<1>2. CASE \E f \in Filter : SetFilter(f)
  BY <1>2, FirstClick DEF SetFilter
<1>3. CASE \E p \in Buttons : GoPage(p)
  BY <1>3, FirstClick DEF GoPage
<1>4. CASE \E id \in Alert : Acknowledge(id)
  BY <1>4, FirstClick
<1>5. CASE \E s \in Slot : Handle(s) \/ Fail(s) \/ Arrives(s)
  BY <1>5, FirstServer, FirstArrives
<1>6. CASE UNCHANGED vars
  <2>1. call' = call /\ rows' = rows
    BY <1>6 DEF vars, view
  <2> QED
    BY <2>1, FirstKeeps
<1> QED
  BY <1>1, <1>2, <1>3, <1>4, <1>5, <1>6 DEF Next

-----------------------------------------------------------------------------
(* The theorem.                                                            *)

LEMMA Begins == ASSUME Init PROVE IndInv
<1>1. known \in 0..MaxAlerts /\ open = 1..known /\ call = [s \in Slot |-> Free] /\ faults = 0
  BY DEF Init
<1>2. /\ here = FALSE /\ filter = "unacknowledged" /\ page = 1
      /\ rows = Blank("loading") /\ bar = NoBar /\ badge = 0 /\ last = 0
      /\ crossed = FALSE /\ disturbed = FALSE /\ resolved = {} /\ refused = {}
      /\ polled = [known |-> known, lapped |-> FALSE] /\ alarm = "none"
  BY DEF Init
<1>3. known \in Nat
  BY <1>1, Constant
<1>4. \A s \in Slot : call[s] = Free /\ call[s].kind = "free" /\ Sound(call[s], known)
  BY <1>1, <1>3, NewRequests
<1>5. TypeOK
  <2>1. \A s \in Slot : call[s].kind \in {"free", "list", "ack", "count", "poll"}
    BY <1>4
  <2>2. rows.what = "loading"
    BY <1>2 DEF Blank
  <2>3. 0 \in 0..MaxAlerts /\ 0 \in 0..MaxFaults /\ 1 \in 1..(MaxAlerts + 2)
    BY Constant
  <2>4. badge \in 0..MaxAlerts /\ last \in 0..MaxAlerts /\ faults \in 0..MaxFaults
    BY <1>1, <1>2, <2>3
  <2>5. here \in BOOLEAN /\ filter \in Filter /\ page \in 1..(MaxAlerts + 2)
    BY <1>2, <2>3 DEF Filter
  <2>6. crossed \in BOOLEAN /\ disturbed \in BOOLEAN /\ alarm \in {"none", "new", "false"}
    BY <1>2
  <2> QED
    BY <1>1, <1>2, <2>1, <2>2, <2>4, <2>5, <2>6 DEF TypeOK
<1>6. CallsOK
  <2>1. \A k \in {"list", "ack", "count", "poll"} : Of(call, k) = 0
    <3> SUFFICES ASSUME NEW k \in {"list", "ack", "count", "poll"} PROVE Of(call, k) = 0
      OBVIOUS
    <3>1. {s \in Slot : call[s].kind = k} = {}
      BY <1>4
    <3> QED
      BY <3>1, FS_EmptySet DEF Of
  <2>2. Weight(call) = 0 /\ Of(call, "poll") = 0
    BY <2>1 DEF Weight
  <2> QED
    BY <1>1, <1>4, <2>2, Constant DEF CallsOK, Calls, Fits
<1>7. AckOK
  BY <1>2, <1>4 DEF AckOK, ResolvedMeansMarked
<1>8. PollOK
  <2>1. polled \in [known : 0..known, lapped : BOOLEAN]
    BY <1>2, <1>3
  <2> QED
    BY <1>2, <1>4, <2>1 DEF PollOK, AlarmMeansNew
<1>9. ListOK
  BY <1>2, <1>4 DEF ListOK, ShowsWhatWasAsked
<1>10. EmptyOK
  BY <1>2 DEF EmptyOK
<1> QED
  BY <1>5, <1>6, <1>7, <1>8, <1>9, <1>10 DEF IndInv

LEMMA Stutters == ASSUME IndInv, UNCHANGED vars PROVE IndInv'
<1>1. UNCHANGED <<known, open, call, faults, here, filter, page, rows, bar, badge, last>>
  BY DEF vars, table, view, counts
<1>2. UNCHANGED <<crossed, disturbed, resolved, refused, polled, alarm>>
  BY DEF vars, history
<1>3. TypeOK' = TypeOK /\ CallsOK' = CallsOK /\ AckOK' = AckOK
  BY <1>1, <1>2 DEF TypeOK, CallsOK, AckOK, ResolvedMeansMarked
<1>4. PollOK' = PollOK
  BY <1>1, <1>2 DEF PollOK, AlarmMeansNew
<1>5. Busy({"list"})' = Busy({"list"}) /\ Now' = Now /\ Buttons' = Buttons
  BY <1>1 DEF Busy, Now, Buttons
<1>6. ListOK' = ListOK
  BY <1>1, <1>2, <1>5 DEF ListOK, ShowsWhatWasAsked
<1>7. Listed(filter)' = Listed(filter)
  BY <1>1 DEF Listed
<1>8. EmptyOK' = EmptyOK
  BY <1>1, <1>2, <1>5, <1>7 DEF EmptyOK
<1> QED
  BY <1>3, <1>4, <1>6, <1>8 DEF IndInv

LEMMA Preserved == ASSUME IndInv, [Next]_vars PROVE IndInv'
<1>1. CASE OpenPage
  BY <1>1, OpenPageKeeps
<1>2. CASE Refresh
  BY <1>2, RefreshKeeps
<1>3. CASE Leave
  BY <1>3, LeaveKeeps
<1>4. CASE Poll
  BY <1>4, PollSent
<1>5. CASE NewAlert
  BY <1>5, NewAlertKeeps
<1>6. CASE \E f \in Filter : SetFilter(f)
  BY <1>6, SetFilterKeeps
<1>7. CASE \E p \in Buttons : GoPage(p)
  BY <1>7, GoPageKeeps
<1>8. CASE \E id \in Alert : Acknowledge(id)
  BY <1>8, AcknowledgeKeeps
<1>9. ASSUME NEW s \in Slot, Handle(s) PROVE IndInv'
  BY <1>9, HandleListKeeps, HandleAckKeeps, HandleStatsKeeps DEF Handle
<1>10. ASSUME NEW s \in Slot, Fail(s) PROVE IndInv'
  BY <1>10, FailKeeps
<1>11. ASSUME NEW s \in Slot, Arrives(s) PROVE IndInv'
  BY <1>11, ListArrivesKeeps, AckArrivesKeeps, CountArrivesKeeps, PollArrivesKeeps DEF Arrives
<1>12. CASE UNCHANGED vars
  BY <1>12, Stutters
<1> QED
  BY <1>1, <1>2, <1>3, <1>4, <1>5, <1>6, <1>7, <1>8, <1>9, <1>10, <1>11, <1>12 DEF Next

LEMMA InductiveTellsTruth == IndInv /\ FirstOK => PageTellsTruth
<1> SUFFICES ASSUME IndInv, FirstOK PROVE PageTellsTruth
  OBVIOUS
<1>1. TypeOK /\ ShowsWhatWasAsked /\ ResolvedMeansMarked /\ AlarmMeansNew
  BY DEF IndInv, ListOK, AckOK, PollOK
<1>2. EmptyMeansNone
  <2> SUFFICES ASSUME here, rows.what = "rows", rows.data = <<>>,
                      rows.for.page = 1 \/ (~crossed /\ ~disturbed)
               PROVE  rows.total = 0
    BY DEF EmptyMeansNone
  <2>1. DOMAIN rows.data = {}
    OBVIOUS
  <2>2. CASE rows.for.page = 1
    BY <2>1, <2>2 DEF FirstOK, FirstPage
  <2>3. CASE ~crossed /\ ~disturbed
    BY <2>1, <2>3 DEF IndInv, EmptyOK, NoneFound
  <2> QED
    BY <2>2, <2>3
<1> QED
  BY <1>1, <1>2 DEF PageTellsTruth

\* What the alerts page says is true as soon as requests stop overlapping, for any number
\* of alerts, clicks, polls and requests that are handled and answered in any order, lost
\* or failed.  While no list is under way and the last was asked for with none under way,
\* the rows and the bar are those of the filter and the page number; an empty first page
\* always means that there are no alerts, an empty later one if no acknowledgement, failure
\* or overlap came since the page was opened; the toast after a poll sent with none under
\* way announces an alert that is new; and one that an alert is resolved is right unless
\* the server failed the request (loadAlertsList, ackAlert and the poller of app.js).
THEOREM PageTellsTruthCorrect == Spec => []PageTellsTruth
<1>1. Init => IndInv /\ FirstOK
  <2> SUFFICES ASSUME Init PROVE IndInv /\ FirstOK
    OBVIOUS
  <2>1. Free.kind = "free" /\ rows.what = "loading" /\ \A s \in Slot : call[s] = Free
    BY DEF Init, Free, Blank
  <2>2. FirstOK
    BY <2>1 DEF FirstOK
  <2> QED
    BY <2>2, Begins
<1>2. IndInv /\ FirstOK /\ [Next]_vars => IndInv' /\ FirstOK'
  BY Preserved, FirstPreserved
<1>3. IndInv /\ FirstOK => PageTellsTruth
  BY InductiveTellsTruth
<1> QED
  BY <1>1, <1>2, <1>3, PTL DEF Spec
=============================================================================
