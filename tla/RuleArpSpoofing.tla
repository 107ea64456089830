--------------------------- MODULE RuleArpSpoofing ---------------------------
(***************************************************************************)
(* The ARP spoofing rule (src/detection/rule_arp_spoofing): for one IP     *)
(* address, the sliding window of the devices that claimed it.  The rule   *)
(* keeps one window per address and an event touches only the window of    *)
(* its own address, so one window is the whole rule.                       *)
(* A deque that pruning empties is erased from the map and created again   *)
(* by the same evaluation: the empty sequence is both.                     *)
(*                                                                         *)
(* The rule sees new_asset, ip_change and arp_announce events of ARP;      *)
(* "claim" below is one such event.  Old entries are only removed when a   *)
(* claim arrives, and only from the front of the deque.                    *)
(***************************************************************************)
EXTENDS Naturals, Sequences, FiniteSets

CONSTANTS
    Mac,            \* the devices that may claim the address
    Window,         \* window_sec_
    Threshold,      \* mac_threshold_
    Never           \* the time of a claim that never happened

ASSUME RuleAssumption ==
    /\ IsFiniteSet(Mac)
    /\ Window \in Nat
    /\ Threshold \in Nat
    /\ Never \notin Nat

VARIABLES
    now,            \* the steady clock
    dq,             \* window_[ip]: the deque, empty when the key is absent
    alert,          \* the verdict of the last evaluation
    lastClaim       \* history: when each device last claimed, or Never

vars == <<now, dq, alert, lastClaim>>

Claim == [ts : Nat, mac : Mac]

TypeOK ==
    /\ now \in Nat
    /\ dq \in Seq(Claim) /\ Len(dq) <= Cardinality(Mac)
    /\ alert \in BOOLEAN
    /\ lastClaim \in [Mac -> Nat \cup {Never}]

Init ==
    /\ now = 0
    /\ dq = <<>>
    /\ alert = FALSE
    /\ lastClaim = [m \in Mac |-> Never]

\* ts < now - window_sec, without leaving the naturals.
Stale(ts) == ts + Window < now

MacsOf(s) == {s[k].mac : k \in DOMAIN s}

\* The while loop of prune stops at the first entry that is not stale.
FirstKept(s) ==
    CHOOSE k \in 1..(Len(s) + 1) :
        /\ \A j \in 1..(k - 1) : Stale(s[j].ts)
        /\ k <= Len(s) => ~Stale(s[k].ts)

\* Defect: the loop runs one entry too far.
PruneOneTooMany(s) == SubSeq(s, FirstKept(s) + 1, Len(s))

Prune(s) == SubSeq(s, FirstKept(s), Len(s))

\* Defect: the device is appended whether or not it is tracked.
TrackAlways(s, m) == Append(s, [ts |-> now, mac |-> m])

\* Defect: a device that is tracked keeps the time of its first claim.
TrackWithoutRefresh(s, m) ==
    IF m \in MacsOf(s) THEN s ELSE Append(s, [ts |-> now, mac |-> m])

\* A device that is tracked keeps its place and gets the new time.
Track(s, m) ==
    IF m \in MacsOf(s)
      THEN [k \in DOMAIN s |-> IF s[k].mac = m THEN [s[k] EXCEPT !.ts = now] ELSE s[k]]
      ELSE Append(s, [ts |-> now, mac |-> m])

Evaluate(m) ==
    /\ dq' = Track(Prune(dq), m)
    /\ alert' = (Cardinality(MacsOf(dq')) >= Threshold)
    /\ lastClaim' = [lastClaim EXCEPT ![m] = now]
    /\ UNCHANGED now

Tick == now' = now + 1 /\ UNCHANGED <<dq, alert, lastClaim>>

Next == Tick \/ \E m \in Mac : Evaluate(m)

Spec == Init /\ [][Next]_vars
-----------------------------------------------------------------------------
(* Properties.                                                             *)

\* The devices whose last claim lies within the window.
Claimants == {m \in Mac : lastClaim[m] # Never /\ ~Stale(lastClaim[m])}

\* A device is tracked at most once, so refreshing the first entry found and
\* counting entries are sound, and the deque cannot outgrow the network.
TrackedOnce == \A j, k \in DOMAIN dq : dq[j].mac = dq[k].mac => j = k

\* Every device that claimed the address within the window is in the deque
\* with the time of its last claim, although pruning pops from the front and
\* refreshing does not move an entry: no claim is forgotten early.
ClaimantsTracked ==
    \A m \in Claimants : \E k \in DOMAIN dq : dq[k] = [ts |-> lastClaim[m], mac |-> m]

\* A claim by which the address has Threshold claimants within the window
\* raises the alert: pruning never hides an attack from the rule.
NoMissedAlert ==
    [][ \A m \in Mac : Evaluate(m) /\ Cardinality(Claimants') >= Threshold => alert' ]_vars

\* rule_arp_spoofing.hpp:12-14 and the text of the alert: it is raised when at
\* least mac_threshold devices claimed the address within the window. A stale
\* entry behind a refreshed one is still counted: see the README.
AlertMeansWindow ==
    [][ \A m \in Mac : Evaluate(m) /\ alert' => Cardinality(Claimants') >= Threshold ]_vars
=============================================================================
