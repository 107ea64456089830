------------------------------ MODULE ArpClaims ------------------------------
(***************************************************************************)
(* The tracker in front of the ARP spoofing rule: which ARP frames become  *)
(* claims that the rule sees.  A frame makes an event when its device is   *)
(* new (new_asset), when the address differs from the cached one           *)
(* (ip_change), and when it is gratuitous and the device has logged no     *)
(* arp_announce within the debounce time.                                  *)
(* The module looks at one address, like RuleArpSpoofing, whose variables  *)
(* and evaluation it takes over.  Database calls succeed and the process   *)
(* goes on: failures and restarts are in AssetTracker.                     *)
(***************************************************************************)
EXTENDS RuleArpSpoofing

CONSTANTS
    Debounce        \* EVENT_DEBOUNCE_SEC (60 in the code)

ClaimsAssumption == Debounce \in Nat

VARIABLES
    ip,             \* the cached address of each device
    announced,      \* event_debounce_ of arp_announce: when it was logged last
    leased,         \* history: devices that got an address by a lease or before
                \* this process, and made no claim since
    lastFrame,      \* history: when each device last sent a frame for the
    lastAnnounce,   \* address, and when a gratuitous one
    lastAlert       \* history: when the rule last raised its alert

tracker == <<ip, announced>>
seen    == <<leased, lastFrame, lastAnnounce, lastAlert>>

\* The address looked at, any other one, the empty one, and no entry at all.
Cached == {"contested", "other", "empty", "absent"}

ClaimsTypeOK ==
    /\ TypeOK
    /\ ip \in [Mac -> Cached]
    /\ announced \in [Mac -> Nat \cup {Never}]
    /\ leased \subseteq Mac
    /\ lastFrame \in [Mac -> Nat \cup {Never}] /\ lastAnnounce \in [Mac -> Nat \cup {Never}]
    /\ lastAlert \in Nat \cup {Never}

ClaimsInit ==
    /\ Init
    /\ ip \in [Mac -> Cached]
    /\ announced = [m \in Mac |-> Never]
    /\ leased = {m \in Mac : ip[m] \in {"contested", "other"}}
    /\ lastFrame = [m \in Mac |-> Never] /\ lastAnnounce = [m \in Mac |-> Never]
    /\ lastAlert = Never

At(history, m, happened) == [history EXCEPT ![m] = IF happened THEN now ELSE @]

\* Defect: every event of a type is debounced for the whole network.
DebouncedForAll(m) == \E n \in Mac : announced[n] # Never /\ now < announced[n] + Debounce

Debounced(m) == announced[m] # Never /\ now < announced[m] + Debounce

\* Defect: the cached address is not updated on a change.
FrameKeepsAddress(m, addr, gratuitous) ==
    LET logs  == gratuitous /\ ~Debounced(m)
        claim == addr = "contested" /\ logs
    IN  /\ ip' = [ip EXCEPT ![m] = IF @ = "absent" THEN addr ELSE @]
        /\ announced' = At(announced, m, logs)
        /\ leased' = IF claim THEN leased \ {m} ELSE leased
        /\ lastFrame' = At(lastFrame, m, addr = "contested")
        /\ lastAnnounce' = At(lastAnnounce, m, addr = "contested" /\ gratuitous)
        /\ IF claim THEN Evaluate(m) ELSE UNCHANGED vars
        /\ lastAlert' = IF claim /\ alert' THEN now ELSE lastAlert

\* process_arp, for a frame that is no probe.
Frame(m, addr, gratuitous) ==
    LET logs  == gratuitous /\ ~Debounced(m)
        claim == addr = "contested" /\ (ip[m] # addr \/ logs)
    IN  /\ ip' = [ip EXCEPT ![m] = addr]
        /\ announced' = At(announced, m, logs)
        /\ leased' = IF claim THEN leased \ {m} ELSE leased
        /\ lastFrame' = At(lastFrame, m, addr = "contested")
        /\ lastAnnounce' = At(lastAnnounce, m, addr = "contested" /\ gratuitous)
        /\ IF claim THEN Evaluate(m) ELSE UNCHANGED vars
        /\ lastAlert' = IF claim /\ alert' THEN now ELSE lastAlert

\* process_dhcp: an ACK stores the address, the other messages only make an
\* entry. The events are of protocol dhcp, which the rule ignores.
Lease(m, addr) ==
    /\ ip[m] = "absent" \/ addr # "empty"
    /\ ip' = [ip EXCEPT ![m] = addr]
    /\ leased' = leased \cup {m}
    /\ UNCHANGED <<vars, announced, lastFrame, lastAnnounce, lastAlert>>

ClaimsTick == Tick /\ UNCHANGED <<tracker, seen>>

ClaimsNext ==
    \/ \E m \in Mac, addr \in {"contested", "other"}, gratuitous \in BOOLEAN :
          Frame(m, addr, gratuitous)
    \/ \E m \in Mac, addr \in {"contested", "other", "empty"} : Lease(m, addr)
    \/ ClaimsTick

ClaimsSpec == ClaimsInit /\ [][ClaimsNext]_<<vars, tracker, seen>>
-----------------------------------------------------------------------------
(* Properties, for a threshold of two.                                     *)

Within(t, seconds) == t # Never /\ now <= t + seconds

\* Devices that both announced the address lately raised the alert: the debounce
\* swallows announcements, but a window that is longer than the debounce still
\* holds a claim of each.
AnnounceAlert(devices) ==
    \A m, n \in devices :
        /\ m # n /\ Debounce <= Window
        /\ Within(lastAnnounce[m], Window - Debounce)
        /\ Within(lastAnnounce[n], Window - Debounce)
        => Within(lastAlert, Window)

\* README.md:148, for devices whose last word on their address was a claim by ARP.
AnnouncersAlerted == ClaimsTypeOK /\ AnnounceAlert(Mac \ leased)

\* README.md:148: an address that is announced by several devices in a short time
\* raises the alert, however they got it.
AllAnnouncersAlerted == AnnounceAlert(Mac)

\* A device that takes the address over from another one raises the alert, when
\* the other one claimed it within the window.
TakeoverAlerted ==
    [][\A m \in Mac : ip[m] # "contested" /\ lastFrame'[m] = now' /\ lastFrame[m] # now'
          /\ (\E n \in Mac \ {m} : lastClaim[n] # Never /\ ~Stale(lastClaim[n]))
          => lastAlert' = now']_<<vars, tracker, seen>>

\* docs/design.md:64-65: on ARP events, the alert is raised when several active
\* devices claim the address within the window.
ActiveClaimsAlerted ==
    \A m, n \in Mac : m # n /\ Within(lastFrame[m], Window) /\ Within(lastFrame[n], Window)
        => Within(lastAlert, 2 * Window)

\* README.md:148 and README.md:78: an address that is announced by several devices
\* again and again raises the alert, whatever window is configured.
AnnouncersAlertedSoon ==
    \A m, n \in Mac \ leased :
        m # n /\ lastAnnounce[m] = now /\ lastAnnounce[n] = now
            => Within(lastAlert, Window + Debounce)
=============================================================================
