---------------------------- MODULE AssetPresence ----------------------------
(***************************************************************************)
(* When a known device counts as present: last_seen and is_active in the   *)
(* cache of the tracker and in table assets, the throttle that spares      *)
(* writes of last_seen, expire_assets, and the events asset_gone and       *)
(* asset_returned.  The devices are recorded; how that happens, and what   *)
(* becomes of a logged event, is in AssetTracker.                          *)
(*                                                                         *)
(* Times are ages in seconds, up to Cap.  A handler takes no time.  Every  *)
(* action runs up to and including one database call, which may throw.     *)
(***************************************************************************)
EXTENDS Naturals, FiniteSets

CONSTANTS
    Device,         \* the devices
    Kinds,          \* the packets each of them sends: "upsert" (ARP, DHCP)
                    \* goes through upsert_asset, "name" (mDNS, SSDP, DNS) not
    Timeout,        \* timeout_sec
    Throttle,       \* seconds between two writes of last_seen (10 in the code)
    Cap,            \* bound: the age from which on time is not counted
    ExpireRuns,     \* somebody calls expire_assets
    Faults          \* a database call may throw

PresenceAssumption ==
    /\ Kinds \in [Device -> SUBSET {"upsert", "name"}]
    /\ Timeout \in Nat /\ Throttle \in Nat /\ Cap \in Nat
    /\ Throttle < Timeout /\ Timeout + Throttle < Cap
    /\ ExpireRuns \in BOOLEAN /\ Faults \in BOOLEAN

VARIABLES
    pc,             \* the next database call of the running handler
    dev,            \* the devices it works on
    moved,          \* the packet shows a new address of its device
    stale,          \* rows that expire_assets has still to go through
    cacheActive,    \* is_active in the cache
    rowActive,      \* is_active in the table
    rowAge,         \* age of last_seen in the table
    writeAge,       \* age of last_db_update_; Cap when there is none
    seenAge,        \* history: age of the last packet
    note            \* history: the last of asset_gone and asset_returned

handler == <<pc, dev, moved, stale>>
ages    == <<rowAge, writeAge, seenAge>>
vars    == <<handler, cacheActive, rowActive, ages, note>>

TypeOK ==
    /\ pc \in {"idle", "reactivate", "refresh", "changeIp", "expire", "gone"}
    /\ dev \in Device /\ moved \in BOOLEAN /\ stale \subseteq Device
    /\ cacheActive \in [Device -> BOOLEAN] /\ rowActive \in [Device -> BOOLEAN]
    /\ rowAge \in [Device -> 0..Cap] /\ writeAge \in [Device -> 0..Cap]
    /\ seenAge \in [Device -> 0..Cap]
    /\ note \in [Device -> {"gone", "returned"}]

Init ==
    /\ pc = "idle" /\ dev \in Device /\ moved = FALSE /\ stale = {}
    /\ cacheActive = [d \in Device |-> TRUE] /\ rowActive = [d \in Device |-> TRUE]
    /\ rowAge = [d \in Device |-> 0] /\ seenAge = [d \in Device |-> 0]
    /\ writeAge = [d \in Device |-> 0]
    /\ note = [d \in Device |-> "returned"]
-----------------------------------------------------------------------------
(* Packets.                                                                *)

WriteDue(d) == writeAge[d] > Throttle

AfterSeen(isMoved) == IF isMoved THEN "changeIp" ELSE "idle"

\* Defect: the throttle compares with the last packet, not with the last write.
UpsertThrottledByPacket(d) ==
    /\ pc = "idle" /\ "upsert" \in Kinds[d]
    /\ dev' = d /\ moved' \in BOOLEAN
    /\ seenAge' = [seenAge EXCEPT ![d] = 0]
    /\ cacheActive' = [cacheActive EXCEPT ![d] = TRUE]
    /\ pc' = IF ~cacheActive[d] THEN "reactivate"
             ELSE IF seenAge[d] > Throttle THEN "refresh" ELSE AfterSeen(moved')
    /\ UNCHANGED <<stale, rowActive, rowAge, writeAge, note>>

\* An ARP or DHCP packet of a cached device. The cache is active from here on,
\* whatever the write does.
Upsert(d) ==
    /\ pc = "idle" /\ "upsert" \in Kinds[d]
    /\ dev' = d /\ moved' \in BOOLEAN
    /\ seenAge' = [seenAge EXCEPT ![d] = 0]
    /\ cacheActive' = [cacheActive EXCEPT ![d] = TRUE]
    /\ pc' = IF ~cacheActive[d] THEN "reactivate"
             ELSE IF WriteDue(d) THEN "refresh" ELSE AfterSeen(moved')
    /\ UNCHANGED <<stale, rowActive, rowAge, writeAge, note>>

\* An mDNS, SSDP or DNS packet does not look at is_active.
SeeName(d) ==
    /\ pc = "idle" /\ "name" \in Kinds[d]
    /\ dev' = d /\ moved' = FALSE
    /\ seenAge' = [seenAge EXCEPT ![d] = 0]
    /\ pc' = IF WriteDue(d) THEN "refresh" ELSE "idle"
    /\ UNCHANGED <<stale, cacheActive, rowActive, rowAge, writeAge, note>>

\* update_asset_last_seen sets is_active, too.
WriteLastSeen ==
    /\ rowActive' = [rowActive EXCEPT ![dev] = TRUE]
    /\ rowAge' = [rowAge EXCEPT ![dev] = 0]
    /\ writeAge' = [writeAge EXCEPT ![dev] = 0]
    /\ pc' = AfterSeen(moved)
    /\ UNCHANGED <<dev, moved, stale, cacheActive, seenAge>>

Reactivate == pc = "reactivate" /\ WriteLastSeen /\ note' = [note EXCEPT ![dev] = "returned"]

\* Defect: last_db_update_ is set, and the row is not written.
RefreshMapOnly ==
    /\ pc = "refresh"
    /\ writeAge' = [writeAge EXCEPT ![dev] = 0]
    /\ pc' = AfterSeen(moved)
    /\ UNCHANGED <<dev, moved, stale, cacheActive, rowActive, rowAge, seenAge, note>>

Refresh == pc = "refresh" /\ WriteLastSeen /\ UNCHANGED note

\* update_asset_ip sets last_seen without last_db_update_.
ChangeIp ==
    /\ pc = "changeIp"
    /\ rowAge' = [rowAge EXCEPT ![dev] = 0]
    /\ pc' = "idle"
    /\ UNCHANGED <<dev, moved, stale, cacheActive, rowActive, writeAge, seenAge, note>>
-----------------------------------------------------------------------------
(* expire_assets.                                                          *)

FindStale ==
    /\ pc = "idle" /\ ExpireRuns
    /\ stale' = {d \in Device : rowActive[d] /\ rowAge[d] > Timeout}
    /\ pc' = IF stale' = {} THEN "idle" ELSE "expire"
    /\ UNCHANGED <<dev, moved, cacheActive, rowActive, ages, note>>

SetInactive(d) ==
    /\ pc = "expire" /\ d \in stale
    /\ rowActive' = [rowActive EXCEPT ![d] = FALSE]
    /\ dev' = d /\ pc' = "gone"
    /\ UNCHANGED <<moved, stale, cacheActive, ages, note>>

InsertGone ==
    /\ pc = "gone"
    /\ note' = [note EXCEPT ![dev] = "gone"]
    /\ cacheActive' = [cacheActive EXCEPT ![dev] = FALSE]
    /\ stale' = stale \ {dev}
    /\ pc' = IF stale' = {} THEN "idle" ELSE "expire"
    /\ UNCHANGED <<dev, moved, rowActive, ages>>
-----------------------------------------------------------------------------
\* A database call throws: the handler, or the loop of expire_assets, ends.
Throw ==
    /\ Faults /\ pc # "idle"
    /\ pc' = "idle" /\ stale' = {}
    /\ UNCHANGED <<dev, moved, cacheActive, rowActive, ages, note>>

\* The process ends and starts again with what the table says.
Restart ==
    /\ pc = "idle"
    /\ cacheActive' = rowActive
    /\ writeAge' = [d \in Device |-> Cap]
    /\ UNCHANGED <<handler, rowActive, rowAge, seenAge, note>>

Older(age) == [d \in Device |-> IF age[d] < Cap THEN age[d] + 1 ELSE age[d]]

Tick ==
    /\ pc = "idle"
    /\ rowAge' = Older(rowAge) /\ writeAge' = Older(writeAge) /\ seenAge' = Older(seenAge)
    /\ UNCHANGED <<handler, cacheActive, rowActive, note>>

Work ==
    \/ \E d \in Device : Upsert(d) \/ SeeName(d) \/ SetInactive(d)
    \/ Reactivate \/ Refresh \/ ChangeIp \/ FindStale \/ InsertGone
    \/ Restart \/ Tick

Next == Work \/ Throw

Spec == Init /\ [][Next]_vars

\* Time passes. Nothing in the program calls expire_assets.
FairSpec == Spec /\ WF_vars(Tick)
-----------------------------------------------------------------------------
(* Properties.                                                             *)

\* The row is at most the throttle behind the last packet: the throttle spares
\* writes of a device that keeps sending, not the last one it needs.
RowFresh == pc = "idle" => \A d \in Device : rowAge[d] <= seenAge[d] + Throttle

\* A device is set inactive only after a silence of the timeout, less what the
\* throttle may cost.
SilenceFirst ==
    \A d \in Device : rowActive[d] /\ ~rowActive'[d] => seenAge[d] + Throttle > Timeout

\* Between two handlers, an entry that is active in the cache is active in the
\* table: otherwise its row stays inactive until the next write is due, and no
\* asset_returned is logged.
ActiveInTable == pc = "idle" => \A d \in Device : cacheActive[d] => rowActive[d]

\* Whatever failed: a row that lags behind the packets, or is inactive, is written
\* by the next packet of its device.
LagIsRetried ==
    pc = "idle" => \A d \in Device :
        rowAge[d] > seenAge[d] + Throttle \/ ~rowActive[d] => WriteDue(d)

\* README.md:144, asset_gone: a row that is inactive was announced.
InactiveAnnounced == pc = "idle" => \A d \in Device : rowActive[d] \/ note[d] = "gone"

\* asset_gone and asset_returned alternate for a device that sends ARP and DHCP.
InTurn == InsertGone /\ "name" \notin Kinds[dev] => note[dev] = "returned"

\* README.md:144: asset_gone and asset_returned, a device goes offline and comes
\* back, for every device: two asset_gone have an asset_returned between them.
AllAlternate == [][InsertGone => note[dev] = "returned"]_vars

\* README.md:144, asset_gone; config.hpp:26: seconds unseen, then is_active is
\* false.
SilentGoesInactive ==
    \A d \in Device : seenAge[d] = Cap ~> (~rowActive[d] \/ seenAge[d] < Cap)
=============================================================================
