---------------------------- MODULE AssetTracker -----------------------------
(***************************************************************************)
(* The asset tracker (src/tracker) over the database it writes to          *)
(* (src/db): the in-memory device cache, the IP index, the event buffer    *)
(* and the handlers that ARP, DHCP, mDNS, SSDP and DNS packets run.        *)
(*                                                                         *)
(* A handler runs on the capture thread alone, but every database call in  *)
(* it may throw, and the process may die between two of them.  Each action *)
(* is therefore the stretch of a handler up to and including one database  *)
(* call; pc says which call is next.  An exception ends the handler (the   *)
(* catch of every process_ function): Return.                              *)
(*                                                                         *)
(* Left out: is_active, last_seen and the ten-second throttle (main never  *)
(* calls expire_assets, so every row stays active; the database call that  *)
(* refreshes last_seen is Touch), the values of hostname, vendor and os    *)
(* (the calls that store them are Enrich) and the clock of the debounce.   *)
(***************************************************************************)
EXTENDS Naturals, Sequences

CONSTANTS
    Mac,            \* hardware addresses of devices
    Ip,             \* network addresses
    NoMac,          \* the empty mac string, and the asset id 0
    NoIp,           \* the empty ip string
    Absent,         \* no such key in a map, no such row in a table
    FlushLimit,     \* buffered events that trigger a flush (500 in the code)
    Faults          \* which failures may happen

Proto == {"arp", "dhcp"}

\* An asset of the cache. The id of a row is represented by its mac.
Entry == [id : Mac \cup {NoMac}, ip : Ip \cup {NoIp}, via : SUBSET Proto]

\* A row of table assets.
Row == [ip : Ip \cup {NoIp}, via : SUBSET Proto]

\* "ip_change" and "new_asset" are told apart, every other type is "other".
Event == [id : Mac \cup {NoMac}, type : {"new_asset", "ip_change", "other"}]

\* "arp" is any frame that is neither a probe nor a gratuitous reply;
\* "dhcp_request" is DISCOVER or REQUEST; "dhcp_ack" without an address also
\* stands for the message types that log nothing.
ArpPacket  == [kind : {"arp", "arp_announce"}, mac : Mac, ip : Ip]
                \cup [kind : {"arp_probe"}, mac : Mac, ip : {NoIp}]
DhcpPacket == [kind : {"dhcp_request"}, mac : Mac, ip : {NoIp}]
                \cup [kind : {"dhcp_ack"}, mac : Mac, ip : Ip \cup {NoIp}]
\* A name-service packet shows only its source address.
NameKind == {"mdns", "ssdp", "dns"}

NoPacket == [kind |-> "none", mac |-> NoMac, ip |-> NoIp]

Kind   == {"arp", "arp_announce", "arp_probe", "dhcp_request", "dhcp_ack", "none"}
            \cup NameKind
Packet == [kind : Kind, mac : Mac \cup {NoMac}, ip : Ip \cup {NoIp}]

\* A statement error aborts one transaction; a lost connection makes every
\* later call throw, since nothing reconnects; a crash kills the process.
FaultKind == {"statement", "connection", "crash"}

ASSUME TrackerAssumption ==
    /\ NoMac \notin Mac
    /\ NoIp \notin Ip
    /\ Absent \notin Mac \cup {NoMac}
    /\ Absent \notin Entry
    /\ Absent \notin Row
    /\ FlushLimit \in Nat \ {0}
    /\ Faults \subseteq FaultKind

VARIABLES
    pc,             \* the next database call of the running handler
    pkt,            \* the packet it handles; for a name packet, mac is the
                    \* local the source address resolved to
    isNew,          \* its local is_new
    cache,          \* cache_
    ipToMac,        \* ip_to_mac_
    pending,        \* pending_events_
    assets,         \* table assets
    events,         \* table events: the devices whose new_asset is stored
    alerts,         \* table alerts: the devices whose new_device is stored
    conn,           \* the connection of the process
    newCount,       \* history: how often new_asset was logged for a device
    probed,         \* history: devices a probe put into the cache
    failed          \* history: devices whose handler a call or a crash cut short,
                    \* or a rule that failed about them

handler  == <<pc, pkt, isNew>>
memory   == <<cache, ipToMac, pending>>
database == <<assets, events, alerts, conn>>
announced == <<newCount, probed>>
history  == <<announced, failed>>
vars     == <<handler, memory, database, history>>

HandlerStep == {"find", "insert", "publish", "touch", "via", "changeIp",
                "logIp", "enrich", "announce", "rules", "tail", "findIp",
                "refind"}

TypeOK ==
    /\ pc \in HandlerStep \cup {"down", "idle"}
    /\ pkt \in Packet
    /\ isNew \in BOOLEAN
    /\ cache \in [Mac -> Entry \cup {Absent}]
    /\ ipToMac \in [Ip -> Mac \cup {NoMac, Absent}]
    /\ pending \in Seq(Event) /\ Len(pending) < FlushLimit
    /\ assets \in [Mac -> Row \cup {Absent}]
    /\ events \subseteq Mac
    /\ alerts \subseteq Mac
    /\ conn \in {"ok", "lost"}
    /\ newCount \in [Mac -> Nat]
    /\ probed \subseteq Mac /\ failed \subseteq Mac

Init ==
    /\ pc = "down" /\ pkt = NoPacket /\ isNew = FALSE
    /\ cache = [m \in Mac |-> Absent]
    /\ ipToMac = [i \in Ip |-> Absent]
    /\ pending = <<>>
    /\ assets = [m \in Mac |-> Absent]
    /\ events = {} /\ alerts = {} /\ conn = "ok"
    /\ newCount = [m \in Mac |-> 0] /\ probed = {} /\ failed = {}
-----------------------------------------------------------------------------
(* One database call: it works, or it throws.                              *)

DbWorks == conn = "ok" /\ UNCHANGED conn

DbThrows ==
    \/ conn = "lost" /\ UNCHANGED conn
    \/ conn = "ok" /\ "statement" \in Faults /\ UNCHANGED conn
    \/ conn = "ok" /\ "connection" \in Faults /\ conn' = "lost"

\* When the connection breaks during commit, the write may have taken effect.
InDoubt == conn = "ok" /\ conn' = "lost"

\* A write that throws leaves the table alone, or is in doubt.
WriteThrows(table) ==
    /\ DbThrows
    /\ assets' = assets \/ (InDoubt /\ assets' = table)

Return == pc' = "idle" /\ pkt' = NoPacket /\ isNew' = FALSE

\* The device the handler is about is noted: what was begun for it is not done.
CutShort == failed' = failed \cup ({pkt.mac} \cap Mac)

\* A call threw.
Throw == Return /\ CutShort

\* The handler goes on at step s.
GoTo(s) == pc' = s /\ UNCHANGED <<pkt, isNew>>

\* The call before step s worked.
Proceed(s) == GoTo(s) /\ UNCHANGED failed

PacketProto == IF pkt.kind \in {"dhcp_request", "dhcp_ack"} THEN "dhcp" ELSE "arp"

\* The ip argument of upsert_asset: process_dhcp passes none.
UpsertIp(p) == IF p.kind \in {"arp", "arp_announce"} THEN p.ip ELSE NoIp

\* The table after an INSERT, and after an UPDATE ... WHERE id: no row has id 0.
Inserted == [assets EXCEPT ![pkt.mac] = [ip |-> UpsertIp(pkt), via |-> {}]]
\* Defect: the update stores the new protocol instead of the union.
WithViaReplaced(id, p) ==
    IF id = NoMac THEN assets ELSE [assets EXCEPT ![id].via = {p}]

WithVia(id, p) ==
    IF id = NoMac THEN assets ELSE [assets EXCEPT ![id].via = @ \cup {p}]
WithIp(id, i) ==
    IF id = NoMac THEN assets ELSE [assets EXCEPT ![id].ip = i]

-----------------------------------------------------------------------------
(* The event buffer.                                                       *)

\* Defect: the batch is streamed but never committed.
StoreBatchUncommitted(batch) == events

StoreBatch(batch) ==
    IF \A k \in DOMAIN batch : batch[k].id # NoMac
      THEN events \cup {batch[k].id : k \in {j \in DOMAIN batch : batch[j].type = "new_asset"}}
      ELSE events     \* the foreign key of one event fails the whole batch

\* insert_events_batch swallows its exception; the buffer is cleared anyway.
WriteBatch(batch) ==
    /\ pending' = <<>>
    /\ \/ DbWorks /\ events' = StoreBatch(batch)
       \/ DbThrows /\ UNCHANGED events
       \/ DbThrows /\ InDoubt /\ events' = StoreBatch(batch)

\* Defect: nothing flushes a full buffer.
LogEventUnbounded(type) ==
    /\ pending' = Append(pending, [id |-> cache[pkt.mac].id, type |-> type])
    /\ UNCHANGED <<events, conn>>

LogEvent(type) ==
    LET batch == Append(pending, [id |-> cache[pkt.mac].id, type |-> type])
    IN  IF Len(batch) >= FlushLimit
          THEN WriteBatch(batch)
          ELSE pending' = batch /\ UNCHANGED <<events, conn>>

Flush ==
    /\ pc = "idle" /\ pending # <<>>
    /\ WriteBatch(pending)
    /\ UNCHANGED <<handler, cache, ipToMac, assets, alerts, history>>
-----------------------------------------------------------------------------
(* upsert_asset.                                                           *)

\* Both are read before upsert_asset fills the cache.
FirstSeen(m) == cache[m] = Absent
Cached(m)    == cache[m] # Absent

\* The IP index is set before any database call.
BeginUpsert(p) ==
    /\ pc = "idle"
    /\ pkt' = p
    /\ isNew' = FirstSeen(p.mac)
    /\ ipToMac' = IF UpsertIp(p) = NoIp THEN ipToMac
                  ELSE [ipToMac EXCEPT ![UpsertIp(p)] = p.mac]
    /\ pc' = IF Cached(p.mac) THEN "touch" ELSE "find"
    /\ UNCHANGED <<cache, pending, database, history>>

ProcessArp  == \E p \in ArpPacket : BeginUpsert(p)
ProcessDhcp == \E p \in DhcpPacket : BeginUpsert(p)

\* Where a handler goes when upsert_asset returned.
AfterUpsert ==
    IF pkt.kind = "arp_probe" THEN "tail"
    ELSE IF PacketProto = "dhcp" \/ isNew THEN "enrich"
    ELSE IF cache[pkt.mac].ip # pkt.ip THEN "changeIp" ELSE "tail"

AfterTouch ==
    IF ~Cached(pkt.mac) THEN "publish"
    ELSE IF pkt.kind = "dns" THEN "tail"
    ELSE IF pkt.kind \in NameKind THEN "enrich"
    ELSE IF PacketProto \notin cache[pkt.mac].via THEN "via"
    ELSE AfterUpsert

FindByMac ==
    /\ pc = "find"
    /\ \/ DbWorks /\ Proceed(IF assets[pkt.mac] = Absent THEN "insert" ELSE "touch")
       \/ DbThrows /\ Throw
    /\ UNCHANGED <<memory, assets, events, alerts, announced>>

InsertAsset ==
    /\ pc = "insert"
    /\ \/ DbWorks /\ assets' = Inserted /\ Proceed("publish")
       \/ WriteThrows(Inserted) /\ Throw
    /\ UNCHANGED <<memory, events, alerts, announced>>

\* update_asset_last_seen, or nothing when the throttle holds it back.
Touch ==
    /\ pc = "touch"
    /\ \/ Proceed(AfterTouch) /\ UNCHANGED conn
       \/ DbThrows /\ Throw
    /\ UNCHANGED <<memory, assets, events, alerts, announced>>

\* Defect: the id column is missing from the SELECT or RETURNING list.
EntryWithoutId(m, via) == [id |-> NoMac, ip |-> assets[m].ip, via |-> via]

\* The entry the cache receives for a row that was just inserted or found.
\* discovered_via is not read back from the table.
EntryOf(m, via) == [id |-> m, ip |-> assets[m].ip, via |-> via]

\* The device was not cached: discovered_via is stored, then the cache filled.
Publish ==
    /\ pc = "publish"
    /\ LET table == WithVia(pkt.mac, PacketProto)
       IN  \/ /\ DbWorks
              /\ assets' = table
              /\ cache' = [cache EXCEPT ![pkt.mac] = EntryOf(pkt.mac, {PacketProto})]
              /\ probed' = IF pkt.kind = "arp_probe" THEN probed \cup {pkt.mac} ELSE probed
              /\ Proceed(AfterUpsert)
           \/ WriteThrows(table) /\ Throw /\ UNCHANGED <<cache, probed>>
    /\ UNCHANGED <<ipToMac, pending, events, alerts, newCount>>

\* The device was cached: the cache learns the protocol before the table.
AddVia ==
    /\ pc = "via"
    /\ cache' = [cache EXCEPT ![pkt.mac].via = @ \cup {PacketProto}]
    /\ LET table == WithVia(cache[pkt.mac].id, PacketProto)
       IN  \/ DbWorks /\ assets' = table /\ Proceed(AfterUpsert)
           \/ WriteThrows(table) /\ Throw
    /\ UNCHANGED <<ipToMac, pending, events, alerts, announced>>
-----------------------------------------------------------------------------
(* The rest of process_arp and process_dhcp.                               *)

\* Where a handler goes when new_asset was logged, or need not be.
AfterAnnounce ==
    IF pkt.kind = "dhcp_ack" /\ pkt.ip # NoIp THEN "changeIp" ELSE "tail"

\* update_asset_hostname and refresh_enrichment.
Enrich ==
    /\ pc = "enrich"
    /\ \/ Proceed(IF isNew THEN "announce" ELSE AfterAnnounce) /\ UNCHANGED conn
       \/ DbThrows /\ Throw
    /\ UNCHANGED <<memory, assets, events, alerts, announced>>

\* Defect: log_event returns when it flushed, before it calls on_event_.
AnnounceThenFlush ==
    /\ pc = "announce"
    /\ LogEvent("new_asset")
    /\ newCount' = [newCount EXCEPT ![pkt.mac] = @ + 1]
    /\ GoTo(IF pending' = <<>> THEN AfterAnnounce ELSE "rules")
    /\ UNCHANGED <<cache, ipToMac, assets, alerts, probed, failed>>

Announce ==
    /\ pc = "announce"
    /\ LogEvent("new_asset")
    /\ newCount' = [newCount EXCEPT ![pkt.mac] = @ + 1]
    /\ GoTo("rules")
    /\ UNCHANGED <<cache, ipToMac, assets, alerts, probed, failed>>

\* on_event_: rule new_device inserts its alert; the engine catches a failure.
\* The rules run after every event, but what the others add to table alerts is
\* not represented, and a connection they lose is lost at the next call.
RunRules ==
    /\ pc = "rules"
    /\ \/ DbWorks /\ alerts' = alerts \cup {pkt.mac} /\ UNCHANGED failed
       \/ DbThrows /\ UNCHANGED alerts /\ CutShort
       \/ DbThrows /\ InDoubt /\ alerts' = alerts \cup {pkt.mac} /\ CutShort
    /\ GoTo(AfterAnnounce)
    /\ UNCHANGED <<memory, assets, events, announced>>

\* Defect: the cached address is set before the call that may throw.
ChangeIpCacheFirst ==
    /\ pc = "changeIp"
    /\ cache' = [cache EXCEPT ![pkt.mac].ip = pkt.ip]
    /\ LET table == WithIp(cache[pkt.mac].id, pkt.ip)
       IN  \/ DbWorks /\ assets' = table /\ Proceed("logIp")
           \/ WriteThrows(table) /\ Throw
    /\ UNCHANGED <<ipToMac, pending, events, alerts, announced>>

\* update_asset_ip, then the cached address.
ChangeIp ==
    /\ pc = "changeIp"
    /\ LET table == WithIp(cache[pkt.mac].id, pkt.ip)
       IN  \/ /\ DbWorks
              /\ assets' = table
              /\ cache' = [cache EXCEPT ![pkt.mac].ip = pkt.ip]
              /\ Proceed("logIp")
           \/ WriteThrows(table) /\ Throw /\ UNCHANGED cache
    /\ UNCHANGED <<ipToMac, pending, events, alerts, announced>>

\* process_arp logs ip_change; process_dhcp logs dhcp_ack.
IpEventType(kind) == IF kind = "dhcp_ack" THEN "other" ELSE "ip_change"

LogIp ==
    /\ pc = "logIp"
    /\ LogEvent(IpEventType(pkt.kind))
    /\ GoTo("tail")
    /\ UNCHANGED <<cache, ipToMac, assets, alerts, history>>

\* The last event of a handler, if it logs one; all but arp_probe are
\* debounced, so any of them may be skipped.
LogLast ==
    /\ pc = "tail"
    /\ \/ pkt.kind # "arp_probe" /\ UNCHANGED <<pending, events, conn>>
       \/ pkt.kind \notin {"arp", "dhcp_ack"} /\ LogEvent("other")
    /\ Return
    /\ UNCHANGED <<cache, ipToMac, assets, alerts, history>>
-----------------------------------------------------------------------------
(* process_mdns, process_ssdp and process_dns.                             *)

DefaultEntry == [id |-> NoMac, ip |-> NoIp, via |-> {}]

\* Asset& asset = cache_[mac]: the entry is created if it is not there.
OpenEntry(m) ==
    /\ cache' = IF Cached(m) THEN cache ELSE [cache EXCEPT ![m] = DefaultEntry]
    /\ pc' = IF cache'[m].id = NoMac THEN "refind" ELSE "touch"

\* The source address is looked up in the IP index; the empty string is a
\* remembered miss, on which the handler returns at once.
Resolve(kind, i) ==
    /\ pc = "idle" /\ ipToMac[i] # NoMac
    /\ isNew' = FALSE
    /\ IF ipToMac[i] = Absent
         THEN pkt' = [kind |-> kind, mac |-> NoMac, ip |-> i]
              /\ pc' = "findIp" /\ UNCHANGED cache
         ELSE pkt' = [kind |-> kind, mac |-> ipToMac[i], ip |-> i]
              /\ OpenEntry(ipToMac[i])
    /\ UNCHANGED <<ipToMac, pending, database, history>>

ProcessMdns == \E i \in Ip : Resolve("mdns", i)
ProcessSsdp == \E i \in Ip : Resolve("ssdp", i)
ProcessDns  == \E i \in Ip : Resolve("dns", i)

Owners(i) == {m \in Mac : assets[m] # Absent /\ assets[m].ip = i}

\* find_asset_by_ip takes the first row of an unordered result.
FindByIp ==
    /\ pc = "findIp"
    /\ \/ /\ DbWorks /\ Owners(pkt.ip) = {}
          /\ ipToMac' = [ipToMac EXCEPT ![pkt.ip] = NoMac]
          /\ Return /\ UNCHANGED <<cache, failed>>
       \/ \E m \in Owners(pkt.ip) :
             /\ DbWorks
             /\ ipToMac' = [ipToMac EXCEPT ![pkt.ip] = m]
             /\ pkt' = [pkt EXCEPT !.mac = m] /\ UNCHANGED <<isNew, failed>>
             /\ OpenEntry(m)
       \/ DbThrows /\ Throw /\ UNCHANGED <<cache, ipToMac>>
    /\ UNCHANGED <<pending, assets, events, alerts, announced>>

\* Defect: the asset gets the id it looked for, found or not.
RefindUnchecked ==
    /\ pc = "refind"
    /\ \/ /\ DbWorks
          /\ cache' = [cache EXCEPT ![pkt.mac].id = pkt.mac]
          /\ Proceed("touch")
       \/ DbThrows /\ Throw /\ UNCHANGED cache
    /\ UNCHANGED <<ipToMac, pending, assets, events, alerts, announced>>

\* The entry was just created, or an earlier handler left it unsaved.
RefindByMac ==
    /\ pc = "refind"
    /\ \/ /\ DbWorks /\ assets[pkt.mac] # Absent
          /\ cache' = [cache EXCEPT ![pkt.mac] = EntryOf(pkt.mac, {})]
          /\ Proceed("touch")
       \/ DbWorks /\ assets[pkt.mac] = Absent /\ Return /\ UNCHANGED <<cache, failed>>
       \/ DbThrows /\ Throw /\ UNCHANGED cache
    /\ UNCHANGED <<ipToMac, pending, assets, events, alerts, announced>>
-----------------------------------------------------------------------------
(* The life of the process.                                                *)

\* Defect: the tracker starts with an empty cache.
LoadedNothing(m) == Absent

\* The constructor loads every row. Two rows may hold one address: whichever
\* is read last owns it.
Loaded(m) == IF assets[m] = Absent THEN Absent ELSE EntryOf(m, {})

Start ==
    /\ pc = "down"
    /\ Return
    /\ cache' = [m \in Mac |-> Loaded(m)]
    /\ ipToMac' \in {f \in [Ip -> Mac \cup {Absent}] :
                      \A i \in Ip : IF Owners(i) = {} THEN f[i] = Absent
                                                     ELSE f[i] \in Owners(i)}
    /\ UNCHANGED <<pending, database, history>>

\* The process forgets what it holds; the next one opens a new connection.
Exit ==
    /\ pc' = "down" /\ pkt' = NoPacket /\ isNew' = FALSE
    /\ cache' = [m \in Mac |-> Absent]
    /\ ipToMac' = [i \in Ip |-> Absent]
    /\ pending' = <<>>
    /\ conn' = "ok"
    /\ UNCHANGED <<assets, events, alerts, announced>>

\* main returns after a pass, and every pass ends with a flush.
Stop  == pc = "idle" /\ pending = <<>> /\ Exit /\ UNCHANGED failed

Crash == "crash" \in Faults /\ pc # "down" /\ Exit /\ CutShort

Arrival  == ProcessArp \/ ProcessDhcp \/ ProcessMdns \/ ProcessSsdp \/ ProcessDns

Continue ==
    \/ FindByMac \/ InsertAsset \/ Touch \/ Publish \/ AddVia \/ Enrich
    \/ Announce \/ RunRules \/ ChangeIp \/ LogIp \/ LogLast
    \/ FindByIp \/ RefindByMac

Next == Arrival \/ Continue \/ Flush \/ Start \/ Stop \/ Crash

Spec == Init /\ [][Next]_vars

\* A handler runs to its end. A capture file is finite and every pass over it
\* ends with a flush, however many packets come before: the flush is reached
\* again and again, so it cannot be put off for ever.
FairSpec == Spec /\ WF_vars(Continue) /\ SF_vars(Flush)
-----------------------------------------------------------------------------
(* Properties.                                                             *)

Recorded == {m \in Mac : assets[m] # Absent}

\* A cached asset with a row id is the asset of a row: what the handlers
\* write under that id is never lost on a missing row (asset_tracker.cpp:
\* cache_ is filled from RETURNING, from a SELECT, or with id 0).
SavedHasRow ==
    \A m \in Mac : cache[m] # Absent /\ cache[m].id # NoMac => assets[m] # Absent

\* While the connection holds, the address the cache shows for a device is
\* the one in its row, whichever statement failed: rules and events are
\* computed from the cache, the REST API answers from the table.
IpCoherent ==
    conn = "ok" =>
        \A m \in Mac : cache[m] # Absent /\ cache[m].id # NoMac
                          => cache[m].ip = assets[m].ip

\* Whatever fails: a buffered event names an asset that has its row, or none at all
\* (id 0, "not saved"), for which the database refuses the batch with the events of
\* other devices.  The latter takes a handler that was cut short, for the very device
\* whose entry is not saved, and is never a new_asset (events.asset_id NOT NULL
\* REFERENCES assets; cache_[mac] in the name-service handlers).
NoOrphanEvents ==
    /\ \A k \in DOMAIN pending :
          \/ pending[k].id \in Recorded
          \/ pending[k].id = NoMac /\ pending[k].type # "new_asset" /\ failed # {}
    /\ \A m \in Mac \ failed : cache[m] # Absent => cache[m].id = m

\* The protocols the cache holds for a device are stored between two packets, so a
\* restart or the API cannot disagree with them, unless a handler of that device
\* was cut short: no failure about another one makes them differ.
ViaStored ==
    pc = "idle" =>
        \A m \in Mac \ failed : cache[m] # Absent
            => assets[m] # Absent /\ cache[m].via \subseteq assets[m].via

\* A device that first appeared in anything but a probe has been announced once, and
\* alerted on, when its first packet was handled, unless a handler of that device was
\* cut short: is_new must be read before upsert_asset fills the cache, and restarts,
\* lost batches and failures about other devices must not matter.
FirstContactAnnounced ==
    pc = "idle" => \A m \in Recorded \ (probed \cup failed) : newCount[m] = 1 /\ m \in alerts

\* A device that first appeared in anything but a probe eventually has its
\* new_asset event in the table: buffered events are not kept for ever.
EventuallyStored ==
    \A m \in Mac : m \in Recorded /\ m \notin probed ~> m \in events \cup probed

\* The tracker, with its cache, buffer, failures and restarts, implements the
\* registry: rows are never lost, a device is announced at most once in its
\* life and only after it was stored, and no event or alert is stored for a
\* device that was not announced.
Registry == INSTANCE AssetRegistry
              WITH known <- Recorded, announcements <- newCount,
                   stored <- events, alerted <- alerts
ImplementsRegistry == Registry!Spec

\* The inductive invariant behind the theorems of AssetTracker_proofs: what the
\* running handler knows of its packet, what identifies an entry of the cache,
\* and what an announcement implies.
HandlerOK ==
    /\ pc \in HandlerStep \ {"findIp"} => pkt.mac \in Mac
    /\ pc \in {"find", "insert", "publish"} => cache[pkt.mac] = Absent
    /\ pc = "publish" => assets[pkt.mac] # Absent
    /\ pc = "touch" => cache[pkt.mac] # Absent \/ assets[pkt.mac] # Absent
    /\ pc \in {"via", "changeIp", "logIp", "enrich", "announce", "rules", "tail", "refind"}
         => cache[pkt.mac] # Absent
    /\ pc \in {"via", "findIp", "refind"} => ~isNew
    /\ pc = "touch" /\ isNew => cache[pkt.mac] = Absent
    /\ pc \in {"enrich", "announce"} /\ isNew => cache[pkt.mac].id = pkt.mac
    /\ pc = "announce" => isNew

EntryIds == \A m \in Mac : cache[m] # Absent => cache[m].id \in {NoMac, m}

AnnouncedOK ==
    /\ \A m \in Mac : newCount[m] > 0
                         => assets[m] # Absent /\ (pc # "down" => cache[m] # Absent)
    /\ pc \in {"find", "insert", "publish", "touch", "enrich", "announce"} /\ isNew
         => newCount[pkt.mac] = 0
    /\ pc = "rules" => newCount[pkt.mac] > 0
    /\ \A k \in DOMAIN pending :
         pending[k].type = "new_asset" => pending[k].id \in Mac /\ newCount[pending[k].id] > 0

IndInv ==
    TypeOK /\ HandlerOK /\ EntryIds /\ SavedHasRow /\ AnnouncedOK /\ IpCoherent

\* rule_new_device.hpp:7 and docs/design.md: the alert for a new device fires
\* exactly once in the life of an asset. It does not fire for a device whose first
\* packet is a probe, however often it is seen with an address: see the README.
ExactlyOneAlert ==
    pc = "idle" => \A m \in Recorded : assets[m].ip # NoIp => newCount[m] = 1

\* detection_engine.hpp:26: the rules run right after the event was written to
\* the database. They run when it was buffered: see the README.
RulesAfterWrite == pc = "rules" => pkt.mac \in events

\* README.md section on events: ip_change is logged when a device changes its
\* address, by ARP or by DHCP. A DHCP lease logs dhcp_ack: see the README.
IpMoved(m) ==
    /\ assets[m] # Absent /\ assets[m].ip # NoIp
    /\ assets'[m] # Absent /\ assets'[m].ip \notin {NoIp, assets[m].ip}
IpChangeNamed ==
    [][\A m \in Mac : IpMoved(m) => IpEventType(pkt.kind) = "ip_change"]_vars
=============================================================================
