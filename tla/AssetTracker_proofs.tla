------------------------- MODULE AssetTracker_proofs --------------------------
(***************************************************************************)
(* Proofs about the asset tracker, for any number of devices and           *)
(* addresses, any flush limit and any choice of failures: IndInv is an     *)
(* inductive invariant, and the tracker implements AssetRegistry.  UncutInv*)
(* is inductive beside it: of a device no handler of which was cut short,  *)
(* entry, row, index and announcement agree, whatever failed about others. *)
(***************************************************************************)
EXTENDS AssetTracker, TLAPS

USE DEF handler, memory, database, announced, history

(* What the writes to table assets preserve: which rows exist, and what they *)
(* do not mention.                                                           *)

\* Storing a protocol changes neither which devices have a row nor any address.
LEMMA WithViaFacts ==
    ASSUME assets \in [Mac -> Row \cup {Absent}],
           NEW id \in Mac \cup {NoMac}, id # NoMac => assets[id] # Absent,
           NEW p \in Proto
    PROVE  /\ WithVia(id, p) \in [Mac -> Row \cup {Absent}]
           /\ \A m \in Mac : WithVia(id, p)[m] # Absent <=> assets[m] # Absent
           /\ \A m \in Mac : assets[m] # Absent => WithVia(id, p)[m].ip = assets[m].ip
           /\ \A m \in Mac \ {id} : WithVia(id, p)[m] = assets[m]
<1> USE TrackerAssumption
<1>1. CASE id = NoMac
  BY <1>1 DEF WithVia
<1>2. CASE id \in Mac
  <2> DEFINE new == [assets[id] EXCEPT !.via = @ \cup {p}]
  <2>1. assets[id] \in Row
    BY <1>2
  <2>2. new \in Row /\ new.ip = assets[id].ip
    BY <2>1 DEF Row
  <2>3. WithVia(id, p) = [assets EXCEPT ![id] = new]
    BY <1>2 DEF WithVia
  <2>4. QED
    BY <1>2, <2>1, <2>2, <2>3
<1>3. QED
  BY <1>1, <1>2

\* Storing an address changes one row at most, and only its address.
LEMMA WithIpFacts ==
    ASSUME assets \in [Mac -> Row \cup {Absent}],
           NEW id \in Mac \cup {NoMac}, id # NoMac => assets[id] # Absent,
           NEW i \in Ip \cup {NoIp}
    PROVE  /\ WithIp(id, i) \in [Mac -> Row \cup {Absent}]
           /\ \A m \in Mac : WithIp(id, i)[m] # Absent <=> assets[m] # Absent
           /\ \A m \in Mac \ {id} : WithIp(id, i)[m] = assets[m]
           /\ id \in Mac => WithIp(id, i)[id].ip = i
<1> USE TrackerAssumption
<1>1. CASE id = NoMac
  BY <1>1 DEF WithIp
<1>2. CASE id \in Mac
  <2> DEFINE new == [assets[id] EXCEPT !.ip = i]
  <2>1. assets[id] \in Row
    BY <1>2
  <2>2. new \in Row /\ new.ip = i
    BY <2>1 DEF Row
  <2>3. WithIp(id, i) = [assets EXCEPT ![id] = new]
    BY <1>2 DEF WithIp
  <2>4. QED
    BY <1>2, <2>1, <2>2, <2>3
<1>3. QED
  BY <1>1, <1>2

(* The event buffer: it stays below the limit, and what a batch stores about *)
(* new devices are ids of its new_asset events.                              *)

Reported(batch) ==
    {batch[k].id : k \in {j \in DOMAIN batch : batch[j].type = "new_asset"}}

\* Writing a batch empties the buffer; the table gains only devices the batch
\* announces.
LEMMA WriteBatchFacts ==
    ASSUME NEW batch, WriteBatch(batch), conn \in {"ok", "lost"}
    PROVE  /\ pending' = <<>>
           /\ events \subseteq events' /\ events' \subseteq events \cup Reported(batch)
           /\ events' # events => \A k \in DOMAIN batch : batch[k].id # NoMac
           /\ conn' \in {"ok", "lost"} /\ (conn' = "ok" => conn = "ok")
BY DEF WriteBatch, StoreBatch, Reported, DbWorks, DbThrows, InDoubt

\* Logging keeps the buffer below its limit and stores only what it held.
LEMMA LogEventFacts ==
    ASSUME NEW type \in {"new_asset", "ip_change", "other"}, LogEvent(type),
           pending \in Seq(Event), Len(pending) < FlushLimit,
           cache[pkt.mac].id \in Mac \cup {NoMac}, conn \in {"ok", "lost"}
    PROVE  LET batch == Append(pending, [id |-> cache[pkt.mac].id, type |-> type])
           IN  /\ pending' \in {<<>>, batch}
               /\ pending' \in Seq(Event) /\ Len(pending') < FlushLimit
               /\ events \subseteq events' /\ events' \subseteq events \cup Reported(batch)
               /\ events' # events => \A k \in DOMAIN batch : batch[k].id # NoMac
               /\ conn' \in {"ok", "lost"} /\ (conn' = "ok" => conn = "ok")
<1> DEFINE batch == Append(pending, [id |-> cache[pkt.mac].id, type |-> type])
<1>1. batch \in Seq(Event)
  BY DEF Event
<1>2. CASE Len(batch) >= FlushLimit
  <2>1. WriteBatch(batch)
    BY <1>2 DEF LogEvent
  <2> HIDE DEF batch
  <2>2. pending' = <<>> /\ Len(pending') < FlushLimit
    BY <2>1, TrackerAssumption, WriteBatchFacts
  <2>3. /\ events \subseteq events' /\ events' \subseteq events \cup Reported(batch)
        /\ events' # events => \A k \in DOMAIN batch : batch[k].id # NoMac
        /\ conn' \in {"ok", "lost"} /\ (conn' = "ok" => conn = "ok")
    BY <2>1, WriteBatchFacts
  <2>4. pending' \in {<<>>, batch} /\ pending' \in Seq(Event)
    BY <2>2
  <2>5. QED
    BY <2>2, <2>3, <2>4 DEF batch
<1>3. CASE ~(Len(batch) >= FlushLimit)
  <2>1. pending' = batch /\ UNCHANGED <<events, conn>>
    BY <1>3 DEF LogEvent
  <2>2. Len(batch) < FlushLimit
    BY <1>1, <1>3, TrackerAssumption
  <2>3. QED
    BY <1>1, <2>1, <2>2
<1>4. QED
  BY <1>2, <1>3

\* The packet of an idle tracker has the type of a packet.
LEMMA NoPacketType == NoPacket \in Packet
BY DEF NoPacket, Packet, Kind

\* The packets that reach the ARP and DHCP handlers have the type of a packet.
LEMMA PacketTypes ==
    \A p \in ArpPacket \cup DhcpPacket :
        p \in Packet /\ p.mac \in Mac /\ UpsertIp(p) \in Ip \cup {NoIp}
BY DEF ArpPacket, DhcpPacket, Packet, Kind, UpsertIp

(* The inductive invariant holds at first, and every action preserves it:    *)
(* one lemma per action, with one step per conjunct.                         *)

\* The invariant holds before the first start.
LEMMA InitInv == Init => IndInv
<1> SUFFICES ASSUME Init PROVE IndInv
  OBVIOUS
<1> USE TrackerAssumption DEF Init
<1>1. TypeOK
  <2>1. pending \in Seq(Event) /\ Len(pending) < FlushLimit
    OBVIOUS
  <2>2. cache \in [Mac -> Entry \cup {Absent}] /\ assets \in [Mac -> Row \cup {Absent}]
    OBVIOUS
  <2>3. ipToMac \in [Ip -> Mac \cup {NoMac, Absent}] /\ newCount \in [Mac -> Nat]
    OBVIOUS
  <2>4. QED
    BY <2>1, <2>2, <2>3, NoPacketType DEF TypeOK
<1>2. HandlerOK
  BY DEF HandlerOK, HandlerStep
<1>3. EntryIds /\ SavedHasRow /\ IpCoherent
  BY DEF EntryIds, SavedHasRow, IpCoherent
<1>4. AnnouncedOK
  BY DEF AnnouncedOK
<1>5. QED
  BY <1>1, <1>2, <1>3, <1>4 DEF IndInv

\* process_arp, process_dhcp: an idle tracker takes a packet.
LEMMA UpsertStep ==
    ASSUME IndInv, NEW p \in ArpPacket \cup DhcpPacket, BeginUpsert(p)
    PROVE  IndInv'
<1> USE TrackerAssumption DEF BeginUpsert, FirstSeen, Cached, IndInv
<1>0. p \in Packet /\ p.mac \in Mac /\ UpsertIp(p) \in Ip \cup {NoIp}
  BY PacketTypes
<1>1. TypeOK'
  BY <1>0 DEF TypeOK, HandlerStep
<1>2. HandlerOK'
  BY <1>0 DEF HandlerOK, HandlerStep
<1>3. EntryIds' /\ SavedHasRow' /\ IpCoherent'
  BY DEF EntryIds, SavedHasRow, IpCoherent
<1>4. AnnouncedOK'
  <2>1. cache[p.mac] = Absent => newCount[p.mac] = 0
    BY <1>0 DEF AnnouncedOK, TypeOK
  <2>2. isNew' => newCount[p.mac] = 0
    BY <2>1
  <2>3. QED
    BY <2>2 DEF AnnouncedOK
<1>5. QED
  BY <1>1, <1>2, <1>3, <1>4

\* find_asset_by_mac: a device that is not cached is looked up.
LEMMA FindStep == IndInv /\ FindByMac => IndInv'
<1> SUFFICES ASSUME IndInv, FindByMac PROVE IndInv'
  OBVIOUS
<1> USE TrackerAssumption DEF FindByMac, DbWorks, DbThrows, GoTo, Return, Throw, Proceed, CutShort, IndInv
<1>1. TypeOK'
  BY NoPacketType DEF TypeOK, HandlerStep
<1>2. HandlerOK'
  BY DEF HandlerOK, HandlerStep, NoPacket
<1>3. EntryIds' /\ SavedHasRow' /\ IpCoherent'
  BY DEF EntryIds, SavedHasRow, IpCoherent
<1>4. AnnouncedOK'
  BY DEF AnnouncedOK
<1>5. QED
  BY <1>1, <1>2, <1>3, <1>4

\* insert_asset: the row appears, whether or not the commit is reported.
LEMMA InsertStep == IndInv /\ InsertAsset => IndInv'
<1> SUFFICES ASSUME IndInv, InsertAsset PROVE IndInv'
  OBVIOUS
<1> USE TrackerAssumption DEF InsertAsset, DbWorks, DbThrows, GoTo, Return, Throw, Proceed, CutShort, WriteThrows, InDoubt, IndInv
<1>0. /\ pkt.mac \in Mac
      /\ Inserted \in [Mac -> Row \cup {Absent}]
      /\ Inserted[pkt.mac] # Absent
      /\ \A m \in Mac \ {pkt.mac} : Inserted[m] = assets[m]
  BY DEF HandlerOK, HandlerStep, TypeOK, Inserted, UpsertIp, Packet, Row
<1>1. TypeOK'
  BY NoPacketType, <1>0 DEF TypeOK, HandlerStep
<1>2. HandlerOK'
  BY <1>0 DEF HandlerOK, HandlerStep, NoPacket
<1>3. EntryIds' /\ SavedHasRow' /\ IpCoherent'
  BY <1>0 DEF EntryIds, SavedHasRow, IpCoherent, HandlerOK, HandlerStep
<1>4. AnnouncedOK'
  BY <1>0 DEF AnnouncedOK, HandlerOK
<1>5. QED
  BY <1>1, <1>2, <1>3, <1>4

\* update_asset_last_seen changes nothing the invariant speaks of.
LEMMA TouchStep == IndInv /\ Touch => IndInv'
<1> SUFFICES ASSUME IndInv, Touch PROVE IndInv'
  OBVIOUS
<1> USE TrackerAssumption DEF Touch, DbThrows, GoTo, Return, Throw, Proceed, CutShort, AfterTouch, AfterUpsert, Cached, NameKind, PacketProto, IndInv
<1>1. TypeOK'
  BY NoPacketType DEF TypeOK, HandlerStep
<1>2. HandlerOK'
  BY DEF HandlerOK, HandlerStep, NoPacket, TypeOK
<1>3. EntryIds' /\ SavedHasRow' /\ IpCoherent'
  BY DEF EntryIds, SavedHasRow, IpCoherent
<1>4. AnnouncedOK'
  BY DEF AnnouncedOK
<1>5. QED
  BY <1>1, <1>2, <1>3, <1>4

\* refresh_enrichment changes nothing the invariant speaks of.
LEMMA EnrichStep == IndInv /\ Enrich => IndInv'
<1> SUFFICES ASSUME IndInv, Enrich PROVE IndInv'
  OBVIOUS
<1> USE TrackerAssumption DEF Enrich, DbThrows, GoTo, Return, Throw, Proceed, CutShort, AfterAnnounce, IndInv
<1>1. TypeOK'
  BY NoPacketType DEF TypeOK, HandlerStep
<1>2. HandlerOK'
  BY DEF HandlerOK, HandlerStep, NoPacket
<1>3. EntryIds' /\ SavedHasRow' /\ IpCoherent'
  BY DEF EntryIds, SavedHasRow, IpCoherent
<1>4. AnnouncedOK'
  BY DEF AnnouncedOK
<1>5. QED
  BY <1>1, <1>2, <1>3, <1>4

\* The cache is filled with the asset of the row.
LEMMA PublishStep == IndInv /\ Publish => IndInv'
<1> SUFFICES ASSUME IndInv, Publish PROVE IndInv'
  OBVIOUS
<1> USE TrackerAssumption DEF IndInv
<1> DEFINE table == WithVia(pkt.mac, PacketProto)
           new == EntryOf(pkt.mac, {PacketProto})
           Works  == /\ UNCHANGED <<ipToMac, pending, events, alerts, newCount, failed>>
                     /\ probed' \in {probed, probed \cup {pkt.mac}}
                     /\ conn' = conn /\ assets' = table
                     /\ cache' = [cache EXCEPT ![pkt.mac] = new]
                     /\ pc' \in {"tail", "enrich", "changeIp"} /\ UNCHANGED <<pkt, isNew>>
           Throws == /\ UNCHANGED <<ipToMac, pending, events, alerts, newCount, probed>>
                     /\ UNCHANGED cache
                     /\ pc' = "idle" /\ pkt' = NoPacket /\ isNew' = FALSE
                     /\ failed' \subseteq Mac
                     /\ assets' = assets \/ (assets' = table /\ conn' = "lost")
                     /\ conn' \in {"ok", "lost"} /\ (conn' = "ok" => conn = "ok")
<1>1. pkt.mac \in Mac /\ PacketProto \in Proto /\ pc = "publish"
  BY DEF HandlerOK, HandlerStep, PacketProto, Proto, Publish
<1>2. /\ table \in [Mac -> Row \cup {Absent}]
      /\ \A m \in Mac : table[m] # Absent <=> assets[m] # Absent
      /\ \A m \in Mac : assets[m] # Absent => table[m].ip = assets[m].ip
      /\ new \in Entry /\ new.id = pkt.mac /\ new.ip = assets[pkt.mac].ip
  <2>1. assets[pkt.mac] \in Row
    BY <1>1 DEF TypeOK, HandlerOK
  <2>2. QED
    BY <1>1, <2>1, WithViaFacts DEF TypeOK, HandlerOK, Row, Entry, EntryOf
<1>3. Works \/ Throws
  BY <1>1 DEF Publish, DbWorks, DbThrows, GoTo, Return, Throw, Proceed, CutShort, WriteThrows, InDoubt, AfterUpsert, TypeOK
<1> HIDE DEF table, new
<1>4. CASE Works
  <2>1. TypeOK'
    BY <1>1, <1>2, <1>4 DEF TypeOK, HandlerStep
  <2>2. HandlerOK'
    BY <1>1, <1>2, <1>4 DEF HandlerOK, HandlerStep, TypeOK
  <2>3. EntryIds' /\ SavedHasRow' /\ IpCoherent'
    BY <1>1, <1>2, <1>4 DEF EntryIds, SavedHasRow, IpCoherent, TypeOK, HandlerOK
  <2>4. AnnouncedOK'
    BY <1>1, <1>2, <1>4 DEF AnnouncedOK, HandlerOK
  <2>5. QED
    BY <2>1, <2>2, <2>3, <2>4
<1>5. CASE Throws
  <2>1. TypeOK'
    BY <1>1, <1>2, <1>5, NoPacketType DEF TypeOK, HandlerStep
  <2>2. HandlerOK'
    BY <1>1, <1>2, <1>5 DEF HandlerOK, HandlerStep, TypeOK
  <2>3. EntryIds' /\ SavedHasRow' /\ IpCoherent'
    BY <1>1, <1>2, <1>5 DEF EntryIds, SavedHasRow, IpCoherent, TypeOK
  <2>4. AnnouncedOK'
    BY <1>1, <1>2, <1>5 DEF AnnouncedOK, HandlerOK
  <2>5. QED
    BY <2>1, <2>2, <2>3, <2>4
<1>6. QED
  BY <1>3, <1>4, <1>5

\* A protocol is added to a cached asset, then to its row.
LEMMA AddViaStep == IndInv /\ AddVia => IndInv'
<1> SUFFICES ASSUME IndInv, AddVia PROVE IndInv'
  OBVIOUS
<1> USE TrackerAssumption DEF IndInv
<1> DEFINE id == cache[pkt.mac].id
           table == WithVia(id, PacketProto)
           new == [cache[pkt.mac] EXCEPT !.via = @ \cup {PacketProto}]
           Works  == /\ UNCHANGED <<ipToMac, pending, events, alerts, newCount, probed, failed>>
                     /\ conn' = conn /\ assets' = table
                     /\ cache' = [cache EXCEPT ![pkt.mac] = new]
                     /\ pc' \in {"tail", "enrich", "changeIp"} /\ UNCHANGED <<pkt, isNew>>
           Throws == /\ UNCHANGED <<ipToMac, pending, events, alerts, newCount, probed>>
                     /\ cache' = [cache EXCEPT ![pkt.mac] = new]
                     /\ pc' = "idle" /\ pkt' = NoPacket /\ isNew' = FALSE
                     /\ failed' \subseteq Mac
                     /\ assets' = assets \/ (assets' = table /\ conn' = "lost")
                     /\ conn' \in {"ok", "lost"} /\ (conn' = "ok" => conn = "ok")
<1>1. pkt.mac \in Mac /\ PacketProto \in Proto /\ pc = "via" /\ cache[pkt.mac] \in Entry
  BY DEF HandlerOK, HandlerStep, PacketProto, Proto, AddVia, TypeOK
<1>2. /\ table \in [Mac -> Row \cup {Absent}]
      /\ \A m \in Mac : table[m] # Absent <=> assets[m] # Absent
      /\ \A m \in Mac : assets[m] # Absent => table[m].ip = assets[m].ip
      /\ new \in Entry /\ new.id = id /\ new.ip = cache[pkt.mac].ip
  <2>1. id \in Mac \cup {NoMac} /\ (id # NoMac => assets[id] # Absent)
    BY <1>1 DEF HandlerOK, EntryIds, SavedHasRow
  <2>2. new \in Entry /\ new.id = id /\ new.ip = cache[pkt.mac].ip
    BY <1>1 DEF Entry
  <2>3. QED
    BY <1>1, <2>1, <2>2, WithViaFacts DEF TypeOK
<1>3. Works \/ Throws
  BY <1>1 DEF AddVia, DbWorks, DbThrows, GoTo, Return, Throw, Proceed, CutShort, WriteThrows, InDoubt, AfterUpsert, TypeOK
<1> HIDE DEF table, new
<1>4. CASE Works
  <2>1. TypeOK'
    BY <1>1, <1>2, <1>4 DEF TypeOK, HandlerStep
  <2>2. HandlerOK'
    BY <1>1, <1>2, <1>4 DEF HandlerOK, HandlerStep, TypeOK
  <2>3. EntryIds' /\ SavedHasRow' /\ IpCoherent'
    BY <1>1, <1>2, <1>4 DEF EntryIds, SavedHasRow, IpCoherent, TypeOK
  <2>4. AnnouncedOK'
    BY <1>1, <1>2, <1>4 DEF AnnouncedOK, HandlerOK
  <2>5. QED
    BY <2>1, <2>2, <2>3, <2>4
<1>5. CASE Throws
  <2>1. TypeOK'
    BY <1>1, <1>2, <1>5, NoPacketType DEF TypeOK, HandlerStep
  <2>2. HandlerOK'
    BY <1>1, <1>2, <1>5 DEF HandlerOK, HandlerStep, TypeOK
  <2>3. EntryIds' /\ SavedHasRow' /\ IpCoherent'
    BY <1>1, <1>2, <1>5 DEF EntryIds, SavedHasRow, IpCoherent, TypeOK
  <2>4. AnnouncedOK'
    BY <1>1, <1>2, <1>5 DEF AnnouncedOK, HandlerOK
  <2>5. QED
    BY <2>1, <2>2, <2>3, <2>4
<1>6. QED
  BY <1>3, <1>4, <1>5

\* The address of the row changes, then that of the cached asset.
LEMMA ChangeIpStep == IndInv /\ ChangeIp => IndInv'
<1> SUFFICES ASSUME IndInv, ChangeIp PROVE IndInv'
  OBVIOUS
<1> USE TrackerAssumption DEF IndInv
<1> DEFINE id == cache[pkt.mac].id
           table == WithIp(id, pkt.ip)
           new == [cache[pkt.mac] EXCEPT !.ip = pkt.ip]
           Works  == /\ UNCHANGED <<ipToMac, pending, events, alerts, newCount, probed, failed>>
                     /\ conn' = conn /\ assets' = table
                     /\ cache' = [cache EXCEPT ![pkt.mac] = new]
                     /\ pc' \in {"logIp"} /\ UNCHANGED <<pkt, isNew>>
           Throws == /\ UNCHANGED <<ipToMac, pending, events, alerts, newCount, probed>>
                     /\ UNCHANGED cache
                     /\ pc' = "idle" /\ pkt' = NoPacket /\ isNew' = FALSE
                     /\ failed' \subseteq Mac
                     /\ assets' = assets \/ (assets' = table /\ conn' = "lost")
                     /\ conn' \in {"ok", "lost"} /\ (conn' = "ok" => conn = "ok")
<1>1. /\ pkt.mac \in Mac /\ pkt.ip \in Ip \cup {NoIp} /\ cache[pkt.mac] \in Entry
      /\ id \in {NoMac, pkt.mac} /\ pc = "changeIp"
  BY DEF HandlerOK, HandlerStep, TypeOK, Packet, EntryIds, ChangeIp
<1>2. /\ table \in [Mac -> Row \cup {Absent}]
      /\ \A m \in Mac : table[m] # Absent <=> assets[m] # Absent
      /\ \A m \in Mac \ {id} : table[m] = assets[m]
      /\ id \in Mac => table[id].ip = pkt.ip
      /\ new \in Entry /\ new.id = id /\ new.ip = pkt.ip
  <2>1. new \in Entry /\ new.id = id /\ new.ip = pkt.ip
    BY <1>1 DEF Entry
  <2>2. QED
    BY <1>1, <2>1, WithIpFacts DEF TypeOK, HandlerOK, SavedHasRow
<1>3. Works \/ Throws
  BY <1>1 DEF ChangeIp, DbWorks, DbThrows, GoTo, Return, Throw, Proceed, CutShort, WriteThrows, InDoubt, TypeOK
<1> HIDE DEF table, new
<1>4. CASE Works
  <2>1. TypeOK'
    BY <1>1, <1>2, <1>4 DEF TypeOK, HandlerStep
  <2>2. HandlerOK'
    BY <1>1, <1>2, <1>4 DEF HandlerOK, HandlerStep, TypeOK
  <2>3. EntryIds' /\ SavedHasRow' /\ IpCoherent'
    BY <1>1, <1>2, <1>4 DEF EntryIds, SavedHasRow, IpCoherent, TypeOK
  <2>4. AnnouncedOK'
    BY <1>1, <1>2, <1>4 DEF AnnouncedOK, HandlerOK
  <2>5. QED
    BY <2>1, <2>2, <2>3, <2>4
<1>5. CASE Throws
  <2>1. TypeOK'
    BY <1>1, <1>2, <1>5, NoPacketType DEF TypeOK, HandlerStep
  <2>2. HandlerOK'
    BY <1>1, <1>2, <1>5 DEF HandlerOK, HandlerStep, TypeOK
  <2>3. EntryIds' /\ SavedHasRow' /\ IpCoherent'
    BY <1>1, <1>2, <1>5 DEF EntryIds, SavedHasRow, IpCoherent, TypeOK
  <2>4. AnnouncedOK'
    BY <1>1, <1>2, <1>5 DEF AnnouncedOK, HandlerOK
  <2>5. QED
    BY <2>1, <2>2, <2>3, <2>4
<1>6. QED
  BY <1>3, <1>4, <1>5

(* A step that logs an event: what becomes of the buffer and the table.      *)

\* What logging does to the invariant, for every handler that logs.
LEMMA LogStep ==
    ASSUME IndInv, NEW type \in {"new_asset", "ip_change", "other"}, LogEvent(type),
           pkt.mac \in Mac, cache[pkt.mac] # Absent,
           \A m \in Mac : newCount[m] > 0 => newCount'[m] > 0,
           type = "new_asset" => cache[pkt.mac].id = pkt.mac /\ newCount'[pkt.mac] > 0
    PROVE  /\ pending' \in Seq(Event) /\ Len(pending') < FlushLimit
           /\ conn' \in {"ok", "lost"} /\ (conn' = "ok" => conn = "ok")
           /\ events \subseteq events'
           /\ events' \subseteq events \cup {m \in Mac : newCount'[m] > 0}
           /\ \A k \in DOMAIN pending' : pending'[k].type = "new_asset"
                => pending'[k].id \in Mac /\ newCount'[pending'[k].id] > 0
<1> USE TrackerAssumption DEF IndInv
<1> DEFINE ev == [id |-> cache[pkt.mac].id, type |-> type]
           batch == Append(pending, ev)
<1>1. cache[pkt.mac].id \in Mac \cup {NoMac}
  BY DEF EntryIds
<1>2. /\ pending' \in {<<>>, batch}
      /\ pending' \in Seq(Event) /\ Len(pending') < FlushLimit
      /\ events \subseteq events' /\ events' \subseteq events \cup Reported(batch)
      /\ conn' \in {"ok", "lost"} /\ (conn' = "ok" => conn = "ok")
  BY <1>1, LogEventFacts DEF TypeOK
<1>3. \A k \in DOMAIN batch : batch[k].type = "new_asset"
        => batch[k].id \in Mac /\ newCount'[batch[k].id] > 0
  <2>1. pending \in Seq(Event)
    BY DEF TypeOK
  <2>2. \A k \in DOMAIN batch : (k \in DOMAIN pending /\ batch[k] = pending[k]) \/ batch[k] = ev
    BY <2>1
  <2>3. QED
    BY <2>2 DEF AnnouncedOK
<1> HIDE DEF batch
<1>4. Reported(batch) \subseteq {m \in Mac : newCount'[m] > 0}
  BY <1>3 DEF Reported
<1>5. QED
  BY <1>2, <1>3, <1>4

\* new_asset is logged for a device that was never announced.
LEMMA AnnounceStep == IndInv /\ Announce => IndInv'
<1> SUFFICES ASSUME IndInv, Announce PROVE IndInv'
  OBVIOUS
<1> USE TrackerAssumption DEF IndInv
<1>1. /\ pc = "announce" /\ isNew /\ pkt.mac \in Mac
      /\ cache[pkt.mac] # Absent /\ cache[pkt.mac].id = pkt.mac
      /\ newCount' = [newCount EXCEPT ![pkt.mac] = @ + 1]
      /\ pc' = "rules" /\ UNCHANGED <<pkt, isNew, cache, ipToMac, assets, alerts, probed, failed>>
  BY DEF Announce, GoTo, HandlerOK, HandlerStep
<1>2. /\ newCount' \in [Mac -> Nat] /\ newCount'[pkt.mac] > 0
      /\ \A m \in Mac : newCount[m] > 0 => newCount'[m] > 0
      /\ \A m \in Mac \ {pkt.mac} : newCount'[m] = newCount[m]
  BY <1>1 DEF TypeOK
<1>3. /\ pending' \in Seq(Event) /\ Len(pending') < FlushLimit
      /\ conn' \in {"ok", "lost"} /\ (conn' = "ok" => conn = "ok")
      /\ events \subseteq events'
      /\ events' \subseteq events \cup {m \in Mac : newCount'[m] > 0}
      /\ \A k \in DOMAIN pending' : pending'[k].type = "new_asset"
           => pending'[k].id \in Mac /\ newCount'[pending'[k].id] > 0
  BY <1>1, <1>2, LogStep DEF Announce
<1>4. TypeOK'
  BY <1>1, <1>2, <1>3 DEF TypeOK, HandlerStep
<1>5. HandlerOK'
  BY <1>1 DEF HandlerOK, HandlerStep
<1>6. EntryIds' /\ SavedHasRow' /\ IpCoherent'
  BY <1>1, <1>3 DEF EntryIds, SavedHasRow, IpCoherent
<1>7. AnnouncedOK'
  BY <1>1, <1>2, <1>3 DEF AnnouncedOK, SavedHasRow
<1>8. QED
  BY <1>4, <1>5, <1>6, <1>7

\* The rules touch the alerts only.
LEMMA RunRulesStep == IndInv /\ RunRules => IndInv'
<1> SUFFICES ASSUME IndInv, RunRules PROVE IndInv'
  OBVIOUS
<1> USE TrackerAssumption DEF RunRules, DbWorks, DbThrows, InDoubt, GoTo, CutShort, AfterAnnounce, IndInv
<1>1. TypeOK'
  BY DEF TypeOK, HandlerStep, HandlerOK
<1>2. HandlerOK'
  BY DEF HandlerOK, HandlerStep
<1>3. EntryIds' /\ SavedHasRow' /\ IpCoherent'
  BY DEF EntryIds, SavedHasRow, IpCoherent
<1>4. AnnouncedOK'
  BY DEF AnnouncedOK
<1>5. QED
  BY <1>1, <1>2, <1>3, <1>4

\* ip_change or dhcp_ack is logged.
LEMMA LogIpStep == IndInv /\ LogIp => IndInv'
<1> SUFFICES ASSUME IndInv, LogIp PROVE IndInv'
  OBVIOUS
<1> USE TrackerAssumption DEF IndInv
<1>1. /\ pc = "logIp" /\ pkt.mac \in Mac /\ cache[pkt.mac] # Absent
      /\ pc' = "tail" /\ UNCHANGED <<pkt, isNew, cache, ipToMac, assets, alerts, newCount, probed, failed>>
  BY DEF LogIp, GoTo, HandlerOK, HandlerStep
<1>2. /\ pending' \in Seq(Event) /\ Len(pending') < FlushLimit
      /\ conn' \in {"ok", "lost"} /\ (conn' = "ok" => conn = "ok")
      /\ events' \subseteq events \cup {m \in Mac : newCount'[m] > 0}
      /\ \A k \in DOMAIN pending' : pending'[k].type = "new_asset"
           => pending'[k].id \in Mac /\ newCount'[pending'[k].id] > 0
  <2>1. IpEventType(pkt.kind) \in {"other", "ip_change"}
    BY DEF IpEventType
  <2>2. QED
    BY <1>1, <2>1, LogStep DEF LogIp
<1>3. TypeOK'
  BY <1>1, <1>2 DEF TypeOK, HandlerStep
<1>4. HandlerOK'
  BY <1>1 DEF HandlerOK, HandlerStep
<1>5. EntryIds' /\ SavedHasRow' /\ IpCoherent'
  BY <1>1, <1>2 DEF EntryIds, SavedHasRow, IpCoherent
<1>6. AnnouncedOK'
  BY <1>1, <1>2 DEF AnnouncedOK
<1>7. QED
  BY <1>3, <1>4, <1>5, <1>6

\* The last event of a handler is logged, or held back by the debounce.
LEMMA LogLastStep == IndInv /\ LogLast => IndInv'
<1> SUFFICES ASSUME IndInv, LogLast PROVE IndInv'
  OBVIOUS
<1> USE TrackerAssumption DEF IndInv
<1>1. /\ pc = "tail" /\ pkt.mac \in Mac /\ cache[pkt.mac] # Absent
      /\ pc' = "idle" /\ pkt' = NoPacket /\ isNew' = FALSE
      /\ UNCHANGED <<cache, ipToMac, assets, alerts, newCount, probed, failed>>
  BY DEF LogLast, Return, HandlerOK, HandlerStep
<1>2. /\ pending' \in Seq(Event) /\ Len(pending') < FlushLimit
      /\ conn' \in {"ok", "lost"} /\ (conn' = "ok" => conn = "ok")
      /\ events' \subseteq events \cup {m \in Mac : newCount'[m] > 0}
      /\ \A k \in DOMAIN pending' : pending'[k].type = "new_asset"
           => pending'[k].id \in Mac /\ newCount'[pending'[k].id] > 0
  <2>1. CASE UNCHANGED <<pending, events, conn>>
    BY <1>1, <2>1 DEF TypeOK, AnnouncedOK
  <2>2. CASE LogEvent("other")
    BY <1>1, <2>2, LogStep
  <2>3. QED
    BY <2>1, <2>2 DEF LogLast
<1>3. TypeOK'
  BY <1>1, <1>2, NoPacketType DEF TypeOK, HandlerStep
<1>4. HandlerOK'
  BY <1>1 DEF HandlerOK, HandlerStep
<1>5. EntryIds' /\ SavedHasRow' /\ IpCoherent'
  BY <1>1, <1>2 DEF EntryIds, SavedHasRow, IpCoherent
<1>6. AnnouncedOK'
  BY <1>1, <1>2 DEF AnnouncedOK
<1>7. QED
  BY <1>3, <1>4, <1>5, <1>6

\* flush_events empties the buffer.
LEMMA FlushStep == IndInv /\ Flush => IndInv'
<1> SUFFICES ASSUME IndInv, Flush PROVE IndInv'
  OBVIOUS
<1> USE TrackerAssumption DEF IndInv
<1>1. /\ pending' = <<>>
      /\ conn' \in {"ok", "lost"} /\ (conn' = "ok" => conn = "ok")
      /\ events' \subseteq events \cup Reported(pending)
      /\ UNCHANGED <<pc, pkt, isNew, cache, ipToMac, assets, alerts, newCount, probed, failed>>
  BY WriteBatchFacts DEF Flush, TypeOK
<1>2. Reported(pending) \subseteq Mac
  BY DEF Reported, AnnouncedOK
<1>3. pending' \in Seq(Event) /\ Len(pending') < FlushLimit
  BY <1>1
<1>4. TypeOK'
  BY <1>1, <1>2, <1>3 DEF TypeOK
<1>5. HandlerOK'
  BY <1>1 DEF HandlerOK
<1>6. EntryIds' /\ SavedHasRow' /\ IpCoherent'
  BY <1>1 DEF EntryIds, SavedHasRow, IpCoherent
<1>7. AnnouncedOK'
  BY <1>1 DEF AnnouncedOK
<1>8. QED
  BY <1>4, <1>5, <1>6, <1>7

(* cache_[mac]: an entry that is created has no row id yet.                  *)

\* cache_[mac]: the entry is there afterwards, and new entries have no id.
LEMMA OpenEntryFacts ==
    ASSUME IndInv, NEW m \in Mac, OpenEntry(m)
    PROVE  /\ cache' \in [Mac -> Entry \cup {Absent}]
           /\ cache'[m] # Absent
           /\ \A n \in Mac : cache[n] # Absent => cache'[n] = cache[n]
           /\ \A n \in Mac : cache[n] = Absent => cache'[n] = Absent \/ cache'[n].id = NoMac
           /\ pc' \in {"refind", "touch"}
<1> USE TrackerAssumption
<1>1. DefaultEntry \in Entry /\ DefaultEntry.id = NoMac
  BY DEF DefaultEntry, Entry
<1>2. cache \in [Mac -> Entry \cup {Absent}]
  BY DEF IndInv, TypeOK
<1>3. CASE cache[m] = Absent
  BY <1>1, <1>2, <1>3 DEF OpenEntry, Cached
<1>4. CASE cache[m] # Absent
  BY <1>2, <1>4 DEF OpenEntry, Cached
<1>5. QED
  BY <1>3, <1>4

\* A handler that opened the entry of a device has touched nothing else.
LEMMA OpenedStep ==
    ASSUME IndInv, pc # "down", NEW m \in Mac, OpenEntry(m), pkt' \in Packet, pkt'.mac = m, ~isNew',
           isNew' \in BOOLEAN, ipToMac' \in [Ip -> Mac \cup {NoMac, Absent}],
           UNCHANGED <<pending, assets, events, alerts, conn, newCount, probed, failed>>
    PROVE  IndInv'
<1> USE TrackerAssumption DEF IndInv
<1>1. /\ cache' \in [Mac -> Entry \cup {Absent}]
      /\ cache'[m] # Absent
      /\ \A n \in Mac : cache[n] # Absent => cache'[n] = cache[n]
      /\ \A n \in Mac : cache[n] = Absent => cache'[n] = Absent \/ cache'[n].id = NoMac
      /\ pc' \in {"refind", "touch"}
  BY OpenEntryFacts
<1>2. TypeOK'
  BY <1>1 DEF TypeOK, HandlerStep
<1>3. HandlerOK'
  BY <1>1 DEF HandlerOK, HandlerStep
<1>4. EntryIds' /\ SavedHasRow' /\ IpCoherent'
  BY <1>1 DEF EntryIds, SavedHasRow, IpCoherent
<1>5. AnnouncedOK'
  <2>1. \A n \in Mac : newCount[n] > 0 => assets[n] # Absent
    BY DEF AnnouncedOK
  <2>2. pc # "down" => \A n \in Mac : newCount[n] > 0 => cache'[n] # Absent
    BY <1>1 DEF AnnouncedOK
  <2>3. QED
    BY <1>1, <2>1, <2>2 DEF AnnouncedOK
<1>6. QED
  BY <1>2, <1>3, <1>4, <1>5

\* process_mdns, process_ssdp, process_dns: the source address is looked up.
LEMMA ResolveStep ==
    ASSUME IndInv, NEW kind \in NameKind, NEW i \in Ip, Resolve(kind, i)
    PROVE  IndInv'
<1> USE TrackerAssumption DEF IndInv
<1>1. CASE ipToMac[i] = Absent
  <2>1. /\ pc = "idle" /\ pc' = "findIp" /\ ~isNew' /\ isNew' \in BOOLEAN
        /\ pkt' = [kind |-> kind, mac |-> NoMac, ip |-> i]
        /\ UNCHANGED <<cache, ipToMac, pending, assets, events, alerts, conn, newCount, probed, failed>>
    BY <1>1 DEF Resolve
  <2>2. pkt' \in Packet
    BY <2>1 DEF Packet, Kind, NameKind
  <2>3. TypeOK'
    BY <2>1, <2>2 DEF TypeOK, HandlerStep
  <2>4. HandlerOK'
    BY <2>1 DEF HandlerOK, HandlerStep
  <2>5. EntryIds' /\ SavedHasRow' /\ IpCoherent' /\ AnnouncedOK'
    BY <2>1 DEF EntryIds, SavedHasRow, IpCoherent, AnnouncedOK
  <2>6. QED
    BY <2>3, <2>4, <2>5
<1>2. CASE ipToMac[i] # Absent
  <2>1. ipToMac[i] \in Mac
    BY <1>2 DEF Resolve, TypeOK
  <2>2. /\ pc = "idle" /\ ~isNew' /\ isNew' \in BOOLEAN /\ OpenEntry(ipToMac[i])
        /\ pkt' = [kind |-> kind, mac |-> ipToMac[i], ip |-> i]
        /\ UNCHANGED <<ipToMac, pending, assets, events, alerts, conn, newCount, probed, failed>>
    BY <1>2 DEF Resolve
  <2>3. pkt' \in Packet /\ pkt'.mac = ipToMac[i]
    BY <2>1, <2>2 DEF Packet, Kind, NameKind
  <2>4. ipToMac' \in [Ip -> Mac \cup {NoMac, Absent}]
    BY <2>2 DEF TypeOK
  <2>5. QED
    BY <2>1, <2>2, <2>3, <2>4, OpenedStep
<1>3. QED
  BY <1>1, <1>2

\* find_asset_by_ip: the owner of the address is found, or a miss is remembered.
LEMMA FindByIpStep == IndInv /\ FindByIp => IndInv'
<1> SUFFICES ASSUME IndInv, FindByIp PROVE IndInv'
  OBVIOUS
<1> USE TrackerAssumption DEF IndInv
<1>1. pc = "findIp" /\ UNCHANGED <<pending, assets, events, alerts, newCount, probed>>
  BY DEF FindByIp
<1>2. ASSUME Return, UNCHANGED cache, failed' \subseteq Mac, ipToMac' \in [Ip -> Mac \cup {NoMac, Absent}],
             conn' \in {"ok", "lost"}, conn' = "ok" => conn = "ok"
      PROVE  IndInv'
  <2>1. TypeOK'
    BY <1>1, <1>2, NoPacketType DEF Return, TypeOK
  <2>2. HandlerOK'
    BY <1>2 DEF Return, HandlerOK, HandlerStep
  <2>3. EntryIds' /\ SavedHasRow' /\ IpCoherent' /\ AnnouncedOK'
    BY <1>1, <1>2 DEF Return, EntryIds, SavedHasRow, IpCoherent, AnnouncedOK
  <2>4. QED
    BY <2>1, <2>2, <2>3
<1>3. CASE DbWorks /\ Return /\ UNCHANGED <<cache, failed>>
           /\ ipToMac' = [ipToMac EXCEPT ![pkt.ip] = NoMac]
  BY <1>2, <1>3 DEF DbWorks, TypeOK
<1>4. CASE DbThrows /\ Throw /\ UNCHANGED <<cache, ipToMac>>
  BY <1>2, <1>4 DEF DbThrows, TypeOK, Throw, CutShort
<1>5. ASSUME NEW m \in Owners(pkt.ip), DbWorks, UNCHANGED <<isNew, failed>>, OpenEntry(m),
             ipToMac' = [ipToMac EXCEPT ![pkt.ip] = m], pkt' = [pkt EXCEPT !.mac = m]
      PROVE  IndInv'
  <2>1. m \in Mac /\ ~isNew' /\ isNew' \in BOOLEAN /\ UNCHANGED conn
    BY <1>1, <1>5 DEF Owners, HandlerOK, DbWorks, TypeOK
  <2>2. pkt' \in Packet /\ pkt'.mac = m /\ ipToMac' \in [Ip -> Mac \cup {NoMac, Absent}]
    BY <1>5, <2>1 DEF TypeOK, Packet
  <2>3. QED
    BY <1>1, <1>5, <2>1, <2>2, OpenedStep
<1>6. QED
  BY <1>3, <1>4, <1>5 DEF FindByIp

\* An entry without an id becomes the asset of its row, or stays.
LEMMA RefindStep == IndInv /\ RefindByMac => IndInv'
<1> SUFFICES ASSUME IndInv, RefindByMac PROVE IndInv'
  OBVIOUS
<1> USE TrackerAssumption DEF IndInv
<1>1. /\ pc = "refind" /\ pkt.mac \in Mac /\ cache[pkt.mac] # Absent /\ ~isNew
      /\ UNCHANGED <<ipToMac, pending, assets, events, alerts, newCount, probed>>
  BY DEF RefindByMac, HandlerOK, HandlerStep
<1>2. CASE DbWorks /\ assets[pkt.mac] # Absent /\ Proceed("touch")
           /\ cache' = [cache EXCEPT ![pkt.mac] = EntryOf(pkt.mac, {})]
  <2> DEFINE new == EntryOf(pkt.mac, {})
  <2>1. new \in Entry /\ new.id = pkt.mac /\ new.ip = assets[pkt.mac].ip
    BY <1>1, <1>2 DEF EntryOf, Entry, Row, TypeOK
  <2>2. /\ cache' = [cache EXCEPT ![pkt.mac] = new] /\ pc' = "touch"
        /\ UNCHANGED <<pkt, isNew, conn, failed>>
    BY <1>2 DEF DbWorks, Proceed, GoTo
  <2> HIDE DEF new
  <2>3. TypeOK'
    BY <1>1, <2>1, <2>2 DEF TypeOK, HandlerStep
  <2>4. HandlerOK'
    BY <1>1, <2>1, <2>2 DEF HandlerOK, HandlerStep, TypeOK
  <2>5. EntryIds' /\ SavedHasRow' /\ IpCoherent'
    BY <1>1, <1>2, <2>1, <2>2 DEF EntryIds, SavedHasRow, IpCoherent, TypeOK
  <2>6. AnnouncedOK'
    <3>1. \A m \in Mac : cache[m] # Absent => cache'[m] # Absent
      BY <1>1, <2>1, <2>2 DEF TypeOK
    <3>2. QED
      BY <1>1, <2>2, <3>1 DEF AnnouncedOK
  <2>7. QED
    BY <2>3, <2>4, <2>5, <2>6
<1>3. CASE (DbWorks \/ DbThrows) /\ Return /\ UNCHANGED cache /\ failed' \subseteq Mac
  <2>1. /\ pc' = "idle" /\ pkt' = NoPacket /\ isNew' = FALSE /\ UNCHANGED cache
        /\ conn' \in {"ok", "lost"} /\ (conn' = "ok" => conn = "ok") /\ failed' \subseteq Mac
    BY <1>3 DEF Return, DbWorks, DbThrows, TypeOK
  <2>2. TypeOK' /\ HandlerOK'
    BY <1>1, <2>1, NoPacketType DEF TypeOK, HandlerOK, HandlerStep
  <2>3. EntryIds' /\ SavedHasRow' /\ IpCoherent' /\ AnnouncedOK'
    BY <1>1, <2>1 DEF EntryIds, SavedHasRow, IpCoherent, AnnouncedOK
  <2>4. QED
    BY <2>2, <2>3
<1>4. CASE DbWorks /\ Return /\ UNCHANGED <<cache, failed>>
  BY <1>3, <1>4 DEF TypeOK
<1>5. CASE DbThrows /\ Throw /\ UNCHANGED cache
  BY <1>3, <1>5 DEF Throw, CutShort, TypeOK
<1>6. QED
  BY <1>2, <1>4, <1>5 DEF RefindByMac

\* The constructor fills the cache with the assets of all rows.
LEMMA StartStep == IndInv /\ Start => IndInv'
<1> SUFFICES ASSUME IndInv, Start PROVE IndInv'
  OBVIOUS
<1> USE TrackerAssumption DEF IndInv
<1>1. /\ pc = "down" /\ pc' = "idle" /\ pkt' = NoPacket /\ isNew' = FALSE
      /\ cache' = [m \in Mac |-> Loaded(m)]
      /\ ipToMac' \in [Ip -> Mac \cup {NoMac, Absent}]
      /\ UNCHANGED <<pending, assets, events, alerts, conn, newCount, probed, failed>>
  BY DEF Start, Return
<1>2. \A m \in Mac : Loaded(m) \in Entry \cup {Absent} /\ (Loaded(m) = Absent <=> assets[m] = Absent)
  BY DEF Loaded, EntryOf, Entry, Row, TypeOK
<1>3. \A m \in Mac : assets[m] # Absent => Loaded(m).id = m /\ Loaded(m).ip = assets[m].ip
  BY DEF Loaded, EntryOf
<1>4. TypeOK' /\ HandlerOK'
  BY <1>1, <1>2, NoPacketType DEF TypeOK, HandlerOK, HandlerStep
<1>5. EntryIds' /\ SavedHasRow' /\ IpCoherent'
  BY <1>1, <1>2, <1>3 DEF EntryIds, SavedHasRow, IpCoherent
<1>6. AnnouncedOK'
  BY <1>1, <1>2 DEF AnnouncedOK
<1>7. QED
  BY <1>4, <1>5, <1>6

\* The process ends and forgets everything but the database.
LEMMA ExitStep == IndInv /\ Exit /\ failed' \subseteq Mac => IndInv'
<1> SUFFICES ASSUME IndInv, Exit, failed' \subseteq Mac PROVE IndInv'
  OBVIOUS
<1> USE TrackerAssumption DEF IndInv, Exit
<1>1. pending' \in Seq(Event) /\ Len(pending') < FlushLimit
  OBVIOUS
<1>2. TypeOK' /\ HandlerOK'
  BY <1>1, NoPacketType DEF TypeOK, HandlerOK, HandlerStep
<1>3. EntryIds' /\ SavedHasRow' /\ IpCoherent'
  BY DEF EntryIds, SavedHasRow, IpCoherent
<1>4. AnnouncedOK'
  BY DEF AnnouncedOK
<1>5. QED
  BY <1>2, <1>3, <1>4

\* Every step of the tracker keeps the inductive invariant.
LEMMA NextStep == IndInv /\ [Next]_vars => IndInv'
<1> SUFFICES ASSUME IndInv, [Next]_vars PROVE IndInv'
  OBVIOUS
<1>1. CASE Arrival
  BY <1>1, UpsertStep, ResolveStep
     DEF Arrival, ProcessArp, ProcessDhcp, ProcessMdns, ProcessSsdp, ProcessDns, NameKind
<1>2. CASE Continue
  BY <1>2, FindStep, InsertStep, TouchStep, PublishStep, AddViaStep, EnrichStep, AnnounceStep,
     RunRulesStep, ChangeIpStep, LogIpStep, LogLastStep, FindByIpStep, RefindStep
     DEF Continue
<1>3. CASE Flush \/ Start \/ Stop \/ Crash
  BY <1>3, FlushStep, StartStep, ExitStep DEF Stop, Crash, CutShort, IndInv, TypeOK
<1>4. CASE UNCHANGED vars
  BY <1>4 DEF vars, IndInv, TypeOK, HandlerOK, EntryIds, SavedHasRow, AnnouncedOK, IpCoherent
<1>5. QED
  BY <1>1, <1>2, <1>3, <1>4 DEF Next

\* The inductive invariant, and the three invariants TLC checks in the run
\* with every failure: types and the buffer limit; a saved entry has a row; the
\* cached address is the stored one while the connection holds.
THEOREM InductiveInvariant == Spec => []IndInv
BY InitInv, NextStep, PTL DEF Spec

\* Type correctness; the event buffer never reaches its limit between two events.
THEOREM TypeCorrect == Spec => []TypeOK
BY InductiveInvariant, PTL DEF IndInv

\* A cached asset with an id has a row, whatever call failed and however often
\* the process restarted.
THEOREM SavedHasRowCorrect == Spec => []SavedHasRow
BY InductiveInvariant, PTL DEF IndInv

\* While the connection holds, the cached address of a saved asset is the stored
\* one: update_asset_ip comes before the assignment to the cache.
THEOREM IpCoherentCorrect == Spec => []IpCoherent
BY InductiveInvariant, PTL DEF IndInv

(* What no failure about another device can break: UncutInv is inductive     *)
(* beside IndInv, and speaks of the devices no handler of which was cut      *)
(* short.                                                                    *)

Uncut == Mac \ failed

\* An entry of the cache has a row, with its id and at least its protocols.
EntriesStored ==
    \A m \in Uncut : cache[m] # Absent
        => assets[m] # Absent /\ cache[m].id = m /\ cache[m].via \subseteq assets[m].via

\* A running process has cached every row, but for one it is about to publish.
RowsCached ==
    pc # "down" =>
        \A m \in Uncut : assets[m] # Absent
            => cache[m] # Absent \/ (pc = "publish" /\ pkt.mac = m)

\* The IP index names devices on record, or the one being recorded.
IndexStored ==
    \A i \in Ip : \A m \in Uncut : ipToMac[i] = m
        => assets[m] # Absent \/ (pc \in {"find", "insert"} /\ pkt.mac = m)

\* What the running handler knows of its device.
UncutHandler ==
    pkt.mac \in Uncut =>
        /\ pc # "refind"
        /\ pc \in {"find", "insert", "publish"} => isNew
        /\ pc = "touch" => cache[pkt.mac] # Absent

\* A device on record was announced and alerted on, or the handler is at it.
FirstAnnounced ==
    \A m \in Uncut : assets[m] # Absent /\ m \notin probed
        => \/ newCount[m] = 1 /\ m \in alerts
           \/ pc = "rules" /\ pkt.mac = m /\ newCount[m] = 1
           \/ pc \in {"publish", "enrich", "announce"} /\ pkt.mac = m /\ isNew

\* An event that may stand in the buffer.
Buffered(e) ==
    e.id \in Recorded \/ (e.id = NoMac /\ e.type # "new_asset" /\ failed # {})

EventsBuffered == \A k \in DOMAIN pending : Buffered(pending[k])

UncutInv ==
    /\ EntriesStored /\ RowsCached /\ IndexStored
    /\ UncutHandler /\ FirstAnnounced /\ EventsBuffered

\* What may stand in the buffer may stand there after rows and failures were added.
LEMMA BufferedStays ==
    ASSUME NEW e, Buffered(e), failed \subseteq failed',
           \A m \in Mac : assets[m] # Absent => assets'[m] # Absent
    PROVE  Buffered(e)'
BY DEF Buffered, Recorded

\* A buffer to which nothing is added stays as it may be.
LEMMA BufferStays ==
    ASSUME EventsBuffered, failed \subseteq failed', pending' = pending \/ pending' = <<>>,
           \A m \in Mac : assets[m] # Absent => assets'[m] # Absent
    PROVE  EventsBuffered'
BY BufferedStays DEF EventsBuffered

\* A handler logs what may stand in the buffer: only a device some handler of which
\* was cut short has an entry without an id, and a new device has one.
LEMMA LogUncut ==
    ASSUME IndInv, EntriesStored, EventsBuffered, UNCHANGED <<assets, failed>>,
           NEW type, LogEvent(type), pkt.mac \in Mac, cache[pkt.mac] # Absent,
           type = "new_asset" => cache[pkt.mac].id = pkt.mac
    PROVE  EventsBuffered'
<1> USE TrackerAssumption
<1> DEFINE event == [id |-> cache[pkt.mac].id, type |-> type]
           batch == Append(pending, event)
<1>1. Buffered(event)
  <2>1. cache[pkt.mac].id \in {NoMac, pkt.mac}
    BY DEF IndInv, EntryIds
  <2>2. CASE cache[pkt.mac].id = NoMac
    <3>1. pkt.mac \notin Uncut
      BY <2>2 DEF EntriesStored
    <3>2. failed # {} /\ type # "new_asset"
      BY <2>2, <3>1 DEF Uncut
    <3>3. QED
      BY <2>2, <3>2 DEF Buffered
  <2>3. CASE cache[pkt.mac].id = pkt.mac
    <3>1. cache[pkt.mac].id \in Recorded
      BY <2>3 DEF IndInv, SavedHasRow, Recorded
    <3>2. QED
      BY <3>1 DEF Buffered
  <2>4. QED
    BY <2>1, <2>2, <2>3
<1>2. CASE Len(batch) >= FlushLimit
  <2>1. pending' = <<>>
    BY <1>2 DEF LogEvent, WriteBatch
  <2>2. QED
    BY <2>1, BufferStays
<1>3. CASE ~(Len(batch) >= FlushLimit)
  <2>1. pending' = batch
    BY <1>3 DEF LogEvent
  <2>2. pending \in Seq(Event)
    BY DEF IndInv, TypeOK
  <2> HIDE DEF event
  <2>3. \A k \in DOMAIN batch : batch[k] = event \/ (k \in DOMAIN pending /\ batch[k] = pending[k])
    BY <2>2
  <2> HIDE DEF batch
  <2>4. \A k \in DOMAIN pending' : Buffered(pending'[k])
    BY <1>1, <2>1, <2>3 DEF EventsBuffered
  <2>5. UNCHANGED <<Recorded, failed>>
    BY DEF Recorded
  <2>6. QED
    BY <2>4, <2>5 DEF EventsBuffered, Buffered
<1>4. QED
  BY <1>2, <1>3

\* Nothing is on record before the first start.
LEMMA UncutInit == Init => UncutInv
<1> SUFFICES ASSUME Init PROVE UncutInv
  OBVIOUS
<1> USE TrackerAssumption DEF Init, Uncut
<1>1. EntriesStored /\ RowsCached /\ IndexStored
  BY DEF EntriesStored, RowsCached, IndexStored
<1>2. UncutHandler /\ FirstAnnounced /\ EventsBuffered
  BY DEF UncutHandler, FirstAnnounced, EventsBuffered, NoPacket
<1>3. QED
  BY <1>1, <1>2 DEF UncutInv

\* A handler that is cut short has touched its own device only, and that one is
\* noted: whatever a call that threw left behind, the others have all they had.
LEMMA CutShortStep ==
    ASSUME UncutInv, CutShort, pc # "down",
           pc' \in {"idle", "tail", "changeIp"}, UNCHANGED <<ipToMac, pending, newCount, probed>>,
           \A m \in Mac \ {pkt.mac} : cache'[m] = cache[m] /\ assets'[m] = assets[m],
           \A m \in Mac : assets[m] # Absent => assets'[m] # Absent,
           alerts \subseteq alerts'
    PROVE  UncutInv'
<1> USE DEF UncutInv, Uncut
<1>1. \A m \in Uncut' : /\ m \in Uncut /\ m # pkt.mac
                        /\ cache'[m] = cache[m] /\ assets'[m] = assets[m]
  BY DEF CutShort
<1>2. EntriesStored'
  BY <1>1 DEF EntriesStored
<1>3. RowsCached'
  BY <1>1 DEF RowsCached
<1>4. IndexStored'
  BY <1>1 DEF IndexStored
<1>5. UncutHandler'
  BY DEF UncutHandler
<1>6. FirstAnnounced'
  BY <1>1 DEF FirstAnnounced
<1>7. EventsBuffered'
  BY BufferStays DEF CutShort
<1>8. QED
  BY <1>2, <1>3, <1>4, <1>5, <1>6, <1>7

\* A step that keeps tables, cache, index and buffer, and leaves no announcement open.
LEMMA QuietStep ==
    ASSUME UncutInv,
           UNCHANGED <<cache, ipToMac, pending, assets, alerts, newCount, probed, failed>>,
           pc \notin {"down", "find", "insert", "publish", "rules"},
           pc \in {"enrich", "announce"} => ~isNew,
           pc' \notin {"find", "insert", "publish"},
           pkt'.mac \in Uncut => pc' # "refind" /\ (pc' = "touch" => cache'[pkt'.mac] # Absent)
    PROVE  UncutInv'
<1> USE DEF UncutInv, Uncut
<1>1. EntriesStored' /\ RowsCached' /\ IndexStored'
  BY DEF EntriesStored, RowsCached, IndexStored
<1>2. UncutHandler' /\ FirstAnnounced'
  BY DEF UncutHandler, FirstAnnounced
<1>3. EventsBuffered'
  BY BufferStays
<1>4. QED
  BY <1>1, <1>2, <1>3

\* An ARP or DHCP packet finds its device cached, or not on record.
LEMMA UncutUpsert ==
    ASSUME IndInv, UncutInv, NEW p \in ArpPacket \cup DhcpPacket, BeginUpsert(p)
    PROVE  UncutInv'
<1> USE DEF UncutInv, Uncut
<1>1. /\ pc = "idle" /\ pkt' = p /\ isNew' = (cache[p.mac] = Absent)
      /\ pc' = IF cache[p.mac] # Absent THEN "touch" ELSE "find"
      /\ UNCHANGED <<cache, pending, assets, events, alerts, newCount, probed, failed>>
  BY DEF BeginUpsert, FirstSeen, Cached
<1>2. p.mac \in Mac /\ UpsertIp(p) \in Ip \cup {NoIp}
  BY PacketTypes
<1>3. EntriesStored' /\ RowsCached' /\ UncutHandler'
  BY <1>1 DEF EntriesStored, RowsCached, UncutHandler
<1>4. IndexStored'
  <2>1. \A i \in Ip : ipToMac'[i] = ipToMac[i] \/ ipToMac'[i] = p.mac
    BY <1>2 DEF BeginUpsert, IndInv, TypeOK
  <2>2. p.mac \in Uncut /\ cache[p.mac] # Absent => assets[p.mac] # Absent
    BY <1>2 DEF EntriesStored
  <2>3. QED
    BY <1>1, <1>2, <2>1, <2>2 DEF IndexStored
<1>5. FirstAnnounced'
  BY <1>1 DEF FirstAnnounced
<1>6. EventsBuffered'
  BY <1>1, BufferStays
<1>7. QED
  BY <1>3, <1>4, <1>5, <1>6

\* cache_[mac]: a device on record is cached, with its id, and its entry stays; only
\* that of a device some handler of which was cut short may be opened anew.
LEMMA UncutOpen ==
    ASSUME IndInv, UncutInv, pc \in {"idle", "findIp"}, NEW m \in Mac, OpenEntry(m),
           m \in Uncut => assets[m] # Absent, pkt'.mac = m,
           IndexStored', UNCHANGED <<pending, assets, alerts, newCount, probed, failed>>
    PROVE  UncutInv'
<1> USE TrackerAssumption DEF UncutInv, Uncut
<1>1. /\ \A n \in Mac : cache[n] # Absent => cache'[n] = cache[n]
      /\ pc' \in {"refind", "touch"}
  BY OpenEntryFacts
<1>2. \A n \in Mac \ {m} : cache'[n] = cache[n]
  BY DEF OpenEntry, IndInv, TypeOK
<1>3. m \in Uncut => cache[m] # Absent /\ cache[m].id = m /\ cache'[m] = cache[m]
  BY <1>1 DEF RowsCached, EntriesStored
<1>4. \A n \in Uncut : cache'[n] = cache[n]
  BY <1>2, <1>3
<1>5. EntriesStored' /\ RowsCached'
  BY <1>1, <1>4 DEF EntriesStored, RowsCached
<1>6. UncutHandler'
  <2>1. m \in Uncut => pc' = "touch" /\ cache'[m] # Absent
    BY <1>3 DEF OpenEntry
  <2>2. QED
    BY <1>1, <2>1 DEF UncutHandler
<1>7. FirstAnnounced'
  BY <1>1 DEF FirstAnnounced
<1>8. EventsBuffered'
  BY BufferStays
<1>9. QED
  BY <1>5, <1>6, <1>7, <1>8

\* What the IP index names is on record.
LEMMA UncutResolve ==
    ASSUME IndInv, UncutInv, NEW kind \in NameKind, NEW i \in Ip, Resolve(kind, i)
    PROVE  UncutInv'
<1> USE TrackerAssumption DEF UncutInv
<1>1. pc = "idle" /\ UNCHANGED <<ipToMac, pending, assets, alerts, newCount, probed, failed>>
  BY DEF Resolve
<1>2. CASE ipToMac[i] = Absent
  <2>1. pc' = "findIp" /\ UNCHANGED cache
    BY <1>2 DEF Resolve
  <2>2. QED
    BY <1>1, <2>1, QuietStep
<1>3. CASE ipToMac[i] # Absent
  <2>1. ipToMac[i] \in Mac
    BY <1>3 DEF Resolve, IndInv, TypeOK
  <2>2. OpenEntry(ipToMac[i]) /\ pkt' = [kind |-> kind, mac |-> ipToMac[i], ip |-> i]
    BY <1>3 DEF Resolve
  <2>3. ipToMac[i] \in Uncut => assets[ipToMac[i]] # Absent
    BY <1>1 DEF IndexStored
  <2>4. IndexStored'
    BY <1>1 DEF IndexStored, Uncut
  <2>5. QED
    BY <1>1, <2>1, <2>2, <2>3, <2>4, UncutOpen
<1>4. QED
  BY <1>2, <1>3

\* A row that owns the address is on record, and the index names it.
LEMMA UncutFindByIp ==
    ASSUME IndInv, UncutInv, FindByIp
    PROVE  UncutInv'
<1> USE TrackerAssumption DEF UncutInv
<1>1. pc = "findIp" /\ UNCHANGED <<pending, assets, alerts, newCount, probed>>
  BY DEF FindByIp
<1>2. ASSUME NEW new \in Mac \cup {NoMac}, new \in Mac => assets[new] # Absent,
             ipToMac' = [ipToMac EXCEPT ![pkt.ip] = new], UNCHANGED failed
      PROVE  IndexStored'
  BY <1>1, <1>2 DEF IndexStored, IndInv, TypeOK, Uncut
<1>3. CASE DbWorks /\ Owners(pkt.ip) = {} /\ Return /\ UNCHANGED <<cache, failed>>
           /\ ipToMac' = [ipToMac EXCEPT ![pkt.ip] = NoMac]
  <2>1. pc' = "idle" /\ UNCHANGED <<cache, failed>> /\ IndexStored'
    BY <1>1, <1>2, <1>3 DEF Return
  <2>2. EntriesStored' /\ RowsCached' /\ UncutHandler' /\ FirstAnnounced'
    BY <1>1, <2>1 DEF EntriesStored, RowsCached, UncutHandler, FirstAnnounced, Uncut
  <2>3. EventsBuffered'
    BY <1>1, <2>1, BufferStays
  <2>4. QED
    BY <2>1, <2>2, <2>3
<1>4. ASSUME NEW m \in Owners(pkt.ip), UNCHANGED failed, OpenEntry(m),
             ipToMac' = [ipToMac EXCEPT ![pkt.ip] = m], pkt' = [pkt EXCEPT !.mac = m]
      PROVE  UncutInv'
  <2>1. m \in Mac /\ assets[m] # Absent
    BY <1>4 DEF Owners
  <2>2. pkt'.mac = m
    BY <1>4 DEF IndInv, TypeOK, Packet
  <2>3. IndexStored'
    BY <1>2, <1>4, <2>1
  <2>4. QED
    BY <1>1, <1>4, <2>1, <2>2, <2>3, UncutOpen
<1>5. CASE Throw /\ UNCHANGED <<cache, ipToMac>>
  BY <1>1, <1>5, CutShortStep DEF Throw, Return
<1>6. QED
  BY <1>1, <1>3, <1>4, <1>5 DEF FindByIp

\* A device that is not cached is not on record, and is inserted.
LEMMA UncutInsert ==
    ASSUME IndInv, UncutInv, FindByMac \/ InsertAsset
    PROVE  UncutInv'
<1> USE TrackerAssumption DEF UncutInv, Uncut
<1>1. /\ pc \in {"find", "insert"} /\ UNCHANGED <<cache, ipToMac, pending, alerts, newCount, probed>>
      /\ pkt.mac \in Mac /\ cache[pkt.mac] = Absent
      /\ pkt.mac \in Uncut => isNew /\ assets[pkt.mac] = Absent
  <2>1. /\ pc \in {"find", "insert"}
        /\ UNCHANGED <<cache, ipToMac, pending, alerts, newCount, probed>>
    BY DEF FindByMac, InsertAsset
  <2>2. pkt.mac \in Mac /\ cache[pkt.mac] = Absent
    BY <2>1 DEF IndInv, HandlerOK, HandlerStep
  <2>3. pkt.mac \in Uncut => isNew /\ assets[pkt.mac] = Absent
    BY <2>1, <2>2 DEF RowsCached, UncutHandler
  <2>4. QED
    BY <2>1, <2>2, <2>3
<1>2. UpsertIp(pkt) \in Ip \cup {NoIp}
  BY DEF UpsertIp, IndInv, TypeOK, Packet
<1>3. [ip |-> UpsertIp(pkt), via |-> {}] \in Row
  BY <1>2 DEF Row
<1>4. Inserted[pkt.mac] # Absent /\ \A m \in Mac \ {pkt.mac} : Inserted[m] = assets[m]
  BY <1>1, <1>3 DEF Inserted, IndInv, TypeOK
<1>5. CASE Throw
  <2>1. assets' = assets \/ assets' = Inserted
    BY DEF FindByMac, InsertAsset, WriteThrows
  <2>2. /\ \A m \in Mac \ {pkt.mac} : assets'[m] = assets[m]
        /\ \A m \in Mac : assets[m] # Absent => assets'[m] # Absent
    BY <1>4, <2>1
  <2>3. QED
    BY <1>1, <1>5, <2>2, CutShortStep DEF Throw, Return
<1>6. CASE FindByMac /\ Proceed(IF assets[pkt.mac] = Absent THEN "insert" ELSE "touch")
  <2>1. /\ pc = "find" /\ pc' \in {"insert", "touch"} /\ UNCHANGED <<pkt, isNew, assets, failed>>
        /\ pkt.mac \in Uncut => pc' = "insert"
    BY <1>1, <1>6 DEF FindByMac, GoTo, Proceed
  <2>2. EntriesStored' /\ RowsCached' /\ IndexStored' /\ UncutHandler' /\ FirstAnnounced'
    BY <1>1, <2>1 DEF EntriesStored, RowsCached, IndexStored, UncutHandler, FirstAnnounced
  <2>3. EventsBuffered'
    BY <1>1, <2>1, BufferStays
  <2>4. QED
    BY <2>2, <2>3
<1>7. CASE InsertAsset /\ assets' = Inserted /\ Proceed("publish")
  <2>1. /\ pc = "insert" /\ pc' = "publish" /\ UNCHANGED <<pkt, isNew, failed>>
    BY <1>7 DEF InsertAsset, GoTo, Proceed
  <2>2. /\ assets'[pkt.mac] # Absent /\ \A m \in Mac \ {pkt.mac} : assets'[m] = assets[m]
        /\ \A m \in Mac : assets[m] # Absent => assets'[m] # Absent
    BY <1>4, <1>7
  <2>3. EntriesStored' /\ RowsCached' /\ IndexStored' /\ UncutHandler' /\ FirstAnnounced'
    BY <1>1, <2>1, <2>2 DEF EntriesStored, RowsCached, IndexStored, UncutHandler, FirstAnnounced
  <2>4. EventsBuffered'
    BY <1>1, <2>1, <2>2, BufferStays
  <2>5. QED
    BY <2>3, <2>4
<1>8. QED
  BY <1>5, <1>6, <1>7 DEF FindByMac, InsertAsset

\* A device is published with what its row holds.
LEMMA UncutPublish ==
    ASSUME IndInv, UncutInv, Publish
    PROVE  UncutInv'
<1> USE TrackerAssumption DEF UncutInv, Uncut
<1> DEFINE new == EntryOf(pkt.mac, {PacketProto})
           table == WithVia(pkt.mac, PacketProto)
<1>1. /\ pc = "publish" /\ pkt.mac \in Mac /\ cache[pkt.mac] = Absent
      /\ assets[pkt.mac] # Absent /\ (pkt.mac \in Uncut => isNew)
      /\ UNCHANGED <<ipToMac, pending, alerts, newCount>>
  BY DEF Publish, UncutHandler, IndInv, HandlerOK, HandlerStep
<1>2. PacketProto \in Proto
  BY DEF PacketProto, Proto
<1>3. /\ \A m \in Mac : table[m] # Absent <=> assets[m] # Absent
      /\ \A m \in Mac \ {pkt.mac} : table[m] = assets[m]
  BY <1>1, <1>2, WithViaFacts DEF IndInv, TypeOK
<1>4. PacketProto \in table[pkt.mac].via
  BY <1>1 DEF WithVia, IndInv, TypeOK, Row
<1>5. new # Absent /\ new.id = pkt.mac /\ new.via = {PacketProto}
  BY <1>1, <1>2 DEF EntryOf, IndInv, TypeOK, Row, Entry
<1> HIDE DEF new, table
<1>6. CASE WriteThrows(table) /\ Throw /\ UNCHANGED <<cache, probed>>
  <2>1. assets' = assets \/ assets' = table
    BY <1>6 DEF WriteThrows
  <2>2. QED
    BY <1>1, <1>3, <1>6, <2>1, CutShortStep DEF Throw, Return
<1>7. CASE /\ assets' = table /\ cache' = [cache EXCEPT ![pkt.mac] = new]
           /\ probed' = IF pkt.kind = "arp_probe" THEN probed \cup {pkt.mac} ELSE probed
           /\ Proceed(AfterUpsert)
  <2>1. /\ pc' \in {"tail", "enrich", "changeIp"} /\ UNCHANGED <<pkt, isNew, failed>>
        /\ isNew => pc' = IF pkt.kind = "arp_probe" THEN "tail" ELSE "enrich"
    BY <1>7 DEF AfterUpsert, Proceed, GoTo
  <2>2. /\ cache'[pkt.mac] = new
        /\ \A m \in Mac \ {pkt.mac} : cache'[m] = cache[m]
    BY <1>1, <1>7 DEF IndInv, TypeOK
  <2>3. EntriesStored' /\ RowsCached'
    BY <1>1, <1>3, <1>4, <1>5, <1>7, <2>1, <2>2 DEF EntriesStored, RowsCached
  <2>4. IndexStored' /\ UncutHandler'
    BY <1>1, <1>3, <1>7, <2>1 DEF IndexStored, UncutHandler
  <2>5. FirstAnnounced'
    BY <1>1, <1>3, <1>7, <2>1 DEF FirstAnnounced
  <2>6. EventsBuffered'
    BY <1>1, <1>3, <1>7, <2>1, BufferStays
  <2>7. QED
    BY <2>3, <2>4, <2>5, <2>6
<1>8. QED
  BY <1>6, <1>7 DEF Publish, table, new

\* A step at a cached device that keeps its entry, and one at its row and its entry.
LEMMA RowStep ==
    ASSUME IndInv, UncutInv, pc \in {"via", "changeIp", "refind"}, pkt.mac \in Mac,
           cache[pkt.mac] # Absent, pc \in {"via", "refind"} => ~isNew,
           UNCHANGED <<ipToMac, pending, alerts, newCount, probed, failed, pkt, isNew>>,
           \A m \in Mac \ {pkt.mac} : cache'[m] = cache[m] /\ assets'[m] = assets[m],
           \A m \in Mac : assets'[m] # Absent <=> assets[m] # Absent,
           cache'[pkt.mac] # Absent,
           pkt.mac \in Uncut => /\ cache'[pkt.mac].id = pkt.mac
                                /\ cache'[pkt.mac].via \subseteq assets'[pkt.mac].via,
           pc' \in {"enrich", "tail", "changeIp", "logIp", "touch"},
           pc = "changeIp" => pc' = "logIp"
    PROVE  UncutInv'
<1> USE TrackerAssumption DEF UncutInv, Uncut
<1>1. \A m \in Mac : cache'[m] # Absent <=> cache[m] # Absent
  OBVIOUS
<1>2. EntriesStored'
  <2>1. pkt.mac \in Uncut => assets'[pkt.mac] # Absent
    BY DEF EntriesStored
  <2>2. QED
    BY <2>1 DEF EntriesStored
<1>3. RowsCached' /\ IndexStored' /\ UncutHandler'
  BY <1>1 DEF RowsCached, IndexStored, UncutHandler
<1>4. FirstAnnounced'
  BY DEF FirstAnnounced
<1>5. EventsBuffered'
  BY BufferStays
<1>6. QED
  BY <1>2, <1>3, <1>4, <1>5

\* A cached device gets a protocol, in the cache and in its row.
LEMMA UncutVia ==
    ASSUME IndInv, UncutInv, AddVia
    PROVE  UncutInv'
<1> USE TrackerAssumption DEF UncutInv, Uncut
<1> DEFINE id == cache[pkt.mac].id
           table == WithVia(id, PacketProto)
           entry == [cache[pkt.mac] EXCEPT !.via = @ \cup {PacketProto}]
<1>1. /\ pc = "via" /\ pkt.mac \in Mac /\ cache[pkt.mac] # Absent /\ ~isNew
      /\ id \in {NoMac, pkt.mac} /\ (id # NoMac => assets[id] # Absent)
      /\ PacketProto \in Proto
      /\ UNCHANGED <<ipToMac, pending, alerts, newCount, probed>>
  BY DEF AddVia, IndInv, HandlerOK, HandlerStep, EntryIds, SavedHasRow, PacketProto, Proto
<1>2. /\ \A m \in Mac : table[m] # Absent <=> assets[m] # Absent
      /\ \A m \in Mac \ {id} : table[m] = assets[m]
  BY <1>1, WithViaFacts DEF IndInv, TypeOK
<1>3. cache[pkt.mac] \in Entry /\ entry \in Entry /\ entry.id = id
  <2>1. cache[pkt.mac] \in Entry
    BY <1>1 DEF IndInv, TypeOK
  <2>2. entry \in Entry /\ entry.id = id
    BY <1>1, <2>1 DEF Entry
  <2> QED
    BY <2>1, <2>2
<1>4. pkt.mac \in Uncut => id = pkt.mac /\ entry.via \subseteq table[pkt.mac].via
  <2> SUFFICES ASSUME pkt.mac \in Uncut PROVE id = pkt.mac /\ entry.via \subseteq table[pkt.mac].via
    OBVIOUS
  <2>1. id = pkt.mac /\ assets[pkt.mac] # Absent /\ cache[pkt.mac].via \subseteq assets[pkt.mac].via
    BY <1>1 DEF EntriesStored
  <2>2. assets[pkt.mac] \in Row
    BY <1>1, <2>1 DEF IndInv, TypeOK
  <2>3. table[pkt.mac].via = assets[pkt.mac].via \cup {PacketProto}
    BY <1>1, <2>1, <2>2 DEF WithVia, IndInv, TypeOK, Row
  <2>4. entry.via = cache[pkt.mac].via \cup {PacketProto}
    BY <1>3 DEF Entry
  <2>5. QED
    BY <2>1, <2>3, <2>4
<1>5. /\ cache'[pkt.mac] = entry
      /\ \A m \in Mac \ {pkt.mac} : cache'[m] = cache[m]
  BY <1>1 DEF AddVia, IndInv, TypeOK
<1>6. assets' = assets \/ assets' = table
  BY DEF AddVia, WriteThrows
<1>7. /\ \A m \in Mac : assets'[m] # Absent <=> assets[m] # Absent
      /\ \A m \in Mac \ {pkt.mac} : assets'[m] = assets[m]
  BY <1>1, <1>2, <1>6
<1>8. CASE Throw
  BY <1>1, <1>5, <1>7, <1>8, CutShortStep DEF Throw, Return
<1>9. CASE assets' = table /\ Proceed(AfterUpsert)
  <2>1. pc' \in {"tail", "enrich", "changeIp"} /\ UNCHANGED <<pkt, isNew, failed>>
    BY <1>9 DEF AfterUpsert, Proceed, GoTo
  <2>2. entry # Absent
    BY <1>3
  <2> HIDE DEF entry, table
  <2>3. QED
    BY <1>1, <1>3, <1>4, <1>5, <1>7, <1>9, <2>1, <2>2, RowStep
<1>10. QED
  BY <1>8, <1>9 DEF AddVia

\* A cached device gets an address, in its row and then in the cache.
LEMMA UncutChangeIp ==
    ASSUME IndInv, UncutInv, ChangeIp
    PROVE  UncutInv'
<1> USE TrackerAssumption DEF UncutInv, Uncut
<1> DEFINE id == cache[pkt.mac].id
           table == WithIp(id, pkt.ip)
           entry == [cache[pkt.mac] EXCEPT !.ip = pkt.ip]
<1>1. /\ pc = "changeIp" /\ pkt.mac \in Mac /\ cache[pkt.mac] # Absent
      /\ pkt.ip \in Ip \cup {NoIp}
      /\ id \in {NoMac, pkt.mac} /\ (id # NoMac => assets[id] # Absent)
      /\ UNCHANGED <<ipToMac, pending, alerts, newCount, probed>>
  BY DEF ChangeIp, IndInv, HandlerOK, HandlerStep, EntryIds, SavedHasRow, TypeOK, Packet
<1>2. /\ \A m \in Mac : table[m] # Absent <=> assets[m] # Absent
      /\ \A m \in Mac \ {id} : table[m] = assets[m]
  BY <1>1, WithIpFacts DEF IndInv, TypeOK
<1>3. cache[pkt.mac] \in Entry /\ entry \in Entry /\ entry.id = id /\ entry.via = cache[pkt.mac].via
  <2>1. cache[pkt.mac] \in Entry
    BY <1>1 DEF IndInv, TypeOK
  <2>2. entry \in Entry /\ entry.id = id /\ entry.via = cache[pkt.mac].via
    BY <1>1, <2>1 DEF Entry
  <2> QED
    BY <2>1, <2>2
<1>4. pkt.mac \in Uncut => id = pkt.mac /\ entry.via \subseteq table[pkt.mac].via
  <2> SUFFICES ASSUME pkt.mac \in Uncut PROVE id = pkt.mac /\ entry.via \subseteq table[pkt.mac].via
    OBVIOUS
  <2>1. id = pkt.mac /\ assets[pkt.mac] # Absent /\ cache[pkt.mac].via \subseteq assets[pkt.mac].via
    BY <1>1 DEF EntriesStored
  <2>2. assets[pkt.mac] \in Row
    BY <1>1, <2>1 DEF IndInv, TypeOK
  <2>3. table[pkt.mac].via = assets[pkt.mac].via
    BY <1>1, <2>1, <2>2 DEF WithIp, IndInv, TypeOK, Row
  <2>4. QED
    BY <1>3, <2>1, <2>3
<1>5. CASE WriteThrows(table) /\ Throw /\ UNCHANGED cache
  <2>1. assets' = assets \/ assets' = table
    BY <1>5 DEF WriteThrows
  <2>2. /\ \A m \in Mac : assets'[m] # Absent <=> assets[m] # Absent
        /\ \A m \in Mac \ {pkt.mac} : assets'[m] = assets[m]
    BY <1>1, <1>2, <2>1
  <2>3. QED
    BY <1>1, <1>5, <2>2, CutShortStep DEF Throw, Return
<1>6. CASE assets' = table /\ cache' = [cache EXCEPT ![pkt.mac] = entry] /\ Proceed("logIp")
  <2>1. pc' = "logIp" /\ UNCHANGED <<pkt, isNew, failed>> /\ entry # Absent
    BY <1>3, <1>6 DEF Proceed, GoTo
  <2>2. /\ cache'[pkt.mac] = entry
        /\ \A m \in Mac \ {pkt.mac} : cache'[m] = cache[m]
    BY <1>1, <1>6 DEF IndInv, TypeOK
  <2>3. /\ \A m \in Mac : assets'[m] # Absent <=> assets[m] # Absent
        /\ \A m \in Mac \ {pkt.mac} : assets'[m] = assets[m]
    BY <1>1, <1>2, <1>6
  <2> HIDE DEF entry, table
  <2>4. QED
    BY <1>1, <1>3, <1>4, <1>6, <2>1, <2>2, <2>3, RowStep
<1>7. QED
  BY <1>5, <1>6 DEF ChangeIp

\* Only a device some handler of which was cut short is looked up again.
LEMMA UncutRefind ==
    ASSUME IndInv, UncutInv, RefindByMac
    PROVE  UncutInv'
<1> USE TrackerAssumption DEF UncutInv, Uncut
<1>1. /\ pc = "refind" /\ pkt.mac \in Mac /\ cache[pkt.mac] # Absent /\ ~isNew
      /\ pkt.mac \notin Uncut
      /\ UNCHANGED <<ipToMac, pending, assets, alerts, newCount, probed>>
  BY DEF RefindByMac, UncutHandler, IndInv, HandlerOK, HandlerStep
<1>2. CASE /\ assets[pkt.mac] # Absent /\ Proceed("touch")
           /\ cache' = [cache EXCEPT ![pkt.mac] = EntryOf(pkt.mac, {})]
  <2> DEFINE entry == EntryOf(pkt.mac, {})
  <2>1. entry \in Entry
    BY <1>1, <1>2 DEF EntryOf, IndInv, TypeOK, Row, Entry
  <2> HIDE DEF entry
  <2>2. /\ cache'[pkt.mac] = entry
        /\ \A m \in Mac \ {pkt.mac} : cache'[m] = cache[m]
    BY <1>1, <1>2 DEF IndInv, TypeOK, entry
  <2>3. QED
    BY <1>1, <1>2, <2>1, <2>2, RowStep DEF Proceed, GoTo
<1>3. CASE Return /\ UNCHANGED <<cache, failed>>
  <2>1. pkt'.mac \notin Uncut
    BY <1>3, TrackerAssumption DEF Return, NoPacket
  <2>2. QED
    BY <1>1, <1>3, <2>1, QuietStep DEF Return
<1>4. CASE Throw /\ UNCHANGED cache
  BY <1>1, <1>4, CutShortStep DEF Throw, Return
<1>5. QED
  BY <1>2, <1>3, <1>4 DEF RefindByMac

\* The announcement, and the alert behind it.
LEMMA UncutAnnounce ==
    ASSUME IndInv, UncutInv, Announce \/ RunRules
    PROVE  UncutInv'
<1> USE TrackerAssumption DEF UncutInv, Uncut
<1>1. /\ pc \in {"announce", "rules"} /\ pkt.mac \in Mac /\ cache[pkt.mac] # Absent
      /\ UNCHANGED <<pkt, isNew, cache, ipToMac, assets, probed>>
  BY DEF Announce, RunRules, GoTo, IndInv, HandlerOK, HandlerStep
<1>2. CASE Announce
  <2>1. /\ pc = "announce" /\ pc' = "rules" /\ UNCHANGED <<alerts, failed>>
        /\ newCount' = [newCount EXCEPT ![pkt.mac] = @ + 1]
    BY <1>2 DEF Announce, GoTo
  <2>2. newCount[pkt.mac] = 0 /\ cache[pkt.mac].id = pkt.mac
    BY <1>1, <2>1 DEF IndInv, HandlerOK, AnnouncedOK, TypeOK
  <2>3. /\ newCount'[pkt.mac] = 1
        /\ \A m \in Mac \ {pkt.mac} : newCount'[m] = newCount[m]
    BY <1>1, <2>1, <2>2 DEF IndInv, TypeOK
  <2>4. EventsBuffered'
    BY <1>1, <1>2, <2>1, <2>2, LogUncut DEF Announce
  <2>5. EntriesStored' /\ RowsCached' /\ IndexStored' /\ UncutHandler'
    BY <1>1, <2>1 DEF EntriesStored, RowsCached, IndexStored, UncutHandler
  <2>6. FirstAnnounced'
    BY <1>1, <2>1, <2>3 DEF FirstAnnounced
  <2>7. QED
    BY <2>4, <2>5, <2>6
<1>3. CASE RunRules
  <2>1. /\ pc = "rules" /\ pc' \in {"changeIp", "tail"} /\ UNCHANGED <<pending, newCount>>
        /\ alerts \subseteq alerts'
    BY <1>3 DEF RunRules, GoTo, AfterAnnounce
  <2>2. CASE CutShort
    BY <1>1, <2>1, <2>2, CutShortStep
  <2>3. CASE alerts' = alerts \cup {pkt.mac} /\ UNCHANGED failed
    <3>1. EntriesStored' /\ RowsCached' /\ IndexStored' /\ UncutHandler' /\ FirstAnnounced'
      BY <1>1, <2>1, <2>3
         DEF EntriesStored, RowsCached, IndexStored, UncutHandler, FirstAnnounced
    <3>2. EventsBuffered'
      BY <1>1, <2>1, <2>3, BufferStays
    <3>3. QED
      BY <3>1, <3>2
  <2>4. QED
    BY <1>3, <2>2, <2>3 DEF RunRules
<1>4. QED
  BY <1>2, <1>3

\* Seeing a known device again, and the enrichment, lose nothing.
LEMMA UncutTouch ==
    ASSUME IndInv, UncutInv, Touch \/ Enrich
    PROVE  UncutInv'
<1> USE TrackerAssumption DEF UncutInv, Uncut
<1>1. /\ pc \in {"touch", "enrich"} /\ pkt.mac \in Mac
      /\ pkt.mac \in Uncut => cache[pkt.mac] # Absent
      /\ UNCHANGED <<cache, ipToMac, pending, assets, alerts, newCount, probed>>
  BY DEF Touch, Enrich, UncutHandler, IndInv, HandlerOK, HandlerStep
<1>2. CASE Throw
  BY <1>1, <1>2, CutShortStep DEF Throw, Return
<1>3. CASE Touch /\ Proceed(AfterTouch)
  <2>1. pc = "touch" /\ pc' = AfterTouch /\ UNCHANGED <<pkt, isNew, failed>>
    BY <1>3 DEF Touch, GoTo, Proceed
  <2>2. /\ pc' \in {"publish", "tail", "enrich", "via", "changeIp"}
        /\ pkt.mac \in Uncut => pc' # "publish"
    BY <1>1, <2>1 DEF AfterTouch, AfterUpsert, Cached
  <2>3. EntriesStored' /\ RowsCached' /\ IndexStored' /\ UncutHandler' /\ FirstAnnounced'
    BY <1>1, <2>1, <2>2 DEF EntriesStored, RowsCached, IndexStored, UncutHandler, FirstAnnounced
  <2>4. EventsBuffered'
    BY <1>1, <2>1, BufferStays
  <2>5. QED
    BY <2>3, <2>4
<1>4. CASE Enrich /\ Proceed(IF isNew THEN "announce" ELSE AfterAnnounce)
  <2>1. /\ pc = "enrich" /\ pc' \in {"announce", "changeIp", "tail"}
        /\ isNew => pc' = "announce"
        /\ UNCHANGED <<pkt, isNew, failed>>
    BY <1>4 DEF Enrich, GoTo, Proceed, AfterAnnounce
  <2>2. EntriesStored' /\ RowsCached' /\ IndexStored' /\ UncutHandler' /\ FirstAnnounced'
    BY <1>1, <2>1 DEF EntriesStored, RowsCached, IndexStored, UncutHandler, FirstAnnounced
  <2>3. EventsBuffered'
    BY <1>1, <2>1, BufferStays
  <2>4. QED
    BY <2>2, <2>3
<1>5. QED
  BY <1>2, <1>3, <1>4 DEF Touch, Enrich

\* The other events, and the flush.
LEMMA UncutLog ==
    ASSUME IndInv, UncutInv, LogIp \/ LogLast \/ Flush
    PROVE  UncutInv'
<1> USE TrackerAssumption DEF UncutInv, Uncut
<1>1. /\ pc \in {"logIp", "tail", "idle"} /\ pc' \in {"tail", "idle"}
      /\ UNCHANGED <<cache, ipToMac, assets, alerts, newCount, probed, failed>>
  BY DEF LogIp, LogLast, Flush, GoTo, Return
<1>2. EventsBuffered'
  <2>1. CASE Flush
    BY <1>1, <2>1, BufferStays DEF Flush, WriteBatch
  <2>2. CASE UNCHANGED pending
    BY <1>1, <2>2, BufferStays
  <2>3. ASSUME NEW type \in {"other", "ip_change"}, LogEvent(type), pc \in {"logIp", "tail"}
        PROVE  EventsBuffered'
    <3>1. pkt.mac \in Mac /\ cache[pkt.mac] # Absent
      BY <2>3 DEF IndInv, HandlerOK, HandlerStep
    <3>2. QED
      BY <1>1, <2>3, <3>1, LogUncut
  <2>4. QED
    BY <2>1, <2>2, <2>3 DEF LogIp, LogLast, IpEventType
<1>3. EntriesStored' /\ RowsCached' /\ IndexStored' /\ UncutHandler' /\ FirstAnnounced'
  BY <1>1 DEF EntriesStored, RowsCached, IndexStored, UncutHandler, FirstAnnounced
<1>4. QED
  BY <1>2, <1>3

\* A process loads every row when it starts.
LEMMA UncutStart ==
    ASSUME IndInv, UncutInv, Start
    PROVE  UncutInv'
<1> USE TrackerAssumption DEF UncutInv, Uncut
<1>1. /\ pc = "down" /\ pc' = "idle"
      /\ UNCHANGED <<pending, assets, alerts, newCount, probed, failed>>
      /\ cache' = [m \in Mac |-> Loaded(m)]
      /\ \A i \in Ip : ipToMac'[i] = Absent \/ ipToMac'[i] \in Owners(i)
  BY DEF Start, Return
<1>2. \A m \in Mac : assets[m] # Absent
         => Loaded(m) # Absent /\ Loaded(m).id = m /\ Loaded(m).via = {}
  BY DEF Loaded, EntryOf, IndInv, TypeOK, Row, Entry
<1>3. \A m \in Mac : assets[m] = Absent => Loaded(m) = Absent
  BY DEF Loaded
<1>4. EntriesStored' /\ RowsCached'
  BY <1>1, <1>2, <1>3 DEF EntriesStored, RowsCached
<1>5. IndexStored'
  BY <1>1 DEF IndexStored, Owners
<1>6. FirstAnnounced' /\ UncutHandler'
  BY <1>1 DEF FirstAnnounced, UncutHandler
<1>7. EventsBuffered'
  BY <1>1, BufferStays
<1>8. QED
  BY <1>4, <1>5, <1>6, <1>7

\* A process that stops has announced what it recorded; one that dies has, but for
\* the device its handler was about.
LEMMA UncutExit ==
    ASSUME IndInv, UncutInv, Stop \/ Crash
    PROVE  UncutInv'
<1> USE TrackerAssumption DEF UncutInv, Uncut
<1>1. /\ pc' = "down" /\ pkt' = NoPacket /\ pending' = <<>>
      /\ cache' = [m \in Mac |-> Absent] /\ ipToMac' = [i \in Ip |-> Absent]
      /\ UNCHANGED <<assets, alerts, newCount, probed>>
  BY DEF Stop, Crash, Exit
<1>2. /\ failed \subseteq failed'
      /\ \A m \in Uncut' : m \in Uncut /\ (pc # "idle" => m # pkt.mac)
  BY DEF Stop, Crash, CutShort
<1>3. EntriesStored' /\ RowsCached' /\ IndexStored' /\ UncutHandler'
  BY <1>1 DEF EntriesStored, RowsCached, IndexStored, UncutHandler
<1>4. FirstAnnounced'
  BY <1>1, <1>2 DEF FirstAnnounced
<1>5. EventsBuffered'
  BY <1>1, <1>2, BufferStays
<1>6. QED
  BY <1>3, <1>4, <1>5

\* Every step keeps UncutInv, whatever fails.
LEMMA UncutNext == IndInv /\ UncutInv /\ [Next]_vars => UncutInv'
<1> SUFFICES ASSUME IndInv, UncutInv, [Next]_vars PROVE UncutInv'
  OBVIOUS
<1>1. CASE Arrival
  BY <1>1, UncutUpsert, UncutResolve
     DEF Arrival, ProcessArp, ProcessDhcp, ProcessMdns, ProcessSsdp, ProcessDns, NameKind
<1>2. CASE Continue
  BY <1>2, UncutInsert, UncutTouch, UncutPublish, UncutVia, UncutChangeIp, UncutAnnounce,
     UncutLog, UncutFindByIp, UncutRefind DEF Continue
<1>3. CASE Flush \/ Start \/ Stop \/ Crash
  BY <1>3, UncutLog, UncutStart, UncutExit
<1>4. CASE UNCHANGED vars
  BY <1>4 DEF vars, UncutInv, Uncut, EntriesStored, RowsCached, IndexStored, UncutHandler,
     FirstAnnounced, EventsBuffered, Buffered, Recorded
<1>5. QED
  BY <1>1, <1>2, <1>3, <1>4 DEF Next

\* The two invariants together.
LEMMA UncutInvariant == Spec => []UncutInv
BY UncutInit, UncutNext, InductiveInvariant, PTL DEF Spec

\* Whatever fails and however often the process restarts, a buffered event names an
\* asset that has its row, or the asset 0, which takes a handler that was cut short and
\* is never a new_asset; the entry of any other device carries its own id
\* (asset_tracker.cpp, cache_[mac] in the name-service handlers; log_event).
THEOREM NoOrphanEventsCorrect == Spec => []NoOrphanEvents
<1>1. UncutInv => NoOrphanEvents
  BY DEF UncutInv, Uncut, EntriesStored, EventsBuffered, Buffered, NoOrphanEvents
<1>2. QED
  BY <1>1, UncutInvariant, PTL

\* Whatever fails about other devices, the protocols the cache holds for a device are
\* in its row between two packets (asset_tracker.cpp, discovered_via in upsert_asset).
THEOREM ViaStoredCorrect == Spec => []ViaStored
<1>1. UncutInv => ViaStored
  BY DEF UncutInv, Uncut, EntriesStored, ViaStored
<1>2. QED
  BY <1>1, UncutInvariant, PTL

\* Whatever fails about other devices, and across restarts and lost batches, a device
\* that first appeared in anything but a probe was announced once and alerted on
\* (asset_tracker.cpp, is_new in process_arp and process_dhcp).
THEOREM FirstContactAnnouncedCorrect == Spec => []FirstContactAnnounced
<1>1. UncutInv => FirstContactAnnounced
  BY DEF UncutInv, Uncut, FirstAnnounced, FirstContactAnnounced, Recorded
<1>2. QED
  BY <1>1, UncutInvariant, PTL

(* The tracker implements the registry.                                      *)

\* The initial states map to the initial state of the registry.
LEMMA RegistryInit == Init => Registry!Init
BY DEF Init, Registry!Init, Recorded

\* A step that adds at most one row and announces nothing.
LEMMA RegisterOrStutter ==
    ASSUME assets \in [Mac -> Row \cup {Absent}], NEW m \in Mac,
           \A n \in Mac \ {m} : assets'[n] # Absent <=> assets[n] # Absent,
           assets[m] # Absent => assets'[m] # Absent,
           UNCHANGED <<newCount, events, alerts>>
    PROVE  [Registry!Next]_(Registry!vars)
<1>1. CASE assets[m] = Absent /\ assets'[m] # Absent
  BY <1>1 DEF Registry!Next, Registry!Register, Recorded
<1>2. CASE assets[m] # Absent \/ assets'[m] = Absent
  <2>1. UNCHANGED Recorded
    BY <1>2 DEF Recorded
  <2>2. QED
    BY <2>1 DEF Registry!vars
<1>3. QED
  BY <1>1, <1>2

\* Every step of the tracker maps to a step of the registry or to a stutter.
LEMMA RegistryStep == IndInv /\ [Next]_vars => [Registry!Next]_(Registry!vars)
<1> SUFFICES ASSUME IndInv, [Next]_vars PROVE [Registry!Next]_(Registry!vars)
  OBVIOUS
<1> USE TrackerAssumption
<1>0. IndInv'
  BY NextStep
<1>a. ASSUME UNCHANGED <<assets, newCount, events, alerts>> PROVE [Registry!Next]_(Registry!vars)
  BY <1>a DEF Registry!vars, Recorded
<1>1. CASE Announce
  <2>1. /\ pkt.mac \in Mac /\ newCount[pkt.mac] = 0 /\ cache[pkt.mac].id = pkt.mac
        /\ cache[pkt.mac] # Absent /\ NoMac # pkt.mac
        /\ newCount' = [newCount EXCEPT ![pkt.mac] = @ + 1]
        /\ UNCHANGED <<assets, alerts>>
    BY <1>1 DEF Announce, IndInv, HandlerOK, HandlerStep, AnnouncedOK
  <2>2. pkt.mac \in Recorded /\ UNCHANGED Recorded
    BY <2>1 DEF IndInv, SavedHasRow, Recorded
  <2>3. /\ newCount' = [newCount EXCEPT ![pkt.mac] = 1] /\ newCount'[pkt.mac] > 0
        /\ \A m \in Mac : newCount[m] > 0 => newCount'[m] > 0
    BY <2>1 DEF IndInv, TypeOK
  <2>4. events \subseteq events' /\ events' \subseteq events \cup {m \in Mac : newCount'[m] > 0}
    BY <1>1, <2>1, <2>3, LogStep DEF Announce
  <2>5. QED
    BY <2>1, <2>2, <2>3, <2>4
       DEF Registry!Next, Registry!Announce, Registry!StoreSome, Registry!Announced
<1>2. CASE RunRules
  <2>1. /\ pkt.mac \in Mac /\ newCount[pkt.mac] > 0
        /\ alerts' \in {alerts, alerts \cup {pkt.mac}}
        /\ UNCHANGED <<assets, newCount, events>>
    BY <1>2 DEF RunRules, IndInv, HandlerOK, HandlerStep, AnnouncedOK
  <2>2. UNCHANGED Recorded
    BY <2>1 DEF Recorded
  <2>3. QED
    BY <2>1, <2>2 DEF Registry!Next, Registry!Alert, Registry!Announced, Registry!vars
<1>3. CASE LogIp \/ LogLast \/ Flush
  <2>1. UNCHANGED <<assets, newCount, alerts>> /\ UNCHANGED Recorded
    BY <1>3 DEF LogIp, LogLast, Flush, Recorded
  <2>2. events \subseteq events' /\ events' \subseteq events \cup {m \in Mac : newCount[m] > 0}
    <3>1. CASE Flush
      <4>1. events \subseteq events' /\ events' \subseteq events \cup Reported(pending)
        BY <3>1, WriteBatchFacts DEF Flush, IndInv, TypeOK
      <4>2. Reported(pending) \subseteq {m \in Mac : newCount[m] > 0}
        BY DEF Reported, IndInv, AnnouncedOK
      <4>3. QED
        BY <4>1, <4>2
    <3>2. CASE LogIp \/ LogLast
      <4>1. pkt.mac \in Mac /\ cache[pkt.mac] # Absent
        BY <3>2 DEF LogIp, LogLast, IndInv, HandlerOK, HandlerStep
      <4>2. CASE UNCHANGED events
        BY <4>2
      <4>3. CASE LogEvent(IpEventType(pkt.kind)) \/ LogEvent("other")
        <5>1. \E type \in {"other", "ip_change"} : LogEvent(type)
          BY <4>3 DEF IpEventType
        <5>2. QED
          BY <2>1, <4>1, <5>1, LogStep
      <4>4. QED
        BY <3>2, <4>2, <4>3 DEF LogIp, LogLast
    <3>3. QED
      BY <1>3, <3>1, <3>2
  <2>3. QED
    BY <2>1, <2>2 DEF Registry!Next, Registry!Store, Registry!StoreSome, Registry!Announced
<1>4. CASE InsertAsset \/ Publish \/ AddVia \/ ChangeIp
  <2>1. pkt.mac \in Mac /\ UNCHANGED <<newCount, events, alerts>>
    BY <1>4 DEF InsertAsset, Publish, AddVia, ChangeIp, IndInv, HandlerOK, HandlerStep
  <2>2. /\ \A n \in Mac \ {pkt.mac} : assets'[n] # Absent <=> assets[n] # Absent
        /\ assets[pkt.mac] # Absent => assets'[pkt.mac] # Absent
    <3>1. CASE InsertAsset
      <4>1. assets' \in {assets, Inserted}
        BY <3>1 DEF InsertAsset, WriteThrows
      <4>2. Inserted[pkt.mac] # Absent /\ \A n \in Mac \ {pkt.mac} : Inserted[n] = assets[n]
        BY <2>1 DEF Inserted, UpsertIp, IndInv, TypeOK, Row, Packet
      <4>3. QED
        BY <4>1, <4>2
    <3>2. CASE Publish
      <4>1. assets' \in {assets, WithVia(pkt.mac, PacketProto)}
        BY <3>2 DEF Publish, WriteThrows
      <4>2. assets[pkt.mac] # Absent /\ PacketProto \in Proto
        BY <3>2 DEF Publish, IndInv, HandlerOK, PacketProto, Proto
      <4>3. QED
        BY <2>1, <4>1, <4>2, WithViaFacts DEF IndInv, TypeOK
    <3>3. ASSUME cache[pkt.mac] # Absent
          PROVE  LET id == cache[pkt.mac].id
                 IN  id \in Mac \cup {NoMac} /\ (id # NoMac => assets[id] # Absent)
      BY <2>1, <3>3 DEF IndInv, EntryIds, SavedHasRow
    <3>4. CASE AddVia
      <4>1. assets' \in {assets, WithVia(cache[pkt.mac].id, PacketProto)}
        BY <3>4 DEF AddVia, WriteThrows
      <4>2. cache[pkt.mac] # Absent /\ PacketProto \in Proto
        BY <3>4 DEF AddVia, IndInv, HandlerOK, PacketProto, Proto
      <4>3. QED
        BY <2>1, <3>3, <4>1, <4>2, WithViaFacts DEF IndInv, TypeOK
    <3>5. CASE ChangeIp
      <4>1. assets' \in {assets, WithIp(cache[pkt.mac].id, pkt.ip)}
        BY <3>5 DEF ChangeIp, WriteThrows
      <4>2. cache[pkt.mac] # Absent /\ pkt.ip \in Ip \cup {NoIp}
        BY <3>5 DEF ChangeIp, IndInv, HandlerOK, TypeOK, Packet
      <4>3. QED
        BY <2>1, <3>3, <4>1, <4>2, WithIpFacts DEF IndInv, TypeOK
    <3>6. QED
      BY <1>4, <3>1, <3>2, <3>4, <3>5
  <2>3. QED
    BY <2>1, <2>2, RegisterOrStutter DEF IndInv, TypeOK
<1>5. CASE Arrival
  BY <1>5, <1>a DEF Arrival, ProcessArp, ProcessDhcp, ProcessMdns, ProcessSsdp, ProcessDns,
     BeginUpsert, Resolve
<1>6. CASE FindByMac \/ Touch \/ Enrich \/ FindByIp \/ RefindByMac
  BY <1>6, <1>a DEF FindByMac, Touch, Enrich, FindByIp, RefindByMac
<1>7. CASE Start \/ Stop \/ Crash \/ UNCHANGED vars
  BY <1>7, <1>a DEF Start, Stop, Crash, Exit, vars
<1>8. QED
  BY <1>1, <1>2, <1>3, <1>4, <1>5, <1>6, <1>7 DEF Next, Continue

\* Whatever fails and whenever the process restarts: rows are never lost, a
\* device is announced as new at most once in its life and only when it is on
\* record, and events and alerts are stored for announced devices only.
THEOREM RegistryImplemented == Spec => ImplementsRegistry
BY RegistryInit, RegistryStep, InductiveInvariant, PTL
   DEF Spec, ImplementsRegistry, Registry!Spec

=============================================================================
