---------------------------- MODULE AssetRegistry ----------------------------
(***************************************************************************)
(* What the asset tracker promises about the devices of the network: a     *)
(* device is recorded once and never forgotten; it is announced as new at  *)
(* most once in its life, and only when it is on record; what the database *)
(* stores about new devices, the events and the alerts, only ever tells of *)
(* devices that were announced, and is never taken back.  Caches, buffers, *)
(* crashes and failed statements do not appear here.                       *)
(***************************************************************************)
EXTENDS Naturals

CONSTANT Mac        \* hardware addresses: the identity of a device

VARIABLES
    known,          \* the devices on record
    announcements,  \* how often each device was announced as new
    stored,         \* the devices whose new_asset event is stored
    alerted         \* the devices whose new_device alert is stored

vars == <<known, announcements, stored, alerted>>

TypeOK ==
    /\ known \subseteq Mac
    /\ announcements \in [Mac -> Nat]
    /\ stored \subseteq Mac
    /\ alerted \subseteq Mac

Init ==
    /\ known = {}
    /\ announcements = [m \in Mac |-> 0]
    /\ stored = {}
    /\ alerted = {}

Announced == {m \in Mac : announcements[m] > 0}

\* A batch of announcements reaches the database.
StoreSome == stored \subseteq stored' /\ stored' \subseteq stored \cup Announced'

Register(m) ==
    /\ m \notin known
    /\ known' = known \cup {m}
    /\ UNCHANGED <<announcements, stored, alerted>>

\* The announcement may complete a batch.
Announce(m) ==
    /\ m \in known
    /\ announcements[m] = 0
    /\ announcements' = [announcements EXCEPT ![m] = 1]
    /\ StoreSome
    /\ UNCHANGED <<known, alerted>>

Store == StoreSome /\ UNCHANGED <<known, announcements, alerted>>

Alert(m) ==
    /\ m \in Announced
    /\ alerted' = alerted \cup {m}
    /\ UNCHANGED <<known, announcements, stored>>

Next == Store \/ \E m \in Mac : Register(m) \/ Announce(m) \/ Alert(m)

Spec == Init /\ [][Next]_vars
=============================================================================
