---------------------------- MODULE KnownDevices ----------------------------
(***************************************************************************)
(* What the tracker keeps up to date about devices it knows: whether they  *)
(* are present, and what they are taken for.  The two touch different      *)
(* columns, so a behaviour follows one of them: presence while the         *)
(* database works ("sound") or with calls that throw ("failing"), or the   *)
(* enrichment of one device ("enriched").                                  *)
(***************************************************************************)
EXTENDS Enrichment

CONSTANTS Device, Kinds, Timeout, Throttle, Cap     \* of AssetPresence

VARIABLES part, pc, dev, moved, stale, cacheActive, rowActive, rowAge, writeAge, seenAge, note

Presence == INSTANCE AssetPresence WITH ExpireRuns <- TRUE, Faults <- TRUE

ASSUME KnownAssumption == Presence!PresenceAssumption

present == <<pc, dev, moved, stale, cacheActive, rowActive, rowAge, writeAge, seenAge, note>>

KnownInit ==
    /\ Presence!Init
    /\ \/ part \in {"sound", "failing"}
          /\ mac = {} /\ loaded = {} /\ asset = {} /\ row = {} /\ heard = {}
       \/ part = "enriched" /\ Init

Attend ==
    /\ \/ part \in {"sound", "failing"} /\ Presence!Work
       \/ part = "failing" /\ Presence!Throw
    /\ UNCHANGED <<part, vars>>

Enrich == part = "enriched" /\ Next /\ UNCHANGED <<part, present>>

KnownNext == Attend \/ Enrich

KnownSpec == KnownInit /\ [][KnownNext]_<<part, vars, present>>
-----------------------------------------------------------------------------
\* While the database works, the row of a device is as fresh as the throttle allows,
\* an entry that is active in the cache is active in the table, and an inactive row was
\* announced; and whatever failed, the next packet writes a row that lags behind
\* (the handlers of AssetTracker and expire_assets).
PresenceKept ==
    /\ Presence!TypeOK /\ Presence!LagIsRetried
    /\ part = "sound" =>
          Presence!RowFresh /\ Presence!ActiveInTable /\ Presence!InactiveAnnounced

\* While the database works, only a device that was silent long enough goes, and it
\* goes and returns in turn.
ComesAndGoes == [][part = "sound" => Presence!SilenceFirst /\ Presence!InTurn]_present

\* What the cache says of vendor and system is in the table, and a device that shows
\* the signature of one system is taken for that system by the vote.
EnrichmentKept ==
    part = "enriched" => TypeOK /\ CacheInTable /\ OwnSignatureWins

\* What a device is taken for at its first signal stays, across restarts and failed
\* writes: a packet brings one kind of signal, so every guess is certain of itself.
FirstGuessStays == [][part = "enriched" => GuessStays]_vars
=============================================================================
