-------------------------------- MODULE Rules --------------------------------
(***************************************************************************)
(* What the detection rules make of the events they get: the ARP frames    *)
(* that become claims for the spoofing rule, and the watchlist rule with   *)
(* its table being edited.  The rules share no state, so a behaviour       *)
(* follows one of them ("claims" or "watchlist").  The clock of the claims *)
(* stops at MaxNow.                                                        *)
(***************************************************************************)
EXTENDS ArpClaims

CONSTANTS
    Host, Ip, None, Spelling, Upper, Ttl, MaxRows, Faults,  \* of RuleWatchlist
    MaxNow                                                  \* bound: the last time of the claims

VARIABLES part, table, copy, copyAge, asset, pc, todo, inAge, outAge

Watchlist == INSTANCE RuleWatchlist WITH Mac <- Host

ASSUME RulesAssumption == ClaimsAssumption /\ Watchlist!WatchlistAssumption

claims == <<vars, tracker, seen>>
edited == <<table, copy, copyAge, asset, pc, todo, inAge, outAge>>

RulesInit ==
    /\ ClaimsInit /\ Watchlist!Init
    /\ \/ part = "claims" /\ table = {} /\ asset.ip = None
       \/ part = "watchlist" /\ ip = [m \in Mac |-> "absent"]

Hear ==
    /\ part = "claims"
    /\ \/ ClaimsNext /\ now' = now
       \/ now < MaxNow /\ ClaimsTick
    /\ UNCHANGED <<part, edited>>

Watch == part = "watchlist" /\ Watchlist!Next /\ UNCHANGED <<part, claims>>

RulesNext == Hear \/ Watch

RulesSpec == RulesInit /\ [][RulesNext]_<<part, claims, edited>>
-----------------------------------------------------------------------------
\* Whatever is edited or fails meanwhile, an alert of the watchlist is about a row that
\* is in the table or left it less than the time to live ago (rule_watchlist.cpp).
AlertIsRecent == Watchlist!TypeOK /\ Watchlist!AlertIsRecent

\* An event that is evaluated raises an alert for every row that names one of the
\* addresses of its asset and was in the table for the time to live.
SeasonedRowMatches == Watchlist!SeasonedRowMatches
=============================================================================
