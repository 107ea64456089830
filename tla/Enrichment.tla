------------------------------ MODULE Enrichment ------------------------------
(***************************************************************************)
(* What is known of a device beyond its addresses: OuiLookup gives the     *)
(* vendor of its MAC, OsFingerprint lets the signals of a packet vote for  *)
(* an operating system, and AssetTracker::refresh_enrichment takes the     *)
(* answers into the cached asset and its row.                              *)
(*                                                                         *)
(* One device stands for all: nothing here relates two of them.  A service *)
(* or SERVER header is the set of the markers found in it, a DHCP list is  *)
(* the sequence of its options.  Weights are hundredths; the arithmetic of *)
(* floats is taken for exact.                                              *)
(***************************************************************************)
EXTENDS Integers, Sequences, FiniteSetsExt

CONSTANTS
    DhcpSigs,       \* the signatures: sequence of [options, os_name, weight]
    ServiceRules,   \* sequence of <<markers, os_name>>, for mDNS services
    ServerRules,    \* sequence of <<markers, os_name>>, for SSDP SERVER headers
    DhcpLists,      \* lists a device may ask for
    Services,       \* services it may announce, as sets of markers
    Servers,        \* SERVER headers it may send, as sets of markers
    MacKinds,       \* what its MAC may be, subset of [listed : BOOLEAN, random : BOOLEAN]
    Outcomes        \* how a write to the row may end

\* No rule is without markers. A write in doubt was committed, but the tracker hears
\* of a failure.
ASSUME EnrichmentAssumption ==
    /\ DhcpSigs \in Seq([options : Seq(Nat), os_name : STRING, weight : Nat]) /\ DhcpSigs # <<>>
    /\ ServiceRules \in Seq(((SUBSET STRING) \ {{}}) \X STRING)
    /\ ServerRules \in Seq(((SUBSET STRING) \ {{}}) \X STRING)
    /\ DhcpLists \subseteq Seq(Nat)
    /\ "stored" \in Outcomes /\ Outcomes \subseteq {"stored", "refused", "in doubt"}

VARIABLES
    mac,            \* is its prefix in the file of vendors, is it locally administered
    loaded,         \* was the file of vendors read at the last start?
    asset,          \* the cached asset
    row,            \* its row in the table of assets
    heard           \* history: the last signal of every kind

vars == <<mac, loaded, asset, row, heard>>

Randomized == "[Randomized MAC - vendor unknown]"
Vendor     == "vendor"

NoSignals == [ttl |-> -1, dhcp |-> <<>>, mdns |-> {}, ssdp |-> {}]

\* The signals of a packet: each handler of the tracker fills in one of them or none.
Signals ==
    {NoSignals} \union {[NoSignals EXCEPT !.dhcp = d] : d \in DhcpLists}
                \union {[NoSignals EXCEPT !.mdns = s] : s \in Services}
                \union {[NoSignals EXCEPT !.ssdp = s] : s \in Servers}

OsNames == {"Unknown", "Unix-family", "Network"}
    \union {DhcpSigs[i].os_name : i \in DOMAIN DhcpSigs}
    \union {ServiceRules[i][2] : i \in DOMAIN ServiceRules}
    \union {ServerRules[i][2] : i \in DOMAIN ServerRules}
    \union {"Windows"}

\* A confidence is the pair of the winner's votes and of all votes.
Known == [vendor : {"", Vendor, Randomized}, os : OsNames, confidence : Nat \X (Nat \ {0})]

TypeOK ==
    /\ mac \in MacKinds /\ loaded \in BOOLEAN
    /\ asset \in Known /\ row \in Known

Nobody == [vendor |-> "", os |-> "Unknown", confidence |-> <<0, 1>>]

Init ==
    /\ mac \in MacKinds /\ loaded \in BOOLEAN
    /\ asset = Nobody /\ row = Nobody
    /\ heard = NoSignals
-----------------------------------------------------------------------------
(* OsFingerprint                                                           *)

\* How many of the observed options a signature has, an option that is observed
\* twice counted twice.
Matches(observed, sig) ==
    Cardinality({i \in DOMAIN observed : \E j \in DOMAIN sig : sig[j] = observed[i]})

Denom(observed, sig) == IF Len(observed) > Len(sig) THEN Len(observed) ELSE Len(sig)

\* The score of signature i, in hundredths, is a fraction.
Points(observed, i) == Matches(observed, DhcpSigs[i].options) * DhcpSigs[i].weight
Scale(observed, i)  == Denom(observed, DhcpSigs[i].options)

HigherScore(observed, i, j) ==
    Points(observed, i) * Scale(observed, j) > Points(observed, j) * Scale(observed, i)

\* The first signature that none exceeds.
BestSig(observed) ==
    Min({i \in DOMAIN DhcpSigs : \A j \in DOMAIN DhcpSigs : ~HigherScore(observed, j, i)})

DhcpVote(observed) ==
    IF observed = <<>> THEN <<"", 0>>
    ELSE LET b == BestSig(observed)
         IN  IF Points(observed, b) > 30 * Scale(observed, b)
               THEN <<DhcpSigs[b].os_name, Points(observed, b) \div Scale(observed, b)>>
               ELSE <<"", 0>>

\* The first rule all of whose markers are found.
FirstRule(rules, markers) ==
    LET hits == {i \in DOMAIN rules : rules[i][1] \subseteq markers}
    IN  IF hits = {} THEN "" ELSE rules[Min(hits)][2]

TtlVote(ttl) ==
    IF ttl < 0 THEN <<"", 0>>
    ELSE IF ttl <= 64 THEN <<"Unix-family", 15>>
    ELSE IF ttl <= 128 THEN <<"Windows", 15>> ELSE <<"Network", 15>>

Ballots(s) == << TtlVote(s.ttl), DhcpVote(s.dhcp),
                 <<FirstRule(ServiceRules, s.mdns), 80>>, <<FirstRule(ServerRules, s.ssdp), 70>> >>

\* The votes for some of the names together.
VotesFor(names, ballots) ==
    LET votes(i) == IF ballots[i][1] \in names THEN ballots[i][2] ELSE 0
    IN  votes(1) + votes(2) + votes(3) + votes(4)

\* OsFingerprint::guess; among winners with equal votes the order of a hash table
\* decides.
Guess(s) ==
    LET ballots == Ballots(s)
        names   == {ballots[i][1] : i \in 1..4} \ {""}
        winners == {os \in names : \A o \in names : VotesFor({o}, ballots) <= VotesFor({os}, ballots)}
    IN  IF names = {} THEN {[os |-> "Unknown", confidence |-> <<0, 1>>]}
        ELSE {[os |-> os, confidence |-> <<VotesFor({os}, ballots), VotesFor(names, ballots)>>] :
                os \in winners}

Guesses == UNION {{s} \X Guess(s) : s \in Signals}
-----------------------------------------------------------------------------
(* AssetTracker::refresh_enrichment                                        *)

\* OuiLookup::lookup, or the mark of a locally administered MAC.
VendorFound ==
    IF loaded /\ mac.listed THEN Vendor ELSE IF mac.random THEN Randomized ELSE ""

\* Defect: the cache is changed before the row.
WriteCacheFirst(a, aNew, r, rNew, outcome) ==
    /\ asset' = aNew
    /\ row' = IF outcome # "refused" THEN rNew ELSE r

\* The cache follows the row only when the write has returned.
Write(a, aNew, r, rNew, outcome) ==
    /\ asset' = IF outcome = "stored" THEN aNew ELSE a
    /\ row' = IF outcome # "refused" THEN rNew ELSE r

WithVendor(a) == [a EXCEPT !.vendor = VendorFound]
WithOs(a, g)  == [a EXCEPT !.os = g.os, !.confidence = g.confidence]

Hear(s) == heard' = [heard EXCEPT !.dhcp = IF s.dhcp # <<>> THEN s.dhcp ELSE @,
                                  !.mdns = IF s.mdns # {} THEN s.mdns ELSE @,
                                  !.ssdp = IF s.ssdp # {} THEN s.ssdp ELSE @]

VendorDue == asset.vendor = "" /\ VendorFound # ""

\* The update of the vendor throws: the packet is done with.
VendorFails ==
    /\ VendorDue
    /\ \E s \in Signals, o \in Outcomes \ {"stored"} :
         Write(asset, WithVendor(asset), row, WithVendor(row), o) /\ Hear(s)
    /\ UNCHANGED <<mac, loaded>>

\* Defect: a guess that is as sure as the one there is replaces it.
SurerOrEqual(c, d) == c[1] * d[2] >= d[1] * c[2]

\* Is the new confidence higher?
Surer(c, d) == c[1] * d[2] > d[1] * c[2]

\* The vendor is filled in once, the guess replaced by a surer one; this write, too,
\* may fail, after the vendor is stored.
Refresh ==
    /\ \E heardNow \in Guesses, o \in Outcomes :
         LET s == heardNow[1]
             g == heardNow[2]
             a == IF VendorDue THEN WithVendor(asset) ELSE asset
             r == IF VendorDue THEN WithVendor(row) ELSE row
         IN  /\ Hear(s)
             /\ IF g.os # "Unknown" /\ Surer(g.confidence, asset.confidence)
                  THEN Write(a, WithOs(a, g), r, WithOs(r, g), o)
                  ELSE asset' = a /\ row' = r
    /\ UNCHANGED <<mac, loaded>>

\* The program starts again: the cache is read from the table, and the file of
\* vendors may be there or not.
Restart ==
    /\ asset' = row
    /\ loaded' \in BOOLEAN
    /\ UNCHANGED <<mac, row, heard>>

Next == VendorFails \/ Refresh \/ Restart

Spec == Init /\ [][Next]_vars
-----------------------------------------------------------------------------
(* Properties.                                                             *)

\* What the cache says of vendor and system is in the table, whatever writes failed;
\* the table may know more, from a write in doubt.
CacheInTable ==
    /\ asset.vendor # "" => row.vendor = asset.vendor
    /\ asset.os # "Unknown" => row.os = asset.os /\ row.confidence = asset.confidence

\* A packet carries one kind of signal, so every guess is certain of itself and none
\* is ever surer than the first: what a device is taken for at its first signal
\* stays, across restarts and failed writes.
GuessStays == asset.os # "Unknown" => asset'.os = asset.os

DhcpVotes == [observed \in DhcpLists |-> DhcpVote(observed)]

\* No other system has a signature of the same options.
Unshared(i) ==
    \A j \in DOMAIN DhcpSigs :
       DhcpSigs[j].options = DhcpSigs[i].options => DhcpSigs[j].os_name = DhcpSigs[i].os_name

\* A device that asks for the options of a signature is taken for its system, unless
\* another system has the same signature: none that is longer, shorter or of more
\* weight comes first.
OwnSignatureWins ==
    \A i \in DOMAIN DhcpSigs :
       heard.dhcp = DhcpSigs[i].options /\ Unshared(i)
       => DhcpVotes[heard.dhcp][1] = DhcpSigs[i].os_name

\* Of a table: on the options of a signature that no other system shares, it is above
\* the bar and above every signature of another system.
SignaturesApart ==
    \A i \in DOMAIN DhcpSigs : Unshared(i) =>
       LET own == DhcpSigs[i].options
       IN  /\ Points(own, i) > 30 * Scale(own, i)
           /\ \A j \in DOMAIN DhcpSigs :
                 DhcpSigs[j].os_name # DhcpSigs[i].os_name => HigherScore(own, i, j)

\* Every signature of the table is recognised.
SignatureRecognised ==
    \A i \in DOMAIN DhcpSigs :
       heard.dhcp = DhcpSigs[i].options => DhcpVote(heard.dhcp)[1] = DhcpSigs[i].os_name

\* A device is taken for what the signals it has shown vote for together.
VotesCount ==
    asset.os # "Unknown" => \E g \in Guess(heard) : g.os = asset.os
=============================================================================
