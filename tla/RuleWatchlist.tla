---------------------------- MODULE RuleWatchlist ----------------------------
(***************************************************************************)
(* The watchlist rule (src/detection/rule_watchlist.cpp) on its copy of    *)
(* the table, and the REST endpoints that edit the table at the same time. *)
(* The rule runs on the capture thread, an edit is one transaction of      *)
(* another connection.                                                     *)
(***************************************************************************)
EXTENDS Naturals, FiniteSets

CONSTANTS
    Mac,            \* hardware addresses
    Ip,             \* network addresses
    None,           \* no address
    Spelling,       \* ways to write a hardware address
    Upper,          \* the one of mac_to_string
    Ttl,            \* cache_ttl_sec (30 in the code)
    MaxRows,        \* bound: rows of the table
    Faults          \* a database call may throw

WatchlistAssumption ==
    /\ Upper \in Spelling
    /\ Ttl \in Nat \ {0} /\ MaxRows \in Nat
    /\ None \notin Ip \cup (Mac \X Spelling)
    /\ Faults \in BOOLEAN

VARIABLES
    table,          \* table watchlist
    copy,           \* cache_
    copyAge,        \* seconds since cache_ts_; Ttl also stands for more
    asset,          \* the asset of the event in work
    pc,             \* what comes next in the rule
    todo,           \* the matches whose alert is still to be inserted
    inAge,          \* history: how long a row has been in the table
    outAge          \* history: how long it has been out of it

vars == <<table, copy, copyAge, asset, pc, todo, inAge, outAge>>

\* A row has a mac as the client wrote it, or an ip, or both.
Entry == {e \in [mac : (Mac \X Spelling) \cup {None}, ip : Ip \cup {None}] :
            e.mac # None \/ e.ip # None}

Asset == [mac : Mac, ip : Ip \cup {None}]

TypeOK ==
    /\ table \subseteq Entry /\ copy \subseteq Entry /\ todo \subseteq Entry
    /\ copyAge \in 0..Ttl /\ asset \in Asset
    /\ pc \in {"idle", "reload", "match", "insert"}
    /\ inAge \in [Entry -> 0..Ttl] /\ outAge \in [Entry -> 0..Ttl]

Init ==
    /\ table \in {rows \in SUBSET Entry : Cardinality(rows) <= MaxRows}
    /\ copy = {} /\ copyAge = Ttl /\ todo = {}
    /\ asset \in Asset /\ pc = "idle"
    /\ inAge = [e \in Entry |-> IF e \in table THEN Ttl ELSE 0]
    /\ outAge = [e \in Entry |-> IF e \in table THEN 0 ELSE Ttl]
-----------------------------------------------------------------------------
(* The rule.                                                               *)

\* Defect: the age of the copy is not looked at.
ReloadDueNever == copy = {}

ReloadDue == copy = {} \/ copyAge >= Ttl

\* An event of a type the rule looks at.
Evaluate(a) ==
    /\ pc = "idle"
    /\ asset' = a
    /\ pc' = IF ReloadDue THEN "reload" ELSE "match"
    /\ UNCHANGED <<table, copy, copyAge, todo, inAge, outAge>>

Reload ==
    /\ pc = "reload" /\ pc' = "match"
    /\ copy' = table /\ copyAge' = 0
    /\ UNCHANGED <<table, asset, todo, inAge, outAge>>

\* get_watchlist throws: the engine gives the rule up for this event.
ReloadThrows ==
    /\ Faults
    /\ pc = "reload" /\ pc' = "idle"
    /\ UNCHANGED <<table, copy, copyAge, asset, todo, inAge, outAge>>

\* Defect: an entry with both addresses must match in both.
MatchesBoth(e, a) ==
    /\ e.mac # None => e.mac = <<a.mac, Upper>>
    /\ e.ip # None => e.ip = a.ip

Matches(e, a) ==
    \/ e.mac # None /\ e.mac = <<a.mac, Upper>>
    \/ e.ip # None /\ e.ip = a.ip

Match ==
    /\ pc = "match"
    /\ todo' = {e \in copy : Matches(e, asset)}
    /\ pc' = IF todo' = {} THEN "idle" ELSE "insert"
    /\ UNCHANGED <<table, copy, copyAge, asset, inAge, outAge>>

\* insert_alert, one transaction for each match.
InsertAlert(e) ==
    /\ pc = "insert" /\ e \in todo
    /\ todo' = todo \ {e}
    /\ pc' = IF todo' = {} THEN "idle" ELSE "insert"
    /\ UNCHANGED <<table, copy, copyAge, asset, inAge, outAge>>

\* It throws: the matches that follow get no alert either.
InsertThrows ==
    /\ Faults
    /\ pc = "insert" /\ pc' = "idle"
    /\ todo' = {}
    /\ UNCHANGED <<table, copy, copyAge, asset, inAge, outAge>>
-----------------------------------------------------------------------------
(* The REST endpoints.                                                     *)

PostEntry(e) ==
    /\ e \notin table /\ Cardinality(table) < MaxRows
    /\ table' = table \cup {e}
    /\ inAge' = [inAge EXCEPT ![e] = 0] /\ outAge' = [outAge EXCEPT ![e] = 0]
    /\ UNCHANGED <<copy, copyAge, asset, pc, todo>>

DeleteEntry(e) ==
    /\ e \in table
    /\ table' = table \ {e}
    /\ outAge' = [outAge EXCEPT ![e] = 0]
    /\ UNCHANGED <<copy, copyAge, asset, pc, todo, inAge>>

Second(age) == IF age < Ttl THEN age + 1 ELSE age

\* The rule takes no time.
Tick ==
    /\ pc = "idle"
    /\ copyAge' = Second(copyAge)
    /\ inAge' = [e \in Entry |-> IF e \in table THEN Second(inAge[e]) ELSE inAge[e]]
    /\ outAge' = [e \in Entry |-> IF e \in table THEN 0 ELSE Second(outAge[e])]
    /\ UNCHANGED <<table, copy, asset, pc, todo>>

Next ==
    \/ \E a \in Asset : Evaluate(a)
    \/ Reload \/ ReloadThrows \/ Match \/ InsertThrows \/ Tick
    \/ \E e \in Entry : InsertAlert(e) \/ PostEntry(e) \/ DeleteEntry(e)

Spec == Init /\ [][Next]_vars
-----------------------------------------------------------------------------
(* Properties.                                                             *)

\* A row that has been in the table for longer than the copy is old is in the
\* copy, and one that has been out of it for longer is not.
CopyIsSnapshot ==
    \A e \in Entry :
        /\ e \in table /\ inAge[e] > copyAge => e \in copy
        /\ e \notin table /\ outAge[e] > copyAge => e \notin copy

\* Whatever is edited or fails meanwhile, an alert is about a row that is in the
\* table or left it less than the time to live ago.
AlertIsRecent == pc = "insert" => \A e \in todo : e \in table \/ outAge[e] < Ttl

\* The row names an address of the asset of the event.
NamesAsset(e) == e.mac = <<asset.mac, Upper>> \/ (e.ip # None /\ e.ip = asset.ip)

\* An event that is evaluated raises an alert for every row that names one of
\* the addresses of its asset, and was in the table for the time to live.
SeasonedRowMatches ==
    [][Match => \A e \in table :
          inAge[e] >= Ttl /\ NamesAsset(e) => e \in todo']_vars

\* README.md:147: an immediate alert for a device whose address is in the table.
ImmediateAlert ==
    [][Match => \A e \in table : NamesAsset(e) => e \in todo']_vars

\* README.md:147: the device with a mac of the table raises the alert, however
\* the client wrote the mac.
AnySpellingMatches ==
    [][Match => \A e \in table :
          e.mac # None /\ e.mac[1] = asset.mac /\ inAge[e] >= Ttl => e \in todo']_vars
=============================================================================
