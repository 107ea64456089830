------------------------------ MODULE AlertsPage ------------------------------
(***************************************************************************)
(* The alerts page of the dashboard (web/app.js): its list, the buttons    *)
(* that acknowledge, the badge and the poller that announces new alerts.   *)
(* Nothing waits: every function sends a request and goes on when its      *)
(* answer arrives, so several are under way, the server handles them in    *)
(* any order and their answers arrive in any order.  What a function does  *)
(* after an await reads the filter and the page number as they are then.   *)
(*                                                                         *)
(* The filter by severity is left out, it is handled as the other one.     *)
(* The two statements of a page are taken together; see ListPages.         *)
(***************************************************************************)
EXTENDS Naturals, FiniteSets

CONSTANTS
    Size,           \* page_size
    MaxAlerts,      \* bound: the number of alerts
    MaxCalls,       \* bound: the user clicks while fewer calls than this are under way
    MaxPolls,       \* bound: polls under way at once
    MaxFaults       \* bound: how many requests fail

ASSUME AlertsPageAssumption ==
    /\ Size \in Nat \ {0}
    /\ {MaxAlerts, MaxCalls, MaxPolls, MaxFaults} \subseteq Nat

VARIABLES
    known, open,    \* the table: alerts 1..known, a later one is newer; not acknowledged
    call,           \* the requests under way, each in a slot
    faults,         \* how many failed
    here,           \* the alerts page is displayed
    filter, page,   \* its filter, and pagination.alerts.page
    rows,           \* what its table shows
    bar,            \* the page highlighted in its bar, and how many there are
    badge,          \* the number in the badge, 0 if it is hidden
    last,           \* lastKnownAlertCount
    crossed,        \* history: the last list was asked for while another was under way
    disturbed,      \* history: since the page was opened an alert was acknowledged, a list
                    \* failed, or one before the last was asked for while another was under way
    resolved,       \* history: alerts a toast called resolved
    refused,        \* history: alerts whose acknowledgement the server failed
    polled,         \* history: known at the last answer to a poll, and whether the last poll was
                    \* sent while another was under way
    alarm           \* history: what a toast announced since the last poll was sent

table   == <<known, open>>
view    == <<here, filter, page, rows, bar>>
counts  == <<badge, last>>
history == <<crossed, disturbed, resolved, refused, polled, alarm>>
vars    == <<table, call, faults, view, counts, history>>

Alert  == 1..MaxAlerts
Slot   == 1..(2 * MaxCalls + MaxPolls)
Filter == {"unacknowledged", "all"}
Free   == [kind |-> "free"]
NoBar  == [page |-> 1, pages |-> 0]

Blank(what)   == [what |-> what]
Table(answer) == [what |-> "rows", for |-> answer.for, data |-> answer.data, total |-> answer.total]

Busy(kinds) == {s \in Slot : call[s].kind \in kinds}

TypeOK ==
    /\ known \in 0..MaxAlerts /\ open \subseteq 1..known
    /\ \A s \in Slot : call[s].kind \in {"free", "list", "ack", "count", "poll"}
    /\ faults \in 0..MaxFaults
    /\ here \in BOOLEAN /\ filter \in Filter /\ page \in 1..(MaxAlerts + 2)
    /\ rows.what \in {"loading", "error", "rows"}
    /\ rows.what = "rows" => /\ DOMAIN rows.data \subseteq 1..known
                             /\ Cardinality(DOMAIN rows.data) <= Size
    /\ bar # NoBar => bar.pages \in 2..MaxAlerts /\ bar.page \in 1..(MaxAlerts + 2)
    /\ badge \in 0..MaxAlerts /\ last \in 0..MaxAlerts
    /\ crossed \in BOOLEAN /\ disturbed \in BOOLEAN
    /\ resolved \subseteq 1..known /\ refused \subseteq 1..known
    /\ alarm \in {"none", "new", "false"}

Init ==
    /\ known \in 0..MaxAlerts /\ open = 1..known
    /\ call = [s \in Slot |-> Free] /\ faults = 0
    /\ here = FALSE /\ filter = "unacknowledged" /\ page = 1
    /\ rows = Blank("loading") /\ bar = NoBar
    /\ badge = 0 /\ last = 0
    /\ crossed = FALSE /\ disturbed = FALSE
    /\ resolved = {} /\ refused = {} /\ polled = [known |-> known, lapped |-> FALSE] /\ alarm = "none"

\* A slot for a request, and one for a second request sent with it.
Slot1    == CHOOSE s \in Busy({"free"}) : \A t \in Busy({"free"}) : s <= t
Slot2(s) == CHOOSE t \in Busy({"free"}) \ {s} : \A u \in Busy({"free"}) \ {s} : t <= u

\* loadAlertsList up to its await. Its table is the one displayed now.
ListCall(p, f) == [kind |-> "list", at |-> "sent", for |-> [page |-> p, filter |-> f], mine |-> TRUE]
CountCall      == [kind |-> "count", at |-> "sent"]

\* A new table takes the place of the one that the requests under way know.
Disowned == [s \in Slot |->
    IF call[s].kind = "list" THEN [call[s] EXCEPT !.mine = FALSE] ELSE call[s]]

MayClick == Cardinality(Busy({"list", "ack", "count"})) < MaxCalls

\* renderAlerts: a new page with a new table, whose list is asked for.
Render(calls) ==
    /\ here' = TRUE /\ filter' = "unacknowledged" /\ page' = 1
    /\ rows' = Blank("loading") /\ bar' = NoBar
    /\ call' = [calls EXCEPT ![Slot1] = ListCall(1, "unacknowledged")]
    /\ crossed' = (Busy({"list"}) # {}) /\ disturbed' = FALSE
    /\ UNCHANGED <<table, faults, counts, resolved, refused, polled, alarm>>

\* A click on the navigation: loadPage.
OpenPage == MayClick /\ Render(Disowned)

\* The button of refreshCurrentPage, which asks for the count too.
Refresh == here /\ MayClick /\ Render([Disowned EXCEPT ![Slot2(Slot1)] = CountCall])

\* Another page takes the place of this one.
Leave ==
    /\ here /\ here' = FALSE
    /\ filter' = "unacknowledged" /\ rows' = Blank("loading") /\ bar' = NoBar
    /\ call' = Disowned
    /\ UNCHANGED <<table, faults, page, counts, history>>

\* loadAlertsList for a click.
Load(p, f) ==
    /\ call' = [call EXCEPT ![Slot1] = ListCall(p, f)]
    /\ crossed' = (Busy({"list"}) # {}) /\ disturbed' = (disturbed \/ crossed)
    /\ UNCHANGED <<table, faults, here, rows, bar, counts, resolved, refused, polled, alarm>>

\* onAlertsFilter
SetFilter(f) ==
    /\ here /\ MayClick /\ f # filter
    /\ filter' = f /\ page' = 1
    /\ Load(1, f)

\* The buttons of renderPagination: the pages around this one, the first, the
\* last, and the arrows.
Buttons ==
    {p \in 1..bar.pages : p = 1 \/ (bar.page <= p + 2 /\ p <= bar.page + 2)}
        \cup (IF bar.page < bar.pages THEN {bar.pages, bar.page + 1} ELSE {})
        \cup (IF bar.page > 1 THEN {bar.page - 1} ELSE {})

\* goAlertsPage
GoPage(p) ==
    /\ here /\ MayClick /\ bar # NoBar
    /\ page' = p
    /\ Load(p, filter)
    /\ UNCHANGED filter

Ack(id) == [kind |-> "ack", at |-> "sent", id |-> id]

\* The button of a row that is not acknowledged: ackAlert up to its await.
Acknowledge(id) ==
    /\ here /\ MayClick
    /\ rows.what = "rows" /\ id \in DOMAIN rows.data /\ ~rows.data[id]
    /\ call' = [call EXCEPT ![Slot1] = Ack(id)]
    /\ UNCHANGED <<table, faults, view, counts, history>>

\* The interval of the poller has passed; it does not ask whether the last poll
\* was answered.
Poll ==
    /\ Cardinality(Busy({"poll"})) < MaxPolls
    /\ call' = [call EXCEPT ![Slot1] = [kind |-> "poll", at |-> "sent"]]
    /\ polled' = [polled EXCEPT !.lapped = Busy({"poll"}) # {}] /\ alarm' = "none"
    /\ UNCHANGED <<table, faults, view, counts, crossed, disturbed, resolved, refused>>
-----------------------------------------------------------------------------
(* The server.                                                             *)

\* A rule generates an alert.
NewAlert ==
    /\ known < MaxAlerts
    /\ known' = known + 1 /\ open' = open \cup {known + 1}
    /\ UNCHANGED <<call, faults, view, counts, history>>

\* The answer of get_alerts_paged: newest first, Size of them after the pages before.
ListAnswer(for) ==
    LET list == IF for.filter = "all" THEN 1..known ELSE open
        Before(id) == Cardinality({q \in list : q > id})
        ids  == {id \in list : Before(id) >= (for.page - 1) * Size /\ Before(id) < for.page * Size}
    IN  [data |-> [id \in ids |-> id \notin open], total |-> Cardinality(list)]

Answered(s, answer) == call' = [call EXCEPT ![s] = answer]

HandleList(s) ==
    /\ call[s].kind = "list" /\ call[s].at = "sent"
    /\ LET a == ListAnswer(call[s].for)
       IN  Answered(s, [kind |-> "list", at |-> "ok", for |-> call[s].for, mine |-> call[s].mine,
                        data |-> a.data, total |-> a.total])
    /\ UNCHANGED <<table, faults, view, counts, history>>

HandleAck(s) ==
    /\ call[s].kind = "ack" /\ call[s].at = "sent"
    /\ open' = open \ {call[s].id} /\ disturbed' = TRUE
    /\ Answered(s, [call[s] EXCEPT !.at = "ok"])
    /\ UNCHANGED <<known, faults, view, counts, crossed, resolved, refused, polled, alarm>>

\* GET /api/stats, with the number of alerts at that time (history).
HandleStats(s) ==
    /\ call[s].kind \in {"count", "poll"} /\ call[s].at = "sent"
    /\ Answered(s, [kind |-> call[s].kind, at |-> "ok", count |-> Cardinality(open), known |-> known])
    /\ UNCHANGED <<table, faults, view, counts, history>>

\* The server answers 500, or the request or its answer is lost.
Fail(s) ==
    /\ call[s].kind # "free" /\ faults < MaxFaults
    /\ faults' = faults + 1
    /\ \E how \in (IF call[s].at = "sent" THEN {"error", "down"} ELSE {"down"}) :
          /\ call[s].at \in {"sent", "ok"}
          /\ Answered(s, [call[s] EXCEPT !.at = how])
          /\ refused' = IF how = "error" /\ call[s].kind = "ack" THEN refused \cup {call[s].id}
                                                                ELSE refused
    /\ UNCHANGED <<table, view, counts, crossed, disturbed, resolved, polled, alarm>>
-----------------------------------------------------------------------------
(* The answers arrive.                                                     *)

TotalPages(total) == (total + Size - 1) \div Size

\* Defect: a list of one page leaves the bar as it is.
BarStays(p, pages) == IF pages <= 1 THEN bar ELSE [page |-> p, pages |-> pages]

\* renderPagination
Bar(p, pages) == IF pages <= 1 THEN NoBar ELSE [page |-> p, pages |-> pages]

\* The rest of loadAlertsList. It writes into the table it was called for, and
\* draws the bar of the page that is displayed, for the page number of now.
ListArrives(s) ==
    /\ call[s].kind = "list" /\ call[s].at # "sent"
    /\ LET c == call[s]
       IN  IF c.at = "ok"
             THEN /\ rows' = IF c.mine THEN Table(c) ELSE rows
                  /\ bar' = IF here THEN Bar(page, TotalPages(c.total)) ELSE NoBar
             ELSE rows' = (IF c.mine THEN Blank("error") ELSE rows) /\ UNCHANGED bar
    /\ call' = [call EXCEPT ![s] = Free]
    /\ disturbed' = (disturbed \/ call[s].at # "ok")
    /\ UNCHANGED <<table, faults, here, filter, page, counts, crossed, resolved, refused, polled, alarm>>

\* The rest of ackAlert. The status of the answer is not looked at; only a request
\* that got none throws.
AckArrives(s) ==
    /\ call[s].kind = "ack" /\ call[s].at # "sent"
    /\ IF call[s].at = "down"
         THEN call' = [call EXCEPT ![s] = Free] /\ UNCHANGED <<crossed, disturbed, resolved>>
         ELSE /\ IF here
                   THEN /\ call' = [call EXCEPT ![s] = CountCall, ![Slot1] = ListCall(page, filter)]
                        /\ crossed' = (Busy({"list"}) # {}) /\ disturbed' = (disturbed \/ crossed)
                   ELSE call' = [call EXCEPT ![s] = CountCall] /\ UNCHANGED <<crossed, disturbed>>
              /\ resolved' = resolved \cup {call[s].id}
    /\ UNCHANGED <<table, faults, view, counts, refused, polled, alarm>>

\* Defect: a badge that has nothing to count stays.
BadgeStays(count) == IF count > 0 THEN count ELSE badge

\* The badge is hidden when there is nothing to count.
Badge(count) == count

\* The rest of fetchAlertCount.
CountArrives(s) ==
    /\ call[s].kind = "count" /\ call[s].at # "sent"
    /\ badge' = IF call[s].at = "ok" THEN Badge(call[s].count) ELSE badge
    /\ call' = [call EXCEPT ![s] = Free]
    /\ UNCHANGED <<table, faults, view, last, history>>

\* More alerts are open than at the last poll, which found some.
Announces(count) == count > last /\ last > 0

\* The rest of a poll.
PollArrives(s) ==
    /\ call[s].kind = "poll" /\ call[s].at # "sent"
    /\ LET c == call[s]
       IN  IF c.at = "ok"
             THEN /\ badge' = Badge(c.count) /\ last' = c.count
                  /\ alarm' = IF ~Announces(c.count) THEN "none"
                              ELSE IF c.known > polled.known THEN "new" ELSE "false"
                  /\ polled' = [polled EXCEPT !.known = c.known]
             ELSE UNCHANGED <<badge, last, alarm, polled>>
    /\ call' = [call EXCEPT ![s] = Free]
    /\ UNCHANGED <<table, faults, view, crossed, disturbed, resolved, refused>>

Handle(s)  == HandleList(s) \/ HandleAck(s) \/ HandleStats(s)
Arrives(s) == ListArrives(s) \/ AckArrives(s) \/ CountArrives(s) \/ PollArrives(s)

Next ==
    \/ OpenPage \/ Refresh \/ Leave \/ Poll \/ NewAlert
    \/ \E f \in Filter : SetFilter(f)
    \/ \E p \in Buttons : GoPage(p)
    \/ \E id \in Alert : Acknowledge(id)
    \/ \E s \in Slot : Handle(s) \/ Fail(s) \/ Arrives(s)

Spec == Init /\ [][Next]_vars
-----------------------------------------------------------------------------
(* Properties.                                                             *)

\* When no list is under way and the last one was asked for with no other under way,
\* whatever overlapped before: the rows are those of the filter and the page number that
\* the page has, and the bar highlights that page, for the total that came with the rows.
ShowsWhatWasAsked ==
    here /\ rows.what = "rows" /\ ~crossed /\ Busy({"list"}) = {} =>
        /\ rows.for = [page |-> page, filter |-> filter]
        /\ bar = (IF TotalPages(rows.total) <= 1 THEN NoBar
                  ELSE [page |-> page, pages |-> TotalPages(rows.total)])

\* "No alerts found" means that there are none: always on the first page, and on the
\* others unless, since the page was opened, lists overlapped, an alert was acknowledged
\* (which may empty the page it is on) or a list failed (which leaves the bar of the list
\* before).
EmptyMeansNone ==
    here /\ rows.what = "rows" /\ rows.data = <<>> /\ (rows.for.page = 1 \/ (~crossed /\ ~disturbed))
        => rows.total = 0

\* An alert that a toast calls resolved is acknowledged in the table, unless the
\* server failed the request, whose status is not looked at.
ResolvedMeansMarked == resolved \cap open \subseteq refused

\* After a poll that was sent with no other under way, whatever overlapped before, the
\* toast of a new alert means that one was generated between the last two answers.
AlarmMeansNew == ~polled.lapped => alarm # "false"

\* What the page says is true as soon as requests stop overlapping: the rows and the bar
\* are those that were asked for, an empty list means that there are no alerts, a toast
\* of a new alert that it is new; and a toast that an alert is resolved means that it is
\* unless the server failed the request (loadAlertsList, ackAlert and the poller of
\* app.js).
PageTellsTruth ==
    TypeOK /\ ShowsWhatWasAsked /\ EmptyMeansNone /\ ResolvedMeansMarked /\ AlarmMeansNew
=============================================================================
