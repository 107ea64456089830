------------------------------ MODULE ListPages ------------------------------
(***************************************************************************)
(* A client that walks through a paged list of the REST API, page after    *)
(* page, while the tracker goes on writing.  A page is two statements of   *)
(* one transaction, COUNT and the rows, and under READ COMMITTED each sees *)
(* the table as it is at that moment.  The rows are ordered by time alone, *)
(* newest first, and rows with the same time come in any order, which may  *)
(* differ from one query to the next.                                      *)
(*                                                                         *)
(* The time is the one the query sorts by.  Assets have that of their last *)
(* transaction and events that of their batch; get_alerts_paged sorts by   *)
(* its output column ts, the time as text, which ends at the second.  So   *)
(* rows often have one time: those of a transaction always, and those of   *)
(* two transactions when the clock did not tick in between.                *)
(*                                                                         *)
(* The client is the dashboard: it goes to the next page as long as the    *)
(* last answer said there is one.                                          *)
(***************************************************************************)
EXTENDS Naturals, FiniteSets, FiniteSetsExt

CONSTANTS
    Size,           \* page_size
    First,          \* the number of rows when the walk begins
    Batch,          \* bound: how many events one transaction of the tracker writes
    MaxRows,        \* bound: the number of rows
    MaxChanges      \* bound: how often the list changes

PagesAssumption ==
    /\ Size \in Nat \ {0} /\ Batch \in Nat \ {0}
    /\ First \in Nat \ {0} /\ MaxRows \in Nat /\ MaxChanges \in Nat /\ First <= MaxRows

VARIABLES
    list,           \* what is listed: "assets", "alerts" or "events"
    time,           \* what the query sorts each row by (ts or last_seen), in ids 1..n
    clock,          \* that of NOW() in the last transaction
    listed,         \* the rows that the filter of the list lets pass
    page,           \* pagination.<list>.page
    total,          \* pagination.<list>.total: the last count
    pc,             \* the client: "load", "counted", "view"
    screen,         \* the rows of the last answer
    shown,          \* history: the rows that some page of this walk showed
    start, began,   \* history: the rows listed when the walk began, with their times; the clock
    quiet,          \* history: nothing changed since
    changes         \* history: how often the list changed, over all walks

table == <<time, clock, listed>>
vars  == <<list, table, page, total, pc, screen, shown, start, began, quiet, changes>>

TypeOK ==
    /\ list \in {"assets", "alerts", "events"}
    /\ \E n \in 0..MaxRows : time \in [1..n -> 0..clock]
    /\ clock \in Nat
    /\ listed \subseteq DOMAIN time /\ \E S \in SUBSET DOMAIN time : start \in [S -> 0..clock]
    /\ screen \subseteq shown /\ shown \subseteq DOMAIN time
    /\ page \in Nat \ {0} /\ total \in 0..MaxRows
    /\ pc \in {"load", "counted", "view"}
    /\ began \in 0..clock /\ quiet \in BOOLEAN /\ changes \in 0..MaxChanges

\* The client opens the list or changes its filter.
Begin(rows) ==
    /\ page' = 1 /\ pc' = "load"
    /\ screen' = {} /\ shown' = {} /\ start' = [r \in rows |-> time[r]]
    /\ began' = clock /\ quiet' = TRUE

\* Times never fall from row to row; each is its successor's or the one before.
Init ==
    /\ list \in {"assets", "alerts", "events"}
    /\ clock = First
    /\ time \in [1..First -> 0..First]
    /\ time[First] \in {First - 1, First}
    /\ \A r \in 1..(First - 1) : time[r] \in {time[r + 1] - 1, time[r + 1]}
    /\ listed = 1..First /\ start = time
    /\ page = 1 /\ total = 0 /\ pc = "load"
    /\ screen = {} /\ shown = {}
    /\ began = First /\ quiet = TRUE /\ changes = 0

Open == pc = "view" /\ Begin(listed) /\ UNCHANGED <<list, table, total, changes>>

\* Bounded by MaxChanges.
Change == changes < MaxChanges /\ changes' = changes + 1 /\ quiet' = FALSE

\* A transaction of the tracker: NOW() as the query shows it, perhaps one tick later.
Now == {clock, clock + 1}

\* insert_events_batch, insert_alert and upsert_asset: the rows of a transaction have
\* its time; only events come several in one. Bounded by Batch and MaxRows.
Insert ==
    /\ \E k \in (IF list = "events" THEN 1..Batch ELSE {1}), t \in Now :
          LET n == Cardinality(DOMAIN time)
          IN  /\ n + k <= MaxRows
              /\ time' = [r \in 1..(n + k) |-> IF r \in DOMAIN time THEN time[r] ELSE t]
              /\ listed' = listed \cup (n + 1)..(n + k)
              /\ clock' = t
    /\ Change
    /\ UNCHANGED <<list, page, total, pc, screen, shown, start, began>>

\* update_asset_last_seen.
Touch(r) ==
    /\ list = "assets"
    /\ \E t \in Now : time' = [time EXCEPT ![r] = t] /\ clock' = t
    /\ Change
    /\ UNCHANGED <<list, listed, page, total, pc, screen, shown, start, began>>

\* ackAlert in the list of the alerts that are not acknowledged: the alert leaves
\* the list and the client loads its page again.
Acknowledge(r) ==
    /\ list = "alerts"
    /\ pc = "view" /\ r \in screen \cap listed
    /\ listed' = listed \ {r}
    /\ pc' = "load"
    /\ Change
    /\ UNCHANGED <<list, time, clock, page, total, screen, shown, start, began>>

\* The first statement of a request.
Count ==
    /\ pc = "load"
    /\ total' = Cardinality(listed)
    /\ pc' = "counted"
    /\ UNCHANGED <<list, table, page, screen, shown, start, began, quiet, changes>>

\* What the first k rows may be.
FirstRows(k) ==
    {S \in kSubset(IF k <= Cardinality(listed) THEN k ELSE Cardinality(listed), listed) :
        \A r \in S, q \in listed \ S : time[q] <= time[r]}

\* Defect: the offset counts pages from zero.
PagesFromZero(p) ==
    {cut[2] \ cut[1] : cut \in
        {ST \in FirstRows(p * Size) \X FirstRows(p * Size + Size) : ST[1] \subseteq ST[2]}}

\* What LIMIT Size OFFSET (p - 1) * Size may give.
Pages(p) ==
    {cut[2] \ cut[1] : cut \in
        {ST \in FirstRows((p - 1) * Size) \X FirstRows(p * Size) : ST[1] \subseteq ST[2]}}

TotalPages(count) == (count + Size - 1) \div Size

\* The second statement, and the answer.
Data ==
    /\ pc = "counted"
    /\ \E rows \in Pages(page) : screen' = rows /\ shown' = shown \cup rows
    /\ pc' = "view"
    /\ UNCHANGED <<list, table, page, total, start, began, quiet, changes>>

\* The button of the next page, which is enabled unless this is the last.
Turn ==
    /\ pc = "view" /\ page < TotalPages(total)
    /\ page' = page + 1 /\ pc' = "load"
    /\ UNCHANGED <<list, table, total, screen, shown, start, began, quiet, changes>>

Next ==
    \/ Open \/ Count \/ Data \/ Turn \/ Insert
    \/ \E r \in DOMAIN time : Touch(r) \/ Acknowledge(r)

Spec == Init /\ [][Next]_vars
-----------------------------------------------------------------------------
(* Properties.                                                             *)

\* The rows that were there when the walk began, are still, were not touched, and have
\* a time that no other had then and none can have got since.
Settled ==
    {r \in DOMAIN start \cap listed :
        /\ time[r] = start[r] /\ start[r] < began
        /\ \A q \in DOMAIN start : start[q] = start[r] => q = r}

\* README.md:157-161: the pages make the list: a client that arrives at the last
\* page was shown every row that was there when it began and still is.
NothingMissed ==
    pc = "view" /\ page >= TotalPages(total) => DOMAIN start \cap listed \subseteq shown

\* The pages leave no gap: a settled row is not passed over, that is, it was shown
\* before any older row, although new and touched rows shift the pages, and
\* acknowledged ones drop out of the middle.
NoGap ==
    \A r \in Settled, q \in shown \cap listed : time[r] > time[q] => r \in shown

Newer(r)   == {q \in listed : time[q] > time[r]}
AtLeast(r) == {q \in listed : time[q] >= time[r]}

\* All rows with the time of r have their place on page p.
Belongs(r, p) == (p - 1) * Size <= Cardinality(Newer(r)) /\ Cardinality(AtLeast(r)) <= p * Size

\* While nothing changes a row is on one page and the walk comes to it, unless its time
\* is that of another and a page ends between them.
PagesPartition ==
    quiet /\ pc = "view" =>
        \A r \in listed, p \in 1..MaxRows : Belongs(r, p) =>
            /\ r \in screen <=> page = p
            /\ page >= TotalPages(total) => r \in shown
=============================================================================
