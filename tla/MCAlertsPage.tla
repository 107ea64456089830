----------------------------- MODULE MCAlertsPage -----------------------------
(***************************************************************************)
(* The alerts page for TLC, which looks at what the user of the list sees, *)
(* with two clicks at a time ("list") and with requests that fail          *)
(* ("lost"), at what the badge counts ("badge"), and at what the poller    *)
(* announces ("toast"), with two polls at a time. A behaviour keeps to the *)
(* bounds of one; but for "list", the user waits for each list. What the   *)
(* user does with the list plays no part for the badge and the toast and   *)
(* is left out there.                                                      *)
(***************************************************************************)
EXTENDS AlertsPage

VARIABLE part

Bounds ==
    [list  |-> [calls |-> 2, polls |-> 0, faults |-> 0, alerts |-> 2],
     lost  |-> [calls |-> 1, polls |-> 0, faults |-> 2, alerts |-> 2],
     badge |-> [calls |-> 1, polls |-> 2, faults |-> 1, alerts |-> 1],
     toast |-> [calls |-> 1, polls |-> 2, faults |-> 0, alerts |-> 2]]

\* An acknowledgement counts for the two requests that follow it.
Load2 == Cardinality(Busy({"list", "count"})) + 2 * Cardinality(Busy({"ack"}))

InBounds ==
    LET b == Bounds[part]
    IN  /\ Load2 <= 2 * b.calls /\ Cardinality(Busy({"poll"})) <= b.polls
        /\ faults <= b.faults /\ known <= b.alerts
        /\ part # "list" => ~crossed
        /\ part \in {"badge", "toast"} => page = 1 /\ filter = "unacknowledged"

MCInit == Init /\ part \in DOMAIN Bounds /\ known = (IF part = "badge" THEN 0 ELSE 1)

MCNext ==
    /\ Next /\ UNCHANGED part
    /\ InBounds'
    /\ part \in {"badge", "toast"} /\ here => here'

MCSpec ==
    /\ MCInit /\ [][MCNext]_<<part, vars>>
    /\ WF_<<part, vars>>(part = "badge" /\ Poll /\ UNCHANGED part)
    /\ \A s \in Slot :
          /\ WF_<<part, vars>>(part = "badge" /\ Handle(s) /\ UNCHANGED part)
          /\ WF_<<part, vars>>(part = "badge" /\ Arrives(s) /\ UNCHANGED part)
-----------------------------------------------------------------------------
\* When nothing changes any more the badge comes to count the open alerts, whatever
\* failed and in whatever order the counts of polls and clicks arrived (fetchAlertCount
\* and the poller of app.js).
BadgeSettles ==
    \A n \in 0..1 :
        <>[](part = "badge" /\ Cardinality(open) = n) => <>[](badge = n)
=============================================================================
