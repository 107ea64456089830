--------------------------------- MODULE Rest ---------------------------------
(***************************************************************************)
(* What a client of the REST API depends on: the handlers and the          *)
(* connection they share ("handlers"), a walk through the pages of a list  *)
(* that goes on changing ("walk"), and the numbers of one request for a    *)
(* page ("numbers").  The walk takes the handler for one step and the      *)
(* handlers take the list for one statement, so a behaviour follows one of *)
(* the three.                                                              *)
(***************************************************************************)
EXTENDS RestConnection

CONSTANTS
    Size, First, Batch, MaxRows, MaxChanges,       \* of ListPages
    Half, MaxTotal                                \* of PageNumbers

VARIABLES part,
          list, time, clock, listed, page, total, client, screen, shown, start, began, quiet, changes,
          asked, count, reply

Lists == INSTANCE ListPages WITH pc <- client

Numbers == INSTANCE PageNumbers WITH total <- count, answer <- reply

ASSUME RestAssumption == Lists!PagesAssumption /\ Numbers!RangeAssumption

walk    == <<list, time, clock, listed, page, total, client, screen, shown,
             start, began, quiet, changes>>
request == <<asked, count, reply>>

NoRequest == asked = {} /\ count = 0 /\ reply = {}

RestInit ==
    /\ Init /\ Lists!Init
    /\ \/ part \in {"handlers", "walk"} /\ NoRequest
       \/ part = "numbers" /\ Numbers!Init
    /\ part # "walk" => list = "alerts" /\ time = [r \in 1..First |-> First]

Handle == part = "handlers" /\ Next /\ UNCHANGED <<part, walk, request>>

Walk == part = "walk" /\ Lists!Next /\ UNCHANGED <<part, vars, request>>

Compute == part = "numbers" /\ Numbers!Next /\ UNCHANGED <<part, vars, walk>>

Computed == part = "numbers" /\ reply.kind # "none" /\ UNCHANGED <<part, vars, walk, request>>

RestNext == Handle \/ Walk \/ Compute \/ Computed

RestSpec ==
    /\ RestInit /\ [][RestNext]_<<part, vars, walk, request>>
    /\ \A w \in Worker : WF_vars(Step(w))
-----------------------------------------------------------------------------
\* The pages of a list add up although rows with one time come in any order: a walk
\* passes over no row that stays where it is and has a time of its own, however the list
\* changes; while it does not, a row is on one page, and the walk comes to it, unless its
\* page ends in the midst of the rows of its time; and the numbers of an answer are those
\* of the request exactly when the last row before the page, and the last page filled up,
\* have numbers in the range of int (the list handlers of RestServer and the queries of
\* DbManager).
PagesAddUp ==
    /\ part = "walk" => Lists!TypeOK /\ Lists!NoGap /\ Lists!PagesPartition
    /\ part = "numbers" => Numbers!TypeOK /\ Numbers!RightIffFits
=============================================================================
