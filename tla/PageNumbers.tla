----------------------------- MODULE PageNumbers -----------------------------
(***************************************************************************)
(* The arithmetic of a paged list: what the REST API makes of the page and *)
(* the page size a client sends, which rows it asks the database for, and  *)
(* the number of pages it reports.  All of it is done in int; overflow is  *)
(* undefined, and on the machines the program is built for it wraps.       *)
(***************************************************************************)
EXTENDS Integers

CONSTANTS
    Half,           \* half the range of an int (2^31 in the code)
    MaxTotal        \* bound: the number of rows, which is far from the range of int

RangeAssumption == Half \in Nat /\ MaxTotal \in Nat /\ MaxTotal + 20 < Half

Int32 == (-Half)..(Half - 1)

Fits(n) == n \in Int32
Wrap(n) == ((n + Half) % (2 * Half)) - Half

VARIABLES
    asked,          \* page and page_size of the request, after std::stoi
    total,          \* what COUNT says
    answer          \* the answer: "none" yet, "rows", or "error"

vars == <<asked, total, answer>>

Answers == [kind : {"rows"}, offset : 0..(Half - 1), limit : 1..(Half - 1), total_pages : Int32]
               \cup [kind : {"none", "error"}]

TypeOK ==
    /\ asked \in [page : Int32, size : Int32]
    /\ total \in 0..MaxTotal
    /\ answer \in Answers

Init ==
    /\ asked \in [page : Int32, size : Int32]
    /\ total \in 0..MaxTotal
    /\ answer = [kind |-> "none"]

Page(page) == IF page < 1 THEN 1 ELSE page

PageSize(size) == IF size < 1 THEN 20 ELSE size

Offset(page, size) == Wrap(Wrap(page - 1) * size)

\* Division of int truncates towards zero; size is positive.
Divide(n, size) == IF n >= 0 THEN n \div size ELSE -((-n) \div size)

TotalPages(count, size) == Divide(Wrap(Wrap(count + size) - 1), size)

\* PostgreSQL refuses a negative OFFSET; the handler then answers with an error.
Serve ==
    /\ answer.kind = "none"
    /\ LET page   == Page(asked.page)
           size   == PageSize(asked.size)
           offset == Offset(page, size)
       IN  answer' = IF offset < 0 THEN [kind |-> "error"]
                     ELSE [kind |-> "rows", offset |-> offset, limit |-> size,
                           total_pages |-> TotalPages(total, size)]
    /\ UNCHANGED <<asked, total>>

Next == Serve

Spec == Init /\ [][Next]_vars
-----------------------------------------------------------------------------
(* Properties.                                                             *)

\* The rows of the answer are those of the page, and the pages cover all rows
\* without an empty one at the end.
InPlace ==
    /\ answer.kind = "rows"
    /\ asked.page >= 1 => answer.offset = (asked.page - 1) * answer.limit
    /\ asked.page < 1 => answer.offset = 0
    /\ answer.total_pages * answer.limit >= total
    /\ (answer.total_pages - 1) * answer.limit < total

\* A request, zero and negative numbers included, is answered with its page exactly
\* when two numbers fit into an int: that of the last row before the page, and that of
\* the last place on the last page, counted from the end of the list.
RightIffFits ==
    answer.kind # "none" =>
        LET size == PageSize(asked.size)
        IN  InPlace <=> Fits((Page(asked.page) - 1) * size) /\ Fits(total + size - 1)

\* rest_server.cpp:113-114: the answer to ?page=&page_size= holds the data of that
\* page and the number of pages.
RequestInPlace == answer.kind # "none" => InPlace
=============================================================================
