----------------------------- MODULE SsdpHeaders -----------------------------
(***************************************************************************)
(* parse_ssdp with BinaryReader::read_line: a text of lines, of which the  *)
(* first names the method and the others, up to an empty one, are headers  *)
(* "key: value".  The text is a sequence of pieces: the ends of lines, the *)
(* colon, and words of which some are a key in capitals or not.            *)
(***************************************************************************)
EXTENDS Integers, Sequences, SequencesExt, FiniteSetsExt

CONSTANTS
    FirstLines,     \* pieces the text may begin with
    Pieces,         \* pieces of what follows
    MaxLen          \* bound: how many pieces follow

VARIABLES
    text,           \* the message
    phase,          \* "method", "headers", "done" or "refused"
    pos,            \* the next piece to read
    headers         \* the headers that were read: a function of their keys

vars == <<text, phase, pos, headers>>

Size == Len(text)

AllPieces == Pieces \union UNION {ToSet(f) : f \in FirstLines}

TypeOK ==
    /\ text \in Seq(AllPieces)
    /\ phase \in {"method", "headers", "done", "refused"}
    /\ pos \in 0..Size
    /\ \A k \in DOMAIN headers : headers[k] \in Seq(AllPieces)

Init ==
    /\ \E f \in FirstLines, rest \in BoundedSeq(Pieces, MaxLen) : text = f \o rest
    /\ phase = "method" /\ pos = 0
    /\ headers = <<>>

CrLfs(p) == {i \in p..Size - 2 : text[i + 1] = "CR" /\ text[i + 2] = "LF"}
Lfs(p)   == {i \in p..Size - 1 : text[i + 1] = "LF"}

\* read_line: a line ends at the next CR LF; only when the rest has none, at the next
\* LF.  Without either there is no line.
HasLine(p) == CrLfs(p) # {} \/ Lfs(p) # {}

LineEnd(p) == IF CrLfs(p) # {} THEN Min(CrLfs(p)) ELSE Min(Lfs(p))

NextLine(p) == LineEnd(p) + IF CrLfs(p) # {} THEN 2 ELSE 1

Line(p) == SubSeq(text, p + 1, LineEnd(p))

\* How a first line begins: an announcement, a search or the answer to one.
Methods == {"NOTIFY", "M-SEARCH", "HTTP/"}

Method ==
    /\ phase = "method"
    /\ IF HasLine(pos) /\ Line(pos) # <<>> /\ Line(pos)[1] \in Methods
         THEN phase' = "headers" /\ pos' = NextLine(pos)
         ELSE phase' = "refused" /\ pos' = IF HasLine(pos) THEN NextLine(pos) ELSE pos
    /\ UNCHANGED <<text, headers>>

\* to_lower
Key(word) == IF word = "NT" THEN "nt" ELSE word

Colon(line) == Min({i \in 1..Len(line) : line[i] = ":"})

\* A line with a colon sets a header, again if it is there already; one without is
\* passed over.
Header ==
    /\ phase = "headers" /\ pos < Size /\ HasLine(pos) /\ Line(pos) # <<>>
    /\ pos' = NextLine(pos)
    /\ LET line == Line(pos)
           key  == [i \in 1..Colon(line) - 1 |-> Key(line[i])]
       IN  headers' = IF ":" \in ToSet(line)
                        THEN [k \in DOMAIN headers \union {key} |->
                                IF k = key THEN SubSeq(line, Colon(line) + 1, Len(line))
                                ELSE headers[k]]
                      ELSE headers
    /\ UNCHANGED <<text, phase>>

\* An empty line, or a rest without an end of line, ends the headers; a message
\* without any is not one.
HeadersEnd ==
    /\ phase = "headers" /\ ~(pos < Size /\ HasLine(pos) /\ Line(pos) # <<>>)
    /\ pos' = IF pos < Size /\ HasLine(pos) THEN NextLine(pos) ELSE pos
    /\ phase' = IF DOMAIN headers = {} THEN "refused" ELSE "done"
    /\ UNCHANGED <<text, headers>>

Next == Method \/ Header \/ HeadersEnd

Spec == Init /\ [][Next]_vars
-----------------------------------------------------------------------------
(* The headers of a text all of whose lines end alike, by their places.    *)

Ends == {i \in 0..Size - 1 : text[i + 1] = "LF"}

\* Every line ends with CR LF, or every line with LF alone.
Crs  == {i \in 0..Size - 1 : text[i + 1] = "CR"}
Windows == Crs = {e - 1 : e \in Ends}
Unix    == Crs = {}

\* The lines behind the first: from where to where, without their ends.
Lines == {l \in (1..Size) \X (1..Size) :
             /\ l[1] - 1 \in Ends /\ l[2] \in Ends /\ l[1] <= l[2]
             /\ \A i \in l[1]..l[2] - 1 : i \notin Ends}

Content(l) == SubSeq(text, l[1] + 1, IF Windows THEN l[2] - 1 ELSE l[2])

\* Those before the first empty one.
HeaderLines == {l \in Lines : \A m \in Lines : m[1] <= l[1] => Content(m) # <<>>}

KeyOf(l) == [i \in 1..Colon(Content(l)) - 1 |-> Key(Content(l)[i])]

Named == {l \in HeaderLines : ":" \in ToSet(Content(l))}

\* Properties.

\* The headers of a message are the lines with a colon between its first line and the
\* first empty one, whatever the case of their keys; the last of a key counts, and a
\* line that is cut off does not. This holds for both ends of lines, if they are not
\* mixed.
HeadersAsWritten ==
    phase = "done" /\ (Windows \/ Unix) =>
       /\ DOMAIN headers = {KeyOf(l) : l \in Named}
       /\ \A l \in Named :
             (\A m \in Named : KeyOf(m) = KeyOf(l) => m[1] <= l[1]) =>
                headers[KeyOf(l)] = SubSeq(Content(l), Colon(Content(l)) + 1, Len(Content(l)))

\* A message without a header, or of another method, is refused, and no other.
RefusedForCause ==
    phase = "refused" /\ (Windows \/ Unix) => Named = {} \/ Ends = {} \/ text[1] \notin Methods
=============================================================================
