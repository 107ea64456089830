----------------------------- MODULE DnsRecords -----------------------------
(***************************************************************************)
(* parse_dns_message: the questions and the answers of a DNS message.  The *)
(* counts of the header, the fields of a record and the bytes of its data  *)
(* are chosen when they are read, so that the message is arbitrary and may *)
(* end anywhere.  A name ends where DnsName lets it: not before it begins, *)
(* and in the message.                                                     *)
(***************************************************************************)
EXTENDS Integers, Sequences

CONSTANTS
    Sizes,          \* lengths of a message
    Counts,         \* values of the counts in the header
    DataLengths,    \* values of the length of a record's data
    TextLengths     \* values of the length of a string in a TXT record

RecordsAssumption ==
    /\ Sizes \subseteq Nat /\ Counts \subseteq Nat
    /\ DataLengths \subseteq Nat /\ TextLengths \subseteq Nat

VARIABLES
    len,            \* bytes of the message
    counts,         \* the counts of the header that the loops use
    phase,          \* "header", "questions", "answers", "text", "done" or "refused"
    pos,            \* the next byte to read
    asked,          \* questions that were read
    answers,        \* answers that were read: where their data begins, where it ends
    text,           \* the next string of a TXT record
    highest         \* history: the end of the bytes that were read

vars == <<len, counts, phase, pos, asked, answers, text, highest>>

TypeOK ==
    /\ len \in Sizes
    /\ counts \in [questions : Counts, answers : Counts]
    /\ phase \in {"header", "questions", "answers", "text", "done", "refused"}
    /\ pos \in Nat /\ asked \in Nat /\ text \in Nat /\ highest \in Nat
    /\ answers \in Seq([kind : {"A", "AAAA", "name", "TXT", "SRV", "other"},
                        from : Nat, to : Nat])

Init ==
    /\ len \in Sizes
    /\ counts \in [questions : Counts, answers : Counts]
    /\ phase = "header"
    /\ pos = 0 /\ asked = 0 /\ text = 0 /\ highest = 0
    /\ answers = <<>>

Later(p, q) == IF p > q THEN p ELSE q

Read(p) == highest' = IF p > highest THEN p ELSE highest

\* Where a name that begins at p may end.  Beyond the message no byte of it is read;
\* only a pointer whose second byte is missing ends where it begins.
NameEnds(p) == IF p >= len THEN {p} ELSE {e \in p..len : e = p => p = len - 1}

\* How far a name may be read: a pointer leads to any byte of the message.
NameReads(p) == IF p >= len THEN 0 ELSE len

\* Twelve bytes, of which the counts of the other two sections are not read.
Header ==
    /\ phase = "header"
    /\ IF len < 12 THEN phase' = "refused" /\ UNCHANGED <<pos, highest>>
       ELSE phase' = "questions" /\ pos' = 12 /\ Read(12)
    /\ UNCHANGED <<len, counts, asked, answers, text>>

\* A question is its name and four bytes that are skipped whether they are there or
\* not.
Question ==
    /\ phase = "questions" /\ asked < counts.questions /\ pos < len
    /\ \E e \in NameEnds(pos) : pos' = e + 4
    /\ Read(NameReads(pos))
    /\ asked' = asked + 1
    /\ UNCHANGED <<len, counts, phase, answers, text>>

QuestionsEnd ==
    /\ phase = "questions" /\ (asked = counts.questions \/ pos >= len)
    /\ phase' = "answers"
    /\ UNCHANGED <<len, counts, pos, asked, answers, text, highest>>

\* What the type and the length of a record make of its data.
Kind(type, n) ==
    CASE type = 1 /\ n = 4   -> "A"
      [] type = 28 /\ n = 16 -> "AAAA"
      [] type \in {5, 12}    -> "name"
      [] type = 16           -> "TXT"
      [] type = 33 /\ n >= 6 -> "SRV"
      [] OTHER               -> "other"

\* How far the data at p is read when it is known; that of other types is not.
DataRead(kind, p) ==
    CASE kind = "A"    -> p + 4
      [] kind = "AAAA" -> p + 16
      [] kind = "name" -> NameReads(p)
      [] kind = "SRV"  -> NameReads(p + 6)
      [] OTHER         -> 0

\* An answer: its name, ten bytes of fields and its data, all of which must be there.
\* pos moves behind the data once the record is kept; the strings of a TXT record
\* are read in Text before.
Answer ==
    /\ phase = "answers" /\ Len(answers) < counts.answers /\ pos < len
    /\ \E e \in NameEnds(pos) :
         IF e + 10 > len THEN phase' = "done" /\ pos' = e /\ Read(NameReads(pos)) /\ UNCHANGED <<answers, text>>
         ELSE \E type \in {1, 5, 16, 28, 33, 47}, n \in DataLengths :
                LET p == e + 10
                    k == Kind(type, n)
                IN  IF p + n > len
                      THEN phase' = "done" /\ pos' = p /\ Read(p) /\ UNCHANGED <<answers, text>>
                    ELSE /\ answers' = Append(answers, [kind |-> k, from |-> p, to |-> p + n])
                         /\ Read(Later(p, DataRead(k, p)))
                         /\ text' = p
                         /\ pos' = p + n
                         /\ phase' = IF k = "TXT" THEN "text" ELSE "answers"
    /\ UNCHANGED <<len, counts, asked>>

\* One string of a TXT record. Its length is compared with the message, not with the
\* record.
Text ==
    /\ phase = "text" /\ text < pos /\ text < len
    /\ \E n \in TextLengths :
         IF text + 1 + n > len
           THEN phase' = "answers" /\ text' = text + 1 /\ Read(text + 1)
         ELSE text' = text + 1 + n /\ Read(text + 1 + n) /\ phase' = phase
    /\ UNCHANGED <<len, counts, pos, asked, answers>>

TextEnds ==
    /\ phase = "text" /\ text >= pos
    /\ phase' = "answers"
    /\ UNCHANGED <<len, counts, pos, asked, answers, text, highest>>

AnswersEnd ==
    /\ phase = "answers" /\ (Len(answers) = counts.answers \/ pos >= len)
    /\ phase' = "done"
    /\ UNCHANGED <<len, counts, pos, asked, answers, text, highest>>

Next == Header \/ Question \/ QuestionsEnd \/ Answer \/ Text \/ TextEnds \/ AnswersEnd

Spec == Init /\ [][Next]_vars

FairSpec == Spec /\ WF_vars(Next)
-----------------------------------------------------------------------------
(* Properties.                                                             *)

\* Whatever the counts and the lengths claim, no byte behind the message is read.
ReadsInMessage == highest <= len

\* The answers that are kept lie whole in the message, one behind the other with
\* their names and fields between them, and are never more than the header counts.
AnswersApart ==
    /\ \A i \in 1..Len(answers) : 12 + 10 <= answers[i].from /\ answers[i].from <= answers[i].to
    /\ \A i \in 1..Len(answers) : answers[i].to <= len
    /\ \A i, j \in 1..Len(answers) : i < j => answers[i].to + 10 <= answers[j].from
    /\ Len(answers) <= counts.answers

\* A message of any counts is read to an end.
MessageEnds == <>(phase \in {"done", "refused"})
=============================================================================
