------------------------------- MODULE DnsName -------------------------------
(***************************************************************************)
(* parse_dns_name: one name of a DNS message, with compression.  A name is *)
(* a chain of labels that ends in a zero byte or in a pointer to the rest  *)
(* of it, somewhere in the message.  The parser calls itself for the rest; *)
(* a call returns as soon as the one it made has returned.                 *)
(*                                                                         *)
(* A message is any sequence of bytes, so that a pointer may lead into the *)
(* middle of a label, to a byte that follows, or back to itself.  A name   *)
(* is the sequence of the positions of its labels; the dots between them   *)
(* are layout.                                                             *)
(***************************************************************************)
EXTENDS Integers, Sequences, SequencesExt

CONSTANTS
    Bytes,          \* values of the bytes of a message
    MaxLen,         \* bound: bytes of a message
    StackLimit      \* calls there is room for on the stack of the thread

NameAssumption ==
    Bytes \subseteq 0..255 /\ MaxLen \in Nat /\ StackLimit \in Nat \ {0}

VARIABLES
    base,           \* the message
    start,          \* where the name begins
    calls,          \* the calls of the parser: where each is, and its labels
    phase,          \* "reading", "leaving" (a call has ended) or "crashed"
    highest         \* history: the end of the bytes that were read

vars == <<base, start, calls, phase, highest>>

Size  == Len(base)
At(p) == base[p + 1]

TypeOK ==
    /\ base \in Seq(Bytes) /\ Size <= MaxLen
    /\ start \in 0..Size
    /\ calls \in Seq([pos : Nat, name : Seq(Nat)]) /\ Len(calls) \in 1..StackLimit
    /\ phase \in {"reading", "leaving", "crashed"}
    /\ highest \in Nat

IsPointer(p) == At(p) >= 192
Target(p)    == (At(p) % 64) * 256 + At(p + 1)

Init ==
    /\ base \in BoundedSeq(Bytes, MaxLen)
    /\ start \in 0..Len(base)
    /\ calls = <<[pos |-> start, name |-> <<>>]>>
    /\ phase = "reading"
    /\ highest = 0

Call == calls[Len(calls)]
Here == Call.pos

\* The bytes before position p have been read, those up to it at least.
Read(p) == highest' = IF p > highest THEN p ELSE highest

\* The call goes on at p, and has read the labels of name.
Move(p, name) == [calls EXCEPT ![Len(calls)] = [pos |-> p, name |-> name]]

Leave(p) == calls' = Move(p, Call.name) /\ phase' = "leaving"

\* The name runs to the end of the message.
EndOfMessage ==
    /\ phase = "reading" /\ Here >= Size
    /\ Leave(Here)
    /\ UNCHANGED <<base, start, highest>>

Zero ==
    /\ phase = "reading" /\ Here < Size /\ At(Here) = 0
    /\ Leave(Here + 1) /\ Read(Here + 1)
    /\ UNCHANGED <<base, start>>

\* A pointer whose second byte is missing, or that leads out of the message.
BadPointer ==
    /\ phase = "reading" /\ Here < Size /\ IsPointer(Here)
    /\ IF Here + 1 >= Size THEN Leave(Here) /\ Read(Here + 1)
       ELSE Target(Here) >= Size /\ Leave(Here + 2) /\ Read(Here + 2)
    /\ UNCHANGED <<base, start>>

\* The rest of the name is read by another call.  Each call has its own count of
\* jumps and returns after its first, so the count never stops it: only the end of
\* the stack does.
Follow ==
    /\ phase = "reading" /\ Here + 1 < Size /\ IsPointer(Here) /\ Target(Here) < Size
    /\ Read(Here + 2)
    /\ IF Len(calls) < StackLimit
         THEN /\ calls' = Append(Move(Here + 2, Call.name),
                                 [pos |-> Target(Here), name |-> <<>>])
              /\ phase' = phase
         ELSE phase' = "crashed" /\ calls' = calls
    /\ UNCHANGED <<base, start>>

\* Defect: the length of a label is not compared with the bytes there are.
LabelUnchecked ==
    /\ phase = "reading" /\ Here < Size /\ At(Here) > 0 /\ ~IsPointer(Here)
    /\ calls' = Move(Here + 1 + At(Here), Append(Call.name, Here))
    /\ Read(Here + 1 + At(Here))
    /\ UNCHANGED <<base, start, phase>>

\* A label; a length byte of 64 to 191 is a long label like any other.
Label ==
    /\ phase = "reading" /\ Here < Size /\ At(Here) > 0 /\ ~IsPointer(Here)
    /\ Here + 1 + At(Here) <= Size
    /\ calls' = Move(Here + 1 + At(Here), Append(Call.name, Here))
    /\ Read(Here + 1 + At(Here))
    /\ UNCHANGED <<base, start, phase>>

\* Defect: the parser looks at a label that is cut off again and again.
CutLabelAgain ==
    /\ phase = "reading" /\ Here < Size /\ At(Here) > 0 /\ ~IsPointer(Here)
    /\ Here + 1 + At(Here) > Size
    /\ Read(Here + 1)
    /\ UNCHANGED <<base, start, calls, phase>>

\* A label that the message does not hold to its end: only its length is consumed.
CutLabel ==
    /\ phase = "reading" /\ Here < Size /\ At(Here) > 0 /\ ~IsPointer(Here)
    /\ Here + 1 + At(Here) > Size
    /\ Leave(Here + 1) /\ Read(Here + 1)
    /\ UNCHANGED <<base, start>>

\* The caller adds what its call read and returns as well.
Return ==
    /\ phase = "leaving" /\ Len(calls) > 1
    /\ calls' = Append(Front(Front(calls)),
                       [calls[Len(calls) - 1] EXCEPT !.name = @ \o Call.name])
    /\ UNCHANGED <<base, start, phase, highest>>

Next == EndOfMessage \/ Zero \/ BadPointer \/ Follow \/ Label \/ CutLabel \/ Return

Spec == Init /\ [][Next]_vars

FairSpec == Spec /\ WF_vars(Next)
-----------------------------------------------------------------------------
(* The name by the format alone.  After[k] is the place of the kth piece   *)
(* of the name, a label, a pointer or its end.                             *)

WholeLabel(p)   == p < Size /\ At(p) \in 1..191 /\ p + 1 + At(p) <= Size
GoodPointer(p)  == p + 1 < Size /\ IsPointer(p) /\ Target(p) < Size

After[k \in Nat] ==
    IF k = 0 THEN start
    ELSE LET p == After[k - 1]
         IN  IF WholeLabel(p) THEN p + 1 + At(p)
             ELSE IF GoodPointer(p) THEN Target(p) ELSE p

\* Some place comes twice on the way: the name has no end.
Circular == WholeLabel(After[Size]) \/ GoodPointer(After[Size])

\* The labels among the first k pieces.
Labels[k \in Nat] ==
    IF k = 0 THEN <<>>
    ELSE IF WholeLabel(After[k - 1]) THEN Append(Labels[k - 1], After[k - 1]) ELSE Labels[k - 1]

\* Where the name ends in its place: behind its first pointer, its zero or what is
\* there of it.
Ends(p) ==
    CASE p = Size                                   -> p
      [] p < Size /\ IsPointer(p) /\ p + 1 >= Size  -> p
      [] p + 1 < Size /\ IsPointer(p)               -> p + 2
      [] OTHER                                      -> p + 1

FirstOther == CHOOSE k \in 0..Size :
                /\ ~WholeLabel(After[k])
                /\ \A j \in 0..k - 1 : WholeLabel(After[j])

Done == phase = "leaving" /\ Len(calls) = 1
-----------------------------------------------------------------------------
(* Properties.                                                             *)

\* The parser reads no byte outside of the message, wherever pointers and lengths
\* lead, and the place it hands back lies in the message or at its end.
StaysInMessage == highest <= Size /\ \A i \in 1..Len(calls) : calls[i].pos <= Size

\* A name that is read to its end has the labels its bytes say, in their order, and
\* the caller goes on behind the name in its own place, not where a pointer led.
ReadsTheName == Done => Call.name = Labels[Size] /\ Here = Ends(After[FirstOther])

\* A name that has an end is read to it; only one that comes back to itself
\* exhausts the stack.
NamesEnd == ~Circular ~> Done

\* What the count of jumps is for: no name makes the parser jump more than ten times.
JumpsLimited == Len(calls) <= 11
=============================================================================
