----------------------------- MODULE DhcpOptions -----------------------------
(***************************************************************************)
(* parse_dhcp: the options of a DHCP message, one after the other as code, *)
(* length and value.  The bytes are any bytes, so options may be cut off,  *)
(* repeated, empty or of the wrong length, and END may be missing.  What   *)
(* the message is, the name of its client and the addresses it asks for go *)
(* to the tracker.                                                         *)
(***************************************************************************)
EXTENDS Integers, Sequences, SequencesExt, FiniteSetsExt

CONSTANTS
    Bytes,          \* values of the bytes behind the magic cookie
    MaxLen          \* bound: how many of them there are

OptionsAssumption == Bytes \subseteq 0..255 /\ MaxLen \in Nat

VARIABLES
    opts,           \* the bytes behind the magic cookie
    cookie,         \* does the message have 240 bytes and the cookie?
    phase,          \* "header", "options", "done" or "refused"
    pos,            \* the next byte of opts to read
    info,           \* what was read: the type of the message, and the values of options
    highest         \* history: the end of the bytes that were read

vars == <<opts, cookie, phase, pos, info, highest>>

Size  == Len(opts)
At(p) == opts[p + 1]

UNKNOWN == 0
Nothing == <<>>

TypeOK ==
    /\ opts \in Seq(Bytes) /\ Size <= MaxLen /\ cookie \in BOOLEAN
    /\ phase \in {"header", "options", "done", "refused"}
    /\ pos \in 0..Size /\ highest \in Nat
    /\ info.msg_type \in 0..8
    /\ info.hostname \in Seq(Bytes) /\ info.param_request_list \in Seq(Bytes)
    /\ info.requested_ip \in Seq(Bytes) /\ Len(info.requested_ip) \in {0, 4}

Init ==
    /\ opts \in BoundedSeq(Bytes, MaxLen) /\ cookie \in BOOLEAN
    /\ phase = "header" /\ pos = 0 /\ highest = 0
    /\ info = [msg_type |-> UNKNOWN, hostname |-> Nothing, requested_ip |-> Nothing,
               param_request_list |-> Nothing, options |-> <<>>]

Read(p) == highest' = IF p > highest THEN p ELSE highest

Header ==
    /\ phase = "header"
    /\ phase' = IF cookie THEN "options" ELSE "refused"
    /\ UNCHANGED <<opts, cookie, pos, info, highest>>

Pad ==
    /\ phase = "options" /\ pos < Size /\ At(pos) = 0
    /\ pos' = pos + 1 /\ Read(pos + 1)
    /\ UNCHANGED <<opts, cookie, phase, info>>

\* Defect: END is skipped as if it were padding.
EndSkipped ==
    /\ phase = "options"
    /\ IF pos = Size THEN phase' = "done" /\ UNCHANGED <<pos, highest>>
       ELSE At(pos) = 255 /\ phase' = phase /\ pos' = pos + 1 /\ Read(pos + 1)
    /\ UNCHANGED <<opts, cookie, info>>

\* END, or no byte left.
End ==
    /\ phase = "options"
    /\ IF pos = Size THEN phase' = "done" /\ UNCHANGED <<pos, highest>>
       ELSE At(pos) = 255 /\ phase' = "done" /\ pos' = pos + 1 /\ Read(pos + 1)
    /\ UNCHANGED <<opts, cookie, info>>

\* An option whose length or value is not all there ends the list; what came before
\* it stays.
Cut ==
    /\ phase = "options" /\ pos < Size /\ At(pos) \notin {0, 255}
    /\ ~(pos + 1 < Size /\ pos + 2 + At(pos + 1) <= Size)
    /\ phase' = "done"
    /\ pos' = IF pos + 1 >= Size THEN pos + 1 ELSE pos + 2
    /\ Read(IF pos + 1 >= Size THEN pos + 1 ELSE pos + 2)
    /\ UNCHANGED <<opts, cookie, info>>

\* What an option adds: an empty or unknown type and an address of the wrong length
\* change nothing, an empty name or list does.
Keep(code, value) ==
    [info EXCEPT
       !.options  = [c \in DOMAIN @ \union {code} |-> IF c = code THEN value ELSE @[c]],
       !.msg_type = IF code = 53 /\ value # <<>> /\ value[1] \in 1..8 THEN value[1] ELSE @,
       !.hostname = IF code = 12 THEN value ELSE @,
       !.requested_ip = IF code = 50 /\ Len(value) = 4 THEN value ELSE @,
       !.param_request_list = IF code = 55 THEN value ELSE @]

Option ==
    /\ phase = "options" /\ pos + 1 < Size /\ At(pos) \notin {0, 255}
    /\ pos + 2 + At(pos + 1) <= Size
    /\ LET to == pos + 2 + At(pos + 1)
       IN  pos' = to /\ Read(to) /\ info' = Keep(At(pos), SubSeq(opts, pos + 3, to))
    /\ UNCHANGED <<opts, cookie, phase>>

Next == Header \/ Pad \/ End \/ Cut \/ Option

Spec == Init /\ [][Next]_vars
-----------------------------------------------------------------------------
(* The options by the format alone: After[k] is the place behind the kth   *)
(* piece, a padding byte or a whole option.                                *)

Whole(p) == p + 1 < Size /\ At(p) \notin {0, 255} /\ p + 2 + At(p + 1) <= Size

After[k \in Nat] ==
    IF k = 0 THEN 0
    ELSE LET p == After[k - 1]
         IN  IF Whole(p) THEN p + 2 + At(p + 1)
             ELSE IF p < Size /\ At(p) = 0 THEN p + 1 ELSE p

Value(p) == SubSeq(opts, p + 3, p + 2 + At(p + 1))

\* The value of the last option with a code that has a usable value.
LastOf(places, code, Usable(_), none) ==
    LET found == {p \in places : At(p) = code /\ Usable(Value(p))}
    IN  IF found = {} THEN none ELSE Value(Max(found))

\* Properties.

\* Of an option that is repeated the last usable one counts, wherever padding stands,
\* and neither what follows END nor an option that is cut off counts at all.
LastOneCounts ==
    phase = "done" =>
       LET places == {p \in {After[k] : k \in 0..Size} : Whole(p)}
           any(v) == TRUE
       IN  /\ info.hostname = LastOf(places, 12, any, Nothing)
           /\ info.param_request_list = LastOf(places, 55, any, Nothing)
           /\ info.requested_ip = LastOf(places, 50, LAMBDA v : Len(v) = 4, Nothing)
           /\ info.msg_type = LastOf(places, 53, LAMBDA v : v # <<>> /\ v[1] \in 1..8,
                                     <<UNKNOWN>>)[1]
           /\ info.options = [c \in {At(p) : p \in places} |-> LastOf(places, c, any, Nothing)]

\* No byte behind the message is read, whatever the lengths claim.
StaysInOptions == highest <= Size
=============================================================================
