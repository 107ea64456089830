----------------------------- MODULE MdnsSummary ------------------------------
(***************************************************************************)
(* parse_mdns: the answers of an mDNS message, read by parse_dns_message,  *)
(* are summed up in the name of the device, its service, the target of the *)
(* service and a hint at its model.  Names are sequences of labels, the    *)
(* empty string is the empty sequence; of a TXT record there is what it    *)
(* says under each of the keys that hint at a model.                       *)
(***************************************************************************)
EXTENDS Naturals, FiniteSetsExt, SequencesExt

CONSTANTS
    Names,          \* names in the answers
    Underscored,    \* the labels that begin with an underscore
    Texts,          \* TXT records: functions on subsets of Keys, to strings
    MaxAnswers      \* bound: how many answers a message has

VARIABLES
    message,        \* the answers
    phase,          \* "reading", "done" or "refused"
    pos,            \* the next answer to read
    info            \* what was found out

vars == <<message, phase, pos, info>>

Keys == <<"model", "md", "fn">>     \* in the order in which they are looked for

Answers ==
         [type : {"A"}, name : Names]
    \cup [type : {"PTR", "SRV"}, name : Names, data : Names]
    \cup [type : {"TXT"}, hints : Texts]

Nothing == [hostname |-> <<>>, service_type |-> <<>>, srv_target |-> <<>>, model_hint |-> ""]

TypeOK ==
    /\ message \in Seq(Answers) /\ Len(message) <= MaxAnswers
    /\ phase \in {"reading", "done", "refused"} /\ pos \in 1..(Len(message) + 1)
    /\ DOMAIN info = DOMAIN Nothing

Init ==
    /\ message \in BoundedSeq(Answers, MaxAnswers)
    /\ phase = "reading" /\ pos = 1 /\ info = Nothing
-----------------------------------------------------------------------------
(* What an answer offers; the empty name is no offer.                      *)

\* ".local" is cut off where something stands before it.
WithoutLocal(name) ==
    IF Len(name) > 1 /\ Last(name) = "local" THEN Front(name) ELSE name

\* The instance is what stands before the first dot.
Instance(data) == IF Len(data) > 1 THEN <<Head(data)>> ELSE <<>>

IsService(name) ==
    \E k \in 2..(Len(name) - 1) : name[k] \in {"_tcp", "_udp"} /\ name[k + 1] = "local"

\* From the first label behind a dot that begins with an underscore.
ServicePart(name) ==
    LET marks == {k \in 2..Len(name) : name[k] \in Underscored}
    IN  IF marks = {} THEN <<>> ELSE SubSeq(name, Min(marks), Len(name))

HostOf(a) ==
    CASE a.type = "A"   -> WithoutLocal(a.name)
      [] a.type = "PTR" -> Instance(a.data)
      [] OTHER          -> <<>>

ServiceOf(a) ==
    CASE a.type = "PTR" -> IF IsService(a.name) THEN a.name ELSE <<>>
      [] a.type = "SRV" -> ServicePart(a.name)
      [] OTHER          -> <<>>

TargetOf(a) == IF a.type = "SRV" /\ a.name # <<>> THEN a.data ELSE <<>>

\* Of several keys in one record the first in the order of Keys counts.
HintOf(text) == text[Keys[Min({k \in DOMAIN Keys : Keys[k] \in DOMAIN text})]]
-----------------------------------------------------------------------------
(* The loop over the answers.                                              *)

Kept(old, offer) == IF old = <<>> THEN offer ELSE old

ReadAnswer ==
    /\ phase = "reading" /\ pos <= Len(message)
    /\ LET a == message[pos]
       IN  info' = [hostname     |-> Kept(info.hostname, HostOf(a)),
                    service_type |-> Kept(info.service_type, ServiceOf(a)),
                    srv_target   |-> Kept(info.srv_target, TargetOf(a)),
                    model_hint   |-> IF a.type = "TXT" /\ DOMAIN a.hints # {}
                                       THEN HintOf(a.hints) ELSE info.model_hint]
    /\ pos' = pos + 1
    /\ UNCHANGED <<message, phase>>

\* A message that names neither the device nor a service is of no use.
Finish ==
    /\ phase = "reading" /\ pos > Len(message)
    /\ phase' = IF info.hostname = <<>> /\ info.service_type = <<>> THEN "refused" ELSE "done"
    /\ UNCHANGED <<message, pos, info>>

Next == ReadAnswer \/ Finish

Spec == Init /\ [][Next]_vars
-----------------------------------------------------------------------------
(* Properties.                                                             *)

FirstOf(offers) ==
    LET made == {i \in DOMAIN offers : offers[i] # <<>>}
    IN  IF made = {} THEN <<>> ELSE offers[Min(made)]

\* The device is called by the first answer that names it, and offers the first service
\* that is named, whatever else the message says; a message is given up only when no
\* answer of it does either (mdns_parser.cpp, parse_mdns).
FirstOfferTaken ==
    LET hosts    == [i \in DOMAIN message |-> HostOf(message[i])]
        services == [i \in DOMAIN message |-> ServiceOf(message[i])]
    IN  /\ phase = "done" => /\ info.hostname = FirstOf(hosts)
                             /\ info.service_type = FirstOf(services)
        /\ phase = "refused" <=>
              pos > Len(message) /\ phase # "reading"
                 /\ FirstOf(hosts) = <<>> /\ FirstOf(services) = <<>>

\* mdns_parser.cpp:43: the instance is the name of a device. The answer to a query for
\* all services has a service in its place: see the README.
HostIsNoService == info.hostname # <<>> => Head(info.hostname) \notin Underscored
=============================================================================
