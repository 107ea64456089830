------------------------------- MODULE Parsers -------------------------------
(***************************************************************************)
(* The way of a packet through the parsers: the windows they hand on       *)
(* ("path"), and what the parsers of messages do in theirs: a name         *)
(* ("name") and the records ("records") of a DNS message, the summary of   *)
(* an mDNS message ("mdns"), the options of a DHCP message ("dhcp"), the   *)
(* headers of an SSDP message ("ssdp").  A parser is a sequential loop     *)
(* over its own window, so a behaviour follows one of them.  The parsers   *)
(* of messages have some variables in common: the message, the phase, the  *)
(* next place to read, how far was read, and what was found out.           *)
(***************************************************************************)
EXTENDS PacketPath

CONSTANTS
    Bytes, StackLimit,                             \* of a name
    Sizes, Counts, DataLengths, TextLengths,       \* of the records
    Codes,                                         \* the bytes of DHCP options
    Names, Underscored, Texts,                     \* of mDNS
    FirstLines, Pieces,                            \* of SSDP
    MaxName, MaxOptions, MaxAnswers, MaxPieces     \* bounds: lengths of the messages

VARIABLES part, message, phase, pos, reach,
          start, nest,                      \* of a name
          len, counts, asked, answers, text, \* of the records
          cookie,                           \* of DHCP
          info,                             \* of DHCP and mDNS
          headers                           \* of SSDP

Name == INSTANCE DnsName WITH
    MaxLen <- MaxName, base <- message, calls <- nest, highest <- reach

Records == INSTANCE DnsRecords WITH highest <- reach

Dhcp == INSTANCE DhcpOptions WITH
    Bytes <- Codes, MaxLen <- MaxOptions, opts <- message, highest <- reach

Mdns == INSTANCE MdnsSummary

Ssdp == INSTANCE SsdpHeaders WITH MaxLen <- MaxPieces, text <- message

ASSUME ParsersAssumption ==
    /\ Name!NameAssumption /\ Records!RecordsAssumption /\ Dhcp!OptionsAssumption
    /\ MaxAnswers \in Nat /\ MaxPieces \in Nat /\ FirstLines \subseteq Seq(STRING)

messages == <<message, phase, pos, reach, start, nest,
              len, counts, asked, answers, text, cookie, info, headers>>

\* The variables of the other parts stand still.
NoMessage == message = <<>>
NoPlace   == pos = 0
NoName    == start = 0 /\ nest = <<>>
NoRecords == len = 0 /\ counts = <<>> /\ asked = 0 /\ answers = <<>> /\ text = 0
NoOptions == cookie = FALSE
NoInfo    == info = <<>>
NoHeaders == headers = <<>>

AtRest == layer = "done" /\ caplen = 0 /\ windows = <<[from |-> 0, to |-> 0]>>
              /\ highest = 0 /\ claims = <<>> /\ calls = <<>>

\* A message without the cookie is refused whatever follows.
ParsersInit ==
    \/ part = "path" /\ Init
          /\ NoMessage /\ NoPlace /\ NoName /\ NoRecords /\ NoOptions /\ NoInfo /\ NoHeaders
          /\ phase = "none" /\ reach = 0
    \/ part = "name" /\ AtRest /\ Name!Init
          /\ NoPlace /\ NoRecords /\ NoOptions /\ NoInfo /\ NoHeaders
    \/ part = "records" /\ AtRest /\ Records!Init
          /\ NoMessage /\ NoName /\ NoOptions /\ NoInfo /\ NoHeaders
    \/ part = "mdns" /\ AtRest /\ Mdns!Init
          /\ NoName /\ NoRecords /\ NoOptions /\ NoHeaders /\ reach = 0
    \/ part = "dhcp" /\ AtRest /\ Dhcp!Init /\ (cookie \/ message = <<>>)
          /\ NoName /\ NoRecords /\ NoHeaders
    \/ part = "ssdp" /\ AtRest /\ Ssdp!Init
          /\ NoName /\ NoRecords /\ NoOptions /\ NoInfo /\ reach = 0

HandOn == part = "path" /\ Next /\ UNCHANGED <<part, messages>>

ReadName ==
    /\ part = "name" /\ Name!Next
    /\ UNCHANGED <<part, vars, pos, len, counts, asked, answers, text, cookie, info, headers>>

ReadRecords ==
    /\ part = "records" /\ Records!Next
    /\ UNCHANGED <<part, vars, message, start, nest, cookie, info, headers>>

ReadAnswers ==
    /\ part = "mdns" /\ Mdns!Next
    /\ UNCHANGED <<part, vars, reach, start, nest, len, counts, asked, answers, text, cookie, headers>>

ReadOptions ==
    /\ part = "dhcp" /\ Dhcp!Next
    /\ UNCHANGED <<part, vars, start, nest, len, counts, asked, answers, text, headers>>

ReadHeaders ==
    /\ part = "ssdp" /\ Ssdp!Next
    /\ UNCHANGED <<part, vars, reach, start, nest, len, counts, asked, answers, text, cookie, info>>

Parse == ReadName \/ ReadRecords \/ ReadAnswers \/ ReadOptions \/ ReadHeaders

ParsersNext == HandOn \/ Parse

\* A parser goes on until it has nothing to do.
ParsersSpec ==
    /\ ParsersInit /\ [][ParsersNext]_<<part, vars, messages>>
    /\ WF_<<part, vars, messages>>(Parse)
-----------------------------------------------------------------------------
\* No parser of a message reads a byte outside of its window, whatever the lengths,
\* counts and pointers in it say (BinaryReader, parse_dns_name, parse_dns_message,
\* parse_dhcp).
InBounds ==
    /\ part = "name" => Name!TypeOK /\ Name!StaysInMessage
    /\ part = "records" => Records!TypeOK /\ Records!ReadsInMessage
    /\ part = "dhcp" => Dhcp!TypeOK /\ Dhcp!StaysInOptions
    /\ part = "mdns" => Mdns!TypeOK
    /\ part = "ssdp" => Ssdp!TypeOK

\* What the parsers hand over is what the formats say of the bytes: the labels of a
\* name, answers one behind the other, the first name and service of a device, the last
\* of a repeated option or header, and nothing from behind the end or from a part that
\* is cut off.
AsTheFormatSays ==
    /\ part = "name" => Name!ReadsTheName
    /\ part = "records" => Records!AnswersApart
    /\ part = "mdns" => Mdns!FirstOfferTaken
    /\ part = "dhcp" => Dhcp!LastOneCounts
    /\ part = "ssdp" => Ssdp!HeadersAsWritten /\ Ssdp!RefusedForCause

\* Every message is read to an end, of any counts and lengths; only a name whose
\* pointers come back to themselves is not.
MessagesEnd ==
    part \in {"records", "mdns", "dhcp", "ssdp"} \/ (part = "name" /\ ~Name!Circular)
        ~> phase \in {"done", "refused"} \/ (part = "name" /\ Name!Done)
=============================================================================
