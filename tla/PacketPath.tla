------------------------------ MODULE PacketPath ------------------------------
(***************************************************************************)
(* From a captured frame to the call of the tracker: the packet callback   *)
(* of main.cpp with the Ethernet, IPv4, UDP and ARP parsers.  Every parser *)
(* gets a pointer and a length, checks the length, reads its header and    *)
(* hands a part of its bytes to the next: no byte is copied.               *)
(*                                                                         *)
(* A window is the part [from, to) of the frame a parser works on.  The    *)
(* values of the header fields are chosen when they are read, so the bytes *)
(* of a frame are arbitrary; every captured length is possible, and the    *)
(* captured bytes may be fewer or more than the packet says it has.        *)
(***************************************************************************)
EXTENDS Integers, Sequences

CONSTANTS
    Lengths,        \* captured lengths (caplen)
    Words,          \* values of the four bits of IHL
    Totals,         \* values of the total length of an IPv4 packet
    UdpLengths,     \* values of the length of a UDP segment
    Ports           \* values of the ports

ASSUME PathAssumption ==
    /\ Lengths \subseteq Nat /\ Words \subseteq Nat
    /\ Totals \subseteq Nat /\ UdpLengths \subseteq Nat /\ Ports \subseteq Nat

VARIABLES
    caplen,         \* the bytes there are
    layer,          \* the parser that is to run, or what became of the packet
    windows,        \* the windows of the parsers that ran, and of the next one
    highest,        \* history: the end of the bytes that were read
    claims,         \* history: where the headers say that their packets end
    calls           \* history: which handlers of the tracker were called for it

vars == <<caplen, layer, windows, highest, claims, calls>>

Layers == {"ethernet", "arp", "ipv4", "udp", "dhcp", "mdns", "ssdp", "dns", "done"}

Window == [from : Nat, to : Nat]

TypeOK ==
    /\ caplen \in Lengths
    /\ layer \in Layers
    /\ windows \in Seq(Window) /\ windows # <<>>
    /\ highest \in Nat /\ claims \in Seq(Nat)
    /\ calls \in Seq({"arp", "dhcp", "mdns", "ssdp", "dns"})

Init ==
    /\ caplen \in Lengths
    /\ layer = "ethernet"
    /\ windows = <<[from |-> 0, to |-> caplen]>>
    /\ highest = 0
    /\ claims = <<>> /\ calls = <<>>

Top  == windows[Len(windows)]
Size == Top.to - Top.from

\* The parser read the first n bytes of its window.
Read(n) == highest' = IF n > 0 /\ Top.from + n > highest THEN Top.from + n ELSE highest

Drop == layer' = "done" /\ UNCHANGED <<windows, claims, calls>>

\* The parser hands a part of its window on, after a header that says where its
\* packet ends.
Pass(next, from, to, claim) ==
    /\ layer' = next
    /\ windows' = Append(windows, [from |-> from, to |-> to])
    /\ claims' = Append(claims, claim)
    /\ UNCHANGED calls

\* parse_ethernet, with one 802.1Q tag, and the test of the type in the callback.
Ethernet ==
    /\ layer = "ethernet"
    /\ \E tagged \in BOOLEAN, next \in {"arp", "ipv4", "done"} :
         LET header == IF tagged THEN 18 ELSE 14
         IN  IF Size < header THEN Drop /\ Read(IF Size < 14 THEN 0 ELSE 14)
             ELSE /\ Pass(next, Top.from + header, Top.to, Top.to)
                  /\ Read(header)
    /\ UNCHANGED caplen

Call(handler) == layer' = "done" /\ calls' = Append(calls, handler) /\ UNCHANGED <<windows, claims>>

\* parse_arp reads its 28 bytes one field after the other, then checks four of
\* them; a probe is a frame like others here.
Arp ==
    /\ layer = "arp"
    /\ IF Size < 28 THEN Drop ELSE Call("arp") \/ Drop
    /\ \E n \in 0..28 : (n <= Size /\ (Size >= 28 => n = 28)) /\ Read(n)
    /\ UNCHANGED caplen

\* Defect: the packet is taken to end where the frame ends.
Ipv4ToTheEnd ==
    /\ layer = "ipv4"
    /\ \E ihl \in Words, total \in Totals, next \in {"udp", "done"} :
         IF Size < 20 \/ ihl * 4 < 20 \/ Size < ihl * 4
           THEN Drop /\ Read(IF Size < 20 THEN 0 ELSE 1)
         ELSE IF total < ihl * 4 \/ Size < total THEN Drop /\ Read(4)
         ELSE /\ Pass(next, Top.from + ihl * 4, Top.to, Top.from + total)
              /\ Read(20)
    /\ UNCHANGED caplen

\* parse_ipv4 and the test of the protocol in the callback. The fragment offset is
\* not looked at.
Ipv4 ==
    /\ layer = "ipv4"
    /\ \E ihl \in Words, total \in Totals, next \in {"udp", "done"} :
         IF Size < 20 \/ ihl * 4 < 20 \/ Size < ihl * 4
           THEN Drop /\ Read(IF Size < 20 THEN 0 ELSE 1)
         ELSE IF total < ihl * 4 \/ Size < total THEN Drop /\ Read(4)
         ELSE /\ Pass(next, Top.from + ihl * 4, Top.from + total, Top.from + total)
              /\ Read(20)
    /\ UNCHANGED caplen

\* The branches of the callback, in their order.
Service(sp, dp) ==
    IF sp \in {67, 68} \/ dp \in {67, 68} THEN "dhcp"
    ELSE IF sp = 5353 \/ dp = 5353 THEN "mdns"
    ELSE IF sp = 1900 \/ dp = 1900 THEN "ssdp"
    ELSE IF sp = 53 \/ dp = 53 THEN "dns" ELSE "done"

\* Defect: the length field of the segment is not compared with the bytes there are.
UdpTrusted ==
    /\ layer = "udp"
    /\ \E sp, dp \in Ports, length \in UdpLengths :
         IF Size < 8 THEN Drop /\ Read(0)
         ELSE IF length < 8 THEN Drop /\ Read(8)
         ELSE /\ Pass(Service(sp, dp), Top.from + 8, Top.from + length, Top.from + length)
              /\ Read(8)
    /\ UNCHANGED caplen

\* parse_udp and the branches of the callback.
Udp ==
    /\ layer = "udp"
    /\ \E sp, dp \in Ports, length \in UdpLengths :
         IF Size < 8 THEN Drop /\ Read(0)
         ELSE IF length < 8 \/ length > Size THEN Drop /\ Read(8)
         ELSE /\ Pass(Service(sp, dp), Top.from + 8, Top.from + length, Top.from + length)
              /\ Read(8)
    /\ UNCHANGED caplen

\* The least length each message parser asks for.
Least(service) == CASE service = "dhcp" -> 240 [] service = "ssdp" -> 1 [] OTHER -> 12

\* Defect: the tracker is called although the parser gave nothing.
MessageUnchecked ==
    /\ layer \in {"dhcp", "mdns", "ssdp", "dns"}
    /\ Call(layer) /\ Read(Size)
    /\ UNCHANGED caplen

\* The parser of the message stays in its window (see DhcpOptions, DnsName and
\* DnsRecords); a message it accepts goes to the tracker.
Message ==
    /\ layer \in {"dhcp", "mdns", "ssdp", "dns"}
    /\ IF Size < Least(layer) THEN Drop /\ Read(0)
       ELSE (Call(layer) \/ Drop) /\ Read(Size)
    /\ UNCHANGED caplen

\* pcap_loop hands over the next packet.
NextPacket ==
    /\ layer = "done"
    /\ caplen' \in Lengths
    /\ layer' = "ethernet"
    /\ windows' = <<[from |-> 0, to |-> caplen']>>
    /\ highest' = 0 /\ claims' = <<>> /\ calls' = <<>>

Next == Ethernet \/ Arp \/ Ipv4 \/ Udp \/ Message \/ NextPacket

Spec == Init /\ [][Next]_vars
-----------------------------------------------------------------------------
(* Properties.                                                             *)

\* The windows lie in one another, from the captured bytes inwards, and no parser
\* reads past the captured bytes, whatever lengths the headers claim.
WindowsNested ==
    /\ Len(windows) >= 1 /\ windows[1] = [from |-> 0, to |-> caplen]
    /\ \A i, j \in 1..Len(windows) :
          i <= j => windows[i].from <= windows[j].from /\ windows[j].to <= windows[i].to
    /\ \A i \in 1..Len(windows) : windows[i].from <= windows[i].to
    /\ highest <= caplen

\* A message comes to the tracker at most once, and only from a window in which its
\* parser has the bytes it needs.
CalledOnSubstance ==
    /\ Len(calls) <= 1
    /\ \A i \in 1..Len(calls) : Size >= (IF calls[i] = "arp" THEN 28 ELSE Least(calls[i]))

\* What follows a packet in its frame, the padding of short frames, is not parsed as
\* part of its message: no window goes past what a header around it claims.
PaddingStaysOut == \A i \in 1..Len(claims) : Top.to <= claims[i]
=============================================================================
