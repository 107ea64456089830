---------------------------- MODULE Parsers_proofs ----------------------------
(***************************************************************************)
(* Proofs about the parsers. The packet path, for any lengths, header      *)
(* fields and ports: the invariant is the conjunction of the properties, a *)
(* parser may rely on its window because every parser before it narrowed   *)
(* one. The parsers of messages, for messages of any length and bytes:     *)
(* each stays in its own window, whatever lengths, counts and pointers the *)
(* message claims, and what it hands over is what the format says. There   *)
(* the invariants compare the loop with a walk over the pieces of the      *)
(* whole message, a function f that is fixed while the loop goes on.       *)
(***************************************************************************)
EXTENDS Parsers, SequenceTheorems, FiniteSetTheorems, WellFoundedInduction, TLAPS

\* No handler was called for a packet that is still on its way.
CallsOK == layer # "done" => calls = <<>>

IndInv == TypeOK /\ WindowsNested /\ PaddingStaysOut /\ CalledOnSubstance /\ CallsOK

\* The innermost window lies in the captured bytes.
LEMMA AppendFacts ==
    ASSUME NEW S, NEW s \in Seq(S), NEW e \in S
    PROVE  /\ Append(s, e) \in Seq(S) /\ Append(s, e) # <<>> /\ Len(Append(s, e)) = Len(s) + 1
           /\ \A i \in 1..Len(s) : Append(s, e)[i] = s[i]
           /\ Append(s, e)[Len(s) + 1] = e
OBVIOUS

LEMMA TopFacts ==
    ASSUME TypeOK, WindowsNested
    PROVE  /\ Len(windows) \in Nat /\ Len(windows) >= 1 /\ Top = windows[Len(windows)]
           /\ Top.from \in Nat /\ Top.to \in Nat /\ Top.from <= Top.to
           /\ caplen \in Nat /\ Top.to <= caplen
           /\ Size \in Nat /\ Size = Top.to - Top.from
<1>1. Len(windows) \in Nat /\ Len(windows) >= 1
  BY DEF TypeOK, WindowsNested
<1>2. Top \in Window /\ Top = windows[Len(windows)]
  BY <1>1 DEF TypeOK, Top
<1>3. Top.from \in Nat /\ Top.to \in Nat /\ caplen \in Nat
  BY <1>2, PathAssumption DEF Window, TypeOK
<1>4. windows[1].to = caplen
  BY DEF WindowsNested
<1>5. Top.from <= Top.to /\ Top.to <= caplen
  BY <1>1, <1>2, <1>4 DEF WindowsNested
<1> QED
  BY <1>1, <1>2, <1>3, <1>5 DEF Size

\* A parser that hands a part of its window on, no further than a header says,
\* and that read no more than its window holds, keeps the invariant.
LEMMA PassPreserves ==
    ASSUME IndInv, layer # "done", NEW next \in Layers, NEW from \in Nat, NEW to \in Nat,
           NEW claim \in Nat, NEW n \in Nat,
           Top.from <= from, from <= to, to <= Top.to, to <= claim, n <= Size,
           Pass(next, from, to, claim), Read(n), UNCHANGED caplen
    PROVE  IndInv'
<1> DEFINE w == [from |-> from, to |-> to]
<1> USE DEF IndInv
<1>0. /\ Len(windows) \in Nat /\ Len(windows) >= 1 /\ Top = windows[Len(windows)]
      /\ Top.from \in Nat /\ Top.to \in Nat /\ Top.from <= Top.to
      /\ caplen \in Nat /\ Top.to <= caplen /\ Size = Top.to - Top.from
  BY TopFacts
<1>1. /\ windows' = Append(windows, w) /\ claims' = Append(claims, claim)
      /\ layer' = next /\ calls' = <<>> /\ caplen' = caplen
      /\ w \in Window
  BY DEF Pass, CallsOK, Window
<1>2. /\ Len(windows') = Len(windows) + 1
      /\ \A i \in 1..Len(windows) : windows'[i] = windows[i]
      /\ windows'[Len(windows) + 1] = w
      /\ windows' \in Seq(Window) /\ windows' # <<>>
  <2>1. windows \in Seq(Window)
    BY DEF TypeOK
  <2> HIDE DEF w
  <2>2. windows' = Append(windows, w) /\ w \in Window
    BY <1>1
  <2> QED
    BY <2>1, <2>2, AppendFacts
<1>3. Top' = w
  BY <1>2 DEF Top
<1>4. highest' \in Nat /\ highest' <= caplen
  <2>1. highest \in Nat /\ highest <= caplen
    BY DEF TypeOK, WindowsNested
  <2>2. Top.from + n \in Nat /\ Top.from + n <= caplen
    BY <1>0
  <2>3. highest' = Top.from + n \/ highest' = highest
    BY DEF Read
  <2> QED
    BY <2>1, <2>2, <2>3
<1>5. TypeOK'
  BY <1>1, <1>2, <1>4 DEF TypeOK
<1>6. WindowsNested'
  <2>1. windows'[1] = [from |-> 0, to |-> caplen']
    BY <1>1, <1>2, TopFacts DEF WindowsNested
  <2>2. ASSUME NEW i \in 1..Len(windows'), NEW j \in 1..Len(windows'), i <= j
        PROVE  windows'[i].from <= windows'[j].from /\ windows'[j].to <= windows'[i].to
    <3>1. CASE j <= Len(windows)
      <4>1. i \in 1..Len(windows) /\ j \in 1..Len(windows)
        BY <1>0, <1>2, <2>2, <3>1
      <4>2. windows'[i] = windows[i] /\ windows'[j] = windows[j]
        BY <1>2, <4>1
      <4> QED
        BY Zenon, <2>2, <4>1, <4>2 DEF WindowsNested
    <3>2. CASE j = Len(windows) + 1 /\ i <= Len(windows)
      <4>1. windows[i].from <= Top.from /\ Top.to <= windows[i].to
        <5>1. Len(windows) \in Nat /\ Len(windows) >= 1 /\ Top = windows[Len(windows)]
          BY TopFacts
        <5>2. i \in 1..Len(windows) /\ Len(windows) \in 1..Len(windows) /\ i <= Len(windows)
          BY <2>2, <3>2, <5>1
        <5>3. /\ windows[i].from <= windows[Len(windows)].from
              /\ windows[Len(windows)].to <= windows[i].to
          BY Zenon, <5>2 DEF WindowsNested
        <5> QED
          BY Zenon, <5>1, <5>3
      <4>2. windows[i].from \in Nat /\ windows[i].to \in Nat
        <5>1. windows[i] \in Window
          BY <3>2, <2>2, <1>0 DEF TypeOK
        <5> QED
          BY <5>1 DEF Window
      <4>3. windows[i].from <= from /\ to <= windows[i].to
        <5>1. Top.from \in Nat /\ Top.to \in Nat /\ Top.from <= from /\ to <= Top.to
          BY <1>0
        <5>2. windows[i].from <= from
          BY <4>1, <4>2, <5>1
        <5>3. to <= windows[i].to
          BY <4>1, <4>2, <5>1
        <5> QED
          BY <5>2, <5>3
      <4>4. windows'[i] = windows[i] /\ windows'[j] = w
        BY <1>0, <1>2, <3>2
      <4> QED
        BY <4>3, <4>4
    <3>3. CASE i = Len(windows) + 1 /\ j = Len(windows) + 1
      BY <1>2, <3>3
    <3>4. j <= Len(windows) \/ (j = Len(windows) + 1 /\ (i <= Len(windows) \/ i = Len(windows) + 1))
      BY <1>0, <1>2, <2>2
    <3> QED
      BY Zenon, <3>1, <3>2, <3>3, <3>4
  <2>3. ASSUME NEW i \in 1..Len(windows') PROVE windows'[i].from <= windows'[i].to
    <3>1. i \in 1..Len(windows) \/ i = Len(windows) + 1
      BY <1>0, <1>2
    <3>2. CASE i \in 1..Len(windows)
      BY Zenon, <1>2, <3>2 DEF WindowsNested
    <3>3. CASE i = Len(windows) + 1
      BY <1>2, <3>3
    <3> QED
      BY <3>1, <3>2, <3>3
  <2>4. Len(windows') >= 1 /\ highest' <= caplen'
    BY <1>0, <1>1, <1>2, <1>4
  <2> QED
    BY Zenon, <2>1, <2>2, <2>3, <2>4 DEF WindowsNested
<1>7. PaddingStaysOut'
  <2>1. Len(claims') = Len(claims) + 1 /\ claims'[Len(claims) + 1] = claim
        /\ \A i \in 1..Len(claims) : claims'[i] = claims[i] /\ claims[i] \in Nat
    BY <1>1 DEF TypeOK
  <2>2. Len(claims) \in Nat
    BY DEF TypeOK
  <2>3. ASSUME NEW i \in 1..Len(claims') PROVE Top'.to <= claims'[i]
    <3>1. CASE i = Len(claims) + 1
      BY <1>3, <2>1, <3>1
    <3>2. CASE i \in 1..Len(claims)
      <4>1. Top.to <= claims[i] /\ claims[i] \in Nat /\ claims'[i] = claims[i]
        BY <2>1, <3>2 DEF PaddingStaysOut
      <4> QED
        BY <1>0, <1>3, <4>1
    <3> QED
      BY <2>1, <2>2, <2>3, <3>1, <3>2
  <2> QED
    BY <2>3 DEF PaddingStaysOut
<1>8. CalledOnSubstance' /\ CallsOK'
  BY <1>1 DEF CalledOnSubstance, CallsOK
<1> QED
  BY <1>5, <1>6, <1>7, <1>8

\* A parser that ends the path of its packet, and read no more than its window
\* holds, keeps the invariant.
LEMMA EndPreserves ==
    ASSUME IndInv, NEW n \in Nat, n <= Size, Read(n), UNCHANGED <<caplen, windows, claims>>,
           layer' = "done", TypeOK' => CalledOnSubstance',
           calls' \in Seq({"arp", "dhcp", "mdns", "ssdp", "dns"})
    PROVE  IndInv'
<1> USE DEF IndInv
<1>1. highest' \in Nat /\ highest' <= caplen
  <2>1. highest \in Nat /\ highest <= caplen
    BY DEF TypeOK, WindowsNested
  <2>2. Top.from + n \in Nat /\ Top.from + n <= caplen
    BY TopFacts
  <2>3. highest' = Top.from + n \/ highest' = highest
    BY DEF Read
  <2> QED
    BY <2>1, <2>2, <2>3
<1>2. TypeOK'
  BY <1>1 DEF TypeOK, Layers
<1>3. WindowsNested' /\ PaddingStaysOut'
  BY <1>1 DEF WindowsNested, PaddingStaysOut, Top
<1> QED
  BY <1>2, <1>3 DEF CallsOK

LEMMA DropPreserves ==
    ASSUME IndInv, layer # "done", NEW n \in Nat, n <= Size, Drop, Read(n), UNCHANGED caplen
    PROVE  IndInv'
<1>1. calls' = <<>> /\ layer' = "done" /\ UNCHANGED <<windows, claims>>
  BY DEF Drop, IndInv, CallsOK
<1>2. CalledOnSubstance'
  BY <1>1 DEF CalledOnSubstance
<1>3. calls' \in Seq({"arp", "dhcp", "mdns", "ssdp", "dns"})
  BY <1>1
<1> QED
  BY <1>1, <1>2, <1>3, EndPreserves

LEMMA CallPreserves ==
    ASSUME IndInv, layer # "done", NEW n \in Nat, n <= Size,
           NEW h \in {"arp", "dhcp", "mdns", "ssdp", "dns"},
           Size >= (IF h = "arp" THEN 28 ELSE Least(h)),
           Call(h), Read(n), UNCHANGED caplen
    PROVE  IndInv'
<1>1. calls' = <<h>> /\ layer' = "done" /\ UNCHANGED <<windows, claims>>
  BY DEF Call, IndInv, CallsOK
<1>2. Size' = Size
  BY <1>1 DEF Size, Top
<1>3. CalledOnSubstance'
  BY <1>1, <1>2 DEF CalledOnSubstance
<1>4. calls' \in Seq({"arp", "dhcp", "mdns", "ssdp", "dns"})
  BY <1>1
<1> QED
  BY <1>1, <1>3, <1>4, EndPreserves

\* A frame that is about to be parsed satisfies the invariant.
LEMMA FreshFrame ==
    ASSUME caplen \in Nat, windows = <<[from |-> 0, to |-> caplen]>>,
           claims = <<>>, calls = <<>>, highest = 0
    PROVE  WindowsNested /\ PaddingStaysOut /\ CalledOnSubstance /\ CallsOK
<1>1. Len(windows) = 1 /\ windows[1] = [from |-> 0, to |-> caplen]
  OBVIOUS
<1>2. ASSUME NEW i \in 1..Len(windows) PROVE i = 1
  BY <1>1
<1>3. windows[1].from = 0 /\ windows[1].to = caplen
  BY <1>1
<1>4. WindowsNested
  BY <1>1, <1>2, <1>3 DEF WindowsNested
<1>5. Len(claims) = 0 /\ Len(calls) = 0
  OBVIOUS
<1> QED
  BY <1>4, <1>5 DEF PaddingStaysOut, CalledOnSubstance, CallsOK

LEMMA InitEstablishes == Init => IndInv
<1> SUFFICES ASSUME Init PROVE IndInv
  OBVIOUS
<1>1. caplen \in Nat /\ windows = <<[from |-> 0, to |-> caplen]>>
      /\ calls = <<>> /\ claims = <<>> /\ highest = 0
  BY PathAssumption DEF Init
<1>2. TypeOK
  BY <1>1 DEF Init, TypeOK, Window, Layers
<1> QED
  BY <1>1, <1>2, FreshFrame DEF IndInv

LEMMA EthernetPreserves == IndInv /\ Ethernet => IndInv'
<1> SUFFICES ASSUME IndInv, layer = "ethernet", UNCHANGED caplen,
                    NEW tagged \in BOOLEAN, NEW next \in {"arp", "ipv4", "done"},
                    NEW header \in {14, 18},
                    IF Size < header THEN Drop /\ Read(IF Size < 14 THEN 0 ELSE 14)
                    ELSE /\ Pass(next, Top.from + header, Top.to, Top.to)
                         /\ Read(header)
             PROVE  IndInv'
  BY DEF Ethernet
<1>1. TypeOK /\ WindowsNested
  BY DEF IndInv
<1>2. CASE Size < header
  BY <1>1, <1>2, TopFacts, DropPreserves
<1>3. CASE ~(Size < header)
  <2>1. /\ Top.from + header \in Nat /\ Top.to \in Nat
        /\ Top.from <= Top.from + header /\ Top.from + header <= Top.to
        /\ Top.to <= Top.to /\ header \in Nat /\ header <= Size
    BY <1>1, <1>3, TopFacts
  <2>2. Pass(next, Top.from + header, Top.to, Top.to) /\ Read(header) /\ next \in Layers
    BY <1>3 DEF Layers
  <2> QED
    BY <2>1, <2>2, PassPreserves
<1> QED
  BY <1>2, <1>3

LEMMA ArpPreserves == IndInv /\ Arp => IndInv'
<1> SUFFICES ASSUME IndInv, layer = "arp", UNCHANGED caplen,
                    IF Size < 28 THEN Drop ELSE Call("arp") \/ Drop,
                    NEW n \in 0..28, n <= Size, Read(n)
             PROVE  IndInv'
  BY DEF Arp
<1>1. TypeOK /\ WindowsNested
  BY DEF IndInv
<1>2. CASE Drop
  BY <1>2, DropPreserves
<1>3. CASE Size >= 28 /\ Call("arp")
  BY <1>3, CallPreserves
<1> QED
  BY <1>1, <1>2, <1>3, TopFacts

LEMMA Ipv4Preserves == IndInv /\ Ipv4 => IndInv'
<1> SUFFICES ASSUME IndInv, layer = "ipv4", UNCHANGED caplen,
                    NEW ihl \in Words, NEW total \in Totals, NEW next \in {"udp", "done"},
                    IF Size < 20 \/ ihl * 4 < 20 \/ Size < ihl * 4
                      THEN Drop /\ Read(IF Size < 20 THEN 0 ELSE 1)
                    ELSE IF total < ihl * 4 \/ Size < total THEN Drop /\ Read(4)
                    ELSE /\ Pass(next, Top.from + ihl * 4, Top.from + total, Top.from + total)
                         /\ Read(20)
             PROVE  IndInv'
  BY DEF Ipv4
<1>1. TypeOK /\ WindowsNested /\ ihl * 4 \in Nat /\ total \in Nat
  BY PathAssumption DEF IndInv
<1>2. CASE Size < 20 \/ ihl * 4 < 20 \/ Size < ihl * 4
  BY <1>1, <1>2, TopFacts, DropPreserves
<1>3. CASE ~(Size < 20 \/ ihl * 4 < 20 \/ Size < ihl * 4) /\ (total < ihl * 4 \/ Size < total)
  BY <1>1, <1>3, TopFacts, DropPreserves
<1>4. CASE ~(Size < 20 \/ ihl * 4 < 20 \/ Size < ihl * 4) /\ ~(total < ihl * 4 \/ Size < total)
  <2>1. /\ Top.from + ihl * 4 \in Nat /\ Top.from + total \in Nat
        /\ Top.from <= Top.from + ihl * 4 /\ Top.from + ihl * 4 <= Top.from + total
        /\ Top.from + total <= Top.to /\ 20 <= Size
    <3> DEFINE h == ihl * 4
    <3>1. Size \in Nat /\ Top.from \in Nat /\ Top.to \in Nat /\ Size = Top.to - Top.from
      BY <1>1, TopFacts
    <3>2. h \in Nat /\ h <= total /\ total \in Nat /\ total <= Size /\ 20 <= Size
      BY <1>1, <1>4, <3>1
    <3> HIDE DEF h
    <3>3. /\ Top.from + h \in Nat /\ Top.from + total \in Nat
          /\ Top.from <= Top.from + h /\ Top.from + h <= Top.from + total /\ Top.from + total <= Top.to
      BY <3>1, <3>2
    <3> QED
      BY <3>2, <3>3 DEF h
  <2>2. Pass(next, Top.from + ihl * 4, Top.from + total, Top.from + total) /\ Read(20)
    BY <1>4
  <2> QED
    BY <2>1, <2>2, PassPreserves DEF Layers
<1> QED
  BY <1>2, <1>3, <1>4

LEMMA ServiceType == \A sp, dp : Service(sp, dp) \in Layers
BY DEF Service, Layers

LEMMA UdpPreserves == IndInv /\ Udp => IndInv'
<1> SUFFICES ASSUME IndInv, layer = "udp", UNCHANGED caplen,
                    NEW sp \in Ports, NEW dp \in Ports, NEW length \in UdpLengths,
                    IF Size < 8 THEN Drop /\ Read(0)
                    ELSE IF length < 8 \/ length > Size THEN Drop /\ Read(8)
                    ELSE /\ Pass(Service(sp, dp), Top.from + 8, Top.from + length,
                                 Top.from + length)
                         /\ Read(8)
             PROVE  IndInv'
  BY DEF Udp
<1>1. TypeOK /\ WindowsNested /\ length \in Nat
  BY PathAssumption DEF IndInv
<1>2. CASE Size < 8
  BY <1>1, <1>2, TopFacts, DropPreserves
<1>3. CASE ~(Size < 8) /\ (length < 8 \/ length > Size)
  BY <1>1, <1>3, TopFacts, DropPreserves
<1>4. CASE ~(Size < 8) /\ ~(length < 8 \/ length > Size)
  <2>1. /\ Top.from + 8 \in Nat /\ Top.from + length \in Nat
        /\ Top.from <= Top.from + 8 /\ Top.from + 8 <= Top.from + length
        /\ Top.from + length <= Top.to /\ 8 <= Size
    BY <1>1, <1>4, TopFacts
  <2>2. Pass(Service(sp, dp), Top.from + 8, Top.from + length, Top.from + length) /\ Read(8)
    BY <1>4
  <2> QED
    BY <2>1, <2>2, PassPreserves, ServiceType
<1> QED
  BY <1>2, <1>3, <1>4

LEMMA MessagePreserves == IndInv /\ Message => IndInv'
<1> SUFFICES ASSUME IndInv, layer \in {"dhcp", "mdns", "ssdp", "dns"}, UNCHANGED caplen,
                    IF Size < Least(layer) THEN Drop /\ Read(0)
                    ELSE (Call(layer) \/ Drop) /\ Read(Size)
             PROVE  IndInv'
  BY DEF Message
<1>1. TypeOK /\ WindowsNested
  BY DEF IndInv
<1>2. Least(layer) \in Nat
  BY DEF Least
<1>3. CASE Size < Least(layer)
  BY <1>1, <1>3, TopFacts, DropPreserves
<1>4. CASE ~(Size < Least(layer)) /\ Drop
  BY <1>1, <1>4, TopFacts, DropPreserves
<1>5. CASE ~(Size < Least(layer)) /\ Call(layer)
  BY <1>1, <1>2, <1>5, TopFacts, CallPreserves
<1> QED
  BY <1>3, <1>4, <1>5

LEMMA NextPacketPreserves == IndInv /\ NextPacket => IndInv'
<1> SUFFICES ASSUME IndInv, NextPacket PROVE IndInv'
  OBVIOUS
<1>1. caplen' \in Lengths /\ caplen' \in Nat /\ windows' = <<[from |-> 0, to |-> caplen']>>
      /\ calls' = <<>> /\ claims' = <<>> /\ highest' = 0 /\ layer' = "ethernet"
  BY PathAssumption DEF NextPacket
<1>2. TypeOK'
  BY <1>1 DEF TypeOK, Window, Layers
<1>3. Len(windows') = 1 /\ windows'[1] = [from |-> 0, to |-> caplen']
  BY <1>1
<1>4. ASSUME NEW i \in 1..Len(windows') PROVE i = 1
  BY <1>3
<1>5. windows'[1].from = 0 /\ windows'[1].to = caplen'
  BY <1>3
<1>6. WindowsNested'
  BY <1>1, <1>3, <1>4, <1>5 DEF WindowsNested
<1>7. Len(claims') = 0 /\ Len(calls') = 0
  BY <1>1
<1>8. PaddingStaysOut'
  BY <1>7 DEF PaddingStaysOut
<1>9. CalledOnSubstance'
  <2> SUFFICES ASSUME NEW i \in 1..Len(calls') PROVE FALSE
    BY <1>7 DEF CalledOnSubstance
  <2> QED
    BY <1>7
<1>10. CallsOK'
  BY <1>1 DEF CallsOK
<1> QED
  BY <1>2, <1>6, <1>8, <1>9, <1>10 DEF IndInv

LEMMA NextPreserves == IndInv /\ [Next]_vars => IndInv'
<1>1. ASSUME IndInv, UNCHANGED vars
      PROVE  IndInv'
  BY <1>1 DEF vars, IndInv, TypeOK, WindowsNested, PaddingStaysOut, CalledOnSubstance, CallsOK,
              Top, Size
<1> QED
  BY <1>1, EthernetPreserves, ArpPreserves, Ipv4Preserves, UdpPreserves, MessagePreserves,
     NextPacketPreserves DEF Next

\* The packet path keeps IndInv for every frame.
THEOREM InductiveInvariant == Spec => []IndInv
BY InitEstablishes, NextPreserves, PTL DEF Spec

\* The windows of the parsers lie in one another and nothing past the captured
\* bytes is read.
THEOREM WindowsNestedCorrect == Spec => []WindowsNested
<1>1. IndInv => WindowsNested
  BY DEF IndInv
<1> QED
  BY <1>1, InductiveInvariant, PTL

\* No parser works on bytes past the end that a header around it claims.
THEOREM PaddingStaysOutCorrect == Spec => []PaddingStaysOut
<1>1. IndInv => PaddingStaysOut
  BY DEF IndInv
<1> QED
  BY <1>1, InductiveInvariant, PTL

\* A packet makes at most one call, from a window that holds what its parser needs.
THEOREM CalledOnSubstanceCorrect == Spec => []CalledOnSubstance
<1>1. IndInv => CalledOnSubstance
  BY DEF IndInv
<1> QED
  BY <1>1, InductiveInvariant, PTL
-----------------------------------------------------------------------------
(* A DNS name.                                                             *)

\* A call of the parser that is somewhere in the message, or at its end.
CallIn == [pos : 0..Name!Size, name : Seq(Nat)]

InName ==
    /\ message \in Seq(Bytes) /\ Name!Size <= MaxName /\ start \in 0..Name!Size
    /\ nest \in Seq(CallIn) /\ Len(nest) \in 1..StackLimit
    /\ phase \in {"reading", "leaving", "crashed"}
    /\ reach \in 0..Name!Size

LEMMA InNameFacts ==
    ASSUME Name!NameAssumption, InName
    PROVE  /\ Name!Size \in Nat
           /\ Name!Call \in CallIn /\ Name!Here \in 0..Name!Size /\ Name!Call.name \in Seq(Nat)
           /\ \A p \in 0..(Name!Size - 1) : Name!At(p) \in 0..255
<1>1. Name!Size \in Nat
  BY DEF InName, Name!Size
<1>2. Name!Call \in CallIn
  BY DEF InName, Name!Call
<1>3. Name!Here \in 0..Name!Size /\ Name!Call.name \in Seq(Nat)
  BY <1>2 DEF CallIn, Name!Here
<1>4. ASSUME NEW p \in 0..(Name!Size - 1)
      PROVE  Name!At(p) \in 0..255
  <2>1. message \in Seq(Bytes) /\ p + 1 \in 1..Len(message)
    BY <1>1 DEF InName, Name!Size
  <2>2. message[p + 1] \in Bytes
    BY <2>1
  <2> QED
    BY <2>2 DEF Name!NameAssumption, Name!At
<1> QED
  BY <1>1, <1>2, <1>3, <1>4

LEMMA TargetType ==
    ASSUME Name!NameAssumption, InName, Name!Here + 1 < Name!Size
    PROVE  Name!Target(Name!Here) \in Nat
<1>1. Name!Here \in 0..(Name!Size - 1) /\ Name!Here + 1 \in 0..(Name!Size - 1)
  BY InNameFacts
<1>2. Name!At(Name!Here) \in 0..255 /\ Name!At(Name!Here + 1) \in 0..255
  BY <1>1, InNameFacts
<1>3. ASSUME NEW a \in 0..255, NEW b \in 0..255 PROVE (a % 64) * 256 + b \in Nat
  OBVIOUS
<1> QED
  BY <1>2, <1>3 DEF Name!Target

\* A call that goes on in the message stays there.
LEMMA MoveType ==
    ASSUME Name!NameAssumption, InName, NEW p \in 0..Name!Size, NEW name \in Seq(Nat)
    PROVE  Name!Move(p, name) \in Seq(CallIn) /\ Len(Name!Move(p, name)) = Len(nest)
<1>1. [pos |-> p, name |-> name] \in CallIn
  BY DEF CallIn
<1> QED
  BY <1>1 DEF InName, Name!Move

LEMMA FrontType ==
    ASSUME NEW S, NEW s \in Seq(S), Len(s) > 0
    PROVE  Name!Front(s) \in Seq(S) /\ Len(Name!Front(s)) = Len(s) - 1
<1> DEFINE n == Len(s) - 1
<1>1. n \in Nat /\ n <= Len(s)
  OBVIOUS
<1> HIDE DEF n
<1>2. SubSeq(s, 1, n) \in Seq(S)
  BY <1>1
<1>3. Len(SubSeq(s, 1, n)) = n
  BY <1>1
<1>4. Name!Front(s) = SubSeq(s, 1, n)
  BY DEF Name!Front, n
<1> QED
  BY <1>2, <1>3, <1>4 DEF n

LEMMA NameBegins == ASSUME Name!NameAssumption, Name!Init PROVE InName
<1>1. message \in Seq(Bytes) /\ Len(message) <= MaxName
  BY DEF Name!NameAssumption, Name!Init, Name!BoundedSeq, Name!SeqOf
<1>2. [pos |-> start, name |-> <<>>] \in CallIn
  BY <1>1 DEF Name!Init, CallIn, Name!Size
<1>3. nest \in Seq(CallIn) /\ Len(nest) = 1
  BY <1>2 DEF Name!Init
<1>4. Name!Size \in Nat
  BY <1>1 DEF Name!Size
<1> QED
  BY <1>1, <1>3, <1>4 DEF Name!NameAssumption, Name!Init, InName, Name!Size

\* The steps that move the call on, in the message.
LEMMA MovePreserves ==
    ASSUME Name!NameAssumption, InName, Name!EndOfMessage \/ Name!Zero \/ Name!BadPointer \/ Name!Label \/ Name!CutLabel
    PROVE  InName'
<1>1. Name!Size \in Nat /\ Name!Here \in 0..Name!Size /\ Name!Call.name \in Seq(Nat) /\ reach \in 0..Name!Size
  BY InNameFacts DEF InName
<1>2. UNCHANGED <<message, start>> /\ Name!Size' = Name!Size /\ CallIn' = CallIn
  BY DEF Name!EndOfMessage, Name!Zero, Name!BadPointer, Name!Label, Name!CutLabel, Name!Size, CallIn
<1>3. Name!Here < Name!Size => Name!At(Name!Here) \in 0..255
  BY <1>1, InNameFacts
<1>4. \E p \in 0..Name!Size, name \in Seq(Nat) : nest' = Name!Move(p, name)
  <2>1. CASE Name!EndOfMessage
    BY <1>1, <2>1 DEF Name!EndOfMessage, Name!Leave
  <2>2. CASE Name!Zero
    BY <1>1, <2>2 DEF Name!Zero, Name!Leave
  <2>3. CASE Name!BadPointer
    BY <1>1, <2>3 DEF Name!BadPointer, Name!Leave
  <2>4. CASE Name!Label
    <3>1. Name!Here < Name!Size /\ Name!Here + 1 + Name!At(Name!Here) <= Name!Size
      BY <2>4 DEF Name!Label
    <3>2. Name!At(Name!Here) \in 0..255
      BY <1>3, <3>1, Zenon
    <3>3. Name!At(Name!Here) \in Nat
      BY <3>2
    <3>4. Name!Here \in Nat /\ Name!Size \in Nat
      BY <1>1
    <3>5. Name!Here + 1 + Name!At(Name!Here) \in 0..Name!Size
      BY <3>1, <3>3, <3>4
    <3>6. Append(Name!Call.name, Name!Here) \in Seq(Nat)
      BY <1>1
    <3> QED
      BY <2>4, <3>5, <3>6 DEF Name!Label
  <2>5. CASE Name!CutLabel
    BY <1>1, <2>5 DEF Name!CutLabel, Name!Leave
  <2> QED
    BY <2>1, <2>2, <2>3, <2>4, <2>5
<1>5. reach' \in 0..Name!Size
  <2>1. CASE Name!EndOfMessage
    BY <1>1, <2>1 DEF Name!EndOfMessage
  <2>2. CASE Name!Zero
    BY <1>1, <2>2 DEF Name!Zero, Name!Read
  <2>3. CASE Name!BadPointer
    BY <1>1, <2>3 DEF Name!BadPointer, Name!Read
  <2>4. CASE Name!Label
    BY <1>1, <1>3, <2>4 DEF Name!Label, Name!Read
  <2>5. CASE Name!CutLabel
    BY <1>1, <2>5 DEF Name!CutLabel, Name!Read
  <2> QED
    BY <2>1, <2>2, <2>3, <2>4, <2>5
<1>6. phase' \in {"reading", "leaving", "crashed"}
  BY DEF InName, Name!EndOfMessage, Name!Zero, Name!BadPointer, Name!Label, Name!CutLabel, Name!Leave
<1>7. nest' \in Seq(CallIn) /\ Len(nest') \in 1..StackLimit
  BY <1>4, MoveType DEF InName
<1> QED
  BY <1>2, <1>5, <1>6, <1>7 DEF InName

\* The new call begins where the pointer leads, which is in the message.
LEMMA FollowPreserves ==
    ASSUME Name!NameAssumption, InName, Name!Follow
    PROVE  InName'
<1>1. Name!Size \in Nat /\ Name!Here \in 0..Name!Size /\ Name!Call.name \in Seq(Nat) /\ reach \in 0..Name!Size
  BY InNameFacts DEF InName
<1>2. UNCHANGED <<message, start>> /\ Name!Size' = Name!Size /\ CallIn' = CallIn
  BY DEF Name!Follow, Name!Size, CallIn
<1>3. reach' \in 0..Name!Size
  BY <1>1 DEF Name!Follow, Name!Read
<1>4. phase' \in {"reading", "leaving", "crashed"}
  BY DEF Name!Follow, InName
<1>5. nest' \in Seq(CallIn) /\ Len(nest') \in 1..StackLimit
  <2>1. CASE Len(nest) < StackLimit
    <3>1. [pos |-> Name!Target(Name!Here), name |-> <<>>] \in CallIn
      BY <1>1, TargetType DEF Name!Follow, CallIn
    <3>2. Name!Here + 2 \in 0..Name!Size
      BY <1>1 DEF Name!Follow
    <3>3. /\ Name!Move(Name!Here + 2, Name!Call.name) \in Seq(CallIn)
          /\ Len(Name!Move(Name!Here + 2, Name!Call.name)) = Len(nest)
      BY <1>1, <3>2, MoveType
    <3>4. nest' = Append(Name!Move(Name!Here + 2, Name!Call.name), [pos |-> Name!Target(Name!Here), name |-> <<>>])
      BY <2>1 DEF Name!Follow
    <3> HIDE DEF Name!Move
    <3> QED
      BY <2>1, <3>1, <3>3, <3>4 DEF Name!NameAssumption, InName
  <2>2. CASE ~(Len(nest) < StackLimit)
    BY <2>2 DEF Name!Follow, InName
  <2> QED
    BY <2>1, <2>2
<1> QED
  BY <1>2, <1>3, <1>4, <1>5 DEF InName

LEMMA ReturnPreserves ==
    ASSUME Name!NameAssumption, InName, Name!Return
    PROVE  InName'
<1> DEFINE n == Len(nest)
           caller == [nest[n - 1] EXCEPT !.name = @ \o Name!Call.name]
<1>1. UNCHANGED <<message, start, phase, reach>> /\ Name!Size' = Name!Size /\ CallIn' = CallIn
  BY DEF Name!Return, Name!Size, CallIn
<1>2. n \in Nat /\ n > 1 /\ n <= StackLimit /\ StackLimit \in Nat
  BY DEF Name!NameAssumption, Name!Return, InName
<1>3. caller \in CallIn
  <2>1. nest[n - 1] \in CallIn
    BY <1>2 DEF InName
  <2>2. nest[n - 1].name \o Name!Call.name \in Seq(Nat)
    BY <2>1, InNameFacts DEF CallIn
  <2> QED
    BY <2>1, <2>2 DEF CallIn
<1>4. Name!Front(Name!Front(nest)) \in Seq(CallIn) /\ Len(Name!Front(Name!Front(nest))) = n - 2
  <2>1. Name!Front(nest) \in Seq(CallIn) /\ Len(Name!Front(nest)) = n - 1
    BY <1>2, FrontType DEF InName
  <2> QED
    BY <1>2, <2>1, FrontType
<1>5. nest' = Append(Name!Front(Name!Front(nest)), caller)
  BY DEF Name!Return
<1>6. nest' \in Seq(CallIn) /\ Len(nest') = n - 1
  <2> HIDE DEF caller, n
  <2> QED
    BY <1>2, <1>3, <1>4, <1>5
<1> QED
  BY <1>1, <1>2, <1>6 DEF InName
-----------------------------------------------------------------------------
(* The options of a DHCP message.                                          *)

\* The record has its fields, whose options are not typed.
InfoOK ==
    info \in [msg_type : 0..8, hostname : Seq(Codes), requested_ip : Seq(Codes),
              param_request_list : Seq(Codes), options : {info.options}]

\* What was read lies in the message, and so does the place to go on at.
InOptions == Dhcp!TypeOK /\ InfoOK /\ Dhcp!StaysInOptions

LEMMA OptionsSize == Dhcp!TypeOK => Dhcp!Size \in Nat
BY DEF Dhcp!TypeOK, Dhcp!Size

LEMMA OptionByte == ASSUME Dhcp!OptionsAssumption, Dhcp!TypeOK, NEW p \in 0..(Dhcp!Size - 1) PROVE Dhcp!At(p) \in 0..255
<1>1. message \in Seq(Codes) /\ p + 1 \in 1..Len(message)
  BY DEF Dhcp!TypeOK, Dhcp!Size
<1>2. message[p + 1] \in Codes
  BY <1>1
<1> QED
  BY <1>2 DEF Dhcp!OptionsAssumption, Dhcp!At

LEMMA OptionsBegin == ASSUME Dhcp!OptionsAssumption, Dhcp!Init PROVE InOptions
<1>1. message \in Seq(Codes) /\ Len(message) <= MaxOptions
  BY DEF Dhcp!OptionsAssumption, Dhcp!Init, Dhcp!BoundedSeq, Dhcp!SeqOf
<1>2. Dhcp!TypeOK
  BY <1>1 DEF Dhcp!Init, Dhcp!TypeOK, Dhcp!Size, Dhcp!UNKNOWN, Dhcp!Nothing
<1> QED
  BY <1>1, <1>2 DEF Dhcp!Init, InOptions, InfoOK, Dhcp!StaysInOptions, Dhcp!Size, Dhcp!UNKNOWN, Dhcp!Nothing

\* The value of an option keeps its bytes, and the record its types.
LEMMA KeepType ==
    ASSUME Dhcp!TypeOK, InfoOK, NEW code \in Nat, NEW value \in Seq(Codes)
    PROVE  /\ Dhcp!Keep(code, value) \in
                [msg_type : 0..8, hostname : Seq(Codes), requested_ip : Seq(Codes),
                 param_request_list : Seq(Codes), options : {Dhcp!Keep(code, value).options}]
           /\ Len(Dhcp!Keep(code, value).requested_ip) \in {0, 4}
<1> DEFINE type == IF code = 53 /\ value # <<>> /\ value[1] \in 1..8 THEN value[1]
                                                                   ELSE info.msg_type
           name == IF code = 12 THEN value ELSE info.hostname
           ip   == IF code = 50 /\ Len(value) = 4 THEN value ELSE info.requested_ip
           list == IF code = 55 THEN value ELSE info.param_request_list
           all  == [c \in DOMAIN info.options \union {code} |->
                       IF c = code THEN value ELSE info.options[c]]
<1>1. Dhcp!Keep(code, value) = [info EXCEPT !.options = all, !.msg_type = type, !.hostname = name,
                                       !.requested_ip = ip, !.param_request_list = list]
  BY Zenon DEF Dhcp!Keep
<1>2. type \in 0..8
  BY DEF Dhcp!TypeOK
<1>3. name \in Seq(Codes) /\ list \in Seq(Codes)
  BY DEF Dhcp!TypeOK
<1>4. ip \in Seq(Codes) /\ Len(ip) \in {0, 4}
  BY DEF Dhcp!TypeOK
<1> HIDE DEF type, name, ip, list, all
<1>5. Dhcp!Keep(code, value) = [msg_type |-> type, hostname |-> name, requested_ip |-> ip,
                           param_request_list |-> list, options |-> all]
  BY <1>1 DEF InfoOK
<1> QED
  BY <1>2, <1>3, <1>4, <1>5

LEMMA OptionPreserves ==
    ASSUME Dhcp!OptionsAssumption, InOptions, Dhcp!Option
    PROVE  InOptions'
<1> DEFINE to == pos + 2 + Dhcp!At(pos + 1)
<1> USE DEF InOptions
<1>1. Dhcp!Size \in Nat /\ Dhcp!Size' = Dhcp!Size /\ pos \in Nat
  BY OptionsSize DEF Dhcp!Option, Dhcp!Size, Dhcp!TypeOK
<1>2. Dhcp!At(pos) \in 0..255 /\ Dhcp!At(pos + 1) \in 0..255
  BY <1>1, OptionByte DEF Dhcp!Option
<1>3. to \in Nat /\ to <= Dhcp!Size
  BY <1>1, <1>2 DEF Dhcp!Option
<1>4. SubSeq(message, pos + 3, to) \in Seq(Codes)
  BY <1>1, <1>3 DEF Dhcp!TypeOK, Dhcp!Size
<1>5. pos' = to /\ reach' \in Nat /\ reach' <= Dhcp!Size
  BY <1>1, <1>3 DEF Dhcp!Option, Dhcp!Read, Dhcp!TypeOK, Dhcp!StaysInOptions
<1>6. info' = Dhcp!Keep(Dhcp!At(pos), SubSeq(message, pos + 3, to))
  BY DEF Dhcp!Option
<1>7. Dhcp!TypeOK' /\ InfoOK'
  <2> HIDE DEF to
  <2>1. InfoOK' /\ Len(info'.requested_ip) \in {0, 4}
    <3> DEFINE new == Dhcp!Keep(Dhcp!At(pos), SubSeq(message, pos + 3, to))
    <3>1. Dhcp!At(pos) \in Nat
      BY <1>2
    <3>2. /\ new \in [msg_type : 0..8, hostname : Seq(Codes), requested_ip : Seq(Codes),
                       param_request_list : Seq(Codes), options : {new.options}]
          /\ Len(new.requested_ip) \in {0, 4}
      BY <3>1, <1>4, KeepType
    <3> HIDE DEF new
    <3> QED
      BY <3>2, <1>6 DEF InfoOK, new
  <2>2. UNCHANGED <<message, cookie, phase>>
    BY DEF Dhcp!Option
  <2> QED
    BY <1>1, <1>3, <1>5, <2>1, <2>2 DEF Dhcp!TypeOK, InfoOK
<1> QED
  BY <1>1, <1>5, <1>7 DEF Dhcp!StaysInOptions

LEMMA OptionsPreserved ==
    ASSUME Dhcp!OptionsAssumption, InOptions, Dhcp!Header \/ Dhcp!Pad \/ Dhcp!End \/ Dhcp!Cut
    PROVE  InOptions'
<1> USE DEF InOptions
<1>1. Dhcp!Size \in Nat /\ pos \in 0..Dhcp!Size /\ reach \in 0..Dhcp!Size
  BY OptionsSize DEF Dhcp!TypeOK, Dhcp!StaysInOptions
<1>2. UNCHANGED <<message, cookie, info>> /\ Dhcp!Size' = Dhcp!Size
  BY DEF Dhcp!Header, Dhcp!Pad, Dhcp!End, Dhcp!Cut, Dhcp!Size
<1>3. phase' \in {"header", "options", "done", "refused"}
  BY DEF Dhcp!Header, Dhcp!Pad, Dhcp!End, Dhcp!Cut, Dhcp!TypeOK
<1>4. pos' \in 0..Dhcp!Size /\ reach' \in 0..Dhcp!Size
  <2>1. CASE Dhcp!Header
    BY <1>1, <2>1 DEF Dhcp!Header
  <2>2. CASE Dhcp!Pad
    BY <1>1, <2>2 DEF Dhcp!Pad, Dhcp!Read
  <2>3. CASE Dhcp!End
    BY <1>1, <2>3 DEF Dhcp!End, Dhcp!Read
  <2>4. CASE Dhcp!Cut
    BY <1>1, <2>4 DEF Dhcp!Cut, Dhcp!Read
  <2> QED
    BY <2>1, <2>2, <2>3, <2>4
<1> QED
  BY <1>1, <1>2, <1>3, <1>4 DEF Dhcp!TypeOK, InfoOK, Dhcp!StaysInOptions
-----------------------------------------------------------------------------
(* The records of a DNS message.                                           *)

\* The answers so far lie before the place to go on at, which is behind the header.
InRecords ==
    /\ Records!TypeOK /\ Records!ReadsInMessage /\ Records!AnswersApart
    /\ \A i \in 1..Len(answers) : answers[i].to <= pos
    /\ phase = "header" => pos = 0
    /\ phase \in {"questions", "answers", "text"} => pos >= 12

LEMMA AnswerType ==
    ASSUME Records!TypeOK, NEW i \in 1..Len(answers)
    PROVE  answers[i].from \in Nat /\ answers[i].to \in Nat
<1> DEFINE R == [kind : {"A", "AAAA", "name", "TXT", "SRV", "other"}, from : Nat, to : Nat]
<1>1. answers[i] \in R
  <2>1. answers \in Seq(R)
    BY DEF Records!TypeOK
  <2> HIDE DEF R
  <2> QED
    BY <2>1
<1> QED
  BY <1>1

LEMMA NameEndsBehind ==
    ASSUME Records!RecordsAssumption, Records!TypeOK, NEW e \in Records!NameEnds(pos)
    PROVE  e \in Nat /\ e >= pos /\ Records!NameReads(pos) \in 0..len
BY DEF Records!RecordsAssumption, Records!TypeOK, Records!NameEnds, Records!NameReads

\* What is noted as read stays in the message when the step reads no further.
LEMMA ReadInMessage ==
    ASSUME Records!RecordsAssumption, InRecords, NEW p \in Int, p <= len, Records!Read(p)
    PROVE  reach' \in Nat /\ reach' <= len
BY DEF InRecords, Records!RecordsAssumption, Records!TypeOK, Records!ReadsInMessage, Records!Read

LEMMA RecordsBegin == ASSUME Records!RecordsAssumption, Records!Init PROVE InRecords
<1>1. counts.answers \in Nat
  BY DEF Records!Init, Records!RecordsAssumption
<1>2. answers = <<>> /\ Len(answers) = 0
  BY DEF Records!Init
<1>3. Records!AnswersApart /\ \A i \in 1..Len(answers) : answers[i].to <= pos
  BY <1>1, <1>2 DEF Records!AnswersApart
<1>4. len \in Nat
  BY DEF Records!Init, Records!RecordsAssumption
<1> QED
  BY <1>1, <1>2, <1>3, <1>4 DEF Records!Init, InRecords, Records!TypeOK, Records!ReadsInMessage, Records!AnswersApart

LEMMA QuestionsPreserve ==
    ASSUME Records!RecordsAssumption, InRecords, Records!Header \/ Records!Question \/ Records!QuestionsEnd
    PROVE  InRecords'
<1>1. UNCHANGED <<len, counts, answers, text>>
  BY DEF Records!Header, Records!Question, Records!QuestionsEnd
<1>2. len \in Nat /\ pos \in Nat /\ asked \in Nat /\ reach \in Nat /\ reach <= len
  BY DEF InRecords, Records!RecordsAssumption, Records!TypeOK, Records!ReadsInMessage
<1>3. /\ pos' \in Nat /\ pos' >= pos /\ asked' \in Nat
      /\ phase' \in {"questions", "answers", "refused"}
      /\ phase' \in {"questions", "answers"} => pos' >= 12
      /\ reach' \in Nat /\ reach' <= len
  <2>1. CASE Records!Header
    <3>1. CASE len < 12
      BY <1>2, <2>1, <3>1 DEF Records!Header
    <3>2. CASE ~(len < 12)
      BY <1>2, <2>1, <3>2, ReadInMessage DEF Records!Header, InRecords
    <3> QED
      BY <3>1, <3>2
  <2>2. CASE Records!Question
    <3>1. PICK e \in Records!NameEnds(pos) : pos' = e + 4
      BY <2>2 DEF Records!Question
    <3>2. e \in Nat /\ e >= pos /\ Records!NameReads(pos) \in 0..len
      BY <3>1, NameEndsBehind DEF InRecords
    <3>3. reach' \in Nat /\ reach' <= len
      BY <1>2, <2>2, <3>2, ReadInMessage DEF Records!Question
    <3> QED
      BY <1>2, <2>2, <3>1, <3>2, <3>3 DEF Records!Question, InRecords
  <2>3. CASE Records!QuestionsEnd
    BY <1>2, <2>3 DEF Records!QuestionsEnd, InRecords
  <2> QED
    BY <2>1, <2>2, <2>3
<1>4. Records!TypeOK'
  BY <1>1, <1>3 DEF InRecords, Records!TypeOK
<1>5. Records!AnswersApart' /\ \A i \in 1..Len(answers') : answers'[i].to <= pos'
  <2>1. \A i \in 1..Len(answers) : answers[i].to \in Nat
    BY AnswerType DEF InRecords
  <2> QED
    BY <1>1, <1>2, <1>3, <2>1 DEF InRecords, Records!AnswersApart
<1> QED
  BY <1>1, <1>3, <1>4, <1>5 DEF InRecords, Records!ReadsInMessage

\* An answer is kept behind the others and in front of the place to go on at.
LEMMA AnswerKept ==
    ASSUME InRecords, len \in Nat, counts.answers \in Nat,
           NEW k \in {"A", "AAAA", "name", "TXT", "SRV", "other"},
           NEW p \in Nat, NEW n \in Nat, p >= pos + 10, pos >= 12, p + n <= len,
           Len(answers) < counts.answers,
           answers' = Append(answers, [kind |-> k, from |-> p, to |-> p + n]),
           pos' = p + n, UNCHANGED <<len, counts>>
    PROVE  /\ answers' \in Seq([kind : {"A", "AAAA", "name", "TXT", "SRV", "other"},
                                from : Nat, to : Nat])
           /\ Records!AnswersApart'
           /\ \A i \in 1..Len(answers') : answers'[i].to <= pos'
<1> DEFINE Record == [kind : {"A", "AAAA", "name", "TXT", "SRV", "other"}, from : Nat, to : Nat]
           a == [kind |-> k, from |-> p, to |-> p + n]
<1>1. answers \in Seq(Record) /\ Len(answers) \in Nat /\ pos \in Nat
  BY DEF InRecords, Records!TypeOK
<1>2. a \in Record /\ a.from = p /\ a.to = p + n
  OBVIOUS
<1> HIDE DEF a, Record
<1>3. /\ answers' \in Seq(Record) /\ Len(answers') = Len(answers) + 1
      /\ \A i \in 1..Len(answers) : answers'[i] = answers[i]
      /\ answers'[Len(answers) + 1] = a
  BY <1>1, <1>2 DEF a
<1>4. ASSUME NEW i \in 1..Len(answers)
      PROVE  /\ answers[i].from \in Nat /\ answers[i].to \in Nat
             /\ 22 <= answers[i].from /\ answers[i].from <= answers[i].to
             /\ answers[i].to <= len /\ answers[i].to <= pos
  BY <1>1, AnswerType DEF InRecords, Records!AnswersApart
<1>5. ASSUME NEW i \in 1..Len(answers') PROVE i \in 1..Len(answers) \/ i = Len(answers) + 1
  BY <1>1, <1>3
<1>6. ASSUME NEW i \in 1..Len(answers')
      PROVE  /\ 22 <= answers'[i].from /\ answers'[i].from <= answers'[i].to
             /\ answers'[i].to <= len' /\ answers'[i].to <= pos'
  BY <1>1, <1>2, <1>3, <1>4, <1>5
<1>7. ASSUME NEW i \in 1..Len(answers'), NEW j \in 1..Len(answers'), i < j
      PROVE  answers'[i].to + 10 <= answers'[j].from
  <2>1. i \in 1..Len(answers)
    BY <1>1, <1>3, <1>7
  <2>2. CASE j \in 1..Len(answers)
    BY <1>3, <1>7, <2>1, <2>2 DEF InRecords, Records!AnswersApart
  <2>3. CASE j = Len(answers) + 1
    <3>1. answers'[i] = answers[i] /\ answers'[j] = a
      BY <1>3, <2>1, <2>3
    <3>2. answers'[i].to = answers[i].to /\ answers'[j].from = p
      BY <1>2, <3>1
    <3>3. answers[i].to \in Nat /\ answers[i].to <= pos
      BY <1>4, <2>1
    <3> QED
      BY <1>1, <3>2, <3>3
  <2> QED
    BY <1>5, <2>2, <2>3
<1>8. Len(answers') <= counts'.answers
  <2>1. Len(answers) < counts.answers /\ counts'.answers = counts.answers /\ counts.answers \in Nat
    BY DEF InRecords, Records!TypeOK, Records!RecordsAssumption
  <2> QED
    BY <1>1, <1>3, <2>1
<1>9. Records!AnswersApart'
  <2>1. 22 = 12 + 10
    OBVIOUS
  <2> QED
    BY Zenon, <1>6, <1>7, <1>8, <2>1 DEF Records!AnswersApart
<1> QED
  BY Zenon, <1>3, <1>6, <1>9 DEF Record

LEMMA AnswerPreserves ==
    ASSUME Records!RecordsAssumption, InRecords, Records!Answer
    PROVE  InRecords'
<1>1. UNCHANGED <<len, counts, asked>>
  BY DEF Records!Answer
<1>2. /\ len \in Nat /\ pos \in Nat /\ text \in Nat /\ reach \in Nat /\ reach <= len
      /\ counts.answers \in Nat /\ pos >= 12 /\ Len(answers) < counts.answers
  BY DEF InRecords, Records!RecordsAssumption, Records!TypeOK, Records!ReadsInMessage, Records!Answer
<1>3. PICK e \in Records!NameEnds(pos) :
         IF e + 10 > len
           THEN /\ phase' = "done" /\ pos' = e /\ Records!Read(Records!NameReads(pos))
                /\ UNCHANGED <<answers, text>>
         ELSE \E type \in {1, 5, 16, 28, 33, 47}, n \in DataLengths :
                LET p == e + 10
                    k == Records!Kind(type, n)
                IN  IF p + n > len
                      THEN phase' = "done" /\ pos' = p /\ Records!Read(p) /\ UNCHANGED <<answers, text>>
                    ELSE /\ answers' = Append(answers, [kind |-> k, from |-> p, to |-> p + n])
                         /\ Records!Read(Records!Later(p, Records!DataRead(k, p)))
                         /\ text' = p
                         /\ pos' = p + n
                         /\ phase' = IF k = "TXT" THEN "text" ELSE "answers"
  BY DEF Records!Answer
<1>4. e \in Nat /\ e >= pos /\ Records!NameReads(pos) \in 0..len
  BY NameEndsBehind DEF InRecords
<1>5. CASE UNCHANGED <<answers, text>> /\ phase' = "done" /\ pos' \in Nat /\ pos' >= pos
            /\ \E p \in Nat : p <= len /\ Records!Read(p)
  <2>1. reach' \in Nat /\ reach' <= len
    BY <1>5, ReadInMessage
  <2>2. \A i \in 1..Len(answers) : answers[i].to \in Nat
    BY AnswerType DEF InRecords
  <2>3. Records!AnswersApart' /\ \A i \in 1..Len(answers') : answers'[i].to <= pos'
    BY <1>1, <1>2, <1>5, <2>2 DEF InRecords, Records!AnswersApart
  <2> QED
    BY <1>1, <1>5, <2>1, <2>3 DEF InRecords, Records!TypeOK, Records!ReadsInMessage
<1>6. ASSUME NEW type \in {1, 5, 16, 28, 33, 47}, NEW n \in DataLengths, e + 10 + n <= len,
             answers' = Append(answers, [kind |-> Records!Kind(type, n),
                                         from |-> e + 10, to |-> e + 10 + n]),
             Records!Read(Records!Later(e + 10, Records!DataRead(Records!Kind(type, n), e + 10))),
             text' = e + 10, pos' = e + 10 + n,
             phase' = IF Records!Kind(type, n) = "TXT" THEN "text" ELSE "answers"
      PROVE  InRecords'
  <2> DEFINE k == Records!Kind(type, n)
             p == e + 10
  <2>1. n \in Nat /\ p \in Nat /\ p >= pos + 10 /\ p + n <= len
    BY <1>2, <1>4, <1>6 DEF Records!RecordsAssumption
  <2>2. /\ k \in {"A", "AAAA", "name", "TXT", "SRV", "other"}
        /\ k = "A" => n = 4
        /\ k = "AAAA" => n = 16
    BY <1>6 DEF Records!Kind
  <2>3. Records!NameReads(p) \in 0..len /\ Records!NameReads(p + 6) \in 0..len
    BY <1>2 DEF Records!NameReads
  <2> HIDE DEF k
  <2>4. Records!DataRead(k, p) \in Nat /\ Records!DataRead(k, p) <= len
    <3> HIDE DEF p
    <3>1. CASE k \in {"A", "AAAA"}
      BY SMTT(30), <1>2, <2>1, <2>2, <3>1 DEF Records!DataRead
    <3>2. CASE k \in {"name", "SRV"}
      BY <1>2, <2>3, <3>2 DEF Records!DataRead
    <3>3. CASE k \in {"TXT", "other"}
      BY <1>2, <3>3 DEF Records!DataRead
    <3> QED
      BY <2>2, <3>1, <3>2, <3>3
  <2>5. Records!Later(p, Records!DataRead(k, p)) \in Nat /\ Records!Later(p, Records!DataRead(k, p)) <= len
    BY <1>2, <2>1, <2>4 DEF Records!Later
  <2>6. reach' \in Nat /\ reach' <= len
    BY <1>6, <2>5, ReadInMessage DEF k
  <2>7. answers' = Append(answers, [kind |-> k, from |-> p, to |-> p + n]) /\ pos' = p + n
    BY <1>6 DEF k
  <2>8. /\ answers' \in Seq([kind : {"A", "AAAA", "name", "TXT", "SRV", "other"},
                             from : Nat, to : Nat])
        /\ Records!AnswersApart'
        /\ \A i \in 1..Len(answers') : answers'[i].to <= pos'
    <3> HIDE DEF p
    <3> QED
      BY <1>1, <1>2, <2>1, <2>2, <2>7, AnswerKept
  <2>9. phase' \in {"answers", "text"} /\ pos' \in Nat /\ pos' >= 12 /\ text' \in Nat
    BY <1>2, <1>6, <2>1
  <2> QED
    BY <1>1, <2>6, <2>8, <2>9 DEF InRecords, Records!TypeOK, Records!ReadsInMessage
<1>7. CASE e + 10 > len
  BY <1>2, <1>3, <1>4, <1>5, <1>7
<1>8. CASE ~(e + 10 > len)
  <2>1. PICK type \in {1, 5, 16, 28, 33, 47}, n \in DataLengths :
           LET p == e + 10
               k == Records!Kind(type, n)
           IN  IF p + n > len
                 THEN phase' = "done" /\ pos' = p /\ Records!Read(p) /\ UNCHANGED <<answers, text>>
               ELSE /\ answers' = Append(answers, [kind |-> k, from |-> p, to |-> p + n])
                    /\ Records!Read(Records!Later(p, Records!DataRead(k, p)))
                    /\ text' = p
                    /\ pos' = p + n
                    /\ phase' = IF k = "TXT" THEN "text" ELSE "answers"
    BY <1>3, <1>8
  <2>2. n \in Nat
    BY DEF Records!RecordsAssumption
  <2>3. CASE e + 10 + n > len
    <3>1. /\ phase' = "done" /\ pos' = e + 10 /\ Records!Read(e + 10)
          /\ UNCHANGED <<answers, text>>
      BY <2>1, <2>3
    <3>2. e + 10 \in Nat /\ e + 10 <= len /\ e + 10 >= pos
      BY <1>2, <1>4, <1>8
    <3> QED
      BY <1>5, <3>1, <3>2
  <2>4. CASE ~(e + 10 + n > len)
    <3>1. e + 10 + n <= len
      BY <1>2, <1>4, <2>2, <2>4
    <3> QED
      BY <1>6, <2>1, <2>4, <3>1
  <2> QED
    BY <2>3, <2>4
<1> QED
  BY <1>7, <1>8

LEMMA TextPreserves ==
    ASSUME Records!RecordsAssumption, InRecords, Records!Text \/ Records!TextEnds \/ Records!AnswersEnd
    PROVE  InRecords'
<1>1. UNCHANGED <<len, counts, pos, asked, answers>>
  BY DEF Records!Text, Records!TextEnds, Records!AnswersEnd
<1>2. len \in Nat /\ text \in Nat /\ reach \in Nat /\ reach <= len
  BY DEF InRecords, Records!RecordsAssumption, Records!TypeOK, Records!ReadsInMessage
<1>3. text' \in Nat /\ reach' \in Nat /\ reach' <= len /\ phase' \in {"text", "answers", "done"}
  <2>1. CASE Records!Text
    <3>1. PICK n \in TextLengths :
             IF text + 1 + n > len
               THEN phase' = "answers" /\ text' = text + 1 /\ Records!Read(text + 1)
             ELSE text' = text + 1 + n /\ Records!Read(text + 1 + n) /\ phase' = phase
      BY <2>1 DEF Records!Text
    <3>2. n \in Nat /\ text < len /\ phase = "text"
      BY <2>1 DEF Records!Text, Records!RecordsAssumption
    <3>3. CASE text + 1 + n > len
      BY <1>2, <3>1, <3>2, <3>3, ReadInMessage
    <3>4. CASE ~(text + 1 + n > len)
      BY <1>2, <3>1, <3>2, <3>4, ReadInMessage
    <3> QED
      BY <3>3, <3>4
  <2>2. CASE Records!TextEnds \/ Records!AnswersEnd
    BY <1>2, <2>2 DEF Records!TextEnds, Records!AnswersEnd
  <2> QED
    BY <2>1, <2>2
<1>4. phase' # "done" => pos >= 12
  <2>1. CASE Records!AnswersEnd
    BY <2>1 DEF Records!AnswersEnd
  <2>2. CASE phase = "text"
    BY <2>2 DEF InRecords
  <2> QED
    BY <2>1, <2>2 DEF Records!Text, Records!TextEnds
<1>5. Records!AnswersApart'
  BY <1>1 DEF InRecords, Records!AnswersApart
<1> QED
  BY <1>1, <1>3, <1>4, <1>5 DEF InRecords, Records!TypeOK, Records!ReadsInMessage
-----------------------------------------------------------------------------
(* The summary of an mDNS message and the headers of an SSDP message.      *)

\* A set of naturals that is not empty has a least element; it is the set whose
\* interval 1..n is minimal for inclusion.
LEMMA LeastNat ==
    ASSUME NEW S \in SUBSET Nat, S # {}
    PROVE  \E n \in S : \A k \in S : n <= k
<1>1. PICK m \in S : TRUE
  OBVIOUS
<1> DEFINE D == 1..m
           T == {1..n : n \in {j \in S : j <= m}}
           R == StrictSubsetOrdering(D)
<1>2. IsWellFoundedOn(R, FiniteSubsetsOf(D))
  BY FS_StrictSubsetOrderingWellFounded
<1>3. T # {}
  BY <1>1
<1>4. T \subseteq FiniteSubsetsOf(D)
  <2> SUFFICES ASSUME NEW n \in S, n <= m PROVE 1..n \in FiniteSubsetsOf(D)
    OBVIOUS
  <2>1. IsFiniteSet(1..n)
    BY FS_Interval
  <2>2. 1..n \subseteq 1..m
    OBVIOUS
  <2> QED BY <2>1, <2>2 DEF FiniteSubsetsOf
<1>5. PICK x \in T : \A y \in T : ~ (<<y, x>> \in R)
  <2> HIDE DEF T, R, D
  <2> QED BY <1>2, <1>3, <1>4, WFMin
<1>6. PICK n \in S : n <= m /\ x = 1..n
  OBVIOUS
<1>7. ASSUME NEW k \in S, k < n PROVE FALSE
  <2>1. 1..k \in T
    BY <1>6, <1>7
  <2>2. 1..k \subseteq 1..n /\ n \in 1..n /\ n \notin 1..k
    BY <1>6, <1>7
  <2>3. 1..k \in SUBSET D /\ 1..n \in SUBSET D
    BY <1>6, <1>7
  <2>4. <<1..k, 1..n>> \in R
    BY <2>2, <2>3 DEF StrictSubsetOrdering
  <2> QED BY <1>5, <1>6, <2>1, <2>4
<1> QED BY <1>6, <1>7


LEMMA MinFacts ==
    ASSUME NEW S \in SUBSET Nat, NEW i \in S, \A k \in S : i <= k
    PROVE  Mdns!Min(S) = i /\ Ssdp!Min(S) = i
<1>1. ASSUME NEW k \in S, \A j \in S : k <= j PROVE k = i
  <2>1. k \in Nat /\ i \in Nat /\ k <= i /\ i <= k
    BY <1>1
  <2> QED
    BY <2>1
<1>2. (CHOOSE k \in S : \A j \in S : k <= j) = i
  BY <1>1
<1> QED
  BY <1>2, Zenon DEF Mdns!Min, Ssdp!Min

Hosts    == [i \in DOMAIN message |-> Mdns!HostOf(message[i])]
Services == [i \in DOMAIN message |-> Mdns!ServiceOf(message[i])]

\* The first of the offers that were read, up to place p, is kept.
FirstKept(kept, offers, p) ==
    \/ kept = <<>> /\ \A i \in 1..p - 1 : offers[i] = <<>>
    \/ \E i \in 1..p - 1 :
          kept = offers[i] /\ kept # <<>> /\ \A j \in 1..i - 1 : offers[j] = <<>>

InSummary ==
    /\ Mdns!TypeOK
    /\ FirstKept(info.hostname, Hosts, pos) /\ FirstKept(info.service_type, Services, pos)
    /\ phase # "reading" => pos = Len(message) + 1
    /\ phase = "refused" <=>
          phase # "reading" /\ info.hostname = <<>> /\ info.service_type = <<>>

LEMMA KeptOn ==
    ASSUME NEW kept, NEW offers, NEW p \in Nat \ {0}, FirstKept(kept, offers, p)
    PROVE  FirstKept(Mdns!Kept(kept, offers[p]), offers, p + 1)
<1>1. (p + 1) - 1 = p /\ \A i \in 1..p : i \in 1..p - 1 \/ i = p
  OBVIOUS
<1>2. CASE kept = <<>> /\ \A i \in 1..p - 1 : offers[i] = <<>>
  <2>1. CASE offers[p] = <<>>
    BY <1>1, <1>2, <2>1 DEF FirstKept, Mdns!Kept
  <2>2. CASE offers[p] # <<>>
    BY <1>1, <1>2, <2>2 DEF FirstKept, Mdns!Kept
  <2> QED
    BY <2>1, <2>2
<1>3. CASE \E i \in 1..p - 1 :
              kept = offers[i] /\ kept # <<>> /\ \A j \in 1..i - 1 : offers[j] = <<>>
  <2>1. 1..p - 1 \subseteq 1..p
    OBVIOUS
  <2> QED
    BY <1>1, <1>3, <2>1 DEF FirstKept, Mdns!Kept
<1> QED
  BY <1>2, <1>3 DEF FirstKept

LEMMA KeptIsFirst ==
    ASSUME NEW kept, NEW offers, NEW n \in Nat, DOMAIN offers = 1..n,
           FirstKept(kept, offers, n + 1)
    PROVE  kept = Mdns!FirstOf(offers)
<1> DEFINE made == {i \in DOMAIN offers : offers[i] # <<>>}
<1>1. Mdns!FirstOf(offers) = IF made = {} THEN <<>> ELSE offers[Mdns!Min(made)]
  BY DEF Mdns!FirstOf
<1>2. (n + 1) - 1 = n
  OBVIOUS
<1>3. CASE kept = <<>> /\ \A i \in 1..n : offers[i] = <<>>
  BY <1>1, <1>3
<1>4. ASSUME NEW i \in 1..n, kept = offers[i], kept # <<>>, \A j \in 1..i - 1 : offers[j] = <<>>
      PROVE  kept = Mdns!FirstOf(offers)
  <2>1. made \in SUBSET Nat /\ i \in made
    BY <1>4
  <2>2. ASSUME NEW k \in made PROVE i <= k
    <3>1. k \in 1..n /\ offers[k] # <<>>
      OBVIOUS
    <3>2. k \notin 1..i - 1
      BY <1>4, <3>1
    <3> QED
      BY <3>1, <3>2
  <2>3. Mdns!Min(made) = i
    <3> HIDE DEF made
    <3> QED
      BY <2>1, <2>2, MinFacts
  <2> QED
    BY <1>1, <1>4, <2>1, <2>3
<1> QED
  BY <1>2, <1>3, <1>4 DEF FirstKept

LEMMA SummaryBegins == ASSUME ParsersAssumption, Mdns!Init PROVE InSummary
<1>1. message \in Seq(Mdns!Answers) /\ Len(message) <= MaxAnswers
  BY DEF ParsersAssumption, Mdns!Init, Mdns!BoundedSeq, Mdns!SeqOf
<1>2. /\ phase = "reading" /\ pos = 1
      /\ info.hostname = <<>> /\ info.service_type = <<>>
  BY DEF Mdns!Init, Mdns!Nothing
<1>3. DOMAIN info = DOMAIN Mdns!Nothing
  BY DEF Mdns!Init
<1>4. 1 \in 1..(Len(message) + 1) /\ \A i \in 1..1 - 1 : FALSE
  BY <1>1
<1>5. FirstKept(info.hostname, Hosts, pos) /\ FirstKept(info.service_type, Services, pos)
  BY <1>2, <1>4, Zenon DEF FirstKept
<1>6. Mdns!TypeOK
  BY <1>1, <1>2, <1>3, <1>4, Zenon DEF Mdns!TypeOK
<1>7. phase # "refused"
  BY <1>2
<1> QED
  BY <1>2, <1>5, <1>6, <1>7, Zenon DEF InSummary

LEMMA SummaryPreserved ==
    ASSUME InSummary, Mdns!Next
    PROVE  InSummary'
<1>1. /\ message \in Seq(Mdns!Answers) /\ Len(message) \in Nat /\ DOMAIN message = 1..Len(message)
      /\ pos \in 1..(Len(message) + 1)
  BY DEF InSummary, Mdns!TypeOK
<1>2. message' = message /\ Hosts' = Hosts /\ Services' = Services /\ Mdns!Answers' = Mdns!Answers
  BY DEF Mdns!Next, Mdns!ReadAnswer, Mdns!Finish, Hosts, Services, Mdns!Answers,
         Mdns!HostOf, Mdns!ServiceOf
<1>3. CASE Mdns!ReadAnswer
  <2>1. /\ phase = "reading" /\ phase' = "reading" /\ pos' = pos + 1 /\ pos <= Len(message)
        /\ DOMAIN info' = DOMAIN Mdns!Nothing
        /\ info'.hostname = Mdns!Kept(info.hostname, Mdns!HostOf(message[pos]))
        /\ info'.service_type = Mdns!Kept(info.service_type, Mdns!ServiceOf(message[pos]))
    BY <1>3 DEF Mdns!ReadAnswer, Mdns!Nothing
  <2>2. pos \in DOMAIN message /\ pos \in Nat \ {0} /\ pos' \in 1..(Len(message) + 1)
    BY <1>1, <2>1
  <2>3. Hosts[pos] = Mdns!HostOf(message[pos]) /\ Services[pos] = Mdns!ServiceOf(message[pos])
    BY <2>2 DEF Hosts, Services
  <2>4. FirstKept(info.hostname, Hosts, pos) /\ FirstKept(info.service_type, Services, pos)
    BY DEF InSummary
  <2>5. /\ FirstKept(info'.hostname, Hosts, pos')
        /\ FirstKept(info'.service_type, Services, pos')
    BY <2>1, <2>2, <2>3, <2>4, KeptOn
  <2>6. FirstKept(info.hostname, Hosts, pos)' /\ FirstKept(info.service_type, Services, pos)'
    BY <1>2, <2>5 DEF FirstKept
  <2>7. Mdns!TypeOK'
    BY <1>2, <2>1, <2>2 DEF InSummary, Mdns!TypeOK
  <2> QED
    BY <2>1, <2>6, <2>7, Zenon DEF InSummary
<1>4. CASE Mdns!Finish
  <2>1. /\ UNCHANGED <<pos, info>> /\ pos > Len(message)
        /\ phase' = IF info.hostname = <<>> /\ info.service_type = <<>> THEN "refused" ELSE "done"
    BY <1>4 DEF Mdns!Finish
  <2>2. pos' = Len(message') + 1
    BY <1>1, <1>2, <2>1
  <2>3. FirstKept(info.hostname, Hosts, pos)' /\ FirstKept(info.service_type, Services, pos)'
    BY <1>2, <2>1 DEF InSummary, FirstKept
  <2>4. Mdns!TypeOK'
    BY <1>2, <2>1 DEF InSummary, Mdns!TypeOK
  <2> QED
    BY <2>1, <2>2, <2>3, <2>4 DEF InSummary
<1> QED
  BY <1>3, <1>4 DEF Mdns!Next

LEMMA SummaryOfFirst == InSummary => Mdns!FirstOfferTaken
<1> SUFFICES ASSUME InSummary PROVE Mdns!FirstOfferTaken
  OBVIOUS
<1>1. /\ Len(message) \in Nat /\ DOMAIN message = 1..Len(message)
      /\ pos \in 1..(Len(message) + 1)
  BY DEF InSummary, Mdns!TypeOK
<1>2. DOMAIN Hosts = 1..Len(message) /\ DOMAIN Services = 1..Len(message)
  BY <1>1 DEF Hosts, Services
<1>3. ASSUME phase # "reading"
      PROVE  /\ info.hostname = Mdns!FirstOf(Hosts) /\ info.service_type = Mdns!FirstOf(Services)
             /\ pos > Len(message)
  BY <1>1, <1>2, <1>3, KeptIsFirst DEF InSummary
<1>4. phase = "refused" <=> phase # "reading" /\ info.hostname = <<>> /\ info.service_type = <<>>
  BY DEF InSummary
<1>5. /\ phase = "done" => /\ info.hostname = Mdns!FirstOf(Hosts)
                           /\ info.service_type = Mdns!FirstOf(Services)
      /\ phase = "refused" <=>
            pos > Len(message) /\ phase # "reading"
               /\ Mdns!FirstOf(Hosts) = <<>> /\ Mdns!FirstOf(Services) = <<>>
  BY <1>3, <1>4
<1> QED
  BY <1>5, Zenon DEF Mdns!FirstOfferTaken, Hosts, Services

\* The line at p ends in the text, and the next begins there or at its end.
LEMMA LineFacts ==
    ASSUME Ssdp!TypeOK, NEW p \in 0..Ssdp!Size, Ssdp!HasLine(p)
    PROVE  /\ Ssdp!NextLine(p) \in 0..Ssdp!Size
           /\ Ssdp!Line(p) \in Seq(Ssdp!AllPieces)
<1>1. message \in Seq(Ssdp!AllPieces) /\ Ssdp!Size \in Nat /\ Ssdp!Size = Len(message)
  BY DEF Ssdp!TypeOK, Ssdp!Size
<1>2. ASSUME NEW S \in SUBSET (p..Ssdp!Size - 1), S # {}
      PROVE  Ssdp!Min(S) \in S
  <2>1. S \in SUBSET Nat
    BY <1>1
  <2> QED
    BY <1>2, <2>1, LeastNat, MinFacts
<1>3. /\ Ssdp!CrLfs(p) \in SUBSET (p..Ssdp!Size - 1)
      /\ \A i \in Ssdp!CrLfs(p) : i \in p..Ssdp!Size - 2
      /\ Ssdp!Lfs(p) \in SUBSET (p..Ssdp!Size - 1)
  BY <1>1 DEF Ssdp!CrLfs, Ssdp!Lfs
<1>4. CASE Ssdp!CrLfs(p) # {}
  <2>1. Ssdp!LineEnd(p) \in p..Ssdp!Size - 2 /\ Ssdp!NextLine(p) = Ssdp!LineEnd(p) + 2
    BY <1>2, <1>3, <1>4 DEF Ssdp!LineEnd, Ssdp!NextLine
  <2>2. SubSeq(message, p + 1, Ssdp!LineEnd(p)) \in Seq(Ssdp!AllPieces)
    BY <1>1, <2>1
  <2> QED
    BY <1>1, <2>1, <2>2 DEF Ssdp!Line
<1>5. CASE Ssdp!CrLfs(p) = {}
  <2>1. Ssdp!LineEnd(p) \in p..Ssdp!Size - 1 /\ Ssdp!NextLine(p) = Ssdp!LineEnd(p) + 1
    BY <1>2, <1>3, <1>5 DEF Ssdp!LineEnd, Ssdp!NextLine, Ssdp!HasLine
  <2>2. SubSeq(message, p + 1, Ssdp!LineEnd(p)) \in Seq(Ssdp!AllPieces)
    BY <1>1, <2>1
  <2> QED
    BY <1>1, <2>1, <2>2 DEF Ssdp!Line
<1> QED
  BY <1>4, <1>5

LEMMA ValueType ==
    ASSUME NEW S, NEW line \in Seq(S), ":" \in Ssdp!ToSet(line)
    PROVE  SubSeq(line, Ssdp!Colon(line) + 1, Len(line)) \in Seq(S)
<1> DEFINE colons == {i \in 1..Len(line) : line[i] = ":"}
<1>1. colons \in SUBSET Nat /\ colons # {}
  BY DEF Ssdp!ToSet
<1>2. Ssdp!Min(colons) \in colons
  <2> HIDE DEF colons
  <2> QED
    BY <1>1, LeastNat, MinFacts
<1>3. Ssdp!Colon(line) \in 1..Len(line)
  BY <1>2 DEF Ssdp!Colon
<1> QED
  BY <1>3

LEMMA HeadersBegin == ASSUME ParsersAssumption, Ssdp!Init PROVE Ssdp!TypeOK
<1>1. PICK f \in FirstLines, rest \in Ssdp!BoundedSeq(Pieces, MaxPieces) : message = f \o rest
  BY DEF Ssdp!Init
<1>2. rest \in Seq(Pieces)
  BY DEF ParsersAssumption, Ssdp!BoundedSeq, Ssdp!SeqOf
<1>3. f \in Seq(STRING) /\ \A i \in 1..Len(f) : f[i] \in Ssdp!ToSet(f)
  BY DEF ParsersAssumption, Ssdp!ToSet
<1>4. \A i \in 1..Len(f) : f[i] \in Ssdp!AllPieces
  BY <1>3 DEF Ssdp!AllPieces
<1>5. f \in Seq(Ssdp!AllPieces)
  BY <1>3, <1>4
<1>6. Pieces \subseteq Ssdp!AllPieces
  BY DEF Ssdp!AllPieces
<1>7. rest \in Seq(Ssdp!AllPieces)
  BY <1>2, <1>6, SeqMonotonic
<1>8. message \in Seq(Ssdp!AllPieces)
  <2> HIDE DEF Ssdp!AllPieces
  <2> QED
    BY <1>1, <1>5, <1>7
<1>9. Ssdp!Size \in Nat
  BY <1>8 DEF Ssdp!Size
<1> QED
  BY <1>8, <1>9 DEF Ssdp!Init, Ssdp!TypeOK

LEMMA HeadersPreserved ==
    ASSUME Ssdp!TypeOK, Ssdp!Next
    PROVE  Ssdp!TypeOK'
<1>1. UNCHANGED message /\ Ssdp!Size' = Ssdp!Size /\ Ssdp!AllPieces' = Ssdp!AllPieces
  BY DEF Ssdp!Next, Ssdp!Method, Ssdp!Header, Ssdp!HeadersEnd, Ssdp!Size, Ssdp!AllPieces
<1>2. pos \in 0..Ssdp!Size
  BY DEF Ssdp!TypeOK
<1>3. pos' \in 0..Ssdp!Size
  BY <1>2, LineFacts DEF Ssdp!Next, Ssdp!Method, Ssdp!Header, Ssdp!HeadersEnd
<1>4. phase' \in {"method", "headers", "done", "refused"}
  BY DEF Ssdp!TypeOK, Ssdp!Next, Ssdp!Method, Ssdp!Header, Ssdp!HeadersEnd
<1>5. \A k \in DOMAIN headers' : headers'[k] \in Seq(Ssdp!AllPieces)
  <2>1. \A k \in DOMAIN headers : headers[k] \in Seq(Ssdp!AllPieces)
    BY DEF Ssdp!TypeOK
  <2>2. CASE UNCHANGED headers
    BY <2>1, <2>2
  <2>3. CASE Ssdp!Header /\ ":" \in Ssdp!ToSet(Ssdp!Line(pos))
    <3> DEFINE line  == Ssdp!Line(pos)
               value == SubSeq(line, Ssdp!Colon(line) + 1, Len(line))
               key   == [i \in 1..Ssdp!Colon(line) - 1 |-> Ssdp!Key(line[i])]
    <3>1. value \in Seq(Ssdp!AllPieces)
      <4>1. line \in Seq(Ssdp!AllPieces) /\ ":" \in Ssdp!ToSet(line)
        BY <1>2, <2>3, LineFacts DEF Ssdp!Header
      <4> HIDE DEF line
      <4> QED
        BY <4>1, ValueType
    <3>2. headers' = [k \in DOMAIN headers \union {key} |-> IF k = key THEN value ELSE headers[k]]
      BY <2>3 DEF Ssdp!Header
    <3> HIDE DEF value, key, line
    <3> QED
      BY <2>1, <3>1, <3>2
  <2> QED
    BY <2>2, <2>3 DEF Ssdp!Next, Ssdp!Method, Ssdp!Header, Ssdp!HeadersEnd
<1> QED
  BY <1>1, <1>3, <1>4, <1>5 DEF Ssdp!TypeOK
-----------------------------------------------------------------------------
(* The parsers together: each has the part of its name to itself.          *)

ParsersInv ==
    /\ part = "name" => InName
    /\ part = "records" => InRecords
    /\ part = "dhcp" => InOptions
    /\ part = "mdns" => InSummary
    /\ part = "ssdp" => Ssdp!TypeOK

LEMMA ParsersBegin == ParsersInit => ParsersInv
<1> SUFFICES ASSUME ParsersInit PROVE ParsersInv
  OBVIOUS
<1>1. /\ part = "name" => Name!Init
      /\ part = "records" => Records!Init
      /\ part = "dhcp" => Dhcp!Init
      /\ part = "mdns" => Mdns!Init
      /\ part = "ssdp" => Ssdp!Init
  BY DEF ParsersInit
<1> QED
  BY <1>1, ParsersAssumption, NameBegins, RecordsBegin, OptionsBegin, SummaryBegins, HeadersBegin
     DEF ParsersInv, ParsersAssumption

LEMMA ParsersPreserve == ParsersInv /\ [ParsersNext]_<<part, vars, messages>> => ParsersInv'
<1> SUFFICES ASSUME ParsersInv, [ParsersNext]_<<part, vars, messages>> PROVE ParsersInv'
  OBVIOUS
<1>a. Name!NameAssumption /\ Records!RecordsAssumption /\ Dhcp!OptionsAssumption
  BY ParsersAssumption DEF ParsersAssumption
<1>1. CASE HandOn
  <2>1. part = "path" /\ part' = part
    BY <1>1 DEF HandOn
  <2> QED
    BY <2>1 DEF ParsersInv
<1>2. CASE ReadName
  <2>1. part = "name" /\ part' = part /\ Name!Next
    BY <1>2 DEF ReadName
  <2>2. InName'
    BY <1>a, <2>1, MovePreserves, FollowPreserves, ReturnPreserves DEF Name!Next, ParsersInv
  <2> QED
    BY <2>1, <2>2 DEF ParsersInv
<1>3. CASE ReadRecords
  <2>1. part = "records" /\ part' = part /\ Records!Next
    BY <1>3 DEF ReadRecords
  <2>2. InRecords'
    BY <1>a, <2>1, QuestionsPreserve, AnswerPreserves, TextPreserves DEF Records!Next, ParsersInv
  <2> QED
    BY <2>1, <2>2 DEF ParsersInv
<1>4. CASE ReadAnswers
  <2>1. part = "mdns" /\ part' = part /\ Mdns!Next
    BY <1>4 DEF ReadAnswers
  <2>2. InSummary'
    BY <2>1, SummaryPreserved DEF ParsersInv
  <2> QED
    BY <2>1, <2>2 DEF ParsersInv
<1>5. CASE ReadOptions
  <2>1. part = "dhcp" /\ part' = part /\ Dhcp!Next
    BY <1>5 DEF ReadOptions
  <2>2. InOptions'
    BY <1>a, <2>1, OptionPreserves, OptionsPreserved DEF Dhcp!Next, ParsersInv
  <2> QED
    BY <2>1, <2>2 DEF ParsersInv
<1>6. CASE ReadHeaders
  <2>1. part = "ssdp" /\ part' = part /\ Ssdp!Next
    BY <1>6 DEF ReadHeaders
  <2>2. Ssdp!TypeOK'
    BY <2>1, HeadersPreserved DEF ParsersInv
  <2> QED
    BY <2>1, <2>2 DEF ParsersInv
<1>7. CASE UNCHANGED <<part, vars, messages>>
  <2>1. part' = part
    BY <1>7
  <2>2. CASE part = "name"
    BY <1>7, <2>1, <2>2 DEF ParsersInv, messages, InName, CallIn, Name!Size
  <2>3. CASE part = "records"
    BY <1>7, <2>1, <2>3 DEF ParsersInv, messages, InRecords, Records!TypeOK,
                            Records!ReadsInMessage, Records!AnswersApart
  <2>4. CASE part = "dhcp"
    BY <1>7, <2>1, <2>4 DEF ParsersInv, messages, InOptions, InfoOK, Dhcp!TypeOK,
                            Dhcp!StaysInOptions, Dhcp!Size
  <2>5. CASE part = "mdns"
    <3>1. UNCHANGED <<message, phase, pos, info>>
      BY <1>7 DEF messages
    <3>2. InSummary /\ Mdns!Answers' = Mdns!Answers /\ Hosts' = Hosts /\ Services' = Services
      BY <2>5, <3>1 DEF ParsersInv, Mdns!Answers, Hosts, Services, Mdns!HostOf, Mdns!ServiceOf
    <3>3. InSummary'
      BY <3>1, <3>2 DEF InSummary, FirstKept, Mdns!TypeOK
    <3> QED
      BY <2>1, <2>5, <3>3 DEF ParsersInv
  <2>6. CASE part = "ssdp"
    BY <1>7, <2>1, <2>6 DEF ParsersInv, messages, Ssdp!TypeOK, Ssdp!Size, Ssdp!AllPieces
  <2> QED
    BY <2>1, <2>2, <2>3, <2>4, <2>5, <2>6 DEF ParsersInv
<1> QED
  BY <1>1, <1>2, <1>3, <1>4, <1>5, <1>6, <1>7 DEF ParsersNext, Parse

LEMMA ParsersInductive == ParsersSpec => []ParsersInv
BY ParsersBegin, ParsersPreserve, PTL DEF ParsersSpec

LEMMA NameInBounds == InName => Name!TypeOK /\ Name!StaysInMessage
<1> SUFFICES ASSUME InName PROVE Name!TypeOK /\ Name!StaysInMessage
  OBVIOUS
<1>1. Name!NameAssumption
  BY ParsersAssumption DEF ParsersAssumption
<1>2. CallIn \subseteq [pos : Nat, name : Seq(Nat)]
  BY <1>1, InNameFacts DEF CallIn
<1>3. nest \in Seq([pos : Nat, name : Seq(Nat)])
  BY <1>2, SeqMonotonic DEF InName
<1>4. Name!Size \in Nat /\ reach <= Name!Size
  BY <1>1, InNameFacts DEF InName
<1>5. ASSUME NEW i \in 1..Len(nest) PROVE nest[i].pos <= Name!Size
  <2>1. nest[i] \in CallIn
    BY DEF InName
  <2> QED
    BY <1>4, <2>1 DEF CallIn
<1>6. Name!StaysInMessage
  BY <1>4, <1>5, Zenon DEF Name!StaysInMessage
<1>7. Name!TypeOK
  BY <1>3, <1>4 DEF InName, Name!TypeOK
<1> QED
  BY <1>6, <1>7

\* The parsers of messages read no byte outside of their windows and keep their types,
\* for messages of any length and bytes, whatever the lengths, counts and pointers in
\* them say, and for any size of the stack (parse_dns_name, parse_dns_message,
\* parse_dhcp, parse_mdns, parse_ssdp).
THEOREM InBoundsCorrect == ParsersSpec => []InBounds
<1>1. ParsersInv => InBounds
  BY NameInBounds DEF ParsersInv, InRecords, InOptions, InSummary, InBounds
<1> QED
  BY <1>1, ParsersInductive, PTL
-----------------------------------------------------------------------------
(* What is defined by recursion over the pieces of a message exists, and   *)
(* induction over the naturals, by their least elements.                   *)

\* A step may be repeated for ever.
LEMMA Recursion ==
    ASSUME NEW S, NEW first \in S, NEW step \in [S -> S]
    PROVE  \E g \in [Nat -> S] : g[0] = first /\ \A n \in Nat : g[n + 1] = step[g[n]]
<1> DEFINE Chain(h, n) == /\ h \in [0..n -> S] /\ h[0] = first
                          /\ \A k \in 0..n : k < n => h[k + 1] = step[h[k]]
           Some(n) == \E h : Chain(h, n)
<1>1. ASSUME NEW n \in Nat PROVE Some(n)
  <2> SUFFICES ASSUME ~Some(n) PROVE FALSE
    OBVIOUS
  <2> DEFINE Bad == {m \in Nat : ~Some(m)}
  <2>1. PICK m \in Bad : \A k \in Bad : m <= k
    <3>1. Bad \in SUBSET Nat /\ Bad # {}
      OBVIOUS
    <3> HIDE DEF Bad
    <3> QED
      BY <3>1, LeastNat
  <2>2. m # 0
    <3>1. Chain([k \in 0..0 |-> first], 0)
      OBVIOUS
    <3> QED
      BY <3>1
  <2>3. m \in Nat /\ m - 1 \in Nat /\ Some(m - 1)
    <3>1. m - 1 \in Nat /\ ~(m <= m - 1)
      BY <2>2
    <3> HIDE DEF Some
    <3> QED
      BY <2>1, <3>1
  <2>4. PICK h : Chain(h, m - 1)
    BY <2>3
  <2> DEFINE f == [k \in 0..m |-> IF k < m THEN h[k] ELSE step[h[m - 1]]]
  <2>5. f \in [0..m -> S]
    <3>1. \A k \in 0..m : k < m => k \in 0..(m - 1)
      BY <2>3
    <3>2. h[m - 1] \in S
      BY <2>3, <2>4
    <3> QED
      BY <2>4, <3>1, <3>2
  <2>6. ASSUME NEW k \in 0..m, k < m PROVE f[k + 1] = step[f[k]]
    <3>1. k \in 0..(m - 1) /\ k + 1 \in 0..m
      BY <2>3, <2>6
    <3>2. CASE k + 1 < m
      BY <2>3, <2>4, <3>1, <3>2
    <3>3. CASE k + 1 = m
      <4>1. k = m - 1
        BY <2>3, <3>1, <3>3
      <4> QED
        BY <2>3, <3>1, <3>3, <4>1
    <3> QED
      BY <2>3, <3>1, <3>2, <3>3
  <2>7. f[0] = first
    BY <2>2, <2>3, <2>4
  <2>8. Chain(f, m)
    <3> HIDE DEF f
    <3> QED
      BY <2>5, <2>6, <2>7
  <2> QED
    BY <2>1, <2>8
<1>2. ASSUME NEW n \in Nat, NEW m \in Nat, NEW h, NEW f, Chain(h, n), Chain(f, m),
             NEW k \in Nat, k <= n, k <= m
      PROVE  h[k] = f[k]
  <2> SUFFICES ASSUME h[k] # f[k] PROVE FALSE
    OBVIOUS
  <2> DEFINE Bad == {j \in Nat : j <= k /\ h[j] # f[j]}
  <2>1. PICK j \in Bad : \A i \in Bad : j <= i
    <3>1. Bad \in SUBSET Nat /\ k \in Bad
      OBVIOUS
    <3> HIDE DEF Bad
    <3> QED
      BY <3>1, LeastNat
  <2>2. j # 0
    BY <1>2
  <2>3. j \in Nat /\ j - 1 \in Nat /\ j - 1 < n /\ j - 1 < m /\ j - 1 \in 0..n /\ j - 1 \in 0..m
        /\ (j - 1) + 1 = j /\ j - 1 <= k /\ ~(j <= j - 1)
    BY <1>2, <2>2
  <2>4. h[j - 1] = f[j - 1]
    BY <2>1, <2>3
  <2>5. h[(j - 1) + 1] = step[h[j - 1]] /\ f[(j - 1) + 1] = step[f[j - 1]]
    <3>1. \A i \in 0..n : i < n => h[i + 1] = step[h[i]]
      BY <1>2
    <3>2. \A i \in 0..m : i < m => f[i + 1] = step[f[i]]
      BY <1>2
    <3> QED
      BY <2>3, <3>1, <3>2
  <2> QED
    BY <2>1, <2>3, <2>4, <2>5
<1> DEFINE pick(n) == CHOOSE h : Chain(h, n)
           g == [n \in Nat |-> pick(n)[n]]
<1>3. \A n \in Nat : Chain(pick(n), n)
  <2> HIDE DEF Chain
  <2> QED
    BY <1>1
<1> HIDE DEF pick
<1>4. g \in [Nat -> S] /\ g[0] = first
  BY <1>3
<1>5. ASSUME NEW n \in Nat PROVE g[n + 1] = step[g[n]]
  <2>1. n + 1 \in Nat /\ n \in 0..(n + 1) /\ n < n + 1
    OBVIOUS
  <2>2. pick(n + 1)[n + 1] = step[pick(n + 1)[n]]
    BY <1>3, <2>1
  <2>3. pick(n + 1)[n] = pick(n)[n]
    <3> HIDE DEF Chain
    <3> QED
      BY <1>2, <1>3, <2>1
  <2> QED
    BY <2>1, <2>2, <2>3
<1> QED
  BY <1>4, <1>5

\* A set that has zero and with a natural its successor has them all.
LEMMA Induction == ASSUME NEW S, 0 \in S, \A n \in Nat : n \in S => n + 1 \in S PROVE Nat \subseteq S
<1> SUFFICES ASSUME NEW m \in Nat, m \notin S PROVE FALSE
  OBVIOUS
<1> DEFINE Bad == {n \in Nat : n \notin S}
<1>1. PICK n \in Bad : \A k \in Bad : n <= k
  <2>1. Bad \in SUBSET Nat /\ Bad # {}
    OBVIOUS
  <2> HIDE DEF Bad
  <2> QED
    BY <2>1, LeastNat
<1>2. n \in Nat /\ n # 0
  OBVIOUS
<1>3. n - 1 \in Nat /\ ~(n <= n - 1) /\ (n - 1) + 1 = n
  BY <1>2
<1>4. n - 1 \in S
  BY <1>1, <1>3
<1>5. (n - 1) + 1 \in S
  BY <1>3, <1>4
<1> QED
  BY <1>1, <1>3, <1>5
-----------------------------------------------------------------------------
(* What the options of a DHCP message say.                                 *)

NextPlace(p) ==
    IF Dhcp!Whole(p) THEN p + 2 + Dhcp!At(p + 1)
    ELSE IF p < Dhcp!Size /\ Dhcp!At(p) = 0 THEN p + 1 ELSE p

\* f leads from piece to piece.
OptionWalk(f) ==
    /\ f \in [Nat -> 0..Dhcp!Size] /\ f[0] = 0
    /\ \A n \in Nat : f[n + 1] = NextPlace(f[n])

LEMMA NextPlaceFacts ==
    ASSUME Dhcp!OptionsAssumption, Dhcp!TypeOK, NEW p \in 0..Dhcp!Size
    PROVE  /\ NextPlace(p) \in 0..Dhcp!Size /\ p <= NextPlace(p)
           /\ Dhcp!Whole(p) => p < NextPlace(p)
<1>1. Dhcp!Size \in Nat
  BY OptionsSize
<1>2. CASE Dhcp!Whole(p)
  <2>1. Dhcp!At(p + 1) \in 0..255
    BY <1>1, <1>2, OptionByte DEF Dhcp!Whole
  <2> QED
    BY <1>1, <1>2, <2>1 DEF Dhcp!Whole, NextPlace
<1>3. CASE ~Dhcp!Whole(p)
  BY <1>1, <1>3 DEF NextPlace
<1> QED
  BY <1>2, <1>3

LEMMA OptionWalkExists ==
    ASSUME Dhcp!OptionsAssumption, Dhcp!TypeOK
    PROVE  OptionWalk(Dhcp!After)
<1> DEFINE S == 0..Dhcp!Size
           Step == [p \in S |-> NextPlace(p)]
           Def(f) == [k \in Nat |-> IF k = 0 THEN 0
              ELSE LET p == f[k - 1]
                   IN  IF Dhcp!Whole(p) THEN p + 2 + Dhcp!At(p + 1)
                       ELSE IF p < Dhcp!Size /\ Dhcp!At(p) = 0 THEN p + 1 ELSE p]
           A == Dhcp!After
<1>1. A = CHOOSE f : f = Def(f)
  BY DEF Dhcp!After
<1>2. Step \in [S -> S] /\ 0 \in S
  BY NextPlaceFacts, OptionsSize
<1>3. PICK g \in [Nat -> S] : g[0] = 0 /\ \A n \in Nat : g[n + 1] = Step[g[n]]
  <2> HIDE DEF S, Step
  <2> QED
    BY SMTT(30), <1>2, Recursion
<1>4. g = Def(g)
  <2>1. \A k \in Nat : k # 0 => k - 1 \in Nat /\ (k - 1) + 1 = k
    OBVIOUS
  <2>2. ASSUME NEW k \in Nat PROVE g[k] = Def(g)[k]
    <3>1. CASE k = 0
      BY <1>3, <3>1
    <3>2. CASE k # 0
      <4>1. k - 1 \in Nat /\ g[k] = Step[g[k - 1]] /\ g[k - 1] \in S
        BY <1>3, <2>1, <3>2
      <4> QED
        BY <3>2, <4>1 DEF NextPlace
    <3> QED
      BY <3>1, <3>2
  <2> QED
    BY <1>3, <2>2
<1>5. A = Def(A)
  <2> HIDE DEF Def, A
  <2> QED
    BY <1>1, <1>4
<1>6. A[0] = 0 /\ \A n \in Nat : A[n + 1] = NextPlace(A[n])
  <2>1. \A n \in Nat : n + 1 \in Nat /\ n + 1 # 0 /\ (n + 1) - 1 = n
    OBVIOUS
  <2> HIDE DEF A
  <2> QED
    BY <1>5, <2>1 DEF NextPlace
<1>7. A \in [Nat -> S]
  <2> HIDE DEF A, S
  <2>1. 0 \in S /\ \A p \in S : NextPlace(p) \in S
    BY <1>2, NextPlaceFacts DEF S
  <2> DEFINE Good == {n \in Nat : A[n] \in S}
  <2>2. 0 \in Good /\ \A n \in Nat : n \in Good => n + 1 \in Good
    BY <1>6, <2>1
  <2>3. Nat \subseteq Good
    <3> HIDE DEF Good
    <3> QED
      BY <2>2, Induction
  <2>4. A = [n \in Nat |-> A[n]]
    BY <1>5
  <2> QED
    BY <2>3, <2>4
<1> QED
  BY <1>6, <1>7 DEF OptionWalk

\* A walk goes forward, and stays where nothing leads on.
LEMMA WalkForward ==
    ASSUME Dhcp!OptionsAssumption, Dhcp!TypeOK, NEW f, OptionWalk(f), NEW k \in Nat
    PROVE  /\ \A n \in Nat : f[k] <= f[k + n]
           /\ NextPlace(f[k]) = f[k] => \A n \in Nat : f[k + n] = f[k]
<1>1. Dhcp!Size \in Nat /\ \A n \in Nat : f[n] \in 0..Dhcp!Size /\ f[n + 1] = NextPlace(f[n])
  BY OptionsSize DEF OptionWalk
<1>2. \A n \in Nat : f[n] <= f[n + 1]
  BY <1>1, NextPlaceFacts
<1>3. \A n \in Nat : k + n \in Nat /\ k + (n + 1) = (k + n) + 1
  OBVIOUS
<1> DEFINE Up == {n \in Nat : f[k] <= f[k + n]}
           Same == {n \in Nat : f[k + n] = f[k]}
<1>4. 0 \in Up /\ 0 \in Same
  BY <1>1
<1>5. \A n \in Nat : n \in Up => n + 1 \in Up
  <2> SUFFICES ASSUME NEW n \in Nat, n \in Up PROVE f[k] <= f[k + (n + 1)]
    OBVIOUS
  <2>1. f[k] \in Nat /\ f[k + n] \in Nat /\ f[(k + n) + 1] \in Nat /\ f[k + n] <= f[(k + n) + 1]
    BY <1>1, <1>2, <1>3
  <2> QED
    BY <1>3, <2>1
<1>6. NextPlace(f[k]) = f[k] => \A n \in Nat : n \in Same => n + 1 \in Same
  BY <1>1, <1>3
<1>7. Nat \subseteq Up /\ (NextPlace(f[k]) = f[k] => Nat \subseteq Same)
  <2> HIDE DEF Up, Same
  <2> QED
    BY <1>4, <1>5, <1>6, Induction
<1> QED
  BY <1>7

LEMMA OneWalk ==
    ASSUME Dhcp!OptionsAssumption, Dhcp!TypeOK, NEW f, NEW g, OptionWalk(f), OptionWalk(g)
    PROVE  f = g
<1> DEFINE Same == {n \in Nat : f[n] = g[n]}
<1>1. 0 \in Same /\ \A n \in Nat : n \in Same => n + 1 \in Same
  BY DEF OptionWalk
<1>2. Nat \subseteq Same
  <2> HIDE DEF Same
  <2> QED
    BY <1>1, Induction
<1> QED
  BY <1>2 DEF OptionWalk
-----------------------------------------------------------------------------
Latest(F, none) == IF F = {} THEN none ELSE Dhcp!Value(Dhcp!Max(F))

Coded(P, c)  == {p \in P : Dhcp!At(p) = c}
Addresses(P) == {p \in P : Dhcp!At(p) = 50 /\ Len(Dhcp!Value(p)) = 4}
Types(P)     == {p \in P : Dhcp!At(p) = 53 /\ Dhcp!Value(p) # <<>> /\ Dhcp!Value(p)[1] \in 1..8}

\* The record r holds what the options at the places P say.
Says(r, P) ==
    /\ r.hostname = Latest(Coded(P, 12), <<>>)
    /\ r.param_request_list = Latest(Coded(P, 55), <<>>)
    /\ r.requested_ip = Latest(Addresses(P), <<>>)
    /\ r.msg_type = Latest(Types(P), <<0>>)[1]
    /\ r.options = [c \in {Dhcp!At(p) : p \in P} |-> Latest(Coded(P, c), <<>>)]

LEMMA LatestIs ==
    ASSUME NEW F \in SUBSET Nat, NEW q \in Nat, \A p \in F : p < q, NEW none
    PROVE  Latest(F \union {q}, none) = Dhcp!Value(q)
<1> DEFINE G == F \union {q}
<1>1. Dhcp!Max(G) = CHOOSE x \in G : \A y \in G : x >= y
  BY DEF Dhcp!Max
<1>2. q \in G /\ \A y \in G : q >= y
  OBVIOUS
<1>3. \A x \in G : (\A y \in G : x >= y) => x = q
  OBVIOUS
<1>4. Dhcp!Max(G) = q
  <2> HIDE DEF G
  <2> QED
    BY <1>1, <1>2, <1>3
<1> QED
  BY <1>4 DEF Latest

\* What Keep(code, value) makes of each field.
Kept(r, code, value) ==
    /\ r.options = [c \in DOMAIN info.options \union {code} |->
                      IF c = code THEN value ELSE info.options[c]]
    /\ r.msg_type = IF code = 53 /\ value # <<>> /\ value[1] \in 1..8 THEN value[1]
                    ELSE info.msg_type
    /\ r.hostname = IF code = 12 THEN value ELSE info.hostname
    /\ r.requested_ip = IF code = 50 /\ Len(value) = 4 THEN value ELSE info.requested_ip
    /\ r.param_request_list = IF code = 55 THEN value ELSE info.param_request_list

LEMMA KeepFields ==
    ASSUME InfoOK, NEW code, NEW value
    PROVE  Kept(Dhcp!Keep(code, value), code, value)
<1> DEFINE r == Dhcp!Keep(code, value)
<1> DEFINE type == IF code = 53 /\ value # <<>> /\ value[1] \in 1..8 THEN value[1]
                                                                   ELSE info.msg_type
           name == IF code = 12 THEN value ELSE info.hostname
           ip   == IF code = 50 /\ Len(value) = 4 THEN value ELSE info.requested_ip
           list == IF code = 55 THEN value ELSE info.param_request_list
           all  == [c \in DOMAIN info.options \union {code} |->
                       IF c = code THEN value ELSE info.options[c]]
<1>1. Dhcp!Keep(code, value) = [info EXCEPT !.options = all, !.msg_type = type, !.hostname = name,
                                       !.requested_ip = ip, !.param_request_list = list]
  BY Zenon DEF Dhcp!Keep
<1> HIDE DEF type, name, ip, list, all
<1>2. Dhcp!Keep(code, value) = [msg_type |-> type, hostname |-> name, requested_ip |-> ip,
                           param_request_list |-> list, options |-> all]
  BY <1>1 DEF InfoOK
<1>3. /\ r.options = all /\ r.msg_type = type /\ r.hostname = name
      /\ r.requested_ip = ip /\ r.param_request_list = list
  BY <1>2
<1> HIDE DEF r
<1>4. Kept(r, code, value)
  BY <1>3, Zenon DEF type, name, ip, list, all, Kept
<1> QED
  BY <1>4 DEF r

\* An option behind all others adds to them what Keep takes from it.
LEMMA KeepSays ==
    ASSUME InfoOK, NEW P \in SUBSET Nat, NEW q \in Nat, \A p \in P : p < q, Says(info, P)
    PROVE  Says(Dhcp!Keep(Dhcp!At(q), Dhcp!Value(q)), P \union {q})
<1> DEFINE code == Dhcp!At(q)
           value == Dhcp!Value(q)
           r == Dhcp!Keep(code, value)
           Q == P \union {q}
<1>1. \A c : Coded(Q, c) = IF c = code THEN Coded(P, c) \union {q} ELSE Coded(P, c)
  BY DEF Coded
<1>2. Addresses(Q) = IF code = 50 /\ Len(value) = 4 THEN Addresses(P) \union {q} ELSE Addresses(P)
  BY DEF Addresses
<1>3. Types(Q) = IF code = 53 /\ value # <<>> /\ value[1] \in 1..8 THEN Types(P) \union {q}
                 ELSE Types(P)
  BY DEF Types
<1>4. \A F \in SUBSET P : \A none : Latest(F \union {q}, none) = value
  BY LatestIs
<1>5. /\ \A c : Coded(P, c) \in SUBSET P
      /\ Addresses(P) \in SUBSET P /\ Types(P) \in SUBSET P
  BY DEF Coded, Addresses, Types
<1>6. /\ \A c : Latest(Coded(Q, c), <<>>) = IF c = code THEN value ELSE Latest(Coded(P, c), <<>>)
      /\ Latest(Addresses(Q), <<>>) = IF code = 50 /\ Len(value) = 4 THEN value
                                      ELSE Latest(Addresses(P), <<>>)
      /\ Latest(Types(Q), <<0>>) = IF code = 53 /\ value # <<>> /\ value[1] \in 1..8 THEN value
                                   ELSE Latest(Types(P), <<0>>)
  <2> HIDE DEF Q, code, value
  <2>1. ASSUME NEW c PROVE Latest(Coded(Q, c), <<>>) = IF c = code THEN value ELSE Latest(Coded(P, c), <<>>)
    <3>1. CASE c = code
      <4>1. Coded(Q, c) = Coded(P, c) \union {q} /\ Coded(P, c) \in SUBSET P
        BY <1>1, <1>5, <3>1
      <4> QED
        BY <1>4, <3>1, <4>1
    <3>2. CASE c # code
      BY <1>1, <3>2
    <3> QED
      BY <3>1, <3>2
  <2>2. Latest(Addresses(P) \union {q}, <<>>) = value /\ Latest(Types(P) \union {q}, <<0>>) = value
    BY <1>4, <1>5
  <2> QED
    BY <1>2, <1>3, <2>1, <2>2
<1>7. {Dhcp!At(p) : p \in Q} = {Dhcp!At(p) : p \in P} \union {code}
  OBVIOUS
<1>8. /\ r.options = [c \in DOMAIN info.options \union {code} |->
                        IF c = code THEN value ELSE info.options[c]]
      /\ r.msg_type = IF code = 53 /\ value # <<>> /\ value[1] \in 1..8 THEN value[1]
                      ELSE info.msg_type
      /\ r.hostname = IF code = 12 THEN value ELSE info.hostname
      /\ r.requested_ip = IF code = 50 /\ Len(value) = 4 THEN value ELSE info.requested_ip
      /\ r.param_request_list = IF code = 55 THEN value ELSE info.param_request_list
  <2>1. Kept(r, code, value)
    BY KeepFields
  <2> HIDE DEF code, value, r
  <2> QED
    BY <2>1, Zenon DEF Kept
<1> HIDE DEF code, value, r, Q
<1>9. r.options = [c \in {Dhcp!At(p) : p \in Q} |-> Latest(Coded(Q, c), <<>>)]
  <2> DEFINE D == {Dhcp!At(p) : p \in P}
  <2>1. info.options = [c \in D |-> Latest(Coded(P, c), <<>>)]
    BY DEF Says
  <2> HIDE DEF D
  <2>2. DOMAIN info.options = D /\ \A c \in D : info.options[c] = Latest(Coded(P, c), <<>>)
    BY <2>1
  <2>3. r.options = [c \in D \union {code} |-> Latest(Coded(Q, c), <<>>)]
    BY <1>6, <1>8, <2>2
  <2> QED
    BY <1>7, <2>3 DEF D
<1>10. r.msg_type = Latest(Types(Q), <<0>>)[1]
  BY <1>6, <1>8 DEF Says
<1>11. /\ r.hostname = Latest(Coded(Q, 12), <<>>)
       /\ r.param_request_list = Latest(Coded(Q, 55), <<>>)
       /\ r.requested_ip = Latest(Addresses(Q), <<>>)
  BY <1>6, <1>8 DEF Says
<1>12. Says(r, Q)
  BY <1>9, <1>10, <1>11 DEF Says
<1> QED
  BY <1>12 DEF r, Q, code, value

\* What the message says does not change.
LEMMA MessageStays ==
    ASSUME message' = message
    PROVE  /\ Dhcp!Size' = Dhcp!Size
           /\ \A p : /\ Dhcp!At(p)' = Dhcp!At(p) /\ Dhcp!Value(p)' = Dhcp!Value(p)
                     /\ (Dhcp!Whole(p) <=> Dhcp!Whole(p)') /\ NextPlace(p)' = NextPlace(p)
BY DEF Dhcp!Size, Dhcp!At, Dhcp!Value, Dhcp!Whole, NextPlace

\* Every place of a whole option that the walk comes to.
Seen(f) == {p \in {f[k] : k \in 0..Dhcp!Size} : Dhcp!Whole(p)}
Before(f, q) == {p \in Seen(f) : p < q}

\* Those whose options are read by now.
ReadYet(f) == IF phase = "done" THEN Seen(f) ELSE Before(f, pos)

\* The place to go on at is one of the walk, and what was read is what the options
\* before it say.
OptionsRead ==
    \E f : /\ OptionWalk(f)
           /\ phase = "header" => pos = 0
           /\ phase \in {"header", "options"} => \E k \in 0..pos : f[k] = pos
           /\ phase # "refused" => Says(info, ReadYet(f))

LEMMA SaysStays ==
    ASSUME message' = message, NEW f, Says(info', ReadYet(f)')
    PROVE  Says(info, ReadYet(f))'
<1> DEFINE P == ReadYet(f)
<1> HIDE DEF P
<1>1. \A p : Dhcp!At(p)' = Dhcp!At(p) /\ Dhcp!Value(p)' = Dhcp!Value(p)
  BY MessageStays
<1>2. \A F, none : Latest(F, none)' = Latest(F, none)
  BY <1>1 DEF Latest, Dhcp!Max
<1>3. \A c : Coded(P, c)' = Coded(P', c)
  BY <1>1 DEF Coded
<1>4. Addresses(P)' = Addresses(P') /\ Types(P)' = Types(P')
  BY <1>1 DEF Addresses, Types
<1>5. {Dhcp!At(p) : p \in P}' = {Dhcp!At(p) : p \in P'}
  BY <1>1
<1>6. Says(info', P')
  BY DEF P
<1>7. \A c : Latest(Coded(P, c), <<>>)' = Latest(Coded(P', c), <<>>)
  BY <1>2, <1>3
<1>8. (info.hostname = Latest(Coded(P, 12), <<>>))'
  BY <1>6, <1>7 DEF Says
<1>9. (info.param_request_list = Latest(Coded(P, 55), <<>>))'
  BY <1>6, <1>7 DEF Says
<1>10. (info.requested_ip = Latest(Addresses(P), <<>>))'
  BY <1>2, <1>4, <1>6 DEF Says
<1>11. (info.msg_type = Latest(Types(P), <<0>>)[1])'
  BY <1>2, <1>4, <1>6 DEF Says
<1>12. (info.options = [c \in {Dhcp!At(p) : p \in P} |-> Latest(Coded(P, c), <<>>)])'
  BY <1>5, <1>6, <1>7 DEF Says
<1>13. Says(info, P)'
  BY <1>8, <1>9, <1>10, <1>11, <1>12, Zenon DEF Says
<1> QED
  BY <1>13 DEF P

LEMMA WalkStays ==
    ASSUME message' = message, NEW f
    PROVE  (OptionWalk(f) => OptionWalk(f)') /\ Seen(f)' = Seen(f)
<1>1. Dhcp!Size' = Dhcp!Size /\ \A p : NextPlace(p)' = NextPlace(p) /\ (Dhcp!Whole(p) <=> Dhcp!Whole(p)')
  BY MessageStays
<1>2. OptionWalk(f) => OptionWalk(f)'
  BY <1>1 DEF OptionWalk
<1>3. Seen(f)' = Seen(f)
  BY <1>1 DEF Seen
<1> QED
  BY <1>2, <1>3

\* Between a place of the walk and the next one there is none.
LEMMA BeforeNext ==
    ASSUME Dhcp!OptionsAssumption, Dhcp!TypeOK, NEW f, OptionWalk(f), NEW k \in Nat,
           f[k] < NextPlace(f[k]), k <= f[k]
    PROVE  Before(f, NextPlace(f[k])) =
              IF Dhcp!Whole(f[k]) THEN Before(f, f[k]) \union {f[k]} ELSE Before(f, f[k])
<1> DEFINE q == f[k]
<1>1. /\ Dhcp!Size \in Nat /\ q \in 0..Dhcp!Size /\ f[k + 1] = NextPlace(q) /\ k + 1 \in Nat
      /\ \A j \in Nat : f[j] \in 0..Dhcp!Size
  BY OptionsSize DEF OptionWalk
<1>2. ASSUME NEW j \in Nat PROVE f[j] <= q \/ f[j] >= NextPlace(q)
  <2>1. CASE j <= k
    <3>1. k - j \in Nat /\ j + (k - j) = k
      BY <2>1
    <3>2. f[j] <= f[j + (k - j)]
      BY <3>1, WalkForward
    <3> QED
      BY <3>1, <3>2
  <2>2. CASE j > k
    <3>1. j - (k + 1) \in Nat /\ (k + 1) + (j - (k + 1)) = j
      BY <2>2
    <3>2. f[k + 1] <= f[(k + 1) + (j - (k + 1))]
      BY <1>1, <3>1, WalkForward
    <3>3. f[k + 1] \in Nat /\ f[j] \in Nat
      BY <1>1
    <3> QED
      BY <1>1, <3>1, <3>2, <3>3
  <2> QED
    BY <2>1, <2>2
<1>3. k \in 0..Dhcp!Size
  BY <1>1
<1>4. NextPlace(q) \in 0..Dhcp!Size
  BY <1>1
<1> HIDE DEF q
<1>5. \A p \in Seen(f) : p \in 0..Dhcp!Size /\ (p <= q \/ p >= NextPlace(q)) /\ Dhcp!Whole(p)
  BY <1>1, <1>2 DEF Seen
<1>6. Dhcp!Whole(q) => q \in Seen(f)
  BY <1>3 DEF Seen, q
<1>7. q < NextPlace(q)
  BY DEF q
<1>8. ASSUME NEW p \in Seen(f) PROVE p < NextPlace(q) <=> (p < q \/ p = q)
  BY <1>1, <1>4, <1>5, <1>7, <1>8
<1>9. \A p \in Seen(f) : Dhcp!Whole(p)
  BY <1>5
<1>10. Before(f, NextPlace(q)) = IF Dhcp!Whole(q) THEN Before(f, q) \union {q} ELSE Before(f, q)
  BY <1>6, <1>7, <1>8, <1>9 DEF Before
<1> QED
  BY <1>10 DEF q

\* Where the walk stays all options are behind it.
LEMMA BeforeEnd ==
    ASSUME Dhcp!OptionsAssumption, Dhcp!TypeOK, NEW f, OptionWalk(f), NEW k \in Nat,
           NextPlace(f[k]) = f[k]
    PROVE  Before(f, f[k]) = Seen(f)
<1>1. Dhcp!Size \in Nat /\ \A j \in Nat : f[j] \in 0..Dhcp!Size
  BY OptionsSize DEF OptionWalk
<1>2. ~Dhcp!Whole(f[k])
  BY <1>1, NextPlaceFacts
<1>3. ASSUME NEW j \in Nat PROVE f[j] <= f[k]
  <2>1. CASE j <= k
    <3>1. k - j \in Nat /\ j + (k - j) = k
      BY <2>1
    <3>2. f[j] <= f[j + (k - j)]
      BY <3>1, WalkForward
    <3> QED
      BY <3>1, <3>2
  <2>2. CASE j > k
    <3>1. j - k \in Nat /\ k + (j - k) = j
      BY <2>2
    <3>2. f[k + (j - k)] = f[k]
      BY <3>1, WalkForward
    <3> QED
      BY <1>1, <3>1, <3>2
  <2> QED
    BY <2>1, <2>2
<1>4. \A p \in Seen(f) : p \in Nat /\ p <= f[k] /\ p # f[k]
  BY <1>1, <1>2, <1>3 DEF Seen
<1>5. \A p \in Seen(f) : p < f[k]
  BY <1>1, <1>4
<1> QED
  BY <1>5 DEF Before

LEMMA OptionsReadBegins == ASSUME Dhcp!OptionsAssumption, InOptions, Dhcp!Init PROVE OptionsRead
<1>1. OptionWalk(Dhcp!After)
  BY OptionWalkExists DEF InOptions
<1> DEFINE A == Dhcp!After
<1>2. A[0] = 0 /\ pos = 0 /\ phase = "header"
  BY <1>1 DEF OptionWalk, Dhcp!Init
<1>3. Before(A, 0) = {}
  <2>1. \A p \in Seen(A) : p \in Nat
    BY <1>1, OptionsSize DEF OptionWalk, Seen, InOptions
  <2> HIDE DEF A
  <2> QED
    BY <2>1 DEF Before
<1>4. Says(info, {})
  BY DEF Says, Latest, Coded, Addresses, Types, Dhcp!Init, Dhcp!UNKNOWN, Dhcp!Nothing
<1> HIDE DEF A
<1>5. Says(info, ReadYet(A))
  BY <1>2, <1>3, <1>4 DEF ReadYet
<1>6. OptionWalk(A) /\ \E k \in 0..pos : A[k] = pos
  BY <1>1, <1>2 DEF A
<1> QED
  BY <1>2, <1>5, <1>6 DEF OptionsRead

LEMMA OptionsReadKept ==
    ASSUME Dhcp!OptionsAssumption, InOptions, OptionsRead, Dhcp!Next
    PROVE  OptionsRead'
<1>1. PICK f : /\ OptionWalk(f)
               /\ phase = "header" => pos = 0
               /\ phase \in {"header", "options"} => \E k \in 0..pos : f[k] = pos
               /\ phase # "refused" => Says(info, ReadYet(f))
  BY DEF OptionsRead
<1>2. message' = message /\ phase \in {"header", "options"}
  BY DEF Dhcp!Next, Dhcp!Header, Dhcp!Pad, Dhcp!End, Dhcp!Cut, Dhcp!Option
<1>3. OptionWalk(f)' /\ Seen(f)' = Seen(f)
  BY <1>1, <1>2, WalkStays
<1>4. ReadYet(f)' = IF phase' = "done" THEN Seen(f) ELSE Before(f, pos')
  BY <1>3 DEF ReadYet, Before
<1>5. PICK k \in 0..pos : f[k] = pos
  BY <1>1, <1>2
<1>6. Dhcp!TypeOK /\ InfoOK /\ pos \in Nat /\ k \in Nat /\ k <= f[k] /\ Dhcp!Size \in Nat
  BY <1>5, OptionsSize DEF InOptions, Dhcp!TypeOK
<1>7. Says(info, Before(f, pos))
  BY <1>1, <1>2 DEF ReadYet
<1>8. f[k + 1] = NextPlace(pos) /\ f[k + 1] \in 0..Dhcp!Size
  BY <1>1, <1>5, <1>6 DEF OptionWalk
<1>9. CASE Dhcp!Header
  <2>1. UNCHANGED <<pos, info>> /\ phase' \in {"options", "refused"}
    BY <1>9 DEF Dhcp!Header
  <2>2. ReadYet(f)' = Before(f, pos)
    BY <1>4, <2>1
  <2>3. Says(info, ReadYet(f))'
    BY <1>2, <1>7, <2>1, <2>2, SaysStays
  <2> QED
    BY <1>1, <1>3, <1>5, <2>1, <2>3 DEF OptionsRead
<1>10. CASE Dhcp!Pad \/ Dhcp!Option
  <2>1. pos' = NextPlace(pos) /\ phase' = "options" /\ pos < pos'
    <3>1. CASE Dhcp!Pad
      BY <1>6, <3>1 DEF Dhcp!Pad, NextPlace, Dhcp!Whole
    <3>2. CASE Dhcp!Option
      <4>1. Dhcp!Whole(pos) /\ pos' = pos + 2 + Dhcp!At(pos + 1) /\ phase' = "options"
        BY <3>2 DEF Dhcp!Option, Dhcp!Whole
      <4>2. pos < NextPlace(pos)
        BY <1>1, <1>5, <1>6, <4>1, NextPlaceFacts DEF OptionWalk
      <4> QED
        BY <4>1, <4>2 DEF NextPlace
    <3> QED
      BY <1>10, <3>1, <3>2
  <2>2. \E j \in 0..pos' : f[j] = pos'
    <3>1. pos' \in Nat /\ k + 1 \in 0..pos'
      BY <1>5, <1>6, <1>8, <2>1
    <3> QED
      BY <1>8, <2>1, <3>1
  <2>3. Before(f, pos') = IF Dhcp!Whole(pos) THEN Before(f, pos) \union {pos} ELSE Before(f, pos)
    BY <1>1, <1>5, <1>6, <2>1, BeforeNext
  <2>4. Says(info', Before(f, pos'))
    <3>1. CASE Dhcp!Pad
      <4>1. ~Dhcp!Whole(pos) /\ info' = info
        BY <3>1 DEF Dhcp!Pad, Dhcp!Whole
      <4> QED
        BY <1>7, <2>3, <4>1
    <3>2. CASE Dhcp!Option
      <4>1. Dhcp!Whole(pos) /\ info' = Dhcp!Keep(Dhcp!At(pos), Dhcp!Value(pos))
        BY <3>2 DEF Dhcp!Option, Dhcp!Whole, Dhcp!Value
      <4>2. Before(f, pos) \in SUBSET Nat /\ \A p \in Before(f, pos) : p < pos
        BY <1>1, <1>6 DEF Before, Seen, OptionWalk
      <4> QED
        BY <1>6, <1>7, <2>3, <4>1, <4>2, KeepSays
    <3> QED
      BY <1>10, <3>1, <3>2
  <2>5. Says(info, ReadYet(f))'
    <3>1. ReadYet(f)' = Before(f, pos')
      BY <1>4, <2>1
    <3> QED
      BY <1>2, <2>4, <3>1, SaysStays
  <2> QED
    BY <1>3, <2>1, <2>2, <2>5 DEF OptionsRead
<1>11. CASE Dhcp!End \/ Dhcp!Cut
  <2>1. NextPlace(pos) = pos /\ phase' = "done" /\ info' = info
    BY <1>6, <1>11 DEF Dhcp!End, Dhcp!Cut, NextPlace, Dhcp!Whole
  <2>2. Before(f, pos) = Seen(f)
    BY <1>1, <1>5, <1>6, <2>1, BeforeEnd
  <2>3. Says(info', Seen(f))
    BY <1>7, <2>1, <2>2
  <2>4. ReadYet(f)' = Seen(f)
    BY <1>4, <2>1
  <2>5. Says(info, ReadYet(f))'
    BY <1>2, <2>3, <2>4, SaysStays
  <2> QED
    BY <1>3, <2>1, <2>5 DEF OptionsRead
<1> QED
  BY <1>9, <1>10, <1>11 DEF Dhcp!Next

LEMMA LastCounts ==
    ASSUME Dhcp!OptionsAssumption, InOptions, OptionsRead
    PROVE  Dhcp!LastOneCounts
<1> SUFFICES ASSUME phase = "done" PROVE Dhcp!LastOneCounts
  BY DEF Dhcp!LastOneCounts
<1>1. PICK f : OptionWalk(f) /\ Says(info, Seen(f))
  BY DEF OptionsRead, ReadYet
<1>2. f = Dhcp!After
  BY <1>1, OptionWalkExists, OneWalk DEF InOptions
<1> DEFINE places == {p \in {Dhcp!After[k] : k \in 0..Dhcp!Size} : Dhcp!Whole(p)}
<1>3. Says(info, places)
  BY <1>1, <1>2 DEF Seen
<1> HIDE DEF places
<1>4. /\ info.hostname = Dhcp!LastOf(places, 12, LAMBDA v : TRUE, Dhcp!Nothing)
      /\ info.param_request_list = Dhcp!LastOf(places, 55, LAMBDA v : TRUE, Dhcp!Nothing)
      /\ info.options = [c \in {Dhcp!At(p) : p \in places} |-> Dhcp!LastOf(places, c, LAMBDA v : TRUE, Dhcp!Nothing)]
  BY <1>3 DEF Says, Latest, Coded, Dhcp!LastOf, Dhcp!Nothing
<1>5. info.requested_ip = Dhcp!LastOf(places, 50, LAMBDA v : Len(v) = 4, Dhcp!Nothing)
  BY <1>3 DEF Says, Latest, Addresses, Dhcp!LastOf, Dhcp!Nothing
<1>6. info.msg_type = Dhcp!LastOf(places, 53, LAMBDA v : v # <<>> /\ v[1] \in 1..8, <<Dhcp!UNKNOWN>>)[1]
  BY <1>3 DEF Says, Latest, Types, Dhcp!LastOf, Dhcp!UNKNOWN
<1> QED
  BY <1>4, <1>5, <1>6 DEF places, Dhcp!LastOneCounts
-----------------------------------------------------------------------------
(* The headers of an SSDP message as they are written: a line begins at    *)
(* each place read_line comes to, and it is the next one in the text.      *)

AlikeEnds == Ssdp!Windows \/ Ssdp!Unix

\* e is the first end of a line at p or behind it.
FirstEnd(p, e) == e \in Ssdp!Ends /\ e >= p /\ \A d \in Ssdp!Ends : d >= p => e <= d

\* A line begins at p.
Begins(p) == p \in 0..Ssdp!Size /\ (p = 0 \/ p - 1 \in Ssdp!Ends)

LinesBefore(p) == {l \in Ssdp!Lines : l[1] < p}
Coloned(L)     == {l \in L : ":" \in Ssdp!ToSet(Ssdp!Content(l))}
ValueOf(l)     == SubSeq(Ssdp!Content(l), Ssdp!Colon(Ssdp!Content(l)) + 1, Len(Ssdp!Content(l)))

LEMMA TextSize == Ssdp!TypeOK => Ssdp!Size \in Nat
BY DEF Ssdp!TypeOK, Ssdp!Size

LEMMA SomeEnd ==
    ASSUME Ssdp!TypeOK, NEW p \in 0..Ssdp!Size, NEW d \in Ssdp!Ends, d >= p
    PROVE  \E e : FirstEnd(p, e)
<1> DEFINE S == {e \in Ssdp!Ends : e >= p}
<1>1. S \in SUBSET Nat /\ S # {}
  BY TextSize DEF Ssdp!Ends
<1>2. PICK e \in S : \A k \in S : e <= k
  <2> HIDE DEF S
  <2> QED
    BY <1>1, LeastNat
<1> QED
  BY <1>2 DEF FirstEnd

\* What read_line finds at the begin of a line.
LEMMA ReadsLine ==
    ASSUME Ssdp!TypeOK, AlikeEnds, NEW p, Begins(p), NEW e, FirstEnd(p, e)
    PROVE  /\ Ssdp!HasLine(p) /\ Ssdp!NextLine(p) = e + 1
           /\ Ssdp!Line(p) = Ssdp!Content(<<p, e>>)
           /\ e \in Nat /\ e + 1 \in 0..Ssdp!Size /\ Begins(e + 1)
           /\ Ssdp!Windows => e > p
<1>1. Ssdp!Size \in Nat /\ p \in Nat /\ e \in Nat /\ e + 1 \in 0..Ssdp!Size /\ p <= e
  BY TextSize DEF Begins, FirstEnd, Ssdp!Ends
<1>2. Ssdp!Lfs(p) \in SUBSET Nat /\ e \in Ssdp!Lfs(p) /\ \A i \in Ssdp!Lfs(p) : e <= i
  BY <1>1 DEF FirstEnd, Ssdp!Ends, Ssdp!Lfs
<1>3. Ssdp!HasLine(p)
  BY <1>2 DEF Ssdp!HasLine
<1>4. Begins(e + 1)
  BY <1>1 DEF Begins, FirstEnd
<1>5. CASE Ssdp!Windows
  <2>1. \A d \in Ssdp!Ends : d - 1 \in 0..Ssdp!Size - 1 /\ d \in 0..Ssdp!Size - 1
                             /\ message[(d - 1) + 1] = "CR" /\ message[d + 1] = "LF"
    BY <1>1, <1>5 DEF Ssdp!Windows, Ssdp!Crs, Ssdp!Ends
  <2>2. p # e
    BY <1>1, <2>1 DEF Begins, FirstEnd
  <2>3. e - 1 \in Ssdp!CrLfs(p)
    BY <1>1, <2>1, <2>2 DEF Ssdp!CrLfs, FirstEnd
  <2>4. Ssdp!CrLfs(p) \in SUBSET Nat /\ \A i \in Ssdp!CrLfs(p) : e - 1 <= i
    <3>1. \A i \in Ssdp!CrLfs(p) : i + 1 \in Ssdp!Ends /\ i + 1 >= p /\ i \in Nat
      BY <1>1 DEF Ssdp!CrLfs, Ssdp!Ends
    <3> QED
      BY <1>1, <3>1 DEF FirstEnd
  <2>5. Ssdp!Min(Ssdp!CrLfs(p)) = e - 1
    BY <2>3, <2>4, MinFacts
  <2>6. Ssdp!LineEnd(p) = e - 1 /\ Ssdp!CrLfs(p) # {}
    BY <2>3, <2>5 DEF Ssdp!LineEnd
  <2>7. Ssdp!NextLine(p) = e + 1
    BY <1>1, <2>6 DEF Ssdp!NextLine
  <2>8. Ssdp!Line(p) = Ssdp!Content(<<p, e>>)
    BY <1>5, <2>6 DEF Ssdp!Line, Ssdp!Content
  <2> QED
    BY <1>1, <1>3, <1>4, <2>2, <2>7, <2>8
<1>6. CASE Ssdp!Unix
  <2>1. ~Ssdp!Windows
    BY <1>6 DEF Ssdp!Windows, Ssdp!Unix, FirstEnd
  <2>2. Ssdp!CrLfs(p) = {}
    BY <1>1, <1>6 DEF Ssdp!CrLfs, Ssdp!Unix, Ssdp!Crs
  <2>3. Ssdp!Min(Ssdp!Lfs(p)) = e
    BY <1>2, MinFacts
  <2>4. Ssdp!LineEnd(p) = e
    BY <2>2, <2>3 DEF Ssdp!LineEnd
  <2>5. Ssdp!NextLine(p) = e + 1 /\ Ssdp!Line(p) = Ssdp!Content(<<p, e>>)
    BY <2>1, <2>2, <2>4 DEF Ssdp!NextLine, Ssdp!Line, Ssdp!Content
  <2> QED
    BY <1>1, <1>3, <1>4, <2>1, <2>5
<1> QED
  BY <1>5, <1>6 DEF AlikeEnds

\* A line is there if and only if an end is.
LEMMA NoLine ==
    ASSUME Ssdp!TypeOK, NEW p \in 0..Ssdp!Size, Ssdp!HasLine(p)
    PROVE  \E e : FirstEnd(p, e)
<1>1. Ssdp!Size \in Nat
  BY TextSize
<1>2. \E d \in Ssdp!Ends : d >= p
  <2>1. CASE Ssdp!Lfs(p) # {}
    BY <1>1, <2>1 DEF Ssdp!Lfs, Ssdp!Ends
  <2>2. CASE Ssdp!CrLfs(p) # {}
    <3>1. PICK i \in Ssdp!CrLfs(p) : TRUE
      BY <2>2
    <3>2. i + 1 \in Ssdp!Ends /\ i + 1 >= p
      BY <1>1, <3>1 DEF Ssdp!CrLfs, Ssdp!Ends
    <3> QED
      BY <3>2
  <2> QED
    BY <2>1, <2>2 DEF Ssdp!HasLine
<1> QED
  BY <1>2, SomeEnd

\* Up to the end of the line at p there is this line and those before p.
LEMMA NextLineOnly ==
    ASSUME Ssdp!TypeOK, NEW p, Begins(p), p # 0, NEW e, FirstEnd(p, e)
    PROVE  /\ LinesBefore(e + 1) = LinesBefore(p) \union {<<p, e>>}
           /\ <<p, e>> \in Ssdp!Lines
<1>1. /\ Ssdp!Size \in Nat /\ p \in 1..Ssdp!Size /\ e \in 1..Ssdp!Size /\ p <= e
      /\ p - 1 \in Ssdp!Ends /\ e \in Ssdp!Ends
      /\ Ssdp!Ends \in SUBSET Nat
  BY TextSize DEF Begins, FirstEnd, Ssdp!Ends
<1>2. <<p, e>> \in Ssdp!Lines
  BY <1>1 DEF Ssdp!Lines, FirstEnd
<1>3. ASSUME NEW l \in Ssdp!Lines, l[1] < e + 1, ~(l[1] < p) PROVE l = <<p, e>>
  <2>1. /\ l = <<l[1], l[2]>> /\ l[1] \in 1..Ssdp!Size /\ l[2] \in 1..Ssdp!Size
        /\ l[1] - 1 \in Ssdp!Ends /\ l[2] \in Ssdp!Ends /\ l[1] <= l[2]
        /\ \A i \in l[1]..l[2] - 1 : i \notin Ssdp!Ends
    BY DEF Ssdp!Lines
  <2>2. l[1] = p
    BY <1>1, <1>3, <2>1 DEF FirstEnd
  <2>3. e <= l[2] /\ ~(e < l[2])
    BY <1>1, <2>1, <2>2 DEF FirstEnd
  <2> QED
    BY <1>1, <2>1, <2>2, <2>3
<1>4. \A l \in Ssdp!Lines : l[1] < p => l[1] < e + 1
  BY <1>1 DEF Ssdp!Lines
<1> QED
  BY <1>1, <1>2, <1>3, <1>4 DEF LinesBefore

\* The first line is no header.
LEMMA FirstLineOut ==
    ASSUME Ssdp!TypeOK, NEW e, FirstEnd(0, e)
    PROVE  LinesBefore(e + 1) = {}
<1> SUFFICES ASSUME NEW l \in Ssdp!Lines, l[1] < e + 1 PROVE FALSE
  BY DEF LinesBefore
<1>1. Ssdp!Size \in Nat /\ l[1] \in 1..Ssdp!Size /\ l[1] - 1 \in Ssdp!Ends /\ e \in Nat
  BY TextSize DEF Ssdp!Lines, FirstEnd, Ssdp!Ends
<1> QED
  BY <1>1 DEF FirstEnd

\* Where the lines end, all of them are before p, or the one at p is empty.
LEMMA HeaderLinesEnd ==
    ASSUME Ssdp!TypeOK, NEW p, Begins(p), p # 0,
           \A l \in LinesBefore(p) : Ssdp!Content(l) # <<>>,
           \/ \A e : ~FirstEnd(p, e)
           \/ \E e : FirstEnd(p, e) /\ Ssdp!Content(<<p, e>>) = <<>>
    PROVE  Ssdp!HeaderLines = LinesBefore(p)
<1>1. Ssdp!Size \in Nat /\ p \in Nat /\ \A l \in Ssdp!Lines : l[1] \in Nat /\ l[2] \in Nat
  BY TextSize DEF Begins, Ssdp!Lines
<1>2. LinesBefore(p) \subseteq Ssdp!HeaderLines
  BY <1>1 DEF LinesBefore, Ssdp!HeaderLines
<1>3. ASSUME NEW l \in Ssdp!HeaderLines PROVE l \in LinesBefore(p)
  <2> SUFFICES ASSUME l[1] >= p PROVE FALSE
    BY <1>1 DEF LinesBefore, Ssdp!HeaderLines
  <2>1. l \in Ssdp!Lines /\ l[2] \in Ssdp!Ends /\ l[2] >= p
    BY <1>1 DEF Ssdp!HeaderLines, Ssdp!Lines
  <2>2. PICK e : FirstEnd(p, e) /\ Ssdp!Content(<<p, e>>) = <<>>
    BY <2>1, SomeEnd DEF Begins
  <2>3. <<p, e>> \in Ssdp!Lines
    BY <2>2, NextLineOnly
  <2> QED
    BY <2>1, <2>2, <2>3 DEF Ssdp!HeaderLines
<1> QED
  BY <1>2, <1>3

\* The headers h are what the lines L say, of which the last of a key counts.
HeadersSay(h, L) ==
    /\ DOMAIN h = {Ssdp!KeyOf(l) : l \in Coloned(L)}
    /\ \A l \in Coloned(L) :
          (\A m \in Coloned(L) : Ssdp!KeyOf(m) = Ssdp!KeyOf(l) => m[1] <= l[1]) =>
             h[Ssdp!KeyOf(l)] = ValueOf(l)

LEMMA HeaderAdded ==
    ASSUME NEW L, NEW n, n[1] \in Nat, \A l \in L : l[1] \in Nat /\ l[1] < n[1],
           NEW h, HeadersSay(h, L), NEW g,
           IF ":" \in Ssdp!ToSet(Ssdp!Content(n))
             THEN g = [k \in DOMAIN h \union {Ssdp!KeyOf(n)} |->
                         IF k = Ssdp!KeyOf(n) THEN ValueOf(n) ELSE h[k]]
             ELSE g = h
    PROVE  HeadersSay(g, L \union {n})
<1>1. CASE ":" \notin Ssdp!ToSet(Ssdp!Content(n))
  <2>1. Coloned(L \union {n}) = Coloned(L)
    BY <1>1 DEF Coloned
  <2> QED
    BY <1>1, <2>1 DEF HeadersSay
<1>2. CASE ":" \in Ssdp!ToSet(Ssdp!Content(n))
  <2> DEFINE key == Ssdp!KeyOf(n)
             value == ValueOf(n)
             C == Coloned(L)
  <2>1. Coloned(L \union {n}) = C \union {n} /\ \A l \in C : l[1] \in Nat /\ l[1] < n[1]
    BY <1>2 DEF Coloned
  <2>2. g = [k \in DOMAIN h \union {key} |-> IF k = key THEN value ELSE h[k]]
    BY <1>2
  <2>3. value = ValueOf(n) /\ key = Ssdp!KeyOf(n)
    OBVIOUS
  <2>4. /\ DOMAIN h = {Ssdp!KeyOf(l) : l \in C}
        /\ \A l \in C : (\A m \in C : Ssdp!KeyOf(m) = Ssdp!KeyOf(l) => m[1] <= l[1]) =>
              h[Ssdp!KeyOf(l)] = ValueOf(l)
    BY DEF HeadersSay
  <2> HIDE DEF key, value, C
  <2>5. DOMAIN g = {Ssdp!KeyOf(l) : l \in C \union {n}}
    BY <2>2, <2>3, <2>4
  <2>6. ASSUME NEW l \in C \union {n},
               \A m \in C \union {n} : Ssdp!KeyOf(m) = Ssdp!KeyOf(l) => m[1] <= l[1]
        PROVE  g[Ssdp!KeyOf(l)] = ValueOf(l)
    <3>1. CASE l = n
      BY <2>2, <2>3, <3>1
    <3>2. CASE l # n
      <4>1. l \in C /\ ~(n[1] <= l[1]) /\ Ssdp!KeyOf(l) # key
        BY <2>1, <2>3, <2>6, <3>2
      <4>2. h[Ssdp!KeyOf(l)] = ValueOf(l) /\ Ssdp!KeyOf(l) \in DOMAIN h
        BY <2>4, <2>6, <4>1
      <4> QED
        BY <2>2, <4>1, <4>2
    <3> QED
      BY <3>1, <3>2
  <2> QED
    BY <2>1, <2>5, <2>6 DEF HeadersSay
<1> QED
  BY <1>1, <1>2

\* The lines whose headers are read by now.
LinesYet == IF phase = "done" THEN Ssdp!HeaderLines ELSE LinesBefore(pos)

\* What was read is what the lines before the next one say, of which none is empty.
HeadersRead ==
    AlikeEnds =>
       /\ phase = "method" => pos = 0 /\ headers = <<>>
       /\ phase = "headers" =>
             /\ Begins(pos) /\ pos # 0
             /\ \A l \in LinesBefore(pos) : Ssdp!Content(l) # <<>>
       /\ phase \in {"headers", "done"} => HeadersSay(headers, LinesYet)
       /\ Ssdp!RefusedForCause

LEMMA TextStays ==
    ASSUME message' = message
    PROVE  /\ AlikeEnds' <=> AlikeEnds
           /\ Ssdp!Ends' = Ssdp!Ends
           /\ \A p : Begins(p)' <=> Begins(p)
           /\ \A l : Ssdp!Content(l)' = Ssdp!Content(l)
           /\ Ssdp!Lines' = Ssdp!Lines
           /\ Ssdp!HeaderLines' = Ssdp!HeaderLines /\ Ssdp!Named' = Ssdp!Named
<1>1. Ssdp!Size' = Ssdp!Size /\ Ssdp!Ends' = Ssdp!Ends /\ Ssdp!Crs' = Ssdp!Crs
  BY DEF Ssdp!Size, Ssdp!Ends, Ssdp!Crs
<1>2. (Ssdp!Windows' <=> Ssdp!Windows) /\ (Ssdp!Unix' <=> Ssdp!Unix)
  BY <1>1 DEF Ssdp!Windows, Ssdp!Unix
<1>3. AlikeEnds' <=> AlikeEnds
  BY <1>2 DEF AlikeEnds
<1>4. \A p : Begins(p)' <=> Begins(p)
  BY <1>1 DEF Begins
<1>5. \A l : Ssdp!Content(l)' = Ssdp!Content(l)
  BY <1>2 DEF Ssdp!Content
<1>6. Ssdp!Lines' = Ssdp!Lines
  BY <1>1 DEF Ssdp!Lines
<1>7. Ssdp!HeaderLines' = Ssdp!HeaderLines
  BY <1>5, <1>6 DEF Ssdp!HeaderLines
<1>8. Ssdp!Named' = Ssdp!Named
  BY <1>5, <1>7 DEF Ssdp!Named
<1> QED
  BY <1>1, <1>3, <1>4, <1>5, <1>6, <1>7, <1>8

LEMMA HeadersSayStays ==
    ASSUME message' = message, HeadersSay(headers', LinesYet')
    PROVE  HeadersSay(headers, LinesYet)'
<1> DEFINE L == LinesYet
<1> HIDE DEF L
<1>1. \A l : Ssdp!Content(l)' = Ssdp!Content(l)
  BY TextStays
<1>2. Coloned(L)' = Coloned(L')
  BY <1>1 DEF Coloned
<1>3. \A l : Ssdp!KeyOf(l)' = Ssdp!KeyOf(l) /\ ValueOf(l)' = ValueOf(l)
  BY <1>1 DEF Ssdp!KeyOf, ValueOf
<1>4. HeadersSay(headers', L')
  BY DEF L
<1>5. HeadersSay(headers, L)'
  BY <1>2, <1>3, <1>4 DEF HeadersSay
<1> QED
  BY <1>5 DEF L

LEMMA HeadersReadBegins == Ssdp!Init => HeadersRead
BY DEF HeadersRead, Ssdp!Init, Ssdp!RefusedForCause

\* The first line decides whether there are headers.
LEMMA MethodRead ==
    ASSUME Ssdp!TypeOK, HeadersRead, AlikeEnds, Ssdp!Method
    PROVE  HeadersRead'
<1>1. pos = 0 /\ headers = <<>> /\ message' = message /\ headers' = headers /\ phase # "done"
  BY DEF HeadersRead, Ssdp!Method
<1>2. Begins(0) /\ 0 \in 0..Ssdp!Size /\ Ssdp!Size \in Nat
  BY TextSize DEF Begins
<1>3. CASE phase' = "headers"
  <2>1. Ssdp!HasLine(0) /\ pos' = Ssdp!NextLine(0)
    BY <1>1, <1>3 DEF Ssdp!Method
  <2>2. PICK e : FirstEnd(0, e)
    BY <1>2, <2>1, NoLine
  <2>3. pos' = e + 1 /\ Begins(pos') /\ pos' # 0
    <3>1. Ssdp!NextLine(0) = e + 1 /\ Begins(e + 1) /\ e \in Nat
      BY <1>2, <2>2, ReadsLine, Zenon
    <3> QED
      BY <2>1, <3>1
  <2>4. LinesBefore(pos') = {}
    BY <2>2, <2>3, FirstLineOut
  <2>5. LinesBefore(pos)' = {} /\ LinesYet' = {}
    BY <1>1, <1>3, <2>4, TextStays DEF LinesBefore, LinesYet
  <2>6. HeadersSay(headers', {})
    BY <1>1 DEF HeadersSay, Coloned
  <2>7. HeadersSay(headers, LinesYet)'
    BY <1>1, <2>5, <2>6, HeadersSayStays
  <2>8. Begins(pos)'
    BY <1>1, <2>3, TextStays
  <2> QED
    BY <1>3, <2>3, <2>5, <2>7, <2>8 DEF HeadersRead, Ssdp!RefusedForCause
<1>4. CASE phase' # "headers"
  <2>1. phase' = "refused"
    BY <1>4 DEF Ssdp!Method
  <2>2. Ssdp!Ends = {} \/ message[1] \notin Ssdp!Methods
    <3> SUFFICES ASSUME Ssdp!Ends # {} PROVE message[1] \notin Ssdp!Methods
      OBVIOUS
    <3>1. PICK e : FirstEnd(0, e)
      BY <1>2, SomeEnd DEF Ssdp!Ends
    <3>2. Ssdp!HasLine(0) /\ Ssdp!Line(0) = Ssdp!Content(<<0, e>>)
          /\ (Ssdp!Windows => e > 0)
      BY <1>2, <3>1, ReadsLine
    <3>3. Ssdp!Line(0) = <<>> \/ Ssdp!Line(0)[1] \notin Ssdp!Methods
      BY <1>1, <1>4, <3>2 DEF Ssdp!Method
    <3>4. message \in Seq(Ssdp!AllPieces) /\ Ssdp!Size = Len(message) /\ e \in 0..Ssdp!Size - 1
          /\ message[e + 1] = "LF"
      BY <3>1 DEF Ssdp!TypeOK, Ssdp!Size, FirstEnd, Ssdp!Ends
    <3> DEFINE last == IF Ssdp!Windows THEN e - 1 ELSE e
    <3>5. Ssdp!Line(0) = SubSeq(message, 1, last) /\ last \in 0..Len(message)
      BY <3>2, <3>4 DEF Ssdp!Content
    <3>6. CASE last = 0
      <4>1. message[1] = "LF" \/ message[1] = "CR"
        <5>1. CASE ~Ssdp!Windows
          BY <3>4, <3>6, <5>1
        <5>2. CASE Ssdp!Windows
          <6>1. e - 1 \in Ssdp!Crs /\ e = 1
            BY <3>1, <3>4, <3>6, <5>2 DEF Ssdp!Windows, FirstEnd
          <6> QED
            BY <6>1 DEF Ssdp!Crs
        <5> QED
          BY <5>1, <5>2
      <4> QED
        BY <4>1 DEF Ssdp!Methods
    <3>7. CASE last # 0
      <4>1. Ssdp!Line(0) # <<>> /\ Ssdp!Line(0)[1] = message[1]
        <5> HIDE DEF last
        <5>1. Len(SubSeq(message, 1, last)) = last /\ SubSeq(message, 1, last)[1] = message[1]
          BY <3>4, <3>5, <3>7
        <5> QED
          BY <3>4, <3>5, <3>7, <5>1
      <4> QED
        BY <3>3, <4>1
    <3> QED
      BY <3>6, <3>7
  <2>3. Ssdp!RefusedForCause'
    BY <1>1, <2>2, TextStays DEF Ssdp!RefusedForCause, Ssdp!Methods
  <2> QED
    BY <2>1, <2>3 DEF HeadersRead
<1> QED
  BY <1>3, <1>4

LEMMA HeaderRead ==
    ASSUME Ssdp!TypeOK, HeadersRead, AlikeEnds, Ssdp!Header
    PROVE  HeadersRead'
<1>1. /\ Begins(pos) /\ pos # 0 /\ HeadersSay(headers, LinesBefore(pos))
      /\ \A l \in LinesBefore(pos) : Ssdp!Content(l) # <<>>
      /\ message' = message /\ phase = "headers" /\ phase' = "headers"
      /\ Ssdp!HasLine(pos) /\ Ssdp!Line(pos) # <<>> /\ pos' = Ssdp!NextLine(pos)
  BY DEF HeadersRead, LinesYet, Ssdp!Header
<1>2. PICK e : FirstEnd(pos, e)
  BY <1>1, NoLine DEF Begins
<1>3. pos' = e + 1 /\ Begins(pos') /\ Ssdp!Line(pos) = Ssdp!Content(<<pos, e>>) /\ pos' # 0
  BY <1>1, <1>2, ReadsLine
<1> DEFINE n == <<pos, e>>
           L == LinesBefore(pos)
<1>4. LinesBefore(pos') = L \union {n}
  BY <1>1, <1>2, <1>3, NextLineOnly
<1>5. n[1] \in Nat /\ \A l \in L : l[1] \in Nat /\ l[1] < n[1]
  BY <1>1 DEF Begins, LinesBefore, Ssdp!Lines
<1>6. HeadersSay(headers', L \union {n})
  <2>1. IF ":" \in Ssdp!ToSet(Ssdp!Content(n))
          THEN headers' = [k \in DOMAIN headers \union {Ssdp!KeyOf(n)} |->
                              IF k = Ssdp!KeyOf(n) THEN ValueOf(n) ELSE headers[k]]
          ELSE headers' = headers
    BY <1>3 DEF Ssdp!Header, Ssdp!KeyOf, ValueOf
  <2> HIDE DEF n, L
  <2> QED
    BY <1>1, <1>5, <2>1, HeaderAdded DEF L
<1>7. LinesBefore(pos)' = L \union {n} /\ LinesYet' = L \union {n}
  BY <1>1, <1>4, TextStays DEF LinesBefore, LinesYet
<1>8. HeadersSay(headers, LinesYet)'
  BY <1>1, <1>6, <1>7, HeadersSayStays
<1>9. \A l \in L \union {n} : Ssdp!Content(l) # <<>>
  BY <1>1, <1>3
<1>10. (\A l \in LinesBefore(pos) : Ssdp!Content(l) # <<>>)' /\ Begins(pos)'
  <2> HIDE DEF n, L
  <2> QED
    BY <1>1, <1>3, <1>7, <1>9, TextStays
<1> QED
  BY <1>1, <1>3, <1>8, <1>10 DEF HeadersRead, Ssdp!RefusedForCause

LEMMA HeadersEndRead ==
    ASSUME Ssdp!TypeOK, HeadersRead, AlikeEnds, Ssdp!HeadersEnd
    PROVE  HeadersRead'
<1>1. /\ Begins(pos) /\ pos # 0 /\ HeadersSay(headers, LinesBefore(pos))
      /\ \A l \in LinesBefore(pos) : Ssdp!Content(l) # <<>>
      /\ message' = message /\ headers' = headers
      /\ phase' = IF DOMAIN headers = {} THEN "refused" ELSE "done"
  BY DEF HeadersRead, LinesYet, Ssdp!HeadersEnd
<1>2. Ssdp!Size \in Nat /\ pos \in 0..Ssdp!Size
  BY <1>1, TextSize DEF Begins
<1>3. Ssdp!HeaderLines = LinesBefore(pos)
  <2>1. ASSUME NEW e, FirstEnd(pos, e) PROVE Ssdp!Content(<<pos, e>>) = <<>>
    <3>1. Ssdp!HasLine(pos) /\ Ssdp!Line(pos) = Ssdp!Content(<<pos, e>>)
      BY <1>1, <2>1, ReadsLine
    <3>2. pos < Ssdp!Size
      BY <1>2, <2>1 DEF FirstEnd, Ssdp!Ends
    <3> QED
      BY <3>1, <3>2 DEF Ssdp!HeadersEnd
  <2> QED
    BY <1>1, <2>1, HeaderLinesEnd
<1>4. HeadersSay(headers', Ssdp!HeaderLines)
  BY <1>1, <1>3
<1>5. CASE phase' = "done"
  <2>1. LinesYet' = Ssdp!HeaderLines
    BY <1>1, <1>5, TextStays DEF LinesYet
  <2>2. HeadersSay(headers, LinesYet)'
    BY <1>1, <1>4, <2>1, HeadersSayStays
  <2> QED
    BY <1>5, <2>2 DEF HeadersRead, Ssdp!RefusedForCause
<1>6. CASE phase' = "refused"
  <2>1. Ssdp!Named = {}
    BY <1>1, <1>4, <1>6 DEF HeadersSay, Coloned, Ssdp!Named
  <2>2. Ssdp!RefusedForCause'
    BY <1>1, <2>1, TextStays DEF Ssdp!RefusedForCause
  <2> QED
    BY <1>6, <2>2 DEF HeadersRead
<1> QED
  BY <1>1, <1>5, <1>6

LEMMA HeadersReadKept ==
    ASSUME Ssdp!TypeOK, HeadersRead, Ssdp!Next
    PROVE  HeadersRead'
<1>1. message' = message
  BY DEF Ssdp!Next, Ssdp!Method, Ssdp!Header, Ssdp!HeadersEnd
<1>2. CASE AlikeEnds
  BY <1>2, MethodRead, HeaderRead, HeadersEndRead DEF Ssdp!Next
<1>3. CASE ~AlikeEnds
  BY <1>1, <1>3, TextStays DEF HeadersRead
<1> QED
  BY <1>2, <1>3

LEMMA ReadAsWritten == HeadersRead => Ssdp!HeadersAsWritten /\ Ssdp!RefusedForCause
<1> SUFFICES ASSUME HeadersRead PROVE Ssdp!HeadersAsWritten /\ Ssdp!RefusedForCause
  OBVIOUS
<1>1. Ssdp!Named = Coloned(Ssdp!HeaderLines)
  BY DEF Ssdp!Named, Coloned
<1>2. Ssdp!HeadersAsWritten
  BY <1>1 DEF HeadersRead, HeadersSay, LinesYet, ValueOf, AlikeEnds, Ssdp!HeadersAsWritten
<1>3. Ssdp!RefusedForCause
  BY DEF HeadersRead, AlikeEnds, Ssdp!RefusedForCause
<1> QED
  BY <1>2, <1>3
-----------------------------------------------------------------------------
(* The labels of a DNS name.                                               *)

NextPiece(p) ==
    IF Name!WholeLabel(p) THEN p + 1 + Name!At(p)
    ELSE IF Name!GoodPointer(p) THEN Name!Target(p) ELSE p

\* f leads from piece to piece, and g[k] has the labels of the first k pieces.
NameWalk(f, g) ==
    /\ f \in [Nat -> 0..Name!Size] /\ f[0] = start
    /\ \A n \in Nat : f[n + 1] = NextPiece(f[n])
    /\ g \in [Nat -> Seq(Nat)] /\ g[0] = <<>>
    /\ \A n \in Nat : g[n + 1] = IF Name!WholeLabel(f[n]) THEN Append(g[n], f[n]) ELSE g[n]

LEMMA NextPieceType ==
    ASSUME Name!NameAssumption, InName, NEW p \in 0..Name!Size
    PROVE  NextPiece(p) \in 0..Name!Size
<1>1. Name!Size \in Nat /\ \A q \in 0..(Name!Size - 1) : Name!At(q) \in 0..255
  BY InNameFacts
<1>2. CASE Name!WholeLabel(p)
  BY <1>1, <1>2 DEF Name!WholeLabel, NextPiece
<1>3. CASE ~Name!WholeLabel(p) /\ Name!GoodPointer(p)
  <2>1. Name!At(p) \in 0..255 /\ Name!At(p + 1) \in 0..255 /\ Name!Target(p) < Name!Size
    BY <1>1, <1>3 DEF Name!GoodPointer
  <2>2. \A a \in 0..255, b \in 0..255 : (a % 64) * 256 + b \in Nat
    OBVIOUS
  <2>3. Name!Target(p) \in Nat
    BY <2>1, <2>2 DEF Name!Target
  <2> QED
    BY <1>1, <1>3, <2>1, <2>3 DEF NextPiece
<1>4. CASE ~Name!WholeLabel(p) /\ ~Name!GoodPointer(p)
  BY <1>4 DEF NextPiece
<1> QED
  BY <1>2, <1>3, <1>4

LEMMA NameWalkExists ==
    ASSUME Name!NameAssumption, InName
    PROVE  NameWalk(Name!After, Name!Labels)
<1> DEFINE P == 0..Name!Size
           S == P \X Seq(Nat)
           First == <<start, <<>>>>
           Step == [s \in S |-> <<NextPiece(s[1]),
                                  IF Name!WholeLabel(s[1]) THEN Append(s[2], s[1]) ELSE s[2]>>]
           A == Name!After
           L == Name!Labels
           DefA(f) == [k \in Nat |-> IF k = 0 THEN start
                         ELSE LET p == f[k - 1]
                              IN  IF Name!WholeLabel(p) THEN p + 1 + Name!At(p)
                                  ELSE IF Name!GoodPointer(p) THEN Name!Target(p) ELSE p]
           DefL(g) == [k \in Nat |-> IF k = 0 THEN <<>>
                         ELSE IF Name!WholeLabel(A[k - 1]) THEN Append(g[k - 1], A[k - 1])
                              ELSE g[k - 1]]
<1>1. A = CHOOSE f : f = DefA(f)
  BY DEF Name!After
<1>2. L = CHOOSE g : g = DefL(g)
  BY DEF Name!Labels
<1>3. start \in P /\ P \subseteq Nat /\ \A p \in P : NextPiece(p) \in P
  BY NextPieceType, InNameFacts DEF InName
<1>4. Step \in [S -> S] /\ First \in S
  <2> HIDE DEF P
  <2>1. ASSUME NEW s \in S
        PROVE  <<NextPiece(s[1]),
                 IF Name!WholeLabel(s[1]) THEN Append(s[2], s[1]) ELSE s[2]>> \in S
    <3>1. s[1] \in P /\ s[1] \in Nat /\ s[2] \in Seq(Nat)
      BY <1>3
    <3>2. Append(s[2], s[1]) \in Seq(Nat) /\ NextPiece(s[1]) \in P
      BY <1>3, <3>1
    <3> QED
      BY <3>1, <3>2
  <2>2. First \in S
    <3>1. <<>> \in Seq(Nat)
      OBVIOUS
    <3> QED
      BY <1>3, <3>1, Zenon
  <2> HIDE DEF S, First
  <2> QED
    BY <2>1, <2>2
<1>5. PICK h \in [Nat -> S] : h[0] = First /\ \A n \in Nat : h[n + 1] = Step[h[n]]
  <2> HIDE DEF S, Step, First
  <2> QED
    BY <1>4, Recursion
<1> DEFINE f == [n \in Nat |-> h[n][1]]
           g == [n \in Nat |-> h[n][2]]
<1>6. NameWalk(f, g)
  <2> HIDE DEF P
  <2>1. \A n \in Nat : h[n] \in S /\ f[n] \in P /\ g[n] \in Seq(Nat) /\ f[n] = h[n][1] /\ g[n] = h[n][2]
    BY <1>5
  <2>2. f[0] = start /\ g[0] = <<>>
    BY <1>5
  <2>3. \A n \in Nat : /\ f[n + 1] = NextPiece(f[n])
                       /\ g[n + 1] = IF Name!WholeLabel(f[n]) THEN Append(g[n], f[n]) ELSE g[n]
    <3> SUFFICES ASSUME NEW n \in Nat
                 PROVE  /\ f[n + 1] = NextPiece(f[n])
                        /\ g[n + 1] = IF Name!WholeLabel(f[n]) THEN Append(g[n], f[n]) ELSE g[n]
      OBVIOUS
    <3>1. h[n + 1] = Step[h[n]] /\ h[n] \in S /\ n + 1 \in Nat
      <4> HIDE DEF S, Step
      <4> QED
        BY <1>5
    <3>2. h[n + 1] = <<NextPiece(h[n][1]),
                       IF Name!WholeLabel(h[n][1]) THEN Append(h[n][2], h[n][1]) ELSE h[n][2]>>
      BY <3>1
    <3> HIDE DEF Step, S
    <3> QED
      BY <3>1, <3>2
  <2>4. f \in [Nat -> P] /\ g \in [Nat -> Seq(Nat)]
    BY <2>1
  <2> HIDE DEF f, g
  <2> QED
    BY <2>2, <2>3, <2>4 DEF NameWalk, P
<1> HIDE DEF f, g
<1>7. \A k \in Nat : k # 0 => k - 1 \in Nat /\ (k - 1) + 1 = k
  OBVIOUS
<1>8. f = DefA(f)
  <2>1. ASSUME NEW k \in Nat PROVE f[k] = DefA(f)[k]
    <3>1. CASE k = 0
      BY <1>6, <3>1 DEF NameWalk
    <3>2. CASE k # 0
      <4>1. k - 1 \in Nat /\ f[k] = NextPiece(f[k - 1])
        BY <1>6, <1>7, <3>2 DEF NameWalk
      <4> QED
        BY <3>2, <4>1 DEF NextPiece
    <3> QED
      BY <3>1, <3>2
  <2> QED
    BY <1>6, <2>1 DEF NameWalk
<1>9. A = DefA(A)
  <2> HIDE DEF DefA, A
  <2> QED
    BY <1>1, <1>8
<1>10. A = f
  <2> DEFINE Same == {n \in Nat : A[n] = f[n]}
  <2> HIDE DEF A
  <2>1. A[0] = f[0] /\ \A n \in Nat : A[n + 1] = NextPiece(A[n])
    <3>1. \A n \in Nat : n + 1 \in Nat /\ n + 1 # 0 /\ (n + 1) - 1 = n
      OBVIOUS
    <3>2. A[0] = f[0]
      BY <1>6, <1>9 DEF NameWalk
    <3>3. ASSUME NEW n \in Nat PROVE A[n + 1] = NextPiece(A[n])
      <4>1. A[n + 1] = DefA(A)[n + 1]
        BY <1>9
      <4> QED
        BY <3>1, <4>1 DEF NextPiece
    <3> QED
      BY <3>2, <3>3
  <2>2. 0 \in Same /\ \A n \in Nat : n \in Same => n + 1 \in Same
    <3>1. \A n \in Nat : n + 1 \in Nat
      OBVIOUS
    <3> QED
      BY <1>6, <2>1, <3>1, Zenon DEF NameWalk
  <2>3. Nat \subseteq Same
    <3> HIDE DEF Same
    <3> QED
      BY <2>2, Induction
  <2>4. A = [n \in Nat |-> A[n]] /\ f = [n \in Nat |-> f[n]]
    BY <1>6, <1>9 DEF NameWalk
  <2> QED
    BY <2>3, <2>4
<1> HIDE DEF A
<1>11. g = DefL(g)
  <2>1. ASSUME NEW k \in Nat PROVE g[k] = DefL(g)[k]
    <3>1. CASE k = 0
      BY <1>6, <3>1 DEF NameWalk
    <3>2. CASE k # 0
      <4>1. k - 1 \in Nat /\ g[k] = IF Name!WholeLabel(f[k - 1]) THEN Append(g[k - 1], f[k - 1]) ELSE g[k - 1]
        BY <1>6, <1>7, <3>2 DEF NameWalk
      <4> QED
        BY <1>10, <3>2, <4>1
    <3> QED
      BY <3>1, <3>2
  <2> QED
    BY <1>6, <2>1 DEF NameWalk
<1>12. L = DefL(L)
  <2> HIDE DEF DefL, L
  <2> QED
    BY <1>2, <1>11
<1>13. L = g
  <2> DEFINE Same == {n \in Nat : L[n] = g[n]}
  <2> HIDE DEF L
  <2>1. /\ L[0] = g[0]
        /\ \A n \in Nat : L[n + 1] = IF Name!WholeLabel(f[n]) THEN Append(L[n], f[n]) ELSE L[n]
    <3>1. \A n \in Nat : n + 1 \in Nat /\ n + 1 # 0 /\ (n + 1) - 1 = n
      OBVIOUS
    <3>2. L[0] = g[0]
      BY <1>6, <1>12 DEF NameWalk
    <3>3. ASSUME NEW n \in Nat
          PROVE  L[n + 1] = IF Name!WholeLabel(f[n]) THEN Append(L[n], f[n]) ELSE L[n]
      <4>1. L[n + 1] = DefL(L)[n + 1]
        BY <1>12
      <4> QED
        BY <1>10, <3>1, <4>1
    <3> QED
      BY <3>2, <3>3
  <2>2. 0 \in Same /\ \A n \in Nat : n \in Same => n + 1 \in Same
    <3>1. \A n \in Nat : n + 1 \in Nat
      OBVIOUS
    <3> QED
      BY <1>6, <2>1, <3>1, Zenon DEF NameWalk
  <2>3. Nat \subseteq Same
    <3> HIDE DEF Same
    <3> QED
      BY <2>2, Induction
  <2>4. L = [n \in Nat |-> L[n]] /\ g = [n \in Nat |-> g[n]]
    BY <1>6, <1>12 DEF NameWalk
  <2> QED
    BY <2>3, <2>4
<1> HIDE DEF L
<1>14. NameWalk(A, L)
  BY <1>6, <1>10, <1>13
<1> QED
  BY <1>14 DEF A, L

\* The name is at an end at p.
Stop(p) == ~Name!WholeLabel(p) /\ ~Name!GoodPointer(p)

LEMMA NameStops ==
    ASSUME NEW f, NEW g, NameWalk(f, g), NEW k \in Nat, Stop(f[k])
    PROVE  \A n \in Nat : f[k + n] = f[k] /\ g[k + n] = g[k]
<1> DEFINE Same == {n \in Nat : f[k + n] = f[k] /\ g[k + n] = g[k]}
<1>1. 0 \in Same
  OBVIOUS
<1>2. ASSUME NEW n \in Nat, n \in Same PROVE n + 1 \in Same
  <2>1. k + n \in Nat /\ k + (n + 1) = (k + n) + 1 /\ n + 1 \in Nat
    OBVIOUS
  <2>2. f[(k + n) + 1] = NextPiece(f[k + n]) /\ g[(k + n) + 1] = g[k + n]
    BY <1>2, <2>1 DEF NameWalk, Stop
  <2>3. NextPiece(f[k]) = f[k]
    BY DEF NextPiece, Stop
  <2> QED
    BY <1>2, <2>1, <2>2, <2>3
<1>3. Nat \subseteq Same
  <2> HIDE DEF Same
  <2> QED
    BY <1>1, <1>2, Induction
<1> QED
  BY <1>3

\* From a place that comes again the way is the same again.
LEMMA SameAgain ==
    ASSUME NEW f, NEW g, NameWalk(f, g), NEW i \in Nat, NEW j \in Nat, f[i] = f[j]
    PROVE  \A n \in Nat : f[i + n] = f[j + n]
<1> DEFINE Same == {n \in Nat : f[i + n] = f[j + n]}
<1>1. 0 \in Same
  OBVIOUS
<1>2. ASSUME NEW n \in Nat, n \in Same PROVE n + 1 \in Same
  <2>1. /\ i + n \in Nat /\ i + (n + 1) = (i + n) + 1 /\ n + 1 \in Nat
        /\ j + n \in Nat /\ j + (n + 1) = (j + n) + 1
    OBVIOUS
  <2>2. f[(i + n) + 1] = NextPiece(f[i + n]) /\ f[(j + n) + 1] = NextPiece(f[j + n])
    BY <2>1 DEF NameWalk
  <2> QED
    BY <1>2, <2>1, <2>2
<1>3. Nat \subseteq Same
  <2> HIDE DEF Same
  <2> QED
    BY <1>1, <1>2, Induction
<1> QED
  BY <1>3

\* A way that ends does not come to a place twice, so that it has no more pieces than
\* the message has bytes.
LEMMA EndsInTime ==
    ASSUME Name!Size \in Nat, NEW f, NEW g, NameWalk(f, g),
           NEW k \in Nat, Stop(f[k]), \A j \in 0..k - 1 : ~Stop(f[j])
    PROVE  k <= Name!Size
<1> SUFFICES ASSUME k > Name!Size PROVE FALSE
  OBVIOUS
<1> DEFINE S == 0..k
           T == 0..Name!Size
           h == [n \in S |-> f[n]]
<1>1. /\ IsFiniteSet(S) /\ IsFiniteSet(T)
      /\ Cardinality(S) = k + 1 /\ Cardinality(T) = Name!Size + 1
  BY FS_Interval
<1>2. h \in [S -> T]
  <2>1. \A n \in Nat : f[n] \in T
    BY DEF NameWalk
  <2> QED
    BY <2>1
<1>3. PICK x, y \in S : x # y /\ h[x] = h[y]
  <2>1. Cardinality(T) < Cardinality(S)
    BY <1>1
  <2> HIDE DEF S, T, h
  <2> QED
    BY <1>1, <1>2, <2>1, FS_PigeonHole, Zenon
<1>4. ASSUME NEW i \in S, NEW j \in S, i < j, f[i] = f[j] PROVE FALSE
  <2>1. PICK d \in Nat : j + d = k /\ i + d \in 0..k - 1
    <3>1. k - j \in Nat /\ j + (k - j) = k /\ i + (k - j) \in 0..k - 1
      BY <1>4
    <3> QED
      BY <3>1
  <2>2. f[i + d] = f[j + d]
    <3>1. i \in Nat /\ j \in Nat
      OBVIOUS
    <3> QED
      BY <1>4, <3>1, SameAgain
  <2> QED
    BY <2>1, <2>2
<1>5. x < y \/ y < x
  BY <1>3
<1> QED
  BY <1>3, <1>4, <1>5

\* The names of the calls, one behind the other, are the name.
Gathered(s, name) ==
    \E cut \in [1..Len(s) + 1 -> 0..Len(name)] :
       /\ cut[1] = 0 /\ cut[Len(s) + 1] = Len(name)
       /\ \A i \in 1..Len(s) : /\ cut[i] <= cut[i + 1]
                              /\ s[i].name = SubSeq(name, cut[i] + 1, cut[i + 1])

Calls == Seq(CallIn)

LEMMA GatheredAlone ==
    ASSUME NEW s \in Calls, Len(s) = 1, NEW name \in Seq(Nat), Gathered(s, name)
    PROVE  s[1].name = name
<1>1. PICK cut : cut[1] = 0 /\ cut[2] = Len(name) /\ s[1].name = SubSeq(name, cut[1] + 1, cut[2])
  BY DEF Gathered
<1>2. s[1].name = SubSeq(name, 1, Len(name))
  BY <1>1
<1> QED
  BY <1>2, SubSeqFull

\* A part of a name is the same part of a longer one, and with what it is longer by the
\* rest of it.
LEMMA PartOfLonger ==
    ASSUME NEW name \in Seq(Nat), NEW more \in Seq(Nat), NEW a \in Nat, NEW b \in Nat,
           a <= b, b <= Len(name)
    PROVE  /\ SubSeq(name \o more, a + 1, b) = SubSeq(name, a + 1, b)
           /\ SubSeq(name, a + 1, Len(name)) \o more = SubSeq(name \o more, a + 1, Len(name \o more))
<1> DEFINE all == name \o more
           m == Len(name)
           p == Len(more)
<1>1. all \in Seq(Nat) /\ Len(all) = m + p /\ m \in Nat /\ p \in Nat
  OBVIOUS
<1>2. ASSUME NEW x \in Nat, NEW y \in Nat, x <= y, y <= m
      PROVE  SubSeq(all, x + 1, y) = SubSeq(name, x + 1, y)
  <2>1. CASE x = y
    <3>1. y < x + 1 /\ x + 1 \in Int /\ y \in Int
      BY <1>2, <2>1
    <3> QED
      BY <3>1, SubSeqEmpty
  <2>2. CASE x # y
    <3>1. x + 1 \in 1..m /\ y \in 1..m
      BY <1>1, <1>2, <2>2
    <3> QED
      BY <3>1, SubSeqOfConcat1
  <2> QED
    BY <2>1, <2>2
<1>3. SubSeq(all, m + 1, m + p) = more
  <2>1. CASE p = 0
    <3>1. more = <<>> /\ m + p < m + 1 /\ m + 1 \in Int /\ m + p \in Int
      BY <1>1, <2>1
    <3> QED
      BY <3>1, SubSeqEmpty
  <2>2. CASE p # 0
    <3>1. m + 1 \in m + 1..m + p /\ m + p \in m + 1..m + p
      BY <1>1, <2>2
    <3>2. SubSeq(all, m + 1, m + p) = SubSeq(more, (m + 1) - m, (m + p) - m)
      BY <3>1, SubSeqOfConcat2
    <3>3. (m + 1) - m = 1 /\ (m + p) - m = p
      BY <1>1
    <3>4. SubSeq(more, 1, p) = more
      BY SubSeqFull
    <3> HIDE DEF all, m, p
    <3> QED
      BY <3>2, <3>3, <3>4
  <2> QED
    BY <2>1, <2>2
<1>4. SubSeq(all, a + 1, m) \o SubSeq(all, m + 1, m + p) = SubSeq(all, a + 1, m + p)
  <2>1. a + 1 \in 1..Len(all) + 1 /\ m \in (a + 1) - 1..Len(all) /\ m + p \in m..Len(all)
    BY <1>1
  <2> HIDE DEF all, m, p
  <2> QED
    BY <1>1, <2>1, ConcatAdjacentSubSeq
<1>5. SubSeq(all, a + 1, m) = SubSeq(name, a + 1, m)
  <2>1. a <= m /\ m <= m /\ a \in Nat /\ m \in Nat
    BY <1>1
  <2> HIDE DEF all, m
  <2> QED
    BY <1>2, <2>1
<1>6. SubSeq(all, a + 1, b) = SubSeq(name, a + 1, b)
  BY <1>2
<1>7. SubSeq(name, a + 1, m) \o more = SubSeq(all, a + 1, Len(all))
  <2> HIDE DEF all, m, p
  <2> QED
    BY <1>1, <1>3, <1>4, <1>5
<1> QED
  BY <1>6, <1>7

\* The last call goes on elsewhere, or with more labels.
LEMMA GatheredOn ==
    ASSUME NEW s \in Calls, Len(s) # 0, NEW name \in Seq(Nat), Gathered(s, name),
           NEW c \in CallIn, NEW more \in Seq(Nat),
           c.name = s[Len(s)].name \o more
    PROVE  Gathered([s EXCEPT ![Len(s)] = c], name \o more)
<1> DEFINE n == Len(s)
           m == Len(name)
           t == [s EXCEPT ![n] = c]
           all == name \o more
<1>1. PICK cut \in [1..n + 1 -> 0..m] :
          /\ cut[1] = 0 /\ cut[n + 1] = m
          /\ \A i \in 1..n : cut[i] <= cut[i + 1] /\ s[i].name = SubSeq(name, cut[i] + 1, cut[i + 1])
  BY Zenon DEF Gathered
<1>2. n \in Nat /\ n # 0 /\ m \in Nat
  BY DEF Calls
<1>3. Len(t) = n /\ t[n] = c /\ \A i \in 1..n : i # n => t[i] = s[i]
  BY DEF Calls
<1>4. all \in Seq(Nat) /\ Len(all) \in Nat /\ m <= Len(all)
  OBVIOUS
<1>5. \A a, b \in Nat : a <= b /\ b <= m =>
         /\ SubSeq(all, a + 1, b) = SubSeq(name, a + 1, b)
         /\ SubSeq(name, a + 1, m) \o more = SubSeq(all, a + 1, Len(all))
  BY PartOfLonger
<1>6. c.name = s[n].name \o more
  OBVIOUS
<1> HIDE DEF n, m, all, t
<1> DEFINE new == [i \in 1..n + 1 |-> IF i = n + 1 THEN Len(all) ELSE cut[i]]
<1>7. new \in [1..n + 1 -> 0..Len(all)] /\ new[1] = 0 /\ new[n + 1] = Len(all)
  <2>1. \A i \in 1..n + 1 : cut[i] \in 0..m
    BY <1>1
  <2>2. \A i \in 1..n + 1 : cut[i] \in 0..Len(all)
    BY <1>2, <1>4, <2>1
  <2>3. 1 \in 1..n + 1 /\ n + 1 \in 1..n + 1 /\ 1 # n + 1 /\ Len(all) \in 0..Len(all)
    BY <1>2, <1>4
  <2> QED
    BY <1>1, <2>2, <2>3
<1>8. ASSUME NEW i \in 1..n
      PROVE  new[i] <= new[i + 1] /\ t[i].name = SubSeq(all, new[i] + 1, new[i + 1])
  <2>1. i \in 1..n + 1 /\ i + 1 \in 1..n + 1 /\ i # n + 1
    BY <1>2
  <2>2. cut[i] \in Nat /\ cut[i + 1] \in Nat /\ cut[i] <= cut[i + 1] /\ cut[i + 1] <= m
        /\ new[i] = cut[i]
    BY <1>1, <1>2, <2>1
  <2>3. s[i].name = SubSeq(name, cut[i] + 1, cut[i + 1])
    BY <1>1
  <2>4. CASE i # n
    <3>1. new[i + 1] = cut[i + 1] /\ t[i] = s[i]
      BY <1>2, <1>3, <2>1, <2>4
    <3> QED
      BY <1>5, <2>2, <2>3, <3>1
  <2>5. CASE i = n
    <3>1. new[i + 1] = Len(all) /\ cut[i + 1] = m /\ t[i].name = s[i].name \o more
      BY <1>1, <1>3, <1>6, <2>1, <2>5
    <3>2. SubSeq(name, cut[i] + 1, m) \o more = SubSeq(all, cut[i] + 1, Len(all))
      BY <1>2, <1>5, <2>2
    <3>3. new[i] <= new[i + 1]
      <4>1. cut[i] <= Len(all)
        BY <1>2, <1>4, <2>2
      <4> QED
        BY <2>2, <3>1, <4>1
    <3>4. t[i].name = SubSeq(all, new[i] + 1, new[i + 1])
      <4> HIDE DEF new
      <4> QED
        BY <2>2, <2>3, <3>1, <3>2
    <3> QED
      BY <3>3, <3>4
  <2> QED
    BY <2>4, <2>5
<1>9. Gathered(t, all)
  <2> HIDE DEF new
  <2> QED
    BY <1>3, <1>7, <1>8 DEF Gathered
<1> QED
  BY <1>9 DEF t, all, n

\* A further call has no label yet.
LEMMA GatheredDown ==
    ASSUME NEW s \in Calls, NEW name \in Seq(Nat), Gathered(s, name),
           NEW c \in CallIn, c.name = <<>>
    PROVE  Gathered(Append(s, c), name)
<1> DEFINE n == Len(s)
           m == Len(name)
           t == Append(s, c)
<1>1. PICK cut \in [1..n + 1 -> 0..m] :
          /\ cut[1] = 0 /\ cut[n + 1] = m
          /\ \A i \in 1..n : cut[i] <= cut[i + 1] /\ s[i].name = SubSeq(name, cut[i] + 1, cut[i + 1])
  BY Zenon DEF Gathered
<1>2. n \in Nat /\ m \in Nat
  BY DEF Calls
<1>3. Len(t) = n + 1 /\ t[n + 1] = c /\ \A i \in 1..n : t[i] = s[i]
  BY DEF Calls
<1>4. SubSeq(name, m + 1, m) = <<>>
  <2>1. m < m + 1 /\ m \in Int /\ m + 1 \in Int
    BY <1>2
  <2> QED
    BY <2>1, SubSeqEmpty
<1> HIDE DEF n, m, t
<1> DEFINE new == [i \in 1..(n + 1) + 1 |-> IF i = (n + 1) + 1 THEN m ELSE cut[i]]
<1>5. new \in [1..(n + 1) + 1 -> 0..m] /\ new[1] = 0 /\ new[(n + 1) + 1] = m /\ new[n + 1] = m
  <2>1. \A i \in 1..(n + 1) + 1 : i # (n + 1) + 1 => i \in 1..n + 1
    BY <1>2
  <2>2. 1 \in 1..(n + 1) + 1 /\ (n + 1) + 1 \in 1..(n + 1) + 1 /\ 1 # (n + 1) + 1 /\ m \in 0..m
        /\ n + 1 \in 1..(n + 1) + 1 /\ n + 1 # (n + 1) + 1
    BY <1>2
  <2> QED
    BY <1>1, <2>1, <2>2
<1>6. ASSUME NEW i \in 1..n + 1
      PROVE  new[i] <= new[i + 1] /\ t[i].name = SubSeq(name, new[i] + 1, new[i + 1])
  <2>1. CASE i = n + 1
    <3>1. new[i] = m /\ new[i + 1] = m /\ t[i] = c
      BY <1>3, <1>5, <2>1
    <3>2. t[i].name = <<>> /\ SubSeq(name, new[i] + 1, new[i + 1]) = <<>>
      <4> HIDE DEF new
      <4> QED
        BY <1>4, <3>1
    <3>3. new[i] <= new[i + 1]
      BY <1>2, <3>1
    <3> QED
      BY <3>2, <3>3, Zenon
  <2>2. CASE i # n + 1
    <3>1. i \in 1..n /\ i + 1 \in 1..n + 1 /\ i \in 1..(n + 1) + 1 /\ i + 1 \in 1..(n + 1) + 1
          /\ i # (n + 1) + 1 /\ i + 1 # (n + 1) + 1
      BY <1>2, <2>2
    <3>2. new[i] = cut[i] /\ new[i + 1] = cut[i + 1] /\ t[i] = s[i]
      BY <1>3, <3>1
    <3> HIDE DEF new
    <3> QED
      BY <1>1, <3>1, <3>2
  <2> QED
    BY <2>1, <2>2
<1>7. Gathered(t, name)
  <2> HIDE DEF new
  <2> QED
    BY <1>3, <1>5, <1>6 DEF Gathered, m
<1> QED
  BY <1>7 DEF t

\* The caller takes over the labels of the call that ended.
LEMMA GatheredBack ==
    ASSUME NEW s \in Calls, NEW n \in Nat, n > 1, Len(s) = n,
           NEW name \in Seq(Nat), Gathered(s, name),
           NEW t \in Calls, Len(t) = n - 1, \A i \in 1..n - 2 : t[i] = s[i],
           t[n - 1].name = s[n - 1].name \o s[n].name
    PROVE  Gathered(t, name)
<1> DEFINE m == Len(name)
<1>1. PICK cut \in [1..n + 1 -> 0..m] :
          /\ cut[1] = 0 /\ cut[n + 1] = m
          /\ \A i \in 1..n : cut[i] <= cut[i + 1] /\ s[i].name = SubSeq(name, cut[i] + 1, cut[i + 1])
  BY Zenon DEF Gathered
<1>2. m \in Nat /\ n - 1 \in 1..n /\ n \in 1..n /\ n - 1 \in 1..n + 1 /\ n \in 1..n + 1 /\ (n - 1) + 1 = n /\ n - 1 # n
  OBVIOUS
<1> DEFINE new == [i \in 1..n |-> IF i = n THEN m ELSE cut[i]]
<1>3. new \in [1..n -> 0..m] /\ new[1] = 0 /\ new[n] = m
  <2>1. \A i \in 1..n : i \in 1..n + 1
    OBVIOUS
  <2>2. 1 \in 1..n /\ 1 # n /\ m \in 0..m
    BY <1>2
  <2> QED
    BY <1>1, <1>2, <2>1, <2>2
<1>4. \A i \in 1..n + 1 : cut[i] \in 0..m
  BY <1>1
<1> HIDE DEF m
<1>5. SubSeq(name, cut[n - 1] + 1, cut[n]) \o SubSeq(name, cut[n] + 1, m) = SubSeq(name, cut[n - 1] + 1, m)
  <2>1. cut[n - 1] \in 0..m /\ cut[n] \in 0..m /\ cut[n - 1] <= cut[n]
    <3>1. cut[n - 1] <= cut[(n - 1) + 1]
      BY <1>1, <1>2
    <3> QED
      BY <1>2, <1>4, <3>1
  <2>2. cut[n - 1] + 1 \in 1..m + 1 /\ cut[n] \in (cut[n - 1] + 1) - 1..m /\ m \in cut[n]..m
    BY <1>2, <2>1
  <2> QED
    BY <2>2, ConcatAdjacentSubSeq DEF m
<1>6. ASSUME NEW i \in 1..n - 1
      PROVE  new[i] <= new[i + 1] /\ t[i].name = SubSeq(name, new[i] + 1, new[i + 1])
  <2>1. i \in 1..n /\ i + 1 \in 1..n /\ i # n /\ new[i] = cut[i]
    BY <1>2
  <2>2. CASE i = n - 1
    <3>1. /\ new[i + 1] = m /\ s[n - 1].name = SubSeq(name, cut[n - 1] + 1, cut[n])
          /\ s[n].name = SubSeq(name, cut[n] + 1, m)
      <4>1. new[i + 1] = m
        BY <1>2, <1>3, <2>2
      <4>2. \A l \in 1..n : s[l].name = SubSeq(name, cut[l] + 1, cut[l + 1])
        BY <1>1
      <4> HIDE DEF new
      <4> QED
        BY <1>1, <1>2, <4>1, <4>2
    <3>2. t[i].name = SubSeq(name, cut[i] + 1, m)
      BY <1>5, <2>2, <3>1
    <3>3. cut[i] <= m
      BY <1>2, <1>4, <2>1
    <3> HIDE DEF new
    <3> QED
      BY <2>1, <3>1, <3>2, <3>3
  <2>3. CASE i # n - 1
    <3>1. i \in 1..n - 2 /\ i + 1 # n
      BY <2>3
    <3>2. new[i + 1] = cut[i + 1] /\ t[i] = s[i]
      BY <2>1, <3>1
    <3> HIDE DEF new
    <3> QED
      BY <1>1, <2>1, <3>2
  <2> QED
    BY <2>2, <2>3
<1>7. Gathered(t, name)
  <2>1. Len(t) + 1 = n /\ 1..Len(t) = 1..n - 1
    BY <1>2
  <2> HIDE DEF new
  <2>2. new \in [1..Len(t) + 1 -> 0..m] /\ new[1] = 0 /\ new[Len(t) + 1] = m
    BY <1>3, <2>1
  <2>3. \A i \in 1..Len(t) : new[i] <= new[i + 1] /\ t[i].name = SubSeq(name, new[i] + 1, new[i + 1])
    BY <1>6, <2>1
  <2> QED
    BY <2>2, <2>3, Zenon DEF Gathered, m
<1> QED
  BY <1>7

\* Of a name that is read to its kth piece: no piece before it ended the name, the labels
\* of the calls are those of the pieces, and the first call goes on behind the name in
\* its own place as soon as another one reads on.
FirstNoLabel(f, j) == ~Name!WholeLabel(f[j]) /\ \A i \in 0..j - 1 : Name!WholeLabel(f[i])

ReadTo(s, ph, f, g, k) ==
    /\ \A j \in 0..k - 1 : ~Stop(f[j])
    /\ IF ph = "reading" THEN s[Len(s)].pos = f[k] ELSE Stop(f[k])
    /\ Gathered(s, g[k])
    /\ IF ph = "reading" /\ Len(s) = 1
         THEN \A j \in 0..k - 1 : Name!WholeLabel(f[j])
         ELSE \E j \in 0..k : FirstNoLabel(f, j) /\ s[1].pos = Name!Ends(f[j])

NameRead ==
    phase # "crashed" =>
       \E f, g : NameWalk(f, g) /\ \E k \in Nat : ReadTo(nest, phase, f, g, k)

LEMMA NameReadBegins == ASSUME Name!NameAssumption, InName, Name!Init PROVE NameRead
<1> DEFINE A == Name!After
           L == Name!Labels
<1>1. NameWalk(A, L)
  BY NameWalkExists
<1> HIDE DEF A, L
<1>2. A[0] = start /\ L[0] = <<>>
  BY <1>1 DEF NameWalk
<1>3. nest = <<[pos |-> start, name |-> <<>>]>> /\ phase = "reading"
  BY DEF Name!Init
<1>4. Len(nest) = 1 /\ nest[1].pos = start /\ nest[1].name = <<>>
  BY <1>3
<1>5. Gathered(nest, <<>>)
  <2>1. SubSeq(<<>>, 0 + 1, 0) = <<>>
    BY SubSeqEmpty
  <2> DEFINE cut == [i \in 1..2 |-> 0]
  <2>2. cut \in [1..1 + 1 -> 0..0] /\ cut[1] = 0 /\ cut[1 + 1] = 0
    OBVIOUS
  <2>3. nest[1].name = SubSeq(<<>>, cut[1] + 1, cut[1 + 1]) /\ cut[1] <= cut[1 + 1]
    BY <1>4, <2>1
  <2>4. Len(<<>>) = 0
    OBVIOUS
  <2>5. \A i \in 1..1 : i = 1
    OBVIOUS
  <2> HIDE DEF cut
  <2> QED
    BY <1>4, <2>2, <2>3, <2>4, <2>5, Zenon DEF Gathered
<1>6. ReadTo(nest, phase, A, L, 0)
  BY <1>2, <1>3, <1>4, <1>5 DEF ReadTo
<1> QED
  BY <1>1, <1>6, Zenon DEF NameRead

LEMMA NameStays ==
    ASSUME message' = message, start' = start, NEW f, NEW g, NameWalk(f, g),
           NEW k \in Nat, ReadTo(nest', phase', f, g, k)
    PROVE  NameRead'
<1>1. Name!Size' = Name!Size /\ \A p : Name!At(p)' = Name!At(p)
  BY DEF Name!Size, Name!At
<1>2. \A p : /\ Name!WholeLabel(p)' <=> Name!WholeLabel(p)
             /\ Name!GoodPointer(p)' <=> Name!GoodPointer(p)
             /\ Name!IsPointer(p)' <=> Name!IsPointer(p)
             /\ Name!Target(p)' = Name!Target(p)
  BY <1>1 DEF Name!WholeLabel, Name!GoodPointer, Name!IsPointer, Name!Target
<1>3. \A p : (Stop(p)' <=> Stop(p)) /\ NextPiece(p)' = NextPiece(p) /\ Name!Ends(p)' = Name!Ends(p)
  BY <1>1, <1>2 DEF Stop, NextPiece, Name!Ends
<1>4. NameWalk(f, g)'
  BY <1>1, <1>2, <1>3 DEF NameWalk
<1>5. \A j : FirstNoLabel(f, j)' <=> FirstNoLabel(f, j)
  BY <1>2 DEF FirstNoLabel
<1>6. ReadTo(nest, phase, f, g, k)'
  BY <1>2, <1>3, <1>5 DEF ReadTo
<1> QED
  BY <1>4, <1>6 DEF NameRead

\* What a call that goes on leaves of the others.
LEMMA MoveFacts ==
    ASSUME Name!NameAssumption, InName, NEW p \in 0..Name!Size, NEW more \in Seq(Nat),
           NEW name \in Seq(Nat), Gathered(nest, name)
    PROVE  LET s == Name!Move(p, Name!Call.name \o more)
           IN  /\ s \in Calls /\ Len(s) = Len(nest) /\ s[Len(s)].pos = p
               /\ Len(nest) # 1 => s[1] = nest[1]
               /\ Gathered(s, name \o more)
<1> DEFINE c == [pos |-> p, name |-> Name!Call.name \o more]
           n == Len(nest)
           s == [nest EXCEPT ![n] = c]
<1>1. nest \in Calls /\ n \in Nat /\ n \in 1..n /\ 1 \in 1..n /\ n # 0
  BY DEF InName, Calls
<1>2. Name!Call = nest[n] /\ Name!Call.name \o more \in Seq(Nat)
  BY InNameFacts DEF Name!Call
<1>3. c \in CallIn /\ c.name = nest[n].name \o more /\ c.pos = p
  BY <1>2 DEF CallIn
<1>4. Name!Move(p, Name!Call.name \o more) = s
  BY DEF Name!Move
<1> HIDE DEF c
<1>5. s \in Calls /\ Len(s) = n /\ s[n] = c /\ (n # 1 => s[1] = nest[1])
  BY <1>1, <1>3 DEF Calls
<1>6. Gathered(s, name \o more)
  BY <1>1, <1>3, GatheredOn
<1> HIDE DEF s, n
<1>7. /\ s \in Calls /\ Len(s) = Len(nest) /\ s[Len(s)].pos = p
      /\ Len(nest) # 1 => s[1] = nest[1]
      /\ Gathered(s, name \o more)
  BY <1>3, <1>5, <1>6 DEF n
<1> QED
  BY <1>4, <1>7, Zenon

\* The call ends where the name does.
LEMMA LeaveRead ==
    ASSUME Name!NameAssumption, InName, phase = "reading", NEW f, NEW g, NameWalk(f, g),
           NEW k \in Nat, ReadTo(nest, phase, f, g, k), Stop(Name!Here),
           Name!Ends(Name!Here) \in 0..Name!Size, Name!Leave(Name!Ends(Name!Here))
    PROVE  ReadTo(nest', phase', f, g, k)
<1> DEFINE q == Name!Ends(Name!Here)
<1>1. nest' = Name!Move(q, Name!Call.name) /\ phase' = "leaving"
  BY DEF Name!Leave
<1>2. g[k] \in Seq(Nat) /\ Gathered(nest, g[k]) /\ Name!Here = f[k]
  BY DEF NameWalk, ReadTo, Name!Here, Name!Call
<1>3. Name!Call.name \o <<>> = Name!Call.name /\ g[k] \o <<>> = g[k] /\ <<>> \in Seq(Nat)
  BY <1>2, InNameFacts
<1>4. /\ Len(nest') = Len(nest) /\ nest'[Len(nest')].pos = q
      /\ Len(nest) # 1 => nest'[1] = nest[1]
      /\ Gathered(nest', g[k])
  <2> DEFINE s == Name!Move(q, Name!Call.name \o <<>>)
  <2>1. /\ s \in Calls /\ Len(s) = Len(nest) /\ s[Len(s)].pos = q
        /\ Len(nest) # 1 => s[1] = nest[1]
        /\ Gathered(s, g[k] \o <<>>)
    BY <1>2, <1>3, MoveFacts, Zenon
  <2> HIDE DEF q
  <2>2. s = nest'
    BY <1>1, <1>3
  <2> QED
    BY <1>3, <2>1, <2>2, Zenon
<1>5. Stop(f[k]) /\ (\A j \in 0..k - 1 : ~Stop(f[j])) /\ k \in 0..k
  BY <1>2 DEF ReadTo
<1>6. \E j \in 0..k : FirstNoLabel(f, j) /\ nest'[1].pos = Name!Ends(f[j])
  <2>1. CASE Len(nest) = 1
    <3>1. nest'[1].pos = Name!Ends(f[k])
      BY <1>2, <1>4, <2>1
    <3>2. FirstNoLabel(f, k)
      BY <1>5, <2>1 DEF ReadTo, FirstNoLabel, Stop
    <3> QED
      BY <1>5, <3>1, <3>2
  <2>2. CASE Len(nest) # 1
    BY <1>4, <2>2 DEF ReadTo
  <2> QED
    BY <2>1, <2>2
<1> QED
  BY <1>1, <1>4, <1>5, <1>6 DEF ReadTo

LEMMA LabelRead ==
    ASSUME Name!NameAssumption, InName, NEW f, NEW g, NameWalk(f, g),
           NEW k \in Nat, ReadTo(nest, phase, f, g, k), Name!Label
    PROVE  ReadTo(nest', phase', f, g, k + 1)
<1> DEFINE p == Name!Here
           q == p + 1 + Name!At(p)
<1>1. p \in 0..Name!Size - 1 /\ Name!At(p) \in 0..255 /\ Name!Size \in Nat /\ p \in Nat
  <2>1. p < Name!Size
    BY DEF Name!Label
  <2>2. /\ Name!Size \in Nat /\ p \in 0..Name!Size
        /\ \A i \in 0..(Name!Size - 1) : Name!At(i) \in 0..255
    BY InNameFacts
  <2> HIDE DEF p
  <2>3. p \in 0..Name!Size - 1 /\ p \in Nat
    BY <2>1, <2>2
  <2> QED
    BY <2>2, <2>3
<1>2. Name!WholeLabel(p) /\ q \in 0..Name!Size /\ phase = "reading" /\ phase' = "reading"
      /\ nest' = Name!Move(q, Append(Name!Call.name, p))
  BY <1>1 DEF Name!Label, Name!WholeLabel, Name!IsPointer
<1>3. p = f[k] /\ g[k] \in Seq(Nat) /\ Gathered(nest, g[k]) /\ \A j \in 0..k - 1 : ~Stop(f[j])
  BY <1>2 DEF NameWalk, ReadTo, Name!Here, Name!Call
<1>4. f[k + 1] = q /\ g[k + 1] = Append(g[k], p)
  BY <1>2, <1>3 DEF NameWalk, NextPiece
<1>5. /\ Append(Name!Call.name, p) = Name!Call.name \o <<p>>
      /\ Append(g[k], p) = g[k] \o <<p>> /\ <<p>> \in Seq(Nat)
  <2>1. Name!Call.name \in Seq(Nat) /\ g[k] \in Seq(Nat) /\ p \in Nat
    BY <1>1, <1>3, InNameFacts
  <2> HIDE DEF p
  <2>2. \A x \in Seq(Nat) : Append(x, p) = x \o <<p>>
    BY <2>1, AppendIsConcat
  <2>3. <<p>> \in Seq(Nat)
    BY <2>1
  <2> QED
    BY <2>1, <2>2, <2>3, Zenon
<1> HIDE DEF p, q
<1>6. /\ Len(nest') = Len(nest) /\ nest'[Len(nest')].pos = q
      /\ Len(nest) # 1 => nest'[1] = nest[1]
      /\ Gathered(nest', g[k + 1])
  <2> DEFINE s == Name!Move(q, Name!Call.name \o <<p>>)
  <2>1. /\ s \in Calls /\ Len(s) = Len(nest) /\ s[Len(s)].pos = q
        /\ Len(nest) # 1 => s[1] = nest[1]
        /\ Gathered(s, g[k] \o <<p>>)
    BY <1>2, <1>3, <1>5, MoveFacts, Zenon
  <2>2. s = nest'
    BY <1>2, <1>5
  <2> QED
    BY <1>4, <1>5, <2>1, <2>2, Zenon
<1>7. \A j \in 0..(k + 1) - 1 : j \in 0..k - 1 \/ j = k
  OBVIOUS
<1>8. (\A j \in 0..(k + 1) - 1 : ~Stop(f[j])) /\ k + 1 \in Nat
  BY <1>2, <1>3, <1>7 DEF Stop
<1>9. CASE Len(nest) = 1
  <2>1. \A j \in 0..(k + 1) - 1 : Name!WholeLabel(f[j])
    BY <1>2, <1>3, <1>7, <1>9 DEF ReadTo
  <2> QED
    BY <1>2, <1>4, <1>6, <1>8, <1>9, <2>1 DEF ReadTo
<1>10. CASE Len(nest) # 1
  <2>1. PICK j \in 0..k : FirstNoLabel(f, j) /\ nest[1].pos = Name!Ends(f[j])
    BY <1>10 DEF ReadTo
  <2>2. j \in 0..k + 1
    OBVIOUS
  <2> QED
    BY <1>2, <1>4, <1>6, <1>8, <1>10, <2>1, <2>2 DEF ReadTo
<1> QED
  BY <1>9, <1>10

LEMMA FollowRead ==
    ASSUME Name!NameAssumption, InName, NEW f, NEW g, NameWalk(f, g),
           NEW k \in Nat, ReadTo(nest, phase, f, g, k), Name!Follow, phase' = "reading"
    PROVE  ReadTo(nest', phase', f, g, k + 1)
<1> DEFINE p == Name!Here
           q == Name!Target(p)
           c == [pos |-> q, name |-> <<>>]
           s == Name!Move(p + 2, Name!Call.name)
<1>1. p \in 0..Name!Size /\ Name!At(p) \in 0..255 /\ Name!Size \in Nat /\ p + 2 \in 0..Name!Size
      /\ q \in 0..Name!Size /\ p + 1 < Name!Size
  <2>1. p + 1 < Name!Size /\ q < Name!Size
    BY DEF Name!Follow
  <2>2. /\ Name!Size \in Nat /\ p \in 0..Name!Size
        /\ \A i \in 0..(Name!Size - 1) : Name!At(i) \in 0..255
    BY InNameFacts
  <2>3. q \in Nat
    BY <2>1, TargetType
  <2> HIDE DEF p, q
  <2>4. p \in 0..Name!Size - 1
    BY <2>1, <2>2
  <2> QED
    BY <2>1, <2>2, <2>3, <2>4
<1>2. Name!GoodPointer(p) /\ ~Name!WholeLabel(p) /\ phase = "reading" /\ nest' = Append(s, c)
  <2>1. phase = "reading" /\ Name!IsPointer(p) /\ Name!GoodPointer(p)
    BY DEF Name!Follow, Name!GoodPointer
  <2>2. Len(nest) < StackLimit
    BY DEF Name!Follow
  <2>3. nest' = Append(s, c)
    BY <2>2 DEF Name!Follow
  <2>4. ~Name!WholeLabel(p)
    BY <1>1, <2>1 DEF Name!IsPointer, Name!WholeLabel
  <2> QED
    BY <2>1, <2>3, <2>4
<1>3. p = f[k] /\ g[k] \in Seq(Nat) /\ Gathered(nest, g[k]) /\ \A j \in 0..k - 1 : ~Stop(f[j])
  BY <1>2 DEF NameWalk, ReadTo, Name!Here, Name!Call
<1>4. f[k + 1] = q /\ g[k + 1] = g[k]
  BY <1>2, <1>3 DEF NameWalk, NextPiece
<1>5. Name!Call.name \o <<>> = Name!Call.name /\ g[k] \o <<>> = g[k] /\ <<>> \in Seq(Nat)
  BY <1>3, InNameFacts
<1>6. c \in CallIn /\ c.name = <<>> /\ c.pos = q
  BY <1>1, <1>5 DEF CallIn
<1>7. Name!Ends(p) = p + 2
  BY <1>1, <1>2 DEF Name!Ends, Name!GoodPointer
<1> HIDE DEF p, q, c
<1>8. /\ s \in Calls /\ Len(s) = Len(nest) /\ s[Len(s)].pos = p + 2
      /\ Len(nest) # 1 => s[1] = nest[1]
      /\ Gathered(s, g[k])
  <2> DEFINE t == Name!Move(p + 2, Name!Call.name \o <<>>)
  <2>1. /\ t \in Calls /\ Len(t) = Len(nest) /\ t[Len(t)].pos = p + 2
        /\ Len(nest) # 1 => t[1] = nest[1]
        /\ Gathered(t, g[k] \o <<>>)
    BY <1>1, <1>3, <1>5, MoveFacts, Zenon
  <2>2. s = t
    BY <1>5
  <2> HIDE DEF s, t
  <2> QED
    BY <1>5, <2>1, <2>2, Zenon
<1> HIDE DEF s
<1>9. Gathered(nest', g[k + 1])
  BY <1>2, <1>3, <1>4, <1>6, <1>8, GatheredDown
<1>10. Len(s) \in Nat /\ Len(s) >= 1
  BY <1>8 DEF Calls, InName
<1>11. Len(nest') = Len(s) + 1 /\ nest'[Len(nest')] = c /\ nest'[1] = s[1]
  BY <1>2, <1>6, <1>8, <1>10 DEF Calls
<1>12. \A j \in 0..(k + 1) - 1 : j \in 0..k - 1 \/ j = k
  OBVIOUS
<1>13. (\A j \in 0..(k + 1) - 1 : ~Stop(f[j])) /\ \A j \in 0..k : j \in 0..k + 1
  BY <1>2, <1>3, <1>12 DEF Stop
<1>14. \E j \in 0..k + 1 : FirstNoLabel(f, j) /\ nest'[1].pos = Name!Ends(f[j])
  <2>1. CASE Len(nest) = 1
    <3>1. nest'[1].pos = Name!Ends(f[k])
      BY <1>3, <1>7, <1>8, <1>11, <2>1
    <3>2. FirstNoLabel(f, k) /\ k \in 0..k + 1
      BY <1>2, <1>3, <2>1 DEF ReadTo, FirstNoLabel
    <3> QED
      BY <3>1, <3>2
  <2>2. CASE Len(nest) # 1
    <3>1. PICK j \in 0..k : FirstNoLabel(f, j) /\ nest[1].pos = Name!Ends(f[j])
      BY <2>2 DEF ReadTo
    <3> QED
      BY <1>8, <1>11, <1>13, <2>2, <3>1
  <2> QED
    BY <2>1, <2>2
<1>15. Len(nest') # 1 /\ nest'[Len(nest')].pos = f[k + 1]
  BY <1>4, <1>6, <1>8, <1>10, <1>11
<1> QED
  BY <1>9, <1>13, <1>14, <1>15 DEF ReadTo

LEMMA ReturnRead ==
    ASSUME Name!NameAssumption, InName, NEW f, NEW g, NameWalk(f, g),
           NEW k \in Nat, ReadTo(nest, phase, f, g, k), Name!Return, nest' \in Calls
    PROVE  ReadTo(nest', phase', f, g, k)
<1> DEFINE n == Len(nest)
           s == Name!Front(Name!Front(nest))
           c == [nest[n - 1] EXCEPT !.name = @ \o Name!Call.name]
<1>1. /\ nest \in Calls /\ n \in Nat /\ n > 1 /\ nest' = Append(s, c)
      /\ phase = "leaving" /\ phase' = "leaving"
  BY DEF InName, Calls, Name!Return
<1>2. s \in Calls /\ Len(s) = n - 2 /\ \A i \in 1..n - 2 : s[i] = nest[i]
  <2>1. Name!Front(nest) \in Calls /\ Len(Name!Front(nest)) = n - 1
    BY <1>1, FrontType DEF Calls
  <2>2. \A i \in 1..n - 1 : Name!Front(nest)[i] = nest[i]
    BY <1>1 DEF Name!Front, Calls
  <2> DEFINE t == Name!Front(nest)
  <2>3. s \in Calls /\ Len(s) = (n - 1) - 1
    <3> HIDE DEF t, n
    <3> QED
      BY <1>1, <2>1, FrontType DEF Calls
  <2>4. \A i \in 1..n - 2 : Name!Front(t)[i] = t[i]
    <3>1. t \in Calls /\ Len(t) = n - 1 /\ n \in Nat /\ n > 1
      BY <1>1, <2>1
    <3> HIDE DEF t, n
    <3>2. Name!Front(t) = SubSeq(t, 1, Len(t) - 1)
      BY DEF Name!Front
    <3> QED
      BY <3>1, <3>2 DEF Calls
  <2> QED
    BY <1>1, <2>1, <2>2, <2>3, <2>4
<1>3. nest[n - 1] \in CallIn /\ nest[n] = Name!Call
  BY <1>1 DEF Calls, Name!Call
<1>4. c.name = nest[n - 1].name \o nest[n].name /\ c.pos = nest[n - 1].pos
  BY <1>3 DEF CallIn
<1> HIDE DEF c, s, n
<1>5. /\ Len(nest') = n - 1 /\ nest'[n - 1] = c
      /\ \A i \in 1..n - 2 : nest'[i] = nest[i]
  BY <1>1, <1>2 DEF Calls
<1>6. Gathered(nest', g[k])
  <2>1. Len(nest) = n /\ g[k] \in Seq(Nat) /\ Gathered(nest, g[k])
    BY DEF n, NameWalk, ReadTo
  <2> QED
    BY <1>1, <1>4, <1>5, <2>1, GatheredBack
<1>7. nest'[1].pos = nest[1].pos
  <2>1. CASE n = 2
    BY <1>4, <1>5, <2>1
  <2>2. CASE n # 2
    <3>1. 1 \in 1..n - 2
      BY <1>1, <2>2
    <3> QED
      BY <1>5, <3>1
  <2> QED
    BY <2>1, <2>2
<1>8. (\A j \in 0..k - 1 : ~Stop(f[j])) /\ Stop(f[k])
      /\ \E j \in 0..k : FirstNoLabel(f, j) /\ nest[1].pos = Name!Ends(f[j])
  BY <1>1 DEF ReadTo
<1> QED
  BY <1>1, <1>6, <1>7, <1>8 DEF ReadTo

LEMMA NameReadKept ==
    ASSUME Name!NameAssumption, InName, NameRead, Name!Next, (nest \in Calls)'
    PROVE  NameRead'
<1>1. UNCHANGED <<message, start>> /\ phase # "crashed"
  BY DEF Name!Next, Name!EndOfMessage, Name!Zero, Name!BadPointer, Name!Follow, Name!Label,
         Name!CutLabel, Name!Return
<1>2. PICK f, g : NameWalk(f, g) /\ \E k \in Nat : ReadTo(nest, phase, f, g, k)
  BY <1>1 DEF NameRead
<1>3. PICK k \in Nat : ReadTo(nest, phase, f, g, k)
  BY <1>2
<1> DEFINE p == Name!Here
<1>4. /\ Name!Size \in Nat /\ p \in 0..Name!Size
      /\ \A q \in 0..(Name!Size - 1) : Name!At(q) \in 0..255
  BY InNameFacts
<1>5. CASE Name!EndOfMessage \/ Name!Zero \/ Name!BadPointer \/ Name!CutLabel
  <2>1. phase = "reading"
    BY <1>5 DEF Name!EndOfMessage, Name!Zero, Name!BadPointer, Name!CutLabel
  <2>2. Stop(p) /\ Name!Ends(p) \in 0..Name!Size /\ Name!Leave(Name!Ends(p))
    <3>1. CASE Name!EndOfMessage
      <4>1. p = Name!Size /\ Name!Leave(p)
        BY <1>4, <3>1 DEF Name!EndOfMessage
      <4>2. Stop(p) /\ Name!Ends(p) = p
        BY <1>4, <4>1 DEF Stop, Name!WholeLabel, Name!GoodPointer, Name!Ends
      <4> QED
        BY <1>4, <4>1, <4>2
    <3>2. CASE Name!Zero
      <4>1. p < Name!Size /\ Name!At(p) = 0 /\ Name!Leave(p + 1)
        BY <3>2 DEF Name!Zero
      <4>2. Stop(p) /\ Name!Ends(p) = p + 1
        BY <1>4, <4>1 DEF Stop, Name!WholeLabel, Name!GoodPointer, Name!Ends, Name!IsPointer
      <4> QED
        BY <1>4, <4>1, <4>2
    <3>3. CASE Name!BadPointer
      <4>1. p < Name!Size /\ Name!IsPointer(p) /\ Name!At(p) >= 192 /\ Name!At(p) \in Nat
        BY <1>4, <3>3 DEF Name!BadPointer, Name!IsPointer
      <4>2. CASE p + 1 >= Name!Size
        <5>1. Name!Leave(p)
          BY <3>3, <4>2 DEF Name!BadPointer
        <5>2. Stop(p) /\ Name!Ends(p) = p
          BY <1>4, <4>1, <4>2 DEF Stop, Name!WholeLabel, Name!GoodPointer, Name!Ends
        <5> QED
          BY <1>4, <5>1, <5>2
      <4>3. CASE ~(p + 1 >= Name!Size)
        <5>1. Name!Leave(p + 2) /\ Name!Target(p) >= Name!Size /\ p + 1 < Name!Size
          BY <1>4, <3>3, <4>3 DEF Name!BadPointer
        <5>2. Name!Target(p) \in Nat
          BY <5>1, TargetType
        <5>3. Stop(p) /\ Name!Ends(p) = p + 2
          BY <1>4, <4>1, <5>1, <5>2 DEF Stop, Name!WholeLabel, Name!GoodPointer, Name!Ends
        <5> QED
          BY <1>4, <5>1, <5>3
      <4> QED
        BY <4>2, <4>3
    <3>4. CASE Name!CutLabel
      <4>1. p < Name!Size /\ ~Name!IsPointer(p) /\ p + 1 + Name!At(p) > Name!Size /\ Name!Leave(p + 1)
        BY <3>4 DEF Name!CutLabel
      <4>2. Name!Ends(p) = p + 1 /\ ~Name!GoodPointer(p)
        BY <1>4, <4>1 DEF Name!GoodPointer, Name!Ends
      <4>3. ~Name!WholeLabel(p)
        BY <1>4, <4>1 DEF Name!WholeLabel
      <4> QED
        BY <1>4, <4>1, <4>2, <4>3 DEF Stop
    <3> QED
      BY <1>5, <3>1, <3>2, <3>3, <3>4
  <2>3. ReadTo(nest', phase', f, g, k)
    BY <1>2, <1>3, <2>1, <2>2, LeaveRead
  <2> QED
    BY <1>1, <1>2, <2>3, NameStays
<1>6. CASE Name!Label
  <2>1. ReadTo(nest', phase', f, g, k + 1) /\ k + 1 \in Nat
    BY <1>2, <1>3, <1>6, LabelRead
  <2> QED
    BY <1>1, <1>2, <2>1, NameStays
<1>7. CASE Name!Follow
  <2>1. CASE phase' = "reading"
    <3>1. ReadTo(nest', phase', f, g, k + 1) /\ k + 1 \in Nat
      BY <1>2, <1>3, <1>7, <2>1, FollowRead
    <3> QED
      BY <1>1, <1>2, <3>1, NameStays
  <2>2. CASE phase' # "reading"
    BY <1>7, <2>2 DEF Name!Follow, NameRead
  <2> QED
    BY <2>1, <2>2
<1>8. CASE Name!Return
  <2>1. nest' \in Calls
    <3>1. Calls' = Calls
      BY <1>1 DEF Calls, CallIn, Name!Size
    <3> QED
      BY <3>1
  <2>2. ReadTo(nest', phase', f, g, k)
    BY <1>2, <1>3, <1>8, <2>1, ReturnRead
  <2> QED
    BY <1>1, <1>2, <2>2, NameStays
<1> QED
  BY <1>5, <1>6, <1>7, <1>8 DEF Name!Next

LEMMA OneNameWalk ==
    ASSUME NEW f, NEW g, NEW h, NEW l, NameWalk(f, g), NameWalk(h, l)
    PROVE  f = h /\ g = l
<1> DEFINE Same == {n \in Nat : f[n] = h[n] /\ g[n] = l[n]}
<1>1. 0 \in Same
  BY DEF NameWalk
<1>2. ASSUME NEW n \in Nat, n \in Same PROVE n + 1 \in Same
  <2>1. /\ f[n + 1] = NextPiece(f[n]) /\ h[n + 1] = NextPiece(h[n])
        /\ g[n + 1] = IF Name!WholeLabel(f[n]) THEN Append(g[n], f[n]) ELSE g[n]
        /\ l[n + 1] = IF Name!WholeLabel(h[n]) THEN Append(l[n], h[n]) ELSE l[n]
    BY DEF NameWalk
  <2> QED
    BY <1>2, <2>1
<1>3. Nat \subseteq Same
  <2> HIDE DEF Same
  <2> QED
    BY <1>1, <1>2, Induction
<1>4. f = [n \in Nat |-> f[n]] /\ h = [n \in Nat |-> h[n]] /\ g = [n \in Nat |-> g[n]]
      /\ l = [n \in Nat |-> l[n]]
  BY DEF NameWalk
<1> QED
  BY <1>3, <1>4

LEMMA NameIsRead == ASSUME Name!NameAssumption, InName, NameRead PROVE Name!ReadsTheName
<1> SUFFICES ASSUME Name!Done PROVE Name!Call.name = Name!Labels[Name!Size]
                                    /\ Name!Here = Name!Ends(Name!After[Name!FirstOther])
  BY DEF Name!ReadsTheName
<1> DEFINE A == Name!After
           L == Name!Labels
<1>1. phase = "leaving" /\ Len(nest) = 1
  BY DEF Name!Done
<1>2. PICK f, g : NameWalk(f, g) /\ \E k \in Nat : ReadTo(nest, phase, f, g, k)
  BY <1>1 DEF NameRead
<1>3. NameWalk(A, L)
  BY NameWalkExists
<1>4. f = A /\ g = L
  <2> HIDE DEF A, L
  <2> QED
    BY <1>2, <1>3, OneNameWalk
<1>5. PICK k \in Nat : ReadTo(nest, phase, A, L, k)
  BY <1>2, <1>4
<1> HIDE DEF A, L
<1>6. Stop(A[k]) /\ (\A j \in 0..k - 1 : ~Stop(A[j])) /\ Gathered(nest, L[k]) /\ L[k] \in Seq(Nat)
  BY <1>1, <1>3, <1>5 DEF ReadTo, NameWalk
<1>7. Name!Size \in Nat /\ k <= Name!Size
  BY <1>3, <1>6, InNameFacts, EndsInTime
<1>8. L[Name!Size] = L[k]
  <2>1. PICK d \in Nat : k + d = Name!Size
    <3>1. Name!Size - k \in Nat /\ k + (Name!Size - k) = Name!Size
      BY <1>7
    <3> QED
      BY <3>1
  <2>2. \A n \in Nat : A[k + n] = A[k] /\ L[k + n] = L[k]
    <3>1. Stop(A[k])
      BY <1>6
    <3> QED
      BY <1>3, <3>1, NameStops
  <2> QED
    BY <2>1, <2>2
<1>9. Name!Call.name = L[k]
  <2>1. nest \in Calls /\ Name!Call = nest[1]
    BY <1>1 DEF InName, Calls, Name!Call
  <2> QED
    BY <1>1, <1>6, <2>1, GatheredAlone
<1>10. PICK j \in 0..k : FirstNoLabel(A, j) /\ nest[1].pos = Name!Ends(A[j])
  BY <1>1, <1>5 DEF ReadTo
<1>11. j \in 0..Name!Size /\ \A i \in 0..Name!Size : FirstNoLabel(A, i) => i = j
  BY <1>7, <1>10 DEF FirstNoLabel
<1>12. Name!FirstOther = j
  <2>1. Name!FirstOther = CHOOSE i \in 0..Name!Size : FirstNoLabel(A, i)
    BY DEF Name!FirstOther, FirstNoLabel, A
  <2> QED
    BY <1>10, <1>11, <2>1
<1>13. Name!Here = Name!Ends(A[Name!FirstOther])
  BY <1>1, <1>10, <1>12 DEF Name!Here, Name!Call
<1> QED
  BY <1>8, <1>9, <1>13 DEF A, L
-----------------------------------------------------------------------------
(* What the parsers hand over is what the formats say.                     *)

FormatInv ==
    /\ part = "name" => NameRead
    /\ part = "dhcp" => OptionsRead
    /\ part = "ssdp" => HeadersRead

LEMMA FormatBegins == ParsersInit => FormatInv
<1> SUFFICES ASSUME ParsersInit PROVE FormatInv
  OBVIOUS
<1>1. /\ part = "name" => Name!Init
      /\ part = "dhcp" => Dhcp!Init
      /\ part = "ssdp" => Ssdp!Init
  BY DEF ParsersInit
<1>2. ParsersInv
  BY ParsersBegin
<1> QED
  BY <1>1, <1>2, ParsersAssumption, NameReadBegins, OptionsReadBegins, HeadersReadBegins
     DEF FormatInv, ParsersInv, ParsersAssumption

\* Nothing changes what was read when no parser of a message takes a step.
LEMMA FormatStays ==
    ASSUME FormatInv, UNCHANGED <<part, messages>>
    PROVE  FormatInv'
<1>1. UNCHANGED <<part, message, phase, pos, start, nest, info, headers>>
  BY DEF messages
<1>2. CASE part = "name"
  <2>1. NameRead'
    <3>1. CASE phase = "crashed"
      BY <1>1, <3>1 DEF NameRead
    <3>2. CASE phase # "crashed"
      <4>1. PICK f, g : NameWalk(f, g) /\ \E k \in Nat : ReadTo(nest, phase, f, g, k)
        BY <1>2, <3>2 DEF FormatInv, NameRead
      <4>2. PICK k \in Nat : ReadTo(nest', phase', f, g, k)
        BY <1>1, <4>1
      <4> QED
        BY <1>1, <4>1, <4>2, NameStays
    <3> QED
      BY <3>1, <3>2
  <2> QED
    BY <1>1, <1>2, <2>1 DEF FormatInv
<1>3. CASE part = "dhcp"
  <2>1. PICK f : /\ OptionWalk(f)
                 /\ phase = "header" => pos = 0
                 /\ phase \in {"header", "options"} => \E k \in 0..pos : f[k] = pos
                 /\ phase # "refused" => Says(info, ReadYet(f))
    BY <1>3 DEF FormatInv, OptionsRead
  <2>2. OptionWalk(f)' /\ Seen(f)' = Seen(f)
    BY <1>1, <2>1, WalkStays
  <2>3. ReadYet(f)' = ReadYet(f)
    BY <1>1, <2>2 DEF ReadYet, Before
  <2>4. phase # "refused" => Says(info, ReadYet(f))'
    BY <1>1, <2>1, <2>3, SaysStays
  <2>5. OptionsRead'
    BY <1>1, <2>1, <2>2, <2>4 DEF OptionsRead
  <2> QED
    BY <1>1, <1>3, <2>5 DEF FormatInv
<1>4. CASE part = "ssdp"
  <2>1. HeadersRead
    BY <1>4 DEF FormatInv
  <2>2. LinesYet' = LinesYet /\ LinesBefore(pos)' = LinesBefore(pos)
    BY <1>1, TextStays DEF LinesYet, LinesBefore
  <2>3. HeadersSay(headers, LinesYet) => HeadersSay(headers, LinesYet)'
    BY <1>1, <2>2, HeadersSayStays
  <2>4. Ssdp!RefusedForCause' <=> Ssdp!RefusedForCause
    BY <1>1, TextStays DEF Ssdp!RefusedForCause, Ssdp!Windows, Ssdp!Unix, Ssdp!Crs, Ssdp!Size
  <2>5. HeadersRead'
    BY <1>1, <2>1, <2>2, <2>3, <2>4, TextStays DEF HeadersRead
  <2> QED
    BY <1>1, <1>4, <2>5 DEF FormatInv
<1> QED
  BY <1>1, <1>2, <1>3, <1>4 DEF FormatInv

LEMMA FormatPreserved ==
    ParsersInv /\ ParsersInv' /\ FormatInv /\ [ParsersNext]_<<part, vars, messages>> => FormatInv'
<1> SUFFICES ASSUME ParsersInv, ParsersInv', FormatInv, [ParsersNext]_<<part, vars, messages>>
             PROVE  FormatInv'
  OBVIOUS
<1>a. Name!NameAssumption /\ Dhcp!OptionsAssumption
  BY ParsersAssumption DEF ParsersAssumption
<1>1. CASE ReadName
  <2>1. part = "name" /\ part' = part /\ Name!Next
    BY <1>1 DEF ReadName
  <2>2. InName /\ NameRead /\ (nest \in Calls)'
    BY <2>1 DEF ParsersInv, FormatInv, InName, Calls
  <2>3. NameRead'
    BY <1>a, <2>1, <2>2, NameReadKept
  <2> QED
    BY <2>1, <2>3 DEF FormatInv
<1>2. CASE ReadOptions
  <2>1. part = "dhcp" /\ part' = part /\ Dhcp!Next
    BY <1>2 DEF ReadOptions
  <2>2. OptionsRead'
    BY <1>a, <2>1, OptionsReadKept DEF ParsersInv, FormatInv
  <2> QED
    BY <2>1, <2>2 DEF FormatInv
<1>3. CASE ReadHeaders
  <2>1. part = "ssdp" /\ part' = part /\ Ssdp!Next
    BY <1>3 DEF ReadHeaders
  <2>2. HeadersRead'
    BY <2>1, HeadersReadKept DEF ParsersInv, FormatInv
  <2> QED
    BY <2>1, <2>2 DEF FormatInv
<1>4. CASE ReadRecords \/ ReadAnswers
  <2>1. part \in {"records", "mdns"} /\ part' = part
    BY <1>4 DEF ReadRecords, ReadAnswers
  <2> QED
    BY <2>1 DEF FormatInv
<1>5. CASE HandOn \/ UNCHANGED <<part, vars, messages>>
  BY <1>5, FormatStays DEF HandOn
<1> QED
  BY <1>1, <1>2, <1>3, <1>4, <1>5 DEF ParsersNext, Parse

\* For messages of any length and bytes, what a parser hands over is what the format says:
\* the labels of a name behind pointers of any depth, and the place behind it
\* (parse_dns_name); answers one behind the other and no more than the header counts
\* (parse_dns_message); the first name and the first service (parse_mdns); of a repeated
\* option the last (parse_dhcp); every header up to the first empty line, when the lines
\* of the message end alike (parse_ssdp).
THEOREM AsTheFormatSaysCorrect == ParsersSpec => []AsTheFormatSays
<1>1. ParsersInv /\ FormatInv => AsTheFormatSays
  <2> SUFFICES ASSUME ParsersInv, FormatInv PROVE AsTheFormatSays
    OBVIOUS
  <2>a. Name!NameAssumption /\ Dhcp!OptionsAssumption
    BY ParsersAssumption DEF ParsersAssumption
  <2>1. part = "name" => Name!ReadsTheName
    BY <2>a, NameIsRead DEF ParsersInv, FormatInv
  <2>2. part = "records" => Records!AnswersApart
    BY DEF ParsersInv, InRecords
  <2>3. part = "mdns" => Mdns!FirstOfferTaken
    BY SummaryOfFirst DEF ParsersInv
  <2>4. part = "dhcp" => Dhcp!LastOneCounts
    BY <2>a, LastCounts DEF ParsersInv, FormatInv
  <2>5. part = "ssdp" => Ssdp!HeadersAsWritten /\ Ssdp!RefusedForCause
    BY ReadAsWritten DEF FormatInv
  <2> QED
    BY <2>1, <2>2, <2>3, <2>4, <2>5 DEF AsTheFormatSays
<1> QED
  BY <1>1, FormatBegins, FormatPreserved, ParsersInductive, PTL DEF ParsersSpec
=============================================================================
