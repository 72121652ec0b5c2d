----------------------------- MODULE Tcp_proofs -----------------------------
(***************************************************************************)
(* Proofs about Tcp, for any clients, tasks, limits and scenarios.         *)
(***************************************************************************)
EXTENDS Tcp, Iteration_proofs, SequenceTheorems, FiniteSetTheorems, TLAPS

-----------------------------------------------------------------------------
(* Sequences                                                               *)

LEMMA Removed ==
  ASSUME NEW S, NEW l \in Seq(S), NEW i \in DOMAIN l
  PROVE  /\ RemoveAt(l, i) \in Seq(S)
         /\ Len(RemoveAt(l, i)) = Len(l) - 1
         /\ \A j \in 1..Len(l) - 1 : RemoveAt(l, i)[j] = IF j < i THEN l[j] ELSE l[j + 1]
<1> DEFINE a == SubSeq(l, 1, i - 1)
           b == SubSeq(l, i + 1, Len(l))
<1>1. i \in 1..Len(l) /\ Len(l) \in Nat
  OBVIOUS
<1>2. a \in Seq(S) /\ Len(a) = i - 1 /\ \A j \in 1..i - 1 : a[j] = l[j]
  BY <1>1
<1>3. b \in Seq(S) /\ Len(b) = Len(l) - i /\ \A j \in 1..Len(l) - i : b[j] = l[i + j]
  BY <1>1
<1> HIDE DEF a, b
<1>4. /\ a \o b \in Seq(S) /\ Len(a \o b) = Len(l) - 1
      /\ \A j \in 1..Len(l) - 1 : (a \o b)[j] = IF j < i THEN l[j] ELSE l[j + 1]
  BY <1>1, <1>2, <1>3
<1>5. RemoveAt(l, i) = a \o b
  BY DEF RemoveAt, a, b
<1> QED BY <1>4, <1>5

LEMMA RemovedOnce ==
  ASSUME NEW S, NEW l \in Seq(S), NEW i \in DOMAIN l, IsInjective(l)
  PROVE  /\ RemoveAt(l, i) \in Seq(S) /\ Len(RemoveAt(l, i)) = Len(l) - 1
         /\ IsInjective(RemoveAt(l, i)) /\ Range(RemoveAt(l, i)) = Range(l) \ {l[i]}
<1> DEFINE r == RemoveAt(l, i)
<1>1. /\ r \in Seq(S) /\ Len(r) = Len(l) - 1
      /\ \A j \in 1..Len(l) - 1 : r[j] = IF j < i THEN l[j] ELSE l[j + 1]
  BY Removed
<1> HIDE DEF r
<1>2. DOMAIN l = 1..Len(l) /\ i \in 1..Len(l) /\ Len(l) \in Nat \ {0} /\ DOMAIN r = 1..Len(l) - 1
  BY <1>1
<1> DEFINE at(j) == IF j < i THEN j ELSE j + 1
<1>3. \A j \in DOMAIN r : at(j) \in DOMAIN l /\ at(j) # i /\ r[j] = l[at(j)]
  BY <1>1, <1>2
<1>4. \A j, k \in DOMAIN r : r[j] = r[k] => j = k
  <2> SUFFICES ASSUME NEW j \in DOMAIN r, NEW k \in DOMAIN r, r[j] = r[k] PROVE j = k
    OBVIOUS
  <2>1. at(j) = at(k)
    <3> HIDE DEF at
    <3> QED BY <1>3 DEF IsInjective
  <2> QED BY <1>2, <2>1
<1>5. ASSUME NEW s, NEW j \in DOMAIN r, r[j] = s
      PROVE  s # l[i] /\ \E k \in DOMAIN l : l[k] = s
  <2> HIDE DEF at
  <2> QED BY <1>3, <1>5 DEF IsInjective
<1>6. ASSUME NEW s, s # l[i], NEW j \in DOMAIN l, l[j] = s
      PROVE  \E k \in DOMAIN r : r[k] = s
  <2>1. CASE j < i
    BY <1>1, <1>2, <1>6, <2>1
  <2>2. CASE j > i
    <3>1. j - 1 \in DOMAIN r /\ r[j - 1] = l[j]
      BY <1>1, <1>2, <1>6, <2>2
    <3> QED BY <1>6, <3>1
  <2> QED BY <1>2, <1>6, <2>1, <2>2
<1>7. Range(r) = Range(l) \ {l[i]}
  BY <1>5, <1>6 DEF Range
<1>8. IsInjective(r)
  BY <1>4 DEF IsInjective
<1> QED BY <1>1, <1>7, <1>8 DEF r

-----------------------------------------------------------------------------
(* The operations on one connection                                        *)

LEMMA Numbers ==
  /\ \A k \in Nat : Wrap(k) \in Seqs
  /\ Seqs \subseteq Nat /\ Wrap(0) = 0
BY TcpAssumption DEF Wrap, Seqs

Packets == [seg : Segments, rTime : Nat]

LEMMA PcbFields ==
  ASSUME NEW p \in Pcbs
  PROVE  /\ p.state \in States /\ p.seqNum \in Seqs /\ p.sendAckNum \in Seqs
         /\ p.delayAck \in {"NoDelayAck", "FirstDelayAck", "SecondDelayAck"}
         /\ p.sendPkts \in 0..31 /\ p.txQ \in Seq(Packets) /\ p.rxQ \in Seq(Payloads)
         /\ p.rTime \in Nat /\ p.accepted \in BOOLEAN /\ p.skt \in Tasks \cup {Listener}
         /\ p.epoch \in Nat /\ p.read \in Nat /\ p.out \in Nat
BY DEF Pcbs, Packets

\* What is not the business of tcpSend.
Same(p, q) == /\ q.state = p.state /\ q.accepted = p.accepted /\ q.skt = p.skt
              /\ q.rxQ = p.rxQ /\ q.sendPkts = p.sendPkts

\* What tcpSend changes, and what it leaves alone.
LEMMA SendingTypes ==
  ASSUME NEW p \in Pcbs, NEW f \in {"SYNACK", "ACK", "DATA", "FIN", "RST"}
  PROVE  /\ Sending(p, f).pcb \in Pcbs /\ Sending(p, f).seg \subseteq Segments
         /\ Same(p, Sending(p, f).pcb)
<1> DEFINE seg == Segment(f, IF f = "SYNACK" THEN 0 ELSE p.seqNum, p.sendAckNum,
                          IF f = "DATA" THEN [e |-> p.epoch, n |-> p.out + 1] ELSE Empty)
           num == CASE f = "SYNACK" -> Wrap(1) [] f \in {"DATA", "FIN"} -> Wrap(p.seqNum + 1)
                    [] OTHER -> p.seqNum
           q   == IF f \in {"SYNACK", "DATA", "FIN"}
                  THEN Append(p.txQ, [seg |-> seg, rTime |-> 0]) ELSE p.txQ
           out == IF f = "DATA" THEN p.out + 1 ELSE p.out
<1>1. seg \in Segments
  BY PcbFields, Numbers DEF Segment, Segments, Payloads, Empty
<1>2. num \in Seqs
  <2>1. p.seqNum \in Seqs /\ p.seqNum \in Nat
    BY PcbFields DEF Seqs
  <2>2. Wrap(1) \in Seqs /\ Wrap(p.seqNum + 1) \in Seqs
    BY <2>1, Numbers
  <2> QED BY <2>1, <2>2
<1>3. q \in Seq(Packets)
  <2>1. p.txQ \in Seq(Packets) /\ [seg |-> seg, rTime |-> 0] \in Packets
    BY <1>1, PcbFields DEF Packets
  <2> HIDE DEF seg
  <2> QED BY <2>1
<1>4. out \in Nat
  BY PcbFields
<1>5. Sending(p, f) = [seg |-> {seg},
         pcb |-> [p EXCEPT !.delayAck = "NoDelayAck", !.seqNum = num, !.txQ = q, !.out = out]]
  BY DEF Sending, Pcbs
<1> HIDE DEF seg, num, q, out
<1> DEFINE r == [p EXCEPT !.delayAck = "NoDelayAck", !.seqNum = num, !.txQ = q, !.out = out]
<1>6. r \in Pcbs
  BY <1>2, <1>3, <1>4 DEF Pcbs, Packets
<1>7. Same(p, r)
  BY DEF Pcbs, Same
<1>8. Sending(p, f).seg = {seg} /\ Sending(p, f).pcb = r
  BY <1>5
<1> HIDE DEF r
<1> QED BY <1>1, <1>6, <1>7, <1>8

\* SYN-ACK, data and FIN are kept, everything else is not.
LEMMA SendingQueue ==
  ASSUME NEW p \in Pcbs, NEW f \in {"SYNACK", "ACK", "DATA", "FIN", "RST"}
  PROVE  IF f \in {"SYNACK", "DATA", "FIN"}
         THEN \E pkt \in Packets : /\ Sending(p, f).pcb.txQ = Append(p.txQ, pkt)
                                   /\ pkt.seg.f = f /\ (f = "SYNACK" => pkt.seg.seq = 0)
         ELSE Sending(p, f).pcb.txQ = p.txQ
<1> DEFINE seg == Segment(f, IF f = "SYNACK" THEN 0 ELSE p.seqNum, p.sendAckNum,
                          IF f = "DATA" THEN [e |-> p.epoch, n |-> p.out + 1] ELSE Empty)
           pkt == [seg |-> seg, rTime |-> 0]
<1>1. pkt \in Packets
  BY PcbFields, Numbers DEF Packets, Segment, Segments, Payloads, Empty
<1>2. pkt.seg.f = f /\ (f = "SYNACK" => pkt.seg.seq = 0)
  BY DEF Segment
<1>3. Sending(p, f).pcb.txQ = IF f \in {"SYNACK", "DATA", "FIN"} THEN Append(p.txQ, pkt) ELSE p.txQ
  BY DEF Sending, Pcbs
<1> HIDE DEF pkt
<1> QED BY <1>1, <1>2, <1>3

\* tcpSend puts an ACK off, or sends.
LEMMA tcpSendTypes ==
  ASSUME NEW p \in Pcbs, NEW f \in {"SYNACK", "ACK", "DATA", "FIN", "RST"}
  PROVE  /\ tcpSend(p, f).pcb \in Pcbs /\ tcpSend(p, f).seg \subseteq Segments
         /\ Same(p, tcpSend(p, f).pcb)
         /\ f \in {"ACK", "RST"} => tcpSend(p, f).pcb.txQ = p.txQ
         /\ f \notin {"ACK", "RST"} => tcpSend(p, f) = Sending(p, f)
<1>1. CASE f = "ACK" /\ p.delayAck = "NoDelayAck"
  <2> DEFINE q == [p EXCEPT !.delayAck = "FirstDelayAck"]
  <2>1. tcpSend(p, f).seg = {} /\ tcpSend(p, f).pcb = q
    BY <1>1 DEF tcpSend
  <2>2. q \in Pcbs /\ Same(p, q) /\ q.txQ = p.txQ
    BY DEF Pcbs, Same
  <2> HIDE DEF q
  <2> QED BY <1>1, <2>1, <2>2
<1>2. CASE ~(f = "ACK" /\ p.delayAck = "NoDelayAck")
  <2>1. tcpSend(p, f) = Sending(p, f)
    BY <1>2 DEF tcpSend
  <2> QED BY <2>1, SendingTypes, SendingQueue
<1> QED BY <1>1, <1>2

\* An acknowledgement frees the packets at the head of the queue that end
\* before it.
LEMMA FreedPackets ==
  ASSUME NEW p \in Pcbs, NEW ack \in Nat
  PROVE  /\ Freed(p, ack) \in 0..Len(p.txQ)
         /\ \A i \in 1..Freed(p, ack) : PacketEnd(p.txQ[i]) <= ack
         /\ Freed(p, ack) < Len(p.txQ) => PacketEnd(p.txQ[Freed(p, ack) + 1]) > ack
<1> DEFINE Kept == {i \in DOMAIN p.txQ : PacketEnd(p.txQ[i]) > ack}
           End(k) == /\ \A i \in 1..k : PacketEnd(p.txQ[i]) <= ack
                     /\ k < Len(p.txQ) => PacketEnd(p.txQ[k + 1]) > ack
<1>1. p.txQ \in Seq(Packets)
  BY PcbFields
<1>2. \A i \in DOMAIN p.txQ : PacketEnd(p.txQ[i]) \in Nat
  <2> SUFFICES ASSUME NEW i \in DOMAIN p.txQ PROVE PacketEnd(p.txQ[i]) \in Nat
    OBVIOUS
  <2>1. p.txQ[i] \in Packets
    BY <1>1
  <2>2. p.txQ[i].seg.seq \in Nat
    BY <2>1, Numbers DEF Packets, Segments
  <2>3. p.txQ[i].seg.seq + (IF p.txQ[i].seg.f = "DATA" THEN 1 ELSE 0) \in Nat
    BY <2>2
  <2>4. PacketEnd(p.txQ[i]) \in Seqs
    BY <2>3, Numbers DEF PacketEnd
  <2> QED BY <2>4, Numbers
<1>3. \E k \in 0..Len(p.txQ) : End(k)
  <2>1. CASE Kept = {}
    <3>1. End(Len(p.txQ))
      BY <1>1, <1>2, <2>1
    <3> QED BY <1>1, <3>1
  <2>2. CASE Kept # {}
    <3>1. PICK i \in Kept : \A j \in Kept : i <= j
      <4>1. Kept \in SUBSET Nat
        BY <1>1
      <4> HIDE DEF Kept
      <4> QED BY <4>1, <2>2, LeastElement
    <3>2. End(i - 1) /\ i - 1 \in 0..Len(p.txQ)
      BY <1>1, <1>2, <3>1
    <3> QED BY <3>2
  <2> QED BY <2>1, <2>2
<1>4. Freed(p, ack) = CHOOSE k \in 0..Len(p.txQ) : End(k)
  BY DEF Freed
<1> HIDE DEF End
<1>5. Freed(p, ack) \in 0..Len(p.txQ) /\ End(Freed(p, ack))
  BY <1>3, <1>4
<1> QED BY <1>5 DEF End

LEMMA FiveBits ==
  ASSUME NEW a \in 0..31, NEW k \in Nat
  PROVE  (a + 32 - (k % 32)) % 32 \in 0..31
<1>1. PICK b \in 0..31 : b = k % 32
  OBVIOUS
<1>2. a + 32 - b \in Nat
  OBVIOUS
<1>3. (a + 32 - b) % 32 \in 0..31
  BY <1>2
<1> QED BY <1>1, <1>3

LEMMA tcpDequeueTypes ==
  ASSUME NEW p \in Pcbs, NEW ack \in Nat, NEW q, q = tcpDequeue(p, ack)
  PROVE  /\ q \in Pcbs
         /\ q.state = p.state /\ q.accepted = p.accepted /\ q.skt = p.skt /\ q.rxQ = p.rxQ
         /\ q.txQ = SubSeq(p.txQ, Freed(p, ack) + 1, Len(p.txQ))
         /\ q.sendPkts = IF Freed(p, ack) > 0 /\ q.txQ = <<>> THEN 0
                         ELSE (p.sendPkts + 32 - (Freed(p, ack) % 32)) % 32
<1> DEFINE k == Freed(p, ack)
           l == SubSeq(p.txQ, k + 1, Len(p.txQ))
           n == IF k > 0 /\ l = <<>> THEN 0 ELSE (p.sendPkts + 32 - (k % 32)) % 32
<1>1. k \in 0..Len(p.txQ) /\ p.txQ \in Seq(Packets) /\ p.sendPkts \in 0..31
  BY FreedPackets, PcbFields
<1>2. l \in Seq(Packets)
  <2> HIDE DEF k
  <2> QED BY <1>1
<1>3. n \in 0..31
  <2> HIDE DEF k, l
  <2>1. k \in Nat
    BY <1>1
  <2>2. (p.sendPkts + 32 - (k % 32)) % 32 \in 0..31
    BY <1>1, <2>1, FiveBits
  <2> DEFINE m == (p.sendPkts + 32 - (k % 32)) % 32
  <2>3. n = IF k > 0 /\ l = <<>> THEN 0 ELSE m
    OBVIOUS
  <2> HIDE DEF m, n
  <2>4. m \in 0..31
    BY <2>2 DEF m
  <2> QED BY <2>3, <2>4
<1>4. q = [p EXCEPT !.txQ = l, !.sendPkts = n]
  BY DEF tcpDequeue, Pcbs
<1>5. k = Freed(p, ack) /\ l = SubSeq(p.txQ, k + 1, Len(p.txQ))
      /\ n = IF k > 0 /\ l = <<>> THEN 0 ELSE (p.sendPkts + 32 - (k % 32)) % 32
  OBVIOUS
<1> HIDE DEF k, l, n
<1>6. q \in Pcbs /\ q.state = p.state /\ q.accepted = p.accepted /\ q.skt = p.skt /\ q.rxQ = p.rxQ
      /\ q.txQ = l /\ q.sendPkts = n
  BY <1>2, <1>3, <1>4 DEF Pcbs, Packets
<1> QED BY <1>5, <1>6

\* Other assignments to a connection.
LEMMA PcbUpdates ==
  ASSUME NEW p \in Pcbs
  PROVE  /\ \A n \in Seqs : LET q == [p EXCEPT !.sendAckNum = n]
                            IN  q \in Pcbs /\ Same(p, q) /\ q.txQ = p.txQ
         /\ \A n \in Seqs : LET q == [p EXCEPT !.sendAckNum = n, !.delayAck = "FirstDelayAck"]
                            IN  q \in Pcbs /\ Same(p, q) /\ q.txQ = p.txQ
         /\ \A n \in Seqs, d \in Payloads :
              LET q == [p EXCEPT !.sendAckNum = n, !.rxQ = Append(@, d)]
              IN  /\ q \in Pcbs /\ q.state = p.state /\ q.accepted = p.accepted /\ q.skt = p.skt
                  /\ q.sendPkts = p.sendPkts /\ q.txQ = p.txQ /\ q.rxQ = Append(p.rxQ, d)
         /\ \A st \in States :
              LET q == [p EXCEPT !.state = st]
              IN  /\ q \in Pcbs /\ q.state = st /\ q.accepted = p.accepted /\ q.skt = p.skt
                  /\ q.sendPkts = p.sendPkts /\ q.txQ = p.txQ /\ q.rxQ = p.rxQ
<1>1. ASSUME NEW n \in Seqs
      PROVE  LET q == [p EXCEPT !.sendAckNum = n]
             IN  q \in Pcbs /\ Same(p, q) /\ q.txQ = p.txQ
  BY DEF Pcbs, Same
<1>2. ASSUME NEW n \in Seqs
      PROVE  LET q == [p EXCEPT !.sendAckNum = n, !.delayAck = "FirstDelayAck"]
             IN  q \in Pcbs /\ Same(p, q) /\ q.txQ = p.txQ
  BY DEF Pcbs, Same
<1>3. ASSUME NEW n \in Seqs, NEW d \in Payloads
      PROVE  LET q == [p EXCEPT !.sendAckNum = n, !.rxQ = Append(@, d)]
             IN  /\ q \in Pcbs /\ q.state = p.state /\ q.accepted = p.accepted /\ q.skt = p.skt
                 /\ q.sendPkts = p.sendPkts /\ q.txQ = p.txQ /\ q.rxQ = Append(p.rxQ, d)
  <2>1. Append(p.rxQ, d) \in Seq(Payloads)
    BY PcbFields
  <2>2. \A r \in Seq(Payloads) : [p EXCEPT !.sendAckNum = n, !.rxQ = r] \in Pcbs
    BY DEF Pcbs
  <2>3. [p EXCEPT !.sendAckNum = n, !.rxQ = Append(@, d)]
        = [p EXCEPT !.sendAckNum = n, !.rxQ = Append(p.rxQ, d)]
    BY DEF Pcbs
  <2> QED BY <2>1, <2>2, <2>3 DEF Pcbs
<1>4. ASSUME NEW st \in States
      PROVE  LET q == [p EXCEPT !.state = st]
             IN  /\ q \in Pcbs /\ q.state = st /\ q.accepted = p.accepted /\ q.skt = p.skt
                 /\ q.sendPkts = p.sendPkts /\ q.txQ = p.txQ /\ q.rxQ = p.rxQ
  BY DEF Pcbs
<1> QED BY <1>1, <1>2, <1>3, <1>4

-----------------------------------------------------------------------------
(* The window                                                              *)

IsData(pkt) == pkt.seg.f = "DATA"

\* What the queue of a connection holds, which makes sendPkts the number of its
\* data packets: SYN-ACKs before the handshake is complete, data after it, and
\* one FIN among them when the client has closed.
Window(p) ==
    /\ p.state = "SYN_RCVD" =>
         /\ ~p.accepted /\ p.sendPkts = 0
         /\ \A i \in DOMAIN p.txQ : p.txQ[i].seg.f = "SYNACK" /\ p.txQ[i].seg.seq = 0
    /\ p.state = "ESTABLISHED" =>
         /\ p.sendPkts = Len(p.txQ) /\ \A i \in DOMAIN p.txQ : IsData(p.txQ[i])
         /\ ~p.accepted => p.txQ = <<>>
    /\ p.state \in {"LAST_ACK", "TIME_WAIT"} =>
         \E n \in DOMAIN p.txQ : /\ ~IsData(p.txQ[n])
                                 /\ \A i \in DOMAIN p.txQ \ {n} : IsData(p.txQ[i])
                                 /\ p.sendPkts = Len(p.txQ) - 1
    /\ p.state # "CLOSED"

\* The window depends on these fields only.
LEMMA WindowSame ==
  ASSUME NEW p, NEW q, Window(p),
         q.state = p.state, q.accepted = p.accepted, q.sendPkts = p.sendPkts, q.txQ = p.txQ
  PROVE  Window(q)
BY DEF Window

\* Another SYN-ACK is queued.
LEMMA WindowSynAck ==
  ASSUME NEW p \in Pcbs, p.state = "SYN_RCVD", Window(p)
  PROVE  Window(Sending(p, "SYNACK").pcb)
<1> DEFINE q == Sending(p, "SYNACK").pcb
<1>1. PICK pkt \in Packets : q.txQ = Append(p.txQ, pkt) /\ pkt.seg.f = "SYNACK" /\ pkt.seg.seq = 0
  BY SendingQueue
<1>2. q.state = "SYN_RCVD" /\ q.accepted = p.accepted /\ q.sendPkts = p.sendPkts
  BY SendingTypes DEF Same
<1>3. p.txQ \in Seq(Packets)
  BY PcbFields
<1> HIDE DEF q
<1>4. \A i \in DOMAIN q.txQ : q.txQ[i].seg.f = "SYNACK" /\ q.txQ[i].seg.seq = 0
  BY <1>1, <1>3 DEF Window
<1> QED BY <1>2, <1>4 DEF Window, q

\* The handshake is complete: every SYN-ACK is freed.
LEMMA WindowOpens ==
  ASSUME NEW p \in Pcbs, p.state = "SYN_RCVD", Window(p), NEW ack \in Nat,
         NEW q, q.state = "ESTABLISHED", q.accepted = p.accepted,
         q.txQ = tcpDequeue(p, ack).txQ, q.sendPkts = tcpDequeue(p, ack).sendPkts
  PROVE  Window(q) /\ q.sendPkts = 0
<1> DEFINE k == Freed(p, ack)
<1>1. k \in 0..Len(p.txQ) /\ (k < Len(p.txQ) => PacketEnd(p.txQ[k + 1]) > ack)
  BY FreedPackets
<1>2. /\ q.txQ = SubSeq(p.txQ, k + 1, Len(p.txQ))
      /\ q.sendPkts = IF k > 0 /\ q.txQ = <<>> THEN 0 ELSE (p.sendPkts + 32 - (k % 32)) % 32
  BY tcpDequeueTypes
<1>3. p.txQ \in Seq(Packets) /\ p.sendPkts = 0
  BY PcbFields DEF Window
<1> HIDE DEF k
<1>4. k = Len(p.txQ)
  <2> SUFFICES ASSUME k < Len(p.txQ) PROVE FALSE
    BY <1>1
  <2>1. k + 1 \in DOMAIN p.txQ
    BY <1>1, <1>3
  <2>2. p.txQ[k + 1].seg.f = "SYNACK" /\ p.txQ[k + 1].seg.seq = 0
    BY <2>1 DEF Window
  <2>3. PacketEnd(p.txQ[k + 1]) = 0
    BY <2>2, Numbers DEF PacketEnd
  <2> QED BY <1>1, <2>3
<1>5. q.txQ = <<>>
  BY <1>2, <1>3, <1>4
<1>6. q.sendPkts = 0
  <2>1. (0 + 32 - (0 % 32)) % 32 = 0
    OBVIOUS
  <2>2. CASE k = 0
    BY <1>2, <1>3, <2>1, <2>2
  <2>3. CASE k > 0
    BY <1>2, <1>5, <2>3
  <2> QED BY <1>1, <1>3, <2>2, <2>3
<1>7. Len(q.txQ) = 0 /\ DOMAIN q.txQ = {}
  BY <1>5
<1> QED BY <1>5, <1>6, <1>7 DEF Window

\* An acknowledgement of an established connection.
LEMMA WindowAcked ==
  ASSUME NEW p \in Pcbs, p.state = "ESTABLISHED", Window(p), NEW ack \in Nat,
         NEW q, q = tcpDequeue(p, ack)
  PROVE  Window(q) /\ q.sendPkts <= p.sendPkts
<1> DEFINE k == Freed(p, ack)
<1>1. k \in 0..Len(p.txQ)
  BY FreedPackets
<1>2. /\ q.txQ = SubSeq(p.txQ, k + 1, Len(p.txQ))
      /\ q.sendPkts = IF k > 0 /\ q.txQ = <<>> THEN 0 ELSE (p.sendPkts + 32 - (k % 32)) % 32
      /\ q.state = "ESTABLISHED" /\ q.accepted = p.accepted
  BY tcpDequeueTypes
<1>3. p.txQ \in Seq(Packets) /\ p.sendPkts = Len(p.txQ) /\ p.sendPkts \in 0..31
  BY PcbFields DEF Window
<1> HIDE DEF k
<1>4. Len(q.txQ) = Len(p.txQ) - k /\ \A i \in DOMAIN q.txQ : k + i \in DOMAIN p.txQ /\ q.txQ[i] = p.txQ[k + i]
  BY <1>1, <1>2, <1>3
<1>5. q.sendPkts = Len(p.txQ) - k
  <2>1. CASE k > 0 /\ q.txQ = <<>>
    BY <1>1, <1>2, <1>3, <1>4, <2>1
  <2>2. CASE ~(k > 0 /\ q.txQ = <<>>)
    <3>1. k \in 0..31 /\ k % 32 = k
      <4>1. k \in 0..31
        <5>1. Len(p.txQ) \in 0..31
          BY <1>3
        <5>2. \A n \in 0..31 : 0..n \subseteq 0..31
          OBVIOUS
        <5> QED BY <1>1, <5>1, <5>2
      <4>2. \A a \in 0..31 : a % 32 = a
        OBVIOUS
      <4> QED BY <4>1, <4>2
    <3>2. \A a, b \in 0..31 : b <= a => (a + 32 - b) % 32 = a - b
      OBVIOUS
    <3> QED BY <1>1, <1>2, <1>3, <2>2, <3>1, <3>2
  <2> QED BY <2>1, <2>2
<1>6. \A i \in DOMAIN q.txQ : IsData(q.txQ[i])
  BY <1>4 DEF Window
<1>7. ~p.accepted => q.txQ = <<>>
  <2> SUFFICES ASSUME ~p.accepted PROVE q.txQ = <<>>
    OBVIOUS
  <2>1. p.txQ = <<>>
    BY DEF Window
  <2> QED BY <1>1, <1>2, <2>1
<1>8. q.sendPkts = Len(q.txQ) /\ q.sendPkts <= p.sendPkts
  <2>1. Len(p.txQ) \in Nat
    BY <1>3
  <2> QED BY <1>1, <1>3, <1>4, <1>5, <2>1
<1>9. Window(q)
  BY <1>2, <1>6, <1>7, <1>8 DEF Window
<1> QED BY <1>8, <1>9

\* The client's FIN is answered with a FIN.
LEMMA WindowFin ==
  ASSUME NEW p \in Pcbs, p.state = "ESTABLISHED", Window(p),
         NEW q, q.state = "LAST_ACK", q.txQ = Sending(p, "FIN").pcb.txQ, q.sendPkts = p.sendPkts
  PROVE  Window(q)
<1>1. PICK pkt \in Packets : q.txQ = Append(p.txQ, pkt) /\ pkt.seg.f = "FIN"
  BY SendingQueue
<1>2. p.txQ \in Seq(Packets) /\ p.sendPkts = Len(p.txQ) /\ \A i \in DOMAIN p.txQ : IsData(p.txQ[i])
  BY PcbFields DEF Window
<1> DEFINE n == Len(p.txQ) + 1
<1>3. /\ n \in DOMAIN q.txQ /\ ~IsData(q.txQ[n]) /\ q.sendPkts = Len(q.txQ) - 1
      /\ \A i \in DOMAIN q.txQ \ {n} : i \in DOMAIN p.txQ /\ q.txQ[i] = p.txQ[i]
  BY <1>1, <1>2 DEF IsData
<1> QED BY <1>2, <1>3 DEF Window

\* A packet of data is queued and counted.
LEMMA WindowData ==
  ASSUME NEW p \in Pcbs, p.state \in {"ESTABLISHED", "LAST_ACK", "TIME_WAIT"}, p.accepted, Window(p),
         NEW q, q.state = p.state, q.accepted = p.accepted, q.sendPkts = p.sendPkts + 1,
         q.txQ = Sending(p, "DATA").pcb.txQ
  PROVE  Window(q)
<1>1. PICK pkt \in Packets : q.txQ = Append(p.txQ, pkt) /\ IsData(pkt)
  BY SendingQueue DEF IsData
<1>2. p.txQ \in Seq(Packets)
  BY PcbFields
<1>3. /\ Len(q.txQ) = Len(p.txQ) + 1 /\ DOMAIN q.txQ = DOMAIN p.txQ \cup {Len(p.txQ) + 1}
      /\ \A i \in DOMAIN p.txQ : q.txQ[i] = p.txQ[i]
      /\ IsData(q.txQ[Len(p.txQ) + 1]) /\ Len(p.txQ) \in Nat
  BY <1>1, <1>2
<1>4. CASE p.state = "ESTABLISHED"
  <2>1. \A i \in DOMAIN q.txQ : IsData(q.txQ[i])
    BY <1>3, <1>4 DEF Window
  <2> QED BY <1>3, <1>4, <2>1 DEF Window
<1>5. CASE p.state # "ESTABLISHED"
  <2>1. PICK n \in DOMAIN p.txQ : /\ ~IsData(p.txQ[n]) /\ p.sendPkts = Len(p.txQ) - 1
                                  /\ \A i \in DOMAIN p.txQ \ {n} : IsData(p.txQ[i])
    BY <1>5 DEF Window
  <2>2. /\ n \in DOMAIN q.txQ /\ ~IsData(q.txQ[n]) /\ q.sendPkts = Len(q.txQ) - 1
        /\ \A i \in DOMAIN q.txQ \ {n} : IsData(q.txQ[i])
    BY <1>3, <2>1
  <2> QED BY <1>5, <2>2 DEF Window
<1> QED BY <1>4, <1>5

-----------------------------------------------------------------------------
(* The list of connections                                                 *)

\* The list names the open connections once each, and the counter is its
\* length, which fits into three bits.
Listed ==
    /\ IsInjective(clientList) /\ Range(clientList) = Open
    /\ curConnections = Len(clientList) /\ Len(clientList) <= plan.maxConnections

LEMMA EmptyPcb == NoPcb \in Pcbs
BY Numbers DEF NoPcb, Pcbs, States

\* removePCB finds a connection to free.
LEMMA VictimListed ==
  ASSUME TypeOK, Listed, NEW c \in Clients, pcb[c].state # "NONE"
  PROVE  /\ VictimAt(c) \in DOMAIN clientList /\ Victim(c) \in Clients
         /\ Port[Victim(c)] = Port[c] /\ pcb[Victim(c)].state # "NONE"
<1> DEFINE Same_(i) == Port[clientList[i]] = Port[c]
           Found == {i \in DOMAIN clientList : Same_(i)}
<1>1. clientList \in Seq(Clients)
  BY DEF TypeOK
<1>2. Found # {} /\ Found \in SUBSET Nat
  <2>1. c \in Range(clientList)
    BY DEF Listed, Open
  <2> QED BY <1>1, <2>1 DEF Range
<1>3. PICK i \in Found : \A j \in Found : i <= j
  <2> HIDE DEF Found
  <2> QED BY <1>2, LeastElement
<1>4. \A j \in 1..i - 1 : ~Same_(j)
  <2> HIDE DEF Same_
  <2> QED BY <1>1, <1>3
<1>5. VictimAt(c) = CHOOSE k \in DOMAIN clientList : Same_(k) /\ \A j \in 1..k - 1 : ~Same_(j)
  BY DEF VictimAt
<1>6. VictimAt(c) \in DOMAIN clientList /\ Same_(VictimAt(c))
  <2> HIDE DEF Same_
  <2> QED BY <1>3, <1>4, <1>5
<1>7. Victim(c) \in Clients /\ pcb[Victim(c)].state # "NONE"
  <2>1. Victim(c) \in Range(clientList)
    BY <1>6 DEF Victim, Range
  <2> QED BY <2>1 DEF Listed, Open
<1> QED BY <1>6, <1>7 DEF Victim

LEMMA ClosedPcb ==
  ASSUME NEW p \in Pcbs, NEW q, q = [p EXCEPT !.txQ = <<>>, !.rxQ = <<>>, !.state = "CLOSED"]
  PROVE  q \in Pcbs /\ q.state = "CLOSED"
<1>1. <<>> \in Seq(Packets) /\ <<>> \in Seq(Payloads) /\ "CLOSED" \in States
  BY DEF States
<1>2. Pcbs = [state : States, seqNum : Seqs, sendAckNum : Seqs,
              delayAck : {"NoDelayAck", "FirstDelayAck", "SecondDelayAck"},
              sendPkts : 0..31, txQ : Seq(Packets), rxQ : Seq(Payloads), rTime : Nat,
              accepted : BOOLEAN, skt : Tasks \cup {Listener}, epoch : Nat, read : Nat, out : Nat]
  BY DEF Pcbs, Packets
<1> QED BY <1>1, <1>2

LEMMA UnlinkKeeps ==
  ASSUME TypeOK, Listed, NEW c \in Open, NEW pcbs \in [Clients -> Pcbs],
         \A d \in Clients : pcbs[d].state = "NONE" <=> pcb[d].state = "NONE",
         Unlink(pcbs, c), plan' = plan
  PROVE  /\ pcb' \in [Clients -> Pcbs] /\ clientList' \in Seq(Clients) /\ curConnections' \in 0..7
         /\ Listed'
<1> DEFINE v == Victim(c)
           closed == [pcbs[c] EXCEPT !.txQ = <<>>, !.rxQ = <<>>, !.state = "CLOSED"]
<1>1. VictimAt(c) \in DOMAIN clientList /\ clientList[VictimAt(c)] = v /\ v \in Clients /\ c \in Clients
  BY VictimListed DEF Victim, Open
<1>2. closed \in Pcbs /\ closed.state = "CLOSED"
  BY <1>1, ClosedPcb
<1>3. pcb' = [pcbs EXCEPT ![c] = closed, ![v] = NoPcb]
  BY DEF Unlink
<1> HIDE DEF closed, v
<1>4. pcb' \in [Clients -> Pcbs]
  BY <1>2, <1>3, EmptyPcb
<1>5. Open' = Open \ {v}
  <2>1. NoPcb.state = "NONE"
    BY DEF NoPcb
  <2>2. \A d \in Clients : pcb'[d].state = "NONE" <=> pcb[d].state = "NONE" \/ d = v
    BY <1>1, <1>2, <1>3, <2>1 DEF Open
  <2> QED BY <2>2 DEF Open
<1>6. clientList \in Seq(Clients) /\ IsInjective(clientList)
  BY DEF TypeOK, Listed
<1>7. clientList' = RemoveAt(clientList, VictimAt(c)) /\ curConnections' = (curConnections + 7) % 8
  BY DEF Unlink
<1>8. /\ clientList' \in Seq(Clients) /\ Len(clientList') = Len(clientList) - 1
      /\ IsInjective(clientList') /\ Range(clientList') = Range(clientList) \ {v}
  BY <1>1, <1>6, <1>7, RemovedOnce
<1>9. curConnections = Len(clientList) /\ Len(clientList) <= plan.maxConnections
  BY DEF Listed
<1>10. plan.maxConnections \in 1..7
  BY DEF TypeOK, Plan
<1>11. Len(clientList) \in 1..7
  <2>1. Len(clientList) \in Nat /\ Len(clientList) # 0
    BY <1>1, <1>6
  <2>2. \A n \in Nat, m \in 1..7 : n # 0 /\ n <= m => n \in 1..7
    OBVIOUS
  <2> QED BY <2>1, <2>2, <1>9, <1>10
<1>12. curConnections' = Len(clientList') /\ Len(clientList') \in 0..7 /\ Len(clientList') <= plan.maxConnections
  <2>1. \A n \in 1..7 : (n + 7) % 8 = n - 1 /\ n - 1 \in 0..7
    OBVIOUS
  <2>2. \A n \in 1..7, m \in 1..7 : n <= m => n - 1 <= m
    OBVIOUS
  <2> QED BY <2>1, <2>2, <1>7, <1>8, <1>9, <1>10, <1>11
<1>13. Listed'
  BY <1>5, <1>8, <1>12 DEF Listed
<1> QED BY <1>4, <1>8, <1>12, <1>13

-----------------------------------------------------------------------------
(* Type correctness                                                        *)

\* A client that is not closed has a sequence number to start from.
PeersStarted ==
    \A c \in Clients : peer[c].e \in 0..MaxEpochs /\ (peer[c].st # "closed" => peer[c].e # 0)

Inv == TypeOK /\ PeersStarted /\ Listed

LEMMA TransmitTypes ==
  ASSUME TypeOK, NEW c \in Clients, NEW S \in SUBSET Segments, Transmit(c, S)
  PROVE  toPeer' \subseteq Clients \X Segments
BY DEF Transmit, TypeOK

LEMMA SktTypes ==
  ASSUME NEW k \in Skts
  PROVE  /\ k.at \in Points /\ k.pcb \in Clients \cup {None}
         /\ k.rxSem \in Nat /\ k.txSem \in Nat /\ k.count \in Nat
         /\ \A a \in Points : [k EXCEPT !.at = a] \in Skts
         /\ \A r \in Nat : [k EXCEPT !.rxSem = r] \in Skts
         /\ \A t \in Nat : [k EXCEPT !.txSem = t] \in Skts
         /\ \A n \in Nat : [k EXCEPT !.count = n] \in Skts
         /\ \A r, t \in Nat : [k EXCEPT !.rxSem = r, !.txSem = t] \in Skts
         /\ \A r \in Nat : [k EXCEPT !.pcb = None, !.rxSem = r] \in Skts
BY DEF Skts

LEMMA PostTypes ==
  ASSUME TypeOK, NEW s \in Tasks \cup {Listener}, NEW rx \in Nat, NEW tx \in Nat, Post(s, rx, tx)
  PROVE  listenSem' \in Nat /\ skt' \in [Tasks -> Skts]
<1>1. CASE s = Listener
  BY <1>1 DEF Post, TypeOK
<1>2. CASE s # Listener
  <2>1. skt[s] \in Skts
    BY <1>2 DEF TypeOK
  <2>2. [skt[s] EXCEPT !.rxSem = @ + rx, !.txSem = @ + tx] \in Skts
    <3>1. skt[s].rxSem \in Nat /\ skt[s].txSem \in Nat
      BY <2>1, SktTypes
    <3>2. skt[s].rxSem + rx \in Nat /\ skt[s].txSem + tx \in Nat
      BY <3>1
    <3> QED BY <2>1, <3>2, SktTypes
  <2>3. skt' = [skt EXCEPT ![s] = [skt[s] EXCEPT !.rxSem = @ + rx, !.txSem = @ + tx]] /\ listenSem' = listenSem
    BY <1>2 DEF Post, TypeOK
  <2> QED BY <1>2, <2>2, <2>3 DEF TypeOK
<1> QED BY <1>1, <1>2

LEMMA OrphanTypes ==
  ASSUME NEW p \in Pcbs, NEW skts \in [Tasks -> Skts]
  PROVE  Orphan(p, skts) \in [Tasks -> Skts]
<1>1. CASE p.accepted /\ p.skt \in Tasks
  <2>1. skts[p.skt] \in Skts
    BY <1>1
  <2>2. [skts[p.skt] EXCEPT !.pcb = None, !.rxSem = @ + 1] \in Skts
    <3>1. skts[p.skt].rxSem \in Nat
      BY <2>1, SktTypes
    <3>2. skts[p.skt].rxSem + 1 \in Nat
      BY <3>1
    <3> QED BY <2>1, <3>2, SktTypes
  <2>3. Orphan(p, skts) = [skts EXCEPT ![p.skt] = [skts[p.skt] EXCEPT !.pcb = None, !.rxSem = @ + 1]]
    BY <1>1 DEF Orphan
  <2> QED BY <1>1, <2>2, <2>3
<1>2. CASE p.accepted /\ p.skt \notin Tasks
  BY <1>2 DEF Orphan
<1>3. CASE ~p.accepted
  BY <1>3 DEF Orphan
<1> QED BY <1>1, <1>2, <1>3

\* A connection goes on, as p.
GoesOn(c, p, rx, tx) ==
    /\ p.state # "NONE" /\ p.accepted = pcb[c].accepted /\ p.skt = pcb[c].skt
    /\ pcb' = [pcb EXCEPT ![c] = p] /\ UNCHANGED <<plan, peer, clientList, curConnections>>
    /\ Post(p.skt, rx, tx) \/ (UNCHANGED sktVars /\ rx = 0)
    /\ Len(p.rxQ) <= Len(pcb[c].rxQ) + rx
    /\ p.state = "FIN_WAIT_1" <=> pcb[c].state = "FIN_WAIT_1"
    /\ Window(pcb[c]) =>
         Window(p) /\ (p.state # "FIN_WAIT_1" => p.sendPkts <= pcb[c].sendPkts)

\* A connection is made, as p.
Comes(c, p) ==
    /\ pcb[c].state = "NONE" /\ curConnections < plan.maxConnections
    /\ p.state = "SYN_RCVD" /\ ~p.accepted /\ p.skt = Listener /\ Window(p)
    /\ pcb' = [pcb EXCEPT ![c] = p]
    /\ clientList' = Append(clientList, c) /\ curConnections' = (curConnections + 1) % 8
    /\ listenSem' = listenSem + 1 /\ UNCHANGED <<plan, peer, skt>>

SegmentsInFlight == toFw' \subseteq Clients \X Segments /\ toPeer' \subseteq Clients \X Segments

LEMMA GoesOnTypes ==
  ASSUME Inv, NEW c \in Open, NEW p \in Pcbs, NEW rx \in Nat, NEW tx \in Nat,
         GoesOn(c, p, rx, tx), SegmentsInFlight
  PROVE  Inv'
<1>1. c \in Clients /\ pcb[c].state # "NONE"
  BY DEF Open
<1>2. pcb' = [pcb EXCEPT ![c] = p] /\ UNCHANGED <<plan, peer, clientList, curConnections>> /\ p.state # "NONE"
  BY DEF GoesOn
<1>3. listenSem' \in Nat /\ skt' \in [Tasks -> Skts]
  <2>1. p.skt \in Tasks \cup {Listener}
    BY PcbFields
  <2>2. CASE Post(p.skt, rx, tx)
    BY <2>1, <2>2, PostTypes DEF Inv
  <2>3. CASE UNCHANGED sktVars
    BY <2>3 DEF Inv, TypeOK, sktVars
  <2> QED BY <2>2, <2>3 DEF GoesOn
<1>4. pcb' \in [Clients -> Pcbs]
  BY <1>2 DEF Inv, TypeOK
<1>5. Open' = Open
  BY <1>1, <1>2 DEF Open, Inv, TypeOK
<1>6. TypeOK'
  BY <1>2, <1>3, <1>4 DEF Inv, TypeOK, SegmentsInFlight
<1>7. Listed' /\ PeersStarted'
  BY <1>2, <1>5 DEF Inv, Listed, PeersStarted
<1> QED BY <1>6, <1>7 DEF Inv

LEMMA ComesTypes ==
  ASSUME Inv, NEW c \in Clients, NEW p \in Pcbs, Comes(c, p), SegmentsInFlight
  PROVE  Inv'
<1>1. /\ pcb' = [pcb EXCEPT ![c] = p] /\ UNCHANGED <<plan, peer, skt>> /\ p.state # "NONE"
      /\ pcb[c].state = "NONE"
      /\ clientList' = Append(clientList, c) /\ curConnections' = (curConnections + 1) % 8
      /\ listenSem' = listenSem + 1 /\ curConnections < plan.maxConnections
  BY DEF Comes
<1>2. pcb' \in [Clients -> Pcbs] /\ clientList \in Seq(Clients) /\ listenSem' \in Nat
  BY <1>1 DEF Inv, TypeOK
<1>3. Open' = Open \cup {c} /\ c \notin Open
  BY <1>1 DEF Open, Inv, TypeOK
<1>4. /\ clientList' \in Seq(Clients) /\ Len(clientList') = Len(clientList) + 1
      /\ DOMAIN clientList' = DOMAIN clientList \cup {Len(clientList) + 1}
      /\ clientList'[Len(clientList) + 1] = c
      /\ \A i \in DOMAIN clientList : clientList'[i] = clientList[i]
  BY <1>1, <1>2
<1>5. Range(clientList') = Open \cup {c}
  <2>1. Range(clientList) = Open
    BY DEF Inv, Listed
  <2> QED BY <1>4, <2>1 DEF Range
<1>6. IsInjective(clientList')
  <2>1. IsInjective(clientList) /\ c \notin Range(clientList)
    BY <1>3 DEF Inv, Listed
  <2> QED BY <1>4, <2>1 DEF IsInjective, Range
<1>7. curConnections = Len(clientList) /\ plan.maxConnections \in 1..7 /\ Len(clientList) \in Nat
  BY <1>2 DEF Inv, Listed, TypeOK, Plan
<1>8. curConnections' = Len(clientList') /\ curConnections' \in 0..7 /\ Len(clientList') <= plan'.maxConnections
  <2>1. \A n \in Nat, k \in 1..7 : n < k => (n + 1) % 8 = n + 1 /\ n + 1 <= k /\ n + 1 \in 0..7
    OBVIOUS
  <2> QED BY <1>1, <1>4, <1>7, <2>1
<1>9. TypeOK'
  BY <1>1, <1>2, <1>4, <1>8 DEF Inv, TypeOK, SegmentsInFlight
<1>10. Listed' /\ PeersStarted'
  BY <1>1, <1>3, <1>5, <1>6, <1>8 DEF Inv, Listed, PeersStarted
<1> QED BY <1>9, <1>10 DEF Inv

\* A connection is removed.
LEMMA RemovalTypes ==
  ASSUME Inv, NEW c \in Open, NEW pcbs \in [Clients -> Pcbs],
         \A d \in Clients : pcbs[d].state = "NONE" <=> pcb[d].state = "NONE",
         Unlink(pcbs, c), Tell(pcb[Victim(c)]), skt' \in [Tasks -> Skts],
         SegmentsInFlight, UNCHANGED <<plan, peer>>
  PROVE  Inv'
<1>1. /\ pcb' \in [Clients -> Pcbs] /\ clientList' \in Seq(Clients) /\ curConnections' \in 0..7
      /\ Listed'
  BY UnlinkKeeps DEF Inv
<1>2. listenSem' \in Nat
  BY DEF Tell, Inv, TypeOK
<1> QED BY <1>1, <1>2 DEF Inv, TypeOK, PeersStarted, SegmentsInFlight

LEMMA removePCBTypes ==
  ASSUME Inv, NEW c \in Open, NEW pcbs \in [Clients -> Pcbs],
         \A d \in Clients : pcbs[d].state = "NONE" <=> pcb[d].state = "NONE",
         removePCB(pcbs, c),
         SegmentsInFlight, UNCHANGED <<plan, peer>>
  PROVE  Inv'
<1>1. pcb[Victim(c)] \in Pcbs
  BY VictimListed DEF Inv, TypeOK, Open
<1>2. skt' \in [Tasks -> Skts]
  BY <1>1, OrphanTypes DEF removePCB, Inv, TypeOK
<1> QED BY <1>2, RemovalTypes DEF removePCB

-----------------------------------------------------------------------------
(* The steps                                                               *)

\* What a received segment does: nothing to the connections, or it makes,
\* moves or removes one.
InputStep ==
    /\ SegmentsInFlight /\ UNCHANGED <<plan, peer>>
    /\ \/ UNCHANGED <<pcbVars, sktVars>>
       \/ \E c \in Clients, p \in Pcbs : Comes(c, p)
       \/ \E c \in Open, p \in Pcbs, rx \in Nat, tx \in Nat : GoesOn(c, p, rx, tx)
       \/ \E c \in Open : removePCB(pcb, c)

LEMMA SegmentTypes ==
  ASSUME NEW m \in Segments
  PROVE  /\ m.f \in {"SYN", "SYNACK", "ACK", "DATA", "FIN", "RST"}
         /\ m.seq \in Nat /\ m.ack \in Nat /\ m.data \in Payloads /\ m.data.e \in Nat
         /\ Wrap(m.seq) \in Seqs /\ Wrap(m.seq + 1) \in Seqs /\ Wrap(m.ack + 1) \in Seqs
<1>1. m.seq \in Nat /\ m.ack \in Nat
  BY Numbers DEF Segments
<1>2. m.seq + 1 \in Nat /\ m.ack + 1 \in Nat
  BY <1>1
<1> QED BY <1>1, <1>2, Numbers DEF Segments, Payloads

LEMMA UpdateGoesOn ==
  ASSUME Inv, NEW c \in Open, NEW p \in Pcbs, NEW S \in SUBSET Segments, Update(c, p, S),
         toFw' \subseteq toFw, NEW rx \in Nat, NEW tx \in Nat,
         Post(p.skt, rx, tx) \/ (UNCHANGED sktVars /\ rx = 0),
         p.state # "NONE", p.accepted = pcb[c].accepted, p.skt = pcb[c].skt,
         Len(p.rxQ) <= Len(pcb[c].rxQ) + rx,
         p.state = "FIN_WAIT_1" <=> pcb[c].state = "FIN_WAIT_1",
         Window(pcb[c]) => Window(p) /\ (p.state # "FIN_WAIT_1" => p.sendPkts <= pcb[c].sendPkts)
  PROVE  InputStep
<1>1. GoesOn(c, p, rx, tx) /\ Transmit(c, S)
  BY DEF GoesOn, Update
<1>2. c \in Clients
  BY DEF Open
<1>3. SegmentsInFlight
  BY <1>1, <1>2, TransmitTypes DEF SegmentsInFlight, Inv, TypeOK
<1>4. UNCHANGED <<plan, peer>>
  BY DEF Update
<1> QED BY <1>1, <1>3, <1>4 DEF InputStep

\* An acknowledgement, and the packets it frees.
LEMMA DequeueNat ==
  ASSUME NEW p \in Pcbs, NEW ack \in Nat
  PROVE  LET d == tcpDequeue(p, ack)
         IN  /\ d \in Pcbs /\ d.state = p.state /\ d.accepted = p.accepted /\ d.skt = p.skt
             /\ d.rxQ = p.rxQ /\ Freed(p, ack) \in Nat
<1>1. p.txQ \in Seq(Packets)
  BY PcbFields
<1>2. Freed(p, ack) \in 0..Len(p.txQ) /\ Len(p.txQ) \in Nat
  BY <1>1, FreedPackets
<1>3. Freed(p, ack) \in Nat
  BY <1>2
<1> QED BY <1>3, tcpDequeueTypes

LEMMA InputSteps ==
  ASSUME Inv, tcpInput
  PROVE  InputStep
<1> DEFINE Received(c, m) ==
       \/ RxRefused(c, m) \/ RxListen(c, m) \/ RxReset(c, m) \/ RxSynRcvd(c, m)
       \/ RxOutOfOrder(c, m) \/ RxAck(c, m) \/ RxData(c, m) \/ RxFin(c, m)
       \/ RxFinWait(c, m) \/ RxLastAck(c, m) \/ RxTimeWait(c, m)
<1>a. PICK c \in Clients : \E m \in {x[2] : x \in {y \in toFw : y[1] = c}} : Received(c, m)
  BY DEF tcpInput
<1>b. PICK m \in {x[2] : x \in {y \in toFw : y[1] = c}} : Received(c, m)
  BY <1>a
<1>1. m \in Segments
  BY DEF Inv, TypeOK
<1> USE <1>1
<1> DEFINE p == pcb[c]
<1>2. p \in Pcbs /\ p = pcb[c]
  BY DEF Inv, TypeOK
<1>3. ASSUME Arrives(c, m) PROVE toFw' \subseteq toFw /\ toFw' \subseteq Clients \X Segments
  BY <1>3 DEF Arrives, Inv, TypeOK
<1>4. ASSUME p.state # "NONE" PROVE c \in Open
  BY <1>4 DEF Open
<1> HIDE DEF p
<1>n. /\ p.sendPkts <= p.sendPkts /\ 0 <= p.sendPkts
      /\ Len(p.rxQ) <= Len(p.rxQ) + 0 /\ Len(p.rxQ) <= Len(p.rxQ) + 1
  <2>1. p.rxQ \in Seq(Payloads) /\ p.sendPkts \in 0..31
    BY <1>2, PcbFields
  <2>2. Len(p.rxQ) \in Nat
    BY <2>1
  <2>3. \A a \in Nat : a <= a + 0 /\ a <= a + 1
    OBVIOUS
  <2>4. \A a \in 0..31 : a <= a /\ 0 <= a
    OBVIOUS
  <2> QED BY <2>1, <2>2, <2>3, <2>4
<1>s. m.f \in {"SYN", "SYNACK", "ACK", "DATA", "FIN", "RST"} /\ m.ack \in Nat /\ m.seq \in Nat
  BY SegmentTypes
<1>5. CASE RxRefused(c, m)
  <2> DEFINE S == IF m.f = "RST" THEN {}
                  ELSE {Segment(IF m.f = "FIN" THEN "ACK" ELSE "RST", Wrap(m.ack + 1), Wrap(m.seq + 1), Empty)}
  <2>1. S \in SUBSET Segments
    BY SegmentTypes DEF Segment, Segments, Empty, Payloads
  <2>2. /\ Arrives(c, m) /\ Transmit(c, S) /\ UNCHANGED <<plan, peer, pcbVars, sktVars>>
    BY <1>5 DEF RxRefused
  <2> HIDE DEF S
  <2>3. SegmentsInFlight
    BY <1>3, <2>1, <2>2, TransmitTypes DEF SegmentsInFlight, Inv
  <2> QED BY <2>2, <2>3 DEF InputStep
<1>6. CASE RxListen(c, m)
  <2> DEFINE n == [NoPcb EXCEPT !.state = "SYN_RCVD", !.sendAckNum = Wrap(m.seq + 1), !.epoch = m.data.e]
             r == tcpSend(n, "SYNACK")
  <2>1. n \in Pcbs /\ n.state = "SYN_RCVD" /\ ~n.accepted /\ n.skt = Listener /\ n.sendPkts = 0 /\ n.txQ = <<>>
    <3>1. Wrap(m.seq + 1) \in Seqs /\ m.data.e \in Nat /\ "SYN_RCVD" \in States
      BY SegmentTypes DEF States
    <3>2. n = [NoPcb EXCEPT !.state = "SYN_RCVD", !.sendAckNum = Wrap(m.seq + 1), !.epoch = m.data.e]
      OBVIOUS
    <3>3. n \in Pcbs /\ n.state = "SYN_RCVD"
      <4> HIDE DEF n
      <4> QED BY <3>1, <3>2, EmptyPcb DEF Pcbs
    <3>4. ~n.accepted /\ n.skt = Listener /\ n.sendPkts = 0 /\ n.txQ = <<>>
      BY DEF NoPcb
    <3> QED BY <3>3, <3>4
  <2>2. Arrives(c, m) /\ pcb[c].state = "NONE" /\ curConnections < plan.maxConnections
    BY <1>6 DEF RxListen
  <2>3. CASE m.f = "SYN"
    <3>1. /\ pcb' = [pcb EXCEPT ![c] = r.pcb] /\ clientList' = Append(clientList, c)
          /\ curConnections' = (curConnections + 1) % 8 /\ Transmit(c, r.seg)
          /\ Post(Listener, 1, 0) /\ UNCHANGED <<plan, peer>>
      BY <1>6, <2>3 DEF RxListen
    <3> HIDE DEF n
    <3>2. Window(n)
      BY <2>1 DEF Window
    <3>3. /\ r.pcb \in Pcbs /\ r.seg \in SUBSET Segments /\ r.pcb = Sending(n, "SYNACK").pcb
          /\ r.pcb.state = "SYN_RCVD" /\ ~r.pcb.accepted /\ r.pcb.skt = Listener
      BY <2>1, tcpSendTypes DEF Same
    <3>4. Window(r.pcb)
      BY <2>1, <3>2, <3>3, WindowSynAck
    <3> HIDE DEF r
    <3>5. SegmentsInFlight
      BY <1>3, <2>2, <3>1, <3>3, TransmitTypes DEF SegmentsInFlight, Inv
    <3>6. listenSem' = listenSem + 1 /\ UNCHANGED skt
      BY <3>1 DEF Post
    <3>7. Comes(c, r.pcb)
      BY <2>2, <3>1, <3>3, <3>4, <3>6 DEF Comes
    <3> QED BY <3>1, <3>3, <3>5, <3>7 DEF InputStep
  <2>4. CASE m.f # "SYN"
    <3>1. UNCHANGED <<plan, peer, toPeer, pcbVars, sktVars>>
      BY <1>6, <2>4 DEF RxListen
    <3> QED BY <1>3, <2>2, <3>1 DEF InputStep, SegmentsInFlight, Inv, TypeOK
  <2> QED BY <2>3, <2>4
<1>7. CASE RxReset(c, m)
  <2>1. Arrives(c, m) /\ p.state # "NONE" /\ removePCB(pcb, c) /\ UNCHANGED <<plan, peer, toPeer>>
    BY <1>2, <1>7 DEF RxReset
  <2> QED BY <1>3, <1>4, <2>1 DEF InputStep, SegmentsInFlight, Inv, TypeOK
<1>8. ASSUME p.state # "NONE", Arrives(c, m), Update(c, p, {}), UNCHANGED sktVars
      PROVE  InputStep
  <2>1. c \in Open /\ toFw' \subseteq toFw /\ Len(p.rxQ) <= Len(p.rxQ) + 0 /\ p.sendPkts <= p.sendPkts
    BY <1>2, <1>3, <1>4, <1>8, <1>n
  <2> QED BY <1>2, <1>8, <2>1, UpdateGoesOn
<1>9. CASE RxSynRcvd(c, m)
  <2> DEFINE r == tcpSend(p, "SYNACK")
             d == tcpDequeue(p, m.ack)
             q == [d EXCEPT !.state = "ESTABLISHED"]
  <2>1. Arrives(c, m) /\ p.state = "SYN_RCVD" /\ c \in Open /\ toFw' \subseteq toFw
    BY <1>2, <1>3, <1>4, <1>9 DEF RxSynRcvd
  <2>2. CASE m.f = "SYN"
    <3>1. Update(c, r.pcb, r.seg) /\ UNCHANGED sktVars
      BY <1>2, <1>9, <2>2 DEF RxSynRcvd
    <3>2. r.pcb \in Pcbs /\ r.seg \in SUBSET Segments /\ Same(p, r.pcb) /\ r.pcb = Sending(p, "SYNACK").pcb
      BY <1>2, tcpSendTypes
    <3>3. Window(p) => Window(r.pcb)
      BY <1>2, <2>1, <3>2, WindowSynAck
    <3> HIDE DEF r
    <3>4. Len(r.pcb.rxQ) <= Len(p.rxQ) + 0 /\ r.pcb.sendPkts <= p.sendPkts
      BY <1>n, <3>2 DEF Same
    <3> QED BY <1>2, <2>1, <3>1, <3>2, <3>3, <3>4, UpdateGoesOn DEF Same
  <2>3. CASE m.f # "SYN" /\ m.ack = p.seqNum
    <3>1. Update(c, q, {}) /\ Post(p.skt, 1, Freed(p, m.ack))
      BY <1>2, <1>9, <2>3 DEF RxSynRcvd
    <3>2. /\ d \in Pcbs /\ d.accepted = p.accepted /\ d.skt = p.skt /\ d.rxQ = p.rxQ
          /\ m.ack \in Nat /\ Freed(p, m.ack) \in Nat
      BY <1>2, <1>s, DequeueNat
    <3>3. /\ q \in Pcbs /\ q.state = "ESTABLISHED" /\ q.accepted = d.accepted /\ q.skt = d.skt
          /\ q.rxQ = d.rxQ /\ q.txQ = d.txQ /\ q.sendPkts = d.sendPkts
      <4> HIDE DEF d
      <4> QED BY <3>2, PcbUpdates DEF States
    <3>4. Window(p) => Window(q) /\ q.sendPkts = 0
      <4> HIDE DEF q
      <4> QED BY <1>2, <2>1, <3>2, <3>3, WindowOpens
    <3> HIDE DEF d, q
    <3>5. Len(q.rxQ) <= Len(p.rxQ) + 1 /\ (q.sendPkts = 0 => q.sendPkts <= p.sendPkts)
      BY <1>n, <3>2, <3>3
    <3> QED BY <1>2, <2>1, <3>1, <3>2, <3>3, <3>4, <3>5, UpdateGoesOn
  <2>4. CASE m.f # "SYN" /\ m.ack # p.seqNum
    <3>1. Update(c, p, {}) /\ UNCHANGED sktVars
      BY <1>2, <1>9, <2>4 DEF RxSynRcvd
    <3> QED BY <1>8, <2>1, <3>1
  <2> QED BY <2>2, <2>3, <2>4
<1>10. CASE RxOutOfOrder(c, m)
  <2> DEFINE r == tcpSend(p, "ACK")
  <2>1. /\ Arrives(c, m) /\ p.state = "ESTABLISHED" /\ c \in Open /\ toFw' \subseteq toFw
        /\ Update(c, r.pcb, r.seg) /\ UNCHANGED sktVars
    BY <1>2, <1>3, <1>4, <1>10 DEF RxOutOfOrder
  <2>2. r.pcb \in Pcbs /\ r.seg \in SUBSET Segments /\ Same(p, r.pcb) /\ r.pcb.txQ = p.txQ
    BY <1>2, tcpSendTypes
  <2> HIDE DEF r
  <2>3. Window(p) => Window(r.pcb)
    BY <2>2, WindowSame DEF Same
  <2>4. Len(r.pcb.rxQ) <= Len(p.rxQ) + 0 /\ r.pcb.sendPkts <= p.sendPkts
    BY <1>n, <2>2 DEF Same
  <2> QED BY <1>2, <2>1, <2>2, <2>3, <2>4, UpdateGoesOn DEF Same
<1> DEFINE d == tcpDequeue(p, m.ack)
           k == Freed(p, m.ack)
<1>11. /\ d \in Pcbs /\ d.state = p.state /\ d.accepted = p.accepted /\ d.skt = p.skt /\ d.rxQ = p.rxQ
       /\ k \in Nat
  BY <1>2, <1>s, DequeueNat
<1>12. ASSUME p.state = "ESTABLISHED", Window(p) PROVE Window(d) /\ d.sendPkts <= p.sendPkts
  BY <1>2, <1>12, SegmentTypes, WindowAcked
<1>13. d = tcpDequeue(p, m.ack) /\ k = Freed(p, m.ack)
  OBVIOUS
<1> HIDE DEF d, k
<1>14. CASE RxAck(c, m)
  <2>1. /\ Arrives(c, m) /\ p.state = "ESTABLISHED" /\ c \in Open /\ toFw' \subseteq toFw
        /\ Update(c, d, {}) /\ Post(p.skt, 0, k)
    BY <1>2, <1>3, <1>4, <1>13, <1>14 DEF RxAck
  <2>2. Len(d.rxQ) <= Len(p.rxQ) + 0
    BY <1>n, <1>11
  <2> QED BY <1>2, <1>11, <1>12, <2>1, <2>2, UpdateGoesOn
<1>15. CASE RxData(c, m)
  <2> DEFINE q == [d EXCEPT !.sendAckNum = Wrap(m.seq + (IF m.f = "DATA" THEN 1 ELSE 0)),
                            !.rxQ = Append(@, m.data)]
             r == tcpSend(q, "ACK")
  <2>1. /\ Arrives(c, m) /\ p.state = "ESTABLISHED" /\ c \in Open /\ toFw' \subseteq toFw
        /\ Update(c, r.pcb, r.seg) /\ Post(d.skt, 1, k)
    BY <1>2, <1>3, <1>4, <1>11, <1>13, <1>15 DEF RxData
  <2>2. /\ q \in Pcbs /\ q.state = d.state /\ q.accepted = d.accepted /\ q.skt = d.skt
        /\ q.sendPkts = d.sendPkts /\ q.txQ = d.txQ /\ q.rxQ = Append(d.rxQ, m.data)
    <3>1. Wrap(m.seq + (IF m.f = "DATA" THEN 1 ELSE 0)) \in Seqs /\ m.data \in Payloads
      <4>1. m.seq + 0 = m.seq
        BY <1>s
      <4>2. Wrap(m.seq + 0) \in Seqs /\ Wrap(m.seq + 1) \in Seqs /\ m.data \in Payloads
        BY <4>1, SegmentTypes
      <4> QED BY <4>2
    <3> DEFINE w == Wrap(m.seq + (IF m.f = "DATA" THEN 1 ELSE 0))
    <3> DEFINE l == Append(d.rxQ, m.data)
    <3>2. l \in Seq(Payloads)
      BY <1>11, <3>1, PcbFields
    <3>3. q = [d EXCEPT !.sendAckNum = w, !.rxQ = l] /\ w \in Seqs /\ l = Append(d.rxQ, m.data)
      BY <1>11, <3>1 DEF Pcbs
    <3> HIDE DEF q, w, l
    <3>4. /\ q \in Pcbs /\ q.state = d.state /\ q.accepted = d.accepted /\ q.skt = d.skt
          /\ q.sendPkts = d.sendPkts /\ q.txQ = d.txQ /\ q.rxQ = l
      BY <1>11, <3>2, <3>3 DEF Pcbs
    <3> QED BY <3>3, <3>4
  <2> HIDE DEF q
  <2>3. r.pcb \in Pcbs /\ r.seg \in SUBSET Segments /\ Same(q, r.pcb) /\ r.pcb.txQ = q.txQ
    BY <2>2, tcpSendTypes
  <2> HIDE DEF r
  <2>4. Window(d) => Window(r.pcb)
    BY <2>2, <2>3, WindowSame DEF Same
  <2>5. Len(r.pcb.rxQ) <= Len(p.rxQ) + 1
    <3>1. p.rxQ \in Seq(Payloads) /\ r.pcb.rxQ = Append(p.rxQ, m.data)
      BY <1>2, <1>11, <2>2, <2>3, PcbFields DEF Same
    <3>2. Len(r.pcb.rxQ) = Len(p.rxQ) + 1 /\ Len(p.rxQ) \in Nat
      BY <3>1
    <3> QED BY <3>2
  <2> QED BY <1>2, <1>11, <1>12, <2>1, <2>2, <2>3, <2>4, <2>5, UpdateGoesOn DEF Same
<1>16. CASE RxFin(c, m)
  <2> DEFINE n == [p EXCEPT !.sendAckNum = Wrap(m.seq + 1)]
             r == tcpSend(n, "FIN")
             q == [r.pcb EXCEPT !.state = "LAST_ACK"]
  <2>1. /\ Arrives(c, m) /\ p.state = "ESTABLISHED" /\ c \in Open /\ toFw' \subseteq toFw
        /\ Update(c, q, r.seg) /\ UNCHANGED sktVars
    BY <1>2, <1>3, <1>4, <1>16 DEF RxFin
  <2>2. n \in Pcbs /\ Same(p, n) /\ n.txQ = p.txQ
    BY <1>2, SegmentTypes, PcbUpdates
  <2> HIDE DEF n
  <2>3. r.pcb \in Pcbs /\ r.seg \in SUBSET Segments /\ Same(n, r.pcb) /\ r.pcb = Sending(n, "FIN").pcb
    BY <2>2, tcpSendTypes
  <2> HIDE DEF r
  <2>4. /\ q \in Pcbs /\ q.state = "LAST_ACK" /\ q.accepted = r.pcb.accepted /\ q.skt = r.pcb.skt
        /\ q.sendPkts = r.pcb.sendPkts /\ q.txQ = r.pcb.txQ /\ q.rxQ = r.pcb.rxQ
    BY <2>3, PcbUpdates DEF States
  <2> HIDE DEF q
  <2>5. Window(p) => Window(n) /\ Window(q)
    <3> SUFFICES ASSUME Window(p) PROVE Window(n) /\ Window(q)
      OBVIOUS
    <3>1. Window(n)
      BY <2>2, WindowSame DEF Same
    <3>2. n.state = "ESTABLISHED" /\ q.txQ = Sending(n, "FIN").pcb.txQ /\ q.sendPkts = n.sendPkts
      BY <2>1, <2>2, <2>3, <2>4 DEF Same
    <3> QED BY <2>2, <2>4, <3>1, <3>2, WindowFin
  <2>6. Len(q.rxQ) <= Len(p.rxQ) + 0 /\ q.sendPkts <= p.sendPkts
    BY <1>n, <2>2, <2>3, <2>4 DEF Same
  <2> QED BY <1>2, <2>1, <2>2, <2>3, <2>4, <2>5, <2>6, UpdateGoesOn DEF Same
<1>17. CASE RxFinWait(c, m)
  <2> DEFINE n == [p EXCEPT !.sendAckNum = Wrap(@ + 1), !.delayAck = "FirstDelayAck"]
             r == tcpSend(n, "ACK")
  <2>1. Arrives(c, m) /\ p.state = "FIN_WAIT_1" /\ c \in Open /\ toFw' \subseteq toFw
    BY <1>2, <1>3, <1>4, <1>17 DEF RxFinWait
  <2>2. CASE m.f = "FIN"
    <3>1. removePCB(pcb, c) /\ Transmit(c, r.seg) /\ UNCHANGED <<plan, peer>>
      BY <1>2, <1>17, <2>2 DEF RxFinWait
    <3>2. n \in Pcbs
      <4>1. p.sendAckNum \in Seqs /\ p.sendAckNum \in Nat
        BY <1>2, PcbFields, Numbers DEF Seqs
      <4>2. p.sendAckNum + 1 \in Nat
        BY <4>1
      <4>3. Wrap(p.sendAckNum + 1) \in Seqs
        BY <4>2, Numbers
      <4>4. n = [p EXCEPT !.sendAckNum = Wrap(p.sendAckNum + 1), !.delayAck = "FirstDelayAck"]
        OBVIOUS
      <4> HIDE DEF n
      <4> QED BY <1>2, <4>3, <4>4, PcbUpdates
    <3> HIDE DEF n
    <3>3. r.seg \in SUBSET Segments
      BY <3>2, tcpSendTypes
    <3> HIDE DEF r
    <3>4. SegmentsInFlight
      BY <1>3, <2>1, <3>1, <3>3, TransmitTypes DEF SegmentsInFlight, Inv
    <3> QED BY <2>1, <3>1, <3>4 DEF InputStep
  <2>3. CASE m.f = "SYN"
    <3>1. Update(c, p, {}) /\ UNCHANGED sktVars
      BY <1>2, <1>17, <2>3 DEF RxFinWait
    <3> QED BY <1>8, <2>1, <3>1
  <2>4. CASE m.f \notin {"FIN", "SYN"}
    <3>1. Update(c, d, {}) /\ Post(p.skt, 0, k)
      BY <1>2, <1>13, <1>17, <2>4 DEF RxFinWait
    <3>2. Len(d.rxQ) <= Len(p.rxQ) + 0
      BY <1>n, <1>11
    <3>3. Window(d)
      BY <1>11, <2>1 DEF Window
    <3> QED BY <1>2, <1>11, <2>1, <3>1, <3>2, <3>3, UpdateGoesOn
  <2> QED BY <2>2, <2>3, <2>4
<1>18. CASE RxLastAck(c, m)
  <2> DEFINE q == [p EXCEPT !.state = "TIME_WAIT"]
  <2>1. Arrives(c, m) /\ p.state = "LAST_ACK" /\ c \in Open /\ toFw' \subseteq toFw
    BY <1>2, <1>3, <1>4, <1>18 DEF RxLastAck
  <2>2. CASE m.f = "SYN"
    <3>1. Update(c, p, {}) /\ UNCHANGED sktVars
      BY <1>2, <1>18, <2>2 DEF RxLastAck
    <3> QED BY <1>8, <2>1, <3>1
  <2>3. CASE m.f # "SYN" /\ p.rxQ # <<>>
    <3>1. Update(c, q, {}) /\ UNCHANGED sktVars
      BY <1>2, <1>18, <2>3 DEF RxLastAck
    <3>2. /\ q \in Pcbs /\ q.state = "TIME_WAIT" /\ q.accepted = p.accepted /\ q.skt = p.skt
          /\ q.sendPkts = p.sendPkts /\ q.txQ = p.txQ /\ q.rxQ = p.rxQ
      BY <1>2, PcbUpdates DEF States
    <3> HIDE DEF q
    <3>3. Window(p) => Window(q)
      BY <2>1, <3>2 DEF Window
    <3>4. Len(q.rxQ) <= Len(p.rxQ) + 0 /\ q.sendPkts <= p.sendPkts
      BY <1>n, <3>2
    <3> QED BY <1>2, <2>1, <3>1, <3>2, <3>3, <3>4, UpdateGoesOn
  <2>4. CASE m.f # "SYN" /\ p.rxQ = <<>>
    <3>1. removePCB(pcb, c) /\ UNCHANGED <<plan, peer, toPeer>>
      BY <1>2, <1>18, <2>4 DEF RxLastAck
    <3> QED BY <1>3, <2>1, <3>1 DEF InputStep, SegmentsInFlight, Inv, TypeOK
  <2> QED BY <2>2, <2>3, <2>4
<1>19. CASE RxTimeWait(c, m)
  <2> DEFINE r == tcpSend(p, "RST")
  <2>1. Arrives(c, m) /\ p.state = "TIME_WAIT" /\ c \in Open /\ toFw' \subseteq toFw /\ UNCHANGED sktVars
    BY <1>2, <1>3, <1>4, <1>19 DEF RxTimeWait
  <2>2. CASE m.f = "RST"
    <3>1. Update(c, p, {})
      BY <1>2, <1>19, <2>2 DEF RxTimeWait
    <3> QED BY <1>8, <2>1, <3>1
  <2>3. CASE m.f # "RST"
    <3>1. Update(c, r.pcb, r.seg)
      BY <1>2, <1>19, <2>3 DEF RxTimeWait
    <3>2. r.pcb \in Pcbs /\ r.seg \in SUBSET Segments /\ Same(p, r.pcb) /\ r.pcb.txQ = p.txQ
      BY <1>2, tcpSendTypes
    <3> HIDE DEF r
    <3>3. Window(p) => Window(r.pcb)
      BY <3>2, WindowSame DEF Same
    <3>4. Len(r.pcb.rxQ) <= Len(p.rxQ) + 0 /\ r.pcb.sendPkts <= p.sendPkts
      BY <1>n, <3>2 DEF Same
    <3> QED BY <1>2, <2>1, <3>1, <3>2, <3>3, <3>4, UpdateGoesOn DEF Same
  <2> QED BY <2>2, <2>3
<1> QED
  BY <1>b, <1>5, <1>6, <1>7, <1>9, <1>10, <1>14, <1>15, <1>16, <1>17, <1>18, <1>19

-----------------------------------------------------------------------------
(* The timer and the link                                                  *)

LEMMA AgedPackets ==
  ASSUME NEW p \in Pcbs
  PROVE  /\ Aged(p) \in Seq(Packets) /\ DOMAIN Aged(p) = DOMAIN p.txQ /\ Len(Aged(p)) = Len(p.txQ)
         /\ \A i \in DOMAIN p.txQ : Aged(p)[i].seg = p.txQ[i].seg
<1>1. p.txQ \in Seq(Packets)
  BY PcbFields
<1>2. DOMAIN p.txQ = 1..Len(p.txQ) /\ Len(p.txQ) \in Nat /\ \A i \in DOMAIN p.txQ : p.txQ[i] \in Packets
  BY <1>1
<1> DEFINE older(i) == [p.txQ[i] EXCEPT !.rTime = @ + 1]
<1>3. \A i \in DOMAIN p.txQ : older(i) \in Packets /\ older(i).seg = p.txQ[i].seg
  BY <1>2 DEF Packets
<1>4. Aged(p) = [i \in 1..Len(p.txQ) |-> older(i)]
  BY <1>2 DEF Aged
<1> HIDE DEF older
<1>5. Aged(p) \in Seq(Packets) /\ Len(Aged(p)) = Len(p.txQ)
  BY <1>2, <1>3, <1>4
<1> QED BY <1>2, <1>3, <1>4, <1>5

\* A tick of the timer leaves the window and the socket alone.
LEMMA TickedTypes ==
  ASSUME NEW p \in Pcbs
  PROVE  /\ Ticked(p) \in Pcbs /\ Same(p, Ticked(p)) /\ (Window(p) => Window(Ticked(p)))
         /\ Resent(p) \subseteq Segments
<1>1. p.txQ \in Seq(Packets) /\ p.rTime + 1 \in Nat
  BY PcbFields
<1>2. Ticked(p) \in Pcbs /\ Same(p, Ticked(p)) /\ (Ticked(p).txQ = p.txQ \/ Ticked(p).txQ = Aged(p))
  <2>1. CASE p.state = "TIME_WAIT"
    <3>1. Ticked(p) = [p EXCEPT !.rTime = p.rTime + 1]
      BY <2>1 DEF Ticked, Pcbs
    <3> QED BY <1>1, <3>1 DEF Pcbs, Same
  <2>2. CASE p.state # "TIME_WAIT" /\ p.txQ # <<>>
    <3>1. Ticked(p) = [p EXCEPT !.txQ = Aged(p)]
      BY <2>2 DEF Ticked
    <3> QED BY <3>1, AgedPackets DEF Pcbs, Packets, Same
  <2>3. CASE p.state # "TIME_WAIT" /\ p.txQ = <<>>
    <3> DEFINE a == CASE p.delayAck = "FirstDelayAck"  -> "SecondDelayAck"
                      [] p.delayAck = "SecondDelayAck" -> "NoDelayAck"
                      [] OTHER                         -> p.delayAck
    <3>1. Ticked(p) = [p EXCEPT !.delayAck = a]
      BY <2>3 DEF Ticked, Pcbs
    <3>2. a \in {"NoDelayAck", "FirstDelayAck", "SecondDelayAck"}
      BY PcbFields
    <3> HIDE DEF a
    <3> QED BY <3>1, <3>2 DEF Pcbs, Same
  <2> QED BY <2>1, <2>2, <2>3
<1> DEFINE q == Ticked(p)
<1>3. /\ DOMAIN q.txQ = DOMAIN p.txQ /\ Len(q.txQ) = Len(p.txQ)
      /\ \A i \in DOMAIN p.txQ : q.txQ[i].seg = p.txQ[i].seg
  BY <1>2, AgedPackets
<1>4. q.txQ \in Seq(Packets) /\ (p.txQ = <<>> => q.txQ = <<>>)
  <2>1. q.txQ \in Seq(Packets)
    BY <1>2, PcbFields
  <2> HIDE DEF q
  <2> QED BY <1>1, <1>3, <2>1
<1> HIDE DEF q
<1>5. ASSUME Window(p) PROVE Window(q)
  <2>1. q.state = p.state /\ q.accepted = p.accepted /\ q.sendPkts = p.sendPkts
    BY <1>2 DEF Same, q
  <2>2. \A i \in DOMAIN p.txQ : IsData(q.txQ[i]) <=> IsData(p.txQ[i])
    BY <1>3 DEF IsData
  <2> QED BY <1>3, <1>4, <1>5, <2>1, <2>2 DEF Window
<1>6. Resent(p) \subseteq Segments
  <2>1. \A i \in DOMAIN p.txQ : p.txQ[i].seg \in Segments /\ [p.txQ[i].seg EXCEPT !.f = "RST"] \in Segments
    <3>1. \A i \in DOMAIN p.txQ : p.txQ[i].seg \in Segments
      <4>1. \A i \in DOMAIN p.txQ : p.txQ[i] \in Packets
        BY <1>1
      <4> QED BY <4>1 DEF Packets
    <3>2. \A x \in Segments : [x EXCEPT !.f = "RST"] \in Segments
      BY DEF Segments
    <3> QED BY <3>1, <3>2
  <2>2. Segment("ACK", p.seqNum, p.sendAckNum, Empty) \in Segments
    BY PcbFields DEF Segment, Segments, Payloads, Empty
  <2>3. ASSUME p.state # "TIME_WAIT", Ends(p) PROVE 1 \in DOMAIN p.txQ
    <3>1. DOMAIN p.txQ # {}
      BY <2>3 DEF Ends
    <3> QED BY <1>1, <3>1
  <2>4. \A i \in DOMAIN Aged(p) : Aged(p)[i].seg \in Segments
    BY <2>1, AgedPackets
  <2>5. {r.seg : r \in {Aged(p)[i] : i \in {j \in DOMAIN p.txQ : Aged(p)[j].rTime > ResendAfter}}}
        \subseteq Segments
    BY <2>4, AgedPackets
  <2> QED BY <2>1, <2>2, <2>3, <2>5 DEF Resent
<1> QED BY <1>2, <1>5, <1>6 DEF q

\* The connections as a tick leaves them.
Tick(pcbs) ==
    /\ pcbs \in [Clients -> Pcbs]
    /\ \A d \in Clients : Same(pcb[d], pcbs[d]) /\ (Window(pcb[d]) => Window(pcbs[d]))

\* A round of the timer: every connection goes on, or one of them is removed.
TimerStep ==
    /\ SegmentsInFlight /\ UNCHANGED <<plan, peer>>
    /\ \E pcbs : /\ Tick(pcbs)
                 /\ \/ \E c \in Open : removePCB(pcbs, c)
                    \/ pcb' = pcbs /\ UNCHANGED <<clientList, curConnections, sktVars>>

LEMMA TimerSteps ==
  ASSUME Inv, Timer
  PROVE  TimerStep
<1> DEFINE ends   == {i \in DOMAIN clientList : Ends(pcb[clientList[i]])}
           first  == CHOOSE i \in ends : \A j \in ends : i <= j
           seen   == {clientList[i] : i \in {j \in DOMAIN clientList : ends # {} => j <= first}}
           ticked == [c \in Clients |->
                         IF c \in seen /\ ~Ends(pcb[c]) THEN Ticked(pcb[c]) ELSE pcb[c]]
           sent   == UNION {{c} \X Resent(pcb[c]) : c \in seen}
<1>1. /\ \E T \in SUBSET sent :
            /\ T = {} \/ Cardinality(toPeer \cup T) <= plan.capOut
            /\ toPeer' = toPeer \cup T
      /\ IF ends # {} THEN removePCB(ticked, clientList[first])
         ELSE pcb' = ticked /\ UNCHANGED <<clientList, curConnections, sktVars>>
      /\ UNCHANGED <<plan, peer, toFw>>
  BY DEF Timer
<1>2. clientList \in Seq(Clients) /\ \A d \in Clients : pcb[d] \in Pcbs
  BY DEF Inv, TypeOK
<1>3. ends \subseteq DOMAIN clientList /\ ends \subseteq Nat /\ seen \subseteq Clients
  BY <1>2
<1>4. ASSUME ends # {} PROVE clientList[first] \in Open
  <2>1. \E i \in ends : \A j \in ends : i <= j
    <3> HIDE DEF ends
    <3> QED BY <1>3, <1>4, LeastElement
  <2>2. first \in ends
    <3> HIDE DEF ends
    <3> QED BY <2>1
  <2>3. clientList[first] \in Range(clientList)
    BY <1>3, <2>2 DEF Range
  <2> QED BY <2>3 DEF Inv, Listed
<1>5. Tick(ticked)
  <2>1. ASSUME NEW d \in Clients
        PROVE  /\ ticked[d] \in Pcbs /\ Same(pcb[d], ticked[d])
               /\ Window(pcb[d]) => Window(ticked[d])
    <3>1. ticked[d] = Ticked(pcb[d]) \/ ticked[d] = pcb[d]
      <4> HIDE DEF seen
      <4> QED OBVIOUS
    <3> HIDE DEF ticked
    <3> QED BY <1>2, <3>1, TickedTypes DEF Same
  <2>2. ticked = [c \in Clients |-> ticked[c]]
    <3> HIDE DEF seen
    <3> QED OBVIOUS
  <2> HIDE DEF ticked
  <2> QED BY <2>1, <2>2 DEF Tick
<1>6. sent \subseteq Clients \X Segments
  <2>1. \A c \in seen : {c} \X Resent(pcb[c]) \subseteq Clients \X Segments
    <3> HIDE DEF seen
    <3> QED BY <1>2, <1>3, TickedTypes
  <2> HIDE DEF seen
  <2> QED BY <2>1
<1> HIDE DEF ends, first, seen, ticked, sent
<1>7. SegmentsInFlight
  BY <1>1, <1>6 DEF SegmentsInFlight, Inv, TypeOK
<1> QED BY <1>1, <1>4, <1>5, <1>7 DEF TimerStep

\* The open connections are as many as the list is long.
LEMMA OpenCounted ==
  ASSUME TypeOK, Listed
  PROVE  IsFiniteSet(Open) /\ Cardinality(Open) = Len(clientList)
<1> DEFINE D == 1..Len(clientList)
<1>1. clientList \in Seq(Clients) /\ Len(clientList) \in Nat /\ DOMAIN clientList = D
  BY DEF TypeOK
<1>2. clientList \in [D -> Open] /\ \A c \in Open : \E i \in D : clientList[i] = c
  <2>1. Range(clientList) = Open
    BY DEF Listed
  <2> QED BY <1>1, <2>1 DEF Range
<1>3. clientList \in Bijection(D, Open)
  <2>1. \A i, j \in D : clientList[i] = clientList[j] => i = j
    BY <1>1 DEF Listed, IsInjective
  <2> QED BY <1>2, <2>1 DEF Bijection, Injection, Surjection, IsInjective
<1>4. IsFiniteSet(D) /\ Cardinality(D) = Len(clientList)
  BY <1>1, FS_Interval
<1> HIDE DEF D
<1>5. ExistsBijection(D, Open)
  BY <1>3 DEF ExistsBijection
<1> QED BY <1>4, <1>5, FS_Bijection

\* The link changes: no connection and no segment of another kind is left.
LinkStep ==
    /\ SegmentsInFlight /\ UNCHANGED <<plan, peer>>
    /\ pcb' = [c \in Clients |-> NoPcb] /\ clientList' = <<>> /\ curConnections' = 0
    /\ skt' = [t \in Tasks |-> IF skt[t].pcb \in Open
                               THEN [skt[t] EXCEPT !.pcb = None, !.rxSem = @ + 1] ELSE skt[t]]
    /\ listenSem' \in Nat

LEMMA LinkSteps ==
  ASSUME Inv, LinkReset
  PROVE  LinkStep
<1> DEFINE rst(c) == Segment("RST", pcb[c].seqNum, pcb[c].sendAckNum, Empty)
<1>1. /\ \E T \in SUBSET {<<c, rst(c)>> : c \in Open} :
            /\ T = {} \/ Cardinality(toPeer \cup T) <= plan.capOut
            /\ toPeer' = toPeer \cup T
      /\ pcb' = [c \in Clients |-> NoPcb] /\ clientList' = <<>>
      /\ curConnections' = (curConnections + 8 - Len(clientList)) % 8
      /\ skt' = [t \in Tasks |-> IF skt[t].pcb \in Open
                                 THEN [skt[t] EXCEPT !.pcb = None, !.rxSem = @ + 1] ELSE skt[t]]
      /\ listenSem' = listenSem + Cardinality({c \in Open : ~pcb[c].accepted})
      /\ UNCHANGED <<plan, peer, toFw>>
  BY DEF LinkReset, Open
<1>2. \A c \in Open : rst(c) \in Segments /\ c \in Clients
  BY PcbFields DEF Inv, TypeOK, Open, Segment, Segments, Payloads, Empty
<1>3. SegmentsInFlight
  <2>1. {<<c, rst(c)>> : c \in Open} \subseteq Clients \X Segments
    <3> HIDE DEF rst
    <3> QED BY <1>2
  <2>2. toPeer' \subseteq toPeer \cup {<<c, rst(c)>> : c \in Open}
    <3> HIDE DEF rst
    <3> QED BY <1>1
  <2>3. toPeer' \subseteq Clients \X Segments
    BY <2>1, <2>2, Zenon DEF Inv, TypeOK
  <2> QED BY <1>1, <2>3 DEF SegmentsInFlight, Inv, TypeOK
<1>4. clientList \in Seq(Clients) /\ Len(clientList) \in Nat /\ curConnections = Len(clientList)
  BY DEF Inv, TypeOK, Listed
<1>5. curConnections' = 0
  <2>1. \A n \in Nat : n + 8 - n = 8
    OBVIOUS
  <2>2. 8 % 8 = 0
    OBVIOUS
  <2> QED BY <1>1, <1>4, <2>1, <2>2
<1>6. listenSem' \in Nat
  <2>1. IsFiniteSet(Open)
    BY OpenCounted DEF Inv
  <2>2. IsFiniteSet({c \in Open : ~pcb[c].accepted})
    BY <2>1, FS_Subset
  <2>3. Cardinality({c \in Open : ~pcb[c].accepted}) \in Nat
    BY <2>2, FS_CardinalityType
  <2>4. listenSem \in Nat
    BY DEF Inv, TypeOK
  <2> DEFINE n == Cardinality({c \in Open : ~pcb[c].accepted})
  <2>5. listenSem' = listenSem + n /\ n \in Nat
    BY <1>1, <2>3
  <2> HIDE DEF n
  <2> QED BY <2>4, <2>5
<1> QED BY <1>1, <1>3, <1>5, <1>6 DEF LinkStep

LEMMA LinkTypes ==
  ASSUME Inv, LinkStep
  PROVE  Inv'
<1>1. \A t \in Tasks : skt'[t] \in Skts
  <2> SUFFICES ASSUME NEW t \in Tasks PROVE skt'[t] \in Skts
    OBVIOUS
  <2>1. skt[t] \in Skts
    BY DEF Inv, TypeOK
  <2>2. skt[t].rxSem + 1 \in Nat
    <3>1. skt[t].rxSem \in Nat
      BY <2>1, SktTypes
    <3> QED BY <3>1
  <2>3. [skt[t] EXCEPT !.pcb = None, !.rxSem = @ + 1] \in Skts
    BY <2>1, <2>2, SktTypes
  <2> QED BY <2>1, <2>3 DEF LinkStep
<1>2. pcb' \in [Clients -> Pcbs] /\ Open' = {}
  BY EmptyPcb DEF LinkStep, Open, NoPcb
<1>3. /\ clientList' = <<>> /\ Len(clientList') = 0 /\ DOMAIN clientList' = {}
      /\ clientList' \in Seq(Clients)
  <2>1. clientList' = <<>>
    BY DEF LinkStep
  <2> QED BY <2>1
<1>4. TypeOK'
  <2>1. skt' \in [Tasks -> Skts] /\ curConnections' \in 0..7 /\ listenSem' \in Nat
    <3>1. skt' = [t \in Tasks |-> skt'[t]] /\ curConnections' = 0 /\ listenSem' \in Nat
      BY DEF LinkStep
    <3> QED BY <1>1, <3>1
  <2>2. SegmentsInFlight /\ UNCHANGED <<plan, peer>>
    BY DEF LinkStep
  <2> QED BY <1>2, <1>3, <2>1, <2>2 DEF SegmentsInFlight, Inv, TypeOK
<1>5. plan'.maxConnections \in 1..7
  BY DEF LinkStep, Inv, TypeOK, Plan
<1>6. Listed'
  <2>1. IsInjective(clientList') /\ Range(clientList') = {}
    BY <1>3 DEF IsInjective, Range
  <2>2. curConnections' = 0
    BY DEF LinkStep
  <2> QED BY <1>2, <1>3, <1>5, <2>1, <2>2 DEF Listed
<1>7. PeersStarted'
  BY DEF LinkStep, Inv, PeersStarted
<1> QED BY <1>4, <1>6, <1>7 DEF Inv

LEMMA InputTypes ==
  ASSUME Inv, InputStep
  PROVE  Inv'
<1>1. CASE UNCHANGED <<pcbVars, sktVars>>
  <2>1. UNCHANGED <<plan, peer, pcb, clientList, curConnections, listenSem, skt>> /\ SegmentsInFlight
    BY <1>1 DEF InputStep, pcbVars, sktVars
  <2> QED BY <2>1 DEF SegmentsInFlight, Inv, TypeOK, PeersStarted, Listed, Open
<1>2. CASE \E c \in Clients, p \in Pcbs : Comes(c, p)
  BY <1>2, ComesTypes DEF InputStep
<1>3. CASE \E c \in Open, p \in Pcbs, rx \in Nat, tx \in Nat : GoesOn(c, p, rx, tx)
  BY <1>3, GoesOnTypes DEF InputStep
<1>4. CASE \E c \in Open : removePCB(pcb, c)
  <2>1. pcb \in [Clients -> Pcbs]
    BY DEF Inv, TypeOK
  <2> QED BY <1>4, <2>1, removePCBTypes DEF InputStep
<1> QED BY <1>1, <1>2, <1>3, <1>4 DEF InputStep

LEMMA TimerTypes ==
  ASSUME Inv, TimerStep
  PROVE  Inv'
<1>1. PICK pcbs : /\ Tick(pcbs)
                  /\ \/ \E c \in Open : removePCB(pcbs, c)
                     \/ pcb' = pcbs /\ UNCHANGED <<clientList, curConnections, sktVars>>
  BY DEF TimerStep
<1>2. SegmentsInFlight /\ UNCHANGED <<plan, peer>>
  BY DEF TimerStep
<1>3. /\ pcbs \in [Clients -> Pcbs]
      /\ \A d \in Clients : pcbs[d].state = "NONE" <=> pcb[d].state = "NONE"
  BY <1>1 DEF Tick, Same
<1>4. CASE \E c \in Open : removePCB(pcbs, c)
  BY <1>2, <1>3, <1>4, removePCBTypes
<1>5. CASE pcb' = pcbs /\ UNCHANGED <<clientList, curConnections, sktVars>>
  <2>1. Open' = Open
    BY <1>3, <1>5 DEF Open
  <2>2. UNCHANGED <<clientList, curConnections, listenSem, skt>>
    BY <1>5 DEF sktVars
  <2> QED BY <1>2, <1>3, <1>5, <2>1, <2>2 DEF SegmentsInFlight, Inv, TypeOK, PeersStarted, Listed
<1> QED BY <1>1, <1>4, <1>5

-----------------------------------------------------------------------------
(* The clients                                                             *)

\* A client touches only the network and itself.
LEMMA ClientTypes ==
  ASSUME Inv, NEW c \in Clients, Client(c)
  PROVE  Inv' /\ UNCHANGED <<plan, pcbVars, sktVars>>
<1> DEFINE q == peer[c]
<1>1. /\ q \in Peers /\ q.e \in 0..MaxEpochs /\ (q.st # "closed" => q.e # 0)
      /\ q.sent \in Nat /\ q.rcv \in Nat /\ q.again \in Nat /\ q.e \in Nat
      /\ q.st \in {"closed", "synsent", "est", "fin"}
  BY TcpAssumption DEF Inv, TypeOK, PeersStarted, Peers
<1>2. \A e \in 1..MaxEpochs : Isn[e] \in Nat
  BY TcpAssumption
<1>3. ASSUME q.st # "closed", NEW f \in {"SYN", "ACK", "DATA", "FIN", "RST"}, NEW n \in Nat
      PROVE  FromPeer(c, f, n) \in Segments
  <2>1. q.e \in 1..MaxEpochs
    BY <1>1, <1>3, TcpAssumption
  <2>2. Isn[q.e] + n \in Nat
    BY <1>2, <2>1
  <2>3. PeerSeq(c, n) \in Seqs /\ Wrap(q.rcv) \in Seqs
    BY <1>1, <2>2, Numbers DEF PeerSeq
  <2> QED BY <1>1, <2>3 DEF FromPeer, Segment, Segments, Payloads, Empty
\* What remains of a step of the client: it becomes r, and one segment more is
\* in flight.
<1> DEFINE Step(r) == /\ peer' = [peer EXCEPT ![c] = r]
                      /\ SegmentsInFlight /\ UNCHANGED <<plan, pcbVars, sktVars>>
<1>4. ASSUME NEW r \in Peers, r.e \in 0..MaxEpochs, r.st # "closed" => r.e # 0, Step(r)
      PROVE  Inv' /\ UNCHANGED <<plan, pcbVars, sktVars>>
  <2>1. /\ UNCHANGED <<plan, pcb, clientList, curConnections, listenSem, skt>> /\ SegmentsInFlight
        /\ UNCHANGED <<plan, pcbVars, sktVars>> /\ peer' = [peer EXCEPT ![c] = r]
    BY <1>4 DEF pcbVars, sktVars
  <2>2. peer' \in [Clients -> Peers] /\ PeersStarted'
    BY <1>4, <2>1 DEF Inv, TypeOK, PeersStarted
  <2> QED BY <2>1, <2>2 DEF SegmentsInFlight, Inv, TypeOK, Listed, Open
<1>5. ASSUME NEW r, NEW m \in Segments, PeerSends(c, r, m)
      PROVE  Step(r)
  BY <1>5 DEF PeerSends, SegmentsInFlight, Inv, TypeOK
<1> DEFINE Good(r) == r \in Peers /\ r.e \in 0..MaxEpochs /\ (r.st # "closed" => r.e # 0)
<1>6. ASSUME NEW r, Good(r), NEW m \in Segments, PeerSends(c, r, m)
      PROVE  Inv' /\ UNCHANGED <<plan, pcbVars, sktVars>>
  <2> HIDE DEF Step
  <2> QED BY <1>4, <1>5, <1>6
<1>7. /\ Good(q)
      /\ \A n \in Nat : Good([q EXCEPT !.again = n]) /\ Good([q EXCEPT !.sent = n])
      /\ \A n \in Nat : Good([q EXCEPT !.rcv = n])
      /\ q.st # "closed" => Good([q EXCEPT !.st = "fin"]) /\ Good([q EXCEPT !.st = "est", !.rcv = 1])
      /\ Good([q EXCEPT !.st = "closed"])
  BY <1>1 DEF Peers
<1>8. q.again + 1 \in Nat /\ q.sent + 1 \in Nat /\ q.rcv + 1 \in Nat /\ 0 \in Nat
  BY <1>1
<1>9. CASE PeerOpen(c)
  <2> DEFINE r == [NoPeer EXCEPT !.st = "synsent", !.e = q.e + 1, !.again = q.again]
             m == Segment("SYN", Wrap(Isn[r.e]), 0, [e |-> r.e, n |-> 0])
  <2>1. PeerSends(c, r, m) /\ q.e < plan.epochs[c]
    BY <1>9 DEF PeerOpen
  <2>2. q.e + 1 \in 1..MaxEpochs
    <3>1. PICK n \in 0..MaxEpochs : n = plan.epochs[c]
      BY DEF Inv, TypeOK, Plan
    <3>2. PICK k \in Nat : k = q.e
      BY <1>1
    <3>3. k < n
      BY <2>1, <3>1, <3>2
    <3> HIDE DEF r, m, Good, q
    <3>4. k + 1 \in 1..MaxEpochs
      BY <3>1, <3>3, TcpAssumption
    <3> QED BY <3>2, <3>4
  <2>3. Good(r) /\ r.e = q.e + 1
    <3>1. q.e + 1 \in 0..MaxEpochs /\ q.e + 1 \in Nat /\ q.e + 1 # 0
      <4>1. \A n \in 1..MaxEpochs : n \in 0..MaxEpochs /\ n \in Nat /\ n # 0
        BY TcpAssumption
      <4> QED BY <2>2, <4>1
    <3>2. q.again \in Nat
      BY <1>1
    <3>3. \A x, a \in Nat : LET y == [NoPeer EXCEPT !.st = "synsent", !.e = x, !.again = a]
                             IN  y \in Peers /\ y.e = x
      BY DEF NoPeer, Peers
    <3> HIDE DEF q
    <3>4. r \in Peers /\ r.e = q.e + 1
      BY <3>1, <3>2, <3>3
    <3> HIDE DEF r
    <3> QED BY <3>1, <3>4
  <2>4. m \in Segments
    <3>1. Isn[r.e] \in Nat /\ r.e \in Nat
      BY <1>2, <2>2, <2>3, TcpAssumption
    <3>2. Wrap(Isn[r.e]) \in Seqs /\ 0 \in Seqs
      BY <3>1, Numbers
    <3> HIDE DEF r
    <3> QED BY <3>1, <3>2 DEF Segment, Segments, Payloads
  <2> HIDE DEF Good, r, m
  <2> QED BY <1>6, <2>1, <2>3, <2>4
<1>10. CASE PeerAck(c)
  <2>1. q.st # "closed" /\ PeerSends(c, q, FromPeer(c, "ACK", q.sent + 1))
    BY <1>10 DEF PeerAck
  <2>2. FromPeer(c, "ACK", q.sent + 1) \in Segments
    BY <1>3, <1>8, <2>1
  <2> HIDE DEF Good, q
  <2> QED BY <1>6, <1>7, <2>1, <2>2
<1>11. CASE PeerAgain(c)
  <2> DEFINE r == [q EXCEPT !.again = q.again + 1]
  <2>1. r.st = q.st /\ r.sent = q.sent /\ Good(r)
    <3>1. r.st = q.st /\ r.sent = q.sent
      BY <1>1 DEF Peers
    <3> HIDE DEF r
    <3>2. r = [q EXCEPT !.again = q.again + 1]
      BY DEF r
    <3> QED BY <1>7, <1>8, <3>1, <3>2
  <2>2. \E f \in {"SYN", "DATA", "FIN"}, n \in Nat : q.st # "closed" /\ PeerSends(c, r, FromPeer(c, f, n))
    <3>1. \/ r.st = "synsent" /\ PeerSends(c, r, FromPeer(c, "SYN", 0))
          \/ /\ r.st \in {"est", "fin"}
             /\ \E n \in 1..r.sent : PeerSends(c, r, FromPeer(c, "DATA", n))
          \/ r.st = "fin" /\ PeerSends(c, r, FromPeer(c, "FIN", r.sent + 1))
      BY <1>11 DEF PeerAgain
    <3> HIDE DEF r, q
    <3>2. 1..r.sent \subseteq Nat
      OBVIOUS
    <3> QED BY <1>8, <2>1, <3>1, <3>2
  <2>3. PICK f \in {"SYN", "DATA", "FIN"}, n \in Nat : q.st # "closed" /\ PeerSends(c, r, FromPeer(c, f, n))
    BY <2>2
  <2>4. FromPeer(c, f, n) \in Segments
    BY <1>3, <2>3
  <2> HIDE DEF Good, q, r
  <2> QED BY <1>6, <2>1, <2>3, <2>4
<1>12. CASE PeerData(c)
  <2> DEFINE r == [q EXCEPT !.sent = q.sent + 1]
  <2>1. q.st # "closed" /\ PeerSends(c, r, FromPeer(c, "DATA", q.sent + 1))
    BY <1>12 DEF PeerData
  <2>2. FromPeer(c, "DATA", q.sent + 1) \in Segments
    BY <1>3, <1>8, <2>1
  <2>3. Good(r)
    BY <1>7, <1>8
  <2> HIDE DEF Good, q, r
  <2> QED BY <1>6, <2>1, <2>2, <2>3
<1>13. CASE PeerFin(c)
  <2> DEFINE r == [q EXCEPT !.st = "fin"]
  <2>1. q.st # "closed" /\ PeerSends(c, r, FromPeer(c, "FIN", q.sent + 1))
    BY <1>13 DEF PeerFin
  <2>2. FromPeer(c, "FIN", q.sent + 1) \in Segments
    BY <1>3, <1>8, <2>1
  <2>3. Good(r)
    BY <1>7, <2>1
  <2> HIDE DEF Good, q, r
  <2> QED BY <1>6, <2>1, <2>2, <2>3
<1>14. CASE PeerReset(c)
  <2> DEFINE r == [q EXCEPT !.st = "closed"]
  <2>1. q.st # "closed" /\ PeerSends(c, r, FromPeer(c, "RST", q.sent + 1))
    BY <1>14 DEF PeerReset
  <2>2. FromPeer(c, "RST", q.sent + 1) \in Segments
    BY <1>3, <1>8, <2>1
  <2>3. Good(r)
    BY <1>7
  <2> HIDE DEF Good, q, r
  <2> QED BY <1>6, <2>1, <2>2, <2>3
<1>15. ASSUME NEW x \in toPeer, x[1] = c, PeerTakes(c, x[2])
       PROVE  Inv' /\ UNCHANGED <<plan, pcbVars, sktVars>>
  <2> DEFINE m == x[2]
  <2>1. PICK r \in {q, [q EXCEPT !.st = "closed"], [q EXCEPT !.rcv = q.rcv + 1]} \cup
                   (IF q.st = "synsent" THEN {[q EXCEPT !.st = "est", !.rcv = 1]} ELSE {}) :
          peer' = [peer EXCEPT ![c] = r]
    BY <1>15 DEF PeerTakes
  <2>2. Good(r)
    BY <1>7, <1>8, <2>1
  <2>3. Step(r)
    <3>1. toPeer' \subseteq toPeer /\ UNCHANGED <<plan, toFw, pcbVars, sktVars>>
      BY <1>15 DEF PeerTakes
    <3> QED BY <2>1, <3>1 DEF SegmentsInFlight, Inv, TypeOK
  <2> HIDE DEF Step
  <2> QED BY <1>4, <2>2, <2>3
<1>16. ASSUME NEW x \in toPeer, x[1] = c, PeerRefuses(c, x[2])
       PROVE  Inv' /\ UNCHANGED <<plan, pcbVars, sktVars>>
  <2> DEFINE r == Segment("RST", x[2].ack, 0, Empty)
  <2>1. toPeer' \subseteq toPeer /\ toFw' = toFw \cup {<<c, r>>} /\ UNCHANGED <<plan, peer, pcbVars, sktVars>>
    BY <1>16 DEF PeerRefuses
  <2>2. r \in Segments
    <3>1. x[2] \in Segments
      BY DEF Inv, TypeOK
    <3> QED BY <3>1, Numbers DEF Segment, Segments, Payloads, Empty
  <2> HIDE DEF r
  <2>3. UNCHANGED <<plan, peer, pcb, clientList, curConnections, listenSem, skt>>
        /\ UNCHANGED <<plan, pcbVars, sktVars>>
    BY <2>1 DEF pcbVars, sktVars
  <2>4. toFw' \subseteq Clients \X Segments /\ toPeer' \subseteq Clients \X Segments
    BY <2>1, <2>2 DEF Inv, TypeOK
  <2> QED BY <2>3, <2>4 DEF Inv, TypeOK, PeersStarted, Listed, Open
<1> QED
  BY <1>9, <1>10, <1>11, <1>12, <1>13, <1>14, <1>15, <1>16 DEF Client

-----------------------------------------------------------------------------
(* Whose connection a socket holds                                         *)

\* A socket holds an open connection that was accepted for it.  This holds
\* even when two clients have the same port.
Owned ==
    \A t \in Tasks : skt[t].pcb # None =>
        skt[t].pcb \in Open /\ pcb[skt[t].pcb].accepted /\ pcb[skt[t].pcb].skt = t

\* A step keeps Owned when no socket gets a connection, and the connections
\* that sockets still hold stay theirs.
LEMMA OwnedKept ==
  ASSUME Owned,
         \A t \in Tasks : skt'[t].pcb = None \/
            /\ skt'[t].pcb = skt[t].pcb
            /\ skt[t].pcb \in Open => /\ skt[t].pcb \in Open'
                                      /\ pcb'[skt[t].pcb].accepted = pcb[skt[t].pcb].accepted
                                      /\ pcb'[skt[t].pcb].skt = pcb[skt[t].pcb].skt
  PROVE  Owned'
BY DEF Owned

\* The socket of a connection of which the firmware keeps the state.
LEMMA PostOwner ==
  ASSUME TypeOK, NEW s \in Tasks \cup {Listener}, NEW rx \in Nat, NEW tx \in Nat,
         Post(s, rx, tx) \/ (UNCHANGED sktVars /\ rx = 0)
  PROVE  \A t \in Tasks :
            /\ skt'[t].pcb = skt[t].pcb /\ skt'[t].at = skt[t].at
            /\ skt'[t].rxSem = IF t = s THEN skt[t].rxSem + rx ELSE skt[t].rxSem
<1>1. \A t \in Tasks : skt[t] \in Skts
  BY DEF TypeOK
<1>2. CASE UNCHANGED sktVars /\ rx = 0
  <2>1. \A t \in Tasks : skt'[t] = skt[t] /\ skt[t].rxSem \in Nat
    BY <1>1, <1>2, SktTypes DEF sktVars
  <2>2. \A n \in Nat : n + rx = n
    BY <1>2
  <2> QED BY <2>1, <2>2
<1>3. CASE Post(s, rx, tx) /\ s = Listener
  <2>1. skt' = skt /\ s \notin Tasks
    BY <1>3, TcpAssumption DEF Post
  <2> QED BY <2>1
<1>4. CASE Post(s, rx, tx) /\ s # Listener
  <2>1. s \in Tasks /\ skt' = [skt EXCEPT ![s].rxSem = @ + rx, ![s].txSem = @ + tx]
    BY <1>4 DEF Post
  <2> QED BY <1>1, <2>1 DEF TypeOK, Skts
<1> QED BY <1>2, <1>3, <1>4

\* What a socket is after its connection is removed.
LEMMA OrphanOwner ==
  ASSUME NEW p \in Pcbs, NEW skts \in [Tasks -> Skts], NEW t \in Tasks
  PROVE  Orphan(p, skts)[t] = IF p.accepted /\ p.skt = t
                              THEN [skts[t] EXCEPT !.pcb = None, !.rxSem = @ + 1] ELSE skts[t]
BY DEF Orphan

\* What a connection is after another, or itself, is removed.
LEMMA UnlinkPcbs ==
  ASSUME NEW c \in Clients, Victim(c) \in Clients, NEW pcbs \in [Clients -> Pcbs],
         Unlink(pcbs, c)
  PROVE  /\ pcb'[Victim(c)] = NoPcb
         /\ \A d \in Clients \ {Victim(c), c} : pcb'[d] = pcbs[d]
         /\ c # Victim(c) => /\ pcb'[c].state = "CLOSED" /\ pcb'[c].accepted = pcbs[c].accepted
                             /\ pcb'[c].skt = pcbs[c].skt
<1> DEFINE v == Victim(c)
           closed == [pcbs[c] EXCEPT !.txQ = <<>>, !.rxQ = <<>>, !.state = "CLOSED"]
<1>1. pcb' = [pcbs EXCEPT ![c] = closed, ![v] = NoPcb]
  BY DEF Unlink
<1>2. closed.state = "CLOSED" /\ closed.accepted = pcbs[c].accepted /\ closed.skt = pcbs[c].skt
  BY DEF Pcbs
<1> HIDE DEF closed, v
<1>3. v \in Clients
  BY DEF v
<1> QED BY <1>1, <1>2, <1>3 DEF v

LEMMA OwnedGoesOn ==
  ASSUME Inv, Owned, NEW c \in Open, NEW p \in Pcbs, NEW rx \in Nat, NEW tx \in Nat,
         GoesOn(c, p, rx, tx)
  PROVE  Owned'
<1>1. pcb \in [Clients -> Pcbs] /\ c \in Clients /\ p.skt \in Tasks \cup {Listener}
  BY PcbFields DEF Inv, TypeOK, Open
<1>2. pcb' = [pcb EXCEPT ![c] = p] /\ p.state # "NONE" /\ p.accepted = pcb[c].accepted /\ p.skt = pcb[c].skt
  BY DEF GoesOn
<1>3. \A t \in Tasks : skt'[t].pcb = skt[t].pcb
  BY <1>1, PostOwner DEF GoesOn, Inv
<1>4. \A d \in Open : d \in Open' /\ pcb'[d].accepted = pcb[d].accepted /\ pcb'[d].skt = pcb[d].skt
  BY <1>1, <1>2 DEF Open
<1> QED BY <1>3, <1>4, OwnedKept

LEMMA OwnedComes ==
  ASSUME Inv, Owned, NEW c \in Clients, NEW p \in Pcbs, Comes(c, p)
  PROVE  Owned'
<1>1. pcb \in [Clients -> Pcbs] /\ pcb' = [pcb EXCEPT ![c] = p] /\ pcb[c].state = "NONE" /\ skt' = skt
  BY DEF Inv, TypeOK, Comes
<1>2. \A d \in Open : d \in Open' /\ pcb'[d].accepted = pcb[d].accepted /\ pcb'[d].skt = pcb[d].skt
  BY <1>1 DEF Open
<1> QED BY <1>1, <1>2, OwnedKept

LEMMA OwnedRemoval ==
  ASSUME Inv, Owned, NEW c \in Open, NEW pcbs, Tick(pcbs), Unlink(pcbs, c),
         \A t \in Tasks : skt'[t].pcb \in {Orphan(pcb[Victim(c)], skt)[t].pcb, None}
  PROVE  Owned'
<1> DEFINE v == Victim(c)
<1>1. /\ v \in Clients /\ c \in Clients /\ pcb[v] \in Pcbs /\ skt \in [Tasks -> Skts]
      /\ pcbs \in [Clients -> Pcbs]
  BY VictimListed DEF Inv, TypeOK, Open, Tick
<1>2. \A d \in Open \ {v} : d \in Open' /\ pcb'[d].accepted = pcb[d].accepted /\ pcb'[d].skt = pcb[d].skt
  <2>1. \A d \in Clients : /\ pcbs[d].state = pcb[d].state /\ pcbs[d].accepted = pcb[d].accepted
                           /\ pcbs[d].skt = pcb[d].skt
    BY DEF Tick, Same
  <2>2. \A d \in Clients \ {v, c} : pcb'[d] = pcbs[d]
    BY <1>1, UnlinkPcbs
  <2>3. c # v => /\ pcb'[c].state = "CLOSED" /\ pcb'[c].accepted = pcbs[c].accepted
                 /\ pcb'[c].skt = pcbs[c].skt
    BY <1>1, UnlinkPcbs
  <2> HIDE DEF v
  <2> QED BY <2>1, <2>2, <2>3 DEF Open
<1>3. ASSUME NEW t \in Tasks, skt'[t].pcb # None
      PROVE  skt'[t].pcb = skt[t].pcb /\ (skt[t].pcb \in Open => skt[t].pcb \in Open \ {v})
  <2>1. skt'[t].pcb = Orphan(pcb[v], skt)[t].pcb /\ skt[t] \in Skts
    BY <1>1, <1>3
  <2>2. ~(pcb[v].accepted /\ pcb[v].skt = t)
    <3> SUFFICES ASSUME pcb[v].accepted /\ pcb[v].skt = t PROVE FALSE
      OBVIOUS
    <3>1. Orphan(pcb[v], skt)[t] = [skt[t] EXCEPT !.pcb = None, !.rxSem = @ + 1]
      BY <1>1, OrphanOwner
    <3>2. Orphan(pcb[v], skt)[t].pcb = None
      BY <2>1, <3>1 DEF Skts
    <3> QED BY <1>3, <2>1, <3>2
  <2>3. skt'[t].pcb = skt[t].pcb
    BY <1>1, <2>1, <2>2, OrphanOwner
  <2>4. skt[t].pcb # v
    BY <1>3, <2>2, <2>3 DEF Owned
  <2> QED BY <2>3, <2>4
<1> HIDE DEF v
<1> QED BY <1>2, <1>3, OwnedKept

LEMMA OwnedTicked ==
  ASSUME Inv, Owned, NEW pcbs, Tick(pcbs), pcb' = pcbs, UNCHANGED sktVars
  PROVE  Owned'
<1>1. skt' = skt /\ \A d \in Clients : /\ pcb'[d].state = pcb[d].state
                                       /\ pcb'[d].accepted = pcb[d].accepted /\ pcb'[d].skt = pcb[d].skt
  BY DEF Tick, Same, sktVars
<1>2. \A d \in Open : d \in Open' /\ pcb'[d].accepted = pcb[d].accepted /\ pcb'[d].skt = pcb[d].skt
  BY <1>1 DEF Open
<1> QED BY <1>1, <1>2, OwnedKept

LEMMA NoTick ==
  ASSUME Inv
  PROVE  Tick(pcb)
BY DEF Tick, Same, Inv, TypeOK

LEMMA OwnedInput ==
  ASSUME Inv, Owned, InputStep
  PROVE  Owned'
<1>1. CASE UNCHANGED <<pcbVars, sktVars>>
  BY <1>1, NoTick, OwnedTicked DEF pcbVars
<1>2. CASE \E c \in Clients, p \in Pcbs : Comes(c, p)
  BY <1>2, OwnedComes
<1>3. CASE \E c \in Open, p \in Pcbs, rx \in Nat, tx \in Nat : GoesOn(c, p, rx, tx)
  BY <1>3, OwnedGoesOn
<1>4. CASE \E c \in Open : removePCB(pcb, c)
  BY <1>4, NoTick, OwnedRemoval DEF removePCB
<1> QED BY <1>1, <1>2, <1>3, <1>4 DEF InputStep

LEMMA OwnedTimer ==
  ASSUME Inv, Owned, TimerStep
  PROVE  Owned'
BY OwnedRemoval, OwnedTicked DEF TimerStep, removePCB

LEMMA OwnedLink ==
  ASSUME Inv, Owned, LinkStep
  PROVE  Owned'
<1>1. ASSUME NEW t \in Tasks PROVE skt'[t].pcb = None
  <2>1. skt[t] \in Skts /\ (skt[t].pcb # None => skt[t].pcb \in Open)
    BY DEF Inv, TypeOK, Owned
  <2>2. skt'[t] = IF skt[t].pcb \in Open
                  THEN [skt[t] EXCEPT !.pcb = None, !.rxSem = @ + 1] ELSE skt[t]
    BY DEF LinkStep
  <2>3. [skt[t] EXCEPT !.pcb = None, !.rxSem = @ + 1].pcb = None
    BY <2>1 DEF Skts
  <2> QED BY <2>1, <2>2, <2>3
<1> QED BY <1>1, OwnedKept

-----------------------------------------------------------------------------
(* The tasks                                                               *)

\* A socket k with its connection p: a task that may still wait in rtSktRx has
\* its tokens, the packets in the window are counted and bounded, and a task
\* in the server's own code may send another.
Good(k, p) ==
    /\ k.at # "free" /\ Window(p)
    /\ k.at \in {"idle", "sent", "wait"} => k.rxSem >= Len(p.rxQ) /\ p.state # "FIN_WAIT_1"
    /\ p.state # "FIN_WAIT_1" => /\ p.sendPkts <= MaxSendPkts
                                 /\ k.at = "idle" => p.sendPkts < MaxSendPkts

\* A socket without a connection: its task has the token that tells it so.
Lone(k) == k.at \in {"idle", "sent", "wait"} => k.rxSem >= 1

\* A connection that is not accepted yet.
Fresh(p) ==
    p.skt = Listener /\ Window(p) /\ p.sendPkts = 0 /\ p.state # "FIN_WAIT_1"

\* The socket of t becomes s, and its connection, if it has one, p.
Holds(t, s, p) ==
    LET c == skt[t].pcb IN
    /\ skt' = [skt EXCEPT ![t] = s] /\ s.pcb = c
    /\ UNCHANGED <<plan, peer, clientList, curConnections, listenSem>>
    /\ IF c = None THEN pcb' = pcb /\ (Lone(skt[t]) => Lone(s))
       ELSE /\ pcb' = [pcb EXCEPT ![c] = p] /\ p.state # "NONE"
            /\ p.accepted = pcb[c].accepted /\ p.skt = pcb[c].skt
            /\ Good(skt[t], pcb[c]) => Good(s, p)

\* t accepts the connection c.
Accepts(t, c) ==
    /\ skt[t].at = "free" /\ pcb[c].state = "ESTABLISHED" /\ ~pcb[c].accepted
    /\ pcb' = [pcb EXCEPT ![c].skt = t, ![c].accepted = TRUE]
    /\ skt' = [skt EXCEPT ![t] = [NoSkt EXCEPT !.at = "idle", !.pcb = c, !.rxSem = Len(pcb[c].rxQ)]]
    /\ listenSem' \in Nat /\ UNCHANGED <<plan, peer, clientList, curConnections>>

\* t gives its connection up, after its client.
GivesUp(t) ==
    LET c == skt[t].pcb
        v == Victim(c)
    IN  /\ c # None /\ Unlink(pcb, c) /\ skt' = [Orphan(pcb[v], skt) EXCEPT ![t] = NoSkt]
        /\ Tell(pcb[v]) /\ UNCHANGED <<plan, peer>>

ServerStep ==
    /\ SegmentsInFlight
    /\ \/ \E t \in Tasks, s \in Skts, p \in Pcbs : Holds(t, s, p)
       \/ \E t \in Tasks, c \in Open : Accepts(t, c)
       \/ listenSem' \in Nat /\ UNCHANGED <<plan, peer, pcbVars, skt>>
       \/ \E t \in Tasks : GivesUp(t)

\* A task that only goes on in its calls.
LEMMA MovesHolds ==
  ASSUME Inv, Owned, NEW t \in Tasks, NEW s \in Skts, s.pcb = skt[t].pcb, Moves(t, s),
         UNCHANGED <<toPeer, pcbVars>>,
         skt[t].pcb = None => (Lone(skt[t]) => Lone(s)),
         skt[t].pcb # None => (Good(skt[t], pcb[skt[t].pcb]) => Good(s, pcb[skt[t].pcb]))
  PROVE  ServerStep
<1>1. UNCHANGED <<plan, peer, clientList, curConnections, listenSem, toFw, toPeer, pcb>>
      /\ skt' = [skt EXCEPT ![t] = s]
  BY DEF Moves, pcbVars
<1>2. SegmentsInFlight
  BY <1>1 DEF SegmentsInFlight, Inv, TypeOK
<1>3. CASE skt[t].pcb = None
  <2>1. Holds(t, s, NoPcb)
    BY <1>1, <1>3 DEF Holds
  <2> QED BY <1>2, <2>1, EmptyPcb DEF ServerStep
<1>4. CASE skt[t].pcb # None
  <2> DEFINE c == skt[t].pcb
  <2>1. c \in Clients /\ pcb[c] \in Pcbs /\ pcb[c].state # "NONE" /\ pcb \in [Clients -> Pcbs]
    BY <1>4 DEF Owned, Open, Inv, TypeOK
  <2>2. pcb' = [pcb EXCEPT ![c] = pcb[c]]
    BY <1>1, <2>1
  <2>3. Holds(t, s, pcb[c])
    BY <1>1, <1>4, <2>1, <2>2 DEF Holds
  <2> QED BY <1>2, <2>1, <2>3 DEF ServerStep
<1> QED BY <1>3, <1>4

LEMMA AcceptSteps ==
  ASSUME Inv, Owned, NEW t \in Tasks, rtSktAccept(t)
  PROVE  ServerStep
<1> DEFINE waiting == {i \in DOMAIN clientList : ~pcb[clientList[i]].accepted}
           first   == CHOOSE i \in waiting : \A j \in waiting : i <= j
           c       == clientList[first]
<1>1. /\ skt[t].at = "free" /\ listenSem > 0 /\ listenSem' = listenSem - 1
      /\ IF waiting # {} /\ pcb[c].state = "ESTABLISHED"
         THEN /\ skt' = [skt EXCEPT ![t] = [NoSkt EXCEPT !.at = "idle", !.pcb = c,
                                                         !.rxSem = Len(pcb[c].rxQ)]]
              /\ pcb' = [pcb EXCEPT ![c].skt = t, ![c].accepted = TRUE]
         ELSE UNCHANGED <<skt, pcb>>
      /\ UNCHANGED <<plan, peer, netVars, clientList, curConnections>>
  BY DEF rtSktAccept
<1>2. listenSem' \in Nat
  <2>1. listenSem \in Nat /\ listenSem > 0 /\ listenSem' = listenSem - 1
    BY <1>1, Zenon DEF Inv, TypeOK
  <2> QED BY <2>1
<1>3. SegmentsInFlight
  BY <1>1 DEF netVars, SegmentsInFlight, Inv, TypeOK
<1>4. CASE waiting # {} /\ pcb[c].state = "ESTABLISHED"
  <2>1. waiting \in SUBSET Nat
    BY DEF Inv, TypeOK
  <2>2. first \in waiting
    <3>1. \E i \in waiting : \A j \in waiting : i <= j
      <4> HIDE DEF waiting
      <4> QED BY <1>4, <2>1, LeastElement
    <3> HIDE DEF waiting
    <3> QED BY <3>1
  <2>3. c \in Open /\ ~pcb[c].accepted
    <3>1. c \in Range(clientList)
      BY <2>2 DEF Range
    <3> QED BY <2>2, <3>1 DEF Inv, Listed
  <2> HIDE DEF c, waiting
  <2>4. Accepts(t, c)
    BY <1>1, <1>2, <1>4, <2>3 DEF Accepts
  <2> QED BY <1>3, <2>3, <2>4 DEF ServerStep
<1>5. CASE ~(waiting # {} /\ pcb[c].state = "ESTABLISHED")
  <2>1. UNCHANGED <<plan, peer, pcbVars, skt>>
    BY <1>1, <1>5 DEF pcbVars
  <2> QED BY <1>2, <1>3, <2>1 DEF ServerStep
<1> QED BY <1>4, <1>5

LEMMA RxSteps ==
  ASSUME Inv, Owned, NEW t \in Tasks, rtSktRx(t)
  PROVE  ServerStep
<1> DEFINE k == skt[t]
           s == [k EXCEPT !.rxSem = k.rxSem - 1]
           c == k.pcb
<1>1. k \in Skts /\ k.at = "idle" /\ k.rxSem > 0 /\ k.rxSem \in Nat
  <2>1. k \in Skts
    BY DEF Inv, TypeOK
  <2>2. k.rxSem > 0 /\ [k EXCEPT !.rxSem = @ - 1].at = "idle"
    BY DEF rtSktRx
  <2>3. [k EXCEPT !.rxSem = @ - 1].at = k.at
    BY <2>1 DEF Skts
  <2> QED BY <2>1, <2>2, <2>3, SktTypes
<1>2. s \in Skts /\ s.at = "idle" /\ s.pcb = c /\ s.rxSem = k.rxSem - 1 /\ c \in Clients \cup {None}
  BY <1>1 DEF Skts
<1>3. [s EXCEPT !.at = "close"] \in Skts /\ [s EXCEPT !.at = "close"].at = "close"
      /\ [s EXCEPT !.at = "close"].pcb = c
  BY <1>2 DEF Skts, Points
<1>4. UNCHANGED <<toPeer, clientList, curConnections>>
  BY DEF rtSktRx
<1>5. CASE c = None
  <2>1. Moves(t, [s EXCEPT !.at = "close"]) /\ UNCHANGED pcb
    BY <1>5 DEF rtSktRx
  <2>2. Lone([s EXCEPT !.at = "close"])
    BY <1>3 DEF Lone
  <2> HIDE DEF s
  <2> QED BY <1>3, <1>4, <1>5, <2>1, <2>2, MovesHolds DEF pcbVars
<1>6. CASE c # None
  <2> DEFINE p == pcb[c]
             q == p.rxQ
             z == IF p.state = "TIME_WAIT" /\ Len(q) <= 1 THEN [s EXCEPT !.at = "close"] ELSE s
             r == IF q = <<>> THEN p
                  ELSE [p EXCEPT !.rxQ = Tail(q), !.read = p.read + 1, !.rTime = 0]
  <2>1. c \in Clients /\ p \in Pcbs /\ p.state # "NONE" /\ pcb \in [Clients -> Pcbs]
    BY <1>6 DEF Owned, Open, Inv, TypeOK
  <2>2. q \in Seq(Payloads) /\ Len(q) \in Nat /\ p.read + 1 \in Nat
    <3>1. q \in Seq(Payloads) /\ p.read \in Nat
      BY <2>1, PcbFields
    <3> QED BY <3>1
  <2>3. Moves(t, z) /\ pcb' = [pcb EXCEPT ![c] = r]
    <3>1. Moves(t, z) /\ pcb' = IF q = <<>> THEN pcb
                                ELSE [pcb EXCEPT ![c].rxQ = Tail(q), ![c].read = @ + 1, ![c].rTime = 0]
      BY <1>6 DEF rtSktRx
    <3> QED BY <2>1, <3>1
  <2>4. /\ r \in Pcbs /\ r.state = p.state /\ r.accepted = p.accepted /\ r.skt = p.skt
        /\ r.sendPkts = p.sendPkts /\ r.txQ = p.txQ
        /\ r.rxQ = IF q = <<>> THEN q ELSE Tail(q)
    <3>1. CASE q = <<>>
      BY <2>1, <3>1
    <3>2. CASE q # <<>>
      <4> DEFINE l == Tail(q)
                 n == p.read + 1
      <4>1. l \in Seq(Payloads) /\ n \in Nat
        BY <2>2, <3>2
      <4>2. r = [p EXCEPT !.rxQ = l, !.read = n, !.rTime = 0]
        BY <3>2
      <4> HIDE DEF l, n, r, p
      <4>3. /\ r \in Pcbs /\ r.state = p.state /\ r.accepted = p.accepted /\ r.skt = p.skt
            /\ r.sendPkts = p.sendPkts /\ r.txQ = p.txQ /\ r.rxQ = l
        BY <2>1, <4>1, <4>2 DEF Pcbs
      <4> QED BY <3>2, <4>3 DEF l
    <3> QED BY <3>1, <3>2
  <2>5. Len(r.rxQ) = (IF Len(q) = 0 THEN 0 ELSE Len(q) - 1)
    <3> HIDE DEF r, q
    <3> QED BY <2>2, <2>4
  <2>6. z \in Skts /\ z.pcb = c /\ z.at \in {"idle", "close"} /\ (z.at = "idle" => z.rxSem = k.rxSem - 1)
    BY <1>2, <1>3
  <2> HIDE DEF z, r, s, q, p, k
  <2>7. ASSUME Good(k, p) PROVE Good(z, r)
    <3>1. Window(r)
      BY <2>4, <2>7, WindowSame DEF Good
    <3>2. z.at = "idle" => z.rxSem >= Len(r.rxQ)
      <4>1. k.rxSem >= Len(q)
        BY <1>1, <2>7 DEF Good, q
      <4> QED BY <1>1, <2>2, <2>5, <2>6, <4>1
    <3> QED BY <1>1, <2>4, <2>6, <2>7, <3>1, <3>2 DEF Good
  <2>8. Holds(t, z, r)
    BY <1>4, <1>6, <2>1, <2>3, <2>4, <2>6, <2>7 DEF Holds, Moves, p, k
  <2>9. SegmentsInFlight
    BY <1>4, <2>3 DEF Moves, SegmentsInFlight, Inv, TypeOK
  <2> QED BY <2>4, <2>6, <2>8, <2>9 DEF ServerStep
<1> QED BY <1>5, <1>6

LEMMA SendSteps ==
  ASSUME Inv, Owned, NEW t \in Tasks, rtSktSend(t)
  PROVE  ServerStep
<1> DEFINE k == skt[t]
           c == k.pcb
<1>1. k \in Skts /\ k.at = "idle" /\ c \in Clients \cup {None}
  BY SktTypes DEF rtSktSend, Inv, TypeOK
<1>2. UNCHANGED <<clientList, curConnections>>
  BY DEF rtSktSend
<1>3. CASE c = None
  <2> DEFINE s == [k EXCEPT !.at = "close"]
  <2>1. Moves(t, s) /\ UNCHANGED <<pcb, toPeer>>
    BY <1>3 DEF rtSktSend
  <2>2. s \in Skts /\ s.at = "close" /\ s.pcb = c
    BY <1>1 DEF Skts, Points
  <2> HIDE DEF s
  <2>3. Lone(s)
    BY <2>2 DEF Lone
  <2> QED BY <1>2, <1>3, <2>1, <2>2, <2>3, MovesHolds DEF pcbVars
<1>4. CASE c # None
  <2> DEFINE p == pcb[c]
             s == [k EXCEPT !.at = "sent"]
             r == tcpSend(p, "DATA")
             n == (r.pcb.sendPkts + 1) % 32
             q == [r.pcb EXCEPT !.sendPkts = n]
  <2>1. c \in Clients /\ p \in Pcbs /\ p.state # "NONE" /\ p.accepted /\ pcb \in [Clients -> Pcbs]
    BY <1>4 DEF Owned, Open, Inv, TypeOK
  <2>2. Moves(t, s) /\ pcb' = [pcb EXCEPT ![c] = [r.pcb EXCEPT !.sendPkts = (@ + 1) % 32]] /\ Transmit(c, r.seg)
    BY <1>4 DEF rtSktSend
  <2>3. s \in Skts /\ s.at = "sent" /\ s.pcb = c /\ s.rxSem = k.rxSem
    BY <1>1 DEF Skts, Points
  <2>4. /\ r.pcb \in Pcbs /\ r.seg \in SUBSET Segments /\ Same(p, r.pcb) /\ r.pcb = Sending(p, "DATA").pcb
    BY <2>1, tcpSendTypes
  <2> HIDE DEF r
  <2>5. n \in 0..31 /\ (\A a \in 0..30 : r.pcb.sendPkts = a => n = a + 1)
    <3>1. r.pcb.sendPkts \in 0..31
      BY <2>4, PcbFields
    <3>2. \A a \in 0..31 : (a + 1) % 32 \in 0..31 /\ (a \in 0..30 => (a + 1) % 32 = a + 1)
      OBVIOUS
    <3> QED BY <3>1, <3>2
  <2>6. pcb' = [pcb EXCEPT ![c] = q]
    BY <2>2, <2>4 DEF Pcbs
  <2> HIDE DEF n
  <2>7. /\ q \in Pcbs /\ q.state = p.state /\ q.accepted = p.accepted /\ q.skt = p.skt /\ q.rxQ = p.rxQ
        /\ q.sendPkts = n /\ q.txQ = Sending(p, "DATA").pcb.txQ
    <3> HIDE DEF p
    <3> QED BY <2>4, <2>5 DEF Pcbs, Same
  <2>8. ASSUME Good(k, p) PROVE Good(s, q)
    <3>1. p.state \in {"ESTABLISHED", "LAST_ACK", "TIME_WAIT"} /\ Window(p)
      <4>1. p.state # "FIN_WAIT_1" /\ Window(p)
        BY <1>1, <2>8 DEF Good
      <4>2. p.state \in States
        BY <2>1, PcbFields
      <4> HIDE DEF p
      <4> QED BY <2>1, <4>1, <4>2 DEF Window, States
    <3>2. p.sendPkts < MaxSendPkts /\ p.sendPkts \in 0..31 /\ MaxSendPkts \in 1..31
      <4>1. p.sendPkts \in 0..31
        BY <2>1, PcbFields
      <4> QED BY <1>1, <2>8, <3>1, <4>1, TcpAssumption DEF Good
    <3>3. p.sendPkts \in 0..30
      <4>1. \A a \in 0..31, b \in 1..31 : a < b => a \in 0..30
        OBVIOUS
      <4> QED BY <3>2, <4>1
    <3>4. q.sendPkts = p.sendPkts + 1 /\ q.sendPkts <= MaxSendPkts
      <4>1. q.sendPkts = p.sendPkts + 1
        BY <2>4, <2>5, <2>7, <3>3 DEF Same
      <4>2. \A a \in 0..31, b \in 1..31 : a < b => a + 1 <= b
        OBVIOUS
      <4> QED BY <3>2, <4>1, <4>2
    <3> HIDE DEF q, s, p
    <3>5. Window(q)
      BY <2>1, <2>7, <3>1, <3>4, WindowData DEF p
    <3>6. k.rxSem >= Len(p.rxQ)
      BY <1>1, <2>8 DEF Good
    <3> QED BY <2>3, <2>7, <3>1, <3>4, <3>5, <3>6 DEF Good
  <2> HIDE DEF q, s
  <2>9. Holds(t, s, q)
    BY <1>2, <1>4, <2>1, <2>2, <2>3, <2>6, <2>7, <2>8 DEF Holds, Moves
  <2>10. SegmentsInFlight
    <3>1. toPeer' \subseteq Clients \X Segments
      BY <2>1, <2>2, <2>4, TransmitTypes DEF Inv
    <3> QED BY <2>2, <3>1 DEF Moves, SegmentsInFlight, Inv, TypeOK
  <2> QED BY <2>3, <2>7, <2>9, <2>10 DEF ServerStep
<1> QED BY <1>3, <1>4

LEMMA SendTestSteps ==
  ASSUME Inv, Owned, NEW t \in Tasks, SendTest(t)
  PROVE  ServerStep
<1> DEFINE k == skt[t]
           c == k.pcb
<1>1. k \in Skts /\ k.at = "sent" /\ UNCHANGED <<toPeer, pcbVars>>
  BY DEF SendTest, Inv, TypeOK
<1>2. PICK full \in IF c = None THEN BOOLEAN ELSE {pcb[c].sendPkts >= MaxSendPkts} :
         Moves(t, [k EXCEPT !.at = IF full THEN "wait" ELSE "idle"])
  BY DEF SendTest
<1> DEFINE a == IF full THEN "wait" ELSE "idle"
           s == [k EXCEPT !.at = a]
<1>3. s \in Skts /\ s.at = a /\ s.pcb = c /\ s.rxSem = k.rxSem
  BY <1>1 DEF Skts, Points
<1>4. a \in {"idle", "wait"} /\ (c # None /\ a = "idle" => ~(pcb[c].sendPkts >= MaxSendPkts))
  BY <1>2
<1>5. Moves(t, s)
  BY <1>2
<1> HIDE DEF s, a
<1>6. Lone(k) => Lone(s)
  BY <1>1, <1>3 DEF Lone
<1>7. ASSUME c # None, Good(k, pcb[c]) PROVE Good(s, pcb[c])
  <2>1. pcb[c].sendPkts \in 0..31
    BY <1>7, PcbFields DEF Owned, Open, Inv, TypeOK
  <2>2. a = "idle" => pcb[c].sendPkts < MaxSendPkts
    <3>1. \A x \in 0..31, y \in 1..31 : ~(x >= y) => x < y
      OBVIOUS
    <3> QED BY <1>4, <1>7, <2>1, <3>1, TcpAssumption
  <2> QED BY <1>1, <1>3, <1>4, <1>7, <2>2 DEF Good
<1> QED BY <1>1, <1>3, <1>5, <1>6, <1>7, MovesHolds

LEMMA SendWaitSteps ==
  ASSUME Inv, Owned, NEW t \in Tasks, SendWait(t)
  PROVE  ServerStep
<1> DEFINE k == skt[t]
           c == k.pcb
           n == Down(k.txSem)
           s == [k EXCEPT !.txSem = n]
           a == IF c = None THEN "close" ELSE IF pcb[c].sendPkts < MaxSendPkts THEN "idle" ELSE "sent"
           z == [s EXCEPT !.at = a]
<1>1. k \in Skts /\ k.txSem \in Nat
  BY SktTypes DEF Inv, TypeOK
<1>2. n \in Nat
  BY <1>1 DEF Down
<1> HIDE DEF n
<1>3. s = [k EXCEPT !.txSem = Down(@)]
  BY <1>1 DEF Skts, n
<1>4. s \in Skts /\ s.at = k.at /\ s.pcb = c /\ s.rxSem = k.rxSem
  BY <1>1, <1>2 DEF Skts
<1>5. s.at = "wait" /\ Moves(t, z) /\ UNCHANGED <<toPeer, pcbVars>>
  BY <1>3, <1>4 DEF SendWait
<1> HIDE DEF s
<1>6. a \in Points /\ (c = None => a = "close")
      /\ (c # None => a \in {"idle", "sent"} /\ (a = "idle" => pcb[c].sendPkts < MaxSendPkts))
  BY DEF Points
<1> HIDE DEF a
<1>7. z \in Skts /\ z.at = a /\ z.pcb = c /\ z.rxSem = k.rxSem
  BY <1>4, <1>6 DEF Skts
<1> HIDE DEF z
<1>8. c = None => Lone(z)
  BY <1>6, <1>7 DEF Lone
<1>9. c # None /\ Good(k, pcb[c]) => Good(z, pcb[c])
  BY <1>4, <1>5, <1>6, <1>7 DEF Good
<1> QED BY <1>5, <1>7, <1>8, <1>9, MovesHolds

\* Into rtSktClose, and on to its FIN.
LEMMA CloseSteps ==
  ASSUME Inv, Owned, NEW t \in Tasks, ServerCloses(t) \/ CloseQueue(t)
  PROVE  ServerStep
<1> DEFINE k == skt[t]
           c == k.pcb
<1>1. k \in Skts /\ UNCHANGED <<toPeer, pcbVars>>
  BY DEF ServerCloses, CloseQueue, Inv, TypeOK
<1>2. PICK a \in {"close", "fin"} : Moves(t, [k EXCEPT !.at = a])
  BY DEF ServerCloses, CloseQueue
<1> DEFINE s == [k EXCEPT !.at = a]
<1>3. s \in Skts /\ s.at = a /\ s.pcb = c
  BY <1>1 DEF Skts, Points
<1>4. Moves(t, s)
  BY <1>2
<1> HIDE DEF s
<1>5. Lone(s) /\ (c # None /\ Good(k, pcb[c]) => Good(s, pcb[c]))
  BY <1>3 DEF Lone, Good
<1> QED BY <1>1, <1>3, <1>4, <1>5, MovesHolds

LEMMA CloseFinSteps ==
  ASSUME Inv, Owned, NEW t \in Tasks, CloseFin(t)
  PROVE  ServerStep
<1> DEFINE k == skt[t]
           c == k.pcb
<1>1. k \in Skts /\ k.at = "fin" /\ c \in Clients \cup {None}
  BY SktTypes DEF CloseFin, Inv, TypeOK
<1>2. UNCHANGED <<clientList, curConnections>>
  BY DEF CloseFin
<1>3. CASE c = None
  <2>1. Moves(t, NoSkt) /\ UNCHANGED <<pcb, toPeer>>
    BY <1>3 DEF CloseFin
  <2>2. NoSkt \in Skts /\ NoSkt.pcb = c /\ Lone(NoSkt)
    BY <1>3 DEF NoSkt, Skts, Points, Lone
  <2> QED BY <1>2, <1>3, <2>1, <2>2, MovesHolds DEF pcbVars
<1>4. CASE c # None
  <2> DEFINE p == pcb[c]
             s == [k EXCEPT !.at = "closing"]
             n == [p EXCEPT !.state = "FIN_WAIT_1"]
             r == tcpSend(n, "FIN")
  <2>1. c \in Clients /\ p \in Pcbs /\ pcb \in [Clients -> Pcbs]
    BY <1>4 DEF Owned, Open, Inv, TypeOK
  <2>2. Moves(t, s) /\ pcb' = [pcb EXCEPT ![c] = r.pcb] /\ Transmit(c, r.seg)
    BY <1>4 DEF CloseFin
  <2>3. s \in Skts /\ s.at = "closing" /\ s.pcb = c
    BY <1>1 DEF Skts, Points
  <2>4. n \in Pcbs /\ n.state = "FIN_WAIT_1" /\ n.accepted = p.accepted /\ n.skt = p.skt
    BY <2>1, PcbUpdates DEF States
  <2> HIDE DEF n
  <2>5. /\ r.pcb \in Pcbs /\ r.seg \in SUBSET Segments /\ r.pcb.state = "FIN_WAIT_1"
        /\ r.pcb.accepted = p.accepted /\ r.pcb.skt = p.skt
    BY <2>4, tcpSendTypes DEF Same
  <2> HIDE DEF r, s
  <2>6. Good(s, r.pcb)
    BY <2>3, <2>5 DEF Good, Window
  <2>7. Holds(t, s, r.pcb)
    BY <1>2, <1>4, <2>1, <2>2, <2>3, <2>5, <2>6 DEF Holds, Moves
  <2>8. SegmentsInFlight
    <3>1. toPeer' \subseteq Clients \X Segments
      BY <2>1, <2>2, <2>5, TransmitTypes DEF Inv
    <3> QED BY <2>2, <3>1 DEF Moves, SegmentsInFlight, Inv, TypeOK
  <2> QED BY <2>3, <2>5, <2>7, <2>8 DEF ServerStep
<1> QED BY <1>3, <1>4

LEMMA CloseWaitSteps ==
  ASSUME Inv, Owned, NEW t \in Tasks, CloseWait(t)
  PROVE  ServerStep
<1> DEFINE k == skt[t]
           c == k.pcb
           n == Down(k.rxSem)
           s == [k EXCEPT !.rxSem = n]
           z == [s EXCEPT !.count = s.count + 1]
<1>1. k \in Skts /\ k.rxSem \in Nat /\ k.count + 1 \in Nat
  <2>1. k \in Skts
    BY DEF Inv, TypeOK
  <2>2. k.rxSem \in Nat /\ k.count \in Nat
    BY <2>1, SktTypes
  <2> QED BY <2>1, <2>2
<1>2. n \in Nat
  BY <1>1 DEF Down
<1> HIDE DEF n
<1>3. s = [k EXCEPT !.rxSem = Down(@)]
  BY <1>1 DEF Skts, n
<1>4. s \in Skts /\ s.at = k.at /\ s.pcb = c /\ s.count = k.count
  BY <1>1, <1>2 DEF Skts
<1>5. /\ s.at = "closing"
      /\ IF c = None
         THEN Moves(t, NoSkt) /\ UNCHANGED pcbVars
         ELSE IF s.count = CloseTries
         THEN LET v == pcb[Victim(c)] IN
              /\ Unlink(pcb, c)
              /\ skt' = [Orphan(v, skt) EXCEPT ![t] = NoSkt]
              /\ Tell(v)
              /\ UNCHANGED <<plan, peer, toFw>>
         ELSE Moves(t, [s EXCEPT !.count = @ + 1]) /\ UNCHANGED pcbVars
      /\ UNCHANGED toPeer
  <2> HIDE DEF s
  <2> QED BY <1>3, <1>4 DEF CloseWait
<1>6. [s EXCEPT !.count = @ + 1] = z
  BY <1>4 DEF Skts
<1> HIDE DEF s
<1>7. CASE c = None
  <2>1. NoSkt \in Skts /\ NoSkt.pcb = c /\ Lone(NoSkt)
    BY <1>7 DEF NoSkt, Skts, Points, Lone
  <2> QED BY <1>5, <1>7, <2>1, MovesHolds
<1>8. CASE c # None /\ s.count = CloseTries
  <2>1. /\ Unlink(pcb, c) /\ skt' = [Orphan(pcb[Victim(c)], skt) EXCEPT ![t] = NoSkt]
        /\ Tell(pcb[Victim(c)]) /\ UNCHANGED <<plan, peer, toFw, toPeer>>
    BY <1>5, <1>8
  <2>2. GivesUp(t)
    BY <1>8, <2>1 DEF GivesUp
  <2> QED BY <2>1, <2>2 DEF ServerStep, SegmentsInFlight, Inv, TypeOK
<1>9. CASE c # None /\ s.count # CloseTries
  <2>1. Moves(t, z) /\ UNCHANGED <<toPeer, pcbVars>>
    BY <1>5, <1>6, <1>9
  <2>2. z \in Skts /\ z.at = "closing" /\ z.pcb = c
    BY <1>1, <1>4, <1>5 DEF Skts
  <2> HIDE DEF z
  <2>3. Good(k, pcb[c]) => Good(z, pcb[c])
    BY <1>4, <1>5, <2>2 DEF Good
  <2> QED BY <1>9, <2>1, <2>2, <2>3, MovesHolds
<1> QED BY <1>7, <1>8, <1>9

\* Whatever a task does is one of these steps.
LEMMA ServerSteps ==
  ASSUME Inv, Owned, NEW t \in Tasks,
         rtSktAccept(t) \/ rtSktRx(t) \/ rtSktSend(t) \/ ServerCloses(t) \/ TaskStep(t)
  PROVE  ServerStep
BY AcceptSteps, RxSteps, SendSteps, SendTestSteps, SendWaitSteps, CloseSteps, CloseFinSteps,
   CloseWaitSteps DEF TaskStep

LEMMA HoldsTypes ==
  ASSUME Inv, Owned, SegmentsInFlight, NEW t \in Tasks, NEW s \in Skts, NEW p \in Pcbs,
         Holds(t, s, p)
  PROVE  Inv' /\ Owned'
<1> DEFINE c == skt[t].pcb
<1>1. /\ skt' = [skt EXCEPT ![t] = s] /\ s.pcb = c
      /\ UNCHANGED <<plan, peer, clientList, curConnections, listenSem>>
      /\ c = None => pcb' = pcb
      /\ c # None => /\ pcb' = [pcb EXCEPT ![c] = p] /\ p.state # "NONE"
                     /\ p.accepted = pcb[c].accepted /\ p.skt = pcb[c].skt
  BY DEF Holds
<1>2. pcb \in [Clients -> Pcbs] /\ skt \in [Tasks -> Skts] /\ (c # None => c \in Open)
  BY DEF Inv, TypeOK, Owned
<1> HIDE DEF c
<1>3. /\ pcb' \in [Clients -> Pcbs] /\ Open' = Open
      /\ \A d \in Clients : pcb'[d].accepted = pcb[d].accepted /\ pcb'[d].skt = pcb[d].skt
  BY <1>1, <1>2 DEF Open
<1>4. skt' \in [Tasks -> Skts] /\ \A u \in Tasks : skt'[u].pcb = skt[u].pcb
  BY <1>1, <1>2 DEF c
<1>5. Inv'
  BY <1>1, <1>3, <1>4 DEF SegmentsInFlight, Inv, TypeOK, PeersStarted, Listed
<1>6. Owned'
  BY <1>3, <1>4 DEF Owned, Open
<1> QED BY <1>5, <1>6

LEMMA AcceptsTypes ==
  ASSUME Inv, Owned, SegmentsInFlight, NEW t \in Tasks, NEW c \in Open, Accepts(t, c)
  PROVE  /\ Inv' /\ Owned' /\ Open' = Open
         /\ LET s == skt'[t] p == pcb'[c] IN
            /\ s.at = "idle" /\ s.pcb = c /\ s.rxSem = Len(p.rxQ)
            /\ p.state = "ESTABLISHED" /\ p.accepted /\ p.skt = t /\ p.rxQ = pcb[c].rxQ
            /\ p.txQ = pcb[c].txQ /\ p.sendPkts = pcb[c].sendPkts
         /\ \A d \in Clients \ {c} : pcb'[d] = pcb[d]
         /\ \A u \in Tasks \ {t} : skt'[u] = skt[u]
<1> DEFINE k == pcb[c]
           p == [k EXCEPT !.skt = t, !.accepted = TRUE]
           l == Len(k.rxQ)
           s == [NoSkt EXCEPT !.at = "idle", !.pcb = c, !.rxSem = l]
<1>1. /\ c \in Clients /\ k \in Pcbs /\ k.state = "ESTABLISHED" /\ ~k.accepted
      /\ pcb \in [Clients -> Pcbs] /\ skt \in [Tasks -> Skts]
  BY DEF Accepts, Inv, TypeOK, Open
<1>2. l \in Nat
  <2>1. k.rxQ \in Seq(Payloads)
    BY <1>1, PcbFields
  <2> QED BY <2>1
<1>3. /\ pcb' = [pcb EXCEPT ![c] = p] /\ skt' = [skt EXCEPT ![t] = s]
      /\ listenSem' \in Nat /\ UNCHANGED <<plan, peer, clientList, curConnections>>
  BY <1>1 DEF Accepts
<1>4. s \in Skts /\ s.at = "idle" /\ s.pcb = c /\ s.rxSem = l
  <2> HIDE DEF l
  <2> QED BY <1>1, <1>2 DEF NoSkt, Skts, Points
<1>5. /\ p \in Pcbs /\ p.state = "ESTABLISHED" /\ p.accepted /\ p.skt = t /\ p.rxQ = k.rxQ
      /\ p.txQ = k.txQ /\ p.sendPkts = k.sendPkts
  <2> HIDE DEF k
  <2> QED BY <1>1 DEF Pcbs
<1> HIDE DEF p, s
<1>6. /\ skt' \in [Tasks -> Skts] /\ skt'[t] = s /\ \A u \in Tasks \ {t} : skt'[u] = skt[u]
      /\ pcb' \in [Clients -> Pcbs] /\ pcb'[c] = p /\ \A d \in Clients \ {c} : pcb'[d] = pcb[d]
  BY <1>1, <1>3, <1>4, <1>5
<1>7. Open' = Open
  BY <1>1, <1>5, <1>6 DEF Open
<1>8. Inv'
  BY <1>3, <1>6, <1>7 DEF SegmentsInFlight, Inv, TypeOK, PeersStarted, Listed
<1>9. Owned'
  <2> SUFFICES ASSUME NEW u \in Tasks, skt'[u].pcb # None
               PROVE  /\ skt'[u].pcb \in Open' /\ pcb'[skt'[u].pcb].accepted
                      /\ pcb'[skt'[u].pcb].skt = u
    BY DEF Owned
  <2>1. CASE u = t
    BY <1>4, <1>5, <1>6, <1>7, <2>1
  <2>2. CASE u # t
    <3>1. skt'[u].pcb = skt[u].pcb
      BY <1>6, <2>2
    <3>2. skt[u].pcb \in Open /\ pcb[skt[u].pcb].accepted /\ pcb[skt[u].pcb].skt = u
      BY <3>1 DEF Owned
    <3>3. skt[u].pcb # c
      BY <1>1, <3>2
    <3> QED BY <1>6, <1>7, <3>1, <3>2, <3>3 DEF Open
  <2> QED BY <2>1, <2>2
<1> QED BY <1>4, <1>5, <1>6, <1>7, <1>8, <1>9

LEMMA GivesUpTypes ==
  ASSUME Inv, Owned, SegmentsInFlight, NEW t \in Tasks, GivesUp(t)
  PROVE  Inv' /\ Owned'
<1> DEFINE c == skt[t].pcb
           v == Victim(c)
<1>1. c # None /\ Unlink(pcb, c) /\ Tell(pcb[v]) /\ UNCHANGED <<plan, peer>>
      /\ skt' = [Orphan(pcb[v], skt) EXCEPT ![t] = NoSkt]
  BY DEF GivesUp
<1>2. c \in Open /\ pcb \in [Clients -> Pcbs] /\ skt \in [Tasks -> Skts]
  BY <1>1 DEF Owned, Inv, TypeOK
<1>3. pcb[v] \in Pcbs
  BY <1>2, VictimListed DEF Inv, TypeOK, Open
<1> HIDE DEF c, v
<1>4. Orphan(pcb[v], skt) \in [Tasks -> Skts] /\ NoSkt \in Skts /\ NoSkt.pcb = None
  BY <1>2, <1>3, OrphanTypes DEF NoSkt, Skts, Points
<1>5. skt' \in [Tasks -> Skts] /\ \A u \in Tasks : skt'[u].pcb \in {Orphan(pcb[v], skt)[u].pcb, None}
  BY <1>1, <1>4
<1>6. Inv'
  BY <1>1, <1>2, <1>5, RemovalTypes DEF v
<1>7. Owned'
  BY <1>1, <1>2, <1>5, NoTick, OwnedRemoval DEF v
<1> QED BY <1>6, <1>7

LEMMA ServerTypes ==
  ASSUME Inv, Owned, ServerStep
  PROVE  Inv' /\ Owned'
<1>1. CASE listenSem' \in Nat /\ UNCHANGED <<plan, peer, pcbVars, skt>>
  <2>1. UNCHANGED <<plan, peer, pcb, clientList, curConnections, skt>> /\ SegmentsInFlight
    BY <1>1 DEF pcbVars, ServerStep
  <2>2. Open' = Open
    BY <2>1 DEF Open
  <2> QED BY <1>1, <2>1, <2>2 DEF SegmentsInFlight, Inv, TypeOK, PeersStarted, Listed, Owned
<1> QED BY <1>1, HoldsTypes, AcceptsTypes, GivesUpTypes DEF ServerStep

\* A step of the whole.
LEMMA StepTypes ==
  ASSUME Inv, Owned, [Next]_vars
  PROVE  Inv' /\ Owned'
<1>1. CASE tcpInput
  BY <1>1, InputSteps, InputTypes, OwnedInput
<1>2. CASE Timer
  BY <1>2, TimerSteps, TimerTypes, OwnedTimer
<1>3. CASE LinkReset
  BY <1>3, LinkSteps, LinkTypes, OwnedLink
<1>4. CASE \E t \in Tasks : \/ rtSktAccept(t) \/ rtSktRx(t) \/ rtSktSend(t) \/ ServerCloses(t)
                            \/ TaskStep(t)
  BY <1>4, ServerSteps, ServerTypes
<1>5. CASE \E c \in Clients : Client(c)
  <2>1. Inv' /\ UNCHANGED <<pcbVars, sktVars>>
    BY <1>5, ClientTypes
  <2> QED BY <2>1, NoTick, OwnedTicked DEF pcbVars
<1>6. CASE UNCHANGED vars
  <2>1. UNCHANGED <<plan, peer, toFw, toPeer, pcb, clientList, curConnections, listenSem, skt>>
    BY <1>6 DEF vars, netVars, pcbVars, sktVars
  <2> QED BY <2>1 DEF Inv, TypeOK, PeersStarted, Listed, Owned, Open
<1> QED BY <1>1, <1>2, <1>3, <1>4, <1>5, <1>6 DEF Next

LEMMA InitTypes ==
  ASSUME Init
  PROVE  Inv /\ Owned
<1>1. plan \in Plan
  BY TcpAssumption DEF Init
<1>2. peer \in [Clients -> Peers] /\ PeersStarted
  BY TcpAssumption DEF Init, NoPeer, Peers, PeersStarted
<1>3. pcb \in [Clients -> Pcbs] /\ Open = {}
  BY EmptyPcb DEF Init, Open, NoPcb
<1>4. skt \in [Tasks -> Skts] /\ Owned
  BY DEF Init, NoSkt, Skts, Points, Owned
<1>5. clientList = <<>> /\ clientList \in Seq(Clients) /\ Len(clientList) = 0 /\ DOMAIN clientList = {}
  <2>1. clientList = <<>>
    BY DEF Init
  <2> QED BY <2>1
<1>6. toFw = {} /\ toPeer = {} /\ curConnections = 0 /\ listenSem = 0
  BY DEF Init
<1>7. TypeOK
  BY <1>1, <1>2, <1>3, <1>4, <1>5, <1>6 DEF TypeOK
<1>8. Listed
  <2>1. IsInjective(clientList) /\ Range(clientList) = {}
    BY <1>5 DEF IsInjective, Range
  <2>2. plan.maxConnections \in 1..7
    BY <1>1 DEF Plan
  <2> QED BY <1>3, <1>5, <1>6, <2>1, <2>2 DEF Listed
<1> QED BY <1>2, <1>4, <1>7, <1>8 DEF Inv

\* Every queue and counter of the service has its shape, for any clients (with
\* the same port too), tasks, limits and scenarios: the three-bit counter and
\* the five-bit one do not wrap into something else, and every segment that is
\* sent has numbers of 32 bits.
THEOREM TypeCorrect == Spec => []TypeOK
<1>1. Init => Inv /\ Owned
  BY InitTypes
<1>2. Inv /\ Owned /\ [Next]_vars => (Inv /\ Owned)'
  BY StepTypes
<1>3. Inv => TypeOK
  BY DEF Inv
<1> QED BY <1>1, <1>2, <1>3, PTL DEF Spec

-----------------------------------------------------------------------------
(* Clients with different ports                                            *)

\* removePCB looks for the port only: it frees the connection it is given when
\* no two clients have the same.
PortsDistinct == \A c, d \in Clients : Port[c] = Port[d] => c = d

\* An accepted connection and its socket name each other, and both are in
\* order; what is not accepted waits for the listener.
Joins(c) ==
    IF pcb[c].accepted
    THEN pcb[c].skt \in Tasks /\ skt[pcb[c].skt].pcb = c /\ Good(skt[pcb[c].skt], pcb[c])
    ELSE Fresh(pcb[c])

Joined ==
    /\ \A c \in Open : Joins(c)
    /\ \A t \in Tasks : skt[t].pcb = None => Lone(skt[t])

LEMMA OwnVictim ==
  ASSUME PortsDistinct, Inv, NEW c \in Open
  PROVE  Victim(c) = c
BY VictimListed DEF PortsDistinct, Inv, Open

\* What Good and Fresh depend on.
LEMMA GoodKept ==
  ASSUME NEW k, NEW p, NEW l, NEW q, l.at = k.at, l.rxSem = k.rxSem,
         Window(p) => Window(q), q.state = p.state, q.sendPkts = p.sendPkts, q.rxQ = p.rxQ
  PROVE  Good(k, p) => Good(l, q)
BY DEF Good

LEMMA FreshKept ==
  ASSUME NEW p, NEW q, Window(p) => Window(q), q.state = p.state, q.sendPkts = p.sendPkts,
         q.skt = p.skt
  PROVE  Fresh(p) => Fresh(q)
BY DEF Fresh

\* A connection and its socket that the step leaves as they are.
LEMMA JoinsKept ==
  ASSUME Inv, NEW d \in Clients, Joins(d),
         Same(pcb[d], pcb'[d]), Window(pcb[d]) => Window(pcb'[d]),
         \A u \in Tasks : skt[u].pcb = d =>
            skt'[u].pcb = skt[u].pcb /\ skt'[u].at = skt[u].at /\ skt'[u].rxSem = skt[u].rxSem
  PROVE  Joins(d)'
<1> DEFINE u == pcb[d].skt
<1>1. /\ pcb'[d].state = pcb[d].state /\ pcb'[d].accepted = pcb[d].accepted
      /\ pcb'[d].skt = u /\ pcb'[d].rxQ = pcb[d].rxQ /\ pcb'[d].sendPkts = pcb[d].sendPkts
  BY DEF Same
<1>2. CASE pcb[d].accepted
  <2>1. u \in Tasks /\ skt[u].pcb = d /\ Good(skt[u], pcb[d])
    BY <1>2 DEF Joins
  <2>2. skt'[u].pcb = d /\ skt'[u].at = skt[u].at /\ skt'[u].rxSem = skt[u].rxSem
    BY <2>1
  <2> HIDE DEF u
  <2>3. Good(skt'[u], pcb'[d])
    BY <1>1, <2>1, <2>2, GoodKept
  <2> QED BY <1>1, <1>2, <2>1, <2>2, <2>3 DEF Joins
<1>3. CASE ~pcb[d].accepted
  <2>1. Fresh(pcb'[d])
    BY <1>1, <1>3, FreshKept DEF Joins
  <2> QED BY <1>1, <1>3, <2>1 DEF Joins
<1> QED BY <1>2, <1>3

LEMMA LoneKept ==
  ASSUME NEW k, NEW l, l.at = k.at, l.rxSem = k.rxSem
  PROVE  Lone(k) => Lone(l)
BY DEF Lone

LEMMA JoinedGoesOn ==
  ASSUME Inv, Owned, Joined, NEW c \in Open, NEW p \in Pcbs, NEW rx \in Nat, NEW tx \in Nat,
         GoesOn(c, p, rx, tx)
  PROVE  Joined'
<1> DEFINE q == pcb[c]
<1>1. c \in Clients /\ q \in Pcbs /\ pcb \in [Clients -> Pcbs] /\ p.skt \in Tasks \cup {Listener}
  BY PcbFields DEF Inv, TypeOK, Open
<1>2. /\ pcb' = [pcb EXCEPT ![c] = p] /\ p.state # "NONE" /\ p.accepted = q.accepted /\ p.skt = q.skt
      /\ Post(p.skt, rx, tx) \/ (UNCHANGED sktVars /\ rx = 0)
      /\ Len(p.rxQ) <= Len(q.rxQ) + rx
      /\ p.state = "FIN_WAIT_1" <=> q.state = "FIN_WAIT_1"
      /\ Window(q) => Window(p) /\ (p.state # "FIN_WAIT_1" => p.sendPkts <= q.sendPkts)
  BY DEF GoesOn
<1>3. \A u \in Tasks : /\ skt'[u].pcb = skt[u].pcb /\ skt'[u].at = skt[u].at
                       /\ skt'[u].rxSem = IF u = p.skt THEN skt[u].rxSem + rx ELSE skt[u].rxSem
  BY <1>1, <1>2, PostOwner DEF Inv
<1>4. \A u \in Tasks : skt[u].rxSem \in Nat
  BY SktTypes DEF Inv, TypeOK
<1>5. Joins(c)
  BY DEF Joined
<1>6. pcb'[c] = p /\ \A d \in Clients \ {c} : pcb'[d] = pcb[d]
  BY <1>1, <1>2
<1>7. Len(p.rxQ) \in Nat /\ Len(q.rxQ) \in Nat /\ p.sendPkts \in 0..31 /\ q.sendPkts \in 0..31
  <2>1. p.rxQ \in Seq(Payloads) /\ q.rxQ \in Seq(Payloads) /\ p.sendPkts \in 0..31 /\ q.sendPkts \in 0..31
    BY <1>1, PcbFields
  <2> HIDE DEF q
  <2> QED BY <2>1
<1> HIDE DEF q
<1>8. Joins(c)'
  <2>1. CASE q.accepted
    <3> DEFINE t == p.skt
    <3>1. t \in Tasks /\ skt[t].pcb = c /\ Good(skt[t], q)
      BY <1>2, <1>5, <2>1 DEF Joins, q
    <3>2. skt'[t].pcb = c /\ skt'[t].at = skt[t].at /\ skt'[t].rxSem = skt[t].rxSem + rx
      BY <1>3, <3>1
    <3>3. Window(p) /\ (p.state # "FIN_WAIT_1" => p.sendPkts <= q.sendPkts)
      BY <1>2, <3>1 DEF Good
    <3>4. skt[t].rxSem \in Nat
      BY <1>4, <3>1
    <3> HIDE DEF t
    <3>5. skt'[t].at \in {"idle", "sent", "wait"} => skt'[t].rxSem >= Len(p.rxQ) /\ p.state # "FIN_WAIT_1"
      <4> SUFFICES ASSUME skt'[t].at \in {"idle", "sent", "wait"}
                   PROVE  skt'[t].rxSem >= Len(p.rxQ) /\ p.state # "FIN_WAIT_1"
        OBVIOUS
      <4>1. skt[t].rxSem >= Len(q.rxQ) /\ q.state # "FIN_WAIT_1"
        BY <3>1, <3>2 DEF Good
      <4>2. skt[t].rxSem + rx >= Len(p.rxQ)
        BY <1>2, <1>7, <3>4, <4>1
      <4> QED BY <1>2, <3>2, <4>1, <4>2
    <3>6. p.state # "FIN_WAIT_1" => /\ p.sendPkts <= MaxSendPkts
                                    /\ skt'[t].at = "idle" => p.sendPkts < MaxSendPkts
      <4>1. \A a, b \in 0..31, m \in 1..31 : a <= b => (b <= m => a <= m) /\ (b < m => a < m)
        OBVIOUS
      <4> QED BY <1>2, <1>7, <3>1, <3>2, <3>3, <4>1, TcpAssumption DEF Good
    <3>7. Good(skt'[t], p)
      BY <3>1, <3>2, <3>3, <3>5, <3>6 DEF Good
    <3> QED BY <1>2, <1>6, <2>1, <3>1, <3>2, <3>7 DEF Joins, t
  <2>2. CASE ~q.accepted
    <3>1. Fresh(q)
      BY <1>5, <2>2 DEF Joins, q
    <3>2. Window(p) /\ p.sendPkts <= 0 /\ p.state # "FIN_WAIT_1" /\ p.skt = Listener
      BY <1>2, <3>1 DEF Fresh
    <3>3. p.sendPkts = 0
      <4>1. \A a \in 0..31 : a <= 0 => a = 0
        OBVIOUS
      <4> QED BY <1>7, <3>2, <4>1
    <3>4. Fresh(p)
      BY <3>2, <3>3 DEF Fresh
    <3> QED BY <1>2, <1>6, <2>2, <3>4 DEF Joins
  <2> QED BY <2>1, <2>2
<1>9. ASSUME NEW d \in Open', d # c
      PROVE  Joins(d)'
  <2>1. d \in Clients /\ d \in Open /\ pcb'[d] = pcb[d]
    BY <1>6, <1>9 DEF Open
  <2>2. ASSUME NEW u \in Tasks, skt[u].pcb = d
        PROVE  skt'[u].pcb = skt[u].pcb /\ skt'[u].at = skt[u].at /\ skt'[u].rxSem = skt[u].rxSem
    <3>1. u # p.skt
      <4>1. CASE q.accepted
        BY <1>2, <1>5, <1>9, <2>2, <4>1 DEF Joins, q
      <4>2. CASE ~q.accepted
        BY <1>2, <1>5, <2>2, <4>2, TcpAssumption DEF Joins, Fresh, q
      <4> QED BY <4>1, <4>2
    <3> QED BY <1>3, <3>1
  <2> QED BY <2>1, <2>2, JoinsKept DEF Joined, Same
<1>10. ASSUME NEW t \in Tasks, skt'[t].pcb = None
       PROVE  Lone(skt'[t])
  <2>1. Lone(skt[t]) /\ skt'[t].at = skt[t].at
    BY <1>3, <1>10 DEF Joined
  <2>2. skt'[t].rxSem >= skt[t].rxSem /\ skt'[t].rxSem \in Nat /\ skt[t].rxSem \in Nat
    BY <1>3, <1>4
  <2> QED BY <2>1, <2>2 DEF Lone
<1> QED BY <1>8, <1>9, <1>10 DEF Joined

LEMMA JoinedComes ==
  ASSUME Inv, Owned, Joined, NEW c \in Clients, NEW p \in Pcbs, Comes(c, p)
  PROVE  Joined'
<1>1. /\ pcb \in [Clients -> Pcbs] /\ pcb' = [pcb EXCEPT ![c] = p] /\ skt' = skt
      /\ p.state = "SYN_RCVD" /\ ~p.accepted /\ p.skt = Listener /\ Window(p) /\ pcb[c].state = "NONE"
  BY DEF Inv, TypeOK, Comes
<1>2. Joins(c)'
  <2>1. p.sendPkts = 0
    BY <1>1 DEF Window
  <2>2. pcb'[c] = p /\ Fresh(p)
    BY <1>1, <2>1 DEF Fresh
  <2> QED BY <1>1, <2>2 DEF Joins
<1>3. ASSUME NEW d \in Open', d # c PROVE Joins(d)'
  <2>1. d \in Clients /\ d \in Open /\ pcb'[d] = pcb[d]
    BY <1>1, <1>3 DEF Open
  <2> QED BY <1>1, <2>1, JoinsKept DEF Joined, Same
<1> QED BY <1>1, <1>2, <1>3 DEF Joined

LEMMA JoinedRemoval ==
  ASSUME PortsDistinct, Inv, Owned, Joined, NEW c \in Open, NEW pcbs, Tick(pcbs), Unlink(pcbs, c),
         \A t \in Tasks : \/ skt'[t] = Orphan(pcb[c], skt)[t]
                          \/ skt[t].pcb = c /\ skt'[t] = NoSkt
  PROVE  Joined'
<1>1. c \in Clients /\ Victim(c) = c /\ pcb[c] \in Pcbs /\ skt \in [Tasks -> Skts]
      /\ pcbs \in [Clients -> Pcbs]
  BY OwnVictim DEF Open, Inv, TypeOK, Tick
<1>2. pcb'[c] = NoPcb /\ \A d \in Clients \ {c} : pcb'[d] = pcbs[d]
  BY <1>1, UnlinkPcbs
<1>3. ASSUME NEW u \in Tasks, skt[u].pcb # c PROVE skt'[u] = skt[u]
  <2>1. ~(pcb[c].accepted /\ pcb[c].skt = u)
    BY <1>3 DEF Joined, Joins
  <2> QED BY <1>1, <1>3, <2>1, OrphanOwner
<1>4. ASSUME NEW d \in Open' PROVE Joins(d)'
  <2>1. d \in Clients /\ d # c
    BY <1>2 DEF Open, NoPcb
  <2>2. Same(pcb[d], pcb'[d]) /\ (Window(pcb[d]) => Window(pcb'[d]))
    BY <1>2, <2>1 DEF Tick
  <2>3. d \in Open
    BY <1>4, <2>1, <2>2 DEF Open, Same
  <2> QED BY <1>3, <2>1, <2>2, <2>3, JoinsKept DEF Joined
<1>5. ASSUME NEW t \in Tasks, skt'[t].pcb = None PROVE Lone(skt'[t])
  <2>1. CASE skt'[t] = NoSkt
    BY <2>1 DEF NoSkt, Lone
  <2>2. CASE skt'[t] = skt[t]
    BY <1>5, <2>2 DEF Joined
  <2>3. CASE skt'[t] = [skt[t] EXCEPT !.pcb = None, !.rxSem = @ + 1]
    <3>1. skt[t] \in Skts /\ skt[t].rxSem \in Nat
      BY <1>1, SktTypes
    <3>2. skt'[t].rxSem = skt[t].rxSem + 1
      BY <2>3, <3>1 DEF Skts
    <3>3. skt'[t].rxSem >= 1
      BY <3>1, <3>2
    <3> QED BY <3>3 DEF Lone
  <2> QED BY <1>1, <2>1, <2>2, <2>3, OrphanOwner
<1> QED BY <1>4, <1>5 DEF Joined

LEMMA JoinedTicked ==
  ASSUME Inv, Joined, NEW pcbs, Tick(pcbs), pcb' = pcbs, skt' = skt
  PROVE  Joined'
<1>1. ASSUME NEW d \in Open' PROVE Joins(d)'
  <2>1. d \in Clients /\ Same(pcb[d], pcb'[d]) /\ (Window(pcb[d]) => Window(pcb'[d]))
    BY DEF Tick, Open
  <2>2. d \in Open
    BY <1>1, <2>1 DEF Open, Same
  <2> QED BY <2>1, <2>2, JoinsKept DEF Joined
<1> QED BY <1>1 DEF Joined

LEMMA JoinedLink ==
  ASSUME Inv, Owned, Joined, LinkStep
  PROVE  Joined'
<1>1. Open' = {}
  BY DEF LinkStep, Open, NoPcb
<1>2. ASSUME NEW t \in Tasks PROVE Lone(skt'[t])
  <2>1. skt[t] \in Skts /\ skt[t].rxSem \in Nat /\ (skt[t].pcb # None => skt[t].pcb \in Open)
    BY SktTypes DEF Inv, TypeOK, Owned
  <2>2. skt'[t] = IF skt[t].pcb \in Open
                  THEN [skt[t] EXCEPT !.pcb = None, !.rxSem = @ + 1] ELSE skt[t]
    BY DEF LinkStep
  <2>3. CASE skt[t].pcb \in Open
    <3>1. skt'[t].rxSem = skt[t].rxSem + 1
      BY <2>1, <2>2, <2>3 DEF Skts
    <3>2. skt'[t].rxSem >= 1
      BY <2>1, <3>1
    <3> QED BY <3>2 DEF Lone
  <2>4. CASE skt[t].pcb \notin Open
    BY <2>1, <2>2, <2>4 DEF Joined
  <2> QED BY <2>3, <2>4
<1> QED BY <1>1, <1>2 DEF Joined

LEMMA JoinedHolds ==
  ASSUME Inv, Owned, Joined, NEW t \in Tasks, NEW s \in Skts, NEW p \in Pcbs, Holds(t, s, p)
  PROVE  Joined'
<1>0. PICK c : c = skt[t].pcb
  OBVIOUS
<1>1. /\ skt' = [skt EXCEPT ![t] = s] /\ s.pcb = c
      /\ c = None => pcb' = pcb /\ (Lone(skt[t]) => Lone(s))
      /\ c # None => /\ pcb' = [pcb EXCEPT ![c] = p] /\ p.state # "NONE"
                     /\ p.accepted = pcb[c].accepted /\ p.skt = pcb[c].skt
                     /\ Good(skt[t], pcb[c]) => Good(s, p)
  BY <1>0 DEF Holds
<1>2. /\ pcb \in [Clients -> Pcbs] /\ skt \in [Tasks -> Skts]
      /\ c # None => c \in Open /\ c \in Clients /\ pcb[c].accepted /\ pcb[c].skt = t
  BY <1>0 DEF Inv, TypeOK, Owned, Open
<1>3. skt'[t] = s /\ \A u \in Tasks \ {t} : skt'[u] = skt[u]
  BY <1>1, <1>2
<1>4. ASSUME NEW d \in Open', d # c PROVE Joins(d)'
  <2>1. d \in Clients /\ pcb'[d] = pcb[d] /\ d \in Open
    BY <1>1, <1>2, <1>4 DEF Open
  <2>2. \A u \in Tasks : skt[u].pcb = d => skt'[u] = skt[u]
    BY <1>0, <1>3, <1>4
  <2> QED BY <2>1, <2>2, JoinsKept DEF Joined, Same
<1>5. ASSUME c # None PROVE Joins(c)'
  <2>1. Good(skt[t], pcb[c])
    BY <1>2, <1>5 DEF Joined, Joins
  <2>2. pcb'[c] = p /\ Good(s, p) /\ p.accepted /\ p.skt = t
    BY <1>1, <1>2, <1>5, <2>1
  <2> QED BY <1>1, <1>3, <2>2 DEF Joins
<1>6. ASSUME NEW u \in Tasks, skt'[u].pcb = None PROVE Lone(skt'[u])
  <2>1. CASE u = t
    BY <1>0, <1>1, <1>3, <1>6, <2>1 DEF Joined
  <2>2. CASE u # t
    BY <1>3, <1>6, <2>2 DEF Joined
  <2> QED BY <2>1, <2>2
<1>7. \A d \in Open' : Joins(d)'
  <2>1. ASSUME NEW d \in Open' PROVE Joins(d)'
    <3>1. CASE d = c
      <4>1. c # None
        BY <3>1, TcpAssumption DEF Open
      <4> QED BY <1>5, <3>1, <4>1
    <3> QED BY <1>4, <3>1
  <2> QED BY <2>1
<1> QED BY <1>6, <1>7 DEF Joined

LEMMA JoinedAccepts ==
  ASSUME Inv, Owned, Joined, SegmentsInFlight, NEW t \in Tasks, NEW c \in Open, Accepts(t, c)
  PROVE  Joined'
<1> DEFINE s == skt'[t]
           p == pcb'[c]
           q == pcb[c]
<1>1. /\ Open' = Open /\ s.at = "idle" /\ s.pcb = c /\ s.rxSem = Len(p.rxQ)
      /\ p.state = "ESTABLISHED" /\ p.accepted /\ p.skt = t /\ p.rxQ = q.rxQ
      /\ p.txQ = q.txQ /\ p.sendPkts = q.sendPkts
      /\ \A d \in Clients \ {c} : pcb'[d] = pcb[d]
      /\ \A u \in Tasks \ {t} : skt'[u] = skt[u]
  BY AcceptsTypes
<1>2. skt[t].at = "free" /\ q.state = "ESTABLISHED" /\ ~q.accepted /\ c \in Clients /\ q \in Pcbs
  BY DEF Accepts, Open, Inv, TypeOK
<1>3. Fresh(q)
  BY <1>2 DEF Joined, Joins
<1>4. Len(p.rxQ) \in Nat
  <2>1. q.rxQ \in Seq(Payloads)
    BY <1>2, PcbFields
  <2>2. Len(q.rxQ) \in Nat
    BY <2>1
  <2> QED BY <1>1, <2>2
<1> HIDE DEF s, p, q
<1>5. Window(p)
  BY <1>1, <1>2, <1>3 DEF Window, Fresh
<1>6. Good(s, p)
  <2>1. 0 <= MaxSendPkts /\ 0 < MaxSendPkts
    BY TcpAssumption
  <2>2. s.rxSem >= Len(p.rxQ)
    BY <1>1, <1>4
  <2> QED BY <1>1, <1>3, <1>5, <2>1, <2>2 DEF Good, Fresh
<1>7. Joins(c)'
  BY <1>1, <1>6 DEF Joins, s, p
<1>8. ASSUME NEW d \in Open', d # c PROVE Joins(d)'
  <2>1. d \in Clients /\ d \in Open /\ pcb'[d] = pcb[d] /\ Joins(d)
    BY <1>1, <1>8 DEF Open, Joined
  <2>2. ASSUME NEW u \in Tasks, skt[u].pcb = d PROVE skt'[u] = skt[u]
    <3>1. Good(skt[u], pcb[d])
      <4>1. pcb[d].accepted /\ pcb[d].skt = u
        <5>1. d # None
          BY <2>1, TcpAssumption
        <5> QED BY <2>2, <5>1 DEF Owned
      <4> QED BY <2>1, <4>1 DEF Joins
    <3>2. u # t
      BY <1>2, <3>1 DEF Good
    <3> QED BY <1>1, <3>2
  <2> QED BY <2>1, <2>2, JoinsKept DEF Same
<1>9. ASSUME NEW u \in Tasks, skt'[u].pcb = None PROVE Lone(skt'[u])
  <2>1. u # t
    BY <1>1, <1>2, <1>9, TcpAssumption DEF s
  <2> QED BY <1>1, <1>9, <2>1 DEF Joined
<1> QED BY <1>7, <1>8, <1>9 DEF Joined

LEMMA JoinedServer ==
  ASSUME PortsDistinct, Inv, Owned, Joined, ServerStep
  PROVE  Joined'
<1>1. CASE \E t \in Tasks, s \in Skts, p \in Pcbs : Holds(t, s, p)
  BY <1>1, JoinedHolds
<1>2. CASE \E t \in Tasks, c \in Open : Accepts(t, c)
  BY <1>2, JoinedAccepts DEF ServerStep
<1>3. CASE UNCHANGED <<plan, peer, pcbVars, skt>>
  BY <1>3, NoTick, JoinedTicked DEF pcbVars
<1>4. ASSUME NEW t \in Tasks, GivesUp(t) PROVE Joined'
  <2>1. PICK c : c = skt[t].pcb
    OBVIOUS
  <2>2. /\ c # None /\ Unlink(pcb, c)
        /\ skt' = [Orphan(pcb[Victim(c)], skt) EXCEPT ![t] = NoSkt]
    BY <1>4, <2>1 DEF GivesUp
  <2>3. c \in Open /\ Victim(c) = c /\ pcb[c] \in Pcbs /\ skt \in [Tasks -> Skts]
    <3>1. c \in Open
      BY <2>1, <2>2 DEF Owned
    <3> QED BY <3>1, OwnVictim DEF Inv, TypeOK, Open
  <2>4. Orphan(pcb[c], skt) \in [Tasks -> Skts]
    BY <2>3, OrphanTypes
  <2>5. \A u \in Tasks : \/ skt'[u] = Orphan(pcb[c], skt)[u]
                         \/ skt[u].pcb = c /\ skt'[u] = NoSkt
    BY <2>1, <2>2, <2>3, <2>4
  <2> QED BY <2>2, <2>3, <2>5, NoTick, JoinedRemoval
<1> QED BY <1>1, <1>2, <1>3, <1>4 DEF ServerStep

LEMMA JoinedTimer ==
  ASSUME PortsDistinct, Inv, Owned, Joined, TimerStep
  PROVE  Joined'
<1>1. PICK pcbs : /\ Tick(pcbs)
                  /\ \/ \E c \in Open : removePCB(pcbs, c)
                     \/ pcb' = pcbs /\ UNCHANGED <<clientList, curConnections, sktVars>>
  BY DEF TimerStep
<1>2. ASSUME NEW c \in Open, removePCB(pcbs, c) PROVE Joined'
  <2>1. Victim(c) = c
    BY OwnVictim
  <2> QED BY <1>1, <1>2, <2>1, JoinedRemoval DEF removePCB
<1>3. CASE pcb' = pcbs /\ UNCHANGED <<clientList, curConnections, sktVars>>
  BY <1>1, <1>3, JoinedTicked DEF sktVars
<1> QED BY <1>1, <1>2, <1>3

LEMMA JoinedInput ==
  ASSUME PortsDistinct, Inv, Owned, Joined, InputStep
  PROVE  Joined'
<1>1. CASE UNCHANGED <<pcbVars, sktVars>>
  BY <1>1, NoTick, JoinedTicked DEF pcbVars, sktVars
<1>2. CASE \E c \in Clients, p \in Pcbs : Comes(c, p)
  BY <1>2, JoinedComes
<1>3. CASE \E c \in Open, p \in Pcbs, rx \in Nat, tx \in Nat : GoesOn(c, p, rx, tx)
  BY <1>3, JoinedGoesOn
<1>4. ASSUME NEW c \in Open, removePCB(pcb, c) PROVE Joined'
  <2>1. Victim(c) = c
    BY OwnVictim
  <2> QED BY <1>4, <2>1, NoTick, JoinedRemoval DEF removePCB
<1> QED BY <1>1, <1>2, <1>3, <1>4 DEF InputStep

LEMMA StepJoined ==
  ASSUME PortsDistinct, Inv, Owned, Joined, [Next]_vars
  PROVE  Joined'
<1>1. CASE tcpInput
  BY <1>1, InputSteps, JoinedInput
<1>2. CASE Timer
  BY <1>2, TimerSteps, JoinedTimer
<1>3. CASE LinkReset
  BY <1>3, LinkSteps, JoinedLink
<1>4. CASE \E t \in Tasks : \/ rtSktAccept(t) \/ rtSktRx(t) \/ rtSktSend(t) \/ ServerCloses(t)
                            \/ TaskStep(t)
  BY <1>4, ServerSteps, JoinedServer
<1>5. CASE \E c \in Clients : Client(c)
  <2>1. UNCHANGED <<pcbVars, sktVars>>
    BY <1>5, ClientTypes
  <2> QED BY <2>1, NoTick, JoinedTicked DEF pcbVars, sktVars
<1>6. CASE UNCHANGED vars
  BY <1>6, NoTick, JoinedTicked DEF vars, pcbVars, sktVars
<1> QED BY <1>1, <1>2, <1>3, <1>4, <1>5, <1>6 DEF Next

LEMMA InitJoined ==
  ASSUME Init
  PROVE  Joined
BY DEF Init, Joined, Open, NoPcb, NoSkt, Lone

-----------------------------------------------------------------------------
(* What follows from it                                                    *)

LEMMA InvPaired ==
  ASSUME Inv, Owned, Joined
  PROVE  SocketsPaired
<1>1. {clientList[i] : i \in DOMAIN clientList} = Open
  BY DEF Inv, Listed, Range
<1>2. Len(clientList) = Cardinality(Open)
  BY OpenCounted DEF Inv
<1>3. \A c \in Open : pcb[c].accepted => skt[pcb[c].skt].pcb = c
  BY DEF Joined, Joins
<1> QED BY <1>1, <1>2, <1>3 DEF SocketsPaired, Inv, Listed, Owned

LEMMA InvWakeup ==
  ASSUME Inv, Owned, Joined
  PROVE  NoLostWakeup
<1> SUFFICES ASSUME NEW t \in Tasks, skt[t].at \in {"idle", "sent", "wait"}
             PROVE  skt[t].rxSem >= (IF skt[t].pcb = None THEN 1 ELSE Len(pcb[skt[t].pcb].rxQ))
  BY DEF NoLostWakeup
<1>1. CASE skt[t].pcb = None
  BY <1>1 DEF Joined, Lone
<1>2. CASE skt[t].pcb # None
  <2>1. Good(skt[t], pcb[skt[t].pcb])
    BY <1>2 DEF Owned, Joined, Joins
  <2> QED BY <1>2, <2>1 DEF Good
<1> QED BY <1>1, <1>2

\* The packets of data in the queue of a connection in the window.
LEMMA WindowCounts ==
  ASSUME NEW p \in Pcbs, Window(p), p.state \notin {"NONE", "FIN_WAIT_1"}
  PROVE  p.sendPkts = Cardinality({i \in DOMAIN p.txQ : p.txQ[i].seg.f = "DATA"})
<1> DEFINE D == {i \in DOMAIN p.txQ : p.txQ[i].seg.f = "DATA"}
<1>1. p.txQ \in Seq(Packets) /\ p.state \in States
  BY PcbFields
<1>2. DOMAIN p.txQ = 1..Len(p.txQ) /\ Len(p.txQ) \in Nat
  BY <1>1
<1>3. IsFiniteSet(DOMAIN p.txQ) /\ Cardinality(DOMAIN p.txQ) = Len(p.txQ)
  BY <1>2, FS_Interval
<1>4. CASE p.state = "SYN_RCVD"
  <2>1. D = {} /\ p.sendPkts = 0
    BY <1>4 DEF Window
  <2> HIDE DEF D
  <2>2. Cardinality(D) = 0
    BY <2>1, FS_EmptySet
  <2> QED BY <2>1, <2>2 DEF D
<1>5. CASE p.state = "ESTABLISHED"
  <2>1. D = DOMAIN p.txQ /\ p.sendPkts = Len(p.txQ)
    BY <1>5 DEF Window, IsData
  <2> HIDE DEF D
  <2>2. Cardinality(D) = p.sendPkts
    BY <1>3, <2>1
  <2> QED BY <2>2 DEF D
<1>6. CASE p.state \in {"LAST_ACK", "TIME_WAIT"}
  <2>1. PICK n \in DOMAIN p.txQ : /\ ~IsData(p.txQ[n]) /\ p.sendPkts = Len(p.txQ) - 1
                                  /\ \A i \in DOMAIN p.txQ \ {n} : IsData(p.txQ[i])
    BY <1>6 DEF Window
  <2>2. D = DOMAIN p.txQ \ {n}
    BY <2>1 DEF IsData
  <2> HIDE DEF D
  <2>3. Cardinality(D) = Cardinality(DOMAIN p.txQ) - 1
    BY <1>3, <2>1, <2>2, FS_RemoveElement
  <2>4. Cardinality(D) = p.sendPkts
    BY <1>3, <2>1, <2>3
  <2> QED BY <2>4 DEF D
<1> QED BY <1>1, <1>4, <1>5, <1>6 DEF Window, States

LEMMA InvWindow ==
  ASSUME Inv, Owned, Joined
  PROVE  WindowExact
<1> SUFFICES ASSUME NEW c \in Open, pcb[c].state # "FIN_WAIT_1"
             PROVE  /\ pcb[c].sendPkts
                         = Cardinality({i \in DOMAIN pcb[c].txQ : pcb[c].txQ[i].seg.f = "DATA"})
                    /\ pcb[c].sendPkts <= MaxSendPkts
  BY DEF WindowExact
<1>1. pcb[c] \in Pcbs /\ pcb[c].state # "NONE"
  BY DEF Open, Inv, TypeOK
<1>2. Joins(c)
  BY DEF Joined
<1>3. Window(pcb[c]) /\ pcb[c].sendPkts <= MaxSendPkts
  <2>1. CASE pcb[c].accepted
    BY <1>2, <2>1 DEF Joins, Good
  <2>2. CASE ~pcb[c].accepted
    <3>1. Fresh(pcb[c])
      BY <1>2, <2>2 DEF Joins
    <3>2. 0 <= MaxSendPkts
      BY TcpAssumption
    <3> QED BY <3>1, <3>2 DEF Fresh
  <2> QED BY <2>1, <2>2
<1> QED BY <1>1, <1>3, WindowCounts

\* The invariant that carries the three results.
LEMMA Invariance ==
  ASSUME PortsDistinct
  PROVE  Spec => [](Inv /\ Owned /\ Joined)
<1>1. Init => Inv /\ Owned /\ Joined
  BY InitTypes, InitJoined
<1>2. Inv /\ Owned /\ Joined /\ [Next]_vars => (Inv /\ Owned /\ Joined)'
  BY StepTypes, StepJoined
<1> QED BY <1>1, <1>2, PTL DEF Spec

\* The list, the counter, the connections and the sockets agree after every
\* handshake, removal, reset and close, in whatever order the receiving task,
\* the timer and the server's tasks take SktSem, when no two clients have the
\* same port (removePCB compares nothing else).
THEOREM SocketsAgree ==
  ASSUME PortsDistinct
  PROVE  Spec => []SocketsPaired
<1>1. Inv /\ Owned /\ Joined => SocketsPaired
  BY InvPaired
<1> QED BY <1>1, Invariance, PTL

\* A task in rtSktRx never sleeps while a packet or the news that its
\* connection is gone waits for it: a token goes with each, also for what came
\* before rtSktAccept.
THEOREM NoWakeupLost ==
  ASSUME PortsDistinct
  PROVE  Spec => []NoLostWakeup
<1>1. Inv /\ Owned /\ Joined => NoLostWakeup
  BY InvWakeup
<1> QED BY <1>1, Invariance, PTL

\* sendPkts counts the packets of data that are not acknowledged and stays in
\* the window, for every order of sends, acknowledgements, retransmissions
\* and the client's FIN: the five-bit field is never decremented below 0.
THEOREM WindowKept ==
  ASSUME PortsDistinct
  PROVE  Spec => []WindowExact
<1>1. Inv /\ Owned /\ Joined => WindowExact
  BY InvWindow
<1> QED BY <1>1, Invariance, PTL

-----------------------------------------------------------------------------
(* The numbers of the two streams                                          *)

\* No two positions of the streams a client sends have the same number: the
\* SYN, the data and what would come next, in every epoch.
NumbersApart ==
    \A p \in Plans, c \in Clients : \A d, e \in 1..p.epochs[c], k, n \in 0..p.in[c] + 1 :
        Wrap(Isn[d] + k) = Wrap(Isn[e] + n) => d = e /\ k = n

\* The firmware's numbers do not come round within a connection.
NumbersLast == \A p \in Plans, c \in Clients : p.out[c] + 2 < SeqSpace

\* A segment m from the client q, which sends at most i packets, is of its
\* present epoch, and acknowledges what the client has.
OfClient(q, i, m) ==
    /\ m.f # "SYNACK" /\ m.ack <= q.rcv
    /\ m.f \in {"SYN", "DATA"} =>
         /\ m.data.e = q.e /\ q.e # 0 /\ m.data.n \in 0..i
         /\ m.seq = Wrap(Isn[m.data.e] + m.data.n)
         /\ m.f = "SYN" <=> m.data.n = 0

ClientsKeepTo ==
    /\ plan \in Plans
    /\ \A c \in Clients : /\ peer[c].e <= plan.epochs[c] /\ peer[c].sent <= plan.in[c]
                          /\ peer[c].st = "synsent" => peer[c].rcv = 0
    /\ \A x \in toFw : OfClient(peer[x[1]], plan.in[x[1]], x[2])

\* The connection p has the client's stream from the packet after the last one
\* read, and expects the next; e epochs with i packets each bound the stream.
Stream(p, e, i) ==
    /\ \A j \in DOMAIN p.rxQ : p.rxQ[j] = [e |-> p.epoch, n |-> p.read + j]
    /\ p.state \in {"SYN_RCVD", "ESTABLISHED"} =>
         /\ p.epoch \in 1..e /\ p.read + Len(p.rxQ) <= i
         /\ p.sendAckNum = Wrap(Isn[p.epoch] + 1 + p.read + Len(p.rxQ))

\* The packets that wait for an acknowledgement are numbered by what the
\* server sent, at most o packets, and what the client q lacks is among them.
Numbered(p, o) ==
    \A j \in DOMAIN p.txQ :
        LET s == p.txQ[j].seg
        IN  IF s.f = "DATA" THEN s.data.n <= s.seq /\ s.seq <= o + 1 ELSE s.data.n = 0

Covered(p, q) ==
    \A n \in 1..p.out : q.rcv > n \/ \E j \in DOMAIN p.txQ : p.txQ[j].seg.data.n = n

Sent(p, q, o) ==
    /\ p.epoch <= q.e /\ p.out <= o /\ Numbered(p, o)
    /\ p.state = "SYN_RCVD" => p.out = 0
    /\ p.state \in {"SYN_RCVD", "ESTABLISHED"} => p.seqNum = p.out + 1
    /\ p.state \in {"LAST_ACK", "TIME_WAIT"} => p.seqNum = p.out + 2
    /\ p.epoch = q.e => Covered(p, q)

StreamInv == \A c \in Clients : Stream(pcb[c], plan.epochs[c], plan.in[c])
SentInv == \A c \in Clients : Sent(pcb[c], peer[c], plan.out[c])

-----------------------------------------------------------------------------
(* Wrapped numbers                                                         *)

LEMMA WrapSmall == \A k \in Seqs : Wrap(k) = k
BY TcpAssumption, Z3 DEF Wrap, Seqs

LEMMA WrapBelow ==
  ASSUME NEW k \in Nat
  PROVE  Wrap(k) <= k
<1>1. CASE k < SeqSpace
  <2>1. k \in Seqs
    BY <1>1, TcpAssumption DEF Seqs
  <2> QED BY <2>1, WrapSmall
<1>2. CASE ~(k < SeqSpace)
  <2>1. Wrap(k) \in 0..SeqSpace - 1
    BY Numbers DEF Seqs
  <2> QED BY <1>2, <2>1, TcpAssumption
<1> QED BY <1>1, <1>2

LEMMA Remainder ==
  ASSUME NEW B \in Nat \ {0}, NEW k \in Nat
  PROVE  k \div B \in Nat /\ k % B \in 0..B - 1 /\ k = B * (k \div B) + (k % B)
OBVIOUS

LEMMA RemainderIs ==
  ASSUME NEW B \in Nat \ {0}, NEW q \in Nat, NEW r \in 0..B - 1
  PROVE  (B * q + r) % B = r
OBVIOUS

\* The number after a wrapped one is the one after it, wrapped.
LEMMA WrapNext ==
  ASSUME NEW k \in Nat
  PROVE  Wrap(Wrap(k) + 1) = Wrap(k + 1)
<1> DEFINE B == SeqSpace
<1>1. B \in Nat \ {0}
  BY TcpAssumption
<1>2. PICK q \in Nat, r \in 0..B - 1 : k = B * q + r /\ k % B = r
  BY <1>1, Remainder
<1>3. CASE r + 1 < B
  <2>1. r + 1 \in 0..B - 1 /\ k + 1 = B * q + (r + 1)
    BY <1>1, <1>2, <1>3
  <2>2. (k + 1) % B = r + 1
    BY <1>1, <2>1, RemainderIs
  <2>3. Wrap(r + 1) = r + 1
    BY <2>1, WrapSmall DEF Seqs
  <2> QED BY <1>2, <2>2, <2>3 DEF Wrap
<1>4. CASE ~(r + 1 < B)
  <2>1. r + 1 = B
    BY <1>1, <1>2, <1>4
  <2>2. k + 1 = B * (q + 1) + 0 /\ B = B * 1 + 0
    BY <1>1, <1>2, <2>1
  <2>3. 0 \in 0..B - 1 /\ q + 1 \in Nat
    BY <1>1
  <2> HIDE DEF B
  <2>4. (k + 1) % B = 0
    <3>1. (B * (q + 1) + 0) % B = 0
      BY <1>1, <2>3, RemainderIs
    <3> QED BY <2>2, <3>1
  <2>5. B % B = 0
    <3>1. (B * 1 + 0) % B = 0
      BY <1>1, <2>3, RemainderIs
    <3> QED BY <2>2, <3>1
  <2> QED BY <1>2, <2>1, <2>4, <2>5 DEF Wrap, B
<1> QED BY <1>3, <1>4

-----------------------------------------------------------------------------
(* What a step does to the numbers of a connection                         *)

SameSegments(p, q) ==
    /\ DOMAIN q.txQ = DOMAIN p.txQ
    /\ \A j \in DOMAIN p.txQ : q.txQ[j].seg = p.txQ[j].seg

\* The numbers of p stay as they are.
Still(p, q) ==
    /\ q.state = p.state /\ q.seqNum = p.seqNum /\ q.sendAckNum = p.sendAckNum
    /\ q.rxQ = p.rxQ /\ q.epoch = p.epoch /\ q.read = p.read /\ q.out = p.out
    /\ SameSegments(p, q)

\* What comes from the client c: nothing is left of it, a new stream begins, the
\* next packet arrives, the server reads one, or it stays, in a state that
\* takes no more unless it was one that does.
Receives(c, p, q) ==
    \/ q.rxQ = <<>> /\ q.state \notin {"SYN_RCVD", "ESTABLISHED"}
    \/ \E m \in Segments :
         /\ <<c, m>> \in toFw /\ m.f = "SYN"
         /\ q.rxQ = <<>> /\ q.read = 0 /\ q.epoch = m.data.e /\ q.sendAckNum = Wrap(m.seq + 1)
    \/ \E m \in Segments :
         /\ <<c, m>> \in toFw /\ m.f \notin {"ACK", "FIN", "RST"}
         /\ p.state = "ESTABLISHED" /\ m.seq = p.sendAckNum
         /\ q.rxQ = Append(p.rxQ, m.data) /\ q.read = p.read /\ q.epoch = p.epoch
         /\ q.sendAckNum = Wrap(m.seq + (IF m.f = "DATA" THEN 1 ELSE 0))
    \/ /\ p.rxQ # <<>> /\ q.rxQ = Tail(p.rxQ) /\ q.read = p.read + 1
       /\ q.epoch = p.epoch /\ q.sendAckNum = p.sendAckNum /\ q.state = p.state
    \/ /\ q.rxQ = p.rxQ /\ q.read = p.read /\ q.epoch = p.epoch
       /\ q.state \in {"SYN_RCVD", "ESTABLISHED"} =>
            p.state \in {"SYN_RCVD", "ESTABLISHED"} /\ q.sendAckNum = p.sendAckNum

\* What goes to the client c: nothing is left of it, a new stream begins, an
\* acknowledgement frees packets, a SYN-ACK, a FIN or the next packet is sent,
\* or it stays.
Freeing(c, p, q) ==
    \E m \in Segments :
      /\ <<c, m>> \in toFw
      /\ q.epoch = p.epoch /\ q.out = p.out /\ q.seqNum = p.seqNum
      /\ q.state = p.state \/ (p.state = "SYN_RCVD" /\ q.state = "ESTABLISHED")
      /\ q.txQ = SubSeq(p.txQ, Freed(p, m.ack) + 1, Len(p.txQ))

Appending(p, q) ==
    \E pkt \in Packets :
      /\ ~IsData(pkt) /\ pkt.seg.data.n = 0
      /\ q.epoch = p.epoch /\ q.out = p.out /\ q.txQ = Append(p.txQ, pkt)
      /\ \/ p.state = "SYN_RCVD" /\ q.state = "SYN_RCVD" /\ q.seqNum = Wrap(1)
         \/ p.state = "ESTABLISHED" /\ q.state = "LAST_ACK" /\ q.seqNum = Wrap(p.seqNum + 1)
         \/ q.state = "FIN_WAIT_1"

SendingNext(c, p, q) ==
    \E pkt \in Packets :
      /\ IsData(pkt) /\ pkt.seg.data.n = p.out + 1 /\ pkt.seg.seq = p.seqNum
      /\ p.accepted /\ p.state # "NONE" /\ (Joins(c) => p.state # "FIN_WAIT_1")
      /\ p.out < plan.out[c]
      /\ q.state = p.state /\ q.epoch = p.epoch /\ q.out = p.out + 1
      /\ q.seqNum = Wrap(p.seqNum + 1) /\ q.txQ = Append(p.txQ, pkt)

Sends(c, p, q) ==
    \/ q = NoPcb
    \/ p.state # "NONE" /\ Victim(c) # c
    \/ \E m \in Segments :
         /\ <<c, m>> \in toFw /\ m.f = "SYN"
         /\ q.state = "SYN_RCVD" /\ q.epoch = m.data.e /\ q.out = 0 /\ q.seqNum = Wrap(1)
         /\ \A j \in DOMAIN q.txQ : ~IsData(q.txQ[j]) /\ q.txQ[j].seg.data.n = 0
    \/ Freeing(c, p, q) \/ Appending(p, q) \/ SendingNext(c, p, q)
    \/ /\ q.epoch = p.epoch /\ q.out = p.out /\ q.seqNum = p.seqNum /\ SameSegments(p, q)
       /\ q.state = p.state \/ (p.state = "LAST_ACK" /\ q.state = "TIME_WAIT")

Moving(c, p, q) == Receives(c, p, q) /\ Sends(c, p, q)

LEMMA StillMoves ==
  ASSUME NEW c, NEW p, NEW q, Still(p, q)
  PROVE  Moving(c, p, q)
BY DEF Still, Moving, Receives, Sends

\* What tcpSend does to the numbers.
LEMMA SendNumbers ==
  ASSUME NEW p \in Pcbs, NEW f \in {"SYNACK", "ACK", "DATA", "FIN", "RST"}
  PROVE  LET q == tcpSend(p, f).pcb
         IN  /\ q.state = p.state /\ q.rxQ = p.rxQ /\ q.epoch = p.epoch /\ q.read = p.read
             /\ q.sendAckNum = p.sendAckNum
             /\ q.out = IF f = "DATA" THEN p.out + 1 ELSE p.out
             /\ q.seqNum = IF f = "SYNACK" THEN Wrap(1)
                           ELSE IF f \in {"DATA", "FIN"} THEN Wrap(p.seqNum + 1) ELSE p.seqNum
             /\ IF f \in {"ACK", "RST"} THEN q.txQ = p.txQ
                ELSE \E pkt \in Packets :
                       /\ q.txQ = Append(p.txQ, pkt) /\ pkt.seg.f = f
                       /\ pkt.seg.seq = IF f = "SYNACK" THEN 0 ELSE p.seqNum
                       /\ pkt.seg.data.n = IF f = "DATA" THEN p.out + 1 ELSE 0
<1>1. CASE f = "ACK" /\ p.delayAck = "NoDelayAck"
  <2> DEFINE q == [p EXCEPT !.delayAck = "FirstDelayAck"]
  <2>1. tcpSend(p, f).pcb = q
    BY <1>1 DEF tcpSend
  <2>2. /\ q.state = p.state /\ q.rxQ = p.rxQ /\ q.epoch = p.epoch /\ q.read = p.read
        /\ q.sendAckNum = p.sendAckNum /\ q.out = p.out /\ q.seqNum = p.seqNum /\ q.txQ = p.txQ
    BY DEF Pcbs
  <2> HIDE DEF q
  <2> QED BY <1>1, <2>1, <2>2
<1>2. CASE ~(f = "ACK" /\ p.delayAck = "NoDelayAck")
  <2> DEFINE seg == Segment(f, IF f = "SYNACK" THEN 0 ELSE p.seqNum, p.sendAckNum,
                            IF f = "DATA" THEN [e |-> p.epoch, n |-> p.out + 1] ELSE Empty)
             pkt == [seg |-> seg, rTime |-> 0]
             q   == Sending(p, f).pcb
  <2>1. tcpSend(p, f).pcb = q
    BY <1>2 DEF tcpSend
  <2>2. pkt \in Packets
    BY PcbFields, Numbers DEF Packets, Segment, Segments, Payloads, Empty
  <2>3. /\ pkt.seg.f = f /\ pkt.seg.seq = (IF f = "SYNACK" THEN 0 ELSE p.seqNum)
        /\ pkt.seg.data.n = (IF f = "DATA" THEN p.out + 1 ELSE 0)
    BY DEF Segment, Empty
  <2>4. q.txQ = IF f \in {"SYNACK", "DATA", "FIN"} THEN Append(p.txQ, pkt) ELSE p.txQ
    BY DEF Sending, Pcbs
  <2>5. /\ q.state = p.state /\ q.rxQ = p.rxQ /\ q.epoch = p.epoch /\ q.read = p.read
        /\ q.sendAckNum = p.sendAckNum
    BY DEF Sending, Pcbs
  <2>6. /\ q.out = (IF f = "DATA" THEN p.out + 1 ELSE p.out)
        /\ q.seqNum = IF f = "SYNACK" THEN Wrap(1)
                      ELSE IF f \in {"DATA", "FIN"} THEN Wrap(p.seqNum + 1) ELSE p.seqNum
    BY DEF Sending, Pcbs
  <2> HIDE DEF q, pkt
  <2> QED BY <2>1, <2>2, <2>3, <2>4, <2>5, <2>6
<1> QED BY <1>1, <1>2

\* An ACK or a RST leaves the numbers alone.
LEMMA SendStill ==
  ASSUME NEW p \in Pcbs, NEW f \in {"ACK", "RST"}
  PROVE  Still(p, tcpSend(p, f).pcb)
BY SendNumbers DEF Still, SameSegments

LEMMA DequeueNumbers ==
  ASSUME NEW p \in Pcbs, NEW ack
  PROVE  LET q == tcpDequeue(p, ack)
         IN  /\ q.state = p.state /\ q.rxQ = p.rxQ /\ q.epoch = p.epoch /\ q.read = p.read
             /\ q.sendAckNum = p.sendAckNum /\ q.out = p.out /\ q.seqNum = p.seqNum
             /\ q.txQ = SubSeq(p.txQ, Freed(p, ack) + 1, Len(p.txQ))
BY DEF tcpDequeue, Pcbs

LEMMA TickStill ==
  ASSUME NEW p \in Pcbs
  PROVE  Still(p, Ticked(p))
<1>1. CASE p.state = "TIME_WAIT"
  BY <1>1 DEF Ticked, Pcbs, Still, SameSegments
<1>2. CASE p.state # "TIME_WAIT" /\ p.txQ # <<>>
  <2>1. Ticked(p) = [p EXCEPT !.txQ = Aged(p)]
    BY <1>2 DEF Ticked
  <2>2. /\ DOMAIN Aged(p) = DOMAIN p.txQ
        /\ \A i \in DOMAIN p.txQ : Aged(p)[i].seg = p.txQ[i].seg
    BY AgedPackets
  <2> QED BY <2>1, <2>2 DEF Pcbs, Still, SameSegments
<1>3. CASE p.state # "TIME_WAIT" /\ p.txQ = <<>>
  BY <1>3 DEF Ticked, Pcbs, Still, SameSegments
<1> QED BY <1>1, <1>2, <1>3

-----------------------------------------------------------------------------
(* The client's stream                                                     *)

\* A segment in flight, as its client sent it.
LEMMA FlightBounds ==
  ASSUME Inv, ClientsKeepTo, NEW c \in Clients, NEW m \in Segments, <<c, m>> \in toFw
  PROVE  /\ OfClient(peer[c], plan.in[c], m)
         /\ plan \in Plans /\ plan.epochs[c] \in 0..MaxEpochs /\ plan.in[c] \in Nat /\ plan.out[c] \in Nat
         /\ peer[c].e \in Nat /\ peer[c].rcv \in Nat /\ peer[c].e <= plan.epochs[c]
         /\ m.f \in {"SYN", "DATA"} =>
              /\ m.data.e \in 1..plan.epochs[c] /\ m.data.n \in 0..plan.in[c]
              /\ Isn[m.data.e] \in Seqs
<1>1. plan \in Plans /\ plan \in Plan /\ peer \in [Clients -> Peers] /\ peer[c].e <= plan.epochs[c]
  BY TcpAssumption DEF ClientsKeepTo, Inv, TypeOK
<1>2. plan.epochs[c] \in 0..MaxEpochs /\ plan.in[c] \in Nat /\ plan.out[c] \in Nat
  BY <1>1 DEF Plan
<1>3. peer[c].e \in Nat /\ peer[c].rcv \in Nat
  BY <1>1 DEF Peers
<1>4. OfClient(peer[c], plan.in[c], m)
  BY DEF ClientsKeepTo
<1>5. ASSUME m.f \in {"SYN", "DATA"}
      PROVE  /\ m.data.e \in 1..plan.epochs[c] /\ m.data.n \in 0..plan.in[c]
             /\ Isn[m.data.e] \in Seqs
  <2>1. m.data.e = peer[c].e /\ peer[c].e # 0 /\ m.data.n \in 0..plan.in[c]
    BY <1>4, <1>5 DEF OfClient
  <2>2. m.data.e \in 1..plan.epochs[c] /\ m.data.e \in 1..MaxEpochs
    BY <1>1, <1>2, <1>3, <2>1, TcpAssumption
  <2> QED BY <2>1, <2>2, TcpAssumption DEF Seqs
<1> QED BY <1>1, <1>2, <1>3, <1>4, <1>5

LEMMA StreamMoves ==
  ASSUME NumbersApart, Inv, ClientsKeepTo, NEW c \in Clients, NEW p \in Pcbs, NEW q \in Pcbs,
         Stream(p, plan.epochs[c], plan.in[c]), Receives(c, p, q)
  PROVE  Stream(q, plan.epochs[c], plan.in[c])
<1>1. /\ p.rxQ \in Seq(Payloads) /\ p.read \in Nat /\ p.epoch \in Nat /\ p.state \in States
      /\ Len(p.rxQ) \in Nat /\ DOMAIN p.rxQ = 1..Len(p.rxQ) /\ p.sendAckNum \in Seqs
  <2>1. p.rxQ \in Seq(Payloads) /\ p.read \in Nat /\ p.epoch \in Nat /\ p.state \in States
        /\ p.sendAckNum \in Seqs
    BY PcbFields
  <2> QED BY <2>1
<1>r. PICK r \in Nat : r = p.read
  BY <1>1
<1>l. PICK l \in Nat : l = Len(p.rxQ)
  BY <1>1
<1>2. CASE q.rxQ = <<>> /\ q.state \notin {"SYN_RCVD", "ESTABLISHED"}
  BY <1>2 DEF Stream
<1>3. CASE \E m \in Segments :
             /\ <<c, m>> \in toFw /\ m.f = "SYN"
             /\ q.rxQ = <<>> /\ q.read = 0 /\ q.epoch = m.data.e /\ q.sendAckNum = Wrap(m.seq + 1)
  <2>1. PICK m \in Segments :
             /\ <<c, m>> \in toFw /\ m.f = "SYN"
             /\ q.rxQ = <<>> /\ q.read = 0 /\ q.epoch = m.data.e /\ q.sendAckNum = Wrap(m.seq + 1)
    BY <1>3
  <2>2. /\ m.data.e \in 1..plan.epochs[c] /\ m.data.n = 0 /\ Isn[m.data.e] \in Seqs
        /\ m.seq = Wrap(Isn[m.data.e] + m.data.n) /\ plan.in[c] \in Nat
    BY <2>1, FlightBounds DEF OfClient
  <2>3. PICK k \in Seqs : k = Isn[m.data.e]
    BY <2>2
  <2>4. k \in Nat /\ k + 0 = k /\ k + 1 + 0 + 0 = k + 1
    BY Numbers
  <2>5. m.seq = k
    BY <2>2, <2>3, <2>4, WrapSmall
  <2>6. Len(q.rxQ) = 0 /\ DOMAIN q.rxQ = {}
    BY <2>1
  <2>7. q.sendAckNum = Wrap(Isn[q.epoch] + 1 + q.read + Len(q.rxQ))
    BY <2>1, <2>3, <2>4, <2>5, <2>6
  <2>8. q.read + Len(q.rxQ) <= plan.in[c]
    BY <2>1, <2>2, <2>6
  <2> QED BY <2>1, <2>2, <2>6, <2>7, <2>8 DEF Stream
<1>4. CASE \E m \in Segments :
             /\ <<c, m>> \in toFw /\ m.f \notin {"ACK", "FIN", "RST"}
             /\ p.state = "ESTABLISHED" /\ m.seq = p.sendAckNum
             /\ q.rxQ = Append(p.rxQ, m.data) /\ q.read = p.read /\ q.epoch = p.epoch
             /\ q.sendAckNum = Wrap(m.seq + (IF m.f = "DATA" THEN 1 ELSE 0))
  <2>1. PICK m \in Segments :
             /\ <<c, m>> \in toFw /\ m.f \notin {"ACK", "FIN", "RST"}
             /\ p.state = "ESTABLISHED" /\ m.seq = p.sendAckNum
             /\ q.rxQ = Append(p.rxQ, m.data) /\ q.read = p.read /\ q.epoch = p.epoch
             /\ q.sendAckNum = Wrap(m.seq + (IF m.f = "DATA" THEN 1 ELSE 0))
    BY <1>4
  <2>2. m.f \in {"SYN", "DATA"} /\ m.data \in Payloads
    BY <2>1, FlightBounds, SegmentTypes DEF OfClient
  <2>3. PICK n \in Nat : n = m.data.n
    BY <2>2 DEF Payloads
  <2>4. PICK d \in Nat : d = m.data.e
    BY <2>2 DEF Payloads
  <2>5. /\ d \in 1..plan.epochs[c] /\ n \in 0..plan.in[c] /\ Isn[d] \in Seqs
        /\ m.seq = Wrap(Isn[d] + n) /\ (m.f = "SYN" <=> n = 0) /\ plan.in[c] \in Nat /\ plan \in Plans
    BY <2>1, <2>2, <2>3, <2>4, FlightBounds DEF OfClient
  <2>6. /\ p.epoch \in 1..plan.epochs[c] /\ p.read + Len(p.rxQ) <= plan.in[c]
        /\ p.sendAckNum = Wrap(Isn[p.epoch] + 1 + p.read + Len(p.rxQ))
    BY <2>1 DEF Stream
  <2>7. PICK k \in Nat : k = 1 + r + l
    BY <1>1
  <2>8. k \in 0..plan.in[c] + 1 /\ n \in 0..plan.in[c] + 1
    BY <1>r, <1>l, <2>5, <2>6, <2>7
  <2>9. Isn[p.epoch] \in Seqs /\ Isn[p.epoch] \in Nat
    <3>1. plan.epochs[c] \in 0..MaxEpochs
      BY <2>1, FlightBounds
    <3>2. p.epoch \in 1..MaxEpochs
      BY <1>1, <2>6, <3>1, TcpAssumption
    <3> QED BY <3>2, TcpAssumption DEF Seqs
  <2>a. PICK a \in Nat : a = Isn[p.epoch]
    BY <2>9
  <2>10. Isn[p.epoch] + 1 + p.read + Len(p.rxQ) = Isn[p.epoch] + k
    <3>1. a + 1 + r + l = a + k
      BY <2>7
    <3> QED BY <1>r, <1>l, <2>a, <3>1
  <2>11. d = p.epoch /\ n = k
    <3>1. Wrap(Isn[d] + n) = Wrap(Isn[p.epoch] + k)
      BY <2>1, <2>5, <2>6, <2>10
    <3> QED BY <2>5, <2>6, <2>8, <3>1 DEF NumbersApart
  <2>12. m.f = "DATA"
    BY <1>1, <2>2, <2>5, <2>7, <2>11
  <2>13. q.sendAckNum = Wrap(Isn[p.epoch] + k + 1)
    <3>1. Isn[p.epoch] + k \in Nat
      BY <2>9
    <3>2. q.sendAckNum = Wrap(Wrap(Isn[p.epoch] + k) + 1)
      BY <2>1, <2>5, <2>11, <2>12
    <3> QED BY <3>1, <3>2, WrapNext
  <2>14. /\ Len(q.rxQ) = Len(p.rxQ) + 1 /\ q.rxQ[Len(p.rxQ) + 1] = m.data
         /\ \A j \in 1..Len(p.rxQ) : q.rxQ[j] = p.rxQ[j] /\ DOMAIN q.rxQ = 1..Len(p.rxQ) + 1
    BY <1>1, <2>1, <2>2
  <2>15. DOMAIN q.rxQ = 1..Len(p.rxQ) + 1
    BY <1>1, <2>1, <2>2
  <2>16. m.data = [e |-> q.epoch, n |-> q.read + (Len(p.rxQ) + 1)]
    <3>1. k = q.read + (Len(p.rxQ) + 1)
      <4>1. 1 + r + l = r + (l + 1)
        OBVIOUS
      <4> QED BY <1>r, <1>l, <2>1, <2>7, <4>1
    <3> QED BY <2>1, <2>2, <2>3, <2>4, <2>11, <3>1 DEF Payloads
  <2>17. \A j \in DOMAIN q.rxQ : q.rxQ[j] = [e |-> q.epoch, n |-> q.read + j]
    <3> SUFFICES ASSUME NEW j \in DOMAIN q.rxQ PROVE q.rxQ[j] = [e |-> q.epoch, n |-> q.read + j]
      OBVIOUS
    <3>1. CASE j = Len(p.rxQ) + 1
      BY <2>14, <2>16, <3>1
    <3>2. CASE j # Len(p.rxQ) + 1
      <4>1. j \in 1..Len(p.rxQ)
        BY <1>1, <2>15, <3>2
      <4> QED BY <1>1, <2>1, <2>14, <4>1 DEF Stream
    <3> QED BY <3>1, <3>2
  <2>18. Isn[q.epoch] + 1 + q.read + Len(q.rxQ) = Isn[p.epoch] + k + 1
    <3>1. a + 1 + r + (l + 1) = a + k + 1
      BY <2>7
    <3> QED BY <1>r, <1>l, <2>1, <2>a, <2>14, <3>1
  <2>19. q.read + Len(q.rxQ) <= plan.in[c]
    <3>1. q.read + Len(q.rxQ) = k
      <4>1. 1 + r + l = r + (l + 1)
        OBVIOUS
      <4> QED BY <1>r, <1>l, <2>1, <2>7, <2>14, <4>1
    <3> QED BY <2>5, <2>11, <3>1
  <2> QED BY <2>1, <2>6, <2>13, <2>17, <2>18, <2>19 DEF Stream
<1>5. CASE /\ p.rxQ # <<>> /\ q.rxQ = Tail(p.rxQ) /\ q.read = p.read + 1
           /\ q.epoch = p.epoch /\ q.sendAckNum = p.sendAckNum /\ q.state = p.state
  <2>1. /\ Len(p.rxQ) # 0 /\ Len(q.rxQ) = Len(p.rxQ) - 1 /\ DOMAIN q.rxQ = 1..Len(p.rxQ) - 1
        /\ \A j \in 1..Len(p.rxQ) - 1 : q.rxQ[j] = p.rxQ[j + 1]
    BY <1>1, <1>5
  <2>2. \A j \in DOMAIN q.rxQ : q.rxQ[j] = [e |-> q.epoch, n |-> q.read + j]
    <3> SUFFICES ASSUME NEW j \in DOMAIN q.rxQ PROVE q.rxQ[j] = [e |-> q.epoch, n |-> q.read + j]
      OBVIOUS
    <3>1. j + 1 \in DOMAIN p.rxQ /\ q.read + j = p.read + (j + 1)
      <4>1. j \in 1..l - 1 /\ j \in Nat
        BY <1>l, <2>1
      <4>2. j + 1 \in 1..l /\ (r + 1) + j = r + (j + 1)
        BY <4>1
      <4> QED BY <1>1, <1>r, <1>l, <1>5, <4>2
    <3>2. p.rxQ[j + 1] = [e |-> p.epoch, n |-> p.read + (j + 1)]
      BY <3>1 DEF Stream
    <3> QED BY <1>5, <2>1, <3>1, <3>2
  <2>3. q.read + Len(q.rxQ) = p.read + Len(p.rxQ)
    BY <1>1, <1>5, <2>1
  <2>4. ASSUME q.state \in {"SYN_RCVD", "ESTABLISHED"}
        PROVE  /\ q.epoch \in 1..plan.epochs[c] /\ q.read + Len(q.rxQ) <= plan.in[c]
               /\ q.sendAckNum = Wrap(Isn[q.epoch] + 1 + q.read + Len(q.rxQ))
    <3>1. /\ p.epoch \in 1..plan.epochs[c] /\ p.read + Len(p.rxQ) <= plan.in[c]
          /\ p.sendAckNum = Wrap(Isn[p.epoch] + 1 + p.read + Len(p.rxQ))
      BY <1>5, <2>4 DEF Stream
    <3>2. Isn[p.epoch] \in Nat
      <4>1. plan.epochs[c] \in 0..MaxEpochs
        BY DEF Inv, TypeOK, Plan
      <4>2. p.epoch \in 1..MaxEpochs
        BY <1>1, <3>1, <4>1, TcpAssumption
      <4> QED BY <4>2, TcpAssumption
    <3>3. Isn[q.epoch] + 1 + q.read + Len(q.rxQ) = Isn[p.epoch] + 1 + p.read + Len(p.rxQ)
      <4>1. PICK a \in Nat : a = Isn[p.epoch]
        BY <3>2
      <4>2. l # 0 => a + 1 + (r + 1) + (l - 1) = a + 1 + r + l
        OBVIOUS
      <4> QED BY <1>r, <1>l, <1>5, <2>1, <4>1, <4>2
    <3> QED BY <1>5, <2>3, <3>1, <3>3
  <2> QED BY <2>2, <2>4 DEF Stream
<1>6. CASE /\ q.rxQ = p.rxQ /\ q.read = p.read /\ q.epoch = p.epoch
           /\ q.state \in {"SYN_RCVD", "ESTABLISHED"} =>
                p.state \in {"SYN_RCVD", "ESTABLISHED"} /\ q.sendAckNum = p.sendAckNum
  BY <1>6 DEF Stream
<1> QED BY <1>2, <1>3, <1>4, <1>5, <1>6 DEF Receives

-----------------------------------------------------------------------------
(* The server's stream                                                     *)

\* Packets with the same segments are numbered and cover the same.
LEMMA SameCovered ==
  ASSUME NEW p, NEW q, NEW r, NEW o, SameSegments(p, q), q.out = p.out
  PROVE  /\ Numbered(p, o) => Numbered(q, o)
         /\ Covered(p, r) => Covered(q, r)
BY DEF SameSegments, Numbered, Covered

\* A packet more in the queue.
LEMMA AppendCovered ==
  ASSUME NEW p \in Pcbs, NEW q \in Pcbs, NEW r \in Peers, NEW o \in Nat, NEW pkt \in Packets,
         q.txQ = Append(p.txQ, pkt), Numbered(p, o),
         \/ ~IsData(pkt) /\ pkt.seg.data.n = 0 /\ q.out = p.out
         \/ /\ IsData(pkt) /\ pkt.seg.data.n = p.out + 1 /\ q.out = p.out + 1
            /\ pkt.seg.data.n <= pkt.seg.seq /\ pkt.seg.seq <= o + 1
  PROVE  Numbered(q, o) /\ (Covered(p, r) => Covered(q, r))
<1>1. p.txQ \in Seq(Packets) /\ p.out \in Nat /\ r.rcv \in Nat
  BY PcbFields DEF Peers
<1>2. PICK l \in Nat : l = Len(p.txQ)
  BY <1>1
<1>3. /\ DOMAIN p.txQ = 1..l /\ DOMAIN q.txQ = 1..l + 1 /\ q.txQ[l + 1] = pkt
      /\ \A j \in 1..l : q.txQ[j] = p.txQ[j]
  BY <1>1, <1>2
<1>4. ASSUME NEW j \in 1..l + 1, j # l + 1 PROVE j \in 1..l
  BY <1>4
<1>5. l + 1 \in 1..l + 1
  OBVIOUS
<1>6. Numbered(q, o)
  <2> SUFFICES ASSUME NEW j \in 1..l + 1
               PROVE  LET s == q.txQ[j].seg
                      IN  IF s.f = "DATA" THEN s.data.n <= s.seq /\ s.seq <= o + 1 ELSE s.data.n = 0
    BY <1>3 DEF Numbered
  <2>1. CASE j = l + 1
    BY <1>3, <2>1 DEF IsData
  <2>2. CASE j # l + 1
    BY <1>3, <1>4, <2>2 DEF Numbered
  <2> QED BY <2>1, <2>2
<1>7. ASSUME Covered(p, r) PROVE Covered(q, r)
  <2> SUFFICES ASSUME NEW n \in 1..q.out
               PROVE  r.rcv > n \/ \E j \in DOMAIN q.txQ : q.txQ[j].seg.data.n = n
    BY DEF Covered
  <2>1. CASE n \in 1..p.out
    <3>1. r.rcv > n \/ \E j \in 1..l : p.txQ[j].seg.data.n = n
      BY <1>3, <1>7, <2>1 DEF Covered
    <3>2. \A j \in 1..l : j \in 1..l + 1
      OBVIOUS
    <3> QED BY <1>3, <3>1, <3>2
  <2>2. CASE n \notin 1..p.out
    <3>1. n = p.out + 1 /\ pkt.seg.data.n = n
      BY <1>1, <2>2
    <3> QED BY <1>3, <1>5, <3>1
  <2> QED BY <2>1, <2>2
<1> QED BY <1>6, <1>7

\* What an acknowledgement of the client frees, the client has.
LEMMA FreedCovered ==
  ASSUME NEW p \in Pcbs, NEW q \in Pcbs, NEW r \in Peers, NEW o \in Nat, o + 2 < SeqSpace,
         NEW ack \in Nat, ack <= r.rcv, q.out = p.out,
         q.txQ = SubSeq(p.txQ, Freed(p, ack) + 1, Len(p.txQ)), Numbered(p, o)
  PROVE  Numbered(q, o) /\ (Covered(p, r) => Covered(q, r))
<1>1. p.txQ \in Seq(Packets) /\ p.out \in Nat /\ r.rcv \in Nat
  BY PcbFields DEF Peers
<1>2. PICK l \in Nat : l = Len(p.txQ)
  BY <1>1
<1>3. PICK k \in 0..l : k = Freed(p, ack)
  BY <1>2, FreedPackets
<1>4. \A i \in 1..k : PacketEnd(p.txQ[i]) <= ack
  BY <1>3, FreedPackets
<1>5. DOMAIN p.txQ = 1..l /\ \A i \in 1..l : p.txQ[i] \in Packets
  BY <1>1, <1>2
<1>6. DOMAIN q.txQ = 1..l - k /\ \A j \in 1..l - k : q.txQ[j] = p.txQ[k + j]
  <2>1. q.txQ = SubSeq(p.txQ, k + 1, l)
    BY <1>2, <1>3
  <2> QED BY <1>1, <1>2, <1>3, <2>1
<1>7. Numbered(q, o)
  <2>1. \A j \in 1..l - k : k + j \in 1..l
    BY <1>3
  <2> QED BY <1>5, <1>6, <2>1 DEF Numbered
<1>8. ASSUME Covered(p, r) PROVE Covered(q, r)
  <2> SUFFICES ASSUME NEW n \in 1..p.out
               PROVE  r.rcv > n \/ \E j \in DOMAIN q.txQ : q.txQ[j].seg.data.n = n
    BY DEF Covered
  <2>1. CASE r.rcv > n
    BY <2>1
  <2>2. CASE ~(r.rcv > n)
    <3>1. PICK i \in 1..l : p.txQ[i].seg.data.n = n
      BY <1>5, <1>8, <2>2 DEF Covered
    <3>2. CASE i <= k
      <4>1. PacketEnd(p.txQ[i]) <= ack
        BY <1>3, <1>4, <3>1, <3>2
      <4>2. p.txQ[i].seg.f = "DATA"
        BY <1>1, <1>5, <3>1 DEF Numbered
      <4>3. p.txQ[i].seg.seq \in Nat
        BY <1>5, SegmentTypes DEF Packets
      <4>4. PICK s \in Nat : s = p.txQ[i].seg.seq
        BY <4>3
      <4>5. n <= s /\ s <= o + 1
        BY <1>5, <3>1, <4>2, <4>4 DEF Numbered
      <4>6. PacketEnd(p.txQ[i]) = s + 1
        <5>1. s + 1 \in Seqs
          BY <4>5, TcpAssumption DEF Seqs
        <5> QED BY <4>2, <4>4, <5>1, WrapSmall DEF PacketEnd
      <4>7. n + 1 <= r.rcv
        BY <1>1, <4>1, <4>5, <4>6
      <4> QED BY <1>1, <2>2, <4>7
    <3>3. CASE ~(i <= k)
      <4>1. PICK j \in 1..l - k : i = k + j
        <5>1. i - k \in 1..l - k /\ i = k + (i - k)
          BY <1>3, <3>3
        <5> QED BY <5>1
      <4> QED BY <1>6, <3>1, <4>1
    <3> QED BY <3>2, <3>3
  <2> QED BY <2>1, <2>2
<1> QED BY <1>7, <1>8

LEMMA SentMoves ==
  ASSUME PortsDistinct, NumbersLast, Inv, ClientsKeepTo, Joined,
         NEW c \in Clients, NEW p \in Pcbs, p = pcb[c], NEW q \in Pcbs,
         Sent(p, peer[c], plan.out[c]), Sends(c, p, q)
  PROVE  Sent(q, peer[c], plan.out[c])
<1> DEFINE r == peer[c]
           o == plan.out[c]
<1>1. r \in Peers /\ r.e \in Nat /\ r.rcv \in Nat /\ o \in Nat /\ o + 2 < SeqSpace
  <2>1. r \in Peers /\ plan \in Plan /\ plan \in Plans
    BY DEF Inv, TypeOK, ClientsKeepTo
  <2> QED BY <2>1 DEF Peers, Plan, NumbersLast
<1>2. p.out \in Nat /\ p.epoch \in Nat /\ p.seqNum \in Seqs /\ p.txQ \in Seq(Packets) /\ p.state \in States
  BY PcbFields
<1> HIDE DEF r, o
<1>3. Sent(p, r, o)
  BY DEF r, o
<1>n. \A n \in 0..o + 2 : Wrap(n) = n
  <2>1. \A n \in 0..o + 2 : n \in Seqs
    BY <1>1, TcpAssumption DEF Seqs
  <2> QED BY <2>1, WrapSmall
<1>p. p.epoch <= r.e /\ p.out <= o /\ Numbered(p, o) /\ (p.epoch = r.e => Covered(p, r))
  BY <1>3 DEF Sent
<1>4. CASE q = NoPcb
  <2>1. q.epoch = 0 /\ q.out = 0 /\ q.state = "NONE" /\ q.txQ = <<>>
    BY <1>4 DEF NoPcb
  <2> QED BY <1>1, <2>1 DEF Sent, Numbered, Covered, r, o
<1>5. CASE p.state # "NONE" /\ Victim(c) # c
  <2>1. c \in Open
    BY <1>5 DEF Open
  <2> QED BY <1>5, <2>1, OwnVictim
<1>6. CASE \E m \in Segments :
             /\ <<c, m>> \in toFw /\ m.f = "SYN"
             /\ q.state = "SYN_RCVD" /\ q.epoch = m.data.e /\ q.out = 0 /\ q.seqNum = Wrap(1)
             /\ \A j \in DOMAIN q.txQ : ~IsData(q.txQ[j]) /\ q.txQ[j].seg.data.n = 0
  <2>1. q.epoch = r.e
    BY <1>6, FlightBounds DEF OfClient, r
  <2>2. Numbered(q, o)
    BY <1>6 DEF Numbered, IsData
  <2>3. q.seqNum = 1
    BY <1>1, <1>6, <1>n
  <2>4. Covered(q, r)
    BY <1>6 DEF Covered
  <2>5. q.epoch <= r.e /\ q.out <= o
    BY <1>1, <1>6, <2>1
  <2> QED BY <1>6, <2>2, <2>3, <2>4, <2>5 DEF Sent, r, o
<1>7. CASE Freeing(c, p, q)
  <2>1. PICK m \in Segments :
          /\ <<c, m>> \in toFw
          /\ q.epoch = p.epoch /\ q.out = p.out /\ q.seqNum = p.seqNum
          /\ q.state = p.state \/ (p.state = "SYN_RCVD" /\ q.state = "ESTABLISHED")
          /\ q.txQ = SubSeq(p.txQ, Freed(p, m.ack) + 1, Len(p.txQ))
    BY <1>7 DEF Freeing
  <2>2. m.ack \in Nat /\ m.ack <= r.rcv
    BY <2>1, FlightBounds, SegmentTypes DEF OfClient, r
  <2>3. Numbered(q, o) /\ (Covered(p, r) => Covered(q, r))
    BY <1>1, <1>p, <2>1, <2>2, FreedCovered
  <2> QED BY <1>3, <2>1, <2>3 DEF Sent, r, o
<1>8. CASE Appending(p, q)
  <2>1. PICK pkt \in Packets :
          /\ ~IsData(pkt) /\ pkt.seg.data.n = 0
          /\ q.epoch = p.epoch /\ q.out = p.out /\ q.txQ = Append(p.txQ, pkt)
          /\ \/ p.state = "SYN_RCVD" /\ q.state = "SYN_RCVD" /\ q.seqNum = Wrap(1)
             \/ p.state = "ESTABLISHED" /\ q.state = "LAST_ACK" /\ q.seqNum = Wrap(p.seqNum + 1)
             \/ q.state = "FIN_WAIT_1"
    BY <1>8 DEF Appending
  <2>2. Numbered(q, o) /\ (Covered(p, r) => Covered(q, r))
    BY <1>1, <1>p, <2>1, AppendCovered
  <2>3. q.state = "SYN_RCVD" => q.out = 0 /\ q.seqNum = q.out + 1
    BY <1>1, <1>3, <1>n, <2>1 DEF Sent
  <2>4. q.state = "LAST_ACK" => q.seqNum = q.out + 2
    <3> SUFFICES ASSUME q.state = "LAST_ACK" PROVE q.seqNum = q.out + 2
      OBVIOUS
    <3>1. p.seqNum = p.out + 1 /\ q.seqNum = Wrap(p.seqNum + 1)
      BY <1>3, <2>1 DEF Sent
    <3>2. p.out + 1 + 1 = p.out + 2 /\ p.out + 2 \in 0..o + 2
      BY <1>1, <1>2, <1>p
    <3> QED BY <1>n, <2>1, <3>1, <3>2
  <2>5. q.state \in {"SYN_RCVD", "LAST_ACK", "FIN_WAIT_1"}
    BY <2>1
  <2> QED BY <1>p, <2>1, <2>2, <2>3, <2>4, <2>5 DEF Sent, r, o
<1>9. CASE SendingNext(c, p, q)
  <2>1. PICK pkt \in Packets :
          /\ IsData(pkt) /\ pkt.seg.data.n = p.out + 1 /\ pkt.seg.seq = p.seqNum
          /\ p.accepted /\ p.state # "NONE" /\ (Joins(c) => p.state # "FIN_WAIT_1")
          /\ p.out < plan.out[c]
          /\ q.state = p.state /\ q.epoch = p.epoch /\ q.out = p.out + 1
          /\ q.seqNum = Wrap(p.seqNum + 1) /\ q.txQ = Append(p.txQ, pkt)
    BY <1>9 DEF SendingNext
  <2>2. Joins(c)
    BY <2>1 DEF Joined, Open
  <2>3. Window(p)
    BY <2>1, <2>2 DEF Joins, Good
  <2>4. p.state \in {"ESTABLISHED", "LAST_ACK", "TIME_WAIT"}
    BY <1>2, <2>1, <2>2, <2>3 DEF Window, States
  <2>5. PICK n \in Nat : n = p.out
    BY <1>2
  <2>6. n + 1 <= o /\ n + 1 \in 0..o + 2 /\ n + 2 \in 0..o + 2 /\ n + 3 \in 0..o + 2
    <3>1. n < o
      BY <2>1, <2>5 DEF o
    <3> QED BY <1>1, <3>1
  <2>7. \/ p.state = "ESTABLISHED" /\ p.seqNum = n + 1
        \/ p.state # "ESTABLISHED" /\ p.seqNum = n + 2
    BY <1>3, <2>4, <2>5 DEF Sent
  <2>8. n + 1 <= p.seqNum /\ p.seqNum <= o + 1
    BY <1>1, <2>6, <2>7
  <2>9. Numbered(q, o) /\ (Covered(p, r) => Covered(q, r))
    <3>1. pkt.seg.data.n <= pkt.seg.seq /\ pkt.seg.seq <= o + 1
      BY <2>1, <2>5, <2>8
    <3> QED BY <1>1, <1>p, <2>1, <3>1, AppendCovered
  <2>10. IF p.state = "ESTABLISHED" THEN q.seqNum = q.out + 1 ELSE q.seqNum = q.out + 2
    <3>1. CASE p.state = "ESTABLISHED"
      <4>1. Wrap((n + 1) + 1) = (n + 1) + 1
        <5>1. (n + 1) + 1 = n + 2
          OBVIOUS
        <5> QED BY <1>n, <2>6, <5>1
      <4> QED BY <2>1, <2>5, <2>7, <3>1, <4>1
    <3>2. CASE p.state # "ESTABLISHED"
      <4>1. Wrap((n + 2) + 1) = (n + 1) + 2
        <5>1. (n + 2) + 1 = n + 3 /\ (n + 1) + 2 = n + 3
          OBVIOUS
        <5> QED BY <1>n, <2>6, <5>1
      <4> QED BY <2>1, <2>5, <2>7, <3>2, <4>1
    <3> QED BY <3>1, <3>2
  <2> QED BY <1>p, <2>1, <2>4, <2>5, <2>6, <2>9, <2>10 DEF Sent, r, o
<1>10. CASE /\ q.epoch = p.epoch /\ q.out = p.out /\ q.seqNum = p.seqNum /\ SameSegments(p, q)
            /\ q.state = p.state \/ (p.state = "LAST_ACK" /\ q.state = "TIME_WAIT")
  BY <1>3, <1>10, SameCovered DEF Sent, r, o
<1> QED BY <1>4, <1>5, <1>6, <1>7, <1>8, <1>9, <1>10 DEF Sends

-----------------------------------------------------------------------------
(* The steps of the firmware                                               *)

MovesOn(d) == Moving(d, pcb[d], pcb'[d])

LEMMA OneMoves ==
  ASSUME Inv, NEW c \in Clients, NEW q, Moving(c, pcb[c], q), pcb' = [pcb EXCEPT ![c] = q]
  PROVE  \A d \in Clients : MovesOn(d)
<1>1. \A d \in Clients : pcb'[d] = IF d = c THEN q ELSE pcb[d]
  BY DEF Inv, TypeOK
<1>2. \A d \in Clients : Still(pcb[d], pcb[d])
  BY DEF Still, SameSegments
<1> QED BY <1>1, <1>2, StillMoves DEF MovesOn

LEMMA RemovalMoves ==
  ASSUME Inv, NEW c \in Open, NEW pcbs \in [Clients -> Pcbs],
         \A d \in Clients : Still(pcb[d], pcbs[d]), Unlink(pcbs, c)
  PROVE  \A d \in Clients : MovesOn(d)
<1> DEFINE v == Victim(c)
           closed == [pcbs[c] EXCEPT !.txQ = <<>>, !.rxQ = <<>>, !.state = "CLOSED"]
<1>1. v \in Clients /\ c \in Clients /\ pcbs[c] \in Pcbs /\ pcb[c].state # "NONE"
  BY VictimListed DEF Inv, Open
<1>2. pcb' = [pcbs EXCEPT ![c] = closed, ![v] = NoPcb]
  BY DEF Unlink
<1>3. closed.state = "CLOSED" /\ closed.rxQ = <<>>
  BY <1>1 DEF Pcbs
<1> HIDE DEF v, closed
<1>4. \A d \in Clients : pcb'[d] = IF d = v THEN NoPcb ELSE IF d = c THEN closed ELSE pcbs[d]
  BY <1>1, <1>2
<1> SUFFICES ASSUME NEW d \in Clients PROVE MovesOn(d)
  OBVIOUS
<1>5. CASE d = v
  <2>1. pcb'[d] = NoPcb /\ NoPcb.rxQ = <<>> /\ NoPcb.state = "NONE"
    BY <1>4, <1>5 DEF NoPcb
  <2> QED BY <2>1 DEF MovesOn, Moving, Receives, Sends
<1>6. CASE d # v /\ d = c
  <2>1. pcb'[d] = closed
    BY <1>4, <1>6
  <2>2. Victim(d) # d
    BY <1>6 DEF v
  <2> QED BY <1>1, <1>3, <1>6, <2>1, <2>2 DEF MovesOn, Moving, Receives, Sends
<1>7. CASE d # v /\ d # c
  BY <1>4, <1>7, StillMoves DEF MovesOn
<1> QED BY <1>5, <1>6, <1>7

LEMMA TimerMoves ==
  ASSUME Inv, Timer
  PROVE  toFw' = toFw /\ \A d \in Clients : MovesOn(d)
<1> DEFINE ends   == {i \in DOMAIN clientList : Ends(pcb[clientList[i]])}
           first  == CHOOSE i \in ends : \A j \in ends : i <= j
           seen   == {clientList[i] : i \in {j \in DOMAIN clientList : ends # {} => j <= first}}
           ticked == [c \in Clients |->
                         IF c \in seen /\ ~Ends(pcb[c]) THEN Ticked(pcb[c]) ELSE pcb[c]]
<1>1. /\ IF ends # {} THEN removePCB(ticked, clientList[first]) ELSE pcb' = ticked
      /\ toFw' = toFw
  BY DEF Timer
<1>2. clientList \in Seq(Clients) /\ \A d \in Clients : pcb[d] \in Pcbs
  BY DEF Inv, TypeOK
<1>3. ASSUME ends # {} PROVE clientList[first] \in Open
  <2>1. ends \subseteq DOMAIN clientList /\ ends \subseteq Nat
    BY <1>2
  <2>2. \E i \in ends : \A j \in ends : i <= j
    <3> HIDE DEF ends
    <3> QED BY <1>3, <2>1, LeastElement
  <2>3. first \in ends
    <3> HIDE DEF ends
    <3> QED BY <2>2
  <2>4. clientList[first] \in Range(clientList)
    BY <2>1, <2>3 DEF Range
  <2> QED BY <2>4 DEF Inv, Listed
<1>4. ASSUME NEW d \in Clients PROVE ticked[d] \in Pcbs /\ Still(pcb[d], ticked[d])
  <2>1. ticked[d] = Ticked(pcb[d]) \/ ticked[d] = pcb[d]
    <3> HIDE DEF seen
    <3> QED OBVIOUS
  <2> HIDE DEF ticked
  <2>2. Still(pcb[d], pcb[d])
    BY DEF Still, SameSegments
  <2> QED BY <1>2, <2>1, <2>2, TickStill, TickedTypes
<1>5. ticked \in [Clients -> Pcbs]
  <2>1. ticked = [c \in Clients |-> ticked[c]]
    <3> HIDE DEF seen
    <3> QED OBVIOUS
  <2> HIDE DEF ticked
  <2> QED BY <1>4, <2>1
<1> HIDE DEF ends, first, ticked
<1>6. CASE ends # {}
  BY <1>1, <1>3, <1>4, <1>5, <1>6, RemovalMoves DEF removePCB
<1>7. CASE ends = {}
  BY <1>1, <1>4, <1>7, StillMoves DEF MovesOn
<1> QED BY <1>1, <1>6, <1>7

LEMMA LinkMoves ==
  ASSUME Inv, LinkReset
  PROVE  toFw' = toFw /\ \A d \in Clients : MovesOn(d)
<1>1. toFw' = toFw /\ \A d \in Clients : pcb'[d] = NoPcb
  BY DEF LinkReset
<1>2. NoPcb.rxQ = <<>> /\ NoPcb.state = "NONE"
  BY DEF NoPcb
<1> QED BY <1>1, <1>2 DEF MovesOn, Moving, Receives, Sends

LEMMA InputMoves ==
  ASSUME Inv, tcpInput
  PROVE  toFw' \subseteq toFw /\ \A d \in Clients : MovesOn(d)
<1> DEFINE Received(c, m) ==
       \/ RxRefused(c, m) \/ RxListen(c, m) \/ RxReset(c, m) \/ RxSynRcvd(c, m)
       \/ RxOutOfOrder(c, m) \/ RxAck(c, m) \/ RxData(c, m) \/ RxFin(c, m)
       \/ RxFinWait(c, m) \/ RxLastAck(c, m) \/ RxTimeWait(c, m)
<1>a. PICK c \in Clients : \E m \in {x[2] : x \in {y \in toFw : y[1] = c}} : Received(c, m)
  BY DEF tcpInput
<1>b. PICK m \in {x[2] : x \in {y \in toFw : y[1] = c}} : Received(c, m)
  BY <1>a
<1>1. m \in Segments /\ m.ack \in Nat /\ m.data \in Payloads
  BY SegmentTypes DEF Inv, TypeOK
<1>2. PICK p \in Pcbs : p = pcb[c]
  BY DEF Inv, TypeOK
<1>3. <<c, m>> \in toFw /\ toFw' \subseteq toFw
  <2>1. Arrives(c, m)
    BY <1>b DEF RxRefused, RxListen, RxReset, RxSynRcvd, RxOutOfOrder, RxAck, RxData, RxFin,
                RxFinWait, RxLastAck, RxTimeWait
  <2> QED BY <2>1 DEF Arrives
<1> SUFFICES \A d \in Clients : MovesOn(d)
  BY <1>3
<1>4. ASSUME NEW q, pcb' = [pcb EXCEPT ![c] = q], Moving(c, p, q)
      PROVE  \A d \in Clients : MovesOn(d)
  BY <1>2, <1>4, OneMoves
<1>5. ASSUME NEW q, Still(p, q) PROVE Moving(c, p, q)
  BY <1>5, StillMoves
<1>6. Still(p, p) /\ \A d \in Clients : Still(pcb[d], pcb[d])
  BY DEF Still, SameSegments
<1>7. ASSUME pcb' = pcb PROVE \A d \in Clients : MovesOn(d)
  BY <1>6, <1>7, StillMoves DEF MovesOn
<1>8. ASSUME p.state # "NONE", removePCB(pcb, c) PROVE \A d \in Clients : MovesOn(d)
  <2>1. c \in Open /\ pcb \in [Clients -> Pcbs]
    BY <1>2, <1>8 DEF Open, Inv, TypeOK
  <2> QED BY <1>6, <1>8, <2>1, RemovalMoves DEF removePCB
\* An acknowledgement alone, in a connection that stays or is established.
<1>9. ASSUME NEW q, q = tcpDequeue(p, m.ack) PROVE Moving(c, p, q)
  BY <1>1, <1>3, <1>9, DequeueNumbers DEF Moving, Receives, Sends, Freeing
<1>11. CASE RxRefused(c, m)
  BY <1>7, <1>11 DEF RxRefused, pcbVars
<1>12. CASE RxListen(c, m)
  <2> DEFINE n == [NoPcb EXCEPT !.state = "SYN_RCVD", !.sendAckNum = Wrap(m.seq + 1),
                                !.epoch = m.data.e]
             q == tcpSend(n, "SYNACK").pcb
  <2>1. CASE m.f # "SYN"
    BY <1>7, <1>12, <2>1 DEF RxListen, pcbVars
  <2>2. CASE m.f = "SYN"
    <3>1. pcb' = [pcb EXCEPT ![c] = q]
      BY <1>12, <2>2 DEF RxListen
    <3>2. /\ n.state = "SYN_RCVD" /\ n.sendAckNum = Wrap(m.seq + 1) /\ n.epoch = m.data.e
          /\ n.rxQ = <<>> /\ n.txQ = <<>> /\ n.read = 0 /\ n.out = 0
      BY DEF NoPcb
    <3>3. n \in Pcbs
      <4>1. Wrap(m.seq + 1) \in Seqs /\ m.data.e \in Nat /\ "SYN_RCVD" \in States
        BY <1>1, SegmentTypes DEF States
      <4> QED BY <4>1, EmptyPcb DEF Pcbs
    <3> HIDE DEF n
    <3>4. /\ q.state = "SYN_RCVD" /\ q.rxQ = <<>> /\ q.epoch = m.data.e /\ q.read = 0
          /\ q.sendAckNum = Wrap(m.seq + 1) /\ q.out = 0 /\ q.seqNum = Wrap(1)
      BY <3>2, <3>3, SendNumbers
    <3>5. PICK pkt \in Packets : q.txQ = Append(<<>>, pkt) /\ pkt.seg.f = "SYNACK" /\ pkt.seg.data.n = 0
      BY <3>2, <3>3, SendNumbers
    <3>6. DOMAIN q.txQ = {1} /\ q.txQ[1] = pkt
      BY <3>5
    <3> HIDE DEF q
    <3>7. Moving(c, p, q)
      BY <1>1, <1>3, <2>2, <3>4, <3>5, <3>6 DEF Moving, Receives, Sends, IsData
    <3> QED BY <1>4, <3>1, <3>7
  <2> QED BY <2>1, <2>2
<1>13. CASE RxReset(c, m)
  BY <1>2, <1>8, <1>13 DEF RxReset
<1>14. CASE RxSynRcvd(c, m)
  <2>1. p.state = "SYN_RCVD"
    BY <1>2, <1>14 DEF RxSynRcvd
  <2>2. CASE m.f = "SYN"
    <3> DEFINE q == tcpSend(p, "SYNACK").pcb
    <3>1. pcb' = [pcb EXCEPT ![c] = q]
      BY <1>2, <1>14, <2>2 DEF RxSynRcvd, Update
    <3>2. Receives(c, p, q)
      BY <2>1, SendNumbers DEF Receives
    <3>3. Appending(p, q)
      BY <2>1, SendNumbers DEF Appending, IsData
    <3> HIDE DEF q
    <3> QED BY <1>4, <3>1, <3>2, <3>3 DEF Moving, Sends
  <2>3. CASE m.f # "SYN" /\ m.ack = p.seqNum
    <3> DEFINE d == tcpDequeue(p, m.ack)
               q == [d EXCEPT !.state = "ESTABLISHED"]
    <3>1. pcb' = [pcb EXCEPT ![c] = q]
      BY <1>2, <1>14, <2>3 DEF RxSynRcvd, Update
    <3>2. d \in Pcbs
      BY <1>1, tcpDequeueTypes
    <3>3. /\ q.state = "ESTABLISHED" /\ q.rxQ = p.rxQ /\ q.epoch = p.epoch /\ q.read = p.read
          /\ q.sendAckNum = p.sendAckNum /\ q.out = p.out /\ q.seqNum = p.seqNum
          /\ q.txQ = SubSeq(p.txQ, Freed(p, m.ack) + 1, Len(p.txQ))
      <4> HIDE DEF d
      <4>1. /\ q.state = "ESTABLISHED" /\ q.rxQ = d.rxQ /\ q.epoch = d.epoch /\ q.read = d.read
            /\ q.sendAckNum = d.sendAckNum /\ q.out = d.out /\ q.seqNum = d.seqNum /\ q.txQ = d.txQ
        BY <3>2 DEF Pcbs
      <4> HIDE DEF q
      <4> QED BY <1>1, <4>1, DequeueNumbers DEF d
    <3> HIDE DEF q
    <3>4. Moving(c, p, q)
      BY <1>1, <1>3, <2>1, <3>3 DEF Moving, Receives, Sends, Freeing
    <3> QED BY <1>4, <3>1, <3>4
  <2>4. CASE m.f # "SYN" /\ m.ack # p.seqNum
    <3>1. pcb' = [pcb EXCEPT ![c] = p]
      BY <1>2, <1>14, <2>4 DEF RxSynRcvd, Update
    <3> QED BY <1>4, <1>5, <1>6, <3>1
  <2> QED BY <2>2, <2>3, <2>4
<1>15. CASE RxOutOfOrder(c, m)
  <2>1. pcb' = [pcb EXCEPT ![c] = tcpSend(p, "ACK").pcb]
    BY <1>2, <1>15 DEF RxOutOfOrder, Update
  <2>2. Still(p, tcpSend(p, "ACK").pcb)
    BY SendStill
  <2> QED BY <1>4, <1>5, <2>1, <2>2
<1>16. CASE RxAck(c, m)
  <2>1. pcb' = [pcb EXCEPT ![c] = tcpDequeue(p, m.ack)]
    BY <1>2, <1>16 DEF RxAck, Update
  <2> QED BY <1>4, <1>9, <2>1
<1>17. CASE RxData(c, m)
  <2> DEFINE d == tcpDequeue(p, m.ack)
             n == Wrap(m.seq + (IF m.f = "DATA" THEN 1 ELSE 0))
             l == Append(d.rxQ, m.data)
             x == [d EXCEPT !.sendAckNum = n, !.rxQ = Append(@, m.data)]
             q == tcpSend(x, "ACK").pcb
  <2>1. /\ pcb' = [pcb EXCEPT ![c] = q] /\ d.state = "ESTABLISHED" /\ m.seq = d.sendAckNum
        /\ m.f \notin {"ACK", "FIN", "RST"}
    BY <1>2, <1>17 DEF RxData, Update
  <2>2. d \in Pcbs
    BY <1>1, tcpDequeueTypes
  <2>3. n \in Seqs
    <3>1. m.seq + (IF m.f = "DATA" THEN 1 ELSE 0) \in Nat
      BY <1>1, SegmentTypes
    <3> QED BY <3>1, Numbers
  <2>4. x \in Pcbs
    <3> HIDE DEF d, n
    <3> QED BY <1>1, <2>2, <2>3, PcbUpdates
  <2>5. /\ x.state = d.state /\ x.epoch = d.epoch /\ x.read = d.read /\ x.sendAckNum = n
        /\ x.out = d.out /\ x.seqNum = d.seqNum /\ x.txQ = d.txQ /\ x.rxQ = Append(d.rxQ, m.data)
    <3> HIDE DEF d, n
    <3> QED BY <2>2 DEF Pcbs
  <2>6. /\ d.state = p.state /\ d.rxQ = p.rxQ /\ d.epoch = p.epoch /\ d.read = p.read
        /\ d.sendAckNum = p.sendAckNum /\ d.out = p.out /\ d.seqNum = p.seqNum
        /\ d.txQ = SubSeq(p.txQ, Freed(p, m.ack) + 1, Len(p.txQ))
    BY <1>1, DequeueNumbers
  <2> HIDE DEF d, x
  <2>7. /\ q.state = x.state /\ q.epoch = x.epoch /\ q.read = x.read /\ q.sendAckNum = x.sendAckNum
        /\ q.out = x.out /\ q.seqNum = x.seqNum /\ q.txQ = x.txQ /\ q.rxQ = x.rxQ
    BY <2>4, SendNumbers
  <2> HIDE DEF q
  <2>8. Receives(c, p, q)
    BY <1>1, <1>3, <2>1, <2>5, <2>6, <2>7 DEF Receives
  <2>9. Freeing(c, p, q)
    BY <1>1, <1>3, <2>1, <2>5, <2>6, <2>7 DEF Freeing
  <2> QED BY <1>4, <2>1, <2>8, <2>9 DEF Moving, Sends
<1>18. CASE RxFin(c, m)
  <2> DEFINE n == Wrap(m.seq + 1)
             x == [p EXCEPT !.sendAckNum = n]
             y == tcpSend(x, "FIN").pcb
             q == [y EXCEPT !.state = "LAST_ACK"]
  <2>1. pcb' = [pcb EXCEPT ![c] = q] /\ p.state = "ESTABLISHED"
    BY <1>2, <1>18 DEF RxFin, Update
  <2>2. n \in Seqs
    BY <1>1, SegmentTypes
  <2>3. /\ x \in Pcbs /\ x.rxQ = p.rxQ /\ x.epoch = p.epoch /\ x.read = p.read
        /\ x.out = p.out /\ x.seqNum = p.seqNum /\ x.txQ = p.txQ
    <3> HIDE DEF n
    <3> QED BY <2>2 DEF Pcbs
  <2> HIDE DEF n, x
  <2>4. /\ y \in Pcbs /\ y.rxQ = x.rxQ /\ y.epoch = x.epoch /\ y.read = x.read /\ y.out = x.out
        /\ y.seqNum = Wrap(x.seqNum + 1)
    BY <2>3, SendNumbers, tcpSendTypes
  <2>5. PICK pkt \in Packets : y.txQ = Append(x.txQ, pkt) /\ pkt.seg.f = "FIN" /\ pkt.seg.data.n = 0
    BY <2>3, SendNumbers
  <2> HIDE DEF y
  <2>6. /\ q.state = "LAST_ACK" /\ q.rxQ = y.rxQ /\ q.epoch = y.epoch /\ q.read = y.read
        /\ q.out = y.out /\ q.seqNum = y.seqNum /\ q.txQ = y.txQ
    BY <2>4 DEF Pcbs
  <2> HIDE DEF q
  <2>7. Receives(c, p, q)
    BY <2>3, <2>4, <2>6 DEF Receives
  <2>8. Appending(p, q)
    BY <2>1, <2>3, <2>4, <2>5, <2>6 DEF Appending, IsData
  <2> QED BY <1>4, <2>1, <2>7, <2>8 DEF Moving, Sends
<1>19. CASE RxFinWait(c, m)
  <2>1. p.state = "FIN_WAIT_1"
    BY <1>2, <1>19 DEF RxFinWait
  <2>2. CASE m.f = "FIN"
    <3>1. removePCB(pcb, c)
      BY <1>2, <1>19, <2>2 DEF RxFinWait
    <3> QED BY <1>8, <2>1, <3>1
  <2>3. CASE m.f = "SYN"
    <3>1. pcb' = [pcb EXCEPT ![c] = p]
      BY <1>2, <1>19, <2>3 DEF RxFinWait, Update
    <3> QED BY <1>4, <1>5, <1>6, <3>1
  <2>4. CASE m.f \notin {"FIN", "SYN"}
    <3>1. pcb' = [pcb EXCEPT ![c] = tcpDequeue(p, m.ack)]
      BY <1>2, <1>19, <2>4 DEF RxFinWait, Update
    <3> QED BY <1>4, <1>9, <3>1
  <2> QED BY <2>2, <2>3, <2>4
<1>20. CASE RxLastAck(c, m)
  <2>1. p.state = "LAST_ACK"
    BY <1>2, <1>20 DEF RxLastAck
  <2>2. CASE m.f = "SYN"
    <3>1. pcb' = [pcb EXCEPT ![c] = p]
      BY <1>2, <1>20, <2>2 DEF RxLastAck, Update
    <3> QED BY <1>4, <1>5, <1>6, <3>1
  <2>3. CASE m.f # "SYN" /\ p.rxQ # <<>>
    <3> DEFINE q == [p EXCEPT !.state = "TIME_WAIT"]
    <3>1. pcb' = [pcb EXCEPT ![c] = q]
      BY <1>2, <1>20, <2>3 DEF RxLastAck, Update
    <3>2. /\ q.state = "TIME_WAIT" /\ q.rxQ = p.rxQ /\ q.epoch = p.epoch /\ q.read = p.read
          /\ q.out = p.out /\ q.seqNum = p.seqNum /\ q.txQ = p.txQ
      BY DEF Pcbs
    <3> HIDE DEF q
    <3>3. Moving(c, p, q)
      BY <2>1, <3>2 DEF Moving, Receives, Sends, SameSegments
    <3> QED BY <1>4, <3>1, <3>3
  <2>4. CASE m.f # "SYN" /\ p.rxQ = <<>>
    <3>1. removePCB(pcb, c)
      BY <1>2, <1>20, <2>4 DEF RxLastAck
    <3> QED BY <1>8, <2>1, <3>1
  <2> QED BY <2>2, <2>3, <2>4
<1>21. CASE RxTimeWait(c, m)
  <2> DEFINE q == IF m.f = "RST" THEN p ELSE tcpSend(p, "RST").pcb
  <2>1. pcb' = [pcb EXCEPT ![c] = q]
    BY <1>2, <1>21 DEF RxTimeWait, Update
  <2>2. Still(p, q)
    BY <1>6, SendStill
  <2> QED BY <1>4, <1>5, <2>1, <2>2
<1> QED
  BY <1>b, <1>11, <1>12, <1>13, <1>14, <1>15, <1>16, <1>17, <1>18, <1>19, <1>20, <1>21

LEMMA ServerMoves ==
  ASSUME Inv, Owned, NEW t \in Tasks,
         rtSktAccept(t) \/ rtSktRx(t) \/ rtSktSend(t) \/ ServerCloses(t) \/ TaskStep(t)
  PROVE  toFw' = toFw /\ \A d \in Clients : MovesOn(d)
<1>1. toFw' = toFw
  BY DEF rtSktAccept, rtSktRx, rtSktSend, ServerCloses, TaskStep, SendTest, SendWait, CloseQueue,
         CloseFin, CloseWait, Moves, netVars
<1> SUFFICES \A d \in Clients : MovesOn(d)
  BY <1>1
<1>2. PICK c : c = skt[t].pcb
  OBVIOUS
<1>3. c # None => c \in Open /\ c \in Clients /\ pcb[c].accepted /\ pcb[c].skt = t /\ pcb[c] \in Pcbs
  BY <1>2 DEF Owned, Open, Inv, TypeOK
<1>4. \A d \in Clients : Still(pcb[d], pcb[d])
  BY DEF Still, SameSegments
<1>5. ASSUME pcb' = pcb PROVE \A d \in Clients : MovesOn(d)
  BY <1>4, <1>5, StillMoves DEF MovesOn
<1>6. CASE rtSktAccept(t)
  <2> DEFINE waiting == {i \in DOMAIN clientList : ~pcb[clientList[i]].accepted}
             k       == CHOOSE i \in waiting : \A j \in waiting : i <= j
             b       == clientList[k]
             q       == [pcb[b] EXCEPT !.skt = t, !.accepted = TRUE]
  <2>1. CASE waiting # {} /\ pcb[b].state = "ESTABLISHED"
    <3>1. pcb' = [pcb EXCEPT ![b].skt = t, ![b].accepted = TRUE]
      BY <1>6, <2>1 DEF rtSktAccept
    <3>2. clientList \in Seq(Clients) /\ waiting \subseteq DOMAIN clientList /\ waiting \subseteq Nat
      BY DEF Inv, TypeOK
    <3>3. k \in waiting
      <4>1. \E i \in waiting : \A j \in waiting : i <= j
        <5> HIDE DEF waiting
        <5> QED BY <2>1, <3>2, LeastElement
      <4> HIDE DEF waiting
      <4> QED BY <4>1
    <3>4. b \in Clients
      <4> HIDE DEF k
      <4> QED BY <3>2, <3>3
    <3> HIDE DEF waiting, k, b
    <3>5. pcb[b] \in Pcbs /\ pcb \in [Clients -> Pcbs]
      BY <3>4 DEF Inv, TypeOK
    <3>6. pcb' = [pcb EXCEPT ![b] = q]
      BY <3>1, <3>4, <3>5
    <3>7. Still(pcb[b], q)
      BY <3>5 DEF Pcbs, Still, SameSegments
    <3> HIDE DEF q
    <3> QED BY <3>4, <3>6, <3>7, StillMoves, OneMoves
  <2>2. CASE ~(waiting # {} /\ pcb[b].state = "ESTABLISHED")
    <3>1. pcb' = pcb
      BY <1>6, <2>2 DEF rtSktAccept
    <3> QED BY <1>5, <3>1
  <2> QED BY <2>1, <2>2
<1>7. CASE rtSktRx(t)
  <2>1. PICK s \in Skts : s = skt[t]
    BY DEF Inv, TypeOK
  <2>2. [s EXCEPT !.rxSem = @ - 1].pcb = c
    BY <1>2, <2>1 DEF Skts
  <2>3. CASE c = None \/ pcb[c].rxQ = <<>>
    <3>1. pcb' = pcb
      BY <1>7, <2>1, <2>2, <2>3 DEF rtSktRx
    <3> QED BY <1>5, <3>1
  <2>4. CASE c # None /\ pcb[c].rxQ # <<>>
    <3> DEFINE p == pcb[c]
               q == [p EXCEPT !.rxQ = Tail(p.rxQ), !.read = p.read + 1, !.rTime = 0]
    <3>1. pcb' = [pcb EXCEPT ![c].rxQ = Tail(p.rxQ), ![c].read = @ + 1, ![c].rTime = 0]
      BY <1>7, <2>1, <2>2, <2>4 DEF rtSktRx
    <3>2. p \in Pcbs /\ p.rxQ # <<>> /\ pcb \in [Clients -> Pcbs] /\ c \in Clients
      BY <1>3, <2>4 DEF Inv, TypeOK
    <3>3. pcb' = [pcb EXCEPT ![c] = q]
      BY <3>1, <3>2 DEF Pcbs
    <3> HIDE DEF p
    <3>4. /\ q.state = p.state /\ q.rxQ = Tail(p.rxQ) /\ q.epoch = p.epoch /\ q.read = p.read + 1
          /\ q.sendAckNum = p.sendAckNum /\ q.out = p.out /\ q.seqNum = p.seqNum /\ q.txQ = p.txQ
      BY <3>2 DEF Pcbs
    <3> HIDE DEF q
    <3>5. Moving(c, p, q)
      BY <3>2, <3>4 DEF Moving, Receives, Sends, SameSegments
    <3> QED BY <3>2, <3>3, <3>5, OneMoves DEF p
  <2> QED BY <2>3, <2>4
<1>8. CASE rtSktSend(t)
  <2>1. CASE c = None
    <3>1. pcb' = pcb
      BY <1>2, <1>8, <2>1 DEF rtSktSend
    <3> QED BY <1>5, <3>1
  <2>2. CASE c # None
    <3>1. PICK p \in Pcbs : p = pcb[c]
      BY <1>3, <2>2
    <3> DEFINE r == tcpSend(p, "DATA").pcb
               q == [r EXCEPT !.sendPkts = (@ + 1) % 32]
    <3>2. /\ pcb' = [pcb EXCEPT ![c] = q] /\ p.out < plan.out[c] /\ skt[t].at = "idle"
      BY <1>2, <1>8, <2>2, <3>1 DEF rtSktSend
    <3>3. /\ r \in Pcbs /\ r.state = p.state /\ r.rxQ = p.rxQ /\ r.epoch = p.epoch /\ r.read = p.read
          /\ r.sendAckNum = p.sendAckNum /\ r.out = p.out + 1 /\ r.seqNum = Wrap(p.seqNum + 1)
      BY SendNumbers, tcpSendTypes
    <3>4. PICK pkt \in Packets : /\ r.txQ = Append(p.txQ, pkt) /\ pkt.seg.f = "DATA"
                                 /\ pkt.seg.seq = p.seqNum /\ pkt.seg.data.n = p.out + 1
      BY SendNumbers
    <3> HIDE DEF r
    <3>5. /\ q.state = r.state /\ q.rxQ = r.rxQ /\ q.epoch = r.epoch /\ q.read = r.read
          /\ q.sendAckNum = r.sendAckNum /\ q.out = r.out /\ q.seqNum = r.seqNum /\ q.txQ = r.txQ
      BY <3>3 DEF Pcbs
    <3> HIDE DEF q
    <3>6. Receives(c, p, q)
      BY <3>3, <3>5 DEF Receives
    <3>7. p.accepted /\ p.state # "NONE" /\ (Joins(c) => p.state # "FIN_WAIT_1")
      <4>1. Joins(c) => Good(skt[t], p)
        BY <1>3, <2>2, <3>1 DEF Joins
      <4> QED BY <1>3, <2>2, <3>1, <3>2, <4>1 DEF Good, Open
    <3>8. SendingNext(c, p, q)
      BY <3>2, <3>3, <3>4, <3>5, <3>7 DEF SendingNext, IsData
    <3> QED BY <1>3, <2>2, <3>1, <3>2, <3>6, <3>8, OneMoves DEF Moving, Sends
  <2> QED BY <2>1, <2>2
<1>9. CASE ServerCloses(t) \/ SendTest(t) \/ SendWait(t) \/ CloseQueue(t)
  <2>1. pcb' = pcb
    BY <1>9 DEF ServerCloses, SendTest, SendWait, CloseQueue, pcbVars
  <2> QED BY <1>5, <2>1
<1>10. CASE CloseFin(t)
  <2>1. CASE c = None
    <3>1. pcb' = pcb
      BY <1>2, <1>10, <2>1 DEF CloseFin
    <3> QED BY <1>5, <3>1
  <2>2. CASE c # None
    <3>1. PICK p \in Pcbs : p = pcb[c]
      BY <1>3, <2>2
    <3> DEFINE x == [p EXCEPT !.state = "FIN_WAIT_1"]
               q == tcpSend(x, "FIN").pcb
    <3>2. pcb' = [pcb EXCEPT ![c] = q]
      BY <1>2, <1>10, <2>2, <3>1 DEF CloseFin
    <3>3. /\ x \in Pcbs /\ x.state = "FIN_WAIT_1" /\ x.rxQ = p.rxQ /\ x.epoch = p.epoch
          /\ x.read = p.read /\ x.out = p.out /\ x.txQ = p.txQ
      BY DEF Pcbs, States
    <3> HIDE DEF x
    <3>4. /\ q.state = "FIN_WAIT_1" /\ q.rxQ = p.rxQ /\ q.epoch = p.epoch /\ q.read = p.read
          /\ q.out = p.out
      BY <3>3, SendNumbers
    <3>5. PICK pkt \in Packets : q.txQ = Append(p.txQ, pkt) /\ pkt.seg.f = "FIN" /\ pkt.seg.data.n = 0
      BY <3>3, SendNumbers
    <3> HIDE DEF q
    <3>6. Receives(c, p, q) /\ Appending(p, q)
      BY <3>4, <3>5 DEF Receives, Appending, IsData
    <3> QED BY <1>3, <2>2, <3>1, <3>2, <3>6, OneMoves DEF Moving, Sends
  <2> QED BY <2>1, <2>2
<1>11. CASE CloseWait(t)
  <2>1. PICK s \in Skts : s = skt[t]
    BY DEF Inv, TypeOK
  <2>2. [s EXCEPT !.rxSem = Down(@)].pcb = c
    BY <1>2, <2>1 DEF Skts
  <2>3. pcb' = pcb \/ (c # None /\ Unlink(pcb, c))
    BY <1>11, <2>1, <2>2 DEF CloseWait, pcbVars
  <2>4. CASE pcb' = pcb
    BY <1>5, <2>4
  <2>5. CASE c # None /\ Unlink(pcb, c)
    <3>1. c \in Open /\ pcb \in [Clients -> Pcbs]
      BY <1>3, <2>5 DEF Inv, TypeOK
    <3> QED BY <1>4, <2>5, <3>1, RemovalMoves
  <2> QED BY <2>3, <2>4, <2>5
<1> QED BY <1>6, <1>7, <1>8, <1>9, <1>10, <1>11 DEF TaskStep

-----------------------------------------------------------------------------
(* The steps of the clients                                                *)

\* The client of c becomes r: it has more than before, or comes again, and
\* what it sends is its own.
Goes(c, r) ==
    /\ peer' = [peer EXCEPT ![c] = r]
    /\ \/ r.e = peer[c].e /\ peer[c].rcv <= r.rcv
       \/ r.e = peer[c].e + 1 /\ \A x \in toFw : x[1] # c
    /\ r.e <= plan.epochs[c] /\ r.sent <= plan.in[c] /\ (r.st = "synsent" => r.rcv = 0)
    /\ \A x \in toFw' \ toFw : x[1] = c /\ OfClient(r, plan.in[c], x[2])

LEMMA SentOfClient ==
  ASSUME Inv, NEW c \in Clients, peer[c].st # "closed", NEW r, r.e = peer[c].e, r.rcv = peer[c].rcv,
         NEW i \in Nat, NEW f \in {"SYN", "ACK", "DATA", "FIN", "RST"}, NEW n \in Nat,
         f = "SYN" => n = 0, f = "DATA" => n # 0 /\ n <= i
  PROVE  OfClient(r, i, FromPeer(c, f, n))
<1> DEFINE m == FromPeer(c, f, n)
<1>1. peer[c].e # 0 /\ peer[c].rcv \in Nat
  BY DEF Inv, PeersStarted, TypeOK, Peers
<1>2. /\ m.f = f /\ m.ack = Wrap(peer[c].rcv) /\ m.seq = Wrap(Isn[peer[c].e] + n)
      /\ f \in {"SYN", "DATA"} => m.data = [e |-> peer[c].e, n |-> n]
  BY DEF FromPeer, Segment, PeerSeq
<1>3. m.ack <= r.rcv
  BY <1>1, <1>2, WrapBelow
<1>4. f \in {"SYN", "DATA"} => n \in 0..i
  OBVIOUS
<1>5. f \in {"SYN", "DATA"} => m.data.e = r.e /\ m.data.n = n
  BY <1>2
<1> HIDE DEF m
<1>6. OfClient(r, i, m)
  BY <1>1, <1>2, <1>3, <1>4, <1>5 DEF OfClient
<1> QED BY <1>6 DEF m

LEMMA ClientGoes ==
  ASSUME Inv, ClientsKeepTo, NEW c \in Clients, Client(c)
  PROVE  \E r \in Peers : Goes(c, r)
<1>1. PICK q \in Peers : q = peer[c]
  BY DEF Inv, TypeOK
<1>2. /\ q.sent \in Nat /\ q.rcv \in Nat /\ q.again \in Nat /\ q.e \in Nat
      /\ q.st \in {"closed", "synsent", "est", "fin"} /\ (q.st # "closed" => q.e # 0)
  BY <1>1 DEF Inv, PeersStarted, Peers
<1>3. PICK i \in Nat : i = plan.in[c]
  BY DEF Inv, TypeOK, Plan
<1>4. plan.epochs[c] \in Nat /\ q.e <= plan.epochs[c] /\ q.sent <= i /\ (q.st = "synsent" => q.rcv = 0)
  <2>1. plan.epochs[c] \in 0..MaxEpochs
    BY DEF Inv, TypeOK, Plan
  <2> QED BY <1>1, <1>3, <2>1, TcpAssumption DEF ClientsKeepTo
<1>5. ASSUME NEW r \in Peers, NEW m, PeerSends(c, r, m), OfClient(r, i, m),
             r.e = q.e, r.rcv = q.rcv, r.sent <= i, r.st # "synsent" \/ r.st = q.st
      PROVE  \E s \in Peers : Goes(c, s)
  <2>1. peer' = [peer EXCEPT ![c] = r] /\ \A x \in toFw' \ toFw : x = <<c, m>>
    BY <1>5 DEF PeerSends
  <2>2. Goes(c, r)
    BY <1>1, <1>2, <1>3, <1>4, <1>5, <2>1 DEF Goes
  <2> QED BY <2>2
<1>6. ASSUME NEW n \in Nat
      PROVE  /\ [q EXCEPT !.again = n] \in Peers /\ [q EXCEPT !.sent = n] \in Peers
             /\ [q EXCEPT !.rcv = n] \in Peers /\ [q EXCEPT !.st = "est", !.rcv = n] \in Peers
             /\ [q EXCEPT !.st = "fin"] \in Peers /\ [q EXCEPT !.st = "closed"] \in Peers
  BY DEF Peers
<1>8. q.sent + 1 \in Nat /\ q.again + 1 \in Nat /\ q.rcv + 1 \in Nat /\ 1 \in Nat
  BY <1>2
<1>9. CASE PeerOpen(c)
  <2> DEFINE r == [NoPeer EXCEPT !.st = "synsent", !.e = q.e + 1, !.again = q.again]
             m == Segment("SYN", Wrap(Isn[r.e]), 0, [e |-> r.e, n |-> 0])
  <2>1. PeerSends(c, r, m) /\ q.e < plan.epochs[c] /\ \A x \in toFw : x[1] # c
    BY <1>1, <1>9 DEF PeerOpen
  <2>2. PICK e \in Nat : e = q.e + 1
    BY <1>2
  <2>3. r \in Peers /\ r.e = e /\ r.sent = 0 /\ r.rcv = 0
    BY <1>2, <2>2 DEF NoPeer, Peers
  <2> HIDE DEF r
  <2>4. m.f = "SYN" /\ m.ack = 0 /\ m.data.e = e /\ m.data.n = 0 /\ m.seq = Wrap(Isn[e])
    BY <2>3 DEF Segment
  <2> HIDE DEF m
  <2>5. e \in 1..MaxEpochs
    <3>1. plan.epochs[c] \in 0..MaxEpochs
      BY DEF Inv, TypeOK, Plan
    <3> QED BY <1>2, <2>1, <2>2, <3>1, TcpAssumption
  <2>6. Isn[e] + 0 = Isn[e]
    BY <2>5, TcpAssumption
  <2>7. e # 0 /\ 0 \in 0..i /\ 0 <= 0
    BY <2>5
  <2>8. OfClient(r, i, m)
    BY <2>3, <2>4, <2>6, <2>7 DEF OfClient
  <2>9. peer' = [peer EXCEPT ![c] = r] /\ \A x \in toFw' \ toFw : x = <<c, m>>
    BY <2>1 DEF PeerSends
  <2>10. e <= plan.epochs[c]
    BY <1>2, <1>4, <2>1, <2>2
  <2>11. Goes(c, r)
    BY <1>1, <1>3, <2>1, <2>2, <2>3, <2>8, <2>9, <2>10 DEF Goes
  <2> QED BY <2>3, <2>11
<1>10. CASE PeerAck(c)
  <2>1. q.st # "closed" /\ PeerSends(c, q, FromPeer(c, "ACK", q.sent + 1))
    BY <1>1, <1>10 DEF PeerAck
  <2>2. OfClient(q, i, FromPeer(c, "ACK", q.sent + 1))
    BY <1>1, <1>8, <2>1, SentOfClient
  <2> QED BY <1>4, <1>5, <2>1, <2>2
<1>11. CASE PeerAgain(c)
  <2> DEFINE r == [q EXCEPT !.again = q.again + 1]
  <2>1. r \in Peers /\ r.st = q.st /\ r.sent = q.sent /\ r.e = q.e /\ r.rcv = q.rcv
    BY <1>6, <1>8 DEF Peers
  <2>2. \/ r.st = "synsent" /\ PeerSends(c, r, FromPeer(c, "SYN", 0))
        \/ /\ r.st \in {"est", "fin"}
           /\ \E n \in 1..r.sent : PeerSends(c, r, FromPeer(c, "DATA", n))
        \/ r.st = "fin" /\ PeerSends(c, r, FromPeer(c, "FIN", r.sent + 1))
    BY <1>1, <1>11 DEF PeerAgain
  <2> HIDE DEF r
  <2>3. CASE r.st = "synsent" /\ PeerSends(c, r, FromPeer(c, "SYN", 0))
    <3>1. OfClient(r, i, FromPeer(c, "SYN", 0))
      BY <1>1, <2>1, <2>3, SentOfClient
    <3> QED BY <1>4, <1>5, <2>1, <2>3, <3>1
  <2>4. CASE r.st \in {"est", "fin"} /\ \E n \in 1..r.sent : PeerSends(c, r, FromPeer(c, "DATA", n))
    <3>1. PICK n \in 1..r.sent : PeerSends(c, r, FromPeer(c, "DATA", n))
      BY <2>4
    <3>2. n \in Nat /\ n # 0 /\ n <= i
      BY <1>2, <1>4, <2>1, <3>1
    <3>3. OfClient(r, i, FromPeer(c, "DATA", n))
      BY <1>1, <2>1, <2>4, <3>2, SentOfClient
    <3> QED BY <1>4, <1>5, <2>1, <3>1, <3>3
  <2>5. CASE r.st = "fin" /\ PeerSends(c, r, FromPeer(c, "FIN", r.sent + 1))
    <3>1. OfClient(r, i, FromPeer(c, "FIN", r.sent + 1))
      BY <1>1, <1>8, <2>1, <2>5, SentOfClient
    <3> QED BY <1>4, <1>5, <2>1, <2>5, <3>1
  <2> QED BY <2>2, <2>3, <2>4, <2>5
<1>12. CASE PeerData(c)
  <2> DEFINE r == [q EXCEPT !.sent = q.sent + 1]
  <2>1. q.st = "est" /\ q.sent < i /\ PeerSends(c, r, FromPeer(c, "DATA", q.sent + 1))
    BY <1>1, <1>3, <1>12 DEF PeerData
  <2>2. r \in Peers /\ r.st = q.st /\ r.sent = q.sent + 1 /\ r.e = q.e /\ r.rcv = q.rcv
    BY <1>6, <1>8 DEF Peers
  <2> HIDE DEF r
  <2>3. q.sent + 1 # 0 /\ q.sent + 1 <= i
    BY <1>2, <2>1
  <2>4. OfClient(r, i, FromPeer(c, "DATA", q.sent + 1))
    BY <1>1, <1>8, <2>1, <2>2, <2>3, SentOfClient
  <2> QED BY <1>5, <2>1, <2>2, <2>3, <2>4
<1>13. CASE PeerFin(c)
  <2> DEFINE r == [q EXCEPT !.st = "fin"]
  <2>1. q.st = "est" /\ PeerSends(c, r, FromPeer(c, "FIN", q.sent + 1))
    BY <1>1, <1>13 DEF PeerFin
  <2>2. r \in Peers /\ r.st = "fin" /\ r.sent = q.sent /\ r.e = q.e /\ r.rcv = q.rcv
    BY <1>6, <1>8 DEF Peers
  <2> HIDE DEF r
  <2>3. OfClient(r, i, FromPeer(c, "FIN", q.sent + 1))
    BY <1>1, <1>8, <2>1, <2>2, SentOfClient
  <2> QED BY <1>4, <1>5, <2>1, <2>2, <2>3
<1>14. CASE PeerReset(c)
  <2> DEFINE r == [q EXCEPT !.st = "closed"]
  <2>1. q.st # "closed" /\ PeerSends(c, r, FromPeer(c, "RST", q.sent + 1))
    BY <1>1, <1>14 DEF PeerReset
  <2>2. r \in Peers /\ r.st = "closed" /\ r.sent = q.sent /\ r.e = q.e /\ r.rcv = q.rcv
    BY <1>6, <1>8 DEF Peers
  <2> HIDE DEF r
  <2>3. OfClient(r, i, FromPeer(c, "RST", q.sent + 1))
    BY <1>1, <1>8, <2>1, <2>2, SentOfClient
  <2> QED BY <1>4, <1>5, <2>1, <2>2, <2>3
<1>15. ASSUME NEW x \in toPeer, x[1] = c, PeerTakes(c, x[2])
       PROVE  \E r \in Peers : Goes(c, r)
  <2>1. PICK r \in {q, [q EXCEPT !.st = "closed"]} \cup
                   (IF q.st = "synsent" THEN {[q EXCEPT !.st = "est", !.rcv = 1]}
                    ELSE {[q EXCEPT !.rcv = q.rcv + 1]}) :
          peer' = [peer EXCEPT ![c] = r]
    BY <1>1, <1>15 DEF PeerTakes
  <2>2. /\ r \in Peers /\ r.e = q.e /\ r.sent = q.sent /\ q.rcv <= r.rcv
        /\ r.st = "synsent" => r.rcv = 0
    <3>1. CASE r = q
      BY <1>2, <1>4, <3>1
    <3>2. CASE r = [q EXCEPT !.st = "closed"]
      <4>1. r.st = "closed" /\ r.e = q.e /\ r.sent = q.sent /\ r.rcv = q.rcv
        BY <3>2 DEF Peers
      <4>2. r \in Peers
        BY <1>6, <1>8, <3>2
      <4> QED BY <1>2, <4>1, <4>2
    <3>3. CASE q.st = "synsent" /\ r = [q EXCEPT !.st = "est", !.rcv = 1]
      <4>1. r.st = "est" /\ r.e = q.e /\ r.sent = q.sent /\ r.rcv = 1
        BY <3>3 DEF Peers
      <4>2. r \in Peers
        BY <1>6, <1>8, <3>3
      <4> QED BY <1>2, <1>4, <3>3, <4>1, <4>2
    <3>4. CASE q.st # "synsent" /\ r = [q EXCEPT !.rcv = q.rcv + 1]
      <4>1. r.st = q.st /\ r.e = q.e /\ r.sent = q.sent /\ r.rcv = q.rcv + 1
        BY <3>4 DEF Peers
      <4>2. r \in Peers
        BY <1>6, <1>8, <3>4
      <4> QED BY <1>2, <3>4, <4>1, <4>2
    <3> QED BY <2>1, <3>1, <3>2, <3>3, <3>4
  <2>3. toFw' = toFw
    BY <1>15 DEF PeerTakes
  <2>4. Goes(c, r)
    BY <1>1, <1>3, <1>4, <2>1, <2>2, <2>3 DEF Goes
  <2> QED BY <2>2, <2>4
<1>16. ASSUME NEW x \in toPeer, x[1] = c, PeerRefuses(c, x[2])
       PROVE  \E r \in Peers : Goes(c, r)
  <2> DEFINE m == Segment("RST", x[2].ack, 0, Empty)
  <2>1. toFw' = toFw \cup {<<c, m>>} /\ peer' = peer
    BY <1>16 DEF PeerRefuses
  <2>2. m.f = "RST" /\ m.ack = 0
    BY DEF Segment
  <2> HIDE DEF m
  <2>3. OfClient(q, i, m)
    BY <1>2, <2>2 DEF OfClient
  <2>4. peer' = [peer EXCEPT ![c] = q]
    BY <1>1, <2>1 DEF Inv, TypeOK
  <2>5. \A y \in toFw' \ toFw : y = <<c, m>>
    BY <2>1
  <2>6. q.rcv <= q.rcv
    BY <1>2
  <2>7. Goes(c, q)
    BY <1>1, <1>3, <1>4, <2>3, <2>4, <2>5, <2>6 DEF Goes
  <2> QED BY <2>7
<1> QED
  BY <1>9, <1>10, <1>11, <1>12, <1>13, <1>14, <1>15, <1>16 DEF Client

LEMMA ClientKeeps ==
  ASSUME Inv, ClientsKeepTo, NEW c \in Clients, Client(c)
  PROVE  ClientsKeepTo' /\ (StreamInv => StreamInv') /\ (SentInv => SentInv')
<1>1. PICK r \in Peers : Goes(c, r)
  BY ClientGoes
<1>2. /\ plan' = plan /\ pcb' = pcb /\ Inv'
  BY ClientTypes DEF pcbVars
<1>3. peer \in [Clients -> Peers] /\ peer' = [peer EXCEPT ![c] = r]
  BY <1>1 DEF Goes, Inv, TypeOK
<1>4. \A d \in Clients : peer'[d] = IF d = c THEN r ELSE peer[d]
  BY <1>3
<1>5. PICK q \in Peers : q = peer[c]
  BY <1>3
<1>6. q.e \in Nat /\ q.rcv \in Nat /\ r.e \in Nat /\ r.rcv \in Nat
  BY DEF Peers
<1>7. /\ \/ r.e = q.e /\ q.rcv <= r.rcv
         \/ r.e = q.e + 1 /\ \A x \in toFw : x[1] # c
      /\ r.e <= plan.epochs[c] /\ r.sent <= plan.in[c] /\ (r.st = "synsent" => r.rcv = 0)
      /\ \A x \in toFw' \ toFw : x[1] = c /\ OfClient(r, plan.in[c], x[2])
  BY <1>1, <1>5 DEF Goes
<1>8. ASSUME NEW x \in toFw' PROVE OfClient(peer'[x[1]], plan.in[x[1]], x[2])
  <2>1. CASE x \in toFw /\ x[1] # c
    BY <1>2, <1>4, <1>8, <2>1 DEF ClientsKeepTo, Inv, TypeOK
  <2>2. CASE x \in toFw /\ x[1] = c
    <3>1. r.e = q.e /\ q.rcv <= r.rcv
      BY <1>7, <2>2
    <3>2. OfClient(q, plan.in[c], x[2]) /\ x[2].ack \in Nat
      BY <1>5, <2>2, Numbers DEF ClientsKeepTo, Inv, TypeOK, Segments, Seqs
    <3>3. OfClient(r, plan.in[c], x[2])
      BY <1>6, <3>1, <3>2 DEF OfClient
    <3> QED BY <1>4, <2>2, <3>3
  <2>3. CASE x \notin toFw
    BY <1>4, <1>7, <1>8, <2>3
  <2> QED BY <2>1, <2>2, <2>3
<1>9. ClientsKeepTo'
  <2>1. \A d \in Clients : /\ peer'[d].e <= plan.epochs[d] /\ peer'[d].sent <= plan.in[d]
                           /\ peer'[d].st = "synsent" => peer'[d].rcv = 0
    BY <1>4, <1>7 DEF ClientsKeepTo
  <2> QED BY <1>2, <1>8, <2>1 DEF ClientsKeepTo
<1>10. StreamInv => StreamInv'
  BY <1>2 DEF StreamInv, Stream
<1>11. ASSUME SentInv PROVE SentInv'
  <2> SUFFICES ASSUME NEW d \in Clients PROVE Sent(pcb[d], peer'[d], plan.out[d])
    BY <1>2 DEF SentInv, Sent, Numbered, Covered
  <2>1. Sent(pcb[d], peer[d], plan.out[d])
    BY <1>11 DEF SentInv
  <2>2. CASE d # c
    BY <1>4, <2>1, <2>2
  <2>3. CASE d = c
    <3>1. PICK p \in Pcbs : p = pcb[c]
      BY DEF Inv, TypeOK
    <3>2. p.epoch \in Nat /\ p.out \in Nat
      BY DEF Pcbs
    <3>3. Sent(p, q, plan.out[c])
      BY <1>5, <2>1, <2>3, <3>1
    <3>4. CASE r.e = q.e /\ q.rcv <= r.rcv
      <4>1. ASSUME Covered(p, q) PROVE Covered(p, r)
        <5> SUFFICES ASSUME NEW n \in 1..p.out
                     PROVE  r.rcv > n \/ \E j \in DOMAIN p.txQ : p.txQ[j].seg.data.n = n
          BY DEF Covered
        <5> QED BY <1>6, <3>2, <3>4, <4>1 DEF Covered
      <4> QED BY <1>4, <2>3, <3>1, <3>3, <3>4, <4>1 DEF Sent
    <3>5. CASE r.e = q.e + 1
      <4>1. p.epoch <= r.e /\ p.epoch # r.e
        BY <1>6, <3>2, <3>3, <3>5 DEF Sent
      <4> QED BY <1>4, <2>3, <3>1, <3>3, <4>1 DEF Sent
    <3> QED BY <1>7, <3>4, <3>5
  <2> QED BY <2>2, <2>3
<1> QED BY <1>9, <1>10, <1>11

\* What the firmware does leaves the clients alone.
LEMMA FirmwareKeeps ==
  ASSUME Inv, ClientsKeepTo, plan' = plan, peer' = peer, toFw' \subseteq toFw
  PROVE  ClientsKeepTo'
BY DEF ClientsKeepTo, OfClient

LEMMA FirmwareMoves ==
  ASSUME Inv, Owned,
         \/ tcpInput \/ Timer \/ LinkReset
         \/ \E t \in Tasks : rtSktAccept(t) \/ rtSktRx(t) \/ rtSktSend(t) \/ ServerCloses(t) \/ TaskStep(t)
  PROVE  /\ plan' = plan /\ peer' = peer /\ toFw' \subseteq toFw
         /\ \A d \in Clients : MovesOn(d)
<1>1. CASE tcpInput
  BY <1>1, InputSteps, InputMoves DEF InputStep
<1>2. CASE Timer
  BY <1>2, TimerMoves DEF Timer
<1>3. CASE LinkReset
  BY <1>3, LinkMoves DEF LinkReset
<1>4. ASSUME NEW t \in Tasks,
             rtSktAccept(t) \/ rtSktRx(t) \/ rtSktSend(t) \/ ServerCloses(t) \/ TaskStep(t)
      PROVE  plan' = plan /\ peer' = peer /\ toFw' \subseteq toFw /\ \A d \in Clients : MovesOn(d)
  <2>1. plan' = plan /\ peer' = peer
    BY <1>4, ServerSteps DEF ServerStep, Holds, Accepts, GivesUp
  <2>2. toFw' = toFw /\ \A d \in Clients : MovesOn(d)
    BY <1>4, ServerMoves
  <2> QED BY <2>1, <2>2
<1> QED BY <1>1, <1>2, <1>3, <1>4

LEMMA StepStream ==
  ASSUME NumbersApart, Inv, Owned, ClientsKeepTo, StreamInv, [Next]_vars
  PROVE  ClientsKeepTo' /\ StreamInv'
<1>1. CASE UNCHANGED vars
  BY <1>1 DEF vars, netVars, pcbVars, ClientsKeepTo, OfClient, StreamInv, Stream
<1>2. CASE \E c \in Clients : Client(c)
  BY <1>2, ClientKeeps
<1>3. CASE \/ tcpInput \/ Timer \/ LinkReset
           \/ \E t \in Tasks : rtSktAccept(t) \/ rtSktRx(t) \/ rtSktSend(t) \/ ServerCloses(t) \/ TaskStep(t)
  <2>1. /\ plan' = plan /\ peer' = peer /\ toFw' \subseteq toFw
        /\ \A d \in Clients : MovesOn(d)
    BY <1>3, FirmwareMoves
  <2>2. pcb \in [Clients -> Pcbs] /\ pcb' \in [Clients -> Pcbs]
    BY StepTypes DEF Inv, TypeOK
  <2>3. ASSUME NEW c \in Clients PROVE Stream(pcb'[c], plan.epochs[c], plan.in[c])
    <3>1. Receives(c, pcb[c], pcb'[c]) /\ pcb[c] \in Pcbs /\ pcb'[c] \in Pcbs
      BY <2>1, <2>2, <2>3 DEF MovesOn, Moving
    <3>2. Stream(pcb[c], plan.epochs[c], plan.in[c])
      BY DEF StreamInv
    <3> QED BY <3>1, <3>2, StreamMoves
  <2>4. StreamInv'
    BY <2>1, <2>3 DEF StreamInv, Stream
  <2> QED BY <2>1, <2>4, FirmwareKeeps
<1> QED BY <1>1, <1>2, <1>3 DEF Next

LEMMA StepSent ==
  ASSUME PortsDistinct, NumbersLast, Inv, Owned, Joined, ClientsKeepTo, SentInv, [Next]_vars
  PROVE  ClientsKeepTo' /\ SentInv'
<1>1. CASE UNCHANGED vars
  BY <1>1 DEF vars, netVars, pcbVars, ClientsKeepTo, OfClient, SentInv, Sent, Numbered, Covered
<1>2. CASE \E c \in Clients : Client(c)
  BY <1>2, ClientKeeps
<1>3. CASE \/ tcpInput \/ Timer \/ LinkReset
           \/ \E t \in Tasks : rtSktAccept(t) \/ rtSktRx(t) \/ rtSktSend(t) \/ ServerCloses(t) \/ TaskStep(t)
  <2>1. /\ plan' = plan /\ peer' = peer /\ toFw' \subseteq toFw
        /\ \A d \in Clients : MovesOn(d)
    BY <1>3, FirmwareMoves
  <2>2. pcb \in [Clients -> Pcbs] /\ pcb' \in [Clients -> Pcbs]
    BY StepTypes DEF Inv, TypeOK
  <2>3. ASSUME NEW c \in Clients PROVE Sent(pcb'[c], peer[c], plan.out[c])
    <3>1. Sends(c, pcb[c], pcb'[c]) /\ pcb[c] \in Pcbs /\ pcb'[c] \in Pcbs
      BY <2>1, <2>2, <2>3 DEF MovesOn, Moving
    <3>2. Sent(pcb[c], peer[c], plan.out[c])
      BY DEF SentInv
    <3> QED BY <3>1, <3>2, SentMoves
  <2>4. SentInv'
    BY <2>1, <2>3 DEF SentInv, Sent, Numbered, Covered
  <2> QED BY <2>1, <2>4, FirmwareKeeps
<1> QED BY <1>1, <1>2, <1>3 DEF Next

LEMMA InitStreams ==
  ASSUME Init
  PROVE  ClientsKeepTo /\ StreamInv /\ SentInv
<1>1. plan \in Plans /\ plan \in Plan /\ toFw = {}
  BY TcpAssumption DEF Init
<1>2. \A c \in Clients : plan.epochs[c] \in Nat /\ plan.in[c] \in Nat /\ plan.out[c] \in Nat
  BY <1>1, TcpAssumption DEF Plan
<1>3. \A c \in Clients : /\ peer[c] = NoPeer /\ pcb[c] = NoPcb
  BY DEF Init
<1>4. NoPeer.e = 0 /\ NoPeer.sent = 0 /\ NoPeer.st = "closed"
  BY DEF NoPeer
<1>5. /\ NoPcb.state = "NONE" /\ NoPcb.txQ = <<>> /\ NoPcb.rxQ = <<>> /\ NoPcb.out = 0
      /\ NoPcb.epoch = 0 /\ NoPcb.read = 0
  BY DEF NoPcb
<1>6. ClientsKeepTo
  BY <1>1, <1>2, <1>3, <1>4 DEF ClientsKeepTo
<1>7. StreamInv
  BY <1>3, <1>5 DEF StreamInv, Stream
<1>8. SentInv
  BY <1>2, <1>3, <1>4, <1>5 DEF SentInv, Sent, Numbered, Covered
<1> QED BY <1>6, <1>7, <1>8

-----------------------------------------------------------------------------
(* The theorems on the streams                                             *)

\* What waits to be read on a connection is the client's stream, from the packet
\* after the last one read, without a gap and of the present connection,
\* whatever the network loses, repeats or reorders and whichever calls the
\* tasks are in (tcpProcess, rtSktRx, rtSktAccept): for every plan in which no
\* two positions of a client's streams have the same 32-bit number.
THEOREM StreamInOrder ==
  ASSUME NumbersApart
  PROVE  Spec => []StreamIntact
<1>1. Init => Inv /\ Owned /\ ClientsKeepTo /\ StreamInv
  BY InitTypes, InitStreams
<1>2. Inv /\ Owned /\ ClientsKeepTo /\ StreamInv /\ [Next]_vars
        => (Inv /\ Owned /\ ClientsKeepTo /\ StreamInv)'
  BY StepTypes, StepStream
<1>3. StreamInv => StreamIntact
  BY DEF StreamInv, Stream, StreamIntact
<1> QED BY <1>1, <1>2, <1>3, PTL DEF Spec

\* A packet leaves the retransmission queue (tcpDequeue, removePCB) only when
\* the client of its connection has it, whatever acknowledgements are late,
\* repeated or lost: for clients with distinct ports, and connections on which
\* the firmware's own sequence numbers do not come round.
THEOREM FreedWhenAcked ==
  ASSUME PortsDistinct, NumbersLast
  PROVE  Spec => []AckedBeforeFreed
<1>1. Init => Inv /\ Owned /\ Joined /\ ClientsKeepTo /\ SentInv
  BY InitTypes, InitJoined, InitStreams
<1>2. Inv /\ Owned /\ Joined /\ ClientsKeepTo /\ SentInv /\ [Next]_vars
        => (Inv /\ Owned /\ Joined /\ ClientsKeepTo /\ SentInv)'
  BY StepTypes, StepJoined, StepSent
<1>3. SentInv => AckedBeforeFreed
  BY DEF SentInv, Sent, Covered, AckedBeforeFreed, Open
<1> QED BY <1>1, <1>2, <1>3, PTL DEF Spec
=============================================================================
