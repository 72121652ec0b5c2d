-------------------------------- MODULE Tcp --------------------------------
(***************************************************************************)
(* A TCP service of the firmware: the connections of one listening port    *)
(* (tcp.c), the sockets the server's tasks hold on them (rtskt.c), and, as *)
(* external parts, the server's tasks, the network and the clients.        *)
(*                                                                         *)
(* The receiving task, the timer task and every socket call work on the    *)
(* connections under one semaphore, SktSem, so each of their critical      *)
(* sections is one action.  What lies between two critical sections of a   *)
(* socket call is a program point of the task ("at").                      *)
(*                                                                         *)
(* A packet of data has length 1.  The firmware's sequence numbers start   *)
(* at 0 on every connection; those of a client start at Isn.  A client     *)
(* that comes again from the same port starts a new epoch.                 *)
(***************************************************************************)
EXTENDS Naturals, SequencesExt

CONSTANTS
    Clients,         \* remote end points: an address and a port
    Port,            \* the port of each
    Tasks,           \* tasks of the server that can hold an accepted socket
    MaxSendPkts,     \* MAXSENDPKTS: packets a socket may have unacknowledged
    ResendAfter,     \* ticks of the timer before a packet is sent again
    CloseAfter,      \* ticks rtSktClose waits for the oldest packet
    GiveUpAfter,     \* MAXRTTIMES: ticks before the connection is given up
    TimeWaitLimit,   \* ticks an unread packet keeps a closed connection
    CloseTries,      \* waits of rtSktClose for the answer to its FIN
    SeqSpace,        \* 2^32: sequence numbers are unsigned 32-bit numbers
    MaxEpochs,       \* bound: how often a client comes
    Isn,             \* the client's initial sequence number in each epoch
    Plans            \* the scenarios, see Plan

\* A scenario: how many connections the service admits (the argument of
\* rtSktListen, three bits) and, as bounds, how often each client comes, the
\* data it sends and is sent, how often it repeats itself, the segments in
\* flight in each direction, and whether clients close or reset and the link
\* changes.
Plan == [maxConnections : 1..7, epochs : [Clients -> 0..MaxEpochs], in : [Clients -> Nat],
         out : [Clients -> Nat],
         again : Nat, capIn : Nat, capOut : Nat, events : SUBSET {"fin", "reset", "link"}]

None     == "none"
Listener == "listener"       \* the listening socket

ASSUME TcpAssumption ==
    /\ Port \in [Clients -> Nat]
    /\ MaxSendPkts \in 1..31
    /\ ResendAfter \in Nat /\ CloseAfter \in Nat /\ TimeWaitLimit \in Nat
    /\ GiveUpAfter \in Nat /\ ResendAfter < GiveUpAfter
    /\ CloseTries \in Nat
    /\ SeqSpace \in Nat \ {0} /\ MaxEpochs \in Nat
    /\ Isn \in [1..MaxEpochs -> 0..SeqSpace - 1]
    /\ Listener \notin Tasks /\ None \notin Clients
    /\ Plans \subseteq Plan

VARIABLES
    plan,            \* the scenario of this behaviour
    peer,            \* the clients
    toFw, toPeer,    \* segments in flight, each with its client
    pcb,             \* the connection of each client
    clientList,      \* the server's connections, oldest first
    curConnections,  \* their number, as the server's PCB counts it
    listenSem,       \* rxSem of the listening socket
    skt              \* the accepted socket of each task, and where it is

netVars == <<toFw, toPeer>>
pcbVars == <<pcb, clientList, curConnections>>
sktVars == <<listenSem, skt>>
vars    == <<plan, peer, netVars, pcbVars, sktVars>>

-----------------------------------------------------------------------------
(* Segments, connections, sockets.                                         *)

Seqs    == 0..SeqSpace - 1
Wrap(k) == k % SeqSpace

\* A payload is named by the epoch it belongs to and its number there.
Payloads == [e : Nat, n : Nat]
Empty    == [e |-> 0, n |-> 0]
Segments == [f : {"SYN", "SYNACK", "ACK", "DATA", "FIN", "RST"},
             seq : Seqs, ack : Seqs, data : Payloads]
Segment(f, s, a, d) == [f |-> f, seq |-> s, ack |-> a, data |-> d]

States   == {"NONE", "SYN_RCVD", "ESTABLISHED", "FIN_WAIT_1", "LAST_ACK", "TIME_WAIT", "CLOSED"}
Pcbs == [state : States, seqNum : Seqs, sendAckNum : Seqs,
         delayAck : {"NoDelayAck", "FirstDelayAck", "SecondDelayAck"},
         sendPkts : 0..31, txQ : Seq([seg : Segments, rTime : Nat]),
         rxQ : Seq(Payloads), rTime : Nat, accepted : BOOLEAN,
         skt : Tasks \cup {Listener}, epoch : Nat, read : Nat, out : Nat]
NoPcb == [state |-> "NONE", seqNum |-> 0, sendAckNum |-> 0, delayAck |-> "NoDelayAck",
          sendPkts |-> 0, txQ |-> <<>>, rxQ |-> <<>>, rTime |-> 0, accepted |-> FALSE,
          skt |-> Listener, epoch |-> 0, read |-> 0, out |-> 0]

\* "idle" is the server's own code; the other points lie in socket calls.
Points == {"free", "idle", "sent", "wait", "close", "fin", "closing"}
Skts  == [at : Points, pcb : Clients \cup {None}, rxSem : Nat, txSem : Nat, count : Nat]
NoSkt == [at |-> "free", pcb |-> None, rxSem |-> 0, txSem |-> 0, count |-> 0]

\* A client: its epoch, the data it has sent, the next number it expects, and
\* how often it has sent something again.
Peers  == [st : {"closed", "synsent", "est", "fin"}, e : Nat, sent : Nat, rcv : Nat, again : Nat]
NoPeer == [st |-> "closed", e |-> 0, sent |-> 0, rcv |-> 0, again |-> 0]

Init ==
    /\ plan \in Plans
    /\ peer = [c \in Clients |-> NoPeer]
    /\ toFw = {} /\ toPeer = {}
    /\ pcb = [c \in Clients |-> NoPcb] /\ clientList = <<>> /\ curConnections = 0
    /\ listenSem = 0 /\ skt = [t \in Tasks |-> NoSkt]

-----------------------------------------------------------------------------
(* The network loses, delays, reorders and, since both ends send again,    *)
(* repeats.                                                                *)

\* The segments of S that are not lost join the ones in flight to c.
Transmit(c, S) ==
    \E T \in SUBSET ({c} \X S) :
        /\ T = {} \/ Cardinality(toPeer \cup T) <= plan.capOut
        /\ toPeer' = toPeer \cup T

Arrives(c, m) == <<c, m>> \in toFw /\ toFw' = toFw \ {<<c, m>>}

-----------------------------------------------------------------------------
(* Operations on one connection.                                           *)

\* Faulty variant: the SYN-ACK is not kept for retransmission.
Sending_Unqueued(p, f) ==
    LET n   == p.out + 1
        seg == Segment(f, IF f = "SYNACK" THEN 0 ELSE p.seqNum, p.sendAckNum,
                       IF f = "DATA" THEN [e |-> p.epoch, n |-> n] ELSE Empty)
    IN  [seg  |-> {seg},
         pcb  |-> [p EXCEPT !.delayAck = "NoDelayAck",
                            !.seqNum = CASE f = "SYNACK" -> Wrap(1)
                                         [] f \in {"DATA", "FIN"} -> Wrap(@ + 1)
                                         [] OTHER -> @,
                            !.txQ = IF f \in {"DATA", "FIN"}
                                    THEN Append(@, [seg |-> seg, rTime |-> 0]) ELSE @,
                            !.out = IF f = "DATA" THEN n ELSE @]]

\* tcpSend with addTcpHeader: what is sent, and the connection after it.  A
\* pure ACK is put off once; SYN-ACK, data and FIN stay in the queue.
Sending(p, f) ==
    LET n   == p.out + 1
        seg == Segment(f, IF f = "SYNACK" THEN 0 ELSE p.seqNum, p.sendAckNum,
                       IF f = "DATA" THEN [e |-> p.epoch, n |-> n] ELSE Empty)
    IN  [seg  |-> {seg},
         pcb  |-> [p EXCEPT !.delayAck = "NoDelayAck",
                            !.seqNum = CASE f = "SYNACK" -> Wrap(1)
                                         [] f \in {"DATA", "FIN"} -> Wrap(@ + 1)
                                         [] OTHER -> @,
                            !.txQ = IF f \in {"SYNACK", "DATA", "FIN"}
                                    THEN Append(@, [seg |-> seg, rTime |-> 0]) ELSE @,
                            !.out = IF f = "DATA" THEN n ELSE @]]

tcpSend(p, f) ==
    IF f = "ACK" /\ p.delayAck = "NoDelayAck"
    THEN [seg |-> {}, pcb |-> [p EXCEPT !.delayAck = "FirstDelayAck"]]
    ELSE Sending(p, f)

\* Faulty variant: a packet is freed when its first byte is acknowledged.
PacketEnd_NoLength(pkt) == Wrap(pkt.seg.seq)

\* Where a queued packet ends, as tcpDequeue computes it: SYN-ACK and FIN
\* packets have length 0.
PacketEnd(pkt) == Wrap(pkt.seg.seq + (IF pkt.seg.f = "DATA" THEN 1 ELSE 0))

\* How many packets at the head of the queue an acknowledgement frees.
Freed(p, ack) ==
    CHOOSE k \in 0..Len(p.txQ) :
        /\ \A i \in 1..k : PacketEnd(p.txQ[i]) <= ack
        /\ k < Len(p.txQ) => PacketEnd(p.txQ[k + 1]) > ack

\* tcpDequeue: sendPkts is a field of five bits, and 0 when the queue is empty.
tcpDequeue(p, ack) ==
    LET k == Freed(p, ack)
        q == SubSeq(p.txQ, k + 1, Len(p.txQ))
    IN  [p EXCEPT !.txQ = q,
                  !.sendPkts = IF k > 0 /\ q = <<>> THEN 0 ELSE (@ + 32 - (k % 32)) % 32]

-----------------------------------------------------------------------------
(* Operations on the connections and sockets together.                     *)

\* A packet, a new state or a removal is posted to the socket of the
\* connection, the listening one before it is accepted.
Post(s, rx, tx) ==
    IF s = Listener
    THEN listenSem' = listenSem + rx /\ UNCHANGED skt
    ELSE /\ skt' = [skt EXCEPT ![s].rxSem = @ + rx, ![s].txSem = @ + tx]
         /\ UNCHANGED listenSem

\* removePCB empties the queues of the connection it is given, and frees the
\* first one of the list with the same port.
VictimAt(c) == CHOOSE i \in DOMAIN clientList :
                   /\ Port[clientList[i]] = Port[c]
                   /\ \A j \in 1..i - 1 : Port[clientList[j]] # Port[c]
Victim(c) == clientList[VictimAt(c)]

\* Faulty variant: the connection is not subtracted from the count.
Unlink_Uncounted(pcbs, c) ==
    /\ pcb' = [pcbs EXCEPT ![c].txQ = <<>>, ![c].rxQ = <<>>, ![c].state = "CLOSED",
                           ![Victim(c)] = NoPcb]
    /\ clientList' = RemoveAt(clientList, VictimAt(c))
    /\ UNCHANGED curConnections

Unlink(pcbs, c) ==
    /\ pcb' = [pcbs EXCEPT ![c].txQ = <<>>, ![c].rxQ = <<>>, ![c].state = "CLOSED",
                           ![Victim(c)] = NoPcb]
    /\ clientList' = RemoveAt(clientList, VictimAt(c))
    /\ curConnections' = (curConnections + 7) % 8

\* The socket of a removed connection is told by a token.
Orphan(p, skts) ==
    IF p.accepted THEN [skts EXCEPT ![p.skt].pcb = None, ![p.skt].rxSem = @ + 1] ELSE skts
Tell(p) == listenSem' = listenSem + (IF p.accepted THEN 0 ELSE 1)

removePCB(pcbs, c) ==
    /\ Unlink(pcbs, c)
    /\ skt' = Orphan(pcb[Victim(c)], skt)
    /\ Tell(pcb[Victim(c)])

\* The connection of c becomes p, and S is sent.
Update(c, p, S) ==
    /\ pcb' = [pcb EXCEPT ![c] = p]
    /\ Transmit(c, S)
    /\ UNCHANGED <<plan, peer, clientList, curConnections>>

-----------------------------------------------------------------------------
(* tcpInput and tcpProcess: a segment of a client arrives.                 *)

\* No connection has this address and port, and the service is full: reset,
\* but a FIN is acknowledged.
RxRefused(c, m) ==
    /\ Arrives(c, m)
    /\ pcb[c].state = "NONE" /\ curConnections >= plan.maxConnections
    /\ Transmit(c, IF m.f = "RST" THEN {}
                   ELSE {Segment(IF m.f = "FIN" THEN "ACK" ELSE "RST",
                                 Wrap(m.ack + 1), Wrap(m.seq + 1), Empty)})
    /\ UNCHANGED <<plan, peer, pcbVars, sktVars>>

\* The listener answers a SYN with a new connection and ignores the rest.
RxListen(c, m) ==
    LET r == tcpSend([NoPcb EXCEPT !.state = "SYN_RCVD", !.sendAckNum = Wrap(m.seq + 1),
                                   !.epoch = m.data.e], "SYNACK")
    IN  /\ Arrives(c, m)
        /\ pcb[c].state = "NONE" /\ curConnections < plan.maxConnections
        /\ IF m.f = "SYN"
           THEN /\ pcb' = [pcb EXCEPT ![c] = r.pcb]
                /\ clientList' = Append(clientList, c)
                /\ curConnections' = (curConnections + 1) % 8
                /\ Transmit(c, r.seg)
                /\ Post(Listener, 1, 0)
                /\ UNCHANGED <<plan, peer>>
           ELSE UNCHANGED <<plan, peer, toPeer, pcbVars, sktVars>>

\* A RST closes the connection whatever its numbers are, except in
\* TIME_WAIT; so does any segment for a connection that is closed already.
RxReset(c, m) ==
    /\ Arrives(c, m)
    /\ pcb[c].state \notin {"NONE", "TIME_WAIT"}
    /\ m.f = "RST" \/ pcb[c].state = "CLOSED"
    /\ removePCB(pcb, c)
    /\ UNCHANGED <<plan, peer, toPeer>>

\* A repeated SYN is answered again; the right acknowledgement completes the
\* handshake, and data it may carry is left to be sent again.
RxSynRcvd(c, m) ==
    LET p == pcb[c] r == tcpSend(p, "SYNACK") IN
    /\ Arrives(c, m)
    /\ p.state = "SYN_RCVD" /\ m.f # "RST"
    /\ IF m.f = "SYN"
       THEN Update(c, r.pcb, r.seg) /\ UNCHANGED sktVars
       ELSE IF m.ack = p.seqNum
       THEN /\ Update(c, [tcpDequeue(p, m.ack) EXCEPT !.state = "ESTABLISHED"], {})
            /\ Post(p.skt, 1, Freed(p, m.ack))
       ELSE Update(c, p, {}) /\ UNCHANGED sktVars

\* A segment other than the next one is answered with an ACK.
RxOutOfOrder(c, m) ==
    LET p == pcb[c] r == tcpSend(p, "ACK") IN
    /\ Arrives(c, m)
    /\ p.state = "ESTABLISHED" /\ m.f # "RST"
    /\ m.seq # p.sendAckNum
    /\ Update(c, r.pcb, r.seg) /\ UNCHANGED sktVars

RxAck(c, m) ==
    LET p == pcb[c] IN
    /\ Arrives(c, m)
    /\ p.state = "ESTABLISHED" /\ m.f = "ACK" /\ m.seq = p.sendAckNum
    /\ Update(c, tcpDequeue(p, m.ack), {}) /\ Post(p.skt, 0, Freed(p, m.ack))

\* Faulty variant: the sequence number is not compared.
RxData_AnySeq(c, m) ==
    LET p == tcpDequeue(pcb[c], m.ack)
        r == tcpSend([p EXCEPT !.sendAckNum = Wrap(m.seq + (IF m.f = "DATA" THEN 1 ELSE 0)),
                               !.rxQ = Append(@, m.data)], "ACK")
    IN  /\ Arrives(c, m)
        /\ p.state = "ESTABLISHED" /\ m.f \notin {"ACK", "FIN", "RST"}
        /\ Update(c, r.pcb, r.seg) /\ Post(p.skt, 1, Freed(pcb[c], m.ack))

\* Data, and whatever else is neither a pure ACK nor a FIN, goes to the
\* socket.
RxData(c, m) ==
    LET p == tcpDequeue(pcb[c], m.ack)
        r == tcpSend([p EXCEPT !.sendAckNum = Wrap(m.seq + (IF m.f = "DATA" THEN 1 ELSE 0)),
                               !.rxQ = Append(@, m.data)], "ACK")
    IN  /\ Arrives(c, m)
        /\ p.state = "ESTABLISHED" /\ m.f \notin {"ACK", "FIN", "RST"}
        /\ m.seq = p.sendAckNum
        /\ Update(c, r.pcb, r.seg) /\ Post(p.skt, 1, Freed(pcb[c], m.ack))

\* The client closes: the firmware answers with its own FIN at once.
RxFin(c, m) ==
    LET p == pcb[c]
        r == tcpSend([p EXCEPT !.sendAckNum = Wrap(m.seq + 1)], "FIN")
    IN  /\ Arrives(c, m)
        /\ p.state = "ESTABLISHED" /\ m.f = "FIN" /\ m.seq = p.sendAckNum
        /\ Update(c, [r.pcb EXCEPT !.state = "LAST_ACK"], r.seg)
        /\ UNCHANGED sktVars

\* The firmware has closed: any acknowledgement frees packets, and a FIN ends
\* the connection with an ACK that is not put off.
RxFinWait(c, m) ==
    LET p == pcb[c]
        r == tcpSend([p EXCEPT !.sendAckNum = Wrap(@ + 1), !.delayAck = "FirstDelayAck"], "ACK")
    IN  /\ Arrives(c, m)
        /\ p.state = "FIN_WAIT_1" /\ m.f # "RST"
        /\ IF m.f = "FIN"
           THEN /\ removePCB(pcb, c) /\ Transmit(c, r.seg)
                /\ UNCHANGED <<plan, peer>>
           ELSE IF m.f = "SYN" THEN Update(c, p, {}) /\ UNCHANGED sktVars
           ELSE Update(c, tcpDequeue(p, m.ack), {}) /\ Post(p.skt, 0, Freed(p, m.ack))

\* Any acknowledgement ends the connection, or leaves it in TIME_WAIT while
\* the socket has packets to read.
RxLastAck(c, m) ==
    LET p == pcb[c] IN
    /\ Arrives(c, m)
    /\ p.state = "LAST_ACK" /\ m.f # "RST"
    /\ IF m.f = "SYN" THEN Update(c, p, {}) /\ UNCHANGED sktVars
       ELSE IF p.rxQ # <<>>
       THEN Update(c, [p EXCEPT !.state = "TIME_WAIT"], {}) /\ UNCHANGED sktVars
       ELSE removePCB(pcb, c) /\ UNCHANGED <<plan, peer, toPeer>>

RxTimeWait(c, m) ==
    LET r == tcpSend(pcb[c], "RST") IN
    /\ Arrives(c, m)
    /\ pcb[c].state = "TIME_WAIT"
    /\ Update(c, IF m.f = "RST" THEN pcb[c] ELSE r.pcb, IF m.f = "RST" THEN {} ELSE r.seg)
    /\ UNCHANGED sktVars

tcpInput == \E c \in Clients : \E m \in {x[2] : x \in {y \in toFw : y[1] = c}} :
    \/ RxRefused(c, m) \/ RxListen(c, m) \/ RxReset(c, m) \/ RxSynRcvd(c, m)
    \/ RxOutOfOrder(c, m) \/ RxAck(c, m) \/ RxData(c, m) \/ RxFin(c, m)
    \/ RxFinWait(c, m) \/ RxLastAck(c, m) \/ RxTimeWait(c, m)

-----------------------------------------------------------------------------
(* tcpTimerTask: every 0.4 seconds, the connections in their order.        *)

\* tcpPeriodChk: what a tick does to a connection, and whether it ends it.
\* The oldest packet is the first to be given up, and is sent as a RST then.
Aged(p) == [i \in DOMAIN p.txQ |-> [p.txQ[i] EXCEPT !.rTime = @ + 1]]

Ends(p) ==
    IF p.state = "TIME_WAIT" THEN p.rxQ = <<>> \/ p.rTime > TimeWaitLimit
    ELSE \E i \in DOMAIN p.txQ : p.txQ[i].rTime + 1 >= GiveUpAfter

Ticked(p) ==
    IF p.state = "TIME_WAIT" THEN [p EXCEPT !.rTime = @ + 1]
    ELSE IF p.txQ # <<>> THEN [p EXCEPT !.txQ = Aged(p)]
    ELSE [p EXCEPT !.delayAck = CASE @ = "FirstDelayAck"  -> "SecondDelayAck"
                                  [] @ = "SecondDelayAck" -> "NoDelayAck"
                                  [] OTHER                -> @]

Resent(p) ==
    IF p.state = "TIME_WAIT" THEN {}
    ELSE IF Ends(p) THEN {[p.txQ[1].seg EXCEPT !.f = "RST"]}
    ELSE IF p.txQ # <<>> THEN {q.seg : q \in {Aged(p)[i] : i \in {j \in DOMAIN p.txQ :
                                                   Aged(p)[j].rTime > ResendAfter}}}
    ELSE IF p.delayAck = "SecondDelayAck" THEN {Segment("ACK", p.seqNum, p.sendAckNum, Empty)}
    ELSE {}

\* The connections before the first that ends are ticked; it is removed, and
\* the rest of the list waits for the next round.
Timer ==
    LET ends   == {i \in DOMAIN clientList : Ends(pcb[clientList[i]])}
        first  == CHOOSE i \in ends : \A j \in ends : i <= j
        seen   == {clientList[i] : i \in {j \in DOMAIN clientList :
                                             ends # {} => j <= first}}
        ticked == [c \in Clients |->
                      IF c \in seen /\ ~Ends(pcb[c]) THEN Ticked(pcb[c]) ELSE pcb[c]]
        sent   == UNION {{c} \X Resent(pcb[c]) : c \in seen}
    IN  /\ \E T \in SUBSET sent :
              /\ T = {} \/ Cardinality(toPeer \cup T) <= plan.capOut
              /\ toPeer' = toPeer \cup T
        /\ IF ends # {} THEN removePCB(ticked, clientList[first])
           ELSE pcb' = ticked /\ UNCHANGED <<clientList, curConnections, sktVars>>
        /\ UNCHANGED <<plan, peer, toFw>>

\* resetIPPtl: when the link changes, every connection is reset and removed.
LinkReset ==
    LET open == {c \in Clients : pcb[c].state # "NONE"}
        own(t) == skt[t].pcb \in open
    IN  /\ "link" \in plan.events /\ open # {}
        /\ \E T \in SUBSET {<<c, Segment("RST", pcb[c].seqNum, pcb[c].sendAckNum, Empty)>> :
                               c \in open} :
              /\ T = {} \/ Cardinality(toPeer \cup T) <= plan.capOut
              /\ toPeer' = toPeer \cup T
        /\ pcb' = [c \in Clients |-> NoPcb]
        /\ clientList' = <<>>
        /\ curConnections' = (curConnections + 8 - Len(clientList)) % 8
        /\ skt' = [t \in Tasks |-> IF own(t)
                                   THEN [skt[t] EXCEPT !.pcb = None, !.rxSem = @ + 1] ELSE skt[t]]
        /\ listenSem' = listenSem + Cardinality({c \in open : ~pcb[c].accepted})
        /\ UNCHANGED <<plan, peer, toFw>>

-----------------------------------------------------------------------------
(* The server's tasks in the socket calls.                                 *)

\* A task is in its own code or in a call, and its socket is as s.
Moves(t, s) == skt' = [skt EXCEPT ![t] = s] /\ UNCHANGED <<plan, peer, toFw, listenSem>>

Down(sem) == IF sem > 0 THEN sem - 1 ELSE 0

\* Faulty variant: it does not wait for a token.
rtSktAccept_NoToken(t) ==
    LET waiting == {i \in DOMAIN clientList : ~pcb[clientList[i]].accepted}
        c       == clientList[CHOOSE i \in waiting : \A j \in waiting : i <= j]
    IN  /\ skt[t].at = "free"
        /\ listenSem' = listenSem - 1
        /\ IF waiting # {} /\ pcb[c].state = "ESTABLISHED"
           THEN /\ skt' = [skt EXCEPT ![t] = [NoSkt EXCEPT !.at = "idle", !.pcb = c,
                                                           !.rxSem = Len(pcb[c].rxQ)]]
                /\ pcb' = [pcb EXCEPT ![c].skt = t, ![c].accepted = TRUE]
           ELSE UNCHANGED <<skt, pcb>>
        /\ UNCHANGED <<plan, peer, netVars, clientList, curConnections>>

\* Faulty variant: no tokens for packets that came before the call.
rtSktAccept_NoPackets(t) ==
    LET waiting == {i \in DOMAIN clientList : ~pcb[clientList[i]].accepted}
        c       == clientList[CHOOSE i \in waiting : \A j \in waiting : i <= j]
    IN  /\ skt[t].at = "free" /\ listenSem > 0
        /\ listenSem' = listenSem - 1
        /\ IF waiting # {} /\ pcb[c].state = "ESTABLISHED"
           THEN /\ skt' = [skt EXCEPT ![t] = [NoSkt EXCEPT !.at = "idle", !.pcb = c,
                                                           !.rxSem = 0]]
                /\ pcb' = [pcb EXCEPT ![c].skt = t, ![c].accepted = TRUE]
           ELSE UNCHANGED <<skt, pcb>>
        /\ UNCHANGED <<plan, peer, netVars, clientList, curConnections>>

\* rtSktAccept: the oldest connection that is not accepted, if it is
\* established; if it is not, the token is spent all the same.
rtSktAccept(t) ==
    LET waiting == {i \in DOMAIN clientList : ~pcb[clientList[i]].accepted}
        c       == clientList[CHOOSE i \in waiting : \A j \in waiting : i <= j]
    IN  /\ skt[t].at = "free" /\ listenSem > 0
        /\ listenSem' = listenSem - 1
        /\ IF waiting # {} /\ pcb[c].state = "ESTABLISHED"
           THEN /\ skt' = [skt EXCEPT ![t] = [NoSkt EXCEPT !.at = "idle", !.pcb = c,
                                                           !.rxSem = Len(pcb[c].rxQ)]]
                /\ pcb' = [pcb EXCEPT ![c].skt = t, ![c].accepted = TRUE]
           ELSE UNCHANGED <<skt, pcb>>
        /\ UNCHANGED <<plan, peer, netVars, clientList, curConnections>>

\* rtSktRx: a token, then the lock.  A connection in TIME_WAIT is closed by
\* the server when its last packet is read.
rtSktRx(t) ==
    LET s == [skt[t] EXCEPT !.rxSem = @ - 1]
        c == s.pcb
    IN  /\ s.at = "idle" /\ skt[t].rxSem > 0
        /\ IF c = None THEN Moves(t, [s EXCEPT !.at = "close"]) /\ UNCHANGED pcb
           ELSE LET q == pcb[c].rxQ IN
                /\ Moves(t, IF pcb[c].state = "TIME_WAIT" /\ Len(q) <= 1
                            THEN [s EXCEPT !.at = "close"] ELSE s)
                /\ pcb' = IF q = <<>> THEN pcb
                          ELSE [pcb EXCEPT ![c].rxQ = Tail(q), ![c].read = @ + 1, ![c].rTime = 0]
        /\ UNCHANGED <<toPeer, clientList, curConnections>>

\* rtSktSend, up to the unlock: the packet is queued and sent.
rtSktSend(t) ==
    LET s == skt[t]
        c == s.pcb
    IN  /\ s.at = "idle"
        /\ IF c = None
           THEN Moves(t, [s EXCEPT !.at = "close"]) /\ UNCHANGED <<pcb, toPeer>>
           ELSE LET r == tcpSend(pcb[c], "DATA") IN
                /\ pcb[c].out < plan.out[c]
                /\ Moves(t, [s EXCEPT !.at = "sent"])
                /\ pcb' = [pcb EXCEPT ![c] = [r.pcb EXCEPT !.sendPkts = (@ + 1) % 32]]
                /\ Transmit(c, r.seg)
        /\ UNCHANGED <<clientList, curConnections>>

\* Faulty variant: one packet too many.
SendTest_OffByOne(t) ==
    LET s == skt[t] IN
    /\ s.at = "sent"
    /\ \E full \in IF s.pcb = None THEN BOOLEAN ELSE {pcb[s.pcb].sendPkts > MaxSendPkts} :
          Moves(t, [s EXCEPT !.at = IF full THEN "wait" ELSE "idle"])
    /\ UNCHANGED <<toPeer, pcbVars>>

\* The test of s->pcb->sendPkts is made without the lock: when the connection
\* has gone meanwhile, what is read through the null pointer is anything.
SendTest(t) ==
    LET s == skt[t] IN
    /\ s.at = "sent"
    /\ \E full \in IF s.pcb = None THEN BOOLEAN ELSE {pcb[s.pcb].sendPkts >= MaxSendPkts} :
          Moves(t, [s EXCEPT !.at = IF full THEN "wait" ELSE "idle"])
    /\ UNCHANGED <<toPeer, pcbVars>>

\* The wait for an acknowledgement: a token or a second, then the lock.
SendWait(t) ==
    LET s == [skt[t] EXCEPT !.txSem = Down(@)] IN
    /\ s.at = "wait"
    /\ Moves(t, [s EXCEPT !.at = IF s.pcb = None THEN "close"
                                 ELSE IF pcb[s.pcb].sendPkts < MaxSendPkts THEN "idle"
                                 ELSE "sent"])
    /\ UNCHANGED <<toPeer, pcbVars>>

\* The server is done with the connection, or has waited too long for data.
ServerCloses(t) ==
    /\ skt[t].at = "idle" /\ Moves(t, [skt[t] EXCEPT !.at = "close"])
    /\ UNCHANGED <<toPeer, pcbVars>>

\* rtSktClose: first the queue empties, or the client is taken for lost.
CloseQueue(t) ==
    LET s == skt[t] IN
    /\ s.at = "close"
    /\ IF s.pcb = None \/ pcb[s.pcb].txQ = <<>> THEN TRUE
       ELSE pcb[s.pcb].txQ[1].rTime > CloseAfter
    /\ Moves(t, [s EXCEPT !.at = "fin"])
    /\ UNCHANGED <<toPeer, pcbVars>>

\* Then the FIN is sent, whatever the state was.
CloseFin(t) ==
    LET s == skt[t]
        c == s.pcb
    IN  /\ s.at = "fin"
        /\ IF c = None THEN Moves(t, NoSkt) /\ UNCHANGED <<pcb, toPeer>>
           ELSE LET r == tcpSend([pcb[c] EXCEPT !.state = "FIN_WAIT_1"], "FIN") IN
                /\ Moves(t, [s EXCEPT !.at = "closing"])
                /\ pcb' = [pcb EXCEPT ![c] = r.pcb]
                /\ Transmit(c, r.seg)
        /\ UNCHANGED <<clientList, curConnections>>

\* Faulty variant: the waits are not counted.
CloseWait_Unbounded(t) ==
    LET s == [skt[t] EXCEPT !.rxSem = Down(@)] IN
    /\ s.at = "closing"
    /\ IF s.pcb = None
       THEN Moves(t, NoSkt) /\ UNCHANGED pcbVars
       ELSE IF s.count = CloseTries
       THEN LET v == pcb[Victim(s.pcb)] IN
            /\ Unlink(pcb, s.pcb)
            /\ skt' = [Orphan(v, skt) EXCEPT ![t] = NoSkt]
            /\ Tell(v)
            /\ UNCHANGED <<plan, peer, toFw>>
       ELSE Moves(t, [s EXCEPT !.count = @]) /\ UNCHANGED pcbVars
    /\ UNCHANGED toPeer

\* Then it waits, a token or 0.4 seconds at a time, and at last removes the
\* connection itself.  The socket is freed (stopconn).
CloseWait(t) ==
    LET s == [skt[t] EXCEPT !.rxSem = Down(@)] IN
    /\ s.at = "closing"
    /\ IF s.pcb = None
       THEN Moves(t, NoSkt) /\ UNCHANGED pcbVars
       ELSE IF s.count = CloseTries
       THEN LET v == pcb[Victim(s.pcb)] IN
            /\ Unlink(pcb, s.pcb)
            /\ skt' = [Orphan(v, skt) EXCEPT ![t] = NoSkt]
            /\ Tell(v)
            /\ UNCHANGED <<plan, peer, toFw>>
       ELSE Moves(t, [s EXCEPT !.count = @ + 1]) /\ UNCHANGED pcbVars
    /\ UNCHANGED toPeer

TaskStep(t) == SendTest(t) \/ SendWait(t) \/ CloseQueue(t) \/ CloseFin(t) \/ CloseWait(t)

-----------------------------------------------------------------------------
(* The clients, external: they follow the protocol, may vanish at any time, *)
(* and reuse a port only when its old segments are gone.                   *)

PeerSeq(c, n) == Wrap(Isn[peer[c].e] + n)
FromPeer(c, f, n) ==
    Segment(f, PeerSeq(c, n), Wrap(peer[c].rcv),
            IF f \in {"SYN", "DATA"} THEN [e |-> peer[c].e, n |-> n] ELSE Empty)

\* A client in state q sends m, or m is lost.
PeerSends(c, q, m) ==
    /\ peer' = [peer EXCEPT ![c] = q]
    /\ \/ Cardinality(toFw \cup {<<c, m>>}) <= plan.capIn /\ toFw' = toFw \cup {<<c, m>>}
       \/ UNCHANGED toFw
    /\ UNCHANGED <<plan, toPeer, pcbVars, sktVars>>

PeerOpen(c) ==
    /\ peer[c].st = "closed" /\ peer[c].e < plan.epochs[c]
    /\ \A x \in toFw \cup toPeer : x[1] # c
    /\ LET q == [NoPeer EXCEPT !.st = "synsent", !.e = peer[c].e + 1, !.again = peer[c].again] IN
       PeerSends(c, q, Segment("SYN", Wrap(Isn[q.e]), 0, [e |-> q.e, n |-> 0]))

PeerAck(c) ==
    /\ peer[c].st \in {"est", "fin"}
    /\ PeerSends(c, peer[c], FromPeer(c, "ACK", peer[c].sent + 1))

PeerAgain(c) ==
    LET q == [peer[c] EXCEPT !.again = @ + 1] IN
    /\ q.again <= plan.again
    /\ \/ q.st = "synsent" /\ PeerSends(c, q, FromPeer(c, "SYN", 0))
       \/ /\ q.st \in {"est", "fin"}
          /\ \E n \in 1..q.sent : PeerSends(c, q, FromPeer(c, "DATA", n))
       \/ q.st = "fin" /\ PeerSends(c, q, FromPeer(c, "FIN", q.sent + 1))

PeerData(c) ==
    /\ peer[c].st = "est" /\ peer[c].sent < plan.in[c]
    /\ PeerSends(c, [peer[c] EXCEPT !.sent = @ + 1], FromPeer(c, "DATA", peer[c].sent + 1))

PeerFin(c) ==
    /\ "fin" \in plan.events /\ peer[c].st = "est"
    /\ PeerSends(c, [peer[c] EXCEPT !.st = "fin"], FromPeer(c, "FIN", peer[c].sent + 1))

PeerReset(c) ==
    /\ "reset" \in plan.events /\ peer[c].st # "closed"
    /\ PeerSends(c, [peer[c] EXCEPT !.st = "closed"], FromPeer(c, "RST", peer[c].sent + 1))

\* A segment arrives at the client; what it answers it may send at any time.
PeerTakes(c, m) ==
    LET q == peer[c] IN
    /\ <<c, m>> \in toPeer /\ toPeer' = toPeer \ {<<c, m>>}
    /\ peer' = [peer EXCEPT ![c] =
          IF q.st = "closed" THEN q
          ELSE IF m.f = "RST" THEN [q EXCEPT !.st = "closed"]
          ELSE IF q.st = "synsent"
          THEN IF m.f = "SYNACK" /\ m.ack = PeerSeq(c, 1)
               THEN [q EXCEPT !.st = "est", !.rcv = 1] ELSE q
          ELSE IF m.f \in {"DATA", "FIN"} /\ m.seq = Wrap(q.rcv)
          THEN [q EXCEPT !.rcv = @ + 1] ELSE q]
    /\ UNCHANGED <<plan, toFw, pcbVars, sktVars>>

\* A client that does not know the connection refuses the segment.
PeerRefuses(c, m) ==
    LET r == Segment("RST", m.ack, 0, Empty) IN
    /\ <<c, m>> \in toPeer /\ m.f # "RST"
    /\ peer[c].st = "closed" \/ (peer[c].st = "synsent" /\ m.ack # PeerSeq(c, 1))
    /\ toPeer' = toPeer \ {<<c, m>>}
    /\ Cardinality(toFw \cup {<<c, r>>}) <= plan.capIn /\ toFw' = toFw \cup {<<c, r>>}
    /\ UNCHANGED <<plan, peer, pcbVars, sktVars>>

Client(c) ==
    \/ PeerOpen(c) \/ PeerAgain(c) \/ PeerAck(c) \/ PeerData(c) \/ PeerFin(c) \/ PeerReset(c)
    \/ \E x \in toPeer : x[1] = c /\ (PeerTakes(c, x[2]) \/ PeerRefuses(c, x[2]))

-----------------------------------------------------------------------------
Next ==
    \/ tcpInput \/ Timer \/ LinkReset
    \/ \E t \in Tasks : rtSktAccept(t) \/ rtSktRx(t) \/ rtSktSend(t) \/ ServerCloses(t) \/ TaskStep(t)
    \/ \E c \in Clients : Client(c)

Spec == Init /\ [][Next]_vars

\* The timer task is periodic and a socket call runs on; the clients, the
\* network, the link and the server's own code may stop at any point.
FairSpec ==
    /\ Spec
    /\ WF_vars(Timer)
    /\ \A t \in Tasks : WF_vars(TaskStep(t))
-----------------------------------------------------------------------------
\* Every queue and counter has its shape.
TypeOK ==
    /\ plan \in Plan
    /\ peer \in [Clients -> Peers]
    /\ toFw \subseteq Clients \X Segments /\ toPeer \subseteq Clients \X Segments
    /\ pcb \in [Clients -> Pcbs] /\ clientList \in Seq(Clients)
    /\ curConnections \in 0..7 /\ listenSem \in Nat
    /\ skt \in [Tasks -> Skts]

Open == {c \in Clients : pcb[c].state # "NONE"}

\* The list, the counter (three bits, tcp.h), the connections and the sockets
\* agree: no connection is listed twice or lost, the service's limit is kept,
\* and a socket and its connection name each other.
SocketsPaired ==
    /\ {clientList[i] : i \in DOMAIN clientList} = Open
    /\ curConnections = Len(clientList) /\ Len(clientList) = Cardinality(Open)
    /\ Len(clientList) <= plan.maxConnections
    /\ \A c \in Open : pcb[c].accepted => skt[pcb[c].skt].pcb = c
    /\ \A t \in Tasks : skt[t].pcb # None =>
          skt[t].pcb \in Open /\ pcb[skt[t].pcb].accepted /\ pcb[skt[t].pcb].skt = t

\* What waits for the server is the client's stream, from the packet after
\* the last one read, without a gap, and of the present connection, whatever
\* the network lost, repeated or reordered.
StreamIntact ==
    \A c \in Clients : \A i \in DOMAIN pcb[c].rxQ :
        pcb[c].rxQ[i] = [e |-> pcb[c].epoch, n |-> pcb[c].read + i]

\* A packet leaves the retransmission queue only when the client has it.
AckedBeforeFreed ==
    \A c \in Open : peer[c].e = pcb[c].epoch =>
        \A n \in 1..pcb[c].out :
            \/ peer[c].rcv > n
            \/ \E i \in DOMAIN pcb[c].txQ : pcb[c].txQ[i].seg.data.n = n

\* sendPkts, which rtSktSend waits for and tcpDequeue decrements packet by
\* packet, is the number of data packets not acknowledged, and is bounded,
\* until rtSktClose sends its FIN.
WindowExact ==
    \A c \in Open : pcb[c].state # "FIN_WAIT_1" =>
        /\ pcb[c].sendPkts = Cardinality({i \in DOMAIN pcb[c].txQ : pcb[c].txQ[i].seg.f = "DATA"})
        /\ pcb[c].sendPkts <= MaxSendPkts

\* A task that waits in rtSktRx has a token for every packet, and one when
\* its connection is gone.
NoLostWakeup ==
    \A t \in Tasks : skt[t].at \in {"idle", "sent", "wait"} =>
        skt[t].rxSem >= (IF skt[t].pcb = None THEN 1 ELSE Len(pcb[skt[t].pcb].rxQ))

\* Every socket call returns, whatever the client does.
CallsReturn ==
    \A t \in Tasks : skt[t].at \notin {"free", "idle"} ~> skt[t].at \in {"free", "idle"}

\* No connection stays half open or half closed.
HalfOpenEnds ==
    \A c \in Clients : pcb[c].state \in {"SYN_RCVD", "FIN_WAIT_1", "LAST_ACK", "TIME_WAIT"}
                       ~> pcb[c].state \in {"NONE", "ESTABLISHED"}
=============================================================================
