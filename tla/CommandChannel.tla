--------------------------- MODULE CommandChannel ---------------------------
(***************************************************************************)
(* What the bulk command engine promises its host: commands are served one *)
(* at a time in the order they were sent, each is answered exactly once,   *)
(* and the answer of a supported command carries that command's own        *)
(* outcome.  The next command may be accepted before the previous answer   *)
(* has been read; answers are never lost, repeated or reordered.  A host   *)
(* that resets the device in use breaks the channel: nothing is promised   *)
(* from then on.                                                           *)
(***************************************************************************)
EXTENDS Naturals, Sequences

CONSTANTS Types, Supported, MaxCmds

VARIABLES
    sent,      \* commands accepted so far
    request,   \* the command being served, or NoCommand
    last,      \* the last command whose outcome was recorded
    outbox,    \* answers the host has not read yet, oldest first
    rcvd,      \* answers the host has read
    broken     \* the host has broken the channel

vars == <<sent, request, last, outbox, rcvd, broken>>

NoCommand == [seq |-> 0, type |-> "none"]

Init ==
    /\ sent = 0 /\ request = NoCommand /\ last = 0
    /\ outbox = <<>> /\ rcvd = <<>> /\ broken = FALSE

\* The device accepts the next command; it serves one at a time.
Accept ==
    /\ request = NoCommand
    /\ sent < MaxCmds
    /\ sent' = sent + 1
    /\ \E t \in Types : request' = [seq |-> sent + 1, type |-> t]
    /\ UNCHANGED <<last, outbox, rcvd>>

\* The device performs the command and answers it.
Serve ==
    /\ request # NoCommand
    /\ last' = IF request.type \in Supported THEN request.seq ELSE last
    /\ outbox' = Append(outbox, [seq |-> request.seq, type |-> request.type, body |-> last'])
    /\ request' = NoCommand
    /\ UNCHANGED <<sent, rcvd>>

\* The host reads the oldest answer.
Deliver ==
    /\ outbox # <<>>
    /\ rcvd' = Append(rcvd, Head(outbox))
    /\ outbox' = Tail(outbox)
    /\ UNCHANGED <<sent, request, last>>

\* The host breaks the channel.
Break == broken' = TRUE

Next == (UNCHANGED broken /\ (Accept \/ Serve \/ Deliver)) \/ Break

Spec == Init /\ [][Next]_vars
=============================================================================
