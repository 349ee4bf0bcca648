------------------------------ MODULE Udpcast -------------------------------
(***************************************************************************)
(* The transfer of udp-sender to its udp-receivers: slices of blocks are   *)
(* multicast, the sender asks who has a slice (REQACK), a receiver says OK *)
(* or which blocks it lacks (RETRANSMIT), and who does not answer is       *)
(* dropped after some rounds.  Two slices are under way in full duplex     *)
(* mode (FLAG_SN): one waits for its acknowledgements (rexmit), the next   *)
(* is sent (xmit).                                                         *)
(*                                                                         *)
(* Datagrams between two machines keep their order, as on one segment, and *)
(* may be lost; those of several receivers mix in any order.  Without      *)
(* forward error correction, --async, --streaming and --ignore-lost-data.  *)
(***************************************************************************)
EXTENDS Integers, FiniteSets, Sequences

CONSTANTS
    Receivers,
    Blocks,            \* of each slice, by its number from 0; the last slice has none
    RetriesUntilDrop,
    NegativeRound,     \* 128: the first round whose number, bytes swapped, is negative
    MaxFaults          \* datagrams lost, timeouts too early, and receivers killed

Slices == DOMAIN Blocks
Last == Cardinality(Slices) - 1

ASSUME UdpcastAssumption ==
    /\ IsFiniteSet(Slices) /\ Slices # {}
    /\ Slices = 0..Last /\ Blocks \in [Slices -> Nat]
    /\ \A s \in Slices : Blocks[s] = 0 <=> s = Last
    /\ IsFiniteSet(Receivers) /\ Receivers # {}
    /\ RetriesUntilDrop \in Nat /\ NegativeRound \in 1 .. RetriesUntilDrop + 1
    /\ MaxFaults \in Nat

VARIABLES
    sn,            \* FLAG_SN, from the link the sender finds or its options
    participants,  \* the clients in participantsDb
    xmit, rexmit,  \* xmitSlice, rexmitSlice
    sliceNo,       \* of the next slice to make
    stage,         \* of netSenderMain: "loop", "resend", "send", "over"
    rx,            \* for each receiver, its clientState
    toRx,          \* for each receiver, the datagrams under way to it
    toTx,          \* and from it
    faults         \* of those MaxFaults bounds, so far

sender == <<participants, xmit, rexmit, sliceNo, stage>>
vars == <<sn, sender, rx, toRx, toTx, faults>>

-----------------------------------------------------------------------------
(* Slices of the sender, and its datagrams. *)

BlocksOf(s) == 0 .. Blocks[s] - 1

NewSlice(s) ==
    [no |-> s, new |-> TRUE, nextBlock |-> 0, rxmitId |-> 0, ready |-> {},
     answered |-> {}, needRxmit |-> FALSE, rxmitMap |-> {}, isXmitted |-> {}]
Empty == [NewSlice(-1) EXCEPT !.new = FALSE]
Used(slice) == slice.no # -1

\* Variant: the rounds are not counted.
NextRound_same(slice) == slice

\* Rounds past the last one before a drop are not told apart.
NextRound(slice) ==
    [slice EXCEPT !.rxmitId = IF @ > RetriesUntilDrop THEN @ ELSE @ + 1]

\* A new round begins with the answers of those who are ready.
Asked(slice) ==
    [slice EXCEPT !.answered = slice.ready, !.needRxmit = FALSE,
                  !.rxmitMap = {}, !.isXmitted = {}]

Reqack(slice) ==
    [op |-> "reqack", no |-> slice.no, rxmit |-> slice.rxmitId, ready |-> slice.ready]
Data(s, b) == [op |-> "data", no |-> s, block |-> b]

Ended(r) == rx[r].end \notin {"no", "linger"}
Listening == {r \in Receivers : ~Ended(r)}

Broadcast(m, early) ==
    \E missed \in SUBSET Listening :
        /\ faults' = faults + early + Cardinality(missed) /\ faults' <= MaxFaults
        /\ toRx' = [r \in Receivers |-> IF r \in Listening \ missed
                                        THEN Append(toRx[r], m) ELSE toRx[r]]

-----------------------------------------------------------------------------
Init ==
    /\ sn \in BOOLEAN /\ participants = Receivers
    /\ xmit = Empty /\ rexmit = Empty /\ sliceNo = 0 /\ stage = "loop"
    /\ rx = [r \in Receivers |->
                [current |-> 0, received |-> -1, known |-> {}, map |-> {}, end |-> "no"]]
    /\ toRx = [r \in Receivers |-> <<>>] /\ toTx = [r \in Receivers |-> <<>>]
    /\ faults = 0

(* One turn of the sender's loop, in the order of its tests. *)

\* Variant: who has answered counts as ready.
Ready_answered == Used(rexmit) /\ Cardinality(rexmit.answered) = Cardinality(participants)

Ready == Used(rexmit) /\ Cardinality(rexmit.ready) = Cardinality(participants)
Shiftable == ~Used(rexmit) /\ Used(xmit) /\ ~xmit.new

AckSlice ==
    /\ stage = "loop" /\ Ready /\ rexmit' = Empty
    /\ UNCHANGED <<sn, participants, xmit, sliceNo, stage, rx, toRx, toTx, faults>>

Shift ==
    /\ stage = "loop" /\ Shiftable
    /\ rexmit' = Asked(xmit) /\ xmit' = Empty /\ Broadcast(Reqack(xmit), 0)
    /\ UNCHANGED <<sn, participants, sliceNo, stage, rx, toTx>>

Settled == stage = "loop" /\ ~Ready /\ ~Shiftable

\* The message of r that comes next, which may find the sender anywhere in its loop.
Message(r, op) ==
    /\ Settled /\ toTx[r] # <<>> /\ Head(toTx[r]).op = op
    /\ toTx' = [toTx EXCEPT ![r] = Tail(@)]
    /\ UNCHANGED <<sn, sliceNo, rx, toRx, faults>>

\* findSlice: of the two slices, the one the message is about becomes x, or r.
OnSlice(s, x, r) ==
    /\ xmit' = IF xmit.no = s THEN x ELSE xmit
    /\ rexmit' = IF rexmit.no = s THEN r ELSE rexmit

Confirmed(slice, r) == [slice EXCEPT !.ready = @ \cup {r}, !.answered = @ \cup {r}]

HandleOk(r) ==
    /\ Message(r, "ok") /\ r \in participants
    /\ OnSlice(Head(toTx[r]).no, Confirmed(xmit, r), Confirmed(rexmit, r))
    /\ UNCHANGED <<participants, stage>>

\* msg->retransmit.rxmit is taken as it is on the wire, with its bytes swapped: as a
\* number it is far above every round, or negative.
Late(rxmit, slice) ==
    \/ rxmit = 0 /\ slice.rxmitId > 0
    \/ rxmit >= NegativeRound

Wished(slice, r, m) ==
    IF Late(m.rxmit, slice) THEN slice
    ELSE [slice EXCEPT !.rxmitMap = @ \cup m.missing, !.needRxmit = TRUE,
                       !.answered = @ \cup {r}]

HandleRetransmit(r) ==
    /\ Message(r, "retransmit") /\ r \in participants
    /\ LET m == Head(toTx[r]) IN OnSlice(m.no, Wished(xmit, r, m), Wished(rexmit, r, m))
    /\ UNCHANGED <<participants, stage>>

LoopUnlessAlone == stage' = IF participants' = {} THEN "over" ELSE "loop"

\* Variant: the bits of who leaves stay in the slices.
HandleDisconnect_bits(r) ==
    /\ Message(r, "disconnect") /\ r \in participants
    /\ participants' = participants \ {r} /\ LoopUnlessAlone
    /\ UNCHANGED <<xmit, rexmit>>

Without(slice, r) == [slice EXCEPT !.ready = @ \ {r}, !.answered = @ \ {r}]

HandleDisconnect(r) ==
    /\ Message(r, "disconnect") /\ r \in participants
    /\ participants' = participants \ {r} /\ LoopUnlessAlone
    /\ xmit' = Without(xmit, r) /\ rexmit' = Without(rexmit, r)

\* returnChannelMain does not pass on what comes from others.
IgnoreMessage(r) ==
    /\ \E op \in {"ok", "retransmit", "disconnect"} : Message(r, op)
    /\ r \notin participants
    /\ UNCHANGED <<participants, xmit, rexmit, stage>>

Wanted == rexmit.rxmitMap \ rexmit.isXmitted

\* All wanted blocks in a row, without a look at the messages.
Resend ==
    /\ (Settled /\ rexmit.needRxmit) \/ stage = "resend"
    /\ \/ /\ Wanted = {} /\ rexmit' = [rexmit EXCEPT !.needRxmit = FALSE]
          /\ UNCHANGED <<stage, toRx, faults>>
       \/ \E b \in Wanted :
             /\ \A c \in Wanted : b <= c
             /\ rexmit' = [rexmit EXCEPT !.isXmitted = @ \cup {b},
                                        !.needRxmit = Wanted # {b}]
             /\ stage' = IF Wanted # {b} THEN "resend" ELSE "loop"
             /\ Broadcast(Data(rexmit.no, b), 0)
    /\ UNCHANGED <<sn, participants, xmit, sliceNo, rx, toTx>>

AllAnswered ==
    Used(rexmit) /\ Cardinality(rexmit.answered) = Cardinality(participants)

\* Variant: the next slice is made before the last one is acknowledged.
Sending_ahead ==
    IF Used(xmit) THEN xmit
    ELSE IF sliceNo <= Last THEN NewSlice(sliceNo)
    ELSE Empty

\* The slice with something to send: xmitSlice, or the one that can be made.
Sending ==
    IF Used(xmit) THEN xmit
    ELSE IF sliceNo <= Last /\ (sn \/ ~Used(rexmit)) THEN NewSlice(sliceNo)
    ELSE Empty

AskAgain ==
    /\ Settled /\ ~rexmit.needRxmit /\ AllAnswered
    /\ rexmit' = Asked(NextRound(rexmit)) /\ Broadcast(Reqack(rexmit'), 0)
    /\ stage' = IF Sending.new THEN "send" ELSE "loop"
    /\ UNCHANGED <<sn, participants, xmit, sliceNo, rx, toTx>>

\* sendSlice is left after each block if a message waits, and resumed otherwise.
SendBlock ==
    /\ (Settled /\ ~rexmit.needRxmit /\ ~AllAnswered) \/ stage = "send"
    /\ Sending.new
    /\ LET n == Sending.nextBlock + 1 IN
       xmit' = [Sending EXCEPT !.nextBlock = n, !.new = n < Blocks[Sending.no]]
    /\ sliceNo' = xmit'.no + 1 /\ stage' = "loop"
    /\ IF Blocks[Sending.no] = 0 THEN UNCHANGED <<toRx, faults>>
       ELSE Broadcast(Data(Sending.no, Sending.nextBlock), 0)
    /\ UNCHANGED <<sn, participants, rexmit, rx, toTx>>

Waiting == Settled /\ ~rexmit.needRxmit /\ ~AllAnswered /\ ~Sending.new

AtEnd ==
    /\ Waiting /\ ~Used(rexmit) /\ ~Used(xmit) /\ stage' = "over"
    /\ UNCHANGED <<sn, participants, xmit, rexmit, sliceNo, rx, toRx, toTx, faults>>

\* How long a message takes is not known: a timeout may come when one is still under way.
Early ==
    IF \A r \in Receivers : toTx[r] = <<>> /\ (toRx[r] = <<>> \/ Ended(r)) THEN 0 ELSE 1

\* The wait for a message times out: the request is repeated, or who is not ready dropped.
Repeat ==
    /\ Waiting /\ Used(rexmit) /\ rexmit.rxmitId <= RetriesUntilDrop
    /\ rexmit' = Asked(NextRound(rexmit)) /\ Broadcast(Reqack(rexmit'), Early)
    /\ UNCHANGED <<sn, participants, xmit, sliceNo, stage, rx, toTx>>

Drop ==
    /\ Waiting /\ Used(rexmit) /\ rexmit.rxmitId > RetriesUntilDrop
    /\ participants' = participants \cap rexmit.ready /\ LoopUnlessAlone
    /\ faults' = faults + Early /\ faults' <= MaxFaults
    /\ UNCHANGED <<sn, xmit, rexmit, sliceNo, rx, toRx, toTx>>

SenderStep ==
    \/ AckSlice \/ Shift \/ Resend \/ AskAgain \/ SendBlock \/ AtEnd \/ Repeat \/ Drop
    \/ \E r \in Receivers : HandleOk(r) \/ HandleRetransmit(r) \/ HandleDisconnect(r)
                            \/ IgnoreMessage(r)

-----------------------------------------------------------------------------
(* A receiver: the slices up to current have been begun, those up to received are  *)
(* complete and passed on, and map holds the blocks it has of the others.          *)

Complete(c, s) == s \in c.known /\ \A b \in BlocksOf(s) : <<s, b>> \in c.map

\* What is complete in order is passed on, at most the two slices of the window; with
\* the empty slice the output ends.
Advance(c) ==
    LET next == c.received + 1
        n == IF ~Complete(c, next) THEN c.received
             ELSE IF ~Complete(c, next + 1) THEN next
             ELSE next + 1
    IN  [c EXCEPT !.received = n, !.map = {p \in @ : p[1] > n},
                  !.end = IF n = Last THEN "linger" ELSE @]

Reply(r, m) ==
    IF stage = "over" THEN UNCHANGED <<toTx, faults>>
    ELSE \/ toTx' = [toTx EXCEPT ![r] = Append(@, m)] /\ UNCHANGED faults
         \/ faults < MaxFaults /\ faults' = faults + 1 /\ UNCHANGED toTx

\* The end of the process, and its message from atexit.
End(r, why) ==
    /\ rx' = [rx EXCEPT ![r].end = why] /\ toRx' = [toRx EXCEPT ![r] = <<>>]
    /\ UNCHANGED <<sn, sender>>

\* findSlice: a slice that is neither begun nor the next one in the window.
OutOfWindow(c, s) == s > c.current /\ (s > c.received + 2 \/ s # c.current + 1)
\* initSlice: the size of the slice before is not known.
Unexpected(c, s) == s > c.current /\ ~OutOfWindow(c, s) /\ c.current \notin c.known
Begin(c, s) == IF s > c.current THEN [c EXCEPT !.current = s] ELSE c

Datagram(r) == Head(toRx[r])
Has(r) == ~Ended(r) /\ toRx[r] # <<>>

Receive(r, op) ==
    /\ Has(r) /\ Datagram(r).op = op
    /\ ~OutOfWindow(rx[r], Datagram(r).no) /\ ~Unexpected(rx[r], Datagram(r).no)
    /\ toRx' = [toRx EXCEPT ![r] = Tail(@)]
    /\ UNCHANGED <<sn, sender>>

ReceiveData(r) ==
    /\ Receive(r, "data")
    /\ LET m == Datagram(r)
           c == Begin(rx[r], m.no)
           old == m.no <= c.received \/ <<m.no, m.block>> \in c.map
       IN  rx' = [rx EXCEPT ![r] =
                     IF old THEN c
                     ELSE Advance([c EXCEPT !.known = @ \cup {m.no},
                                            !.map = @ \cup {<<m.no, m.block>>}])]
    /\ UNCHANGED <<toTx, faults>>

ReceiveReqack(r) ==
    /\ Receive(r, "reqack")
    /\ LET m == Datagram(r)
           c == Begin(rx[r], m.no)
           d == [c EXCEPT !.known = @ \cup {m.no}]
           missing == {b \in BlocksOf(m.no) : <<m.no, b>> \notin d.map}
           Ok == [op |-> "ok", no |-> m.no]
       IN  IF r \in m.ready
           THEN rx' = [rx EXCEPT ![r] = c] /\ UNCHANGED <<toTx, faults>>
           ELSE IF m.no <= c.received
           THEN UNCHANGED rx /\ Reply(r, Ok)
           ELSE /\ rx' = [rx EXCEPT ![r] = Advance(d)]
                /\ Reply(r, IF missing = {} THEN Ok
                            ELSE [op |-> "retransmit", no |-> m.no, rxmit |-> m.rxmit,
                                  missing |-> missing])

Disconnect == [op |-> "disconnect"]

\* "Dropped by server", exit(1), and "Previous slice size not known".
GiveUp(r) ==
    /\ Has(r)
    /\ \/ OutOfWindow(rx[r], Datagram(r).no) /\ End(r, "dropped")
       \/ Unexpected(rx[r], Datagram(r).no) /\ End(r, "fatal")
    /\ Reply(r, Disconnect)

\* exitWait passes with nothing more to receive.
ExitWait(r) ==
    /\ rx[r].end = "linger" /\ End(r, "done") /\ Reply(r, Disconnect)

\* backharddi_do kills udp-receiver, a failed write ends it: exit tells the sender,
\* a signal does not.
Quit(r) ==
    /\ ~Ended(r) /\ End(r, "quit")
    /\ faults < MaxFaults /\ faults' = faults + 1
    /\ toTx' \in {toTx, [toTx EXCEPT ![r] = Append(@, Disconnect)]}

ReceiverStep(r) == ReceiveData(r) \/ ReceiveReqack(r) \/ GiveUp(r) \/ ExitWait(r)

Next == SenderStep \/ \E r \in Receivers : ReceiverStep(r) \/ Quit(r)

Spec == Init /\ [][Next]_vars

\* The sender's loop and every receiver go on; how long they take is not told.
FairSpec == Spec /\ WF_vars(SenderStep) /\ \A r \in Receivers : WF_vars(ReceiverStep(r))

-----------------------------------------------------------------------------
\* The variables have their types; a round that has been resent leaves no wish behind,
\* and the sender waits, and reads rexmitSlice->rxmitId, only with a slice there.
SliceOK(slice) ==
    /\ slice.no \in Slices \cup {-1} /\ slice.new \in BOOLEAN
    /\ slice.nextBlock \in Nat /\ slice.rxmitId \in 0 .. RetriesUntilDrop + 1
    /\ slice.ready \subseteq participants /\ slice.ready \subseteq slice.answered
    /\ slice.answered \subseteq Receivers
    /\ slice.needRxmit \in BOOLEAN
    /\ slice.rxmitMap \subseteq Nat /\ slice.isXmitted \subseteq slice.rxmitMap

TypeOK ==
    /\ sn \in BOOLEAN /\ participants \subseteq Receivers
    /\ SliceOK(xmit) /\ SliceOK(rexmit)
    /\ sliceNo \in 0 .. Last + 1 /\ stage \in {"loop", "resend", "send", "over"}
    /\ faults \in 0..MaxFaults
    /\ Waiting => Used(rexmit) \/ (~Used(xmit) /\ sliceNo = Last + 1)

\* A receiver gives up the transfer (receivedata.c: "Dropped by server", "Previous slice
\* size not known") only if it has been dropped; or if, in full duplex mode, there have
\* been more faults than some slice has blocks: as many as it takes to lose that slice and
\* the request for it.  The faults counted are all there were, of any kind and anybody's:
\* that they were the losses of this receiver is not said.
GivesUpForAReason ==
    \A r \in Receivers :
        rx[r].end \in {"dropped", "fatal"} =>
            \/ r \notin participants
            \/ sn /\ \E s \in Slices : faults > Blocks[s] /\ Blocks[s] > 0

\* The sender ends, whatever is lost and whoever stops answering; and so does every
\* receiver it has not dropped.
EveryoneEnds ==
    <>(stage = "over" /\ \A r \in Receivers : Ended(r) \/ r \notin participants)

Slot(slice) == IF Used(slice) THEN 1 ELSE 0
M == INSTANCE Multicast WITH
        NrSlices <- Last + 1, members <- participants,
        acked <- sliceNo - Slot(xmit) - Slot(rexmit),
        given <- [r \in Receivers |-> rx[r].received + 1],
        over <- stage = "over"

\* A slice is acknowledged only when every participant has it, and every receiver passes
\* the slices on in order and whole: the transfer is a reliable multicast.
ImplementsMulticast == M!Spec

\* What a receiver says when it ends, "Dropped by server", is so.
DroppedByServer ==
    \A r \in Receivers : rx[r].end = "dropped" => r \notin participants
=============================================================================
