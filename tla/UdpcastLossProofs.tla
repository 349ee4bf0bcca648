------------------------- MODULE UdpcastLossProofs --------------------------
(***************************************************************************)
(* That in full duplex mode a receiver of udpcast gives up only when a     *)
(* whole slice and the request for it are lost, for any number of          *)
(* receivers, slices, blocks, rounds and faults: the losses are counted,   *)
(* slice by slice.                                                         *)
(***************************************************************************)
EXTENDS UdpcastProofs

\* The datagrams about slice k that have been sent to all at least once, all different:
\* its blocks, then the first request for it.
SentOf(k) ==
    IF k < Requested THEN Blocks[k] + 1
    ELSE IF k = xmit.no /\ Blocks[k] > 0 THEN xmit.nextBlock
    ELSE 0

\* Receiver r has heard nothing of slice k, and hears of a later one first, if at all.
Deaf(r, k) ==
    /\ rx[r].received < k /\ k \notin rx[r].known
    /\ \A i \in DOMAIN toRx[r] :
           toRx[r][i].no = k => \E j \in DOMAIN toRx[r] : j < i /\ toRx[r][j].no > k

\* Who knows a block knows the size of its slice.
MapInv == \A r \in Receivers : \A p \in rx[r].map : p[1] \in rx[r].known

\* A slice is asked about when all its blocks have been sent.
SentInv == Used(xmit) /\ ~xmit.new => xmit.nextBlock >= Blocks[xmit.no]

\* What a participant has not heard of a slice has been lost, datagram by datagram.
LossInv ==
    \A r \in participants, k \in Slices : ~Ended(r) /\ Deaf(r, k) => faults >= SentOf(k)

LInv == MapInv /\ SentInv /\ LossInv /\ GivesUpForAReason
-----------------------------------------------------------------------------
(* The sender. *)

LEMMA Counting ==
    ASSUME IInv
    PROVE  /\ sliceNo \in Int /\ Requested \in Int /\ faults \in Nat
           /\ Slices \subseteq Nat /\ xmit.nextBlock \in Nat
           /\ \A k \in Slices : Blocks[k] \in Nat /\ SentOf(k) \in Nat
<1>1. TypeInv /\ SlotInv /\ faults \in Nat /\ xmit.nextBlock \in Nat
  BY Numbers DEF IInv, TypeInv, Slice
<1>2. Slices \subseteq Nat /\ \A k \in Slices : Blocks[k] \in Nat
  BY Numbers, UdpcastAssumption
<1>3. \A k \in Slices : SentOf(k) \in Nat
  BY <1>1, <1>2 DEF SentOf
<1> QED  BY <1>1, <1>2, <1>3, Counts

LEMMA CountingNext == IInv' => \A k \in Slices : SentOf(k)' \in Nat
<1> SUFFICES ASSUME IInv', NEW k \in Slices PROVE SentOf(k)' \in Nat
  OBVIOUS
<1>1. Blocks[k] \in Nat
  BY UdpcastAssumption
<1>2. xmit'.nextBlock \in Nat
  BY DEF IInv, TypeInv, Slice
<1> QED  BY <1>1, <1>2 DEF SentOf

\* Losses are not undone, and who has left does not come back.
LEMMA ReasonStays ==
    ASSUME IInv, IInv', GivesUpForAReason, sn' = sn, participants' \subseteq participants,
           faults' >= faults,
           \A r \in Receivers :
               rx'[r].end \in {"dropped", "fatal"} =>
                   \/ rx'[r].end = rx[r].end \/ r \notin participants
                   \/ sn /\ \E s \in Slices : faults > Blocks[s] /\ Blocks[s] > 0
    PROVE  GivesUpForAReason'
<1> SUFFICES ASSUME NEW r \in Receivers, rx'[r].end \in {"dropped", "fatal"}, r \in participants
             PROVE  sn /\ \E s \in Slices : faults' > Blocks[s] /\ Blocks[s] > 0
  BY DEF GivesUpForAReason
<1>1. PICK s \in Slices : sn /\ faults > Blocks[s] /\ Blocks[s] > 0
  BY DEF GivesUpForAReason
<1>2. faults \in Nat /\ faults' \in Nat /\ Blocks[s] \in Nat
  BY Counting, Numbers DEF IInv, TypeInv
<1> QED  BY <1>1, <1>2

\* A step of the sender that sends nothing.
LEMMA NothingSent ==
    ASSUME IInv, IInv', LInv, UNCHANGED <<sn, rx, toRx>>, participants' \subseteq participants,
           faults' >= faults, Requested' = Requested,
           xmit'.no = xmit.no, xmit'.new = xmit.new, xmit'.nextBlock = xmit.nextBlock
    PROVE  LInv'
<1>1. MapInv' /\ SentInv'
  BY DEF LInv, MapInv, SentInv, Used
<1>2. \A k \in Slices : SentOf(k)' = SentOf(k) /\ SentOf(k) \in Nat
  BY Counting DEF SentOf
<1>3. \A r \in Receivers, k \in Slices :
          (Deaf(r, k)' <=> Deaf(r, k)) /\ (Ended(r)' <=> Ended(r))
  BY DEF Deaf, Ended
<1>4. faults \in Nat /\ faults' \in Nat /\ participants \subseteq Receivers
  BY Counting, Numbers DEF IInv, TypeInv
<1>5. LossInv'
  BY <1>2, <1>3, <1>4 DEF LInv, LossInv
<1>6. GivesUpForAReason'
  BY ReasonStays DEF LInv
<1> QED  BY <1>1, <1>5, <1>6 DEF LInv

\* What is under way to r.
LEMMA Channel ==
    ASSUME IInv, NEW r \in Receivers
    PROVE  /\ toRx[r] \in Seq(DownOf(r)) /\ Len(toRx[r]) \in Nat
           /\ DOMAIN toRx[r] = 1 .. Len(toRx[r])
           /\ \A i \in DOMAIN toRx[r] : toRx[r][i].no \in Nat /\ toRx[r][i].no < sliceNo
<1>1. toRx[r] \in Seq(DownOf(r))
  BY DEF IInv, ChanInv
<1>2. \A m \in DownOf(r) : m.no \in Nat /\ m.no < sliceNo
  BY Counting DEF DownOf, Down
<1>3. \A i \in DOMAIN toRx[r] : toRx[r][i] \in DownOf(r)
  BY <1>1, ElementOfSeq
<1> QED  BY <1>1, <1>2, <1>3, LenProperties

\* A datagram to all is one more of its slice, if it is new: then the slice is the last
\* one, and who has not missed it will hear of the slice.
LEMMA SentToAll ==
    ASSUME IInv, IInv', LInv, UNCHANGED <<sn, rx, participants>>, SentInv',
           NEW m, m.no \in Slices, NEW early \in 0 .. 1, Broadcast(m, early),
           \/ \A k \in Slices : SentOf(k)' <= SentOf(k)
           \/ /\ m.no >= sliceNo - 1
              /\ \A k \in Slices :
                     SentOf(k)' <= IF k = m.no THEN SentOf(k) + 1 ELSE SentOf(k)
    PROVE  LInv'
<1>1. PICK missed \in SUBSET Listening :
          /\ faults' = faults + early + Cardinality(missed) /\ faults' <= MaxFaults
          /\ toRx' = [r \in Receivers |-> IF r \in Listening \ missed
                                          THEN Append(toRx[r], m) ELSE toRx[r]]
  BY DEF Broadcast
<1>2. Cardinality(missed) \in Nat /\ \A r \in missed : Cardinality(missed) >= 1
  <2>1. IsFiniteSet(missed)
    <3>1. missed \subseteq Receivers
      BY DEF Listening
    <3> QED  BY <3>1, Numbers, FS_Subset
  <2>2. Cardinality(missed) \in Nat /\ (Cardinality(missed) = 0 <=> missed = {})
    BY <2>1, FS_CardinalityType, FS_EmptySet
  <2> QED  BY <2>2
<1>3. faults \in Nat /\ faults' \in Nat /\ faults' >= faults
  BY <1>1, <1>2, Counting
<1>4. MapInv'
  BY DEF LInv, MapInv
<1>5. LossInv'
  <2> SUFFICES ASSUME NEW r \in participants, NEW k \in Slices, ~Ended(r)', Deaf(r, k)'
               PROVE  faults' >= SentOf(k)'
    BY DEF LossInv
  <2> DEFINE q == toRx[r]
  <2>1. r \in Receivers /\ ~Ended(r) /\ r \in Listening
    BY DEF IInv, TypeInv, Ended, Listening
  <2>2. /\ q \in Seq(DownOf(r)) /\ Len(q) \in Nat /\ DOMAIN q = 1 .. Len(q)
        /\ \A i \in DOMAIN q : q[i].no \in Nat /\ q[i].no < sliceNo
    BY <2>1, Channel
  <2>3. SentOf(k) \in Nat /\ SentOf(k)' \in Nat /\ k \in Nat /\ sliceNo \in Int
        /\ m.no \in Nat
    BY Counting, CountingNext
  <2>4. CASE r \in missed
    <3>1. toRx'[r] = q
      BY <1>1, <2>1, <2>4
    <3>2. Deaf(r, k)
      BY <3>1 DEF Deaf
    <3>3. faults >= SentOf(k)
      BY <3>2, <2>1 DEF LInv, LossInv
    <3>4. faults' >= faults + 1
      BY <1>1, <1>2, <1>3, <2>4
    <3> QED  BY <3>3, <3>4, <1>3, <2>3
  <2>5. CASE r \notin missed
    <3>1. toRx'[r] = Append(q, m)
      BY <1>1, <2>1, <2>5
    <3>2. /\ DOMAIN toRx'[r] = 1 .. Len(q) + 1 /\ toRx'[r][Len(q) + 1] = m
          /\ \A i \in 1 .. Len(q) : toRx'[r][i] = q[i]
      BY <3>1, <2>2, AppendProperties
    <3>3. \A i \in DOMAIN toRx'[r] :
              toRx'[r][i].no = k => \E j \in DOMAIN toRx'[r] : j < i /\ toRx'[r][j].no > k
      BY DEF Deaf
    <3> HIDE DEF q
    <3>4. \A i \in DOMAIN q : q[i].no = k => \E j \in DOMAIN q : j < i /\ q[j].no > k
      <4> SUFFICES ASSUME NEW i \in 1 .. Len(q), q[i].no = k
                   PROVE  \E j \in 1 .. Len(q) : j < i /\ q[j].no > k
        BY <2>2
      <4>1. i \in 1 .. Len(q) + 1 /\ toRx'[r][i].no = k
        BY <2>2, <3>2
      <4>2. PICK j \in 1 .. Len(q) + 1 : j < i /\ toRx'[r][j].no > k
        BY <4>1, <3>2, <3>3
      <4>3. j \in 1 .. Len(q)
        BY <4>2, <2>2
      <4> QED  BY <4>2, <4>3, <3>2
    <3>5. faults >= SentOf(k)
      <4>1. Deaf(r, k)
        BY <3>4 DEF Deaf, q
      <4> QED  BY <4>1, <2>1 DEF LInv, LossInv
    <3>6. SentOf(k)' <= SentOf(k)
      <4>1. CASE m.no >= sliceNo - 1 /\ k = m.no
        <5>1. PICK j \in 1 .. Len(q) + 1 : j < Len(q) + 1 /\ toRx'[r][j].no > k
          BY <4>1, <3>2, <3>3, <2>2
        <5>2. j \in 1 .. Len(q)
          BY <5>1, <2>2
        <5>3. q[j].no > k /\ q[j].no \in Nat /\ q[j].no < sliceNo
          BY <5>1, <5>2, <3>2, <2>2
        <5> QED  BY <5>3, <4>1, <2>3
      <4>2. CASE ~(m.no >= sliceNo - 1 /\ k = m.no)
        BY <4>2
      <4> QED  BY <4>1, <4>2
    <3> QED  BY <3>5, <3>6, <1>3, <2>3
  <2> QED  BY <2>4, <2>5
<1>6. GivesUpForAReason'
  BY <1>3, ReasonStays DEF LInv
<1> QED  BY <1>4, <1>5, <1>6 DEF LInv

LEMMA SilentSteps ==
    ASSUME IInv, IInv', LInv,
           \/ AckSlice \/ AtEnd \/ Drop
           \/ \E r \in Receivers : HandleOk(r) \/ HandleRetransmit(r)
                                   \/ HandleDisconnect(r) \/ IgnoreMessage(r)
    PROVE  LInv'
<1>1. TypeInv /\ SlotInv /\ faults \in Nat /\ xmit \in Slice
  BY Numbers DEF IInv, TypeInv
<1>2. ASSUME UNCHANGED <<sn, rx, toRx, xmit, sliceNo>>, faults' >= faults,
             participants' \subseteq participants
      PROVE  LInv'
  <2>1. Requested' = Requested
    BY <1>2 DEF Requested, Slot, Used
  <2> QED  BY <1>2, <2>1, NothingSent
<1>3. CASE AckSlice \/ AtEnd
  BY <1>3, <1>1, <1>2 DEF AckSlice, AtEnd
<1>4. CASE Drop
  <2>1. Early \in 0 .. 1
    BY EarlyRange
  <2> QED  BY <1>4, <1>1, <1>2, <2>1 DEF Drop
<1>5. ASSUME NEW r \in Receivers,
             HandleOk(r) \/ HandleRetransmit(r) \/ HandleDisconnect(r) \/ IgnoreMessage(r)
      PROVE  LInv'
  <2>1. /\ UNCHANGED <<sn, rx, toRx, sliceNo, faults>> /\ participants' \subseteq participants
    BY <1>5 DEF HandleOk, HandleRetransmit, HandleDisconnect, IgnoreMessage, Message
  <2>2. xmit'.no = xmit.no /\ xmit'.new = xmit.new /\ xmit'.nextBlock = xmit.nextBlock
    <3>1. xmit' \in {xmit, Confirmed(xmit, r), Wished(xmit, r, Head(toTx[r])),
                     Without(xmit, r)}
      BY <1>5 DEF HandleOk, HandleRetransmit, HandleDisconnect, IgnoreMessage, OnSlice
    <3>2. /\ \A n : n \in {"no", "new", "nextBlock"} => Confirmed(xmit, r)[n] = xmit[n]
          /\ \A n : n \in {"no", "new", "nextBlock"} => Without(xmit, r)[n] = xmit[n]
          /\ \A n : n \in {"no", "new", "nextBlock"} =>
                        Wished(xmit, r, Head(toTx[r]))[n] = xmit[n]
      BY <1>1 DEF Confirmed, Without, Wished, Slice
    <3> QED  BY <3>1, <3>2
  <2>3. Requested' = Requested
    BY <2>1, <2>2 DEF Requested, Slot, Used
  <2> QED  BY <1>1, <2>1, <2>2, <2>3, NothingSent
<1> QED  BY <1>3, <1>4, <1>5

\* The sender asks for the slice it has just sent.
LEMMA ShiftLoss == ASSUME IInv, IInv', LInv, Shift PROVE LInv'
<1>1. /\ ~Used(rexmit) /\ Used(xmit) /\ ~xmit.new
      /\ xmit' = Empty /\ Broadcast(Reqack(xmit), 0)
      /\ UNCHANGED <<sn, participants, sliceNo, rx>>
  BY DEF Shift, Shiftable
<1>2. /\ TypeInv /\ SlotInv /\ xmit \in Slice /\ xmit.no \in Slices
      /\ xmit.no = Requested /\ sliceNo = Requested + 1 /\ Requested \in Int
  BY <1>1, Counts DEF IInv, TypeInv, Used
<1>3. ~Used(xmit') /\ Requested' = Requested + 1 /\ xmit'.no = -1
  BY <1>1, <1>2, EmptySlice DEF Requested, Slot, Used
<1>4. SentInv'
  BY <1>3 DEF SentInv
<1>5. Reqack(xmit).no = xmit.no
  BY <1>2, ReqackDown
<1>6. ASSUME NEW k \in Slices
      PROVE  SentOf(k)' <= IF k = xmit.no THEN SentOf(k) + 1 ELSE SentOf(k)
  <2>1. k \in Nat /\ Blocks[k] \in Nat /\ xmit.nextBlock \in Nat
    BY Counting
  <2>2. CASE k = xmit.no
    <3>1. SentOf(k)' = Blocks[k] + 1
      BY <2>2, <1>2, <1>3 DEF SentOf
    <3>2. SentOf(k) = IF Blocks[k] > 0 THEN xmit.nextBlock ELSE 0
      BY <2>2, <1>2 DEF SentOf
    <3>3. xmit.nextBlock >= Blocks[k]
      BY <2>2, <1>1 DEF LInv, SentInv
    <3> QED  BY <2>1, <2>2, <3>1, <3>2, <3>3
  <2>3. CASE k # xmit.no
    <3>1. SentOf(k)' = IF k < Requested THEN Blocks[k] + 1 ELSE 0
      BY <2>1, <2>3, <1>2, <1>3 DEF SentOf
    <3>2. SentOf(k) = IF k < Requested THEN Blocks[k] + 1 ELSE 0
      BY <2>1, <2>3 DEF SentOf
    <3> QED  BY <2>1, <2>3, <3>1, <3>2
  <2> QED  BY <2>2, <2>3
<1>7. Reqack(xmit).no >= sliceNo - 1 /\ Reqack(xmit).no \in Slices
  BY <1>2, <1>5
<1> QED  BY <1>1, <1>4, <1>5, <1>6, <1>7, SentToAll

\* The sender asks again, or sends a block again.
LEMMA SentAgain ==
    ASSUME IInv, IInv', LInv, UNCHANGED <<sn, rx, participants, xmit, sliceNo>>,
           NEW m, m.no \in Slices, NEW early \in 0 .. 1, Broadcast(m, early)
    PROVE  LInv'
<1>1. Requested' = Requested
  BY DEF Requested, Slot, Used
<1>2. SentInv'
  BY DEF LInv, SentInv, Used
<1>3. \A k \in Slices : SentOf(k)' <= SentOf(k)
  <2>1. \A k \in Slices : SentOf(k)' = SentOf(k) /\ SentOf(k) \in Nat
    BY <1>1, Counting DEF SentOf
  <2> QED  BY <2>1
<1> QED  BY <1>2, <1>3, SentToAll

LEMMA AgainLoss == ASSUME IInv, IInv', LInv, AskAgain \/ Repeat PROVE LInv'
<1>1. /\ TypeInv /\ SlotInv /\ Used(rexmit) /\ rexmit' = Asked(NextRound(rexmit))
      /\ UNCHANGED <<sn, participants, xmit, sliceNo, rx>>
      /\ \E early \in 0 .. 1 : Broadcast(Reqack(rexmit'), early)
  BY EarlyRange DEF IInv, AskAgain, Repeat, AllAnswered
<1>2. rexmit \in Slice /\ rexmit.no \in Slices
  BY <1>1, Counts DEF TypeInv, Used
<1>3. rexmit' \in Slice /\ rexmit'.no = rexmit.no
  BY <1>1, <1>2, NextRoundSlice, AskedSlice
<1>4. Reqack(rexmit').no \in Slices
  BY <1>2, <1>3, ReqackDown
<1> QED  BY <1>1, <1>4, SentAgain

LEMMA ResendLoss == ASSUME IInv, IInv', LInv, Resend PROVE LInv'
<1>1. /\ UNCHANGED <<sn, participants, xmit, sliceNo, rx>>
      /\ \/ UNCHANGED <<toRx, faults>>
         \/ \E b \in Wanted : Broadcast(Data(rexmit.no, b), 0)
  BY DEF Resend
<1>2. rexmit.no \in Slices
  <2>1. TypeInv /\ SlotInv /\ Used(rexmit)
    BY DEF IInv, SlotInv, Resend, Settled
  <2> QED  BY <2>1, Counts DEF Used
<1>3. CASE UNCHANGED <<toRx, faults>>
  <2>1. Requested' = Requested
    BY <1>1 DEF Requested, Slot, Used
  <2>2. faults' >= faults
    BY <1>3, Counting
  <2> QED  BY <1>1, <1>3, <2>1, <2>2, NothingSent
<1>4. CASE \E b \in Wanted : Broadcast(Data(rexmit.no, b), 0)
  <2>1. PICK b \in Wanted : Broadcast(Data(rexmit.no, b), 0)
    BY <1>4
  <2>2. Data(rexmit.no, b).no \in Slices
    BY <1>2 DEF Data
  <2> QED  BY <1>1, <2>1, <2>2, SentAgain
<1> QED  BY <1>1, <1>3, <1>4

\* The next block of the slice in xmit, or the first one of a new slice.
LEMMA BlockLoss == ASSUME IInv, IInv', LInv, SendBlock PROVE LInv'
<1> DEFINE s == Sending
           n == s.nextBlock + 1
<1>1. /\ s.new /\ xmit' = [s EXCEPT !.nextBlock = n, !.new = n < Blocks[s.no]]
      /\ sliceNo' = xmit'.no + 1
      /\ UNCHANGED <<sn, participants, rx>>
      /\ IF Blocks[s.no] = 0 THEN UNCHANGED <<toRx, faults>>
         ELSE Broadcast(Data(s.no, s.nextBlock), 0)
  BY DEF SendBlock
<1>2. TypeInv /\ SlotInv /\ Requested \in Int /\ sliceNo \in Int
  BY Counts DEF IInv
<1>3. /\ s \in Slice /\ s.no \in Slices /\ s.no = Requested /\ sliceNo <= Requested + 1
      /\ Blocks[s.no] > 0 => SentOf(s.no) = s.nextBlock
  <2>1. CASE Used(xmit)
    <3>1. s = xmit /\ xmit \in Slice /\ xmit.no = Requested /\ sliceNo = Requested + 1
          /\ xmit.no \in Slices
      BY <2>1, <1>2, Counts DEF Sending, TypeInv, Used
    <3> QED  BY <3>1, <1>2 DEF SentOf
  <2>2. CASE ~Used(xmit)
    <3>1. sliceNo <= Last /\ s = NewSlice(sliceNo)
      BY <2>2, <1>1, EmptySlice DEF Sending
    <3>2. sliceNo \in Slices /\ sliceNo = Requested /\ xmit.no = -1
      BY <2>2, <3>1, <1>2, Numbers, Counts DEF TypeInv
    <3>3. s \in Slice /\ s.no = sliceNo /\ s.nextBlock = 0
      BY <3>1, <3>2, NewSliceSlice DEF NewSlice
    <3>4. SentOf(sliceNo) = 0
      <4>1. sliceNo # -1
        BY <3>2, Numbers
      <4> QED  BY <3>2, <4>1, <1>2 DEF SentOf
    <3> QED  BY <3>2, <3>3, <3>4, <1>2
  <2> QED  BY <2>1, <2>2
<1> HIDE DEF s
<1>4. /\ Blocks[s.no] \in Nat /\ s.nextBlock \in Nat /\ s.no \in Nat
  BY <1>3, Counting DEF Slice
<1>5. /\ xmit'.no = s.no /\ xmit'.nextBlock = n /\ (xmit'.new <=> n < Blocks[s.no])
  <2>1. n \in Nat /\ (n < Blocks[s.no]) \in BOOLEAN
    BY <1>4
  <2> HIDE DEF n
  <2> QED  BY <1>1, <1>3, <2>1 DEF Slice
<1>6. Requested' = Requested
  <2>1. Slot(xmit') = 1 /\ sliceNo' = Requested + 1
    BY <1>1, <1>3, <1>4, <1>5 DEF Slot, Used
  <2> QED  BY <2>1, <1>2 DEF Requested
<1>7. SentInv'
  BY <1>4, <1>5 DEF SentInv
<1>8. PICK c \in Slices : c = s.no
  BY <1>3
<1>9. ASSUME NEW k \in Slices, k # c PROVE SentOf(k)' <= SentOf(k)
  <2>1. k \in Nat /\ Blocks[k] \in Nat /\ SentOf(k) \in Nat
    BY Counting
  <2>2. SentOf(k)' = IF k < Requested THEN Blocks[k] + 1 ELSE 0
    BY <1>5, <1>6, <1>9, <1>8 DEF SentOf
  <2>3. k < Requested => SentOf(k) = Blocks[k] + 1
    BY DEF SentOf
  <2> QED  BY <2>1, <2>2, <2>3
<1>10. CASE Blocks[s.no] = 0
  <2>1. /\ UNCHANGED <<toRx, faults>> /\ faults \in Nat /\ MapInv
    BY <1>1, <1>10, Counting DEF LInv
  <2>2. SentOf(c)' <= SentOf(c)
    <3>1. SentOf(c)' = 0 /\ SentOf(c) = 0
      BY <1>3, <1>6, <1>10, <1>2, <1>8 DEF SentOf
    <3> QED  BY <3>1
  <2>3. \A k \in Slices : SentOf(k)' <= SentOf(k) /\ SentOf(k) \in Nat /\ SentOf(k)' \in Nat
    BY <1>9, <2>2, Counting, CountingNext
  <2>4. MapInv'
    BY <1>1, <2>1 DEF MapInv
  <2>5. LossInv'
    <3>1. \A r \in Receivers, k \in Slices :
              (Deaf(r, k)' <=> Deaf(r, k)) /\ (Ended(r)' <=> Ended(r))
      BY <1>1, <2>1 DEF Deaf, Ended
    <3>2. participants' = participants /\ participants \subseteq Receivers
      BY <1>1, <1>2 DEF TypeInv
    <3> QED  BY <2>1, <2>3, <3>1, <3>2 DEF LInv, LossInv
  <2>6. GivesUpForAReason'
    BY <1>1, <2>1, ReasonStays DEF LInv
  <2> QED  BY <1>7, <2>4, <2>5, <2>6 DEF LInv
<1>11. CASE Blocks[s.no] # 0
  <2>1. Data(s.no, s.nextBlock).no = s.no
    BY DEF Data
  <2>2. SentOf(c)' <= SentOf(c) + 1
    <3>1. SentOf(c)' = n
      BY <1>2, <1>3, <1>4, <1>5, <1>6, <1>11, <1>8 DEF SentOf
    <3> QED  BY <3>1, <1>3, <1>4, <1>11, <1>8
  <2>3. \A k \in Slices : SentOf(k)' <= IF k = c THEN SentOf(k) + 1 ELSE SentOf(k)
    BY <1>9, <2>2
  <2>4. Data(s.no, s.nextBlock).no >= sliceNo - 1 /\ Data(s.no, s.nextBlock).no \in Slices
    BY <1>2, <1>3, <2>1
  <2>5. Broadcast(Data(s.no, s.nextBlock), 0)
    BY <1>1, <1>11
  <2> QED  BY <1>1, <1>7, <1>8, <2>1, <2>3, <2>4, <2>5, SentToAll
<1> QED  BY <1>10, <1>11

-----------------------------------------------------------------------------
(* A receiver. *)

\* A step of receiver r.
LEMMA OneListener ==
    ASSUME IInv, IInv', LInv, NEW r \in Receivers, Further(r),
           \A p \in rx'[r].map : p[1] \in rx'[r].known,
           \A q \in Receivers \ {r} : toRx'[q] = toRx[q],
           faults' >= faults,
           \A k \in Slices : r \in participants /\ ~Ended(r)' /\ Deaf(r, k)' =>
                                 ~Ended(r) /\ Deaf(r, k),
           rx'[r].end \in {"dropped", "fatal"} =>
               \/ rx'[r].end = rx[r].end \/ r \notin participants
               \/ sn /\ \E s \in Slices : faults > Blocks[s] /\ Blocks[s] > 0
    PROVE  LInv'
<1>1. /\ UNCHANGED <<sn, participants, xmit, sliceNo>>
      /\ \A q \in Receivers \ {r} : rx'[q] = rx[q]
  BY DEF Further, sender
<1>2. MapInv'
  BY <1>1 DEF LInv, MapInv
<1>3. SentInv'
  BY <1>1 DEF LInv, SentInv, Used
<1>4. \A k \in Slices : SentOf(k)' = SentOf(k) /\ SentOf(k) \in Nat
  BY <1>1, Counting DEF SentOf, Requested, Slot, Used
<1>5. LossInv'
  <2> SUFFICES ASSUME NEW q \in participants, NEW k \in Slices, ~Ended(q)', Deaf(q, k)'
               PROVE  faults' >= SentOf(k)'
    BY <1>1 DEF LossInv
  <2>1. ~Ended(q) /\ Deaf(q, k)
    <3>1. CASE q = r
      BY <3>1
    <3>2. CASE q # r
      <4>1. q \in Receivers /\ rx'[q] = rx[q] /\ toRx'[q] = toRx[q]
        BY <3>2, <1>1 DEF IInv, TypeInv
      <4> QED  BY <4>1 DEF Ended, Deaf
    <3> QED  BY <3>1, <3>2
  <2>2. faults >= SentOf(k) /\ faults \in Nat /\ faults' \in Nat
    BY <2>1, Numbers DEF LInv, LossInv, IInv, TypeInv
  <2> QED  BY <2>2, <1>4
<1>6. GivesUpForAReason'
  BY <1>1, ReasonStays DEF LInv
<1> QED  BY <1>2, <1>3, <1>5, <1>6 DEF LInv

\* To take a datagram is no way to stay deaf to its slice, nor to become deaf to another.
LEMMA TakenDatagram ==
    ASSUME IInv, NEW r \in Receivers, NEW k \in Slices, toRx[r] # <<>>,
           toRx' = [toRx EXCEPT ![r] = Tail(@)],
           rx[r] \in Client, rx'[r] \in Client, rx'[r].received >= rx[r].received,
           \A n \in rx[r].known : n \in rx'[r].known,
           Datagram(r).no \in rx'[r].known \/ Datagram(r).no <= rx'[r].received,
           Deaf(r, k)'
    PROVE  Deaf(r, k)
<1> DEFINE q == toRx[r]
           t == toRx'[r]
<1>1. /\ q \in Seq(DownOf(r)) /\ Len(q) \in Nat /\ DOMAIN q = 1 .. Len(q) /\ k \in Nat
      /\ \A i \in DOMAIN q : q[i].no \in Nat
  BY Channel, Counting
<1>2. t = Tail(q)
  BY DEF IInv, TypeInv
<1>3. /\ DOMAIN t = 1 .. Len(q) - 1 /\ Len(q) # 0 /\ Head(q) = q[1]
      /\ \A i \in 1 .. Len(q) - 1 : t[i] = q[i + 1]
  <2>1. q # <<>> /\ q \in Seq(DownOf(r))
    BY <1>1
  <2> HIDE DEF q, t
  <2>2. /\ Tail(q) \in Seq(DownOf(r)) /\ Len(Tail(q)) = Len(q) - 1
        /\ \A i \in 1 .. Len(Tail(q)) : Tail(q)[i] = q[i + 1]
    BY <2>1, HeadTailProperties
  <2>3. Len(q) # 0 /\ Head(q) = q[1]
    BY <2>1, EmptySeq, HeadTailProperties
  <2>4. DOMAIN t = 1 .. Len(t)
    BY <1>2, <2>2, LenProperties
  <2> QED  BY <1>2, <2>2, <2>3, <2>4
<1>4. /\ rx'[r].received < k /\ k \notin rx'[r].known
      /\ \A i \in DOMAIN t : t[i].no = k => \E j \in DOMAIN t : j < i /\ t[j].no > k
  BY DEF Deaf
<1>5. q[1].no # k /\ q[1].no \in Nat
  <2>1. q[1].no = Datagram(r).no /\ q[1].no \in Nat
    BY <1>1, <1>3 DEF Datagram
  <2>2. rx'[r].received \in Int
    BY DEF Client
  <2> QED  BY <2>1, <2>2, <1>1, <1>4
<1> HIDE DEF q, t
<1>6. ASSUME NEW i \in 1 .. Len(q), q[i].no = k
      PROVE  \E j \in 1 .. Len(q) : j < i /\ q[j].no > k
  <2>1. i # 1
    BY <1>5, <1>6
  <2>2. i - 1 \in 1 .. Len(q) - 1 /\ (i - 1) + 1 = i
    BY <2>1, <1>1
  <2>3. t[i - 1] = q[i]
    BY <2>2, <1>3
  <2>4. PICK j \in 1 .. Len(q) - 1 : j < i - 1 /\ t[j].no > k
    BY <2>2, <2>3, <1>3, <1>4, <1>6
  <2>5. j + 1 \in 1 .. Len(q) /\ j + 1 < i /\ q[j + 1].no > k
    BY <2>2, <2>4, <1>1, <1>3
  <2> QED  BY <2>5
<1>7. rx[r].received < k /\ k \notin rx[r].known
  <2>1. rx[r].received \in Int /\ rx'[r].received \in Int
    BY DEF Client
  <2> QED  BY <2>1, <1>1, <1>4
<1> QED  BY <1>1, <1>6, <1>7 DEF Deaf, q

LEMMA StoredMap ==
    ASSUME NEW c \in Client, NEW s \in Nat, NEW b \in Nat
    PROVE  \A p \in Stored(c, s, b).map : p \in c.map \/ p[1] = s
<1> DEFINE k == c.known \cup {s}
           q == c.map \cup {<<s, b>>}
<1>1. Stored(c, s, b) = [c EXCEPT !.known = k, !.map = q]
  BY DEF Stored
<1>2. \A p \in q : p \in c.map \/ p[1] = s
  OBVIOUS
<1> HIDE DEF k, q
<1> QED  BY <1>1, <1>2 DEF Client

LEMMA ReceiveDataLoss ==
    ASSUME IInv, IInv', LInv, NEW r \in Receivers, ReceiveData(r) PROVE LInv'
<1> DEFINE m == Datagram(r)
           c == Begin(rx[r], m.no)
           d == Stored(c, m.no, m.block)
<1>1. /\ toRx[r] # <<>> /\ m.op = "data" /\ ~Ended(r)
      /\ toRx' = [toRx EXCEPT ![r] = Tail(@)]
      /\ rx' = [rx EXCEPT ![r] =
                   IF m.no <= c.received \/ <<m.no, m.block>> \in c.map THEN c
                   ELSE Advance(d)]
      /\ faults' = faults
  BY DEF ReceiveData, Receive, Has, Stored
<1>2. m.no \in Nat /\ m.block \in Nat /\ faults \in Nat
  BY <1>1, NextDatagram, Counting
<1>3. rx \in [Receivers -> Client] /\ rx[r] \in Client /\ rx'[r] \in Client
  BY DEF IInv, TypeInv
<1>4. /\ c \in Client /\ c.received = rx[r].received /\ c.known = rx[r].known
      /\ c.map = rx[r].map /\ c.end = rx[r].end
  BY <1>2, <1>3, BeginClient
<1> HIDE DEF c, m
<1>5. \A p \in c.map : p[1] \in c.known
  BY <1>4 DEF LInv, MapInv
<1>6. Further(r)
  BY ReceiveDataInv
<1>7. /\ \A p \in rx'[r].map : p[1] \in rx'[r].known
      /\ \A n \in rx[r].known : n \in rx'[r].known
      /\ m.no \in rx'[r].known \/ m.no <= rx'[r].received
      /\ rx'[r].end \in {rx[r].end, "linger"}
  <2>1. CASE m.no <= c.received \/ <<m.no, m.block>> \in c.map
    <3>1. rx'[r] = c
      BY <2>1, <1>1, <1>3
    <3>2. m.no <= c.received \/ m.no \in c.known
      BY <2>1, <1>5
    <3> QED  BY <3>1, <3>2, <1>4, <1>5
  <2>2. CASE ~(m.no <= c.received \/ <<m.no, m.block>> \in c.map)
    <3>1. rx'[r] = Advance(d)
      BY <2>2, <1>1, <1>3
    <3>2. c \in Client /\ m.no \in Nat /\ m.block \in Nat
      BY <1>2, <1>4
    <3>3. d \in Client /\ d.end = c.end
      BY <3>2, DataClient
    <3>4. \A n : n \in d.known <=> n \in c.known \/ n = m.no
      BY <3>2, DataClient, Zenon
    <3>5. \A p \in d.map : p \in c.map \/ p[1] = m.no
      BY <3>2, StoredMap
    <3> HIDE DEF d
    <3>6. \A p \in d.map : p[1] \in d.known
      BY <3>4, <3>5, <1>5
    <3>7. /\ Advance(d).known = d.known /\ Advance(d).map \subseteq d.map
          /\ Advance(d).end \in {d.end, "linger"}
      BY <3>3, AdvanceClient
    <3> QED  BY <3>1, <3>3, <3>4, <3>6, <3>7, <1>4
  <2> QED  BY <2>1, <2>2
<1>8. \A k \in Slices : Deaf(r, k)' => Deaf(r, k)
  BY <1>1, <1>3, <1>6, <1>7, TakenDatagram DEF Further, m
<1>9. \A q \in Receivers \ {r} : toRx'[q] = toRx[q]
  BY <1>1 DEF IInv, TypeInv
<1>10. faults' >= faults
  BY <1>1, <1>2
<1>11. rx'[r].end \in {"dropped", "fatal"} => rx'[r].end = rx[r].end
  BY <1>7
<1> QED  BY <1>1, <1>6, <1>7, <1>8, <1>9, <1>10, <1>11, OneListener

LEMMA RepliedLoss ==
    ASSUME IInv, NEW r \in Receivers, NEW m, Reply(r, m) PROVE faults' >= faults
<1>1. faults \in Nat
  BY Counting
<1> QED  BY <1>1 DEF Reply

LEMMA ReceiveReqackLoss ==
    ASSUME IInv, IInv', LInv, NEW r \in Receivers, ReceiveReqack(r) PROVE LInv'
<1> DEFINE m == Datagram(r)
           c == Begin(rx[r], m.no)
           d == Knowing(c, m.no)
<1>1. /\ toRx[r] # <<>> /\ m.op = "reqack" /\ ~Ended(r)
      /\ toRx' = [toRx EXCEPT ![r] = Tail(@)]
      /\ \/ r \in m.ready /\ rx' = [rx EXCEPT ![r] = c] /\ faults' = faults
         \/ m.no <= c.received /\ rx' = rx /\ \E u : Reply(r, u)
         \/ rx' = [rx EXCEPT ![r] = Advance(d)] /\ \E u : Reply(r, u)
  BY DEF ReceiveReqack, Receive, Has, Knowing
<1>2. /\ m.no \in Nat /\ faults \in Nat
      /\ r \in participants /\ r \in m.ready => m.no <= rx[r].received
  BY <1>1, NextDatagram, Counting
<1>3. rx \in [Receivers -> Client] /\ rx[r] \in Client /\ rx'[r] \in Client
  BY DEF IInv, TypeInv
<1>4. /\ c \in Client /\ c.received = rx[r].received /\ c.known = rx[r].known
      /\ c.map = rx[r].map /\ c.end = rx[r].end
  BY <1>2, <1>3, BeginClient
<1> HIDE DEF c, m
<1>5. \A p \in c.map : p[1] \in c.known
  BY <1>4 DEF LInv, MapInv
<1>6. Further(r)
  BY ReceiveReqackInv
<1>7. /\ \A p \in rx'[r].map : p[1] \in rx'[r].known
      /\ \A n \in rx[r].known : n \in rx'[r].known
      /\ r \in participants => m.no \in rx'[r].known \/ m.no <= rx'[r].received
      /\ rx'[r].end \in {rx[r].end, "linger"}
  <2>1. CASE r \in m.ready /\ rx' = [rx EXCEPT ![r] = c]
    <3>1. rx'[r] = c
      BY <2>1, <1>3
    <3> QED  BY <3>1, <2>1, <1>2, <1>4, <1>5
  <2>2. CASE m.no <= c.received /\ rx' = rx
    BY <2>2, <1>4, <1>5
  <2>3. CASE rx' = [rx EXCEPT ![r] = Advance(d)]
    <3>1. rx'[r] = Advance(d)
      BY <2>3, <1>3
    <3>2. d \in Client /\ d.end = c.end /\ d.map = c.map
      BY <1>2, <1>4, KnownClient
    <3>3. \A n : n \in d.known <=> n \in c.known \/ n = m.no
      BY <1>2, <1>4, KnownClient, Zenon
    <3> HIDE DEF d
    <3>4. /\ Advance(d).known = d.known /\ Advance(d).map \subseteq d.map
          /\ Advance(d).end \in {d.end, "linger"}
      BY <3>2, AdvanceClient
    <3> QED  BY <3>1, <3>2, <3>3, <3>4, <1>4, <1>5
  <2> QED  BY <1>1, <2>1, <2>2, <2>3
<1>8. \A k \in Slices : r \in participants /\ Deaf(r, k)' => Deaf(r, k)
  BY <1>1, <1>3, <1>6, <1>7, TakenDatagram DEF Further, m
<1>9. \A q \in Receivers \ {r} : toRx'[q] = toRx[q]
  BY <1>1 DEF IInv, TypeInv
<1>10. faults' >= faults
  BY <1>1, <1>2, RepliedLoss
<1>11. rx'[r].end \in {"dropped", "fatal"} => rx'[r].end = rx[r].end
  BY <1>7
<1> QED  BY <1>1, <1>6, <1>7, <1>8, <1>9, <1>10, <1>11, OneListener

\* A receiver that ends.
LEMMA EndLoss ==
    ASSUME IInv, IInv', LInv, NEW r \in Receivers, Further(r),
           NEW why \in {"dropped", "fatal", "done", "quit"}, End(r, why), faults' >= faults,
           why \in {"dropped", "fatal"} =>
               \/ r \notin participants
               \/ sn /\ \E s \in Slices : faults > Blocks[s] /\ Blocks[s] > 0
    PROVE  LInv'
<1>1. rx' = [rx EXCEPT ![r].end = why] /\ toRx' = [toRx EXCEPT ![r] = <<>>]
  BY DEF End
<1>2. rx \in [Receivers -> Client] /\ rx[r] \in Client
  BY DEF IInv, TypeInv
<1>3. rx'[r].end = why /\ rx'[r].map = rx[r].map /\ rx'[r].known = rx[r].known
  BY <1>1, <1>2 DEF Client
<1>4. Ended(r)'
  BY <1>3 DEF Ended
<1>5. \A p \in rx'[r].map : p[1] \in rx'[r].known
  BY <1>3 DEF LInv, MapInv
<1>6. \A q \in Receivers \ {r} : toRx'[q] = toRx[q]
  BY <1>1 DEF IInv, TypeInv
<1> QED  BY <1>3, <1>4, <1>5, <1>6, OneListener

\* What makes a participant give up: the datagram it has next is of the last slice, and
\* it has heard nothing of the slice before.
LEMMA GiveUpLoss ==
    ASSUME IInv, IInv', LInv, NEW r \in Receivers, GiveUp(r) PROVE LInv'
<1> DEFINE m == Datagram(r)
           c == rx[r]
<1>1. /\ toRx[r] # <<>> /\ ~Ended(r) /\ Reply(r, Disconnect)
      /\ \/ OutOfWindow(c, m.no) /\ End(r, "dropped")
         \/ Unexpected(c, m.no) /\ End(r, "fatal")
  BY DEF GiveUp, Has
<1>2. /\ m \in Down /\ m.no \in Nat /\ m.no \in Slices /\ m.no < sliceNo
      /\ m.op = "reqack" /\ r \in participants => m.no - 1 <= c.received
  BY <1>1, NextDatagram
<1>3. /\ c.current \in Nat /\ c.received \in Int /\ c.received <= c.current
      /\ c.received >= 0 => c.received \in c.known
      /\ \A s \in c.known : s <= c.current
  BY DEF IInv, TypeInv, ClientInv, Client
<1>4. faults' >= faults /\ Further(r)
  BY <1>1, RepliedLoss, GiveUpInv
<1>5. \/ r \notin participants
      \/ sn /\ \E s \in Slices : faults > Blocks[s] /\ Blocks[s] > 0
  <2> SUFFICES ASSUME r \in participants
               PROVE  sn /\ \E s \in Slices : faults > Blocks[s] /\ Blocks[s] > 0
    OBVIOUS
  <2> DEFINE k == m.no - 1
  <2>1. /\ Acked \in Int /\ Requested \in Int /\ sliceNo \in Int
        /\ sliceNo <= Requested + 1 /\ Requested <= Acked + 1
        /\ ~sn => sliceNo <= Acked + 1
    BY Counts DEF IInv, SlotInv
  <2>2. c.received >= Acked - 1
    BY DEF IInv, HaveInv
  <2>3. /\ m.no > c.current
        /\ \/ m.no > c.received + 2 \/ m.no # c.current + 1
           \/ m.no = c.current + 1 /\ c.current \notin c.known
    BY <1>1, <1>2, <1>3 DEF OutOfWindow, Unexpected
  <2>4. m.no <= c.received + 2
    BY <1>2, <1>3, <2>1, <2>2
  <2>5. m.no = c.received + 2
    BY <1>2, <1>3, <2>3, <2>4
  <2>6. /\ sn /\ k = c.received + 1 /\ k < Requested /\ k >= 0 /\ m.no > k
    BY <1>2, <1>3, <2>1, <2>2, <2>3, <2>5
  <2>7. k \notin c.known
    <3>1. CASE c.current = c.received
      BY <3>1, <1>3, <2>6
    <3>2. CASE c.current # c.received
      BY <3>2, <1>2, <1>3, <2>3, <2>5, <2>6
    <3> QED  BY <3>1, <3>2
  <2>8. k \in Slices /\ k < Last /\ Blocks[k] > 0 /\ Blocks[k] \in Nat
    <3>1. k \in Slices /\ k < Last
      BY <1>2, <2>6, Numbers
    <3> QED  BY <3>1, UdpcastAssumption, Numbers
  <2>9. Deaf(r, k)
    <3>1. /\ DOMAIN toRx[r] = 1 .. Len(toRx[r]) /\ Len(toRx[r]) \in Nat
          /\ toRx[r] \in Seq(DownOf(r))
      BY Channel
    <3>2. m = toRx[r][1] /\ 1 \in DOMAIN toRx[r]
      BY <3>1, <1>1, HeadTailProperties, EmptySeq, LenProperties DEF Datagram
    <3>3. \A i \in DOMAIN toRx[r] : toRx[r][i].no = k => 1 < i /\ toRx[r][1].no > k
      BY <1>2, <2>6, <3>1, <3>2
    <3> HIDE DEF k, m
    <3> QED  BY <1>3, <2>6, <2>7, <3>2, <3>3 DEF Deaf
  <2>10. faults >= SentOf(k)
    BY <1>1, <2>8, <2>9 DEF LInv, LossInv
  <2>11. SentOf(k) = Blocks[k] + 1
    BY <2>6 DEF SentOf
  <2>12. faults > Blocks[k] /\ Blocks[k] > 0
    BY <2>8, <2>10, <2>11, Counting
  <2> QED  BY <2>6, <2>8, <2>12
<1> QED  BY <1>1, <1>4, <1>5, EndLoss

LEMMA ExitWaitLoss ==
    ASSUME IInv, IInv', LInv, NEW r \in Receivers, ExitWait(r) PROVE LInv'
<1>1. End(r, "done") /\ faults' >= faults /\ Further(r)
  BY RepliedLoss, ExitWaitInv DEF ExitWait
<1> QED  BY <1>1, EndLoss

LEMMA QuitLoss == ASSUME IInv, IInv', LInv, NEW r \in Receivers, Quit(r) PROVE LInv'
<1>1. End(r, "quit") /\ faults' >= faults /\ Further(r)
  BY QuitInv, Counting DEF Quit
<1> QED  BY <1>1, EndLoss

-----------------------------------------------------------------------------
LEMMA InitLoss == Init => LInv
<1> SUFFICES ASSUME Init PROVE LInv
  OBVIOUS
<1>1. /\ IInv /\ ~Used(xmit) /\ Requested = 0 /\ xmit.no = -1 /\ faults = 0
      /\ \A r \in Receivers : rx[r].map = {} /\ rx[r].end = "no"
  BY InitInv, EmptySlice DEF Init, Used, Requested, Slot
<1>2. \A k \in Slices : SentOf(k) = 0
  <2>1. \A k \in Slices : k \in Nat /\ ~(k < 0) /\ k # -1
    BY Numbers
  <2> QED  BY <2>1, <1>1 DEF SentOf
<1> QED  BY <1>1, <1>2 DEF LInv, MapInv, SentInv, LossInv, GivesUpForAReason, IInv, TypeInv

LEMMA StepLoss == IInv /\ IInv' /\ LInv /\ [Next]_vars => LInv'
<1> SUFFICES ASSUME IInv, IInv', LInv, [Next]_vars PROVE LInv'
  OBVIOUS
<1>1. CASE SenderStep
  BY <1>1, SilentSteps, ShiftLoss, AgainLoss, ResendLoss, BlockLoss DEF SenderStep
<1>2. CASE \E r \in Receivers : ReceiverStep(r) \/ Quit(r)
  BY <1>2, ReceiveDataLoss, ReceiveReqackLoss, GiveUpLoss, ExitWaitLoss, QuitLoss
  DEF ReceiverStep
<1>3. CASE UNCHANGED vars
  <2>1. UNCHANGED <<sn, rx, toRx, participants, xmit, sliceNo, faults>>
    BY <1>3 DEF vars, sender
  <2>2. Requested' = Requested /\ faults' >= faults
    BY <2>1, Counting DEF Requested, Slot, Used
  <2> QED  BY <2>1, <2>2, NothingSent
<1> QED  BY <1>1, <1>2, <1>3 DEF Next

\* A receiver gives up (receivedata.c:366) only if it has been dropped, or if in full
\* duplex mode a whole slice and the request for it have been lost on the way to it.
THEOREM GivesUpWithReason == Spec => []GivesUpForAReason
<1>1. Init => LInv
  BY InitLoss
<1>2. IInv /\ IInv' /\ LInv /\ [Next]_vars => LInv'
  BY StepLoss
<1>3. LInv => GivesUpForAReason
  BY DEF LInv
<1> QED  BY <1>1, <1>2, <1>3, Invariance, PTL DEF Spec
=============================================================================
