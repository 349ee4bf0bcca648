--------------------------- MODULE UdpcastProofs ----------------------------
(***************************************************************************)
(* That the protocol of udpcast is a reliable multicast, for any number of *)
(* receivers, slices, blocks, rounds and faults.                           *)
(***************************************************************************)
EXTENDS Udpcast, FiniteSetTheorems, SequenceTheorems, TLAPS

Slice ==
    [no : Slices \cup {-1}, new : BOOLEAN, nextBlock : Nat,
     rxmitId : 0 .. RetriesUntilDrop + 1, ready : SUBSET Receivers,
     answered : SUBSET Receivers, needRxmit : BOOLEAN, rxmitMap : SUBSET Nat,
     isXmitted : SUBSET Nat]
Client ==
    [current : Nat, received : Int, known : SUBSET Int, map : SUBSET (Int \X Int),
     end : {"no", "linger", "dropped", "fatal", "done", "quit"}]
Down ==
    [op : {"data"}, no : Slices, block : Nat]
      \cup [op : {"reqack"}, no : Slices, rxmit : Nat, ready : SUBSET Receivers]
Up ==
    [op : {"ok"}, no : Slices]
      \cup [op : {"retransmit"}, no : Slices, rxmit : Nat, missing : SUBSET Nat]
      \cup [op : {"disconnect"}]

TypeInv ==
    /\ sn \in BOOLEAN /\ participants \subseteq Receivers
    /\ xmit \in Slice /\ rexmit \in Slice
    /\ sliceNo \in 0 .. Last + 1 /\ stage \in {"loop", "resend", "send", "over"}
    /\ rx \in [Receivers -> Client]
    /\ DOMAIN toRx = Receivers /\ DOMAIN toTx = Receivers
    /\ faults \in 0..MaxFaults

\* The slices that have left xmit, and those that have left rexmit too.
Requested == sliceNo - Slot(xmit)
Acked == Requested - Slot(rexmit)

\* The two slices under way are the last two made, and nobody has answered for the
\* one that has not been asked about.
SlotInv ==
    /\ Used(xmit) => xmit.no = sliceNo - 1
    /\ Used(rexmit) => rexmit.no = Requested - 1
    /\ ~sn => ~Used(xmit) \/ ~Used(rexmit)
    /\ xmit.ready = {} /\ xmit.isXmitted \subseteq xmit.rxmitMap
    /\ rexmit.ready \subseteq participants /\ rexmit.ready \subseteq rexmit.answered
    /\ rexmit.isXmitted \subseteq rexmit.rxmitMap
    /\ rexmit.needRxmit \/ stage = "resend" => Used(rexmit)
    /\ participants = {} => stage = "over"

\* What a receiver has passed on it has begun and knows the size of.
ClientInv ==
    \A r \in Receivers :
        /\ -1 <= rx[r].received /\ rx[r].received < sliceNo
        /\ rx[r].received <= rx[r].current
        /\ \A s \in rx[r].known : s < sliceNo /\ s <= rx[r].current
        /\ rx[r].received >= 0 => rx[r].received \in rx[r].known

\* A participant has what has been acknowledged, and what it has confirmed.
HaveInv ==
    \A r \in participants :
        /\ rx[r].received >= Acked - 1
        /\ r \in rexmit.ready => rx[r].received >= rexmit.no

\* What may be under way to r and from r: a participant is asked for a slice when it
\* has those before, and confirms what it has.
DownOf(r) ==
    {m \in Down :
        /\ m.no < sliceNo
        /\ m.op = "reqack" =>
              /\ m.no < Requested
              /\ r \in participants => m.no - 1 <= rx[r].received
              /\ r \in participants /\ r \in m.ready => m.no <= rx[r].received}
UpOf(r) ==
    {m \in Up :
        /\ m.op \in {"ok", "retransmit"} => m.no < Requested
        /\ m.op = "ok" /\ r \in participants => m.no <= rx[r].received}

ChanInv == \A r \in Receivers : toRx[r] \in Seq(DownOf(r)) /\ toTx[r] \in Seq(UpOf(r))

\* In half duplex mode nobody gives up but who has been dropped.
HalfDuplexKeeps ==
    ~sn => \A r \in Receivers :
               rx[r].end \in {"dropped", "fatal"} => r \notin participants

IInv == TypeInv /\ SlotInv /\ ClientInv /\ HaveInv /\ ChanInv /\ HalfDuplexKeeps

-----------------------------------------------------------------------------
(* Slices and datagrams. *)

LEMMA Numbers ==
    /\ Last \in Nat /\ Slices = 0 .. Last /\ -1 \notin Slices
    /\ IsFiniteSet(Receivers) /\ Receivers # {}
    /\ RetriesUntilDrop \in Nat /\ MaxFaults \in Nat
<1>1. Cardinality(Slices) \in Nat /\ Cardinality(Slices) # 0
  BY UdpcastAssumption, FS_CardinalityType, FS_EmptySet
<1>2. Slices = 0 .. Last
  BY UdpcastAssumption
<1>3. Last \in Nat
  BY <1>1 DEF Last
<1> QED
  BY <1>2, <1>3, UdpcastAssumption

\* What each operator does to a slice.
LEMMA AskedSlice ==
    ASSUME NEW s \in Slice
    PROVE  /\ Asked(s) \in Slice /\ Asked(s).no = s.no /\ Asked(s).ready = s.ready
           /\ Asked(s).answered = s.ready /\ Asked(s).needRxmit = FALSE
           /\ Asked(s).rxmitMap = {} /\ Asked(s).isXmitted = {}
           /\ Asked(s).rxmitId = s.rxmitId
BY DEF Asked, Slice

LEMMA NextRoundSlice ==
    ASSUME NEW s \in Slice
    PROVE  /\ NextRound(s) \in Slice /\ NextRound(s).no = s.no
           /\ NextRound(s).ready = s.ready
<1> DEFINE n == IF s.rxmitId > RetriesUntilDrop THEN s.rxmitId ELSE s.rxmitId + 1
<1>1. s.rxmitId \in 0 .. RetriesUntilDrop + 1
  BY DEF Slice
<1>2. n \in 0 .. RetriesUntilDrop + 1
  BY <1>1, Numbers
<1>3. NextRound(s) = [s EXCEPT !.rxmitId = n]
  BY DEF NextRound
<1> HIDE DEF n
<1> QED  BY <1>2, <1>3 DEF Slice

LEMMA EmptySlice ==
    /\ Empty \in Slice /\ Empty.no = -1 /\ Empty.ready = {} /\ Empty.needRxmit = FALSE
    /\ Empty.isXmitted = {} /\ Empty.new = FALSE
<1> DEFINE s == NewSlice(-1)
<1>1. /\ s \in Slice /\ s.no = -1 /\ s.ready = {} /\ s.needRxmit = FALSE
      /\ s.isXmitted = {}
  BY Numbers DEF NewSlice, Slice
<1> HIDE DEF s
<1>2. LET e == [s EXCEPT !.new = FALSE]
      IN  /\ e \in Slice /\ e.no = s.no /\ e.ready = s.ready /\ e.needRxmit = s.needRxmit
          /\ e.isXmitted = s.isXmitted /\ e.new = FALSE
  BY <1>1 DEF Slice
<1> QED  BY <1>1, <1>2 DEF Empty, s

LEMMA NewSliceSlice ==
    ASSUME NEW n \in Slices
    PROVE  /\ NewSlice(n) \in Slice /\ NewSlice(n).no = n /\ NewSlice(n).ready = {}
           /\ NewSlice(n).isXmitted = {}
BY Numbers DEF NewSlice, Slice

LEMMA ConfirmedSlice ==
    ASSUME NEW s \in Slice, NEW r \in Receivers
    PROVE  /\ Confirmed(s, r) \in Slice /\ Confirmed(s, r).no = s.no
           /\ Confirmed(s, r).ready = s.ready \cup {r}
           /\ Confirmed(s, r).answered = s.answered \cup {r}
           /\ Confirmed(s, r).rxmitMap = s.rxmitMap
           /\ Confirmed(s, r).isXmitted = s.isXmitted
           /\ Confirmed(s, r).needRxmit = s.needRxmit
BY DEF Confirmed, Slice

LEMMA WishedSlice ==
    ASSUME NEW s \in Slice, NEW r \in Receivers, NEW m, m.missing \in SUBSET Nat
    PROVE  /\ Wished(s, r, m) \in Slice /\ Wished(s, r, m).no = s.no
           /\ Wished(s, r, m).ready = s.ready
           /\ s.answered \subseteq Wished(s, r, m).answered
           /\ s.rxmitMap \subseteq Wished(s, r, m).rxmitMap
           /\ Wished(s, r, m).isXmitted = s.isXmitted
<1>1. CASE Late(m.rxmit, s)
  BY <1>1 DEF Wished
<1>2. CASE ~Late(m.rxmit, s)
  BY <1>2 DEF Wished, Slice
<1> QED  BY <1>1, <1>2

LEMMA WithoutSlice ==
    ASSUME NEW s \in Slice, NEW r \in Receivers
    PROVE  /\ Without(s, r) \in Slice /\ Without(s, r).no = s.no
           /\ Without(s, r).ready = s.ready \ {r}
           /\ Without(s, r).answered = s.answered \ {r}
           /\ Without(s, r).rxmitMap = s.rxmitMap
           /\ Without(s, r).isXmitted = s.isXmitted
           /\ Without(s, r).needRxmit = s.needRxmit
BY DEF Without, Slice

LEMMA Counts ==
    ASSUME TypeInv, SlotInv
    PROVE  /\ sliceNo \in Int /\ Requested \in Int /\ Acked \in Int
           /\ Used(xmit) => xmit.no = Requested /\ sliceNo = Requested + 1
           /\ ~Used(xmit) => xmit.no = -1 /\ sliceNo = Requested
           /\ Used(rexmit) => rexmit.no = Acked /\ Requested = Acked + 1
           /\ ~Used(rexmit) => rexmit.no = -1 /\ Requested = Acked
           /\ xmit.no \in Slices \cup {-1} /\ rexmit.no \in Slices \cup {-1}
BY Numbers DEF TypeInv, SlotInv, Slice, Used, Slot, Requested, Acked

-----------------------------------------------------------------------------
(* Channels. *)

\* What may be under way stays so when slices are added, participants leave and
\* receivers get further.
LEMMA Grow ==
    ASSUME TypeInv, SlotInv, participants' \subseteq participants,
           sliceNo' \in Int, sliceNo' >= sliceNo, Requested' \in Int, Requested' >= Requested,
           rx' \in [Receivers -> Client],
           \A r \in Receivers : rx'[r].received >= rx[r].received
    PROVE  \A r \in Receivers : DownOf(r) \subseteq DownOf(r)' /\ UpOf(r) \subseteq UpOf(r)'
<1> SUFFICES ASSUME NEW r \in Receivers
             PROVE  DownOf(r) \subseteq DownOf(r)' /\ UpOf(r) \subseteq UpOf(r)'
  OBVIOUS
<1>1. /\ sliceNo \in Int /\ Requested \in Int
      /\ rx[r].received \in Int /\ rx'[r].received \in Int
  BY Counts DEF TypeInv, Client
<1>2. ASSUME NEW m \in DownOf(r) PROVE m \in DownOf(r)'
  <2>1. m \in Down /\ m.no \in Int
    BY Numbers DEF DownOf, Down
  <2> QED  BY <1>1, <2>1 DEF DownOf
<1>3. ASSUME NEW m \in UpOf(r) PROVE m \in UpOf(r)'
  <2>1. m \in Up /\ (m.op \in {"ok", "retransmit"} => m.no \in Int)
    BY Numbers DEF UpOf, Up
  <2> QED  BY <1>1, <2>1 DEF UpOf
<1> QED  BY <1>2, <1>3

\* A datagram to all.
LEMMA Sent ==
    ASSUME TypeInv, ChanInv, NEW m, NEW early \in 0 .. 1, Broadcast(m, early),
           \A r \in Receivers : DownOf(r) \subseteq DownOf(r)',
           \A r \in Receivers : m \in DownOf(r)'
    PROVE  /\ faults' \in 0..MaxFaults /\ DOMAIN toRx' = Receivers
           /\ \A r \in Receivers : toRx'[r] \in Seq(DownOf(r)')
<1>1. PICK missed \in SUBSET Listening :
          /\ faults' = faults + early + Cardinality(missed) /\ faults' <= MaxFaults
          /\ toRx' = [r \in Receivers |-> IF r \in Listening \ missed
                                          THEN Append(toRx[r], m) ELSE toRx[r]]
  BY DEF Broadcast
<1>2. Cardinality(missed) \in Nat
  <2>1. missed \subseteq Receivers
    BY DEF Listening
  <2> QED  BY <2>1, Numbers, FS_Subset, FS_CardinalityType
<1>3. faults' \in 0..MaxFaults
  BY <1>1, <1>2, Numbers DEF TypeInv
<1>4. ASSUME NEW r \in Receivers PROVE toRx'[r] \in Seq(DownOf(r)')
  <2>1. toRx[r] \in Seq(DownOf(r)')
    BY SeqMonotonic DEF ChanInv
  <2>2. Append(toRx[r], m) \in Seq(DownOf(r)')
    BY <2>1, AppendProperties
  <2> QED  BY <1>1, <2>1, <2>2
<1> QED  BY <1>1, <1>3, <1>4

\* Nothing is sent, or only taken.
LEMMA Kept ==
    ASSUME TypeInv, ChanInv, NEW r \in Receivers,
           DownOf(r) \subseteq DownOf(r)', UpOf(r) \subseteq UpOf(r)'
    PROVE  /\ toRx[r] \in Seq(DownOf(r)') /\ toTx[r] \in Seq(UpOf(r)')
           /\ toRx[r] # <<>> => Tail(toRx[r]) \in Seq(DownOf(r)') /\ Head(toRx[r]) \in DownOf(r)
           /\ toTx[r] # <<>> => Tail(toTx[r]) \in Seq(UpOf(r)') /\ Head(toTx[r]) \in UpOf(r)
<1>1. toRx[r] \in Seq(DownOf(r)) /\ toTx[r] \in Seq(UpOf(r))
  BY DEF ChanInv
<1>2. toRx[r] \in Seq(DownOf(r)') /\ toTx[r] \in Seq(UpOf(r)')
  BY <1>1, SeqMonotonic
<1>3. toRx[r] # <<>> => Tail(toRx[r]) \in Seq(DownOf(r)') /\ Head(toRx[r]) \in DownOf(r)
  BY <1>1, <1>2, HeadTailProperties
<1>4. toTx[r] # <<>> => Tail(toTx[r]) \in Seq(UpOf(r)') /\ Head(toTx[r]) \in UpOf(r)
  BY <1>1, <1>2, HeadTailProperties
<1> QED  BY <1>2, <1>3, <1>4

-----------------------------------------------------------------------------
(* The sender. *)

\* A step of the sender leaves the receivers alone.
LEMMA SenderFrame ==
    ASSUME IInv, sn' = sn, rx' = rx, participants' \subseteq participants,
           sliceNo' \in Int, sliceNo' >= sliceNo
    PROVE  ClientInv' /\ HalfDuplexKeeps'
<1>1. ClientInv'
  <2> SUFFICES ASSUME NEW r \in Receivers
               PROVE  /\ -1 <= rx[r].received /\ rx[r].received < sliceNo'
                      /\ rx[r].received <= rx[r].current
                      /\ \A s \in rx[r].known : s < sliceNo' /\ s <= rx[r].current
                      /\ rx[r].received >= 0 => rx[r].received \in rx[r].known
    BY DEF ClientInv
  <2>1. rx[r].received \in Int /\ rx[r].known \subseteq Int /\ sliceNo \in Int
    BY Numbers DEF IInv, TypeInv, Client
  <2> QED  BY <2>1 DEF IInv, ClientInv
<1>2. HalfDuplexKeeps'
  BY DEF IInv, HalfDuplexKeeps
<1> QED  BY <1>1, <1>2

\* What a datagram to all is, and what the sender may send.
LEMMA ReqackDown ==
    ASSUME NEW s \in Slice, s.no \in Slices
    PROVE  /\ Reqack(s) \in Down /\ Reqack(s).op = "reqack" /\ Reqack(s).no = s.no
           /\ Reqack(s).ready = s.ready
<1>1. s.rxmitId \in Nat /\ s.ready \in SUBSET Receivers
  BY Numbers DEF Slice
<1> QED  BY <1>1 DEF Reqack, Down

LEMMA DataDown ==
    ASSUME NEW n \in Slices, NEW b \in Nat
    PROVE  Data(n, b) \in Down /\ Data(n, b).op = "data" /\ Data(n, b).no = n
BY DEF Data, Down

LEMMA AckSliceInv == IInv /\ AckSlice => IInv'
<1> SUFFICES ASSUME IInv, AckSlice PROVE IInv'
  OBVIOUS
<1>1. /\ TypeInv /\ SlotInv /\ HaveInv /\ ChanInv
      /\ Used(rexmit) /\ rexmit' = Empty /\ stage = "loop"
      /\ UNCHANGED <<sn, participants, xmit, sliceNo, stage, rx, toRx, toTx, faults>>
      /\ Cardinality(rexmit.ready) = Cardinality(participants)
  BY DEF IInv, AckSlice, Ready
<1>2. ~Used(rexmit') /\ Requested' = Requested /\ Acked' = Acked + 1 /\ rexmit.no = Acked
  BY <1>1, EmptySlice, Counts DEF Requested, Acked, Slot, Used
<1>3. rexmit.ready = participants
  <2>1. rexmit.ready \in SUBSET participants /\ IsFiniteSet(participants)
    BY <1>1, Numbers, FS_Subset DEF SlotInv, TypeInv
  <2> QED  BY <2>1, <1>1, FS_Subset
<1>4. TypeInv'
  BY <1>1, EmptySlice DEF TypeInv
<1>5. SlotInv'
  BY <1>1, <1>2, EmptySlice DEF SlotInv, Requested, Slot, Used
<1>6. HaveInv'
  <2>1. Acked \in Int
    BY <1>1, Counts
  <2>2. \A r \in participants : rx[r].received \in Int
    BY <1>1 DEF TypeInv, Client
  <2> QED  BY <1>1, <1>2, <1>3, <2>1, <2>2, EmptySlice DEF HaveInv
<1>7. ChanInv'
  <2>1. Requested \in Int /\ sliceNo \in Int
    BY <1>1, Counts
  <2>2. \A r \in Receivers : DownOf(r)' = DownOf(r) /\ UpOf(r)' = UpOf(r)
    BY <1>1, <1>2 DEF DownOf, UpOf
  <2> QED  BY <1>1, <2>2 DEF ChanInv
<1>8. ClientInv' /\ HalfDuplexKeeps'
  BY <1>1, SenderFrame, Counts
<1> QED  BY <1>4, <1>5, <1>6, <1>7, <1>8 DEF IInv

LEMMA ShiftInv == IInv /\ Shift => IInv'
<1> SUFFICES ASSUME IInv, Shift PROVE IInv'
  OBVIOUS
<1>1. /\ TypeInv /\ SlotInv /\ HaveInv /\ ChanInv
      /\ ~Used(rexmit) /\ Used(xmit) /\ stage = "loop"
      /\ rexmit' = Asked(xmit) /\ xmit' = Empty /\ Broadcast(Reqack(xmit), 0)
      /\ UNCHANGED <<sn, participants, sliceNo, stage, rx, toTx>>
  BY DEF IInv, Shift, Shiftable
<1>2. xmit \in Slice /\ xmit.no \in Slices /\ xmit.no = Acked /\ sliceNo = Acked + 1
      /\ Acked \in Int
  BY <1>1, Counts DEF TypeInv, Used
<1>3. Asked(xmit) \in Slice /\ rexmit'.no = xmit.no /\ rexmit'.ready = {}
      /\ rexmit'.isXmitted = {} /\ rexmit'.needRxmit = FALSE
  BY <1>1, <1>2, AskedSlice DEF SlotInv
<1>4. ~Used(xmit') /\ Used(rexmit') /\ Requested' = sliceNo /\ Acked' = Acked
      /\ Requested = Acked
  BY <1>1, <1>2, <1>3, EmptySlice, Counts DEF Requested, Acked, Slot, Used
<1>5. \A r \in Receivers : DownOf(r) \subseteq DownOf(r)' /\ UpOf(r) \subseteq UpOf(r)'
  <2>1. /\ Requested' \in Int /\ Requested' >= Requested /\ sliceNo' \in Int
        /\ sliceNo' >= sliceNo /\ rx' \in [Receivers -> Client]
        /\ \A r \in Receivers : rx'[r].received >= rx[r].received
    BY <1>1, <1>2, <1>4 DEF TypeInv, Client
  <2> QED  BY <1>1, <2>1, Grow
<1>6. \A r \in Receivers : Reqack(xmit) \in DownOf(r)'
  <2>1. Reqack(xmit) \in Down /\ Reqack(xmit).no = Acked /\ Reqack(xmit).ready = {}
    BY <1>1, <1>2, ReqackDown DEF SlotInv
  <2>2. \A r \in participants : Acked - 1 <= rx[r].received
    BY <1>1, <1>2 DEF HaveInv, TypeInv, Client
  <2> QED  BY <1>1, <1>2, <1>4, <2>1, <2>2 DEF DownOf
<1>7. /\ faults' \in 0..MaxFaults /\ DOMAIN toRx' = Receivers
      /\ \A r \in Receivers : toRx'[r] \in Seq(DownOf(r)')
  BY <1>1, <1>5, <1>6, Sent
<1>8. TypeInv'
  BY <1>1, <1>3, <1>7, EmptySlice DEF TypeInv
<1>9. SlotInv'
  BY <1>1, <1>2, <1>3, <1>4, EmptySlice DEF SlotInv
<1>10. HaveInv'
  BY <1>1, <1>3, <1>4 DEF HaveInv
<1>11. ChanInv'
  BY <1>1, <1>5, <1>7, Kept DEF ChanInv
<1>12. ClientInv' /\ HalfDuplexKeeps'
  BY <1>1, <1>2, SenderFrame
<1> QED  BY <1>8, <1>9, <1>10, <1>11, <1>12 DEF IInv

\* Taking a message leaves the channels in order; what it says can be relied upon.
LEMMA Taken ==
    ASSUME IInv, NEW r \in Receivers, NEW op, Message(r, op),
           participants' \subseteq participants, Requested' = Requested
    PROVE  /\ ChanInv' /\ DOMAIN toRx' = Receivers /\ DOMAIN toTx' = Receivers
           /\ faults' \in 0..MaxFaults
           /\ sn' = sn /\ sliceNo' = sliceNo /\ rx' = rx /\ stage = "loop"
           /\ Head(toTx[r]) \in UpOf(r) /\ Head(toTx[r]).op = op
<1>1. /\ TypeInv /\ SlotInv /\ ChanInv
      /\ stage = "loop" /\ toTx[r] # <<>> /\ Head(toTx[r]).op = op
      /\ toTx' = [toTx EXCEPT ![r] = Tail(@)]
      /\ UNCHANGED <<sn, sliceNo, rx, toRx, faults>>
  BY DEF IInv, Message, Settled
<1>2. \A q \in Receivers : DownOf(q) \subseteq DownOf(q)' /\ UpOf(q) \subseteq UpOf(q)'
  <2>1. Requested \in Int /\ sliceNo \in Int
    BY <1>1, Counts
  <2>2. rx' \in [Receivers -> Client] /\ \A q \in Receivers : rx'[q].received >= rx[q].received
    BY <1>1 DEF TypeInv, Client
  <2> QED  BY <1>1, <2>1, <2>2, Grow
<1>3. ChanInv'
  <2> SUFFICES ASSUME NEW q \in Receivers
               PROVE  toRx'[q] \in Seq(DownOf(q)') /\ toTx'[q] \in Seq(UpOf(q)')
    BY DEF ChanInv
  <2>1. CASE q = r
    BY <2>1, <1>1, <1>2, Kept DEF TypeInv
  <2>2. CASE q # r
    BY <2>2, <1>1, <1>2, Kept DEF TypeInv
  <2> QED  BY <2>1, <2>2
<1>4. Head(toTx[r]) \in UpOf(r)
  BY <1>1, <1>2, Kept
<1>5. DOMAIN toRx' = Receivers /\ DOMAIN toTx' = Receivers /\ faults' \in 0..MaxFaults
  BY <1>1 DEF TypeInv
<1> QED  BY <1>1, <1>3, <1>4, <1>5

\* An answer is about a slice that was asked about: never about xmit.
LEMMA AboutRexmit ==
    ASSUME TypeInv, SlotInv, NEW s \in Slices, s < Requested, NEW x, NEW y, OnSlice(s, x, y)
    PROVE  xmit' = xmit /\ rexmit' = IF rexmit.no = s THEN y ELSE rexmit
<1>1. xmit.no # s
  <2>1. s \in Int /\ s # -1
    BY Numbers
  <2> QED  BY <2>1, Counts
<1> QED  BY <1>1 DEF OnSlice

LEMMA HandleOkInv == ASSUME NEW r \in Receivers PROVE IInv /\ HandleOk(r) => IInv'
<1> SUFFICES ASSUME IInv, HandleOk(r) PROVE IInv'
  OBVIOUS
<1> DEFINE m == Head(toTx[r])
<1>1. /\ TypeInv /\ SlotInv /\ HaveInv
      /\ Message(r, "ok") /\ r \in participants /\ participants' = participants
      /\ stage' = stage /\ sliceNo' = sliceNo
      /\ OnSlice(m.no, Confirmed(xmit, r), Confirmed(rexmit, r))
  BY DEF IInv, HandleOk, Message
<1>2. /\ xmit \in Slice /\ rexmit \in Slice
      /\ Confirmed(xmit, r) \in Slice /\ Confirmed(xmit, r).no = xmit.no
      /\ Confirmed(rexmit, r) \in Slice /\ Confirmed(rexmit, r).no = rexmit.no
  BY <1>1, ConfirmedSlice DEF TypeInv
<1>3. xmit'.no = xmit.no /\ rexmit'.no = rexmit.no
  BY <1>1, <1>2 DEF OnSlice
<1>4. Requested' = Requested /\ Acked' = Acked
  BY <1>1, <1>3 DEF Requested, Acked, Slot, Used
<1>5. /\ ChanInv' /\ DOMAIN toRx' = Receivers /\ DOMAIN toTx' = Receivers
      /\ faults' \in 0..MaxFaults /\ sn' = sn /\ rx' = rx
      /\ m \in UpOf(r) /\ m.op = "ok"
  BY <1>1, <1>4, Taken
<1>6. m.no \in Slices /\ m.no < Requested /\ m.no <= rx[r].received
  BY <1>1, <1>5 DEF UpOf, Up
<1>7. xmit' = xmit /\ rexmit' = IF rexmit.no = m.no THEN Confirmed(rexmit, r) ELSE rexmit
  BY <1>1, <1>6, AboutRexmit
<1>8. rexmit' = rexmit \/ (rexmit.no = m.no /\ rexmit'.ready = rexmit.ready \cup {r}
         /\ rexmit'.answered = rexmit.answered \cup {r} /\ rexmit'.rxmitMap = rexmit.rxmitMap
         /\ rexmit'.isXmitted = rexmit.isXmitted /\ rexmit'.needRxmit = rexmit.needRxmit)
  BY <1>1, <1>2, <1>7, ConfirmedSlice
<1>9. TypeInv'
  BY <1>1, <1>2, <1>5, <1>7 DEF TypeInv
<1>10. SlotInv'
  BY <1>1, <1>3, <1>4, <1>5, <1>7, <1>8 DEF SlotInv, Used
<1>11. HaveInv'
  BY <1>1, <1>3, <1>4, <1>5, <1>6, <1>8 DEF HaveInv
<1>12. ClientInv' /\ HalfDuplexKeeps'
  BY <1>1, <1>5, SenderFrame, Counts
<1> QED  BY <1>5, <1>9, <1>10, <1>11, <1>12 DEF IInv

LEMMA HandleRetransmitInv ==
    ASSUME NEW r \in Receivers PROVE IInv /\ HandleRetransmit(r) => IInv'
<1> SUFFICES ASSUME IInv, HandleRetransmit(r) PROVE IInv'
  OBVIOUS
<1> DEFINE m == Head(toTx[r])
<1>1. /\ TypeInv /\ SlotInv /\ HaveInv
      /\ Message(r, "retransmit") /\ r \in participants /\ participants' = participants
      /\ stage' = stage /\ sliceNo' = sliceNo
      /\ OnSlice(m.no, Wished(xmit, r, m), Wished(rexmit, r, m))
  BY DEF IInv, HandleRetransmit, Message
<1>2. m \in UpOf(r) /\ m.op = "retransmit"
  BY <1>1, Kept, HeadTailProperties DEF Message, IInv, ChanInv
<1>3. m.no \in Slices /\ m.no < Requested /\ m.missing \in SUBSET Nat
  BY <1>2 DEF UpOf, Up
<1>4. xmit' = xmit /\ rexmit' = IF rexmit.no = m.no THEN Wished(rexmit, r, m) ELSE rexmit
  BY <1>1, <1>3, AboutRexmit
<1>5. /\ rexmit' \in Slice /\ rexmit'.no = rexmit.no /\ rexmit'.ready = rexmit.ready
      /\ rexmit.answered \subseteq rexmit'.answered
      /\ rexmit.rxmitMap \subseteq rexmit'.rxmitMap /\ rexmit'.isXmitted = rexmit.isXmitted
      /\ rexmit' # rexmit => rexmit.no \in Slices
  BY <1>1, <1>3, <1>4, WishedSlice DEF TypeInv
<1>6. Requested' = Requested /\ Acked' = Acked
  BY <1>1, <1>4, <1>5 DEF Requested, Acked, Slot, Used
<1>7. /\ ChanInv' /\ DOMAIN toRx' = Receivers /\ DOMAIN toTx' = Receivers
      /\ faults' \in 0..MaxFaults /\ sn' = sn /\ rx' = rx
  BY <1>1, <1>6, Taken
<1>8. TypeInv'
  BY <1>1, <1>4, <1>5, <1>7 DEF TypeInv
<1>9. SlotInv'
  BY <1>1, <1>4, <1>5, <1>6, <1>7, Numbers DEF SlotInv, Used
<1>10. HaveInv'
  BY <1>1, <1>5, <1>6, <1>7 DEF HaveInv
<1>11. ClientInv' /\ HalfDuplexKeeps'
  BY <1>1, <1>7, SenderFrame, Counts
<1> QED  BY <1>7, <1>8, <1>9, <1>10, <1>11 DEF IInv

LEMMA HandleDisconnectInv ==
    ASSUME NEW r \in Receivers PROVE IInv /\ HandleDisconnect(r) => IInv'
<1> SUFFICES ASSUME IInv, HandleDisconnect(r) PROVE IInv'
  OBVIOUS
<1>1. /\ TypeInv /\ SlotInv /\ HaveInv
      /\ Message(r, "disconnect") /\ r \in participants /\ stage = "loop"
      /\ participants' = participants \ {r} /\ sliceNo' = sliceNo
      /\ stage' = IF participants' = {} THEN "over" ELSE "loop"
      /\ xmit' = Without(xmit, r) /\ rexmit' = Without(rexmit, r)
  BY DEF IInv, HandleDisconnect, LoopUnlessAlone, Message, Settled
<1>2. /\ xmit' \in Slice /\ xmit'.no = xmit.no /\ xmit'.ready = xmit.ready \ {r}
      /\ xmit'.rxmitMap = xmit.rxmitMap /\ xmit'.isXmitted = xmit.isXmitted
      /\ rexmit' \in Slice /\ rexmit'.no = rexmit.no /\ rexmit'.ready = rexmit.ready \ {r}
      /\ rexmit'.answered = rexmit.answered \ {r} /\ rexmit'.needRxmit = rexmit.needRxmit
      /\ rexmit'.rxmitMap = rexmit.rxmitMap /\ rexmit'.isXmitted = rexmit.isXmitted
  BY <1>1, WithoutSlice DEF TypeInv
<1>3. Requested' = Requested /\ Acked' = Acked
  BY <1>1, <1>2 DEF Requested, Acked, Slot, Used
<1>4. /\ ChanInv' /\ DOMAIN toRx' = Receivers /\ DOMAIN toTx' = Receivers
      /\ faults' \in 0..MaxFaults /\ sn' = sn /\ rx' = rx
  BY <1>1, <1>3, Taken
<1>5. TypeInv'
  BY <1>1, <1>2, <1>4 DEF TypeInv
<1>6. SlotInv'
  BY <1>1, <1>2, <1>3, <1>4 DEF SlotInv, Used
<1>7. HaveInv'
  BY <1>1, <1>2, <1>3, <1>4 DEF HaveInv
<1>8. ClientInv' /\ HalfDuplexKeeps'
  BY <1>1, <1>4, SenderFrame, Counts
<1> QED  BY <1>4, <1>5, <1>6, <1>7, <1>8 DEF IInv

LEMMA IgnoreMessageInv ==
    ASSUME NEW r \in Receivers PROVE IInv /\ IgnoreMessage(r) => IInv'
<1> SUFFICES ASSUME IInv, IgnoreMessage(r) PROVE IInv'
  OBVIOUS
<1>1. PICK op : Message(r, op)
  BY DEF IgnoreMessage
<1>2. /\ TypeInv /\ SlotInv /\ HaveInv /\ UNCHANGED <<participants, xmit, rexmit, stage>>
      /\ sliceNo' = sliceNo
  BY <1>1 DEF IInv, IgnoreMessage, Message
<1>3. Requested' = Requested /\ Acked' = Acked
  BY <1>2 DEF Requested, Acked, Slot, Used
<1>4. /\ ChanInv' /\ DOMAIN toRx' = Receivers /\ DOMAIN toTx' = Receivers
      /\ faults' \in 0..MaxFaults /\ sn' = sn /\ rx' = rx
  BY <1>1, <1>2, <1>3, Taken
<1>5. TypeInv'
  BY <1>2, <1>4 DEF TypeInv
<1>6. SlotInv' /\ HaveInv'
  BY <1>2, <1>3, <1>4 DEF SlotInv, HaveInv, Used
<1>7. ClientInv' /\ HalfDuplexKeeps'
  BY <1>2, <1>4, SenderFrame, Counts
<1> QED  BY <1>4, <1>5, <1>6, <1>7 DEF IInv

\* A request for the slice in rexmit once more.
LEMMA Rerequest ==
    ASSUME IInv, Used(rexmit), rexmit' = Asked(NextRound(rexmit)), NEW early \in 0 .. 1,
           Broadcast(Reqack(rexmit'), early), stage = "loop", stage' \in {"loop", "send"},
           UNCHANGED <<sn, participants, xmit, sliceNo, rx, toTx>>
    PROVE  IInv'
<1>1. /\ TypeInv /\ SlotInv /\ HaveInv /\ ChanInv
      /\ rexmit \in Slice /\ rexmit.no \in Slices /\ rexmit.no = Acked /\ Acked \in Int
      /\ Requested = Acked + 1 /\ sliceNo \in Int /\ sliceNo >= Requested
  BY Counts DEF IInv, TypeInv, Used
<1>2. /\ rexmit' \in Slice /\ rexmit'.no = rexmit.no /\ rexmit'.ready = rexmit.ready
      /\ rexmit'.answered = rexmit.ready /\ rexmit'.needRxmit = FALSE
      /\ rexmit'.rxmitMap = {} /\ rexmit'.isXmitted = {}
  BY <1>1, NextRoundSlice, AskedSlice
<1>3. Requested' = Requested /\ Acked' = Acked
  BY <1>1, <1>2 DEF Requested, Acked, Slot, Used
<1>4. \A r \in Receivers : DownOf(r) \subseteq DownOf(r)' /\ UpOf(r) \subseteq UpOf(r)'
  <2>1. rx' \in [Receivers -> Client] /\ \A r \in Receivers : rx'[r].received >= rx[r].received
    BY <1>1 DEF TypeInv, Client
  <2> QED  BY <1>1, <1>3, <2>1, Grow
<1>5. \A r \in Receivers : Reqack(rexmit') \in DownOf(r)'
  <2>1. /\ Reqack(rexmit') \in Down /\ Reqack(rexmit').no = Acked
        /\ Reqack(rexmit').ready = rexmit.ready
    BY <1>1, <1>2, ReqackDown
  <2>2. \A r \in participants : /\ Acked - 1 <= rx[r].received
                                /\ r \in rexmit.ready => Acked <= rx[r].received
    BY <1>1 DEF HaveInv, TypeInv, Client
  <2> QED  BY <1>1, <1>3, <2>1, <2>2 DEF DownOf
<1>6. /\ faults' \in 0..MaxFaults /\ DOMAIN toRx' = Receivers
      /\ \A r \in Receivers : toRx'[r] \in Seq(DownOf(r)')
  BY <1>1, <1>4, <1>5, Sent
<1>7. TypeInv'
  BY <1>1, <1>2, <1>6 DEF TypeInv
<1>8. SlotInv'
  BY <1>1, <1>2, <1>3 DEF SlotInv, Used
<1>9. HaveInv'
  BY <1>1, <1>2, <1>3 DEF HaveInv
<1>10. ChanInv'
  BY <1>1, <1>4, <1>6, Kept DEF ChanInv
<1>11. ClientInv' /\ HalfDuplexKeeps'
  BY <1>1, SenderFrame
<1> QED  BY <1>7, <1>8, <1>9, <1>10, <1>11 DEF IInv

LEMMA AskAgainInv == IInv /\ AskAgain => IInv'
BY Rerequest DEF AskAgain, AllAnswered, Settled

\* The sender waits only for the slice in rexmit.
LEMMA WaitsForIt ==
    ASSUME TypeInv, SlotInv, Waiting
    PROVE  Used(rexmit) \/ (~Used(xmit) /\ sliceNo = Last + 1)
<1> SUFFICES ASSUME ~Used(rexmit) PROVE ~Used(xmit) /\ sliceNo = Last + 1
  OBVIOUS
<1>1. stage = "loop" /\ ~Shiftable /\ ~Sending.new
  BY DEF Waiting, Settled
<1>2. ~Used(xmit)
  BY <1>1 DEF Shiftable, Sending
<1>3. ~(sliceNo <= Last)
  BY <1>1, <1>2 DEF Sending, NewSlice
<1> QED  BY <1>2, <1>3, Numbers DEF TypeInv

LEMMA EarlyRange == Early \in 0 .. 1
BY DEF Early

LEMMA RepeatInv == IInv /\ Repeat => IInv'
BY Rerequest, EarlyRange DEF Repeat, Waiting, Settled

LEMMA DropInv == IInv /\ Drop => IInv'
<1> SUFFICES ASSUME IInv, Drop PROVE IInv'
  OBVIOUS
<1>1. /\ TypeInv /\ SlotInv /\ HaveInv /\ ChanInv /\ stage = "loop"
      /\ participants' = participants \cap rexmit.ready
      /\ stage' = IF participants' = {} THEN "over" ELSE "loop"
      /\ faults' = faults + Early /\ faults' <= MaxFaults
      /\ UNCHANGED <<sn, xmit, rexmit, sliceNo, rx, toRx, toTx>>
  BY DEF IInv, Drop, Waiting, Settled, LoopUnlessAlone
<1>2. Requested' = Requested /\ Acked' = Acked
  BY <1>1 DEF Requested, Acked, Slot, Used
<1>3. \A r \in Receivers : DownOf(r) \subseteq DownOf(r)' /\ UpOf(r) \subseteq UpOf(r)'
  <2>1. rx' \in [Receivers -> Client] /\ \A r \in Receivers : rx'[r].received >= rx[r].received
    BY <1>1 DEF TypeInv, Client
  <2>2. Requested \in Int /\ sliceNo \in Int
    BY <1>1, Counts
  <2> QED  BY <1>1, <1>2, <2>1, <2>2, Grow
<1>4. faults' \in 0..MaxFaults
  BY <1>1, EarlyRange, Numbers DEF TypeInv
<1>5. TypeInv'
  BY <1>1, <1>4 DEF TypeInv
<1>6. SlotInv'
  BY <1>1, <1>2 DEF SlotInv, Used
<1>7. HaveInv'
  BY <1>1, <1>2 DEF HaveInv
<1>8. ChanInv'
  BY <1>1, <1>3, Kept DEF ChanInv
<1>9. ClientInv' /\ HalfDuplexKeeps'
  BY <1>1, SenderFrame, Counts
<1> QED  BY <1>5, <1>6, <1>7, <1>8, <1>9 DEF IInv

LEMMA AtEndInv == IInv /\ AtEnd => IInv'
<1> SUFFICES ASSUME IInv, AtEnd PROVE IInv'
  OBVIOUS
<1>1. /\ TypeInv /\ SlotInv /\ HaveInv /\ ChanInv /\ stage' = "over" /\ ~Used(rexmit)
      /\ UNCHANGED <<sn, participants, xmit, rexmit, sliceNo, rx, toRx, toTx, faults>>
  BY DEF IInv, AtEnd
<1>2. rexmit.needRxmit = FALSE
  BY <1>1 DEF SlotInv, TypeInv, Slice
<1>3. Requested' = Requested /\ Acked' = Acked
  BY <1>1 DEF Requested, Acked, Slot, Used
<1>4. TypeInv' /\ SlotInv' /\ HaveInv'
  BY <1>1, <1>2, <1>3 DEF TypeInv, SlotInv, HaveInv, Used
<1>5. ChanInv'
  BY <1>1, <1>3 DEF ChanInv, DownOf, UpOf
<1>6. ClientInv' /\ HalfDuplexKeeps'
  BY <1>1, SenderFrame, Counts
<1> QED  BY <1>4, <1>5, <1>6 DEF IInv

\* A block of the slice in rexmit or xmit leaves the numbers of both as they are.
LEMMA ResendInv == IInv /\ Resend => IInv'
<1> SUFFICES ASSUME IInv, Resend PROVE IInv'
  OBVIOUS
<1>1. /\ TypeInv /\ SlotInv /\ HaveInv /\ ChanInv /\ participants # {}
      /\ UNCHANGED <<sn, participants, xmit, sliceNo, rx, toTx>>
      /\ rexmit \in Slice /\ Used(rexmit) /\ rexmit.no \in Slices
  <2>1. Used(rexmit) /\ participants # {}
    BY DEF IInv, SlotInv, Resend, Settled
  <2> QED  BY <2>1, Counts DEF IInv, TypeInv, Resend, Used
<1>2. \/ /\ rexmit' = [rexmit EXCEPT !.needRxmit = FALSE]
         /\ UNCHANGED <<stage, toRx, faults>>
      \/ \E b \in Wanted :
            /\ rexmit' = [rexmit EXCEPT !.isXmitted = @ \cup {b}, !.needRxmit = Wanted # {b}]
            /\ stage' \in {"resend", "loop"}
            /\ Broadcast(Data(rexmit.no, b), 0)
  BY DEF Resend
<1>3. /\ rexmit' \in Slice /\ rexmit'.no = rexmit.no /\ rexmit'.ready = rexmit.ready
      /\ rexmit'.answered = rexmit.answered /\ rexmit'.isXmitted \subseteq rexmit'.rxmitMap
      /\ stage' \in {"loop", "resend", "send", "over"}
  <2>1. CASE rexmit' = [rexmit EXCEPT !.needRxmit = FALSE] /\ stage' = stage
    BY <2>1, <1>1 DEF Slice, SlotInv, TypeInv
  <2>2. ASSUME NEW b \in Wanted, stage' \in {"resend", "loop"},
               rexmit' = [rexmit EXCEPT !.isXmitted = @ \cup {b}, !.needRxmit = Wanted # {b}]
        PROVE  /\ rexmit' \in Slice /\ rexmit'.no = rexmit.no /\ rexmit'.ready = rexmit.ready
               /\ rexmit'.answered = rexmit.answered
               /\ rexmit'.isXmitted \subseteq rexmit'.rxmitMap
    <3>1. b \in rexmit.rxmitMap /\ b \in Nat
      BY <1>1 DEF Wanted, Slice
    <3>2. (Wanted # {b}) \in BOOLEAN
      OBVIOUS
    <3> QED  BY <2>2, <3>1, <3>2, <1>1 DEF Slice, SlotInv
  <2> QED  BY <2>1, <2>2, <1>2
<1>4. Requested' = Requested /\ Acked' = Acked
  BY <1>1, <1>3 DEF Requested, Acked, Slot, Used
<1>5. \A r \in Receivers : DownOf(r) \subseteq DownOf(r)' /\ UpOf(r) \subseteq UpOf(r)'
  <2>1. rx' \in [Receivers -> Client] /\ \A r \in Receivers : rx'[r].received >= rx[r].received
    BY <1>1 DEF TypeInv, Client
  <2>2. Requested \in Int /\ sliceNo \in Int
    BY <1>1, Counts
  <2> QED  BY <1>1, <1>4, <2>1, <2>2, Grow
<1>6. /\ faults' \in 0..MaxFaults /\ DOMAIN toRx' = Receivers
      /\ \A r \in Receivers : toRx'[r] \in Seq(DownOf(r)')
  <2>1. CASE UNCHANGED <<toRx, faults>>
    BY <2>1, <1>1, <1>5, Kept DEF TypeInv
  <2>2. ASSUME NEW b \in Wanted, Broadcast(Data(rexmit.no, b), 0)
        PROVE  /\ faults' \in 0..MaxFaults /\ DOMAIN toRx' = Receivers
               /\ \A r \in Receivers : toRx'[r] \in Seq(DownOf(r)')
    <3>1. b \in Nat
      BY <1>1 DEF Wanted, Slice
    <3>2. /\ Data(rexmit.no, b) \in Down /\ Data(rexmit.no, b).op = "data"
          /\ Data(rexmit.no, b).no = rexmit.no
      BY <1>1, <3>1, DataDown
    <3>3. rexmit.no < sliceNo'
      BY <1>1, Counts
    <3>4. \A r \in Receivers : Data(rexmit.no, b) \in DownOf(r)'
      BY <3>2, <3>3 DEF DownOf
    <3> QED  BY <2>2, <3>4, <1>1, <1>5, Sent
  <2> QED  BY <2>1, <2>2, <1>2
<1>7. TypeInv'
  BY <1>1, <1>3, <1>6 DEF TypeInv
<1>8. SlotInv'
  BY <1>1, <1>3, <1>4 DEF SlotInv, Used
<1>9. HaveInv'
  BY <1>1, <1>3, <1>4 DEF HaveInv
<1>10. ChanInv'
  BY <1>1, <1>5, <1>6, Kept DEF ChanInv
<1>11. ClientInv' /\ HalfDuplexKeeps'
  BY <1>1, SenderFrame, Counts
<1> QED  BY <1>7, <1>8, <1>9, <1>10, <1>11 DEF IInv

LEMMA SendBlockInv == IInv /\ SendBlock => IInv'
<1> SUFFICES ASSUME IInv, SendBlock PROVE IInv'
  OBVIOUS
<1> DEFINE s == Sending
           n == Sending.nextBlock + 1
<1>1. /\ TypeInv /\ SlotInv /\ HaveInv /\ ChanInv
      /\ participants # {} /\ s.new /\ stage' = "loop"
      /\ xmit' = [s EXCEPT !.nextBlock = n, !.new = n < Blocks[s.no]]
      /\ sliceNo' = xmit'.no + 1
      /\ UNCHANGED <<sn, participants, rexmit, rx, toTx>>
      /\ UNCHANGED <<toRx, faults>> \/ Broadcast(Data(s.no, s.nextBlock), 0)
      /\ stage \in {"loop", "send"}
  BY DEF IInv, SlotInv, SendBlock, Settled
<1>2. /\ s \in Slice /\ s.no \in Slices /\ s.ready = {} /\ s.isXmitted \subseteq s.rxmitMap
      /\ s.no = Requested
      /\ ~sn => ~Used(rexmit)
  <2>1. CASE Used(xmit)
    BY <2>1, <1>1, Counts DEF Sending, TypeInv, SlotInv, Used
  <2>2. CASE ~Used(xmit) /\ sliceNo <= Last /\ (sn \/ ~Used(rexmit))
    <3>1. sliceNo \in Slices
      BY <2>2, <1>1, Numbers DEF TypeInv
    <3> QED  BY <2>2, <3>1, <1>1, Counts, NewSliceSlice DEF Sending
  <2>3. CASE ~Used(xmit) /\ ~(sliceNo <= Last /\ (sn \/ ~Used(rexmit)))
    BY <2>3, <1>1, EmptySlice DEF Sending
  <2> QED  BY <2>1, <2>2, <2>3
<1> HIDE DEF s
<1>3. /\ xmit' \in Slice /\ xmit'.no = s.no /\ xmit'.ready = {}
      /\ xmit'.isXmitted \subseteq xmit'.rxmitMap
  <2>1. n \in Nat /\ (n < Blocks[s.no]) \in BOOLEAN
    BY <1>2 DEF Slice, s
  <2> QED  BY <1>1, <1>2, <2>1 DEF Slice
<1>4. /\ Used(xmit') /\ sliceNo' = Requested + 1 /\ Requested' = Requested
      /\ Acked' = Acked /\ Requested \in Int /\ sliceNo' \in 0 .. Last + 1
      /\ sliceNo' >= sliceNo /\ sliceNo \in Int /\ s.no < sliceNo'
  <2>1. /\ Requested \in Int /\ sliceNo \in Int /\ sliceNo <= Requested + 1
        /\ Requested \in Slices
    BY <1>1, <1>2, Counts
  <2>2. Used(xmit') /\ sliceNo' = Requested + 1
    BY <1>1, <1>2, <1>3, Numbers DEF Used
  <2>3. Requested' = Requested /\ Acked' = Acked
    BY <1>1, <2>1, <2>2 DEF Requested, Acked, Slot, Used
  <2> QED  BY <2>1, <2>2, <2>3, <1>2, Numbers
<1>5. \A r \in Receivers : DownOf(r) \subseteq DownOf(r)' /\ UpOf(r) \subseteq UpOf(r)'
  <2>1. rx' \in [Receivers -> Client] /\ \A r \in Receivers : rx'[r].received >= rx[r].received
    BY <1>1 DEF TypeInv, Client
  <2> QED  BY <1>1, <1>4, <2>1, Numbers, Grow
<1>6. /\ faults' \in 0..MaxFaults /\ DOMAIN toRx' = Receivers
      /\ \A r \in Receivers : toRx'[r] \in Seq(DownOf(r)')
  <2>1. CASE UNCHANGED <<toRx, faults>>
    BY <2>1, <1>1, <1>5, Kept DEF TypeInv
  <2>2. CASE Broadcast(Data(s.no, s.nextBlock), 0)
    <3>1. s.nextBlock \in Nat
      BY <1>2 DEF Slice
    <3>2. \A r \in Receivers : Data(s.no, s.nextBlock) \in DownOf(r)'
      BY <3>1, <1>2, <1>4, DataDown DEF DownOf
    <3> QED  BY <2>2, <3>2, <1>1, <1>5, Sent
  <2> QED  BY <2>1, <2>2, <1>1
<1>7. TypeInv'
  BY <1>1, <1>3, <1>4, <1>6 DEF TypeInv
<1>8. SlotInv'
  BY <1>1, <1>2, <1>3, <1>4 DEF SlotInv, Used
<1>9. HaveInv'
  BY <1>1, <1>4 DEF HaveInv
<1>10. ChanInv'
  BY <1>1, <1>5, <1>6, Kept DEF ChanInv
<1>11. ClientInv' /\ HalfDuplexKeeps'
  BY <1>1, <1>4, SenderFrame, Numbers
<1> QED  BY <1>7, <1>8, <1>9, <1>10, <1>11 DEF IInv

-----------------------------------------------------------------------------
(* A receiver. *)

\* What is passed on: at most two slices, each of a known size, and the next one if it
\* is complete.
LEMMA AdvanceClient ==
    ASSUME NEW c \in Client
    PROVE  /\ Advance(c) \in Client
           /\ Advance(c).current = c.current /\ Advance(c).known = c.known
           /\ Advance(c).received >= c.received
           /\ Advance(c).received = c.received \/ Advance(c).received \in c.known
           /\ Complete(c, c.received + 1) => Advance(c).received >= c.received + 1
           /\ Advance(c).end \in {c.end, "linger"} /\ Advance(c).map \subseteq c.map
<1> DEFINE next == c.received + 1
           n == IF ~Complete(c, next) THEN c.received
                ELSE IF ~Complete(c, next + 1) THEN next
                ELSE next + 1
<1>1. /\ n \in Int /\ n >= c.received
      /\ n = c.received \/ n \in c.known
      /\ Complete(c, next) => n >= next
  BY DEF Client, Complete
<1> HIDE DEF n
<1> DEFINE e == IF n = Last THEN "linger" ELSE c.end
           p == {b \in c.map : b[1] > n}
<1>2. e \in {c.end, "linger"} /\ p \in SUBSET (Int \X Int) /\ p \subseteq c.map
  BY DEF Client
<1>3. Advance(c) = [c EXCEPT !.received = n, !.map = p, !.end = e]
  BY DEF Advance, n
<1> HIDE DEF e, p
<1> QED  BY <1>1, <1>2, <1>3 DEF Client

\* What every step of receiver r is to the others.
Further(r) ==
    /\ UNCHANGED <<sn, sender>> /\ \A q \in Receivers \ {r} : rx'[q] = rx[q]
    /\ rx'[r].received >= rx[r].received

\* A step of receiver r.
LEMMA OneReceiver ==
    ASSUME IInv, NEW r \in Receivers, UNCHANGED <<sn, sender>>,
           rx' \in [Receivers -> Client], \A q \in Receivers \ {r} : rx'[q] = rx[q],
           rx'[r].received >= rx[r].received, rx'[r].received < sliceNo,
           rx'[r].received <= rx'[r].current,
           \A s \in rx'[r].known : s < sliceNo /\ s <= rx'[r].current,
           rx'[r].received >= 0 => rx'[r].received \in rx'[r].known,
           \/ rx'[r].end \notin {"dropped", "fatal"} \/ rx'[r].end = rx[r].end
           \/ sn \/ r \notin participants,
           \/ toRx[r] # <<>> /\ toRx' = [toRx EXCEPT ![r] = Tail(@)]
           \/ toRx' = [toRx EXCEPT ![r] = <<>>],
           \/ toTx' = toTx
           \/ \E m \in UpOf(r)' : toTx' = [toTx EXCEPT ![r] = Append(@, m)],
           faults' \in 0..MaxFaults
    PROVE  IInv' /\ Further(r)
<1>1. /\ TypeInv /\ SlotInv /\ ClientInv /\ HaveInv /\ ChanInv /\ HalfDuplexKeeps
      /\ UNCHANGED <<sn, participants, xmit, rexmit, sliceNo, stage>>
  BY DEF IInv, sender
<1>2. Requested' = Requested /\ Acked' = Acked /\ Requested \in Int /\ sliceNo \in Int
      /\ Acked \in Int
  BY <1>1, Counts DEF Requested, Acked, Slot, Used
<1>3. \A q \in Receivers : rx'[q].received >= rx[q].received
  <2>1. \A q \in Receivers : rx[q].received \in Int
    BY <1>1 DEF TypeInv, Client
  <2> QED  BY <2>1
<1>4. \A q \in Receivers : DownOf(q) \subseteq DownOf(q)' /\ UpOf(q) \subseteq UpOf(q)'
  BY <1>1, <1>2, <1>3, Grow
<1>5. DOMAIN toRx' = Receivers /\ DOMAIN toTx' = Receivers
  BY <1>1 DEF TypeInv
<1>6. TypeInv'
  BY <1>1, <1>5 DEF TypeInv
<1>7. SlotInv'
  BY <1>1, <1>2 DEF SlotInv, Used
<1>8. ClientInv'
  <2> SUFFICES ASSUME NEW q \in Receivers
               PROVE  /\ -1 <= rx'[q].received /\ rx'[q].received < sliceNo
                      /\ rx'[q].received <= rx'[q].current
                      /\ \A s \in rx'[q].known : s < sliceNo /\ s <= rx'[q].current
                      /\ rx'[q].received >= 0 => rx'[q].received \in rx'[q].known
    BY <1>1 DEF ClientInv
  <2>1. CASE q = r
    <3>1. -1 <= rx[r].received /\ rx[r].received \in Int /\ rx'[r].received \in Int
      BY <1>1 DEF ClientInv, TypeInv, Client
    <3> QED  BY <2>1, <3>1
  <2>2. CASE q # r
    BY <2>2, <1>1 DEF ClientInv
  <2> QED  BY <2>1, <2>2
<1>9. HaveInv'
  <2> SUFFICES ASSUME NEW q \in participants
               PROVE  /\ rx'[q].received >= Acked - 1
                      /\ q \in rexmit.ready => rx'[q].received >= rexmit.no
    BY <1>1, <1>2 DEF HaveInv
  <2>1. q \in Receivers /\ rx[q].received \in Int /\ rx'[q].received \in Int
    BY <1>1 DEF TypeInv, Client
  <2>2. rexmit.no \in Int
    BY <1>1, Counts, Numbers
  <2> QED  BY <2>1, <2>2, <1>1, <1>2, <1>3 DEF HaveInv
<1>10. ChanInv'
  <2> SUFFICES ASSUME NEW q \in Receivers
               PROVE  toRx'[q] \in Seq(DownOf(q)') /\ toTx'[q] \in Seq(UpOf(q)')
    BY DEF ChanInv
  <2>1. /\ toRx[q] \in Seq(DownOf(q)') /\ toTx[q] \in Seq(UpOf(q)')
        /\ toRx[q] # <<>> => Tail(toRx[q]) \in Seq(DownOf(q)')
    BY <1>1, <1>4, Kept
  <2>2. toRx'[q] \in Seq(DownOf(q)')
    <3>1. <<>> \in Seq(DownOf(q)')
      BY EmptySeq
    <3> QED  BY <2>1, <3>1, <1>1 DEF TypeInv
  <2>3. toTx'[q] \in Seq(UpOf(q)')
    <3>1. ASSUME NEW m \in UpOf(q)' PROVE Append(toTx[q], m) \in Seq(UpOf(q)')
      BY <2>1, AppendProperties
    <3>2. CASE toTx' = toTx
      BY <3>2, <2>1
    <3>3. ASSUME NEW m \in UpOf(r)', toTx' = [toTx EXCEPT ![r] = Append(@, m)]
          PROVE  toTx'[q] \in Seq(UpOf(q)')
      <4>1. CASE q = r
        BY <4>1, <3>1, <3>3, <1>1 DEF TypeInv
      <4>2. CASE q # r
        BY <4>2, <3>3, <2>1, <1>1 DEF TypeInv
      <4> QED  BY <4>1, <4>2
    <3> QED  BY <3>2, <3>3
  <2> QED  BY <2>2, <2>3
<1>11. HalfDuplexKeeps'
  BY <1>1 DEF HalfDuplexKeeps
<1> QED  BY <1>6, <1>7, <1>8, <1>9, <1>10, <1>11 DEF IInv, Further

\* What begins a slice: current is then the highest one seen.
LEMMA BeginClient ==
    ASSUME NEW c \in Client, NEW s \in Nat
    PROVE  /\ Begin(c, s) \in Client /\ Begin(c, s).received = c.received
           /\ Begin(c, s).known = c.known /\ Begin(c, s).end = c.end
           /\ Begin(c, s).map = c.map
           /\ Begin(c, s).current >= c.current /\ Begin(c, s).current >= s
BY DEF Begin, Client

\* The client with the size of slice s known, and with block b of it too.
Knowing(c, s) == [c EXCEPT !.known = @ \cup {s}]
Stored(c, s, b) == [c EXCEPT !.known = @ \cup {s}, !.map = @ \cup {<<s, b>>}]

LEMMA KnownClient ==
    ASSUME NEW c \in Client, NEW s \in Nat
    PROVE  /\ Knowing(c, s) \in Client /\ Knowing(c, s).received = c.received
           /\ \A n : n \in Knowing(c, s).known <=> n \in c.known \/ n = s
           /\ Knowing(c, s).end = c.end /\ Knowing(c, s).current = c.current
           /\ Knowing(c, s).map = c.map
BY DEF Knowing, Client

LEMMA DataClient ==
    ASSUME NEW c \in Client, NEW s \in Nat,
           NEW b \in Nat
    PROVE  /\ Stored(c, s, b) \in Client /\ Stored(c, s, b).received = c.received
           /\ \A n : n \in Stored(c, s, b).known <=> n \in c.known \/ n = s
           /\ Stored(c, s, b).end = c.end /\ Stored(c, s, b).current = c.current
<1> DEFINE k == c.known \cup {s}
           p == c.map \cup {<<s, b>>}
<1>1. k \in SUBSET Int /\ p \in SUBSET (Int \X Int)
  BY DEF Client
<1>2. Stored(c, s, b) = [c EXCEPT !.known = k, !.map = p]
  BY DEF Stored
<1>3. \A n : n \in k <=> n \in c.known \/ n = s
  OBVIOUS
<1> HIDE DEF k, p
<1> QED  BY <1>1, <1>2, <1>3 DEF Client

\* What comes next to r.
LEMMA NextDatagram ==
    ASSUME IInv, NEW r \in Receivers, toRx[r] # <<>>
    PROVE  /\ Datagram(r) \in Down /\ Datagram(r).no \in Nat /\ Datagram(r).no \in Slices
           /\ Datagram(r).no < sliceNo
           /\ Datagram(r).op = "data" => Datagram(r).block \in Nat
           /\ Datagram(r).op = "reqack" =>
                 /\ Datagram(r).rxmit \in Nat /\ Datagram(r).no < Requested
                 /\ r \in participants => Datagram(r).no - 1 <= rx[r].received
                 /\ r \in participants /\ r \in Datagram(r).ready =>
                       Datagram(r).no <= rx[r].received
<1>1. Datagram(r) \in DownOf(r)
  BY HeadTailProperties DEF IInv, ChanInv, Datagram
<1> QED  BY <1>1, Numbers DEF DownOf, Down

LEMMA ReceiveDataInv ==
    ASSUME NEW r \in Receivers PROVE IInv /\ ReceiveData(r) => IInv' /\ Further(r)
<1> SUFFICES ASSUME IInv, ReceiveData(r) PROVE IInv' /\ Further(r)
  OBVIOUS
<1> DEFINE m == Datagram(r)
           c == Begin(rx[r], m.no)
           d == Stored(c, m.no, m.block)
<1>1. /\ toRx[r] # <<>> /\ m.op = "data"
      /\ toRx' = [toRx EXCEPT ![r] = Tail(@)]
      /\ rx' = [rx EXCEPT ![r] = c] \/ rx' = [rx EXCEPT ![r] = Advance(d)]
      /\ UNCHANGED <<sn, sender, toTx, faults>>
  BY DEF ReceiveData, Receive, Has, Stored
<1>2. m.no \in Nat /\ m.block \in Nat /\ m.no < sliceNo
  BY <1>1, NextDatagram
<1>3. /\ rx \in [Receivers -> Client] /\ faults \in 0..MaxFaults /\ rx[r] \in Client
      /\ sliceNo \in Int
      /\ rx[r].received < sliceNo /\ rx[r].received <= rx[r].current
      /\ \A s \in rx[r].known : s < sliceNo /\ s <= rx[r].current
      /\ rx[r].received >= 0 => rx[r].received \in rx[r].known
  BY Counts DEF IInv, TypeInv, ClientInv
<1>4. /\ c \in Client /\ c.received = rx[r].received /\ c.known = rx[r].known
      /\ c.end = rx[r].end /\ c.current >= rx[r].current /\ c.current >= m.no
  BY <1>2, <1>3, BeginClient
<1> HIDE DEF c, m
<1>5. /\ d \in Client /\ d.received = rx[r].received /\ d.end = rx[r].end
      /\ d.current = c.current
      /\ \A n : n \in d.known <=> n \in rx[r].known \/ n = m.no
  <2>1. c \in Client /\ m.no \in Nat /\ m.block \in Nat
    BY <1>2, <1>4
  <2>2. d \in Client /\ d.received = c.received /\ d.end = c.end /\ d.current = c.current
    BY <2>1, DataClient
  <2>3. \A n : n \in d.known <=> n \in c.known \/ n = m.no
    BY <2>1, DataClient, Zenon
  <2> QED  BY <2>2, <2>3, <1>4
<1> HIDE DEF d
<1>6. /\ Advance(d) \in Client /\ Advance(d).current = c.current
      /\ \A n : n \in Advance(d).known <=> n \in rx[r].known \/ n = m.no
      /\ Advance(d).received >= rx[r].received
      /\ Advance(d).received \in {rx[r].received, m.no} \cup rx[r].known
      /\ Advance(d).end \in {rx[r].end, "linger"}
  BY <1>5, AdvanceClient
<1>7. /\ rx' \in [Receivers -> Client] /\ \A q \in Receivers \ {r} : rx'[q] = rx[q]
      /\ rx'[r] \in {c, Advance(d)}
  BY <1>1, <1>3, <1>4, <1>6
<1>8. /\ c.current \in Int /\ rx[r].current \in Int /\ rx[r].received \in Int
      /\ Advance(d).received \in Int /\ rx[r].known \subseteq Int
  BY <1>3, <1>4, <1>6 DEF Client
<1>9. /\ rx'[r].received >= rx[r].received /\ rx'[r].received < sliceNo
      /\ rx'[r].received <= rx'[r].current
      /\ \A s \in rx'[r].known : s < sliceNo /\ s <= rx'[r].current
      /\ rx'[r].received >= 0 => rx'[r].received \in rx'[r].known
      /\ rx'[r].end \in {rx[r].end, "linger"}
  <2>1. CASE rx'[r] = c
    BY <2>1, <1>2, <1>3, <1>4, <1>8
  <2>2. CASE rx'[r] = Advance(d)
    BY <2>2, <1>2, <1>3, <1>4, <1>6, <1>8
  <2> QED  BY <1>7, <2>1, <2>2
<1> QED  BY <1>1, <1>3, <1>7, <1>9, OneReceiver

LEMMA Replied ==
    ASSUME IInv, NEW r \in Receivers, NEW m, Reply(r, m)
    PROVE  /\ faults' \in 0..MaxFaults
           /\ toTx' = toTx \/ toTx' = [toTx EXCEPT ![r] = Append(@, m)]
BY Numbers DEF IInv, TypeInv, Reply

LEMMA UpMessages ==
    ASSUME NEW n \in Slices, NEW q \in Nat, NEW b \in SUBSET Nat
    PROVE  /\ [op |-> "ok", no |-> n] \in Up
           /\ [op |-> "retransmit", no |-> n, rxmit |-> q, missing |-> b] \in Up
           /\ Disconnect \in Up
BY DEF Up, Disconnect

LEMMA ReceiveReqackInv ==
    ASSUME NEW r \in Receivers PROVE IInv /\ ReceiveReqack(r) => IInv' /\ Further(r)
<1> SUFFICES ASSUME IInv, ReceiveReqack(r) PROVE IInv' /\ Further(r)
  OBVIOUS
<1> DEFINE m == Datagram(r)
           c == Begin(rx[r], m.no)
           d == Knowing(c, m.no)
           missing == {b \in BlocksOf(m.no) : <<m.no, b>> \notin d.map}
           ok == [op |-> "ok", no |-> m.no]
           retransmit == [op |-> "retransmit", no |-> m.no, rxmit |-> m.rxmit,
                          missing |-> missing]
<1>1. /\ toRx[r] # <<>> /\ m.op = "reqack"
      /\ toRx' = [toRx EXCEPT ![r] = Tail(@)]
      /\ UNCHANGED <<sn, sender>>
      /\ \/ rx' = [rx EXCEPT ![r] = c] /\ UNCHANGED <<toTx, faults>>
         \/ m.no <= c.received /\ UNCHANGED rx /\ Reply(r, ok)
         \/ /\ ~(m.no <= c.received) /\ rx' = [rx EXCEPT ![r] = Advance(d)]
            /\ Reply(r, IF missing = {} THEN ok ELSE retransmit)
  BY DEF ReceiveReqack, Receive, Has, Knowing
<1>2. /\ m.no \in Nat /\ m.no \in Slices /\ m.no < sliceNo /\ m.rxmit \in Nat
      /\ m.no < Requested
      /\ r \in participants => m.no - 1 <= rx[r].received
  BY <1>1, NextDatagram
<1>3. /\ rx \in [Receivers -> Client] /\ faults \in 0..MaxFaults /\ rx[r] \in Client
      /\ sliceNo \in Int /\ participants' = participants /\ Requested' = Requested
      /\ rx[r].received < sliceNo /\ rx[r].received <= rx[r].current
      /\ \A s \in rx[r].known : s < sliceNo /\ s <= rx[r].current
      /\ rx[r].received >= 0 => rx[r].received \in rx[r].known
  BY <1>1, Counts DEF IInv, TypeInv, ClientInv, sender, Requested, Slot, Used
<1>4. missing \in SUBSET Nat
  BY DEF BlocksOf
<1>5. ok \in Up /\ retransmit \in Up
  BY <1>2, <1>4, UpMessages
<1>6. (missing = {} /\ m.no \in d.known) => Complete(d, m.no)
  BY DEF Complete
<1>7. retransmit.op = "retransmit" /\ retransmit.no = m.no /\ ok.op = "ok" /\ ok.no = m.no
  OBVIOUS
<1> HIDE DEF m, missing, ok, retransmit
<1>8. /\ c \in Client /\ c.received = rx[r].received /\ c.known = rx[r].known
      /\ c.end = rx[r].end /\ c.current >= rx[r].current /\ c.current >= m.no
  BY <1>2, <1>3, BeginClient
<1> HIDE DEF c
<1>9. /\ d \in Client /\ d.received = rx[r].received /\ d.end = rx[r].end
      /\ d.current = c.current
      /\ \A n : n \in d.known <=> n \in rx[r].known \/ n = m.no
  <2>1. d \in Client /\ d.received = c.received /\ d.end = c.end /\ d.current = c.current
    BY <1>2, <1>8, KnownClient
  <2>2. \A n : n \in d.known <=> n \in c.known \/ n = m.no
    BY <1>2, <1>8, KnownClient, Zenon
  <2> QED  BY <2>1, <2>2, <1>8
<1> HIDE DEF d
<1>10. /\ Advance(d) \in Client /\ Advance(d).current = c.current
       /\ \A n : n \in Advance(d).known <=> n \in rx[r].known \/ n = m.no
       /\ Advance(d).received >= rx[r].received
       /\ Advance(d).received \in {rx[r].received, m.no} \cup rx[r].known
       /\ Complete(d, rx[r].received + 1) => Advance(d).received >= rx[r].received + 1
       /\ Advance(d).end \in {rx[r].end, "linger"}
  BY <1>9, AdvanceClient
<1>11. /\ rx' \in [Receivers -> Client] /\ \A q \in Receivers \ {r} : rx'[q] = rx[q]
       /\ rx'[r] \in {rx[r], c, Advance(d)}
  BY <1>1, <1>3, <1>8, <1>10
<1>12. /\ c.current \in Int /\ rx[r].current \in Int /\ rx[r].received \in Int
       /\ Advance(d).received \in Int /\ rx[r].known \subseteq Int
  BY <1>3, <1>8, <1>10 DEF Client
<1>13. /\ rx'[r].received >= rx[r].received /\ rx'[r].received < sliceNo
       /\ rx'[r].received <= rx'[r].current
       /\ \A s \in rx'[r].known : s < sliceNo /\ s <= rx'[r].current
       /\ rx'[r].received >= 0 => rx'[r].received \in rx'[r].known
       /\ rx'[r].end \in {rx[r].end, "linger"}
  <2>1. CASE rx'[r] \in {rx[r], c}
    BY <2>1, <1>2, <1>3, <1>8, <1>12
  <2>2. CASE rx'[r] = Advance(d)
    BY <2>2, <1>2, <1>3, <1>8, <1>10, <1>12
  <2> QED  BY <1>11, <2>1, <2>2
<1>14. /\ faults' \in 0..MaxFaults
       /\ toTx' = toTx \/ \E u \in UpOf(r)' : toTx' = [toTx EXCEPT ![r] = Append(@, u)]
  <2>1. CASE UNCHANGED <<toTx, faults>>
    BY <2>1, <1>3
  <2>2. CASE m.no <= c.received /\ UNCHANGED rx /\ Reply(r, ok)
    <3>1. ok \in UpOf(r)'
      BY <2>2, <1>2, <1>3, <1>5, <1>7, <1>8 DEF UpOf
    <3> QED  BY <2>2, <3>1, Replied
  <2>3. CASE /\ ~(m.no <= c.received) /\ rx' = [rx EXCEPT ![r] = Advance(d)]
             /\ Reply(r, IF missing = {} THEN ok ELSE retransmit)
    <3>1. CASE missing = {}
      <4>1. r \in participants => m.no = rx[r].received + 1
        BY <2>3, <1>2, <1>8, <1>12
      <4>2. Complete(d, m.no)
        BY <3>1, <1>6, <1>9
      <4>3. r \in participants => m.no <= rx'[r].received
        BY <4>1, <4>2, <2>3, <1>3, <1>10, <1>12
      <4>4. ok \in UpOf(r)'
        BY <4>3, <1>2, <1>3, <1>5, <1>7 DEF UpOf
      <4> QED  BY <2>3, <3>1, <4>4, Replied
    <3>2. CASE missing # {}
      <4>1. retransmit \in UpOf(r)'
        BY <1>2, <1>3, <1>5, <1>7 DEF UpOf
      <4> QED  BY <2>3, <3>2, <4>1, Replied
    <3> QED  BY <3>1, <3>2
  <2> QED  BY <1>1, <2>1, <2>2, <2>3
<1> QED  BY <1>1, <1>3, <1>11, <1>13, <1>14, OneReceiver

\* A receiver that ends: only the dropped give up in half duplex mode.
LEMMA EndInv ==
    ASSUME IInv, NEW r \in Receivers,
           NEW why \in {"dropped", "fatal", "done", "quit"}, End(r, why),
           why \in {"dropped", "fatal"} => sn \/ r \notin participants,
           faults' \in 0..MaxFaults,
           toTx' = toTx \/ toTx' = [toTx EXCEPT ![r] = Append(@, Disconnect)]
    PROVE  IInv' /\ Further(r)
<1>1. /\ rx' = [rx EXCEPT ![r].end = why] /\ toRx' = [toRx EXCEPT ![r] = <<>>]
      /\ UNCHANGED <<sn, sender>>
  BY DEF End
<1>2. /\ rx \in [Receivers -> Client] /\ rx[r] \in Client
      /\ rx[r].received < sliceNo /\ rx[r].received <= rx[r].current
      /\ \A s \in rx[r].known : s < sliceNo /\ s <= rx[r].current
      /\ rx[r].received >= 0 => rx[r].received \in rx[r].known
  BY DEF IInv, TypeInv, ClientInv
<1>3. /\ rx' \in [Receivers -> Client] /\ \A q \in Receivers \ {r} : rx'[q] = rx[q]
      /\ rx'[r].received = rx[r].received /\ rx'[r].current = rx[r].current
      /\ rx'[r].known = rx[r].known /\ rx'[r].end = why
  BY <1>1, <1>2 DEF Client
<1>4. rx[r].received \in Int
  BY <1>2 DEF Client
<1>5. Disconnect \in UpOf(r)'
  BY DEF UpOf, Up, Disconnect
<1>6. toTx' = toTx \/ \E m \in UpOf(r)' : toTx' = [toTx EXCEPT ![r] = Append(@, m)]
  BY <1>5
<1>7. /\ rx'[r].received >= rx[r].received /\ rx'[r].received < sliceNo
      /\ rx'[r].received <= rx'[r].current
      /\ \A s \in rx'[r].known : s < sliceNo /\ s <= rx'[r].current
      /\ rx'[r].received >= 0 => rx'[r].received \in rx'[r].known
      /\ rx'[r].end \notin {"dropped", "fatal"} \/ sn \/ r \notin participants
  BY <1>2, <1>3, <1>4
<1> QED  BY <1>1, <1>3, <1>6, <1>7, OneReceiver

LEMMA GiveUpInv == ASSUME NEW r \in Receivers PROVE IInv /\ GiveUp(r) => IInv' /\ Further(r)
<1> SUFFICES ASSUME IInv, GiveUp(r) PROVE IInv' /\ Further(r)
  OBVIOUS
<1> DEFINE m == Datagram(r)
           c == rx[r]
<1>1. /\ toRx[r] # <<>> /\ Reply(r, Disconnect)
      /\ \/ OutOfWindow(c, m.no) /\ End(r, "dropped")
         \/ Unexpected(c, m.no) /\ End(r, "fatal")
  BY DEF GiveUp, Has
<1>2. m.no \in Nat /\ m.no < sliceNo
  BY <1>1, NextDatagram
<1>3. /\ c.current \in Nat /\ c.received \in Int /\ c.received <= c.current
      /\ c.received >= 0 => c.received \in c.known
  BY DEF IInv, TypeInv, ClientInv, Client
<1>4. sn \/ r \notin participants
  <2> SUFFICES ASSUME ~sn, r \in participants PROVE FALSE
    OBVIOUS
  <2>1. sliceNo <= Acked + 1 /\ Acked \in Int /\ sliceNo \in Int
    BY Counts DEF IInv, SlotInv
  <2>2. c.received >= Acked - 1
    BY DEF IInv, HaveInv
  <2>3. m.no > c.current => m.no = c.current + 1 /\ c.current = c.received
    BY <2>1, <2>2, <1>2, <1>3
  <2>4. ~OutOfWindow(c, m.no)
    BY <2>3, <1>2, <1>3 DEF OutOfWindow
  <2>5. ~Unexpected(c, m.no)
    BY <2>3, <1>2, <1>3 DEF Unexpected
  <2> QED  BY <1>1, <2>4, <2>5
<1>5. faults' \in 0..MaxFaults
      /\ (toTx' = toTx \/ toTx' = [toTx EXCEPT ![r] = Append(@, Disconnect)])
  BY <1>1, Replied
<1> QED  BY <1>1, <1>4, <1>5, EndInv

LEMMA ExitWaitInv == ASSUME NEW r \in Receivers PROVE IInv /\ ExitWait(r) => IInv' /\ Further(r)
BY EndInv, Replied DEF ExitWait

LEMMA QuitInv == ASSUME NEW r \in Receivers PROVE IInv /\ Quit(r) => IInv' /\ Further(r)
<1> SUFFICES ASSUME IInv, Quit(r) PROVE IInv' /\ Further(r)
  OBVIOUS
<1>1. faults' \in 0..MaxFaults
  BY Numbers DEF Quit, IInv, TypeInv
<1>2. End(r, "quit") /\ toTx' \in {toTx, [toTx EXCEPT ![r] = Append(@, Disconnect)]}
  BY DEF Quit
<1> QED  BY <1>1, <1>2, EndInv

-----------------------------------------------------------------------------
(* The invariant, and what follows from it. *)

LEMMA InitInv == Init => IInv
<1> SUFFICES ASSUME Init PROVE IInv
  OBVIOUS
<1>1. /\ ~Used(xmit) /\ ~Used(rexmit) /\ Requested = 0 /\ Acked = 0
      /\ xmit = Empty /\ rexmit = Empty /\ sliceNo = 0 /\ stage = "loop"
      /\ participants = Receivers
  BY EmptySlice DEF Init, Used, Requested, Acked, Slot
<1>2. \A r \in Receivers : rx[r] \in Client /\ rx[r].received = -1 /\ rx[r].known = {}
                           /\ rx[r].current = 0 /\ rx[r].end = "no"
  BY DEF Init, Client
<1>3. TypeInv
  BY <1>1, <1>2, Numbers, EmptySlice DEF Init, TypeInv
<1>4. SlotInv
  BY <1>1, Numbers, EmptySlice DEF SlotInv
<1>5. ClientInv /\ HaveInv /\ HalfDuplexKeeps
  BY <1>1, <1>2, EmptySlice DEF ClientInv, HaveInv, HalfDuplexKeeps
<1>6. ChanInv
  <2> SUFFICES ASSUME NEW r \in Receivers
               PROVE  toRx[r] \in Seq(DownOf(r)) /\ toTx[r] \in Seq(UpOf(r))
    BY DEF ChanInv
  <2>1. toRx[r] = <<>> /\ toTx[r] = <<>>
    BY DEF Init
  <2> QED  BY <2>1, EmptySeq
<1> QED  BY <1>3, <1>4, <1>5, <1>6 DEF IInv

LEMMA ReceiverInv ==
    ASSUME IInv, NEW r \in Receivers, ReceiverStep(r) \/ Quit(r)
    PROVE  IInv' /\ Further(r)
BY ReceiveDataInv, ReceiveReqackInv, GiveUpInv, ExitWaitInv, QuitInv DEF ReceiverStep

LEMMA StepInv == IInv /\ [Next]_vars => IInv'
<1> SUFFICES ASSUME IInv, [Next]_vars PROVE IInv'
  OBVIOUS
<1>1. CASE SenderStep
  BY <1>1, AckSliceInv, ShiftInv, ResendInv, AskAgainInv, SendBlockInv, AtEndInv, RepeatInv,
     DropInv, HandleOkInv, HandleRetransmitInv, HandleDisconnectInv, IgnoreMessageInv
  DEF SenderStep
<1>2. CASE \E r \in Receivers : ReceiverStep(r) \/ Quit(r)
  BY <1>2, ReceiverInv
<1>3. CASE UNCHANGED vars
  <2>1. UNCHANGED <<sn, participants, xmit, rexmit, sliceNo, stage, rx, toRx, toTx, faults>>
    BY <1>3 DEF vars, sender
  <2>2. UNCHANGED <<Used(xmit), Used(rexmit), Requested, Acked>>
    BY <2>1 DEF Requested, Acked, Slot, Used
  <2>3. TypeInv' /\ SlotInv' /\ ClientInv'
    BY <2>1, <2>2 DEF IInv, TypeInv, SlotInv, ClientInv
  <2>4. HaveInv' /\ HalfDuplexKeeps'
    BY <2>1, <2>2 DEF IInv, HaveInv, HalfDuplexKeeps
  <2>5. \A r \in Receivers : DownOf(r)' = DownOf(r) /\ UpOf(r)' = UpOf(r)
    BY <2>1, <2>2 DEF DownOf, UpOf
  <2>6. ChanInv'
    BY <2>1, <2>5 DEF IInv, ChanInv
  <2> QED  BY <2>3, <2>4, <2>6 DEF IInv
<1> QED  BY <1>1, <1>2, <1>3 DEF Next

\* IInv is an invariant of the protocol (senddata.c, receivedata.c).
THEOREM Invariance == Spec => []IInv
<1>1. Init => IInv
  BY InitInv
<1>2. IInv /\ [Next]_vars => IInv'
  BY StepInv
<1> QED  BY <1>1, <1>2, PTL DEF Spec

LEMMA TypesFromInv == IInv => TypeOK
<1> SUFFICES ASSUME IInv PROVE TypeOK
  OBVIOUS
<1>1. TypeInv /\ SlotInv
  BY DEF IInv
<1>2. SliceOK(xmit)
  <2>1. xmit.ready = {} /\ xmit.isXmitted \subseteq xmit.rxmitMap /\ xmit \in Slice
    BY <1>1 DEF TypeInv, SlotInv
  <2> QED  BY <2>1 DEF SliceOK, Slice
<1>3. SliceOK(rexmit)
  <2>1. /\ rexmit.ready \subseteq participants /\ rexmit.ready \subseteq rexmit.answered
        /\ rexmit.isXmitted \subseteq rexmit.rxmitMap /\ rexmit \in Slice
    BY <1>1 DEF TypeInv, SlotInv
  <2> QED  BY <2>1 DEF SliceOK, Slice
<1>4. Waiting => Used(rexmit) \/ (~Used(xmit) /\ sliceNo = Last + 1)
  BY <1>1, WaitsForIt
<1> QED  BY <1>1, <1>2, <1>3, <1>4 DEF TypeOK, TypeInv

\* The variables have their types, and the sender waits only with a slice to wait for
\* (senddata.c:862).
THEOREM TypeCorrect == Spec => []TypeOK
BY Invariance, TypesFromInv, PTL

\* In half duplex mode no receiver gives up (receivedata.c:366) while it takes part.
THEOREM NobodyGivesUp == Spec => []HalfDuplexKeeps
<1>1. IInv => HalfDuplexKeeps
  BY DEF IInv
<1> QED  BY <1>1, Invariance, PTL

-----------------------------------------------------------------------------
(* The transfer implements Multicast: what it has acknowledged is Acked.  *)

Given == [r \in Receivers |-> rx[r].received + 1]

\* A step of the abstract system, or none.
MStep == M!Next \/ UNCHANGED M!multicastVars

LEMMA AbstractVars ==
    M!multicastVars = <<participants, Acked, Given, stage = "over">>
BY DEF M!multicastVars, Acked, Requested, Given

\* A step of the sender that acknowledges nothing and leaves nobody out.
LEMMA NothingNew ==
    ASSUME UNCHANGED <<participants, rx>>, Acked' = Acked,
           stage # "over", stage' # "over"
    PROVE  MStep
<1>1. Given' = Given
  BY DEF Given
<1>2. (stage = "over")' = (stage = "over")
  OBVIOUS
<1> QED  BY <1>1, <1>2 DEF MStep, M!multicastVars, Acked, Requested, Given

\* Some participants leave.
LEMMA SomeLeave ==
    ASSUME TypeInv, UNCHANGED rx, Acked' = Acked, stage = "loop",
           participants' \subseteq participants, LoopUnlessAlone, participants # {}
    PROVE  MStep
<1>1. Given' = Given
  BY DEF Given
<1>2. CASE participants' = participants
  <2>1. stage' = "loop"
    BY <1>2 DEF LoopUnlessAlone
  <2> QED  BY <2>1, <1>2, NothingNew
<1>3. CASE participants' # participants
  <2> DEFINE gone == participants \ participants'
  <2>1. gone \in SUBSET participants /\ gone # {} /\ participants' = participants \ gone
    BY <1>3
  <2>2. stage # "over" /\ (stage' = "over" <=> participants' = {})
    BY DEF LoopUnlessAlone
  <2>3. M!Leave
    BY <1>1, <2>1, <2>2 DEF M!Leave, Acked, Requested, Given
  <2> QED  BY <2>3 DEF MStep, M!Next
<1> QED  BY <1>2, <1>3

\* A receiver passes on one slice or two, or none.
LEMMA PassesOn ==
    ASSUME IInv, IInv', NEW r \in Receivers, Further(r)
    PROVE  MStep
<1>1. /\ UNCHANGED <<participants, xmit, rexmit, sliceNo, stage>>
      /\ \A q \in Receivers \ {r} : rx'[q] = rx[q]
      /\ rx'[r].received >= rx[r].received
      /\ rx'[r].received < sliceNo /\ -1 <= rx[r].received
      /\ rx[r].received \in Int /\ rx'[r].received \in Int
  BY DEF Further, sender, IInv, ClientInv, TypeInv, Client
<1>2. Acked' = Acked /\ (stage = "over")' = (stage = "over")
  BY <1>1 DEF Acked, Requested, Slot, Used
<1>3. sliceNo <= Acked + 2 /\ sliceNo <= Last + 1 /\ Acked \in Int /\ sliceNo \in Int
  BY Counts, Numbers DEF IInv, TypeInv
<1>4. CASE rx'[r].received = rx[r].received
  <2>1. Given' = Given
    BY <1>1, <1>4 DEF Given
  <2> QED  BY <1>1, <1>2, <2>1 DEF MStep, M!multicastVars, Acked, Requested, Given
<1>5. CASE rx'[r].received > rx[r].received
  <2> DEFINE n == rx'[r].received + 1
  <2>1. n \in Given[r] + 1 .. Last + 1 /\ n <= Acked + 2
    <3> DEFINE old == rx[r].received
               new == rx'[r].received
               acked == Acked
               given == Given[r]
    <3>1. /\ old \in Int /\ new \in Int /\ new > old /\ new < sliceNo /\ n = new + 1
          /\ sliceNo \in Int /\ acked \in Int /\ sliceNo <= acked + 2 /\ sliceNo <= Last + 1
      BY <1>1, <1>3, <1>5
    <3>2. given = old + 1
      BY DEF Given
    <3> HIDE DEF old, new, acked, given, n
    <3>3. n \in given + 1 .. Last + 1 /\ n <= acked + 2
      BY <3>1, <3>2, Numbers
    <3> QED  BY <3>3 DEF acked, given
  <2>2. Given' = [Given EXCEPT ![r] = n]
    BY <1>1 DEF Given
  <2> HIDE DEF n
  <2>3. \E k \in Given[r] + 1 .. Last + 1 : k <= Acked + 2 /\ Given' = [Given EXCEPT ![r] = k]
    BY <2>1, <2>2
  <2>4. M!Give(r)
    BY <1>1, <1>2, <2>3 DEF M!Give, Acked, Requested, Given
  <2> QED  BY <2>4 DEF MStep, M!Next
<1> QED  BY <1>1, <1>4, <1>5

\* All who take part have the slice that is acknowledged.
LEMMA Acknowledged ==
    ASSUME IInv, AckSlice
    PROVE  MStep
<1>1. /\ TypeInv /\ SlotInv /\ HaveInv /\ Used(rexmit) /\ rexmit' = Empty /\ stage = "loop"
      /\ UNCHANGED <<participants, xmit, sliceNo, stage, rx>>
      /\ Cardinality(rexmit.ready) = Cardinality(participants)
  BY DEF IInv, AckSlice, Ready
<1>2. Acked' = Acked + 1 /\ rexmit.no = Acked /\ Acked \in Int /\ Acked < Last + 1
  <2>1. ~Used(rexmit')
    BY <1>1, EmptySlice DEF Used
  <2>2. Requested' = Requested /\ Requested = Acked + 1 /\ rexmit.no = Acked /\ Acked \in Int
        /\ Requested \in Int /\ Requested <= sliceNo /\ sliceNo \in Int
    BY <1>1, Counts DEF Requested, Slot, Used
  <2>3. Acked' = Requested
    BY <2>1, <2>2 DEF Acked, Slot
  <2> QED  BY <2>2, <2>3, <1>1, Numbers DEF TypeInv
<1>3. rexmit.ready = participants
  <2>1. rexmit.ready \in SUBSET participants /\ IsFiniteSet(participants)
    BY <1>1, Numbers, FS_Subset DEF SlotInv, TypeInv
  <2> QED  BY <2>1, <1>1, FS_Subset
<1>4. participants # {}
  BY <1>1 DEF SlotInv
<1>5. \A r \in participants : Given[r] > Acked
  <2>1. \A r \in participants : r \in Receivers /\ rx[r].received \in Int
    BY <1>1 DEF TypeInv, Client
  <2> QED  BY <2>1, <1>1, <1>2, <1>3 DEF HaveInv, Given
<1>6. Given' = Given
  BY <1>1 DEF Given
<1>7. M!Ack
  BY <1>1, <1>2, <1>4, <1>5, <1>6 DEF M!Ack, Acked, Requested, Given
<1> QED  BY <1>7 DEF MStep, M!Next

LEMMA Finished == ASSUME IInv, AtEnd PROVE MStep
<1>1. /\ ~Used(rexmit) /\ ~Used(xmit) /\ stage = "loop" /\ stage' = "over"
      /\ UNCHANGED <<participants, xmit, rexmit, sliceNo, rx>> /\ sliceNo = Last + 1
  BY WaitsForIt DEF IInv, AtEnd, Waiting, Settled
<1>2. Acked' = Acked /\ Acked = Last + 1
  BY <1>1, Numbers DEF Acked, Requested, Slot, Used
<1>3. Given' = Given
  BY <1>1 DEF Given
<1>4. M!Finish
  BY <1>1, <1>2, <1>3 DEF M!Finish, Acked, Requested, Given
<1> QED  BY <1>4 DEF MStep, M!Next

\* The rest of what the sender does is not seen.
LEMMA Unseen ==
    ASSUME IInv,
           \/ Shift \/ Resend \/ AskAgain \/ SendBlock \/ Repeat
           \/ \E r \in Receivers : HandleOk(r) \/ HandleRetransmit(r) \/ IgnoreMessage(r)
    PROVE  MStep
<1>1. TypeInv /\ SlotInv
  BY DEF IInv
<1>2. /\ UNCHANGED <<participants, rx>> /\ stage # "over" /\ stage' # "over"
  BY DEF Shift, Resend, AskAgain, SendBlock, Repeat, HandleOk, HandleRetransmit,
     IgnoreMessage, Message, Settled, Waiting
<1>3. Acked' = Acked
  <2>1. CASE Shift
    <3>1. /\ ~Used(rexmit) /\ Used(xmit) /\ rexmit' = Asked(xmit) /\ xmit' = Empty
          /\ sliceNo' = sliceNo /\ xmit \in Slice /\ Requested \in Int /\ sliceNo \in Int
      BY <2>1, <1>1, Counts DEF Shift, Shiftable, TypeInv
    <3>2. Used(rexmit') /\ ~Used(xmit')
      BY <3>1, EmptySlice, AskedSlice DEF Used
    <3> QED  BY <3>1, <3>2 DEF Acked, Requested, Slot
  <2>2. CASE Resend
    <3>1. \/ rexmit' = [rexmit EXCEPT !.needRxmit = FALSE]
          \/ \E b \in Wanted : rexmit' = [rexmit EXCEPT !.isXmitted = @ \cup {b},
                                                        !.needRxmit = Wanted # {b}]
      BY <2>2 DEF Resend
    <3>2. rexmit'.no = rexmit.no
      BY <3>1, <1>1 DEF TypeInv, Slice
    <3>3. UNCHANGED <<xmit, sliceNo>>
      BY <2>2 DEF Resend
    <3> QED  BY <3>2, <3>3 DEF Acked, Requested, Slot, Used
  <2>3. CASE AskAgain \/ Repeat
    <3>1. rexmit' = Asked(NextRound(rexmit)) /\ UNCHANGED <<xmit, sliceNo>>
      BY <2>3 DEF AskAgain, Repeat
    <3>2. rexmit'.no = rexmit.no
      BY <3>1, <1>1, NextRoundSlice, AskedSlice DEF TypeInv
    <3> QED  BY <3>1, <3>2 DEF Acked, Requested, Slot, Used
  <2>4. CASE SendBlock
    <3>1. Sending.new /\ sliceNo' = xmit'.no + 1 /\ rexmit' = rexmit
          /\ xmit'.no = Sending.no
      BY <2>4, <1>1, EmptySlice, NewSliceSlice, Numbers DEF SendBlock, Sending, TypeInv, Slice
    <3>2. Sending.no = Requested /\ Requested \in Slices
      <4>1. CASE Used(xmit)
        BY <4>1, <1>1, Counts DEF Sending, Used
      <4>2. CASE ~Used(xmit)
        <5>1. sliceNo <= Last
          BY <3>1, <4>2, EmptySlice DEF Sending
        <5>2. sliceNo \in Slices
          BY <5>1, <1>1, Numbers DEF TypeInv
        <5> QED  BY <5>2, <3>1, <4>2, <1>1, Counts, NewSliceSlice, EmptySlice DEF Sending
      <4> QED  BY <4>1, <4>2
    <3>3. Requested \in Int /\ Requested # -1
      BY <3>2, Numbers
    <3>4. Slot(xmit') = 1 /\ sliceNo' = Requested + 1
      BY <3>1, <3>2, <3>3 DEF Slot, Used
    <3> QED  BY <3>1, <3>3, <3>4 DEF Acked, Requested, Slot, Used
  <2>5. ASSUME NEW r \in Receivers, HandleOk(r) \/ HandleRetransmit(r) \/ IgnoreMessage(r)
        PROVE  Acked' = Acked
    <3>1. CASE HandleOk(r)
      <4>1. xmit'.no = xmit.no /\ rexmit'.no = rexmit.no /\ sliceNo' = sliceNo
        BY <3>1, <1>1, ConfirmedSlice DEF HandleOk, OnSlice, Message, TypeInv
      <4> QED  BY <4>1 DEF Acked, Requested, Slot, Used
    <3>2. CASE HandleRetransmit(r)
      <4>1. \A s, m : Wished(s, r, m).no = s.no \/ s \notin Slice
        BY DEF Wished, Slice
      <4>2. xmit'.no = xmit.no /\ rexmit'.no = rexmit.no /\ sliceNo' = sliceNo
        BY <3>2, <4>1, <1>1 DEF HandleRetransmit, OnSlice, Message, TypeInv
      <4> QED  BY <4>2 DEF Acked, Requested, Slot, Used
    <3>3. CASE IgnoreMessage(r)
      BY <3>3 DEF IgnoreMessage, Message, Acked, Requested, Slot, Used
    <3> QED  BY <2>5, <3>1, <3>2, <3>3
  <2> QED  BY <2>1, <2>2, <2>3, <2>4, <2>5
<1> QED  BY <1>2, <1>3, NothingNew

LEMMA DisconnectLeaves ==
    ASSUME IInv, NEW r \in Receivers, HandleDisconnect(r) PROVE MStep
<1>1. /\ TypeInv /\ SlotInv /\ rx' = rx /\ sliceNo' = sliceNo /\ stage = "loop"
      /\ r \in participants /\ participants' = participants \ {r} /\ LoopUnlessAlone
      /\ xmit' = Without(xmit, r) /\ rexmit' = Without(rexmit, r)
  BY DEF IInv, HandleDisconnect, Message, Settled
<1>2. xmit'.no = xmit.no /\ rexmit'.no = rexmit.no
  BY <1>1, WithoutSlice DEF TypeInv
<1>3. Acked' = Acked
  BY <1>1, <1>2 DEF Acked, Requested, Slot, Used
<1> QED  BY <1>1, <1>3, SomeLeave

LEMMA DroppedLeave == ASSUME IInv, Drop PROVE MStep
<1>1. /\ TypeInv /\ SlotInv /\ stage = "loop" /\ LoopUnlessAlone
      /\ participants' = participants \cap rexmit.ready
      /\ UNCHANGED <<xmit, rexmit, sliceNo, rx>>
  BY DEF IInv, Drop, Waiting, Settled
<1>2. participants # {}
  BY <1>1 DEF SlotInv
<1>3. Acked' = Acked
  BY <1>1 DEF Acked, Requested, Slot, Used
<1> QED  BY <1>1, <1>2, <1>3, SomeLeave

LEMMA StepMaps ==
    ASSUME IInv, IInv', [Next]_vars
    PROVE  MStep
<1>1. CASE SenderStep
  BY <1>1, Acknowledged, Finished, Unseen, DisconnectLeaves, DroppedLeave DEF SenderStep
<1>2. CASE \E r \in Receivers : ReceiverStep(r) \/ Quit(r)
  BY <1>2, ReceiverInv, PassesOn
<1>3. CASE UNCHANGED vars
  BY <1>3 DEF vars, sender, MStep, M!multicastVars, Slot, Used
<1> QED  BY <1>1, <1>2, <1>3 DEF Next

LEMMA InitMaps == Init => M!Init
<1> SUFFICES ASSUME Init PROVE M!Init
  OBVIOUS
<1>1. ~Used(xmit) /\ ~Used(rexmit) /\ sliceNo = 0 /\ stage = "loop"
      /\ participants = Receivers /\ \A r \in Receivers : rx[r].received + 1 = 0
  BY EmptySlice DEF Init, Used
<1>2. sliceNo - Slot(xmit) - Slot(rexmit) = 0
  <2>1. Slot(xmit) = 0 /\ Slot(rexmit) = 0
    BY <1>1 DEF Slot
  <2> QED  BY <2>1, <1>1
<1>3. [r \in Receivers |-> rx[r].received + 1] = [r \in Receivers |-> 0]
  BY <1>1
<1>4. (stage = "over") = FALSE
  BY <1>1
<1> QED  BY <1>1, <1>2, <1>3, <1>4 DEF M!Init

\* The transfer (senddata.c, receivedata.c) is a reliable multicast, whatever is lost,
\* comes too early or dies.
THEOREM Refinement == Spec => ImplementsMulticast
<1>1. IInv /\ IInv' /\ [Next]_vars => [M!Next]_M!multicastVars
  BY StepMaps DEF MStep
<1> QED  BY <1>1, InitMaps, Invariance, PTL DEF Spec, ImplementsMulticast, M!Spec
=============================================================================
