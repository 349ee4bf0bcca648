------------------------ MODULE PartedDialogProofs ------------------------
(***************************************************************************)
(* That the dialogs of backharddi with parted_server keep in step, for any *)
(* number of servers, calls and exceptions: a call finds its server ready, *)
(* is executed once and answered, unless a script leaves an exception      *)
(* without an answer or a server is started too soon.                      *)
(***************************************************************************)
EXTENDS PartedDialog, FiniteSetTheorems, FunctionTheorems, SequenceTheorems, TLAPS

Lines(n) ==
    {l \in [what : {"cmd", "choice", "QUIT", "type", "options", "OK", "result"},
            call : 0 .. n, kind : {"open", "plain", "bare", "none"}] :
        l.what = "cmd" => l.call # 0}
Inode(n) ==
    [kind : {"fifo", "file"}, rd : SUBSET Procs, wr : SUBSET Procs, buf : Seq(Lines(n))]

FifoType ==
    /\ inode \in Seq(Inode(made)) /\ path \in [Names -> 0 .. Len(inode)]
    /\ fd \in [Procs -> [Names -> 0 .. Len(inode)]]
    /\ waiting \in [Procs -> 0 .. Len(inode)]

ClientPlaces ==
    {"idle", "start", "forked", "open", "command", "answer", "type", "leave", "options",
     "choice", "result", "close", "sync", "quit", "quitting", "stopping"}
ServerPlaces ==
    {"none", "init", "loop", "read", "open", "run", "raised", "wait", "result", "close",
     "sync", "exit", "in", "out", "stop", "gone", "dead"}

StateType ==
    /\ pidfile \in Procs /\ (pidfile # 0 => spc[pidfile] # "none")
    /\ cpc \in ClientPlaces /\ csync \in 0 .. 5 /\ (cpc = "sync" => csync # 0)
    /\ session \in {"up", "down"} /\ kind \in {"open", "plain", "bare"}
    /\ made \in 0 .. MaxCalls /\ (cpc = "command" => made # 0)
    /\ executed \in Seq(1 .. made) /\ answered \in 0 .. made
    /\ spc \in [Servers -> ServerPlaces] /\ ssync \in [Servers -> 0 .. 5]
    /\ \A s \in Servers : spc[s] = "sync" => ssync[s] # 0
    /\ cmd \in [Servers -> [what : {"cmd", "none"}, call : 0 .. made,
                            kind : {"open", "plain", "bare", "none"}]]
    /\ excs \in [Servers -> 0 .. MaxExc] /\ opened \in [Servers -> BOOLEAN]
    /\ refused \in Procs /\ overtaken \in BOOLEAN

\* What a process has open where it stands.
InDialog == {"open", "run", "raised", "wait", "result", "close"}
Holds ==
    /\ cpc \in {"command", "answer", "type", "leave", "options", "choice", "result",
                "close", "quit", "quitting"} => fd[Client]["infifo"] # 0
    /\ cpc \in {"type", "leave", "options", "choice", "result", "close"} =>
           fd[Client]["outfifo"] # 0
    /\ \A s \in Servers :
           /\ spc[s] \in InDialog \cup {"read"} => fd[s]["infifo"] # 0
           /\ spc[s] \in InDialog => cmd[s].what = "cmd" /\ cmd[s].call # 0
           /\ spc[s] \in InDialog \ {"open"} => fd[s]["outfifo"] # 0
           /\ spc[s] \in {"none", "init", "dead"} =>
                  waiting[s] = 0 /\ \A n \in Names : fd[s][n] = 0

-----------------------------------------------------------------------------
(* The pipes by their names. *)

Rd(n) == inode[path[n]].rd
Wr(n) == inode[path[n]].wr
Buf(n) == inode[path[n]].buf

Pipes ==
    /\ \A n \in Names : path[n] # 0 /\ inode[path[n]].kind = "fifo"
    /\ \A m, n \in Names : m # n => path[m] # path[n]

\* A process that has none of them open, only earlier ones of the same names.
Stale(p) == \A m, n \in Names : fd[p][m] = 0 \/ fd[p][m] # path[n]

\* Client and server of a dialog, and the way each has a pipe open.
CReads(n) == (cpc = "sync" /\ n = "infifo") \/ (cpc # "sync" /\ n = "outfifo")
SReads(s, n) ==
    n = "stopfifo" \/ (spc[s] = "sync" /\ n = "outfifo") \/ (spc[s] # "sync" /\ n = "infifo")

CShape ==
    /\ \A n \in Names : fd[Client][n] \in {0, path[n]}
    /\ IF cpc = "sync"
       THEN \A n \in Names : fd[Client][n] # 0 => n = ClientSync[csync][1]
       ELSE /\ fd[Client]["infifo"] # 0 <=>
                  cpc \in {"command", "answer", "type", "options", "choice", "result",
                           "close", "quit", "quitting"}
            /\ fd[Client]["outfifo"] # 0 <=>
                  cpc \in {"type", "options", "choice", "result", "close"}
            /\ fd[Client]["stopfifo"] = 0

SShape(s) ==
    /\ \A n \in Names : fd[s][n] \in {0, path[n]}
    /\ IF spc[s] = "sync"
       THEN \A n \in Names : fd[s][n] # 0 => n = ServerSync[ssync[s]][1]
       ELSE /\ fd[s]["infifo"] # 0 <=> spc[s] \in InDialog \cup {"read", "exit"}
            /\ fd[s]["outfifo"] # 0 <=> spc[s] \in InDialog \ {"open"}
            /\ fd[s]["stopfifo"] = 0

\* Nobody else has a pipe open.
Ends(s) ==
    \A n \in Names :
        /\ Rd(n) \subseteq {Client, s} /\ Wr(n) \subseteq {Client, s}
        /\ Client \in Rd(n) <=> fd[Client][n] # 0 /\ CReads(n)
        /\ Client \in Wr(n) <=> fd[Client][n] # 0 /\ ~CReads(n)
        /\ s \in Rd(n) <=> fd[s][n] # 0 /\ SReads(s, n)
        /\ s \in Wr(n) <=> fd[s][n] # 0 /\ ~SReads(s, n)

-----------------------------------------------------------------------------
(* Where client and server are: the five pairs of close_dialog are met one after the *)
(* other, and the sixth is infifo for the next command.                              *)

PipeOf(k) == IF k = 6 THEN "infifo" ELSE ClientSync[k][1]

CAt(k) ==
    IF k = 6 THEN cpc \in {"idle", "start", "forked", "open", "command", "quit"}
    ELSE cpc = "sync" /\ csync = k
CBefore(k) == CAt(k) /\ fd[Client][PipeOf(k)] = 0 /\ waiting[Client] = 0
CBlocked(k) == CAt(k) /\ fd[Client][PipeOf(k)] # 0 /\ waiting[Client] = path[PipeOf(k)]
CIn(k) == CAt(k) /\ fd[Client][PipeOf(k)] # 0 /\ waiting[Client] = 0

SAt(s, k) == IF k = 6 THEN spc[s] \in {"loop", "read"} ELSE spc[s] = "sync" /\ ssync[s] = k
SBefore(s, k) == SAt(s, k) /\ fd[s][PipeOf(k)] = 0 /\ waiting[s] = 0
SBlocked(s, k) == SAt(s, k) /\ fd[s][PipeOf(k)] # 0 /\ waiting[s] = path[PipeOf(k)]
SIn(s, k) ==
    IF k = 0 THEN spc[s] = "close" /\ waiting[s] = 0
    ELSE SAt(s, k) /\ fd[s][PipeOf(k)] # 0 /\ waiting[s] = 0

Coming(s, k) == SBefore(s, k) \/ SBlocked(s, k)

\* They are at the k-th meeting, or one of them is about to be.
Meet(s, k) ==
    \/ CBefore(k) /\ (SIn(s, k - 1) \/ Coming(s, k))
    \/ CBlocked(k) /\ (SIn(s, k - 1) \/ SBefore(s, k))
    \/ CIn(k) /\ (SIn(s, k) \/ (k < 6 /\ Coming(s, k + 1)))

\* The server has the device open as soon as a command needs it.
InStep(s) ==
    /\ Buf("infifo") = <<>> /\ Buf("outfifo") = <<>>
    /\ cpc \in {"sync", "idle", "start"} => opened[s]
    /\ cpc = "command" => kind = "open" \/ opened[s]
    /\ cpc = "command" => answered < made /\ ~calls!Executed(made)
    /\ \E k \in 1 .. 6 : Meet(s, k)

\* The command is under way to the server, or the server opens outfifo.
Sent(s) ==
    /\ Buf("outfifo") = <<>>
    /\ kind = "open" \/ opened[s]
    /\ answered < made /\ ~calls!Executed(made)
    /\ \/ spc[s] = "read" /\ waiting[s] = 0 /\ Buf("infifo") = <<Line("cmd", made)>>
       \/ /\ spc[s] \in {"open", "run"} /\ cmd[s] = Line("cmd", made) /\ Buf("infifo") = <<>>
          /\ spc[s] = "open" => waiting[s] = 0
          /\ spc[s] = "run" => cpc = "answer" /\ waiting[s] = path["outfifo"]
    /\ \/ cpc = "answer" /\ waiting[Client] = 0
       \/ cpc = "type" /\ waiting[Client] = path["outfifo"]

\* Both have the pipes open: the command is executed.
Executing(s) ==
    /\ waiting[Client] = 0 /\ waiting[s] = 0 /\ cmd[s] = Line("cmd", made)
    /\ answered < made /\ ~calls!Executed(made)
    /\ LET in == Buf("infifo") out == Buf("outfifo")
           type == Line("type", made) options == Line("options", made)
       IN  \/ cpc = "type" /\ spc[s] = "run" /\ in = <<>> /\ out = <<>>
           \/ cpc = "type" /\ spc[s] = "raised" /\ in = <<>> /\ out = <<type>>
           \/ cpc = "type" /\ spc[s] = "wait" /\ in = <<>> /\ out = <<type, options>>
           \/ cpc = "options" /\ spc[s] = "raised" /\ in = <<>> /\ out = <<>>
           \/ cpc = "options" /\ spc[s] = "wait" /\ in = <<>> /\ out = <<options>>
           \/ cpc = "choice" /\ spc[s] = "wait" /\ in = <<>> /\ out = <<>>
           \/ cpc = "type" /\ spc[s] = "wait" /\ in = <<Line("choice", made)>> /\ out = <<>>

\* It has been: what the client has not read yet.
Replying(s) ==
    /\ waiting[Client] = 0 /\ opened[s] /\ calls!Executed(made) /\ Buf("infifo") = <<>>
    /\ cpc \in {"type", "result"} => answered < made
    /\ LET out == Buf("outfifo") ok == Line("OK", made) result == Line("result", made)
           done == SIn(s, 0) \/ Coming(s, 1)
           on == spc[s] = "result" /\ waiting[s] = 0 /\ cmd[s] = Line("cmd", made)
       IN  \/ cpc = "type" /\ HasAnswer /\ on /\ out = <<ok>>
           \/ cpc = "type" /\ HasAnswer /\ done /\ out = <<ok, result>>
           \/ cpc = "type" /\ ~HasAnswer /\ done /\ out = <<ok>>
           \/ cpc = "result" /\ HasAnswer /\ on /\ out = <<>>
           \/ cpc = "result" /\ HasAnswer /\ done /\ out = <<result>>
           \/ cpc = "close" /\ done /\ out = <<>>

Quitting(s) ==
    /\ cpc \in {"quitting", "stopping"} /\ waiting[Client] = 0 /\ waiting[s] = 0
    /\ \/ spc[s] = "read" /\ Buf("infifo") = <<Line("QUIT", 0)>>
       \/ spc[s] = "exit"

Up(s) ==
    /\ pidfile = s /\ (session = "up" <=> cpc \notin {"quit", "quitting", "stopping"})
    /\ \A q \in Servers : q # s => spc[q] \in {"none", "gone", "dead"} /\ Stale(q)
    /\ Pipes /\ CShape /\ SShape(s) /\ Ends(s) /\ Buf("stopfifo") = <<>>
    /\ InStep(s) \/ Sent(s) \/ Executing(s) \/ Replying(s) \/ Quitting(s)

Down ==
    /\ pidfile = 0
    /\ cpc \in {"idle", "start", "forked", "quitting", "stopping"}
    /\ session = "up" <=> cpc \in {"start", "forked"}
    /\ waiting[Client] = 0
    /\ \A n \in Names : fd[Client][n] # 0 => cpc = "quitting" /\ n = "infifo"
    /\ cpc \in {"start", "forked"} => \A n \in Names : path[n] = 0
    /\ \A s \in Servers : spc[s] \in {"none", "init", "in", "out", "stop", "gone", "dead"}
    /\ IF cpc = "forked"
       THEN \E s \in Servers : /\ spc[s] = "init"
                               /\ \A q \in Servers : q # s => spc[q] \in {"none", "gone", "dead"}
       ELSE \A s \in Servers : spc[s] # "init"

Clean == refused = 0 /\ ~overtaken => Down \/ \E s \in Servers : Up(s)

\* The server whose exception a script left: the next thing it reads is no choice.
Abandoned(s) ==
    LET i == fd[s]["infifo"]
    IN  /\ pidfile = s /\ \A q \in Servers : q # s => spc[q] \in {"none", "gone", "dead"}
        /\ i # 0 /\ s \in inode[i].rd /\ inode[i].kind = "fifo"
        /\ \A n \in Names \ {"infifo"} : path[n] # i /\ \A p \in Procs : fd[p][n] # i
        /\ IF inode[i].buf = <<>>
           THEN fd[Client]["infifo"] = i => cpc \notin {"answer", "type", "options", "choice"}
           ELSE Head(inode[i].buf).what # "choice"

RefusedInv ==
    refused # 0 =>
        \/ spc[refused] \in {"exit", "in", "out", "stop", "gone", "dead"}
        \/ spc[refused] \in {"raised", "wait"} /\ Abandoned(refused)

IInv == FifoType /\ StateType /\ Holds /\ Clean /\ RefusedInv

-----------------------------------------------------------------------------
(* What each operation does to the pipes, whatever their state. *)

LEMMA Constants ==
    /\ Client \in Procs /\ Servers \subseteq Procs /\ Client \notin Servers
    /\ Procs \subseteq Nat /\ \A s \in Servers : s \in Nat /\ s # 0
    /\ Names = {"infifo", "outfifo", "stopfifo"}
    /\ MaxServers \in Nat /\ MaxCalls \in Nat /\ MaxExc \in Nat
<1> QED  BY DialogAssumption DEF Client, Servers

LEMMA LinesGrow ==
    ASSUME NEW j \in Nat, NEW k \in Nat, j <= k
    PROVE  Lines(j) \subseteq Lines(k) /\ Inode(j) \subseteq Inode(k)
<1>1. Lines(j) \subseteq Lines(k)
  BY DEF Lines
<1>2. \A b \in Seq(Lines(j)) : b \in Seq(Lines(k))
  BY <1>1, SeqMonotonic
<1> QED  BY <1>1, <1>2 DEF Inode

LEMMA InodesGrow ==
    ASSUME NEW j \in Nat, NEW k \in Nat, j <= k, NEW q \in Seq(Inode(j))
    PROVE  q \in Seq(Inode(k))
BY LinesGrow, SeqMonotonic

\* The inodes there are.
LEMMA InodeFacts ==
    ASSUME FifoType
    PROVE  /\ Len(inode) \in Nat /\ DOMAIN inode = 1 .. Len(inode)
           /\ \A i \in 1 .. Len(inode) :
                 /\ inode[i] \in Inode(made)
                 /\ inode[i].kind \in {"fifo", "file"} /\ inode[i].buf \in Seq(Lines(made))
                 /\ inode[i].rd \subseteq Procs /\ inode[i].wr \subseteq Procs
<1>1. inode \in Seq(Inode(made))
  BY DEF FifoType
<1>2. Len(inode) \in Nat /\ DOMAIN inode = 1 .. Len(inode)
  BY <1>1, LenProperties
<1>3. \A i \in 1 .. Len(inode) : inode[i] \in Inode(made)
  BY <1>1, ElementOfSeq
<1> QED  BY <1>2, <1>3 DEF Inode

LEMMA FdFacts ==
    ASSUME FifoType
    PROVE  /\ \A p \in Procs, n \in Names : fd[p][n] \in 0 .. Len(inode)
           /\ \A n \in Names : path[n] \in 0 .. Len(inode)
           /\ \A p \in Procs : waiting[p] \in 0 .. Len(inode)
BY DEF FifoType

LEMMA OpenFd ==
    ASSUME FifoType, NEW p \in Procs, NEW n \in Names, NEW mode, Open(p, n, mode)
    PROVE  /\ path'[n] # 0 /\ path'[n] \in 1 .. Len(inode')
           /\ path[n] # 0 => path'[n] = path[n]
           /\ path[n] = 0 => path'[n] = Len(inode) + 1 /\ mode = "w"
           /\ \A m \in Names : m # n => path'[m] = path[m]
           /\ fd'[p][n] = path'[n]
           /\ \A m \in Names : m # n => fd'[p][m] = fd[p][m]
           /\ \A q \in Procs : q # p => fd'[q] = fd[q]
           /\ path' = [path EXCEPT ![n] = path'[n]] /\ fd' = [fd EXCEPT ![p][n] = path'[n]]
<1>1. Len(inode) \in Nat /\ path[n] \in 0 .. Len(inode)
  BY InodeFacts, FdFacts
<1>2. /\ path' = [path EXCEPT ![n] = IF path[n] = 0 THEN Len(inode) + 1 ELSE path[n]]
      /\ fd' = [fd EXCEPT ![p][n] = IF path[n] = 0 THEN Len(inode) + 1 ELSE path[n]]
      /\ path[n] = 0 => mode = "w"
  BY DEF Open
<1>3. path \in [Names -> 0 .. Len(inode)] /\ fd \in [Procs -> [Names -> 0 .. Len(inode)]]
  BY DEF FifoType
<1>4. Len(inode') = IF path[n] = 0 THEN Len(inode) + 1 ELSE Len(inode)
  <2>1. inode \in Seq(Inode(made))
    BY DEF FifoType
  <2>2. CASE path[n] = 0
    <3>1. PICK x : inode' = Append(inode, x)
      BY <2>2 DEF Open
    <3> QED  BY <2>1, <2>2, <3>1
  <2>3. CASE path[n] # 0
    <3>1. PICK x : inode' = [inode EXCEPT ![path[n]] = x]
      BY <2>3 DEF Open
    <3> QED  BY <2>1, <2>3, <3>1
  <2> QED  BY <2>2, <2>3
<1>5. path'[n] = IF path[n] = 0 THEN Len(inode) + 1 ELSE path[n]
  BY <1>2, <1>3
<1>6. path'[n] \in 1 .. Len(inode')
  BY <1>1, <1>4, <1>5
<1>7. fd'[p] = [fd[p] EXCEPT ![n] = path'[n]] /\ \A q \in Procs : q # p => fd'[q] = fd[q]
  BY <1>2, <1>3, <1>5
<1> QED  BY <1>2, <1>3, <1>5, <1>6, <1>7

\* Opening a name there is.
LEMMA OpenThere ==
    ASSUME FifoType, NEW p \in Procs, NEW n \in Names, NEW mode \in {"r", "w"}, Open(p, n, mode),
           path[n] # 0
    PROVE  /\ path' = path /\ Len(inode') = Len(inode) /\ DOMAIN inode' = DOMAIN inode
           /\ \A i \in 1 .. Len(inode) : i # path[n] => inode'[i] = inode[i]
           /\ inode'[path[n]] \in Inode(made)
           /\ inode'[path[n]].kind = inode[path[n]].kind
           /\ inode'[path[n]].rd =
                  IF mode = "r" THEN inode[path[n]].rd \cup {p} ELSE inode[path[n]].rd
           /\ inode'[path[n]].wr =
                  IF mode = "w" THEN inode[path[n]].wr \cup {p} ELSE inode[path[n]].wr
           /\ inode[path[n]].kind = "fifo" => inode'[path[n]].buf = inode[path[n]].buf
           /\ inode'[path[n]].buf \in {inode[path[n]].buf, <<>>}
           /\ inode' \in Seq(Inode(made))
<1> DEFINE i == path[n]
           node == inode[i]
           joined == [node EXCEPT !.rd = IF mode = "r" THEN @ \cup {p} ELSE @,
                                  !.wr = IF mode = "w" THEN @ \cup {p} ELSE @,
                                  !.buf = IF node.kind = "file" /\ mode = "w" THEN <<>> ELSE @]
<1>1. path' = [path EXCEPT ![n] = i] /\ inode' = [inode EXCEPT ![i] = joined]
  BY DEF Open
<1>2. path' = path
  BY <1>1 DEF FifoType
<1>3. i \in 1 .. Len(inode) /\ node \in Inode(made) /\ inode \in Seq(Inode(made))
  BY InodeFacts, FdFacts DEF FifoType
<1> HIDE DEF i, node
<1>8. /\ node.kind \in {"fifo", "file"} /\ node.rd \subseteq Procs /\ node.wr \subseteq Procs
       /\ node.buf \in Seq(Lines(made)) /\ <<>> \in Seq(Lines(made))
  BY <1>3, EmptySeq DEF Inode
<1>4. /\ joined \in Inode(made) /\ joined.kind = node.kind
      /\ joined.rd = IF mode = "r" THEN node.rd \cup {p} ELSE node.rd
      /\ joined.wr = IF mode = "w" THEN node.wr \cup {p} ELSE node.wr
      /\ joined.buf = IF node.kind = "file" /\ mode = "w" THEN <<>> ELSE node.buf
  BY <1>3, <1>8 DEF Inode
<1> HIDE DEF joined
<1>5. /\ inode' \in Seq(Inode(made)) /\ Len(inode') = Len(inode)
      /\ \A j \in 1 .. Len(inode) : inode'[j] = IF j = i THEN joined ELSE inode[j]
  BY <1>1, <1>3, <1>4, ExceptSeq
<1>6. DOMAIN inode' = DOMAIN inode
  BY <1>3, <1>5, LenProperties
<1>7. inode'[i] = joined
  BY <1>3, <1>5
<1> QED  BY <1>2, <1>3, <1>4, <1>5, <1>6, <1>7 DEF i, node

\* Opening a name there is not, to write into it.
LEMMA OpenNew ==
    ASSUME FifoType, NEW p \in Procs, NEW n \in Names, NEW mode \in {"r", "w"}, Open(p, n, mode),
           path[n] = 0
    PROVE  /\ Len(inode') = Len(inode) + 1
           /\ \A i \in 1 .. Len(inode) : inode'[i] = inode[i]
           /\ inode'[Len(inode) + 1].kind = "file" /\ inode'[Len(inode) + 1].rd = {}
           /\ inode'[Len(inode) + 1].wr = {p} /\ inode'[Len(inode) + 1].buf = <<>>
           /\ inode' \in Seq(Inode(made)) /\ waiting'[p] = 0
           /\ \A q \in Procs : q # p => waiting'[q] = waiting[q]
<1> DEFINE node == NewInode("file")
           joined == [node EXCEPT !.rd = IF mode = "r" THEN @ \cup {p} ELSE @,
                                  !.wr = IF mode = "w" THEN @ \cup {p} ELSE @,
                                  !.buf = IF node.kind = "file" /\ mode = "w" THEN <<>> ELSE @]
<1>1. inode' = Append(inode, joined) /\ mode = "w"
  BY DEF Open
<1>7. /\ node \in Inode(made) /\ <<>> \in Seq(Lines(made))
      /\ node.kind = "file" /\ node.rd = {} /\ node.wr = {} /\ node.buf = <<>>
  BY EmptySeq DEF NewInode, Inode
<1>3. joined \in Inode(made)
  <2> HIDE DEF node
  <2> QED  BY <1>7 DEF Inode
<1>2. joined.kind = "file" /\ joined.rd = {} /\ joined.wr = {p} /\ joined.buf = <<>>
  <2> HIDE DEF node
  <2> QED  BY <1>1, <1>7 DEF Inode
<1>4. inode \in Seq(Inode(made)) /\ Len(inode) \in Nat
  BY InodeFacts DEF FifoType
<1>5. waiting' = [q \in Procs |-> IF q = p THEN 0 ELSE waiting[q]]
  <2>1. node.kind = "file" /\ node.rd = {} /\ node.wr = {}
    BY DEF NewInode
  <2>2. /\ p \in Procs
        /\ waiting' = [q \in Procs |->
              IF q = p THEN IF node.kind = "file" \/ node.rd # {} THEN 0 ELSE Len(inode) + 1
              ELSE IF q \in node.rd /\ waiting[q] = Len(inode) + 1 THEN 0 ELSE waiting[q]]
    BY <1>1 DEF Open
  <2> HIDE DEF node
  <2> QED  BY <2>1, <2>2
<1> HIDE DEF joined
<1>6. /\ inode' \in Seq(Inode(made)) /\ Len(inode') = Len(inode) + 1
      /\ \A j \in 1 .. Len(inode) : inode'[j] = inode[j]
      /\ inode'[Len(inode) + 1] = joined
  BY <1>1, <1>3, <1>4
<1> QED  BY <1>2, <1>5, <1>6

\* Who waits in open().
LEMMA OpenWaiting ==
    ASSUME FifoType, NEW p \in Procs, NEW n \in Names, NEW mode \in {"r", "w"}, Open(p, n, mode),
           path[n] # 0,
           NEW there, there = IF mode = "r" THEN inode[path[n]].wr ELSE inode[path[n]].rd
    PROVE  /\ waiting'[p] = IF inode[path[n]].kind = "file" \/ there # {} THEN 0 ELSE path[n]
           /\ \A q \in Procs : q # p =>
                  waiting'[q] = IF q \in there /\ waiting[q] = path[n] THEN 0 ELSE waiting[q]
<1>1. waiting' = [q \in Procs |->
              IF q = p THEN IF inode[path[n]].kind = "file" \/ there # {} THEN 0 ELSE path[n]
              ELSE IF q \in there /\ waiting[q] = path[n] THEN 0 ELSE waiting[q]]
  BY DEF Open
<1> QED  BY <1>1

LEMMA OpenType ==
    ASSUME FifoType, NEW p \in Procs, NEW n \in Names, NEW mode \in {"r", "w"}, Open(p, n, mode),
           made \in Nat, made' \in Nat, made <= made'
    PROVE  FifoType' /\ Len(inode') >= Len(inode)
<1>1. Len(inode) \in Nat
  BY InodeFacts
<1>2. inode' \in Seq(Inode(made)) /\ Len(inode') \in Nat /\ Len(inode') >= Len(inode)
  <2>1. CASE path[n] = 0
    BY <1>1, <2>1, OpenNew
  <2>2. CASE path[n] # 0
    BY <1>1, <2>2, OpenThere
  <2> QED  BY <2>1, <2>2
<1>3. inode' \in Seq(Inode(made'))
  BY <1>2, InodesGrow
<1>4. path' \in [Names -> 0 .. Len(inode')]
  <2>1. /\ path \in [Names -> 0 .. Len(inode)]
        /\ path' = [path EXCEPT ![n] = path'[n]] /\ path'[n] \in 1 .. Len(inode')
    BY OpenFd DEF FifoType
  <2> HIDE DEF Open
  <2>2. \A m \in Names : path'[m] \in 0 .. Len(inode')
    BY <1>1, <1>2, <2>1
  <2>3. path' \in [Names -> 0 .. Len(inode')]
    BY <2>1, <2>2
  <2> QED  BY <2>3
<1>5. fd' \in [Procs -> [Names -> 0 .. Len(inode')]]
  <2>1. /\ fd \in [Procs -> [Names -> 0 .. Len(inode)]] /\ path'[n] \in 1 .. Len(inode')
        /\ fd' = [fd EXCEPT ![p][n] = path'[n]]
    BY OpenFd DEF FifoType
  <2>2. fd \in [Procs -> [Names -> 0 .. Len(inode')]]
    BY <1>1, <1>2, <2>1
  <2> QED  BY <1>2, <2>1, <2>2
<1>6. waiting' \in [Procs -> 0 .. Len(inode')]
  <2>1. \A q \in Procs : waiting'[q] \in 0 .. Len(inode')
    <3>1. CASE path[n] = 0
      BY <1>1, <1>2, <3>1, OpenNew, FdFacts
    <3>2. CASE path[n] # 0
      <4>1. \A q \in Procs : waiting'[q] \in {0, path[n], waiting[q]}
        BY <3>2, OpenWaiting
      <4> HIDE DEF Open
      <4> QED  BY <1>1, <1>2, <4>1, FdFacts
    <3> QED  BY <3>1, <3>2
  <2>2. DOMAIN waiting' = Procs /\ waiting' = [q \in Procs |-> waiting'[q]]
    <3>1. PICK f : f = waiting'
      OBVIOUS
    <3>2. waiting' = [q \in Procs |-> waiting'[q]]
      BY DEF Open
    <3> QED  BY <3>2
  <2> QED  BY <2>1, <2>2
<1> QED  BY <1>2, <1>3, <1>4, <1>5, <1>6 DEF FifoType

\* A sequence of inodes of the same length, each of its type.
LEMMA SameLength ==
    ASSUME FifoType, NEW f, DOMAIN f = DOMAIN inode, f = [i \in DOMAIN inode |-> f[i]],
           \A i \in 1 .. Len(inode) : f[i] \in Inode(made)
    PROVE  f \in Seq(Inode(made)) /\ Len(f) = Len(inode)
<1>1. DOMAIN inode = 1 .. Len(inode) /\ Len(inode) \in Nat
  BY InodeFacts
<1>2. f \in [1 .. Len(inode) -> Inode(made)]
  BY <1>1
<1> QED  BY <1>1, <1>2, SeqDef

\* What holds of the other variables of the pipes when inodes keep their number.
LEMMA KeepType ==
    ASSUME FifoType, made \in Nat, made' \in Nat, made <= made',
           inode' \in Seq(Inode(made)), Len(inode') = Len(inode),
           path' \in [Names -> 0 .. Len(inode)],
           fd' \in [Procs -> [Names -> 0 .. Len(inode)]], waiting' \in [Procs -> 0 .. Len(inode)]
    PROVE  FifoType'
<1>1. inode' \in Seq(Inode(made'))
  BY InodesGrow
<1> QED  BY <1>1 DEF FifoType

LEMMA CloseInodes ==
    ASSUME FifoType, NEW p \in Procs, NEW S \in SUBSET Names, Close(p, S)
    PROVE  /\ Len(inode') = Len(inode) /\ DOMAIN inode' = DOMAIN inode
           /\ inode' \in Seq(Inode(made))
           /\ \A i \in 1 .. Len(inode) :
                 IF \E n \in S : fd[p][n] = i
                 THEN /\ inode'[i].kind = inode[i].kind
                      /\ inode'[i].rd = inode[i].rd \ {p} /\ inode'[i].wr = inode[i].wr \ {p}
                      /\ inode'[i].buf =
                             IF inode[i].kind = "fifo" /\ inode[i].rd \cup inode[i].wr \subseteq {p}
                             THEN <<>> ELSE inode[i].buf
                 ELSE inode'[i] = inode[i]
<1> DEFINE held == { fd[p][n] : n \in S } \ {0}
           left(x) == [x EXCEPT !.rd = @ \ {p}, !.wr = @ \ {p},
                             !.buf = IF x.kind = "fifo" /\ x.rd \cup x.wr \subseteq {p}
                                     THEN <<>> ELSE @]
<1>1. inode' = [i \in DOMAIN inode |-> IF i \in held THEN left(inode[i]) ELSE inode[i]]
  BY DEF Close
<1>2. Len(inode) \in Nat /\ DOMAIN inode = 1 .. Len(inode)
      /\ \A i \in 1 .. Len(inode) : inode[i] \in Inode(made) /\ i # 0
  BY InodeFacts
<1>3. \A i \in 1 .. Len(inode) :
         LET x == inode[i] y == left(x)
         IN  /\ y \in Inode(made) /\ y.kind = x.kind /\ y.rd = x.rd \ {p} /\ y.wr = x.wr \ {p}
             /\ y.buf = IF x.kind = "fifo" /\ x.rd \cup x.wr \subseteq {p} THEN <<>> ELSE x.buf
  <2> TAKE i \in 1 .. Len(inode)
  <2>1. inode[i] \in Inode(made)
    BY <1>2
  <2>2. PICK x : x = inode[i]
    OBVIOUS
  <2>3. PICK y : y = left(x)
    OBVIOUS
  <2>4. /\ x \in Inode(made)
        /\ y = [x EXCEPT !.rd = @ \ {p}, !.wr = @ \ {p},
                         !.buf = IF x.kind = "fifo" /\ x.rd \cup x.wr \subseteq {p}
                                 THEN <<>> ELSE @]
    BY <2>1, <2>2, <2>3
  <2> HIDE DEF left
  <2>5. /\ y \in Inode(made) /\ y.kind = x.kind /\ y.rd = x.rd \ {p} /\ y.wr = x.wr \ {p}
        /\ y.buf = IF x.kind = "fifo" /\ x.rd \cup x.wr \subseteq {p} THEN <<>> ELSE x.buf
    <3>1. /\ x.kind \in {"fifo", "file"} /\ x.rd \subseteq Procs /\ x.wr \subseteq Procs
          /\ x.buf \in Seq(Lines(made)) /\ <<>> \in Seq(Lines(made))
      BY <2>4, EmptySeq DEF Inode
    <3> QED  BY <2>4, <3>1 DEF Inode
  <2> QED  BY <2>2, <2>3, <2>5
<1>4. \A i \in 1 .. Len(inode) : i \in held <=> \E n \in S : fd[p][n] = i
  BY <1>2
<1> HIDE DEF held, left
<1>5. \A i \in 1 .. Len(inode) : inode'[i] = IF i \in held THEN left(inode[i]) ELSE inode[i]
  BY <1>1, <1>2
<1>6. /\ DOMAIN inode' = DOMAIN inode /\ inode' = [i \in DOMAIN inode |-> inode'[i]]
      /\ \A i \in 1 .. Len(inode) : inode'[i] \in Inode(made)
  BY <1>1, <1>2, <1>3, <1>5
<1>7. inode' \in Seq(Inode(made)) /\ Len(inode') = Len(inode)
  BY <1>6, SameLength
<1> QED  BY <1>3, <1>4, <1>5, <1>6, <1>7

LEMMA CloseFds ==
    ASSUME FifoType, NEW p \in Procs, NEW S \in SUBSET Names, Close(p, S)
    PROVE  /\ path' = path /\ waiting'[p] = 0
           /\ \A m \in Names : fd'[p][m] = IF m \in S THEN 0 ELSE fd[p][m]
           /\ \A q \in Procs : q # p => fd'[q] = fd[q] /\ waiting'[q] = waiting[q]
<1>1. fd \in [Procs -> [Names -> 0 .. Len(inode)]] /\ waiting \in [Procs -> 0 .. Len(inode)]
  BY DEF FifoType
<1>2. /\ path' = path /\ waiting' = [waiting EXCEPT ![p] = 0]
      /\ fd' = [fd EXCEPT ![p] = [n \in Names |-> IF n \in S THEN 0 ELSE fd[p][n]]]
  BY DEF Close
<1>3. fd'[p] = [n \in Names |-> IF n \in S THEN 0 ELSE fd[p][n]]
  BY <1>1, <1>2
<1>4. waiting'[p] = 0 /\ \A q \in Procs : q # p => fd'[q] = fd[q] /\ waiting'[q] = waiting[q]
  BY <1>1, <1>2
<1> QED  BY <1>2, <1>3, <1>4

LEMMA CloseType ==
    ASSUME FifoType, NEW p \in Procs, NEW S \in SUBSET Names, Close(p, S),
           made \in Nat, made' = made
    PROVE  FifoType' /\ Len(inode') = Len(inode)
<1>1. Len(inode) \in Nat /\ inode' \in Seq(Inode(made)) /\ Len(inode') = Len(inode)
  BY InodeFacts, CloseInodes
<1>2. /\ path \in [Names -> 0 .. Len(inode)] /\ waiting \in [Procs -> 0 .. Len(inode)]
      /\ fd \in [Procs -> [Names -> 0 .. Len(inode)]]
  BY DEF FifoType
<1>3. /\ path' = path /\ waiting' = [waiting EXCEPT ![p] = 0]
      /\ fd' = [fd EXCEPT ![p] = [n \in Names |-> IF n \in S THEN 0 ELSE fd[p][n]]]
  BY DEF Close
<1>4. [n \in Names |-> IF n \in S THEN 0 ELSE fd[p][n]] \in [Names -> 0 .. Len(inode)]
  BY <1>1, <1>2
<1>5. /\ path' \in [Names -> 0 .. Len(inode)] /\ waiting' \in [Procs -> 0 .. Len(inode)]
  BY <1>1, <1>2, <1>3
<1>6. fd' \in [Procs -> [Names -> 0 .. Len(inode)]]
  BY <1>2, <1>3, <1>4
<1>7. FifoType'
  BY <1>1, <1>5, <1>6, KeepType
<1> QED  BY <1>1, <1>7

LEMMA PutNode ==
    ASSUME FifoType, NEW p \in Procs, NEW n \in Names, NEW line \in Lines(made),
           Put(p, n, line), fd[p][n] # 0, made \in Nat, made' = made
    PROVE  /\ FifoType' /\ UNCHANGED <<path, fd, waiting>> /\ Len(inode') = Len(inode)
           /\ \A i \in 1 .. Len(inode) :
                 /\ i # fd[p][n] => inode'[i] = inode[i]
                 /\ inode'[i].kind = inode[i].kind
                 /\ inode'[i].rd = inode[i].rd /\ inode'[i].wr = inode[i].wr
           /\ inode'[fd[p][n]].buf =
                 IF inode[fd[p][n]].kind = "file" /\ Len(inode[fd[p][n]].buf) >= FileLines
                 THEN inode[fd[p][n]].buf ELSE Append(inode[fd[p][n]].buf, line)
           /\ inode[fd[p][n]].kind = "file" \/ inode[fd[p][n]].rd # {}
<1> DEFINE k == fd[p][n]
           x == inode[k]
           b == IF x.kind = "file" /\ Len(x.buf) >= FileLines THEN x.buf ELSE Append(x.buf, line)
           y == [x EXCEPT !.buf = b]
<1>1. k \in 1 .. Len(inode) /\ inode \in Seq(Inode(made)) /\ x \in Inode(made)
  BY FdFacts, InodeFacts DEF FifoType
<1>2. /\ inode' = [inode EXCEPT ![k] = y] /\ UNCHANGED <<path, fd, waiting>>
      /\ x.kind = "file" \/ x.rd # {}
  <2>1. inode' = [inode EXCEPT ![k].buf = b]
    BY DEF Put, At
  <2> HIDE DEF b
  <2>2. inode' = [inode EXCEPT ![k] = [inode[k] EXCEPT !.buf = b]]
    BY <2>1
  <2> QED  BY <2>2 DEF Put, Delivered, At
<1>3. b \in Seq(Lines(made))
  BY <1>1 DEF Inode
<1> HIDE DEF b, k
<1>4. y \in Inode(made) /\ y.kind = x.kind /\ y.rd = x.rd /\ y.wr = x.wr /\ y.buf = b
  BY <1>1, <1>3 DEF Inode
<1> HIDE DEF x, y
<1>5. /\ inode' \in Seq(Inode(made)) /\ Len(inode') = Len(inode)
      /\ \A j \in 1 .. Len(inode) : inode'[j] = IF j = k THEN y ELSE inode[j]
  BY <1>1, <1>2, <1>4, ExceptSeq
<1>6. FifoType'
  BY <1>2, <1>5, KeepType DEF FifoType
<1>7. inode'[k] = y /\ x = inode[k]
  BY <1>1, <1>5 DEF x
<1>8. \A i \in 1 .. Len(inode) :
          /\ inode'[i].kind = inode[i].kind
          /\ inode'[i].rd = inode[i].rd /\ inode'[i].wr = inode[i].wr
  BY <1>4, <1>5, <1>7
<1> QED  BY <1>2, <1>4, <1>5, <1>6, <1>7, <1>8 DEF k, b

LEMMA TakeNode ==
    ASSUME FifoType, NEW p \in Procs, NEW n \in Names, Readable(p, n),
           Take(p, n), fd[p][n] # 0, made \in Nat, made' = made
    PROVE  /\ FifoType' /\ UNCHANGED <<path, fd, waiting>> /\ Len(inode') = Len(inode)
           /\ \A i \in 1 .. Len(inode) :
                 /\ i # fd[p][n] => inode'[i] = inode[i]
                 /\ inode'[i].kind = inode[i].kind
                 /\ inode'[i].rd = inode[i].rd /\ inode'[i].wr = inode[i].wr
           /\ inode[fd[p][n]].buf # <<>>
           /\ Head(inode[fd[p][n]].buf) \in Lines(made)
           /\ inode'[fd[p][n]].buf = Tail(inode[fd[p][n]].buf)
<1> DEFINE k == fd[p][n]
           x == inode[k]
           b == Tail(x.buf)
           y == [x EXCEPT !.buf = b]
<1>1. k \in 1 .. Len(inode) /\ inode \in Seq(Inode(made)) /\ x \in Inode(made)
  BY FdFacts, InodeFacts DEF FifoType
<1>2. /\ inode' = [inode EXCEPT ![k] = y] /\ UNCHANGED <<path, fd, waiting>> /\ x.buf # <<>>
  <2>1. inode' = [inode EXCEPT ![k].buf = Tail(inode[k].buf)]
    BY DEF Take, At
  <2>2. inode' = [inode EXCEPT ![k] = [inode[k] EXCEPT !.buf = Tail(inode[k].buf)]]
    BY <2>1
  <2> QED  BY <2>2 DEF Take, Readable, At
<1>3. b \in Seq(Lines(made)) /\ Head(x.buf) \in Lines(made)
  <2>1. x.buf \in Seq(Lines(made))
    BY <1>1 DEF Inode
  <2> HIDE DEF x
  <2> QED  BY <1>2, <2>1, HeadTailProperties
<1> HIDE DEF b, k
<1>4. y \in Inode(made) /\ y.kind = x.kind /\ y.rd = x.rd /\ y.wr = x.wr /\ y.buf = b
  BY <1>1, <1>3 DEF Inode
<1> HIDE DEF x, y
<1>5. /\ inode' \in Seq(Inode(made)) /\ Len(inode') = Len(inode)
      /\ \A j \in 1 .. Len(inode) : inode'[j] = IF j = k THEN y ELSE inode[j]
  BY <1>1, <1>2, <1>4, ExceptSeq
<1>6. FifoType'
  BY <1>2, <1>5, KeepType DEF FifoType
<1>7. inode'[k] = y /\ x = inode[k]
  BY <1>1, <1>5 DEF x
<1>8. \A i \in 1 .. Len(inode) :
          /\ inode'[i].kind = inode[i].kind
          /\ inode'[i].rd = inode[i].rd /\ inode'[i].wr = inode[i].wr
  BY <1>4, <1>5, <1>7
<1> QED  BY <1>2, <1>3, <1>4, <1>5, <1>6, <1>7, <1>8 DEF k, b

LEMMA UnlinkType ==
    ASSUME FifoType, NEW S \in SUBSET Names, Unlink(S), made \in Nat, made' = made
    PROVE  /\ FifoType' /\ UNCHANGED <<inode, fd, waiting>>
           /\ \A n \in Names : path'[n] = IF n \in S THEN 0 ELSE path[n]
<1>1. path' = [n \in Names |-> IF n \in S THEN 0 ELSE path[n]] /\ UNCHANGED <<inode, fd, waiting>>
  BY DEF Unlink
<1>2. Len(inode) \in Nat
  BY InodeFacts
<1>3. path' \in [Names -> 0 .. Len(inode)]
  BY <1>1, <1>2 DEF FifoType
<1> QED  BY <1>1, <1>3 DEF FifoType

\* The missing names are numbered, each with its own number.
LEMMA Numbering ==
    ASSUME NEW S, IsFiniteSet(S)
    PROVE  /\ Cardinality(S) \in Nat
           /\ \E f \in [S -> 1 .. Cardinality(S)] : \A m, n \in S : f[m] = f[n] => m = n
<1>1. Cardinality(S) \in Nat /\ ExistsBijection(1 .. Cardinality(S), S)
  BY FS_CardinalityType
<1>2. ExistsBijection(S, 1 .. Cardinality(S))
  BY <1>1, Fun_ExistsBijSymmetric
<1>3. PICK f : f \in Bijection(S, 1 .. Cardinality(S))
  BY <1>2 DEF ExistsBijection
<1> QED  BY <1>1, <1>3 DEF Bijection, Injection, IsInjective

LEMMA MadeFifos ==
    ASSUME FifoType, MakeFifos, made \in Nat, made' = made
    PROVE  /\ FifoType' /\ UNCHANGED <<fd, waiting>>
           /\ Len(inode') >= Len(inode)
           /\ \A i \in 1 .. Len(inode) : inode'[i] = inode[i]
           /\ \A n \in Names :
                 IF path[n] # 0 THEN path'[n] = path[n]
                 ELSE /\ path'[n] \in Len(inode) + 1 .. Len(inode')
                      /\ inode'[path'[n]].kind = "fifo" /\ inode'[path'[n]].buf = <<>>
                      /\ inode'[path'[n]].rd = {} /\ inode'[path'[n]].wr = {}
           /\ \A m, n \in Names : path[m] = 0 /\ path[n] = 0 /\ m # n => path'[m] # path'[n]
<1> DEFINE missing == { n \in Names : path[n] = 0 }
           c == Cardinality(missing)
           number == CHOOSE f \in [missing -> 1 .. c] :
                         \A m, n \in missing : f[m] = f[n] => m = n
           new == [i \in 1 .. c |-> NewInode("fifo")]
<1>1. /\ path' = [n \in Names |-> IF n \in missing THEN Len(inode) + number[n] ELSE path[n]]
      /\ inode' = inode \o new /\ UNCHANGED <<fd, waiting>>
  BY DEF MakeFifos
<1>2. IsFiniteSet(missing)
  <2>1. IsFiniteSet(Names)
    <3>1. IsFiniteSet({"infifo"})
      BY FS_Singleton
    <3>2. IsFiniteSet({"infifo"} \cup {"outfifo"})
      BY <3>1, FS_AddElement
    <3>3. IsFiniteSet({"infifo"} \cup {"outfifo"} \cup {"stopfifo"})
      BY <3>2, FS_AddElement
    <3>4. Names = {"infifo"} \cup {"outfifo"} \cup {"stopfifo"}
      BY Constants
    <3> QED  BY <3>3, <3>4
  <2> QED  BY <2>1, FS_Subset
<1>3. c \in Nat
  BY <1>2, Numbering
<1>4. number \in [missing -> 1 .. c] /\ \A m, n \in missing : number[m] = number[n] => m = n
  BY <1>2, Numbering
<1>5. \A n \in Names : n \in missing <=> path[n] = 0
  OBVIOUS
<1>6. inode \in Seq(Inode(made)) /\ Len(inode) \in Nat /\ path \in [Names -> 0 .. Len(inode)]
  BY InodeFacts DEF FifoType
<1>7. /\ NewInode("fifo").kind = "fifo" /\ NewInode("fifo").buf = <<>>
      /\ NewInode("fifo").rd = {} /\ NewInode("fifo").wr = {}
      /\ NewInode("fifo") \in Inode(made)
  BY EmptySeq DEF NewInode, Inode
<1> HIDE DEF missing, c, number
<1>8. new \in Seq(Inode(made)) /\ Len(new) = c /\ \A i \in 1 .. c : new[i] = NewInode("fifo")
  <2>1. new \in [1 .. c -> Inode(made)] /\ DOMAIN new = 1 .. c
    BY <1>7
  <2>2. new \in Seq(Inode(made))
    BY <1>3, <2>1, SeqDef
  <2>3. Len(new) = c
    BY <1>3, <2>1, <2>2, LenProperties
  <2>4. \A i \in 1 .. c : new[i] = NewInode("fifo")
    OBVIOUS
  <2> QED  BY <2>2, <2>3, <2>4
<1> HIDE DEF new
<1>9. /\ inode' \in Seq(Inode(made)) /\ Len(inode') = Len(inode) + c
      /\ \A i \in 1 .. Len(inode) + c :
             inode'[i] = IF i <= Len(inode) THEN inode[i] ELSE new[i - Len(inode)]
  BY <1>1, <1>6, <1>8, ConcatProperties
<1>10. \A i \in 1 .. Len(inode) : inode'[i] = inode[i]
  BY <1>3, <1>6, <1>9
<1>11. \A n \in Names : path'[n] = IF path[n] = 0 THEN Len(inode) + number[n] ELSE path[n]
  BY <1>1, <1>5
<1>12. \A n \in Names : path[n] = 0 =>
           number[n] \in 1 .. c /\ path'[n] \in Len(inode) + 1 .. Len(inode')
  BY <1>3, <1>4, <1>5, <1>6, <1>9, <1>11
<1>13. \A n \in Names : path[n] = 0 => inode'[path'[n]] = NewInode("fifo")
  <2> TAKE n \in Names
  <2> HAVE path[n] = 0
  <2> DEFINE k == number[n]
  <2>1. k \in 1 .. c /\ path'[n] = Len(inode) + k
    BY <1>11, <1>12
  <2> HIDE DEF k
  <2>2. inode'[Len(inode) + k] = new[k]
    BY <1>3, <1>6, <1>9, <2>1
  <2> QED  BY <1>8, <2>1, <2>2
<1>14. \A m, n \in Names : path[m] = 0 /\ path[n] = 0 /\ m # n => path'[m] # path'[n]
  <2> SUFFICES ASSUME NEW m \in Names, NEW n \in Names, path[m] = 0, path[n] = 0,
                      path'[m] = path'[n]
               PROVE  m = n
    OBVIOUS
  <2>1. number[m] \in Nat /\ number[n] \in Nat
    BY <1>3, <1>12
  <2>2. number[m] = number[n]
    BY <1>6, <1>11, <2>1
  <2> QED  BY <1>4, <1>5, <2>2
<1>15. FifoType'
  <2>1. Len(inode') \in Nat /\ Len(inode') >= Len(inode)
    BY <1>3, <1>6, <1>9
  <2>2. path' \in [Names -> 0 .. Len(inode')]
    <3>1. \A n \in Names : path'[n] \in 0 .. Len(inode')
      BY <1>6, <1>11, <1>12, <2>1
    <3>2. path' = [n \in Names |-> path'[n]]
      BY <1>1
    <3> QED  BY <3>1, <3>2
  <2>3. fd' \in [Procs -> [Names -> 0 .. Len(inode')]] /\ waiting' \in [Procs -> 0 .. Len(inode')]
    <3>1. 0 .. Len(inode) \subseteq 0 .. Len(inode')
      BY <1>6, <2>1
    <3>2. fd \in [Procs -> [Names -> 0 .. Len(inode)]] /\ waiting \in [Procs -> 0 .. Len(inode)]
      BY DEF FifoType
    <3> QED  BY <1>1, <3>1, <3>2
  <2> QED  BY <1>9, <2>2, <2>3 DEF FifoType
<1>16. Len(inode') >= Len(inode)
  BY <1>3, <1>6, <1>9
<1> QED  BY <1>1, <1>7, <1>10, <1>11, <1>12, <1>13, <1>14, <1>15, <1>16

-----------------------------------------------------------------------------
(* Types, and what each has open where it stands. *)

TypeInv == FifoType /\ StateType /\ Holds

\* A process uses a pipe: nobody else's descriptors change, and who waits may go on.
Others(p) ==
    \A q \in Procs : q # p => fd'[q] = fd[q] /\ waiting'[q] \in {waiting[q], 0}

LEMMA OpenUse ==
    ASSUME TypeInv, NEW p \in Procs, NEW n \in Names, NEW mode \in {"r", "w"}, Open(p, n, mode),
           made' \in {made, made + 1}
    PROVE  /\ FifoType' /\ Others(p) /\ fd'[p][n] # 0
           /\ \A m \in Names : m # n => fd'[p][m] = fd[p][m]
<1>1. made \in Nat /\ made' \in Nat /\ made <= made' /\ FifoType
  BY Constants DEF TypeInv, StateType
<1>2. FifoType'
  BY <1>1, OpenType
<1>3. \A q \in Procs : q # p => waiting'[q] \in {waiting[q], 0}
  <2>1. CASE path[n] = 0
    BY <1>1, <2>1, OpenNew
  <2>2. CASE path[n] # 0
    BY <1>1, <2>2, OpenWaiting
  <2> QED  BY <2>1, <2>2
<1> QED  BY <1>1, <1>2, <1>3, OpenFd DEF Others

LEMMA CloseUse ==
    ASSUME TypeInv, NEW p \in Procs, NEW S \in SUBSET Names, Close(p, S), made' = made
    PROVE  /\ FifoType' /\ Others(p) /\ waiting'[p] = 0
           /\ \A m \in Names : fd'[p][m] = IF m \in S THEN 0 ELSE fd[p][m]
<1>1. made \in Nat /\ FifoType
  BY Constants DEF TypeInv, StateType
<1>2. FifoType'
  BY <1>1, CloseType
<1> QED  BY <1>1, <1>2, CloseFds DEF Others

LEMMA PutUse ==
    ASSUME TypeInv, NEW p \in Procs, NEW n \in Names, NEW line \in Lines(made),
           Put(p, n, line), fd[p][n] # 0, made' = made
    PROVE  FifoType' /\ UNCHANGED <<path, fd, waiting>>
<1>1. made \in Nat /\ FifoType
  BY Constants DEF TypeInv, StateType
<1> QED  BY <1>1, PutNode

LEMMA TakeUse ==
    ASSUME TypeInv, NEW p \in Procs, NEW n \in Names, Readable(p, n), Take(p, n),
           fd[p][n] # 0, made' = made
    PROVE  /\ FifoType' /\ UNCHANGED <<path, fd, waiting>>
           /\ Head(At(p, n).buf) \in Lines(made)
<1>1. made \in Nat /\ FifoType
  BY Constants DEF TypeInv, StateType
<1> QED  BY <1>1, TakeNode DEF At

LEMMA NoUse ==
    ASSUME TypeInv, UNCHANGED fifoVars, made' = made
    PROVE  FifoType' /\ UNCHANGED <<path, fd, waiting>>
BY DEF TypeInv, FifoType, fifoVars

LEMMA CommandLine ==
    ASSUME TypeInv
    PROVE  /\ made # 0 => Line("cmd", made) \in Lines(made)
           /\ \A w \in {"choice", "QUIT", "type", "options", "OK", "result"} :
                 \A k \in 0 .. made : Line(w, k) \in Lines(made)
<1>1. made \in Nat /\ kind \in {"open", "plain", "bare"}
  BY Constants DEF TypeInv, StateType
<1> QED  BY <1>1 DEF Lines, Line

\* A step of the script.
LEMMA ScriptMove ==
    ASSUME TypeInv, FifoType', ScriptOnly, Others(Client),
           cpc' \in ClientPlaces, csync' \in 0 .. 5, cpc' = "sync" => csync' # 0,
           cpc' = "command" => made' # 0,
           session' \in {"up", "down"}, kind' \in {"open", "plain", "bare"},
           made' \in {made, made + 1}, made' <= MaxCalls, answered' \in 0 .. made',
           refused' \in Procs,
           cpc' \in {"command", "answer", "type", "leave", "options", "choice", "result",
                     "close", "quit", "quitting"} => fd'[Client]["infifo"] # 0,
           cpc' \in {"type", "leave", "options", "choice", "result", "close"} =>
               fd'[Client]["outfifo"] # 0
    PROVE  TypeInv'
<1>1. made \in Nat /\ made' \in 0 .. MaxCalls
  BY Constants DEF TypeInv, StateType
<1>2. executed' \in Seq(1 .. made')
  <2>1. executed \in Seq(1 .. made) /\ 1 .. made \subseteq 1 .. made'
    BY <1>1 DEF TypeInv, StateType
  <2> QED  BY <2>1, SeqMonotonic DEF ScriptOnly
<1>3. cmd' \in [Servers -> [what : {"cmd", "none"}, call : 0 .. made',
                            kind : {"open", "plain", "bare", "none"}]]
  <2>1. 0 .. made \subseteq 0 .. made' /\ cmd' = cmd
    BY <1>1 DEF ScriptOnly, server
  <2>2. cmd \in [Servers -> [what : {"cmd", "none"}, call : 0 .. made,
                             kind : {"open", "plain", "bare", "none"}]]
    BY DEF TypeInv, StateType
  <2> QED  BY <2>1, <2>2
<1>4. StateType'
  <2>1. UNCHANGED <<pidfile, spc, ssync, excs, opened, overtaken>>
    BY DEF ScriptOnly, server
  <2> QED  BY <1>1, <1>2, <1>3, <2>1 DEF TypeInv, StateType
<1>5. Holds'
  <2>1. UNCHANGED <<spc, cmd>>
    BY DEF ScriptOnly, server
  <2>2. \A s \in Servers : fd'[s] = fd[s] /\ waiting'[s] \in {waiting[s], 0}
    BY Constants DEF Others
  <2> QED  BY <2>1, <2>2 DEF TypeInv, Holds
<1> QED  BY <1>4, <1>5 DEF TypeInv

LEMMA TypeFacts ==
    ASSUME TypeInv
    PROVE  /\ pidfile \in Procs /\ cpc \in ClientPlaces /\ csync \in 0 .. 5
           /\ session \in {"up", "down"} /\ kind \in {"open", "plain", "bare"}
           /\ made \in Nat /\ made <= MaxCalls /\ answered \in 0 .. made /\ refused \in Procs
           /\ cpc = "sync" => csync # 0
           /\ cpc = "command" => made # 0
BY Constants DEF TypeInv, StateType

LEMMA AbandonTypes == ASSUME TypeInv, Abandon PROVE TypeInv'
<1>1. /\ Close(Client, Names) /\ cpc' = "idle" /\ csync' = 0 /\ ScriptOnly
      /\ UNCHANGED <<session, kind, made, answered, refused>>
  BY DEF Abandon
<1>2. FifoType' /\ Others(Client)
  BY <1>1, CloseUse, Constants
<1> QED  BY <1>1, <1>2, TypeFacts, ScriptMove DEF ClientPlaces

\* Steps without the pipes.
LEMMA QuietTypes ==
    ASSUME TypeInv, Refresh \/ Started \/ Stopped \/ AbortWithoutServer
    PROVE  TypeInv'
<1>1. /\ UNCHANGED <<csync, kind, made, answered, refused>> /\ UNCHANGED fifoVars /\ ScriptOnly
      /\ session' \in {session, "down"} /\ cpc' \in {"start", "open", "idle"}
  BY DEF Refresh, Started, Stopped, AbortWithoutServer, Script
<1>2. FifoType' /\ Others(Client)
  BY <1>1, NoUse DEF Others
<1> QED  BY <1>1, <1>2, TypeFacts, ScriptMove DEF ClientPlaces

LEMMA BeginTypes == ASSUME TypeInv, Begin PROVE TypeInv'
<1>1. /\ UNCHANGED <<csync, kind, made, answered, refused>> /\ Unlink(Names) /\ ScriptOnly
      /\ session' = "up" /\ cpc' = "start"
  BY DEF Begin, Script
<1>2. FifoType' /\ Others(Client)
  BY <1>1, UnlinkType, TypeFacts DEF Others, TypeInv
<1> QED  BY <1>1, <1>2, TypeFacts, ScriptMove DEF ClientPlaces

LEMMA StartServerTypes == ASSUME TypeInv, StartServer PROVE TypeInv'
<1>1. /\ UNCHANGED <<csync, session, kind, made, answered, refused>> /\ UNCHANGED fifoVars
      /\ UNCHANGED <<pidfile, executed>>
  BY DEF StartServer, server
<1>2. FifoType' /\ Others(Client)
  BY <1>1, NoUse DEF Others
<1>3. CASE pidfile # 0
  <2>1. cpc' = "idle" /\ ScriptOnly
    BY <1>3 DEF StartServer, ScriptOnly, Script
  <2> QED  BY <1>1, <1>2, <2>1, TypeFacts, ScriptMove DEF ClientPlaces
<1>4. CASE pidfile = 0
  <2>1. PICK s \in Servers : /\ \A t \in Servers : spc[t] = "none" <=> t >= s
                             /\ spc' = [spc EXCEPT ![s] = "init"]
    BY <1>4 DEF StartServer
  <2>2. /\ cpc' = "forked" /\ overtaken' \in BOOLEAN /\ UNCHANGED <<ssync, cmd, excs, opened>>
    BY <1>4 DEF StartServer, Script
  <2>3. spc[s] = "none"
    BY <2>1, Constants
  <2>4. spc \in [Servers -> ServerPlaces]
    BY DEF TypeInv, StateType
  <2>5. spc'[s] = "init" /\ \A t \in Servers : t # s => spc'[t] = spc[t]
    BY <2>1, <2>4
  <2>6. spc' \in [Servers -> ServerPlaces]
    BY <2>1, <2>4 DEF ServerPlaces
  <2>7. StateType'
    BY <1>1, <1>4, <2>2, <2>5, <2>6 DEF TypeInv, StateType, ClientPlaces
  <2>8. UNCHANGED <<path, fd, waiting>>
    BY <1>1 DEF fifoVars
  <2>9. Holds'
    BY <1>1, <2>2, <2>3, <2>5, <2>8 DEF TypeInv, Holds, InDialog
  <2> QED  BY <1>2, <2>7, <2>9 DEF TypeInv
<1> QED  BY <1>3, <1>4

LEMMA AskTypes == ASSUME TypeInv, Ask PROVE TypeInv'
<1>1. /\ UNCHANGED <<csync, session, answered, refused>> /\ Open(Client, "infifo", "w")
      /\ ScriptOnly /\ made' = made + 1 /\ made < MaxCalls
      /\ kind' \in {"open", "plain", "bare"} /\ cpc' = "command"
  BY DEF Ask, Script
<1>2. FifoType' /\ Others(Client) /\ fd'[Client]["infifo"] # 0
  BY <1>1, OpenUse, Constants
<1> QED  BY <1>1, <1>2, TypeFacts, Constants, ScriptMove DEF ClientPlaces

LEMMA WriteTypes == ASSUME TypeInv, WriteCommand \/ WriteChoice \/ WriteQuit PROVE TypeInv'
<1>1. /\ UNCHANGED <<csync, session, kind, made, answered, refused>> /\ ScriptOnly
      /\ cpc \in {"command", "choice", "quit"} /\ cpc' \in {"answer", "type", "quitting"}
      /\ cpc' = "type" => cpc = "choice"
  BY DEF WriteCommand, WriteChoice, WriteQuit, Script
<1>2. fd[Client]["infifo"] # 0 /\ (cpc = "choice" => fd[Client]["outfifo"] # 0)
  BY <1>1 DEF TypeInv, Holds
<1>3. PICK line \in Lines(made) : Put(Client, "infifo", line)
  <2>1. Line("choice", made) \in Lines(made) /\ Line("QUIT", 0) \in Lines(made)
        /\ (made # 0 => Line("cmd", made) \in Lines(made))
    <3>1. made \in 0 .. made /\ 0 \in 0 .. made
      BY TypeFacts
    <3> QED  BY <3>1, CommandLine
  <2>2. CASE WriteCommand
    <3>1. cpc = "command" /\ Put(Client, "infifo", Line("cmd", made))
      BY <2>2 DEF WriteCommand, Script
    <3> QED  BY <2>1, <3>1, TypeFacts
  <2>3. CASE WriteChoice
    BY <2>1, <2>3 DEF WriteChoice
  <2>4. CASE WriteQuit
    BY <2>1, <2>4 DEF WriteQuit
  <2> QED  BY <2>2, <2>3, <2>4
<1>4. FifoType' /\ Others(Client) /\ fd' = fd
  BY <1>1, <1>2, <1>3, PutUse, Constants DEF Others
<1> QED  BY <1>1, <1>2, <1>4, TypeFacts, ScriptMove DEF ClientPlaces

LEMMA OpenOutfifoTypes == ASSUME TypeInv, OpenOutfifo PROVE TypeInv'
<1>1. /\ UNCHANGED <<csync, session, kind, made, answered, refused>> /\ ScriptOnly
      /\ cpc = "answer" /\ cpc' = "type" /\ Open(Client, "outfifo", "r")
  BY DEF OpenOutfifo, Script
<1>2. fd[Client]["infifo"] # 0
  BY <1>1 DEF TypeInv, Holds
<1>3. FifoType' /\ Others(Client) /\ fd'[Client]["outfifo"] # 0 /\ fd'[Client]["infifo"] # 0
  BY <1>1, <1>2, OpenUse, Constants
<1> QED  BY <1>1, <1>3, TypeFacts, ScriptMove DEF ClientPlaces

LEMMA StopServerTypes == ASSUME TypeInv, StopServer PROVE TypeInv'
<1>1. /\ UNCHANGED <<csync, kind, made, answered, refused>> /\ ScriptOnly
      /\ session' = "down" /\ cpc' = "quit" /\ Open(Client, "infifo", "w")
  BY DEF StopServer, Script
<1>2. FifoType' /\ Others(Client) /\ fd'[Client]["infifo"] # 0
  BY <1>1, OpenUse, Constants
<1> QED  BY <1>1, <1>2, TypeFacts, ScriptMove DEF ClientPlaces

\* Steps that read from outfifo, or find its end.
LEMMA ReadTypes == ASSUME TypeInv, ReadType \/ ReadOptions \/ ReadResult PROVE TypeInv'
<1>1. /\ UNCHANGED <<csync, session, kind, made>> /\ ScriptOnly
      /\ cpc \in {"type", "options", "result"}
      /\ cpc' \in {"result", "close", "options", "leave", "choice"}
      /\ refused' \in {refused, pidfile}
      /\ \/ Readable(Client, "outfifo") /\ Take(Client, "outfifo")
         \/ UNCHANGED fifoVars
  <2>1. CASE ReadType
    BY <2>1 DEF ReadType
  <2>2. CASE ReadOptions \/ ReadResult
    BY <2>2 DEF ReadOptions, ReadResult, Script
  <2> QED  BY <2>1, <2>2
<1>2. fd[Client]["infifo"] # 0 /\ fd[Client]["outfifo"] # 0
  BY <1>1 DEF TypeInv, Holds
<1>3. FifoType' /\ Others(Client) /\ fd' = fd
  <2>1. CASE Readable(Client, "outfifo") /\ Take(Client, "outfifo")
    BY <1>1, <1>2, <2>1, TakeUse, Constants DEF Others
  <2>2. CASE UNCHANGED fifoVars
    BY <1>1, <2>2, NoUse DEF Others
  <2> QED  BY <1>1, <2>1, <2>2
<1>4. answered' \in 0 .. made'
  <2>1. CASE ReadResult
    <3>1. /\ Readable(Client, "outfifo") /\ Take(Client, "outfifo")
          /\ answered' = Head(At(Client, "outfifo").buf).call
      BY <2>1 DEF ReadResult
    <3>2. Head(At(Client, "outfifo").buf) \in Lines(made)
      BY <1>1, <1>2, <3>1, TakeUse, Constants
    <3> QED  BY <1>1, <3>1, <3>2 DEF Lines
  <2>2. CASE ~ReadResult
    BY <1>1, <2>2, TypeFacts DEF ReadType, ReadOptions
  <2> QED  BY <2>1, <2>2
<1> QED  BY <1>1, <1>2, <1>3, <1>4, TypeFacts, ScriptMove DEF ClientPlaces

LEMMA CloseDialogTypes == ASSUME TypeInv, CloseDialog PROVE TypeInv'
<1>1. /\ UNCHANGED <<session, kind, made, answered, refused>> /\ ScriptOnly
      /\ cpc' = "sync" /\ csync' = 1 /\ Close(Client, {"infifo", "outfifo"})
  BY DEF CloseDialog, Script
<1>2. FifoType' /\ Others(Client)
  BY <1>1, CloseUse, Constants
<1> QED  BY <1>1, <1>2, TypeFacts, ScriptMove DEF ClientPlaces

LEMMA CloseQuitTypes == ASSUME TypeInv, CloseQuit PROVE TypeInv'
<1>1. /\ UNCHANGED <<csync, session, kind, made, answered, refused>> /\ ScriptOnly
      /\ cpc' = "stopping" /\ Close(Client, {"infifo"})
  BY DEF CloseQuit, Script
<1>2. FifoType' /\ Others(Client)
  BY <1>1, CloseUse, Constants
<1> QED  BY <1>1, <1>2, TypeFacts, ScriptMove DEF ClientPlaces

\* The five pairs of opens.
LEMMA SyncPipes ==
    \A k \in 1 .. 5 :
        /\ ClientSync[k][1] \in Names /\ ClientSync[k][2] \in {"r", "w"}
        /\ ServerSync[k][1] = ClientSync[k][1] /\ ServerSync[k][2] \in {"r", "w"}
        /\ ServerSync[k][2] = "r" <=> ClientSync[k][2] = "w"
        /\ Len(ClientSync) = 5 /\ Len(ServerSync) = 5
<1> SUFFICES ASSUME NEW k \in 1 .. 5
             PROVE  /\ ClientSync[k][1] \in Names /\ ClientSync[k][2] \in {"r", "w"}
                    /\ ServerSync[k][1] = ClientSync[k][1] /\ ServerSync[k][2] \in {"r", "w"}
                    /\ ServerSync[k][2] = "r" <=> ClientSync[k][2] = "w"
                    /\ Len(ClientSync) = 5 /\ Len(ServerSync) = 5
  OBVIOUS
<1>1. k = 1 \/ k = 2 \/ k = 3 \/ k = 4 \/ k = 5
  OBVIOUS
<1> QED  BY <1>1, Constants DEF ClientSync, ServerSync

LEMMA ClientSyncTypes == ASSUME TypeInv, ClientSyncOpen \/ ClientSyncClose PROVE TypeInv'
<1> DEFINE n == ClientSync[csync][1] mode == ClientSync[csync][2]
<1>1. cpc = "sync" /\ csync \in 1 .. 5 /\ ScriptOnly
      /\ UNCHANGED <<session, kind, made, answered, refused>>
  BY TypeFacts DEF ClientSyncOpen, ClientSyncClose, client
<1>2. n \in Names /\ mode \in {"r", "w"} /\ Len(ClientSync) = 5
  BY <1>1, SyncPipes
<1>3. CASE ClientSyncOpen
  <2>1. Open(Client, n, mode) /\ UNCHANGED <<cpc, csync>>
    BY <1>3 DEF ClientSyncOpen, client
  <2> HIDE DEF n, mode
  <2>2. FifoType' /\ Others(Client)
    BY <1>1, <1>2, <2>1, OpenUse, Constants
  <2> QED  BY <1>1, <2>1, <2>2, TypeFacts, ScriptMove
<1>4. CASE ClientSyncClose
  <2>1. Close(Client, {n})
    BY <1>4 DEF ClientSyncClose
  <2>2. \/ cpc' = "idle" /\ csync' = 0
        \/ cpc' = "sync" /\ csync' = csync + 1 /\ csync # 5
    BY <1>1, <1>2, <1>4 DEF ClientSyncClose
  <2> HIDE DEF n, mode
  <2>3. FifoType' /\ Others(Client)
    BY <1>1, <1>2, <2>1, CloseUse, Constants
  <2> QED  BY <1>1, <2>2, <2>3, TypeFacts, ScriptMove DEF ClientPlaces
<1> QED  BY <1>3, <1>4

LEMMA ClientTypes == ASSUME TypeInv, ClientNext PROVE TypeInv'
<1>1. Leave \/ OpenFails \/ WriteFails => Abandon
  BY DEF Leave, OpenFails, WriteFails
<1> QED  BY <1>1, AbandonTypes, QuietTypes, BeginTypes, StartServerTypes, AskTypes, WriteTypes,
            OpenOutfifoTypes, StopServerTypes, ReadTypes, CloseDialogTypes, CloseQuitTypes,
            ClientSyncTypes
         DEF ClientNext

Commands == [what : {"cmd", "none"}, call : 0 .. made, kind : {"open", "plain", "bare", "none"}]

LEMMA ServerFacts ==
    ASSUME TypeInv
    PROVE  /\ spc \in [Servers -> ServerPlaces] /\ ssync \in [Servers -> 0 .. 5]
           /\ cmd \in [Servers -> Commands] /\ excs \in [Servers -> 0 .. MaxExc]
           /\ opened \in [Servers -> BOOLEAN] /\ executed \in Seq(1 .. made)
           /\ made \in Nat
BY Constants DEF TypeInv, StateType, Commands

\* A step of server s.
LEMMA ServerMove ==
    ASSUME TypeInv, FifoType', NEW s \in Servers, ServerOnly, overtaken' = overtaken, Others(s),
           spc' \in [Servers -> ServerPlaces], ssync' \in [Servers -> 0 .. 5],
           cmd' \in [Servers -> Commands], excs' \in [Servers -> 0 .. MaxExc],
           opened' \in [Servers -> BOOLEAN], executed' \in Seq(1 .. made),
           pidfile' \in {pidfile, 0, s}, spc'[s] \notin {"none", "init"},
           \A q \in Servers : q # s =>
               spc'[q] = spc[q] /\ ssync'[q] = ssync[q] /\ cmd'[q] = cmd[q],
           spc'[s] = "sync" => ssync'[s] # 0,
           spc'[s] \in InDialog \cup {"read"} => fd'[s]["infifo"] # 0,
           spc'[s] \in InDialog => cmd'[s].what = "cmd" /\ cmd'[s].call # 0,
           spc'[s] \in InDialog \ {"open"} => fd'[s]["outfifo"] # 0,
           spc'[s] = "dead" => waiting'[s] = 0 /\ \A n \in Names : fd'[s][n] = 0
    PROVE  TypeInv'
<1>1. UNCHANGED <<cpc, csync, session, kind, made, answered, refused>>
  BY DEF ServerOnly, client
<1>2. pidfile' \in Procs /\ (pidfile' # 0 => spc'[pidfile'] # "none")
  <2>1. pidfile \in Procs /\ (pidfile # 0 => spc[pidfile] # "none") /\ Procs = Servers \cup {0}
    BY Constants DEF TypeInv, StateType, Servers, Client
  <2> QED  BY <2>1
<1>3. StateType'
  <2>1. \A q \in Servers : spc'[q] = "sync" => ssync'[q] # 0
    BY DEF TypeInv, StateType
  <2> QED  BY <1>1, <1>2, <2>1 DEF TypeInv, StateType, Commands
<1>4. Holds'
  <2>1. \A q \in Servers : q # s =>
           fd'[q] = fd[q] /\ waiting'[q] \in {waiting[q], 0} /\ spc'[q] = spc[q] /\ cmd'[q] = cmd[q]
    BY Constants DEF Others
  <2>2. fd'[Client] = fd[Client]
    BY Constants DEF Others
  <2> QED  BY <1>1, <2>1, <2>2 DEF TypeInv, Holds
<1> QED  BY <1>3, <1>4 DEF TypeInv

\* A step that changes the server's place and none of its other variables.
LEMMA PlaceMove ==
    ASSUME TypeInv, FifoType', NEW s \in Servers, ServerOnly,
           UNCHANGED <<ssync, cmd, excs, opened, executed, overtaken>>, Others(s),
           NEW to \in ServerPlaces \ {"none", "init", "sync"}, spc' = [spc EXCEPT ![s] = to],
           pidfile' \in {pidfile, 0, s},
           to \in InDialog \cup {"read"} => fd'[s]["infifo"] # 0,
           to \in InDialog => cmd[s].what = "cmd" /\ cmd[s].call # 0,
           to \in InDialog \ {"open"} => fd'[s]["outfifo"] # 0,
           to = "dead" => waiting'[s] = 0 /\ \A n \in Names : fd'[s][n] = 0
    PROVE  TypeInv'
<1>1. spc' \in [Servers -> ServerPlaces] /\ spc'[s] = to
      /\ \A q \in Servers : q # s => spc'[q] = spc[q]
  BY ServerFacts
<1> QED  BY <1>1, ServerFacts, ServerMove

LEMMA ExitMove ==
    ASSUME TypeInv, FifoType', NEW s \in Servers, ServerOnly, Exit(s), Others(s),
           UNCHANGED <<pidfile, executed, overtaken>>
    PROVE  TypeInv'
<1>1. spc' = [spc EXCEPT ![s] = "exit"] /\ UNCHANGED <<ssync, cmd, excs, opened>>
  BY DEF Exit
<1>2. "exit" \in ServerPlaces \ {"none", "init", "sync"} /\ "exit" \notin InDialog \cup {"read"}
  BY DEF ServerPlaces, InDialog
<1> QED  BY <1>1, <1>2, PlaceMove

LEMMA InDialogFacts ==
    ASSUME TypeInv, NEW s \in Servers
    PROVE  /\ spc[s] \in InDialog \cup {"read"} => fd[s]["infifo"] # 0
           /\ spc[s] \in InDialog => cmd[s].what = "cmd" /\ cmd[s].call # 0
           /\ spc[s] \in InDialog \ {"open"} => fd[s]["outfifo"] # 0
           /\ InDialog = {"open", "run", "raised", "wait", "result", "close"}
           /\ cmd[s].call \in 0 .. made
BY ServerFacts DEF TypeInv, Holds, InDialog, Commands

LEMMA BootTypes == ASSUME TypeInv, NEW s \in Servers, Boot(s) PROVE TypeInv'
<1>1. /\ spc' = [spc EXCEPT ![s] = "loop"] /\ ServerOnly /\ pidfile' = s /\ MakeFifos
      /\ UNCHANGED <<ssync, cmd, excs, opened, executed, overtaken>>
  BY DEF Boot, Serve
<1>2. made' = made /\ FifoType /\ made \in Nat
  BY <1>1, TypeFacts DEF ServerOnly, client, TypeInv
<1>3. FifoType' /\ Others(s)
  BY <1>1, <1>2, MadeFifos DEF Others
<1>4. "loop" \in ServerPlaces \ {"none", "init", "sync"} /\ "loop" \notin InDialog \cup {"read"}
  BY DEF ServerPlaces, InDialog
<1> QED  BY <1>1, <1>3, <1>4, PlaceMove

LEMMA ServerOpenTypes == ASSUME TypeInv, NEW s \in Servers, OpenIn(s) \/ OpenOut(s) PROVE TypeInv'
<1>1. ServerOnly /\ UNCHANGED <<ssync, cmd, excs, opened, pidfile, executed, overtaken>>
      /\ made' = made
  BY DEF OpenIn, OpenOut, ServerOnly, client
<1>2. s \in Procs
  BY Constants
<1>3. CASE OpenIn(s)
  <2>1. spc' = [spc EXCEPT ![s] = "read"] /\ Open(s, "infifo", "r")
    BY <1>3 DEF OpenIn, Serve
  <2>2. FifoType' /\ Others(s) /\ fd'[s]["infifo"] # 0
    BY <1>1, <1>2, <2>1, OpenUse, Constants
  <2>3. "read" \in ServerPlaces \ {"none", "init", "sync"} /\ "read" \notin InDialog
    BY DEF ServerPlaces, InDialog
  <2> QED  BY <1>1, <2>1, <2>2, <2>3, PlaceMove
<1>4. CASE OpenOut(s)
  <2>1. spc[s] = "open" /\ spc' = [spc EXCEPT ![s] = "run"] /\ Open(s, "outfifo", "w")
    BY <1>4 DEF OpenOut, Serve
  <2>2. FifoType' /\ Others(s) /\ fd'[s]["outfifo"] # 0 /\ fd'[s]["infifo"] = fd[s]["infifo"]
    BY <1>1, <1>2, <2>1, OpenUse, Constants
  <2>3. "run" \in ServerPlaces \ {"none", "init", "sync"}
    BY DEF ServerPlaces
  <2> QED  BY <1>1, <2>1, <2>2, <2>3, InDialogFacts, PlaceMove
<1> QED  BY <1>3, <1>4

LEMMA ServerPutTypes ==
    ASSUME TypeInv, NEW s \in Servers, Raise(s) \/ PutOptions(s) \/ Done(s) \/ PutResult(s)
    PROVE  TypeInv'
<1>1. ServerOnly /\ UNCHANGED <<ssync, cmd, pidfile, overtaken>> /\ made' = made
  BY DEF Raise, PutOptions, Done, PutResult, ServerOnly, client
<1>2. PICK to \in {"raised", "wait", "result", "close"} :
          spc[s] \in {"run", "raised", "result"} /\ spc' = [spc EXCEPT ![s] = to]
  BY DEF Raise, PutOptions, Done, PutResult, Serve
<1>3. s \in Procs /\ fd[s]["infifo"] # 0 /\ fd[s]["outfifo"] # 0
      /\ cmd[s].what = "cmd" /\ cmd[s].call # 0 /\ cmd[s].call \in 0 .. made
  BY <1>2, InDialogFacts, Constants
<1>4. PICK line \in Lines(made) : Put(s, "outfifo", line)
  BY <1>3, CommandLine DEF Raise, PutOptions, Done, PutResult
<1>5. FifoType' /\ Others(s) /\ fd' = fd
  BY <1>1, <1>3, <1>4, PutUse, Constants DEF Others
<1>6. executed' \in Seq(1 .. made) /\ opened' \in [Servers -> BOOLEAN]
      /\ excs' \in [Servers -> 0 .. MaxExc]
  <2>1. CASE Raise(s)
    <3>1. excs' = [excs EXCEPT ![s] = @ + 1] /\ excs[s] < MaxExc /\ UNCHANGED <<executed, opened>>
      BY <2>1 DEF Raise
    <3>2. excs[s] + 1 \in 0 .. MaxExc
      BY <3>1, ServerFacts, Constants
    <3> QED  BY <3>1, <3>2, ServerFacts
  <2>2. CASE Done(s)
    <3>1. executed' = Append(executed, cmd[s].call) /\ opened' = [opened EXCEPT ![s] = TRUE]
          /\ excs' = excs
      BY <2>2 DEF Done
    <3>2. cmd[s].call \in 1 .. made
      BY <1>3, ServerFacts
    <3> QED  BY <3>1, <3>2, ServerFacts
  <2>3. CASE PutOptions(s) \/ PutResult(s)
    BY <2>3, ServerFacts DEF PutOptions, PutResult
  <2> QED  BY <2>1, <2>2, <2>3
<1>7. spc' \in [Servers -> ServerPlaces] /\ spc'[s] = to
      /\ \A q \in Servers : q # s => spc'[q] = spc[q]
  BY <1>2, ServerFacts DEF ServerPlaces
<1> QED  BY <1>1, <1>2, <1>3, <1>5, <1>6, <1>7, ServerFacts, ServerMove

LEMMA ReadCommandTypes == ASSUME TypeInv, NEW s \in Servers, ReadCommand(s) PROVE TypeInv'
<1> DEFINE l == Head(At(s, "infifo").buf)
<1>1. ServerOnly /\ UNCHANGED <<pidfile, executed, overtaken>> /\ made' = made /\ spc[s] = "read"
  BY DEF ReadCommand, ServerOnly, client
<1>2. s \in Procs /\ fd[s]["infifo"] # 0
  BY <1>1, InDialogFacts, Constants
<1>3. CASE Readable(s, "infifo") /\ Take(s, "infifo")
  <2>1. FifoType' /\ Others(s) /\ fd' = fd /\ l \in Lines(made)
    BY <1>1, <1>2, <1>3, TakeUse, Constants DEF Others
  <2>2. CASE Exit(s)
    BY <1>1, <2>1, <2>2, ExitMove
  <2>3. CASE /\ spc' = [spc EXCEPT ![s] = "open"] /\ l.what = "cmd"
             /\ cmd' = [cmd EXCEPT ![s] = l] /\ excs' = [excs EXCEPT ![s] = 0]
             /\ UNCHANGED <<ssync, opened>>
    <3>1. l \in Commands /\ l.what = "cmd" /\ l.call # 0
      BY <2>1, <2>3 DEF Lines, Commands
    <3> HIDE DEF l
    <3>2. spc' \in [Servers -> ServerPlaces] /\ spc'[s] = "open" /\ cmd'[s] = l
          /\ \A q \in Servers : q # s => spc'[q] = spc[q] /\ cmd'[q] = cmd[q]
      BY <2>3, ServerFacts DEF ServerPlaces
    <3>3. cmd' \in [Servers -> Commands] /\ excs' \in [Servers -> 0 .. MaxExc]
      BY <2>3, <3>1, ServerFacts, Constants
    <3> QED  BY <1>1, <1>2, <2>1, <2>3, <3>1, <3>2, <3>3, ServerFacts, InDialogFacts, ServerMove
  <2> QED  BY <1>3, <2>2, <2>3 DEF ReadCommand, AtEnd, Readable
<1>4. CASE ~(Readable(s, "infifo") /\ Take(s, "infifo"))
  <2>1. UNCHANGED fifoVars /\ Exit(s)
    BY <1>4 DEF ReadCommand
  <2>2. FifoType' /\ Others(s)
    BY <1>1, <2>1, NoUse DEF Others
  <2> QED  BY <1>1, <2>1, <2>2, ExitMove
<1> QED  BY <1>3, <1>4

LEMMA ReadChoiceTypes == ASSUME TypeInv, NEW s \in Servers, ReadChoice(s) PROVE TypeInv'
<1>1. ServerOnly /\ UNCHANGED <<pidfile, executed, overtaken>> /\ made' = made /\ spc[s] = "wait"
  BY DEF ReadChoice, ServerOnly, client
<1>2. s \in Procs /\ fd[s]["infifo"] # 0 /\ fd[s]["outfifo"] # 0
      /\ cmd[s].what = "cmd" /\ cmd[s].call # 0
  BY <1>1, InDialogFacts, Constants
<1>3. FifoType' /\ Others(s) /\ fd' = fd
  <2>1. CASE Readable(s, "infifo") /\ Take(s, "infifo")
    BY <1>1, <1>2, <2>1, TakeUse, Constants DEF Others
  <2>2. CASE UNCHANGED fifoVars
    BY <1>1, <2>2, NoUse DEF Others
  <2> QED  BY <2>1, <2>2 DEF ReadChoice
<1>4. CASE Exit(s)
  BY <1>1, <1>3, <1>4, ExitMove
<1>5. CASE spc' = [spc EXCEPT ![s] = "run"] /\ UNCHANGED <<ssync, cmd, excs, opened>>
  <2>1. "run" \in ServerPlaces \ {"none", "init", "sync"}
    BY DEF ServerPlaces
  <2> QED  BY <1>1, <1>2, <1>3, <1>5, <2>1, PlaceMove
<1> QED  BY <1>4, <1>5 DEF ReadChoice

LEMMA EndTypes == ASSUME TypeInv, NEW s \in Servers, BrokenPipe(s) \/ CleanUp(s) PROVE TypeInv'
<1>1. ServerOnly /\ UNCHANGED <<ssync, cmd, excs, opened, executed, overtaken>> /\ made' = made
      /\ pidfile' \in {pidfile, 0}
  BY DEF BrokenPipe, Killed, CleanUp, ServerOnly, client
<1>2. PICK to \in {"in", "out", "stop", "gone", "dead"} :
          /\ spc' = [spc EXCEPT ![s] = to]
          /\ \/ to = "dead" /\ Close(s, Names)
             \/ to # "dead" /\ \/ UNCHANGED fifoVars
                               \/ \E n \in Names : Unlink({n})
  BY Constants DEF BrokenPipe, Killed, CleanUp, Serve
<1>3. FifoType' /\ Others(s)
      /\ (to = "dead" => waiting'[s] = 0 /\ \A n \in Names : fd'[s][n] = 0)
  <2>1. CASE to = "dead" /\ Close(s, Names)
    BY <1>1, <2>1, CloseUse, Constants
  <2>2. CASE to # "dead" /\ UNCHANGED fifoVars
    BY <1>1, <2>2, NoUse DEF Others
  <2>3. CASE to # "dead" /\ \E n \in Names : Unlink({n})
    <3>1. PICK n \in Names : Unlink({n})
      BY <2>3
    <3>2. FifoType /\ made \in Nat
      BY TypeFacts DEF TypeInv
    <3> QED  BY <1>1, <2>3, <3>1, <3>2, UnlinkType DEF Others
  <2> QED  BY <1>2, <2>1, <2>2, <2>3
<1>4. to \in ServerPlaces \ {"none", "init", "sync"} /\ to \notin InDialog \cup {"read"}
  BY DEF ServerPlaces, InDialog
<1> QED  BY <1>1, <1>2, <1>3, <1>4, PlaceMove

\* A step that leaves the server in the synchronisation, or with nothing open.
LEMMA SyncMove ==
    ASSUME TypeInv, FifoType', NEW s \in Servers, ServerOnly, Others(s),
           UNCHANGED <<cmd, excs, opened, pidfile, executed, overtaken>>,
           spc' \in [Servers -> ServerPlaces], ssync' \in [Servers -> 0 .. 5],
           spc'[s] \in {"sync", "loop"}, spc'[s] = "sync" => ssync'[s] # 0,
           \A q \in Servers : q # s => spc'[q] = spc[q] /\ ssync'[q] = ssync[q]
    PROVE  TypeInv'
<1>1. spc'[s] \notin InDialog \cup {"read"} /\ spc'[s] \notin {"none", "init", "dead"}
  BY DEF InDialog
<1>2. spc'[s] \notin InDialog /\ spc'[s] \notin InDialog \ {"open"} /\ spc'[s] # "dead"
  BY <1>1
<1>3. cmd' \in [Servers -> Commands] /\ excs' \in [Servers -> 0 .. MaxExc]
      /\ opened' \in [Servers -> BOOLEAN] /\ executed' \in Seq(1 .. made)
  BY ServerFacts
<1> QED  BY <1>1, <1>2, <1>3, ServerMove

LEMMA CloseFifosTypes == ASSUME TypeInv, NEW s \in Servers, CloseFifos(s) PROVE TypeInv'
<1>1. ServerOnly /\ UNCHANGED <<cmd, excs, opened, pidfile, executed, overtaken>> /\ made' = made
  BY DEF CloseFifos, ServerOnly, client
<1>2. /\ spc' = [spc EXCEPT ![s] = "sync"] /\ ssync' = [ssync EXCEPT ![s] = 1]
      /\ Close(s, {"infifo", "outfifo"})
  BY DEF CloseFifos, Serve
<1>3. FifoType' /\ Others(s)
  BY <1>1, <1>2, CloseUse, Constants
<1>4. /\ spc' \in [Servers -> ServerPlaces] /\ ssync' \in [Servers -> 0 .. 5]
      /\ spc'[s] = "sync" /\ ssync'[s] = 1
      /\ \A q \in Servers : q # s => spc'[q] = spc[q] /\ ssync'[q] = ssync[q]
  BY <1>2, ServerFacts DEF ServerPlaces
<1> QED  BY <1>1, <1>3, <1>4, SyncMove

LEMMA SyncTypes == ASSUME TypeInv, NEW s \in Servers, SyncOpen(s) \/ SyncClose(s) PROVE TypeInv'
<1> DEFINE n == ServerSync[ssync[s]][1] mode == ServerSync[ssync[s]][2]
<1>1. ServerOnly /\ UNCHANGED <<cmd, excs, opened, pidfile, executed, overtaken>> /\ made' = made
      /\ spc[s] = "sync" /\ ssync[s] \in 1 .. 5 /\ s \in Procs
  <2>1. spc[s] = "sync"
    BY DEF SyncOpen, SyncClose
  <2>2. ssync[s] \in 1 .. 5
    BY <2>1, ServerFacts DEF TypeInv, StateType
  <2> QED  BY <2>1, <2>2, Constants DEF SyncOpen, SyncClose, ServerOnly, client, server
<1>2. n \in Names /\ mode \in {"r", "w"} /\ Len(ServerSync) = 5
  <2>1. PICK k \in 1 .. 5 : k = ssync[s]
    BY <1>1
  <2> QED  BY <2>1, SyncPipes
<1>3. CASE SyncOpen(s)
  <2>1. Open(s, n, mode) /\ UNCHANGED <<spc, ssync>>
    BY <1>3 DEF SyncOpen, server
  <2> HIDE DEF n, mode
  <2>2. FifoType' /\ Others(s)
    BY <1>1, <1>2, <2>1, OpenUse
  <2>3. spc' \in [Servers -> ServerPlaces] /\ ssync' \in [Servers -> 0 .. 5] /\ ssync'[s] # 0
    BY <1>1, <2>1, ServerFacts
  <2> QED  BY <1>1, <2>1, <2>2, <2>3, SyncMove
<1>4. CASE SyncClose(s)
  <2>1. Close(s, {n})
    BY <1>4 DEF SyncClose
  <2>2. \/ spc' = [spc EXCEPT ![s] = "loop"] /\ ssync' = [ssync EXCEPT ![s] = 0]
        \/ spc' = spc /\ ssync' = [ssync EXCEPT ![s] = ssync[s] + 1] /\ ssync[s] # 5
    BY <1>1, <1>2, <1>4 DEF SyncClose
  <2> HIDE DEF n, mode
  <2>3. FifoType' /\ Others(s)
    BY <1>1, <1>2, <2>1, CloseUse
  <2>4. "loop" \in ServerPlaces
    BY DEF ServerPlaces
  <2>5. /\ spc' \in [Servers -> ServerPlaces] /\ ssync' \in [Servers -> 0 .. 5]
        /\ spc'[s] \in {"sync", "loop"} /\ (spc'[s] = "sync" => ssync'[s] # 0)
        /\ \A q \in Servers : q # s => spc'[q] = spc[q] /\ ssync'[q] = ssync[q]
    <3>1. CASE spc' = [spc EXCEPT ![s] = "loop"] /\ ssync' = [ssync EXCEPT ![s] = 0]
      BY <1>1, <3>1, <2>4, ServerFacts
    <3>2. CASE spc' = spc /\ ssync' = [ssync EXCEPT ![s] = ssync[s] + 1] /\ ssync[s] # 5
      <4>1. ssync[s] + 1 \in 1 .. 5
        BY <1>1, <3>2
      <4> QED  BY <1>1, <3>2, <4>1, ServerFacts
    <3> QED  BY <2>2, <3>1, <3>2
  <2> QED  BY <1>1, <2>3, <2>5, SyncMove
<1> QED  BY <1>3, <1>4

LEMMA ServerTypes == ASSUME TypeInv, NEW s \in Servers, ServerNext(s) PROVE TypeInv'
BY BootTypes, ServerOpenTypes, ServerPutTypes, ReadCommandTypes, ReadChoiceTypes, EndTypes,
   CloseFifosTypes, SyncTypes
DEF ServerNext

LEMMA InitTypes == Init => TypeInv
<1> SUFFICES ASSUME Init PROVE TypeInv
  OBVIOUS
<1>1. inode = <<>> /\ inode \in Seq(Inode(made)) /\ Len(inode) = 0
  BY EmptySeq DEF Init, FifosInit
<1>2. /\ path = [n \in Names |-> 0] /\ fd = [p \in Procs |-> [n \in Names |-> 0]]
      /\ waiting = [p \in Procs |-> 0]
  BY DEF Init, FifosInit
<1>3. FifoType
  BY <1>1, <1>2 DEF FifoType
<1>4. executed \in Seq(1 .. made) /\ made = 0
  BY EmptySeq DEF Init
<1>5. cmd \in [Servers -> Commands]
  BY <1>4 DEF Init, Line, Commands
<1>6. StateType
  <2>1. pidfile = 0 /\ 0 \in Procs
    BY Constants DEF Init, Client
  <2>2. /\ spc \in [Servers -> ServerPlaces] /\ ssync \in [Servers -> 0 .. 5]
        /\ \A s \in Servers : spc[s] # "sync"
    BY DEF Init, ServerPlaces
  <2>3. excs \in [Servers -> 0 .. MaxExc] /\ opened \in [Servers -> BOOLEAN]
    BY Constants DEF Init
  <2>4. cpc = "idle" /\ csync = 0 /\ session = "down" /\ kind = "plain" /\ answered = 0
        /\ refused = 0 /\ overtaken = FALSE
    BY DEF Init
  <2>5. cpc \in ClientPlaces /\ cpc # "sync" /\ cpc # "command"
    BY <2>4 DEF ClientPlaces
  <2>6. made \in 0 .. MaxCalls /\ answered \in 0 .. made
    BY <1>4, <2>4, Constants
  <2>7. csync \in 0 .. 5 /\ session \in {"up", "down"} /\ kind \in {"open", "plain", "bare"}
        /\ refused \in Procs
    BY <2>1, <2>4
  <2>8. overtaken \in BOOLEAN
    BY <2>4
  <2>9. cmd \in [Servers -> [what : {"cmd", "none"}, call : 0 .. made,
                             kind : {"open", "plain", "bare", "none"}]]
    BY <1>5 DEF Commands
  <2> QED  BY <1>4, <2>1, <2>2, <2>3, <2>5, <2>6, <2>7, <2>8, <2>9 DEF StateType
<1>7. Holds
  BY <1>2, Constants DEF Holds, Init, InDialog
<1> QED  BY <1>3, <1>6, <1>7 DEF TypeInv

LEMMA StutterTypes == TypeInv /\ UNCHANGED vars => TypeInv'
BY DEF TypeInv, FifoType, StateType, Holds, vars, fifoVars, client, server

LEMMA StepTypes == TypeInv /\ [Next]_vars => TypeInv'
BY ClientTypes, ServerTypes, StutterTypes DEF Next

LEMMA Typed == TypeInv => TypeOK
<1> SUFFICES ASSUME TypeInv PROVE TypeOK
  OBVIOUS
<1>1. Len(ClientSync) = 5 /\ Len(ServerSync) = 5
  BY DEF ClientSync, ServerSync
<1>2. \A i \in DOMAIN inode : inode[i].rd \subseteq Procs /\ inode[i].wr \subseteq Procs
  BY InodeFacts DEF TypeInv
<1> QED  BY <1>1, <1>2 DEF TypeInv, FifoType, StateType, TypeOK

\* Every variable keeps its type, for any number of servers, calls and exceptions.
THEOREM TypeCorrect == Spec => []TypeOK
BY InitTypes, StepTypes, Typed, PTL DEF Spec

-----------------------------------------------------------------------------
(* What each operation does to the three pipes when they are in place. *)

LEMMA PipeFacts ==
    ASSUME TypeInv, Pipes
    PROVE  /\ \A n \in Names : path[n] \in 1 .. Len(inode) /\ path[n] # 0
                               /\ inode[path[n]].kind = "fifo"
           /\ \A m, n \in Names : m # n => path[m] # path[n]
<1>1. Len(inode) \in Nat /\ \A n \in Names : path[n] \in 0 .. Len(inode)
  BY InodeFacts, FdFacts DEF TypeInv
<1> QED  BY <1>1 DEF Pipes

LEMMA PipeOpen ==
    ASSUME TypeInv, Pipes, NEW p \in Procs, NEW n \in Names, NEW mode \in {"r", "w"},
           Open(p, n, mode)
    PROVE  /\ path' = path /\ Pipes'
           /\ \A m \in Names : Buf(m)' = Buf(m)
           /\ \A m \in Names : m # n => Rd(m)' = Rd(m) /\ Wr(m)' = Wr(m)
           /\ Rd(n)' = IF mode = "r" THEN Rd(n) \cup {p} ELSE Rd(n)
           /\ Wr(n)' = IF mode = "w" THEN Wr(n) \cup {p} ELSE Wr(n)
           /\ fd'[p][n] = path[n] /\ \A m \in Names : m # n => fd'[p][m] = fd[p][m]
           /\ \A q \in Procs : q # p => fd'[q] = fd[q]
           /\ waiting'[p] = IF (IF mode = "r" THEN Wr(n) ELSE Rd(n)) = {} THEN path[n] ELSE 0
           /\ \A q \in Procs : q # p =>
                  waiting'[q] = IF q \in (IF mode = "r" THEN Wr(n) ELSE Rd(n))
                                   /\ waiting[q] = path[n] THEN 0 ELSE waiting[q]
<1>1. FifoType /\ path[n] # 0 /\ inode[path[n]].kind = "fifo"
  BY PipeFacts DEF TypeInv
<1>2. /\ path' = path /\ \A i \in 1 .. Len(inode) : i # path[n] => inode'[i] = inode[i]
      /\ inode'[path[n]].kind = "fifo" /\ inode'[path[n]].buf = inode[path[n]].buf
      /\ inode'[path[n]].rd =
             IF mode = "r" THEN inode[path[n]].rd \cup {p} ELSE inode[path[n]].rd
      /\ inode'[path[n]].wr =
             IF mode = "w" THEN inode[path[n]].wr \cup {p} ELSE inode[path[n]].wr
  <2>1. /\ path' = path /\ \A i \in 1 .. Len(inode) : i # path[n] => inode'[i] = inode[i]
        /\ inode'[path[n]].kind = "fifo" /\ inode'[path[n]].buf = inode[path[n]].buf
    BY <1>1, OpenThere
  <2>2. CASE mode = "r"
    <3>1. inode'[path[n]].rd = inode[path[n]].rd \cup {p} /\ inode'[path[n]].wr = inode[path[n]].wr
      BY <1>1, <2>2, OpenThere
    <3> QED  BY <2>1, <2>2, <3>1
  <2>3. CASE mode = "w"
    <3>1. inode'[path[n]].wr = inode[path[n]].wr \cup {p} /\ inode'[path[n]].rd = inode[path[n]].rd
      BY <1>1, <2>3, OpenThere
    <3> QED  BY <2>1, <2>3, <3>1
  <2> QED  BY <2>2, <2>3
<1>3. \A m \in Names : m # n => inode'[path'[m]] = inode[path[m]]
  BY <1>2, PipeFacts
<1>4. Pipes'
  BY <1>2, <1>3, PipeFacts DEF Pipes
<1>5. /\ fd'[p][n] = path[n] /\ \A m \in Names : m # n => fd'[p][m] = fd[p][m]
      /\ \A q \in Procs : q # p => fd'[q] = fd[q]
  BY <1>1, <1>2, OpenFd
<1>6. PICK there : there = IF mode = "r" THEN inode[path[n]].wr ELSE inode[path[n]].rd
  OBVIOUS
<1>7. /\ waiting'[p] = IF there = {} THEN path[n] ELSE 0
      /\ \A q \in Procs : q # p =>
             waiting'[q] = IF q \in there /\ waiting[q] = path[n] THEN 0 ELSE waiting[q]
  <2>1. inode[path[n]].kind = "fifo" /\ path[n] # 0 /\ FifoType
    BY <1>1
  <2>2. /\ waiting'[p] = IF inode[path[n]].kind = "file" \/ there # {} THEN 0 ELSE path[n]
        /\ \A q \in Procs : q # p =>
               waiting'[q] = IF q \in there /\ waiting[q] = path[n] THEN 0 ELSE waiting[q]
    <3>1. waiting' = [q \in Procs |->
              IF q = p THEN IF inode[path[n]].kind = "file" \/ there # {} THEN 0 ELSE path[n]
              ELSE IF q \in there /\ waiting[q] = path[n] THEN 0 ELSE waiting[q]]
      BY <1>6, <2>1 DEF Open
    <3> QED  BY <3>1
  <2>3. waiting'[p] = IF there = {} THEN path[n] ELSE 0
    <3>1. CASE there = {}
      BY <2>1, <2>2, <3>1
    <3>2. CASE there # {}
      BY <2>1, <2>2, <3>2
    <3> QED  BY <3>1, <3>2
  <2> QED  BY <2>2, <2>3
<1>8. there = IF mode = "r" THEN Wr(n) ELSE Rd(n)
  BY <1>6 DEF Wr, Rd
<1>9. \A m \in Names : Buf(m)' = Buf(m)
  BY <1>2, <1>3 DEF Buf
<1>10. \A m \in Names : m # n => Rd(m)' = Rd(m) /\ Wr(m)' = Wr(m)
  BY <1>3 DEF Rd, Wr
<1>11. /\ Rd(n)' = IF mode = "r" THEN Rd(n) \cup {p} ELSE Rd(n)
       /\ Wr(n)' = IF mode = "w" THEN Wr(n) \cup {p} ELSE Wr(n)
  BY <1>2 DEF Rd, Wr
<1> QED  BY <1>2, <1>4, <1>5, <1>7, <1>8, <1>9, <1>10, <1>11

LEMMA PipeClose ==
    ASSUME TypeInv, Pipes, NEW p \in Procs, NEW S \in SUBSET Names, Close(p, S),
           \A m, n \in Names : fd[p][m] = path[n] => m = n
    PROVE  /\ path' = path /\ Pipes'
           /\ \A n \in Names :
                 /\ fd'[p][n] = IF n \in S THEN 0 ELSE fd[p][n]
                 /\ IF n \in S /\ fd[p][n] = path[n]
                    THEN /\ Rd(n)' = Rd(n) \ {p} /\ Wr(n)' = Wr(n) \ {p}
                         /\ Buf(n)' = IF Rd(n) \cup Wr(n) \subseteq {p} THEN <<>> ELSE Buf(n)
                    ELSE UNCHANGED <<Rd(n), Wr(n), Buf(n)>>
           /\ waiting'[p] = 0
           /\ \A q \in Procs : q # p => fd'[q] = fd[q] /\ waiting'[q] = waiting[q]
<1>1. FifoType
  BY DEF TypeInv
<1>2. /\ path' = path /\ waiting'[p] = 0
      /\ \A m \in Names : fd'[p][m] = IF m \in S THEN 0 ELSE fd[p][m]
      /\ \A q \in Procs : q # p => fd'[q] = fd[q] /\ waiting'[q] = waiting[q]
  BY <1>1, CloseFds
<1>3. ASSUME NEW n \in Names
      PROVE  /\ inode'[path[n]].kind = "fifo"
             /\ IF n \in S /\ fd[p][n] = path[n]
                THEN /\ inode'[path[n]].rd = inode[path[n]].rd \ {p}
                     /\ inode'[path[n]].wr = inode[path[n]].wr \ {p}
                     /\ inode'[path[n]].buf =
                            IF inode[path[n]].rd \cup inode[path[n]].wr \subseteq {p}
                            THEN <<>> ELSE inode[path[n]].buf
                ELSE inode'[path[n]] = inode[path[n]]
  <2>1. PICK i \in 1 .. Len(inode) : i = path[n] /\ inode[i].kind = "fifo"
    BY PipeFacts
  <2>2. (\E m \in S : fd[p][m] = i) <=> n \in S /\ fd[p][n] = i
    BY <2>1
  <2> QED  BY <1>1, <2>1, <2>2, CloseInodes
<1>4. Pipes'
  BY <1>2, <1>3, PipeFacts DEF Pipes
<1>5. ASSUME NEW n \in Names
      PROVE  IF n \in S /\ fd[p][n] = path[n]
             THEN /\ Rd(n)' = Rd(n) \ {p} /\ Wr(n)' = Wr(n) \ {p}
                  /\ Buf(n)' = IF Rd(n) \cup Wr(n) \subseteq {p} THEN <<>> ELSE Buf(n)
             ELSE UNCHANGED <<Rd(n), Wr(n), Buf(n)>>
  BY <1>2, <1>3 DEF Rd, Wr, Buf
<1> QED  BY <1>2, <1>4, <1>5

LEMMA PipePut ==
    ASSUME TypeInv, Pipes, NEW p \in Procs, NEW n \in Names, NEW line \in Lines(made),
           Put(p, n, line), fd[p][n] = path[n], made' = made
    PROVE  /\ UNCHANGED <<path, fd, waiting>> /\ Pipes'
           /\ \A m \in Names : m # n => Buf(m)' = Buf(m)
           /\ \A m \in Names : Rd(m)' = Rd(m) /\ Wr(m)' = Wr(m)
           /\ Buf(n)' = Append(Buf(n), line) /\ Rd(n) # {}
<1>1. FifoType /\ path[n] # 0 /\ made \in Nat
  BY PipeFacts, TypeFacts DEF TypeInv
<1>2. /\ UNCHANGED <<path, fd, waiting>>
      /\ \A i \in 1 .. Len(inode) :
            /\ i # path[n] => inode'[i] = inode[i]
            /\ inode'[i].kind = inode[i].kind
            /\ inode'[i].rd = inode[i].rd /\ inode'[i].wr = inode[i].wr
      /\ inode'[path[n]].buf =
            IF inode[path[n]].kind = "file" /\ Len(inode[path[n]].buf) >= FileLines
            THEN inode[path[n]].buf ELSE Append(inode[path[n]].buf, line)
      /\ inode[path[n]].kind = "file" \/ inode[path[n]].rd # {}
  BY <1>1, PutNode
<1>3. inode[path[n]].kind # "file"
  BY PipeFacts
<1>4. \A m \in Names : /\ inode'[path'[m]].kind = "fifo"
                       /\ inode'[path'[m]].rd = inode[path[m]].rd
                       /\ inode'[path'[m]].wr = inode[path[m]].wr
                       /\ m # n => inode'[path'[m]].buf = inode[path[m]].buf
  BY <1>2, PipeFacts
<1>5. Pipes'
  BY <1>2, <1>4, PipeFacts DEF Pipes
<1> QED  BY <1>2, <1>3, <1>4, <1>5 DEF Rd, Wr, Buf

LEMMA PipeTake ==
    ASSUME TypeInv, Pipes, NEW p \in Procs, NEW n \in Names, Readable(p, n),
           Take(p, n), fd[p][n] = path[n], made' = made
    PROVE  /\ UNCHANGED <<path, fd, waiting>> /\ Pipes'
           /\ \A m \in Names : m # n => Buf(m)' = Buf(m)
           /\ \A m \in Names : Rd(m)' = Rd(m) /\ Wr(m)' = Wr(m)
           /\ Buf(n)' = Tail(Buf(n)) /\ Buf(n) # <<>> /\ At(p, n).buf = Buf(n)
<1>1. FifoType /\ path[n] # 0 /\ made \in Nat
  BY PipeFacts, TypeFacts DEF TypeInv
<1>2. /\ UNCHANGED <<path, fd, waiting>>
      /\ \A i \in 1 .. Len(inode) :
            /\ i # path[n] => inode'[i] = inode[i]
            /\ inode'[i].kind = inode[i].kind
            /\ inode'[i].rd = inode[i].rd /\ inode'[i].wr = inode[i].wr
      /\ inode[path[n]].buf # <<>> /\ inode'[path[n]].buf = Tail(inode[path[n]].buf)
  BY <1>1, TakeNode
<1>4. \A m \in Names : /\ inode'[path'[m]].kind = "fifo"
                       /\ inode'[path'[m]].rd = inode[path[m]].rd
                       /\ inode'[path'[m]].wr = inode[path[m]].wr
                       /\ m # n => inode'[path'[m]].buf = inode[path[m]].buf
  BY <1>2, PipeFacts
<1>5. Pipes'
  BY <1>2, <1>4, PipeFacts DEF Pipes
<1>6. At(p, n).buf = Buf(n)
  BY DEF At, Buf
<1> QED  BY <1>2, <1>4, <1>5, <1>6 DEF Rd, Wr, Buf

\* The end of a pipe is there when nobody can write into it any more.
LEMMA PipeEnd ==
    ASSUME TypeInv, Pipes, NEW p \in Procs, NEW n \in Names, AtEnd(p, n), fd[p][n] = path[n]
    PROVE  Buf(n) = <<>> /\ Wr(n) = {}
BY PipeFacts DEF AtEnd, At, Buf, Wr

LEMMA PipeDelivered ==
    ASSUME TypeInv, Pipes, NEW p \in Procs, NEW n \in Names, ~Delivered(p, n), fd[p][n] = path[n]
    PROVE  Rd(n) = {}
BY PipeFacts DEF Delivered, At, Rd

LEMMA PipeDrained ==
    ASSUME TypeInv, Pipes, NEW p \in Procs, NEW n \in Names, NEW mode, Drained(p, n, mode),
           fd[p][n] = path[n], mode = "r", n # "stopfifo"
    PROVE  Wr(n) = {}
BY PipeFacts DEF Drained, At, Wr

-----------------------------------------------------------------------------
(* The two sides of a dialog. *)

Sides(s) == Pipes /\ CShape /\ SShape(s) /\ Ends(s)

\* When the server stays where it is.
LEMMA ServerShape ==
    ASSUME NEW s \in Servers, SShape(s), path' = path, fd'[s] = fd[s], UNCHANGED <<spc, ssync>>
    PROVE  SShape(s)' /\ \A n \in Names : SReads(s, n)' <=> SReads(s, n)
BY DEF SShape, SReads

\* When the script does.
LEMMA ClientShape ==
    ASSUME CShape, path' = path, fd'[Client] = fd[Client], UNCHANGED <<cpc, csync>>
    PROVE  CShape' /\ \A n \in Names : CReads(n)' <=> CReads(n)
BY DEF CShape, CReads

LEMMA ClientOpens ==
    ASSUME TypeInv, NEW s \in Servers, Sides(s), NEW n \in Names, NEW mode \in {"r", "w"},
           Open(Client, n, mode), fd[Client][n] = 0, UNCHANGED <<spc, ssync>>, CShape',
           CReads(n)' <=> mode = "r",
           \A m \in Names : m # n /\ fd[Client][m] # 0 => (CReads(m)' <=> CReads(m))
    PROVE  Sides(s)'
<1>1. Client \in Procs /\ s \in Procs /\ s # Client
  BY Constants
<1>2. Pipes /\ CShape /\ SShape(s) /\ Ends(s)
  BY DEF Sides
<1>3. /\ path' = path /\ Pipes'
      /\ \A m \in Names : m # n => Rd(m)' = Rd(m) /\ Wr(m)' = Wr(m)
      /\ mode = "r" => Rd(n)' = Rd(n) \cup {Client} /\ Wr(n)' = Wr(n)
      /\ mode = "w" => Rd(n)' = Rd(n) /\ Wr(n)' = Wr(n) \cup {Client}
      /\ fd'[Client][n] = path[n] /\ \A m \in Names : m # n => fd'[Client][m] = fd[Client][m]
      /\ fd'[s] = fd[s] /\ path[n] # 0
  BY <1>1, <1>2, PipeOpen, PipeFacts
<1>4. SShape(s)' /\ \A m \in Names : SReads(s, m)' <=> SReads(s, m)
  BY <1>2, <1>3, ServerShape
<1>5. Ends(s)'
  <2> SUFFICES ASSUME NEW m \in Names
               PROVE  /\ Rd(m)' \subseteq {Client, s} /\ Wr(m)' \subseteq {Client, s}
                      /\ Client \in Rd(m)' <=> fd'[Client][m] # 0 /\ CReads(m)'
                      /\ Client \in Wr(m)' <=> fd'[Client][m] # 0 /\ ~CReads(m)'
                      /\ s \in Rd(m)' <=> fd'[s][m] # 0 /\ SReads(s, m)'
                      /\ s \in Wr(m)' <=> fd'[s][m] # 0 /\ ~SReads(s, m)'
    BY DEF Ends
  <2>1. /\ Rd(m) \subseteq {Client, s} /\ Wr(m) \subseteq {Client, s}
        /\ Client \in Rd(m) <=> fd[Client][m] # 0 /\ CReads(m)
        /\ Client \in Wr(m) <=> fd[Client][m] # 0 /\ ~CReads(m)
        /\ s \in Rd(m) <=> fd[s][m] # 0 /\ SReads(s, m)
        /\ s \in Wr(m) <=> fd[s][m] # 0 /\ ~SReads(s, m)
    BY <1>2 DEF Ends
  <2>2. CASE m # n
    BY <1>3, <1>4, <2>1, <2>2
  <2>3. CASE m = n /\ mode = "r"
    BY <1>1, <1>3, <1>4, <2>1, <2>3
  <2>4. CASE m = n /\ mode = "w"
    BY <1>1, <1>3, <1>4, <2>1, <2>4
  <2> QED  BY <2>2, <2>3, <2>4
<1> QED  BY <1>3, <1>4, <1>5 DEF Sides

LEMMA ServerOpens ==
    ASSUME TypeInv, NEW s \in Servers, Sides(s), NEW n \in Names, NEW mode \in {"r", "w"},
           Open(s, n, mode), fd[s][n] = 0, UNCHANGED <<cpc, csync>>, SShape(s)',
           SReads(s, n)' <=> mode = "r",
           \A m \in Names : m # n /\ fd[s][m] # 0 => (SReads(s, m)' <=> SReads(s, m))
    PROVE  Sides(s)'
<1>1. Client \in Procs /\ s \in Procs /\ s # Client
  BY Constants
<1>2. Pipes /\ CShape /\ SShape(s) /\ Ends(s)
  BY DEF Sides
<1>3. /\ path' = path /\ Pipes'
      /\ \A m \in Names : m # n => Rd(m)' = Rd(m) /\ Wr(m)' = Wr(m)
      /\ mode = "r" => Rd(n)' = Rd(n) \cup {s} /\ Wr(n)' = Wr(n)
      /\ mode = "w" => Rd(n)' = Rd(n) /\ Wr(n)' = Wr(n) \cup {s}
      /\ fd'[s][n] = path[n] /\ \A m \in Names : m # n => fd'[s][m] = fd[s][m]
      /\ fd'[Client] = fd[Client] /\ path[n] # 0
  BY <1>1, <1>2, PipeOpen, PipeFacts
<1>4. CShape' /\ \A m \in Names : CReads(m)' <=> CReads(m)
  BY <1>2, <1>3, ClientShape
<1>5. Ends(s)'
  <2> SUFFICES ASSUME NEW m \in Names
               PROVE  /\ Rd(m)' \subseteq {Client, s} /\ Wr(m)' \subseteq {Client, s}
                      /\ Client \in Rd(m)' <=> fd'[Client][m] # 0 /\ CReads(m)'
                      /\ Client \in Wr(m)' <=> fd'[Client][m] # 0 /\ ~CReads(m)'
                      /\ s \in Rd(m)' <=> fd'[s][m] # 0 /\ SReads(s, m)'
                      /\ s \in Wr(m)' <=> fd'[s][m] # 0 /\ ~SReads(s, m)'
    BY DEF Ends
  <2>1. /\ Rd(m) \subseteq {Client, s} /\ Wr(m) \subseteq {Client, s}
        /\ Client \in Rd(m) <=> fd[Client][m] # 0 /\ CReads(m)
        /\ Client \in Wr(m) <=> fd[Client][m] # 0 /\ ~CReads(m)
        /\ s \in Rd(m) <=> fd[s][m] # 0 /\ SReads(s, m)
        /\ s \in Wr(m) <=> fd[s][m] # 0 /\ ~SReads(s, m)
    BY <1>2 DEF Ends
  <2>2. CASE m # n
    BY <1>3, <1>4, <2>1, <2>2
  <2>3. CASE m = n /\ mode = "r"
    BY <1>1, <1>3, <1>4, <2>1, <2>3
  <2>4. CASE m = n /\ mode = "w"
    BY <1>1, <1>3, <1>4, <2>1, <2>4
  <2> QED  BY <2>2, <2>3, <2>4
<1> QED  BY <1>3, <1>4, <1>5 DEF Sides

\* A pipe is closed by p, one of the two.
LEMMA ClientCloses ==
    ASSUME TypeInv, NEW s \in Servers, Sides(s), NEW S \in SUBSET Names, Close(Client, S),
           UNCHANGED <<spc, ssync>>, CShape',
           \A m \in Names \ S : fd[Client][m] # 0 => (CReads(m)' <=> CReads(m))
    PROVE  Sides(s)'
<1>1. Client \in Procs /\ s \in Procs /\ s # Client
  BY Constants
<1>2. Pipes /\ CShape /\ SShape(s) /\ Ends(s)
  BY DEF Sides
<1>3. \A m, n \in Names : fd[Client][m] = path[n] => m = n
  BY <1>2, PipeFacts DEF CShape
<1>4. /\ path' = path /\ Pipes' /\ fd'[s] = fd[s]
      /\ \A n \in Names :
            /\ fd'[Client][n] = IF n \in S THEN 0 ELSE fd[Client][n]
            /\ IF n \in S /\ fd[Client][n] = path[n]
               THEN Rd(n)' = Rd(n) \ {Client} /\ Wr(n)' = Wr(n) \ {Client}
               ELSE Rd(n)' = Rd(n) /\ Wr(n)' = Wr(n)
  BY <1>1, <1>2, <1>3, PipeClose
<1>5. SShape(s)' /\ \A m \in Names : SReads(s, m)' <=> SReads(s, m)
  BY <1>2, <1>4, ServerShape
<1>6. Ends(s)'
  <2> SUFFICES ASSUME NEW m \in Names
               PROVE  /\ Rd(m)' \subseteq {Client, s} /\ Wr(m)' \subseteq {Client, s}
                      /\ Client \in Rd(m)' <=> fd'[Client][m] # 0 /\ CReads(m)'
                      /\ Client \in Wr(m)' <=> fd'[Client][m] # 0 /\ ~CReads(m)'
                      /\ s \in Rd(m)' <=> fd'[s][m] # 0 /\ SReads(s, m)'
                      /\ s \in Wr(m)' <=> fd'[s][m] # 0 /\ ~SReads(s, m)'
    BY DEF Ends
  <2>1. /\ Rd(m) \subseteq {Client, s} /\ Wr(m) \subseteq {Client, s}
        /\ Client \in Rd(m) <=> fd[Client][m] # 0 /\ CReads(m)
        /\ Client \in Wr(m) <=> fd[Client][m] # 0 /\ ~CReads(m)
        /\ s \in Rd(m) <=> fd[s][m] # 0 /\ SReads(s, m)
        /\ s \in Wr(m) <=> fd[s][m] # 0 /\ ~SReads(s, m)
        /\ fd[Client][m] \in {0, path[m]}
    BY <1>2 DEF Ends, CShape
  <2>2. CASE m \notin S
    BY <1>4, <1>5, <2>1, <2>2
  <2>3. CASE m \in S /\ fd[Client][m] = path[m]
    BY <1>1, <1>4, <1>5, <2>1, <2>3
  <2>4. CASE m \in S /\ fd[Client][m] = 0 /\ fd[Client][m] # path[m]
    BY <1>1, <1>4, <1>5, <2>1, <2>4
  <2> QED  BY <2>1, <2>2, <2>3, <2>4
<1> QED  BY <1>4, <1>5, <1>6 DEF Sides

LEMMA ServerCloses ==
    ASSUME TypeInv, NEW s \in Servers, Sides(s), NEW S \in SUBSET Names, Close(s, S),
           UNCHANGED <<cpc, csync>>, SShape(s)',
           \A m \in Names \ S : fd[s][m] # 0 => (SReads(s, m)' <=> SReads(s, m))
    PROVE  Sides(s)'
<1>1. Client \in Procs /\ s \in Procs /\ s # Client
  BY Constants
<1>2. Pipes /\ CShape /\ SShape(s) /\ Ends(s)
  BY DEF Sides
<1>3. \A m, n \in Names : fd[s][m] = path[n] => m = n
  BY <1>2, PipeFacts DEF SShape
<1>4. /\ path' = path /\ Pipes' /\ fd'[Client] = fd[Client]
      /\ \A n \in Names :
            /\ fd'[s][n] = IF n \in S THEN 0 ELSE fd[s][n]
            /\ IF n \in S /\ fd[s][n] = path[n]
               THEN Rd(n)' = Rd(n) \ {s} /\ Wr(n)' = Wr(n) \ {s}
               ELSE Rd(n)' = Rd(n) /\ Wr(n)' = Wr(n)
  BY <1>1, <1>2, <1>3, PipeClose
<1>5. CShape' /\ \A m \in Names : CReads(m)' <=> CReads(m)
  BY <1>2, <1>4, ClientShape
<1>6. Ends(s)'
  <2> SUFFICES ASSUME NEW m \in Names
               PROVE  /\ Rd(m)' \subseteq {Client, s} /\ Wr(m)' \subseteq {Client, s}
                      /\ Client \in Rd(m)' <=> fd'[Client][m] # 0 /\ CReads(m)'
                      /\ Client \in Wr(m)' <=> fd'[Client][m] # 0 /\ ~CReads(m)'
                      /\ s \in Rd(m)' <=> fd'[s][m] # 0 /\ SReads(s, m)'
                      /\ s \in Wr(m)' <=> fd'[s][m] # 0 /\ ~SReads(s, m)'
    BY DEF Ends
  <2>1. /\ Rd(m) \subseteq {Client, s} /\ Wr(m) \subseteq {Client, s}
        /\ Client \in Rd(m) <=> fd[Client][m] # 0 /\ CReads(m)
        /\ Client \in Wr(m) <=> fd[Client][m] # 0 /\ ~CReads(m)
        /\ s \in Rd(m) <=> fd[s][m] # 0 /\ SReads(s, m)
        /\ s \in Wr(m) <=> fd[s][m] # 0 /\ ~SReads(s, m)
        /\ fd[s][m] \in {0, path[m]}
    BY <1>2 DEF Ends, SShape
  <2>2. CASE m \notin S
    BY <1>4, <1>5, <2>1, <2>2
  <2>3. CASE m \in S /\ fd[s][m] = path[m]
    BY <1>1, <1>4, <1>5, <2>1, <2>3
  <2>4. CASE m \in S /\ fd[s][m] = 0 /\ fd[s][m] # path[m]
    BY <1>1, <1>4, <1>5, <2>1, <2>4
  <2> QED  BY <2>1, <2>2, <2>3, <2>4
<1> QED  BY <1>4, <1>5, <1>6 DEF Sides

\* Nothing is opened or closed, and what is open keeps its way.
LEMMA SidesStay ==
    ASSUME NEW s \in Servers, Sides(s), Pipes', UNCHANGED <<path, fd>>,
           \A m \in Names : Rd(m)' = Rd(m) /\ Wr(m)' = Wr(m), CShape', SShape(s)',
           \A m \in Names : fd[Client][m] # 0 => (CReads(m)' <=> CReads(m)),
           \A m \in Names : fd[s][m] # 0 => (SReads(s, m)' <=> SReads(s, m))
    PROVE  Sides(s)'
<1>1. Ends(s)'
  <2> SUFFICES ASSUME NEW m \in Names
               PROVE  /\ Rd(m)' \subseteq {Client, s} /\ Wr(m)' \subseteq {Client, s}
                      /\ Client \in Rd(m)' <=> fd'[Client][m] # 0 /\ CReads(m)'
                      /\ Client \in Wr(m)' <=> fd'[Client][m] # 0 /\ ~CReads(m)'
                      /\ s \in Rd(m)' <=> fd'[s][m] # 0 /\ SReads(s, m)'
                      /\ s \in Wr(m)' <=> fd'[s][m] # 0 /\ ~SReads(s, m)'
    BY DEF Ends
  <2>1. /\ Rd(m) \subseteq {Client, s} /\ Wr(m) \subseteq {Client, s}
        /\ Client \in Rd(m) <=> fd[Client][m] # 0 /\ CReads(m)
        /\ Client \in Wr(m) <=> fd[Client][m] # 0 /\ ~CReads(m)
        /\ s \in Rd(m) <=> fd[s][m] # 0 /\ SReads(s, m)
        /\ s \in Wr(m) <=> fd[s][m] # 0 /\ ~SReads(s, m)
    BY DEF Sides, Ends
  <2> QED  BY <2>1
<1> QED  BY <1>1 DEF Sides

-----------------------------------------------------------------------------
(* The meetings. *)

LEMMA MeetingPipes ==
    /\ PipeOf(1) = "stopfifo" /\ PipeOf(2) = "outfifo" /\ PipeOf(3) = "stopfifo"
    /\ PipeOf(4) = "infifo" /\ PipeOf(5) = "stopfifo" /\ PipeOf(6) = "infifo"
    /\ \A k \in 1 .. 6 : PipeOf(k) \in Names
    /\ \A k \in 1 .. 5 : /\ PipeOf(k) = ClientSync[k][1] /\ PipeOf(k) = ServerSync[k][1]
                         /\ PipeOf(k) # PipeOf(k + 1)
<1>1. /\ PipeOf(1) = "stopfifo" /\ PipeOf(2) = "outfifo" /\ PipeOf(3) = "stopfifo"
      /\ PipeOf(4) = "infifo" /\ PipeOf(5) = "stopfifo" /\ PipeOf(6) = "infifo"
  BY DEF PipeOf, ClientSync
<1>2. \A k \in 1 .. 6 : k = 1 \/ k = 2 \/ k = 3 \/ k = 4 \/ k = 5 \/ k = 6
  OBVIOUS
<1>3. \A k \in 1 .. 6 : PipeOf(k) \in Names
  BY <1>1, <1>2, Constants
<1>4. \A k \in 1 .. 5 : PipeOf(k) = ClientSync[k][1]
  BY DEF PipeOf
<1>5. \A k \in 1 .. 5 : PipeOf(k) # PipeOf(k + 1)
  <2> TAKE k \in 1 .. 5
  <2>1. k = 1 \/ k = 2 \/ k = 3 \/ k = 4 \/ k = 5
    OBVIOUS
  <2> QED  BY <1>1, <2>1
<1> QED  BY <1>1, <1>3, <1>4, <1>5, SyncPipes

\* Which way each opens the pipe of a meeting.
ClientWay(k) == IF k = 6 THEN "w" ELSE ClientSync[k][2]
ServerWay(k) == IF k = 6 THEN "r" ELSE ServerSync[k][2]

LEMMA MeetingWays ==
    ASSUME NEW k \in 1 .. 6, NEW s \in Servers
    PROVE  /\ ClientWay(k) \in {"r", "w"} /\ ServerWay(k) \in {"r", "w"}
           /\ ClientWay(k) = "r" <=> ServerWay(k) = "w"
           /\ CAt(k) => (CReads(PipeOf(k)) <=> ClientWay(k) = "r")
           /\ SAt(s, k) => (SReads(s, PipeOf(k)) <=> ServerWay(k) = "r")
<1>1. k = 1 \/ k = 2 \/ k = 3 \/ k = 4 \/ k = 5 \/ k = 6
  OBVIOUS
<1>2. /\ ClientWay(1) = "w" /\ ClientWay(2) = "w" /\ ClientWay(3) = "w" /\ ClientWay(4) = "r"
      /\ ClientWay(5) = "w" /\ ClientWay(6) = "w"
      /\ ServerWay(1) = "r" /\ ServerWay(2) = "r" /\ ServerWay(3) = "r" /\ ServerWay(4) = "w"
      /\ ServerWay(5) = "r" /\ ServerWay(6) = "r"
  BY DEF ClientWay, ServerWay, ClientSync, ServerSync
<1> QED  BY <1>1, <1>2, MeetingPipes DEF CAt, SAt, CReads, SReads

\* Who has what open around a meeting.
LEMMA MeetingShape ==
    ASSUME TypeInv, NEW s \in Servers, Sides(s), NEW k \in 1 .. 6
    PROVE  /\ SIn(s, k - 1) => fd[s][PipeOf(k)] = 0
           /\ \A n \in Names : CAt(k) /\ n # PipeOf(k) => fd[Client][n] = 0
           /\ \A n \in Names : SAt(s, k) /\ n # PipeOf(k) => fd[s][n] = 0
<1>1. CShape /\ SShape(s)
  BY DEF Sides
<1>2. \A n \in Names : SAt(s, k) /\ n # PipeOf(k) => fd[s][n] = 0
  <2>1. CASE k = 6
    BY <1>1, <2>1, MeetingPipes, Constants DEF SAt, SShape, InDialog
  <2>2. CASE k # 6
    <3>1. k \in 1 .. 5
      BY <2>2
    <3> QED  BY <1>1, <3>1, MeetingPipes DEF SAt, SShape
  <2> QED  BY <2>1, <2>2
<1>3. \A n \in Names : CAt(k) /\ n # PipeOf(k) => fd[Client][n] = 0
  <2>1. CASE k = 6
    BY <1>1, <2>1, MeetingPipes, Constants DEF CAt, CShape
  <2>2. CASE k # 6
    <3>1. k \in 1 .. 5
      BY <2>2
    <3> QED  BY <1>1, <3>1, MeetingPipes DEF CAt, CShape
  <2> QED  BY <2>1, <2>2
<1>4. SIn(s, k - 1) => fd[s][PipeOf(k)] = 0
  <2>1. CASE k = 1
    BY <1>1, <2>1, MeetingPipes DEF SIn, SShape
  <2>2. CASE k # 1
    <3>1. k - 1 \in 1 .. 5 /\ k - 1 # 0 /\ k - 1 # 6 /\ (k - 1) + 1 = k
      BY <2>2
    <3>2. PipeOf(k) # PipeOf(k - 1) /\ PipeOf(k) \in Names /\ PipeOf(k - 1) = ServerSync[k - 1][1]
      BY <3>1, MeetingPipes
    <3> QED  BY <1>1, <3>1, <3>2 DEF SIn, SAt, SShape
  <2> QED  BY <2>1, <2>2
<1> QED  BY <1>2, <1>3, <1>4

\* The script opens the pipe of the k-th meeting.
LEMMA ClientArrives ==
    ASSUME TypeInv, NEW s \in Servers, Sides(s), NEW k \in 1 .. 6, Meet(s, k), CBefore(k),
           Open(Client, PipeOf(k), ClientWay(k)), CAt(k)', UNCHANGED <<spc, ssync>>
    PROVE  Meet(s, k)'
<1> DEFINE n == PipeOf(k) mode == ClientWay(k)
           there == IF mode = "r" THEN Wr(n) ELSE Rd(n)
<1>1. n \in Names /\ mode \in {"r", "w"} /\ Client \in Procs /\ s \in Procs /\ s # Client
      /\ PipeOf(k)' = n /\ Pipes
  BY MeetingPipes, MeetingWays, Constants DEF PipeOf, Sides
<1>2. fd[Client][n] = 0 /\ waiting[Client] = 0 /\ (SIn(s, k - 1) \/ SBefore(s, k) \/ SBlocked(s, k))
  BY DEF Meet, CBefore, CBlocked, CIn, Coming
<1>3. /\ path' = path /\ fd'[Client][n] = path[n] /\ fd'[s] = fd[s] /\ path[n] # 0
      /\ waiting'[Client] = IF there = {} THEN path[n] ELSE 0
      /\ waiting'[s] = IF s \in there /\ waiting[s] = path[n] THEN 0 ELSE waiting[s]
  BY <1>1, PipeOpen, PipeFacts
<1>4. there \subseteq {s} /\ (s \in there <=> fd[s][n] # 0 /\ (SReads(s, n) <=> mode = "w"))
  <2>1. /\ Rd(n) \subseteq {Client, s} /\ Wr(n) \subseteq {Client, s}
        /\ Client \notin Rd(n) /\ Client \notin Wr(n)
        /\ s \in Rd(n) <=> fd[s][n] # 0 /\ SReads(s, n)
        /\ s \in Wr(n) <=> fd[s][n] # 0 /\ ~SReads(s, n)
    BY <1>1, <1>2 DEF Sides, Ends
  <2> QED  BY <1>1, <2>1
<1> HIDE DEF n, mode, there
<1>5. CASE SIn(s, k - 1) \/ SBefore(s, k)
  <2>1. there = {}
    BY <1>4, <1>5, MeetingShape DEF SBefore, n
  <2>2. CBlocked(k)'
    BY <1>1, <1>3, <2>1 DEF CBlocked, n
  <2>3. waiting'[s] = waiting[s]
    BY <1>3, <2>1
  <2>4. SIn(s, k - 1)' \/ SBefore(s, k)'
    <3>1. PipeOf(k - 1)' = PipeOf(k - 1)
      BY DEF PipeOf
    <3> QED  BY <1>1, <1>3, <1>5, <2>3, <3>1 DEF SIn, SBefore, SAt, n
  <2> QED  BY <2>2, <2>4 DEF Meet
<1>6. CASE SBlocked(s, k)
  <2>1. s \in there
    <3>1. fd[s][n] # 0 /\ SAt(s, k)
      BY <1>6 DEF SBlocked, n
    <3> QED  BY <1>4, <3>1, MeetingWays DEF n, mode
  <2>2. waiting'[Client] = 0 /\ waiting'[s] = 0
    BY <1>3, <1>6, <2>1 DEF SBlocked, n
  <2>3. CIn(k)'
    BY <1>1, <1>3, <2>2 DEF CIn, n
  <2>4. SIn(s, k)'
    BY <1>1, <1>3, <1>6, <2>2 DEF SIn, SBlocked, SAt, n
  <2> QED  BY <2>3, <2>4 DEF Meet
<1> QED  BY <1>2, <1>5, <1>6

\* The server opens it.
LEMMA ServerArrives ==
    ASSUME TypeInv, NEW s \in Servers, Sides(s), NEW k \in 1 .. 6, SBefore(s, k),
           Open(s, PipeOf(k), ServerWay(k)), SAt(s, k)', UNCHANGED <<cpc, csync>>
    PROVE  /\ \A j \in 1 .. 6 : Meet(s, j) => Meet(s, j)'
           /\ fd[Client][PipeOf(k)] = 0 => SBlocked(s, k)' /\ waiting'[Client] = waiting[Client]
<1> DEFINE n == PipeOf(k) mode == ServerWay(k)
           there == IF mode = "r" THEN Wr(n) ELSE Rd(n)
<1>1. n \in Names /\ mode \in {"r", "w"} /\ Client \in Procs /\ s \in Procs /\ s # Client
      /\ PipeOf(k)' = n /\ Pipes
  BY MeetingPipes, MeetingWays, Constants DEF PipeOf, Sides
<1>2. fd[s][n] = 0 /\ waiting[s] = 0 /\ SAt(s, k)
  BY DEF SBefore
<1>3. /\ path' = path /\ fd'[s][n] = path[n] /\ fd'[Client] = fd[Client] /\ path[n] # 0
      /\ waiting'[s] = IF there = {} THEN path[n] ELSE 0
      /\ waiting'[Client] =
             IF Client \in there /\ waiting[Client] = path[n] THEN 0 ELSE waiting[Client]
  BY <1>1, PipeOpen, PipeFacts
<1>4. there \subseteq {Client}
      /\ (Client \in there <=> fd[Client][n] # 0 /\ (CReads(n) <=> mode = "w"))
  <2>1. /\ Rd(n) \subseteq {Client, s} /\ Wr(n) \subseteq {Client, s}
        /\ s \notin Rd(n) /\ s \notin Wr(n)
        /\ Client \in Rd(n) <=> fd[Client][n] # 0 /\ CReads(n)
        /\ Client \in Wr(n) <=> fd[Client][n] # 0 /\ ~CReads(n)
    BY <1>1, <1>2 DEF Sides, Ends
  <2> QED  BY <1>1, <2>1
<1> HIDE DEF n, mode, there
<1>5. fd[Client][n] = 0 => SBlocked(s, k)' /\ waiting'[Client] = waiting[Client]
  <2> HAVE fd[Client][n] = 0
  <2>1. there = {}
    BY <1>4
  <2> QED  BY <1>1, <1>3, <2>1 DEF SBlocked, n
<1>6. ASSUME NEW j \in 1 .. 6, Meet(s, j) PROVE Meet(s, j)'
  <2>1. k = j \/ (k = j + 1 /\ j < 6 /\ CIn(j))
    BY <1>2, <1>6 DEF Meet, Coming, SBefore, SBlocked, SIn, SAt
  <2>2. CASE k = j + 1 /\ j < 6 /\ CIn(j)
    <3>1. CAt(j) /\ n # PipeOf(j)
      BY <2>2, MeetingPipes DEF CIn, n
    <3>2. fd[Client][n] = 0
      BY <1>1, <3>1, MeetingShape
    <3>3. CIn(j)'
      BY <1>3, <1>5, <2>2, <3>2 DEF CIn, CAt, PipeOf
    <3> QED  BY <1>5, <2>2, <3>2, <3>3 DEF Meet, Coming
  <2>3. CASE k = j /\ CBefore(k)
    <3>1. fd[Client][n] = 0
      BY <2>3 DEF CBefore, n
    <3>2. CBefore(k)'
      BY <1>3, <1>5, <2>3, <3>1 DEF CBefore, CAt, PipeOf
    <3> QED  BY <1>5, <2>3, <3>1, <3>2 DEF Meet, Coming
  <2>4. CASE k = j /\ CBlocked(k)
    <3>1. fd[Client][n] # 0 /\ waiting[Client] = path[n] /\ CAt(k)
      BY <2>4 DEF CBlocked, n
    <3>2. Client \in there
      BY <1>4, <3>1, MeetingWays DEF n, mode
    <3>3. waiting'[Client] = 0 /\ waiting'[s] = 0
      BY <1>3, <3>1, <3>2
    <3>4. CIn(k)' /\ SIn(s, k)'
      BY <1>1, <1>3, <2>4, <3>3 DEF CIn, CBlocked, CAt, SIn, n
    <3> QED  BY <2>4, <3>4 DEF Meet
  <2>5. ~(k = j /\ CIn(k))
    BY <1>2, <1>3, <1>6 DEF Meet, CIn, CBefore, CBlocked, Coming, SIn, SBefore, SBlocked, SAt, n
  <2> QED  BY <1>6, <2>1, <2>2, <2>3, <2>4, <2>5 DEF Meet
<1> QED  BY <1>5, <1>6 DEF n

\* Each closes the pipe of a meeting when both have been there.
LEMMA ClientDeparts ==
    ASSUME TypeInv, NEW s \in Servers, Sides(s), NEW k \in 1 .. 5, Meet(s, k), CIn(k),
           Close(Client, {PipeOf(k)}), CAt(k + 1)', UNCHANGED <<spc, ssync>>
    PROVE  Meet(s, k + 1)'
<1>1. Client \in Procs /\ s \in Procs /\ s # Client /\ Pipes /\ k + 1 \in 1 .. 6 /\ k \in 1 .. 6
      /\ k # 6 /\ (k + 1) - 1 = k /\ PipeOf(k) \in Names /\ PipeOf(k + 1) \in Names
      /\ PipeOf(k) # PipeOf(k + 1)
  BY MeetingPipes, Constants DEF Sides
<1>2. \A m, n \in Names : fd[Client][m] = path[n] => m = n
  BY PipeFacts DEF Sides, CShape
<1>3. /\ path' = path /\ waiting'[Client] = 0 /\ fd'[s] = fd[s] /\ waiting'[s] = waiting[s]
      /\ fd'[Client][PipeOf(k + 1)] = fd[Client][PipeOf(k + 1)]
  BY <1>1, <1>2, PipeClose
<1>4. fd[Client][PipeOf(k + 1)] = 0
  BY <1>1, MeetingShape DEF CIn
<1>5. CBefore(k + 1)'
  <2>1. PipeOf(k + 1)' = PipeOf(k + 1)
    BY DEF PipeOf
  <2> QED  BY <1>3, <1>4, <2>1 DEF CBefore
<1>6. SIn(s, k) \/ Coming(s, k + 1)
  BY PipeFacts, <1>1 DEF Meet, CIn, CBefore, CBlocked, Sides
<1>7. SIn(s, k)' \/ Coming(s, k + 1)'
  <2>1. PipeOf(k + 1)' = PipeOf(k + 1) /\ PipeOf(k)' = PipeOf(k)
    BY DEF PipeOf
  <2> QED  BY <1>3, <1>6, <2>1 DEF SIn, Coming, SBefore, SBlocked, SAt
<1> QED  BY <1>1, <1>5, <1>7 DEF Meet

LEMMA ServerDeparts ==
    ASSUME TypeInv, NEW s \in Servers, Sides(s), NEW k \in 1 .. 5, SIn(s, k),
           NEW j \in 1 .. 6, Meet(s, j),
           Close(s, {PipeOf(k)}), SAt(s, k + 1)', UNCHANGED <<cpc, csync>>
    PROVE  Meet(s, j)'
<1>1. Client \in Procs /\ s \in Procs /\ s # Client /\ Pipes /\ k + 1 \in 1 .. 6 /\ k \in 1 .. 6
      /\ k # 6 /\ k # 0 /\ (k + 1) - 1 = k /\ PipeOf(k) \in Names /\ PipeOf(k + 1) \in Names
      /\ PipeOf(k) # PipeOf(k + 1)
  BY MeetingPipes, Constants DEF Sides
<1>2. \A m, n \in Names : fd[s][m] = path[n] => m = n
  BY PipeFacts DEF Sides, SShape
<1>3. /\ path' = path /\ waiting'[s] = 0 /\ fd'[Client] = fd[Client]
      /\ waiting'[Client] = waiting[Client]
      /\ fd'[s][PipeOf(k + 1)] = fd[s][PipeOf(k + 1)]
  BY <1>1, <1>2, PipeClose
<1>4. fd[s][PipeOf(k + 1)] = 0
  BY <1>1, MeetingShape DEF SIn
<1>5. SBefore(s, k + 1)'
  <2>1. PipeOf(k + 1)' = PipeOf(k + 1)
    BY DEF PipeOf
  <2> QED  BY <1>3, <1>4, <2>1 DEF SBefore
<1>6. \/ j = k + 1 /\ (CBefore(j) \/ CBlocked(j))
      \/ j = k /\ CIn(j)
  <2>1. SAt(s, k) /\ waiting[s] = 0 /\ fd[s][PipeOf(k)] # 0 /\ path[PipeOf(k)] # 0
    BY <1>1, PipeFacts DEF SIn
  <2>2. \A i \in 0 .. 6 : SIn(s, i) => i = k
    BY <1>1, <2>1 DEF SIn, SAt
  <2>3. \A i \in 1 .. 6 : ~Coming(s, i)
    <3> SUFFICES ASSUME NEW i \in 1 .. 6, Coming(s, i) PROVE FALSE
      OBVIOUS
    <3>1. i = k
      BY <1>1, <2>1 DEF Coming, SBefore, SBlocked, SAt
    <3> QED  BY <2>1, <3>1 DEF Coming, SBefore, SBlocked
  <2>4. j - 1 \in 0 .. 6 /\ j \in 0 .. 6 /\ (j < 6 => j + 1 \in 1 .. 6)
    OBVIOUS
  <2>5. (j - 1 = k <=> j = k + 1)
    OBVIOUS
  <2> QED  BY <2>2, <2>3, <2>4, <2>5 DEF Meet, Coming
<1>7. PipeOf(j)' = PipeOf(j) /\ PipeOf(j + 1)' = PipeOf(j + 1)
  BY DEF PipeOf
<1>8. CASE j = k + 1 /\ (CBefore(j) \/ CBlocked(j))
  <2>1. CBefore(j)' \/ CBlocked(j)'
    BY <1>3, <1>7, <1>8 DEF CBefore, CBlocked, CAt
  <2> QED  BY <1>5, <1>8, <2>1 DEF Meet, Coming
<1>9. CASE j = k /\ CIn(j)
  <2>1. CIn(j)'
    BY <1>3, <1>7, <1>9 DEF CIn, CAt
  <2> QED  BY <1>5, <1>9, <2>1 DEF Meet, Coming
<1> QED  BY <1>6, <1>8, <1>9

-----------------------------------------------------------------------------
(* The script, while its server is up. *)

Dialog(s) == InStep(s) \/ Sent(s) \/ Executing(s) \/ Replying(s) \/ Quitting(s)

LEMMA UpFacts ==
    ASSUME TypeInv, NEW s \in Servers, Up(s)
    PROVE  /\ pidfile = s /\ s # 0 /\ Sides(s) /\ Pipes /\ Dialog(s) /\ Buf("stopfifo") = <<>>
           /\ Client \in Procs /\ s \in Procs /\ s # Client
           /\ session = "up" <=> cpc \notin {"quit", "quitting", "stopping"}
           /\ \A n \in Names : path[n] # 0
           /\ \A p \in {Client, s}, m \in Names :
                 fd[p][m] \in {0, path[m]} /\ \A n \in Names : fd[p][m] = path[n] => m = n
<1>1. Sides(s) /\ Pipes /\ Dialog(s) /\ CShape /\ SShape(s)
  BY DEF Up, Sides, Dialog
<1>2. \A n \in Names : path[n] # 0
  BY <1>1, PipeFacts
<1>3. \A p \in {Client, s}, m \in Names : fd[p][m] \in {0, path[m]}
  BY <1>1 DEF CShape, SShape
<1>4. \A p \in {Client, s}, m \in Names : \A n \in Names : fd[p][m] = path[n] => m = n
  BY <1>1, <1>2, <1>3, PipeFacts
<1> QED  BY <1>1, <1>2, <1>3, <1>4, Constants DEF Up

LEMMA UpMove ==
    ASSUME TypeInv, NEW s \in Servers, Up(s), UNCHANGED <<pidfile, path>>,
           \A q \in Servers : q # s => fd'[q] = fd[q] /\ spc'[q] = spc[q],
           session' = "up" <=> cpc' \notin {"quit", "quitting", "stopping"},
           Sides(s)', Buf("stopfifo")' = <<>>, Dialog(s)'
    PROVE  Up(s)'
<1>1. \A q \in Servers : q # s => spc'[q] \in {"none", "gone", "dead"} /\ Stale(q)'
  BY DEF Up, Stale
<1> QED  BY <1>1 DEF Up, Sides, Dialog

\* A step of the script leaves the servers alone.
LEMMA ScriptUp ==
    ASSUME TypeInv, NEW s \in Servers, Up(s), ScriptOnly, path' = path,
           \A q \in Servers : fd'[q] = fd[q],
           session' = "up" <=> cpc' \notin {"quit", "quitting", "stopping"},
           Sides(s)', Buf("stopfifo")' = <<>>, Dialog(s)'
    PROVE  Up(s)'
<1>1. UNCHANGED <<pidfile, spc>>
  BY DEF ScriptOnly, server
<1> QED  BY <1>1, UpMove

\* Where the script stands tells how far the dialog is.
LEMMA UpPlaces ==
    ASSUME TypeInv, NEW s \in Servers, Up(s)
    PROVE  /\ cpc \in {"idle", "start", "forked", "open", "command", "quit"}
               => InStep(s) /\ Meet(s, 6)
           /\ cpc = "sync" => InStep(s) /\ csync \in 1 .. 5 /\ Meet(s, csync)
           /\ cpc = "answer" => Sent(s)
           /\ cpc = "type" => Sent(s) \/ Executing(s) \/ Replying(s)
           /\ cpc \in {"options", "choice"} => Executing(s)
           /\ cpc \in {"result", "close"} => Replying(s)
           /\ cpc \in {"quitting", "stopping"} => Quitting(s)
           /\ cpc # "leave"
<1>1. \A k \in 1 .. 6 : Meet(s, k) => CAt(k)
  BY DEF Meet, CBefore, CBlocked, CIn
<1>2. InStep(s) => \/ cpc \in {"idle", "start", "forked", "open", "command", "quit"} /\ Meet(s, 6)
                   \/ cpc = "sync" /\ csync \in 1 .. 5 /\ Meet(s, csync)
  <2> SUFFICES ASSUME NEW k \in 1 .. 6, Meet(s, k)
               PROVE  \/ cpc \in {"idle", "start", "forked", "open", "command", "quit"}
                         /\ Meet(s, 6)
                      \/ cpc = "sync" /\ csync \in 1 .. 5 /\ Meet(s, csync)
    BY DEF InStep
  <2>1. CAt(k)
    BY <1>1
  <2> QED  BY <2>1 DEF CAt
<1>3. Sent(s) => cpc \in {"answer", "type"}
  BY DEF Sent
<1>4. Executing(s) => cpc \in {"type", "options", "choice"}
  BY DEF Executing
<1>5. Replying(s) => cpc \in {"type", "result", "close"}
  BY DEF Replying
<1>6. Quitting(s) => cpc \in {"quitting", "stopping"}
  BY DEF Quitting
<1>7. Dialog(s)
  BY UpFacts
<1> QED  BY <1>2, <1>3, <1>4, <1>5, <1>6, <1>7 DEF Dialog

\* Buffers and ways when no pipe is used.
LEMMA StillPipes ==
    ASSUME UNCHANGED fifoVars
    PROVE  /\ UNCHANGED <<path, fd, waiting>> /\ (Pipes => Pipes')
           /\ \A n \in Names : Rd(n)' = Rd(n) /\ Wr(n)' = Wr(n) /\ Buf(n)' = Buf(n)
BY DEF fifoVars, Pipes, Rd, Wr, Buf

LEMMA QuietUp ==
    ASSUME TypeInv, NEW s \in Servers, Up(s), Refresh \/ Started \/ (StartServer /\ pidfile # 0)
    PROVE  Up(s)'
<1>1. /\ UNCHANGED fifoVars /\ ScriptOnly /\ UNCHANGED <<csync, session, kind, made, answered>>
      /\ cpc \in {"idle", "start", "forked"} /\ cpc' \in {"idle", "start", "open"}
      /\ cpc' # "open" => cpc \in {"idle", "start"}
  <2>1. pidfile # 0
    BY UpFacts
  <2>2. CASE Refresh
    BY <2>2 DEF Refresh, Script
  <2>3. CASE Started
    BY <2>1, <2>3 DEF Started
  <2>4. CASE StartServer
    BY <2>1, <2>4 DEF StartServer, Script, ScriptOnly
  <2> QED  BY <2>2, <2>3, <2>4
<1>2. /\ UNCHANGED <<path, fd, waiting>> /\ Pipes'
      /\ \A n \in Names : Rd(n)' = Rd(n) /\ Wr(n)' = Wr(n) /\ Buf(n)' = Buf(n)
  BY <1>1, StillPipes, UpFacts
<1>3. UNCHANGED <<spc, ssync, cmd, opened, executed>>
  BY <1>1 DEF ScriptOnly, server
<1>4. Sides(s)'
  <2>1. CShape'
    BY <1>1, <1>2, UpFacts DEF Sides, CShape
  <2>2. SShape(s)'
    BY <1>2, <1>3, UpFacts, ServerShape DEF Sides
  <2>3. \A m \in Names : CReads(m)' <=> CReads(m)
    BY <1>1 DEF CReads
  <2>4. \A m \in Names : SReads(s, m)' <=> SReads(s, m)
    BY <1>3 DEF SReads
  <2> QED  BY <1>2, <2>1, <2>2, <2>3, <2>4, UpFacts, SidesStay
<1>5. Meet(s, 6)'
  <2>1. Meet(s, 6)
    BY <1>1, UpPlaces
  <2>2. CBefore(6)
    BY <1>1, <2>1, UpFacts, MeetingPipes DEF Meet, CBefore, CBlocked, CIn, Sides, CShape
  <2>3. CBefore(6)' /\ CAt(6)'
    BY <1>1, <1>2, <2>2 DEF CBefore, CAt, PipeOf
  <2>4. SIn(s, 6 - 1) \/ Coming(s, 6)
    BY <2>1, <2>2, UpFacts, MeetingPipes DEF Meet, CBefore, CBlocked, CIn
  <2>5. SIn(s, 6 - 1)' \/ Coming(s, 6)'
    BY <1>2, <1>3, <2>4 DEF SIn, Coming, SBefore, SBlocked, SAt, PipeOf, ClientSync
  <2> QED  BY <2>3, <2>5 DEF Meet
<1>6. InStep(s)'
  <2>1. InStep(s) /\ "infifo" \in Names /\ "outfifo" \in Names /\ 6 \in 1 .. 6
    BY <1>1, UpPlaces, Constants
  <2> QED  BY <1>1, <1>2, <1>3, <1>5, <2>1 DEF InStep
<1>7. Buf("stopfifo")' = <<>>
  BY <1>2, UpFacts, Constants
<1>8. session' = "up" <=> cpc' \notin {"quit", "quitting", "stopping"}
  BY <1>1, UpFacts
<1> QED  BY <1>1, <1>2, <1>4, <1>6, <1>7, <1>8, ScriptUp DEF Dialog

\* A call not made yet has not been executed.
LEMMA NotYet == ASSUME TypeInv PROVE ~calls!Executed(made + 1)
<1>1. executed \in Seq(1 .. made) /\ made \in Nat
  BY ServerFacts
<1>2. \A i \in DOMAIN executed : executed[i] \in 1 .. made
  BY <1>1, ElementOfSeq, LenProperties
<1> QED  BY <1>1, <1>2 DEF calls!Executed

\* The script opens infifo for a command, or to stop the server.
LEMMA CallUp == ASSUME TypeInv, NEW s \in Servers, Up(s), Ask \/ StopServer PROVE Up(s)'
<1>1. /\ Open(Client, "infifo", "w") /\ ScriptOnly /\ UNCHANGED csync
      /\ cpc \in {"idle", "open"} /\ cpc' \in {"command", "quit"}
      /\ session' = "up" <=> cpc' \notin {"quit", "quitting", "stopping"}
      /\ cpc' = "command" => /\ made' = made + 1 /\ answered' = answered
                             /\ kind' = "open" \/ cpc = "idle"
  BY DEF Ask, StopServer, Script
<1>2. UNCHANGED <<spc, ssync, opened, executed>>
  BY <1>1 DEF ScriptOnly, server
<1>3. Meet(s, 6) /\ InStep(s) /\ Sides(s) /\ Pipes
  BY <1>1, UpPlaces, UpFacts
<1>4. /\ fd[Client]["infifo"] = 0 /\ fd[Client]["outfifo"] = 0 /\ fd[Client]["stopfifo"] = 0
  BY <1>1, <1>3 DEF Sides, CShape
<1>5. CBefore(6)
  BY <1>3, <1>4, MeetingPipes DEF Meet, CBefore, CBlocked, CIn
<1>6. CAt(6)' /\ "infifo" \in Names /\ "outfifo" \in Names /\ "stopfifo" \in Names
      /\ 6 \in 1 .. 6 /\ ClientWay(6) = "w" /\ PipeOf(6) = "infifo" /\ Client \in Procs
  BY <1>1, MeetingPipes, Constants DEF CAt, ClientWay
<1>7. Meet(s, 6)'
  BY <1>1, <1>2, <1>3, <1>5, <1>6, ClientArrives
<1>8. /\ path' = path /\ fd'[Client]["infifo"] = path["infifo"] /\ path["infifo"] # 0
      /\ \A n \in Names : Buf(n)' = Buf(n)
      /\ fd'[Client]["outfifo"] = fd[Client]["outfifo"]
      /\ fd'[Client]["stopfifo"] = fd[Client]["stopfifo"]
      /\ \A q \in Procs : q # Client => fd'[q] = fd[q]
  BY <1>1, <1>3, <1>6, PipeOpen, UpFacts
<1>9. CShape'
  <2>1. \A n \in Names : fd'[Client][n] \in {0, path'[n]}
    BY <1>4, <1>8, Constants
  <2> QED  BY <1>1, <1>4, <1>8, <2>1 DEF CShape
<1>10. Sides(s)'
  <2>1. CReads("infifo")' <=> "w" = "r"
    BY <1>1 DEF CReads
  <2>2. \A m \in Names : m # "infifo" /\ fd[Client][m] # 0 => (CReads(m)' <=> CReads(m))
    BY <1>4, Constants
  <2> QED  BY <1>1, <1>2, <1>3, <1>4, <1>6, <1>9, <2>1, <2>2, ClientOpens
<1>11. InStep(s)'
  <2>1. Buf("infifo")' = <<>> /\ Buf("outfifo")' = <<>>
    BY <1>3, <1>6, <1>8 DEF InStep
  <2>2. cpc' = "command" => kind' = "open" \/ opened'[s]
    BY <1>1, <1>2, <1>3 DEF InStep
  <2>3. cpc' = "command" => answered' < made' /\ ~calls!Executed(made)'
    <3>1. answered \in 0 .. made /\ made \in Nat /\ ~calls!Executed(made + 1)
      BY TypeFacts, NotYet
    <3> QED  BY <1>1, <1>2, <3>1 DEF calls!Executed
  <2> QED  BY <1>1, <1>6, <1>7, <2>1, <2>2, <2>3 DEF InStep
<1>12. Buf("stopfifo")' = <<>>
  BY <1>6, <1>8, UpFacts
<1>13. \A q \in Servers : fd'[q] = fd[q]
  BY <1>8, Constants
<1> QED  BY <1>1, <1>8, <1>10, <1>11, <1>12, <1>13, ScriptUp DEF Dialog

\* It writes the command, or QUIT: the server has infifo open by then.
LEMMA SendUp == ASSUME TypeInv, NEW s \in Servers, Up(s), WriteCommand \/ WriteQuit PROVE Up(s)'
<1>1. /\ ScriptOnly /\ UNCHANGED <<csync, session, kind, made, answered>> /\ waiting[Client] = 0
      /\ \/ /\ cpc = "command" /\ cpc' = "answer"
            /\ Put(Client, "infifo", Line("cmd", made))
         \/ /\ cpc = "quit" /\ cpc' = "quitting"
            /\ Put(Client, "infifo", Line("QUIT", 0))
  BY DEF WriteCommand, WriteQuit, Script, Running
<1>2. UNCHANGED <<spc, ssync, opened, executed, cmd>>
  BY <1>1 DEF ScriptOnly, server
<1>3. Meet(s, 6) /\ InStep(s) /\ Sides(s) /\ Pipes
  BY <1>1, UpPlaces, UpFacts
<1>4. fd[Client]["infifo"] = path["infifo"] /\ path["infifo"] # 0
      /\ fd[Client]["outfifo"] = 0 /\ fd[Client]["stopfifo"] = 0
  <2>1. fd[Client]["infifo"] # 0 /\ fd[Client]["outfifo"] = 0 /\ fd[Client]["stopfifo"] = 0
    BY <1>1, <1>3 DEF Sides, CShape
  <2> QED  BY <2>1, UpFacts, Constants
<1>5. spc[s] = "read" /\ waiting[s] = 0
  <2>1. PipeOf(6) = "infifo"
    BY MeetingPipes
  <2>2. ~CBefore(6) /\ ~CBlocked(6)
    BY <1>1, <1>4, <2>1 DEF CBefore, CBlocked
  <2>3. SIn(s, 6)
    BY <1>3, <2>2 DEF Meet
  <2>4. spc[s] \in {"loop", "read"} /\ fd[s]["infifo"] # 0 /\ waiting[s] = 0
    BY <2>1, <2>3 DEF SIn, SAt
  <2> QED  BY <1>3, <2>4 DEF Sides, SShape, InDialog
<1>6. PICK line \in Lines(made) : /\ Put(Client, "infifo", line)
                                  /\ cpc = "command" => line = Line("cmd", made)
                                  /\ cpc = "quit" => line = Line("QUIT", 0)
  <2>1. made \in Nat /\ 0 \in 0 .. made /\ (cpc = "command" => made # 0)
    BY TypeFacts
  <2>2. Line("QUIT", 0) \in Lines(made) /\ (cpc = "command" => Line("cmd", made) \in Lines(made))
    BY <2>1, CommandLine
  <2> QED  BY <1>1, <2>2
<1>7. /\ UNCHANGED <<path, fd, waiting>> /\ Pipes'
      /\ \A m \in Names : m # "infifo" => Buf(m)' = Buf(m)
      /\ \A m \in Names : Rd(m)' = Rd(m) /\ Wr(m)' = Wr(m)
      /\ Buf("infifo")' = Append(Buf("infifo"), line)
  BY <1>1, <1>3, <1>4, <1>6, PipePut, Constants
<1>8. Buf("infifo")' = <<line>> /\ Buf("outfifo")' = <<>> /\ Buf("stopfifo")' = <<>>
  <2>1. Buf("infifo") = <<>> /\ Buf("outfifo") = <<>> /\ Buf("stopfifo") = <<>>
    BY <1>3, UpFacts DEF InStep
  <2>2. Append(<<>>, line) = <<line>>
    OBVIOUS
  <2> QED  BY <1>7, <2>1, <2>2, Constants
<1>9. Sides(s)'
  <2>1. CShape'
    BY <1>1, <1>3, <1>4, <1>7 DEF Sides, CShape
  <2>2. SShape(s)' /\ \A m \in Names : SReads(s, m)' <=> SReads(s, m)
    BY <1>2, <1>3, <1>7, ServerShape DEF Sides
  <2>3. \A m \in Names : CReads(m)' <=> CReads(m)
    BY <1>1 DEF CReads
  <2> QED  BY <1>3, <1>7, <2>1, <2>2, <2>3, SidesStay
<1>10. CASE cpc = "command"
  <2>1. Line("cmd", made)' = Line("cmd", made)
    BY <1>1 DEF Line
  <2>2. (kind = "open" \/ opened[s]) /\ answered < made /\ ~calls!Executed(made)
    BY <1>3, <1>10 DEF InStep
  <2>3. Sent(s)'
    BY <1>1, <1>2, <1>5, <1>6, <1>7, <1>8, <1>10, <2>1, <2>2 DEF Sent, calls!Executed
  <2> QED  BY <1>1, <1>7, <1>8, <1>9, <1>10, <2>3, UpFacts, ScriptUp DEF Dialog
<1>11. CASE cpc = "quit"
  <2>1. Line("QUIT", 0)' = Line("QUIT", 0)
    BY DEF Line
  <2>2. Quitting(s)'
    BY <1>1, <1>2, <1>5, <1>6, <1>7, <1>8, <1>11, <2>1 DEF Quitting
  <2> QED  BY <1>1, <1>7, <1>8, <1>9, <1>11, <2>2, UpFacts, ScriptUp DEF Dialog
<1> QED  BY <1>1, <1>10, <1>11

LEMMA CloseQuitUp == ASSUME TypeInv, NEW s \in Servers, Up(s), CloseQuit PROVE Up(s)'
<1>1. /\ ScriptOnly /\ UNCHANGED <<csync, session, kind, made, answered>> /\ waiting[Client] = 0
      /\ cpc = "quitting" /\ cpc' = "stopping" /\ Close(Client, {"infifo"})
  BY DEF CloseQuit, Script, Running
<1>2. UNCHANGED <<spc, ssync>>
  BY <1>1 DEF ScriptOnly, server
<1>3. Quitting(s) /\ Sides(s) /\ Pipes
  BY <1>1, UpPlaces, UpFacts
<1>4. fd[s]["infifo"] # 0 /\ s \in Rd("infifo")
  <2>1. spc[s] \in {"read", "exit"}
    BY <1>3 DEF Quitting
  <2>2. fd[s]["infifo"] # 0
    BY <1>3, <2>1 DEF Sides, SShape
  <2> QED  BY <1>3, <2>1, <2>2, Constants DEF Sides, Ends, SReads
<1>5. /\ path' = path /\ waiting'[Client] = 0 /\ waiting'[s] = waiting[s]
      /\ \A n \in Names : /\ fd'[Client][n] = IF n = "infifo" THEN 0 ELSE fd[Client][n]
                          /\ Buf(n)' = Buf(n)
      /\ \A q \in Procs : q # Client => fd'[q] = fd[q]
  <2>1. "infifo" \in Names /\ {"infifo"} \in SUBSET Names /\ s # Client /\ Client \in Procs
        /\ s \in Procs /\ \A m, n \in Names : fd[Client][m] = path[n] => m = n
    BY Constants, UpFacts
  <2>2. /\ path' = path /\ waiting'[Client] = 0
        /\ \A n \in Names :
              /\ fd'[Client][n] = IF n \in {"infifo"} THEN 0 ELSE fd[Client][n]
              /\ n = "infifo" /\ fd[Client][n] = path[n] =>
                    Buf(n)' = IF Rd(n) \cup Wr(n) \subseteq {Client} THEN <<>> ELSE Buf(n)
              /\ ~(n = "infifo" /\ fd[Client][n] = path[n]) => Buf(n)' = Buf(n)
        /\ \A q \in Procs : q # Client => fd'[q] = fd[q] /\ waiting'[q] = waiting[q]
    BY <1>1, <1>3, <2>1, PipeClose
  <2>3. ~(Rd("infifo") \cup Wr("infifo") \subseteq {Client})
    BY <1>4, <2>1
  <2>4. \A n \in Names : Buf(n)' = Buf(n)
    BY <2>2, <2>3
  <2> QED  BY <2>1, <2>2, <2>4
<1>6. CShape'
  <2>1. CShape
    BY <1>3 DEF Sides
  <2> QED  BY <1>1, <1>5, <2>1, Constants DEF CShape
<1>7. Sides(s)'
  <2>1. \A m \in Names \ {"infifo"} : fd[Client][m] # 0 => (CReads(m)' <=> CReads(m))
    BY <1>1 DEF CReads
  <2> QED  BY <1>1, <1>2, <1>3, <1>6, <2>1, ClientCloses, Constants
<1>8. Quitting(s)'
  <2>1. Line("QUIT", 0)' = Line("QUIT", 0)
    BY DEF Line
  <2> QED  BY <1>1, <1>2, <1>3, <1>5, <2>1, Constants DEF Quitting
<1>9. Buf("stopfifo")' = <<>> /\ \A q \in Servers : fd'[q] = fd[q]
  BY <1>5, UpFacts, Constants
<1>10. session' = "up" <=> cpc' \notin {"quit", "quitting", "stopping"}
  BY <1>1, UpFacts
<1> QED  BY <1>1, <1>5, <1>7, <1>8, <1>9, <1>10, ScriptUp DEF Dialog

\* It opens outfifo: the server is there already, or will be.
LEMMA OpenOutfifoUp == ASSUME TypeInv, NEW s \in Servers, Up(s), OpenOutfifo PROVE Up(s)'
<1>1. /\ ScriptOnly /\ UNCHANGED <<csync, session, kind, made, answered>> /\ waiting[Client] = 0
      /\ cpc = "answer" /\ cpc' = "type" /\ Open(Client, "outfifo", "r")
  BY DEF OpenOutfifo, Script, Running
<1>2. UNCHANGED <<spc, ssync, opened, executed, cmd>>
  BY <1>1 DEF ScriptOnly, server
<1>3. Sent(s) /\ Sides(s) /\ Pipes /\ Client \in Procs /\ s \in Procs /\ s # Client
  BY <1>1, UpPlaces, UpFacts
<1>4. fd[Client]["infifo"] # 0 /\ fd[Client]["outfifo"] = 0 /\ fd[Client]["stopfifo"] = 0
  BY <1>1, <1>3 DEF Sides, CShape
<1>5. /\ path' = path /\ fd'[Client]["outfifo"] = path["outfifo"] /\ path["outfifo"] # 0
      /\ \A n \in Names : Buf(n)' = Buf(n)
      /\ \A m \in Names : m # "outfifo" => fd'[Client][m] = fd[Client][m]
      /\ \A q \in Procs : q # Client => fd'[q] = fd[q]
      /\ waiting'[Client] = IF Wr("outfifo") = {} THEN path["outfifo"] ELSE 0
      /\ waiting'[s] = IF s \in Wr("outfifo") /\ waiting[s] = path["outfifo"] THEN 0 ELSE waiting[s]
  BY <1>1, <1>3, PipeOpen, UpFacts, Constants
<1>6. CShape'
  <2>1. \A n \in Names : fd'[Client][n] \in {0, path'[n]}
    BY <1>5, UpFacts
  <2> QED  BY <1>1, <1>4, <1>5, <2>1, Constants DEF CShape
<1>7. Sides(s)'
  <2>1. CReads("outfifo")' <=> "r" = "r"
    BY <1>1 DEF CReads
  <2>2. \A m \in Names : m # "outfifo" /\ fd[Client][m] # 0 => (CReads(m)' <=> CReads(m))
    BY <1>1 DEF CReads
  <2> QED  BY <1>1, <1>2, <1>3, <1>4, <1>6, <2>1, <2>2, ClientOpens, Constants
<1>8. Wr("outfifo") \subseteq {s} /\ (s \in Wr("outfifo") <=> spc[s] \in InDialog \ {"open"})
  <2>1. spc[s] # "sync"
    BY <1>3 DEF Sent
  <2>2. fd[s]["outfifo"] # 0 <=> spc[s] \in InDialog \ {"open"}
    BY <1>3, <2>1 DEF Sides, SShape
  <2>3. ~SReads(s, "outfifo") /\ "outfifo" \in Names
    BY <2>1, Constants DEF SReads
  <2>4. /\ Wr("outfifo") \subseteq {Client, s} /\ Client \notin Wr("outfifo")
        /\ s \in Wr("outfifo") <=> fd[s]["outfifo"] # 0
    BY <1>3, <1>4, <2>3 DEF Sides, Ends
  <2> QED  BY <2>2, <2>4
<1>9. Line("cmd", made)' = Line("cmd", made)
  BY <1>1 DEF Line
<1>10. Dialog(s)'
  <2>1. CASE spc[s] \in {"read", "open"}
    <3>1. Wr("outfifo") = {}
      BY <1>8, <2>1 DEF InDialog
    <3>2. waiting'[Client] = path["outfifo"] /\ waiting'[s] = waiting[s]
      BY <1>5, <3>1
    <3>3. Sent(s)'
      BY <1>1, <1>2, <1>3, <1>5, <1>9, <2>1, <3>2, Constants DEF Sent, calls!Executed
    <3> QED  BY <3>3 DEF Dialog
  <2>2. CASE spc[s] = "run"
    <3>1. s \in Wr("outfifo") /\ waiting[s] = path["outfifo"]
      BY <1>3, <1>8, <2>2 DEF InDialog, Sent
    <3>2. waiting'[Client] = 0 /\ waiting'[s] = 0
      BY <1>5, <3>1
    <3>3. Executing(s)'
      BY <1>1, <1>2, <1>3, <1>5, <1>9, <2>2, <3>2, Constants DEF Sent, Executing, calls!Executed
    <3> QED  BY <3>3 DEF Dialog
  <2> QED  BY <1>3, <2>1, <2>2 DEF Sent
<1>11. Buf("stopfifo")' = <<>> /\ \A q \in Servers : fd'[q] = fd[q]
  BY <1>5, UpFacts, Constants
<1>12. session' = "up" <=> cpc' \notin {"quit", "quitting", "stopping"}
  BY <1>1, UpFacts
<1> QED  BY <1>1, <1>5, <1>7, <1>10, <1>11, <1>12, ScriptUp

\* The server of a dialog under way has outfifo open to write, and infifo to read.
LEMMA ServerThere ==
    ASSUME TypeInv, NEW s \in Servers, Up(s), spc[s] \in InDialog \ {"open"}
    PROVE  s \in Wr("outfifo") /\ s \in Rd("infifo")
<1>1. Sides(s) /\ spc[s] # "sync" /\ spc[s] \in InDialog
      /\ "outfifo" \in Names /\ "infifo" \in Names
  BY UpFacts, Constants DEF InDialog
<1>2. fd[s]["outfifo"] # 0 /\ fd[s]["infifo"] # 0
  BY <1>1 DEF Sides, SShape
<1>3. SReads(s, "infifo") /\ ~SReads(s, "outfifo")
  BY <1>1 DEF SReads
<1> QED  BY <1>1, <1>2, <1>3 DEF Sides, Ends

\* And the script has them the other way.
LEMMA ScriptThere ==
    ASSUME TypeInv, NEW s \in Servers, Up(s),
           cpc \in {"type", "options", "choice", "result", "close"}
    PROVE  /\ Client \in Wr("infifo") /\ Client \in Rd("outfifo")
           /\ fd[Client]["infifo"] = path["infifo"] /\ fd[Client]["outfifo"] = path["outfifo"]
           /\ fd[Client]["stopfifo"] = 0
<1>1. Sides(s) /\ "outfifo" \in Names /\ "infifo" \in Names
  BY UpFacts, Constants
<1>2. fd[Client]["outfifo"] # 0 /\ fd[Client]["infifo"] # 0 /\ fd[Client]["stopfifo"] = 0
      /\ fd[Client]["outfifo"] \in {0, path["outfifo"]}
      /\ fd[Client]["infifo"] \in {0, path["infifo"]}
  BY <1>1 DEF Sides, CShape
<1>3. CReads("outfifo") /\ ~CReads("infifo")
  BY DEF CReads
<1> QED  BY <1>1, <1>2, <1>3 DEF Sides, Ends

\* A line is read or written, and both sides keep what they have open.
LEMMA ScriptTalks ==
    ASSUME TypeInv, NEW s \in Servers, Up(s), ScriptOnly,
           UNCHANGED <<csync, session, path, fd, waiting>>,
           Pipes', \A m \in Names : Rd(m)' = Rd(m) /\ Wr(m)' = Wr(m),
           Buf("stopfifo")' = Buf("stopfifo"),
           cpc \in {"type", "options", "choice", "result", "close"},
           cpc' \in {"type", "options", "choice", "result", "close"}, Dialog(s)'
    PROVE  Up(s)'
<1>1. Sides(s) /\ UNCHANGED <<spc, ssync>>
  BY UpFacts DEF ScriptOnly, server
<1>2. Sides(s)'
  <2>1. CShape'
    BY <1>1 DEF Sides, CShape
  <2>2. SShape(s)' /\ \A m \in Names : SReads(s, m)' <=> SReads(s, m)
    BY <1>1, ServerShape DEF Sides
  <2>3. \A m \in Names : CReads(m)' <=> CReads(m)
    BY DEF CReads
  <2> QED  BY <1>1, <2>1, <2>2, <2>3, SidesStay
<1>3. Buf("stopfifo")' = <<>> /\ \A q \in Servers : fd'[q] = fd[q]
  BY UpFacts
<1>4. session' = "up" <=> cpc' \notin {"quit", "quitting", "stopping"}
  BY UpFacts
<1> QED  BY <1>2, <1>3, <1>4, ScriptUp

\* What a client that takes a line from outfifo does.
LEMMA ScriptTakes ==
    ASSUME TypeInv, NEW s \in Servers, Up(s), cpc \in {"type", "options", "result"},
           Readable(Client, "outfifo"), Take(Client, "outfifo"), made' = made
    PROVE  /\ UNCHANGED <<path, fd, waiting>> /\ Pipes'
           /\ \A m \in Names : Rd(m)' = Rd(m) /\ Wr(m)' = Wr(m)
           /\ Buf("infifo")' = Buf("infifo") /\ Buf("stopfifo")' = Buf("stopfifo")
           /\ Buf("outfifo")' = Tail(Buf("outfifo")) /\ Buf("outfifo") # <<>>
           /\ At(Client, "outfifo").buf = Buf("outfifo")
<1>1. fd[Client]["outfifo"] = path["outfifo"] /\ Pipes
  BY ScriptThere, UpFacts
<1> QED  BY <1>1, PipeTake, Constants

\* It reads what the server has to say: there is something, and the server is there.
LEMMA ReadTypeTold ==
    ASSUME TypeInv, NEW s \in Servers, Up(s), ReadType
    PROVE  /\ Executing(s) \/ Replying(s)
           /\ Readable(Client, "outfifo") /\ Take(Client, "outfifo") /\ ScriptOnly
           /\ UNCHANGED <<csync, session, kind, made, answered>> /\ cpc = "type"
           /\ LET l == Head(Buf("outfifo"))
              IN  IF l.what = "OK"
                  THEN cpc' = (IF HasAnswer THEN "result" ELSE "close") /\ UNCHANGED refused
                  ELSE IF kind # "bare" THEN cpc' = "options" /\ UNCHANGED refused
                  ELSE cpc' = "leave" /\ refused' = IF refused = 0 THEN pidfile ELSE refused
<1>1. /\ ScriptOnly /\ UNCHANGED <<csync, session, kind, made, answered>> /\ waiting[Client] = 0
      /\ cpc = "type"
  BY DEF ReadType, Running
<1>2. Executing(s) \/ Replying(s)
  BY <1>1, UpPlaces, UpFacts, Constants DEF Sent
<1>3. ~AtEnd(Client, "outfifo")
  <2> SUFFICES ASSUME AtEnd(Client, "outfifo") PROVE FALSE
    OBVIOUS
  <2>1. Buf("outfifo") = <<>> /\ Wr("outfifo") = {}
    BY <1>1, ScriptThere, UpFacts, PipeEnd, Constants
  <2>2. ~Executing(s)
    <3>1. Executing(s) => spc[s] \in InDialog \ {"open"}
      BY DEF Executing, InDialog
    <3> QED  BY <2>1, <3>1, ServerThere
  <2>3. ~Replying(s)
    <3>1. \A x, y : <<x>> # <<>> /\ <<x, y>> # <<>>
      OBVIOUS
    <3> QED  BY <1>1, <2>1, <3>1 DEF Replying
  <2> QED  BY <1>2, <2>2, <2>3
<1>4. Readable(Client, "outfifo") /\ Take(Client, "outfifo")
  BY <1>3 DEF ReadType
<1>5. At(Client, "outfifo").buf = Buf("outfifo")
  BY <1>1, <1>4, ScriptTakes
<1> QED  BY <1>1, <1>2, <1>3, <1>4, <1>5 DEF ReadType

LEMMA ReadTypeUp ==
    ASSUME TypeInv, NEW s \in Servers, Up(s), ReadType, refused = 0, refused' = 0
    PROVE  Up(s)'
<1>1. /\ Readable(Client, "outfifo") /\ Take(Client, "outfifo") /\ ScriptOnly
      /\ UNCHANGED <<csync, session, kind, made, answered>> /\ cpc = "type"
      /\ pidfile = s /\ s # 0 /\ (Executing(s) \/ Replying(s))
  BY ReadTypeTold, UpFacts
<1>2. /\ UNCHANGED <<path, fd, waiting>> /\ Pipes'
      /\ \A m \in Names : Rd(m)' = Rd(m) /\ Wr(m)' = Wr(m)
      /\ Buf("infifo")' = Buf("infifo") /\ Buf("stopfifo")' = Buf("stopfifo")
      /\ Buf("outfifo")' = Tail(Buf("outfifo")) /\ Buf("outfifo") # <<>>
  BY <1>1, ScriptTakes
<1>3. /\ Head(Buf("outfifo")).what = "OK" => cpc' = (IF HasAnswer THEN "result" ELSE "close")
      /\ Head(Buf("outfifo")).what # "OK" => cpc' = "options"
  BY <1>1, ReadTypeTold
<1>4. UNCHANGED <<spc, ssync, opened, executed, cmd>>
  BY <1>1 DEF ScriptOnly, server
<1>5. /\ Line("type", made)' = Line("type", made) /\ Line("options", made)' = Line("options", made)
      /\ Line("OK", made)' = Line("OK", made) /\ Line("result", made)' = Line("result", made)
      /\ Line("cmd", made)' = Line("cmd", made) /\ (HasAnswer' <=> HasAnswer)
      /\ Line("type", made).what = "type" /\ Line("OK", made).what = "OK"
  BY <1>1 DEF Line, HasAnswer
<1>6. \A x, y : /\ Head(<<x>>) = x /\ Tail(<<x>>) = <<>>
                /\ Head(<<x, y>>) = x /\ Tail(<<x, y>>) = <<y>>
  OBVIOUS
<1>7. CASE Executing(s)
  <2>1. \/ spc[s] = "raised" /\ Buf("infifo") = <<>> /\ Buf("outfifo") = <<Line("type", made)>>
        \/ spc[s] = "wait" /\ Buf("infifo") = <<>>
           /\ Buf("outfifo") = <<Line("type", made), Line("options", made)>>
    BY <1>1, <1>2, <1>7 DEF Executing
  <2>2. Head(Buf("outfifo")) = Line("type", made)
        /\ Buf("outfifo")' = (IF spc[s] = "raised" THEN <<>> ELSE <<Line("options", made)>>)
    BY <1>2, <1>6, <2>1
  <2>3. cpc' = "options"
    BY <1>3, <1>5, <2>2
  <2>4. Executing(s)'
    BY <1>1, <1>2, <1>4, <1>5, <1>7, <2>1, <2>2, <2>3 DEF Executing, calls!Executed
  <2> QED  BY <1>1, <1>2, <2>3, <2>4, ScriptTalks DEF Dialog
<1>8. CASE Replying(s)
  <2> DEFINE done == SIn(s, 0) \/ Coming(s, 1)
             on == spc[s] = "result" /\ waiting[s] = 0 /\ cmd[s] = Line("cmd", made)
  <2>1. \/ HasAnswer /\ on /\ Buf("outfifo") = <<Line("OK", made)>>
        \/ HasAnswer /\ done /\ Buf("outfifo") = <<Line("OK", made), Line("result", made)>>
        \/ ~HasAnswer /\ done /\ Buf("outfifo") = <<Line("OK", made)>>
    BY <1>1, <1>8 DEF Replying
  <2>2. (done' <=> done) /\ (on' <=> on)
    BY <1>2, <1>4, <1>5 DEF SIn, Coming, SBefore, SBlocked, SAt, PipeOf
  <2> HIDE DEF done, on
  <2>3. Head(Buf("outfifo")) = Line("OK", made)
    BY <1>6, <2>1
  <2>4. cpc' = IF HasAnswer THEN "result" ELSE "close"
    BY <1>3, <1>5, <2>3
  <2>5. \/ HasAnswer /\ on /\ Buf("outfifo")' = <<>>
        \/ HasAnswer /\ done /\ Buf("outfifo")' = <<Line("result", made)>>
        \/ ~HasAnswer /\ done /\ Buf("outfifo")' = <<>>
    BY <1>2, <1>6, <2>1
  <2>6. /\ waiting'[Client] = 0 /\ opened'[s] /\ calls!Executed(made)' /\ Buf("infifo")' = <<>>
        /\ answered' < made'
    BY <1>1, <1>2, <1>4, <1>8 DEF Replying, calls!Executed
  <2>7. Replying(s)'
    BY <1>5, <2>2, <2>4, <2>5, <2>6 DEF Replying, on, done
  <2> QED  BY <1>1, <1>2, <2>4, <2>7, ScriptTalks DEF Dialog
<1> QED  BY <1>1, <1>7, <1>8

\* A script that leaves an exception without an answer.
LEMMA ReadTypeRefuses ==
    ASSUME TypeInv, NEW s \in Servers, Up(s), ReadType, refused = 0, refused' # 0
    PROVE  refused' = s /\ spc'[s] \in {"raised", "wait"} /\ Abandoned(s)'
<1>1. /\ Readable(Client, "outfifo") /\ Take(Client, "outfifo") /\ ScriptOnly
      /\ UNCHANGED <<csync, session, kind, made, answered>> /\ cpc = "type"
      /\ pidfile = s /\ s # 0 /\ (Executing(s) \/ Replying(s))
      /\ cpc' = "leave" /\ refused' = s /\ Head(Buf("outfifo")).what # "OK"
  BY ReadTypeTold, UpFacts
<1>2. /\ UNCHANGED <<path, fd, waiting>> /\ Pipes'
      /\ \A m \in Names : Rd(m)' = Rd(m) /\ Wr(m)' = Wr(m)
      /\ Buf("infifo")' = Buf("infifo") /\ Buf("outfifo") # <<>>
  BY <1>1, ScriptTakes
<1>3. UNCHANGED <<pidfile, spc>>
  BY <1>1 DEF ScriptOnly, server
<1>4. ~Replying(s)
  <2>1. \A x, y : Head(<<x>>) = x /\ Head(<<x, y>>) = x
    OBVIOUS
  <2>2. Replying(s) => Head(Buf("outfifo")) = Line("OK", made)
    BY <1>1, <2>1 DEF Replying
  <2> QED  BY <1>1, <2>2 DEF Line
<1>5. spc[s] \in {"raised", "wait"} /\ Buf("infifo") = <<>>
  BY <1>1, <1>2, <1>4 DEF Executing
<1>6. fd[s]["infifo"] = path["infifo"] /\ path["infifo"] # 0 /\ s \in Rd("infifo")
  <2>1. s \in Rd("infifo") /\ fd[s]["infifo"] # 0
    BY <1>5, ServerThere, InDialogFacts DEF InDialog
  <2> QED  BY <2>1, UpFacts, Constants
<1>7. \A p \in Procs, n \in Names \ {"infifo"} : fd[p][n] # path["infifo"]
  <2> TAKE p \in Procs, n \in Names \ {"infifo"}
  <2>1. "infifo" \in Names
    BY Constants
  <2>2. CASE p \in {Client, s}
    BY <2>1, <2>2, UpFacts
  <2>3. CASE p \notin {Client, s}
    <3>1. p \in Servers /\ Stale(p)
      BY <2>3 DEF Servers, Up
    <3> QED  BY <1>6, <2>1, <3>1 DEF Stale
  <2> QED  BY <2>2, <2>3
<1>8. \A n \in Names \ {"infifo"} : path[n] # path["infifo"]
  BY PipeFacts, UpFacts, Constants
<1>9. \A q \in Servers : q # s => spc[q] \in {"none", "gone", "dead"}
  BY DEF Up
<1>10. "infifo" \in Names /\ inode'[path'["infifo"]].kind = "fifo"
       /\ s \in inode'[path'["infifo"]].rd
       /\ inode'[path'["infifo"]].buf = <<>>
  BY <1>2, <1>5, <1>6, Constants DEF Pipes, Rd, Buf
<1> QED  BY <1>1, <1>2, <1>3, <1>5, <1>6, <1>7, <1>8, <1>9, <1>10 DEF Abandoned

LEMMA ReadOptionsUp == ASSUME TypeInv, NEW s \in Servers, Up(s), ReadOptions PROVE Up(s)'
<1>1. /\ ScriptOnly /\ UNCHANGED <<csync, session, kind, made, answered>> /\ waiting[Client] = 0
      /\ cpc = "options" /\ cpc' = "choice"
  BY DEF ReadOptions, Script, Running
<1>2. Executing(s)
  BY <1>1, UpPlaces
<1>3. ~AtEnd(Client, "outfifo")
  <2> SUFFICES ASSUME AtEnd(Client, "outfifo") PROVE FALSE
    OBVIOUS
  <2>1. Wr("outfifo") = {}
    BY <1>1, ScriptThere, UpFacts, PipeEnd, Constants
  <2>2. spc[s] \in InDialog \ {"open"}
    BY <1>2 DEF Executing, InDialog
  <2> QED  BY <2>1, <2>2, ServerThere
<1>4. Readable(Client, "outfifo") /\ Take(Client, "outfifo")
  BY <1>3 DEF ReadOptions
<1>5. /\ UNCHANGED <<path, fd, waiting>> /\ Pipes'
      /\ \A m \in Names : Rd(m)' = Rd(m) /\ Wr(m)' = Wr(m)
      /\ Buf("infifo")' = Buf("infifo") /\ Buf("stopfifo")' = Buf("stopfifo")
      /\ Buf("outfifo")' = Tail(Buf("outfifo")) /\ Buf("outfifo") # <<>>
  BY <1>1, <1>4, ScriptTakes
<1>6. UNCHANGED <<spc, ssync, opened, executed, cmd>>
  BY <1>1 DEF ScriptOnly, server
<1>7. spc[s] = "wait" /\ Buf("infifo") = <<>> /\ Buf("outfifo") = <<Line("options", made)>>
  BY <1>1, <1>2, <1>5 DEF Executing
<1>8. Buf("outfifo")' = <<>>
  <2>1. \A x : Tail(<<x>>) = <<>>
    OBVIOUS
  <2> QED  BY <1>5, <1>7, <2>1
<1>9. Line("cmd", made)' = Line("cmd", made)
  BY <1>1 DEF Line
<1>10. Executing(s)'
  BY <1>1, <1>2, <1>5, <1>6, <1>7, <1>8, <1>9 DEF Executing, calls!Executed
<1> QED  BY <1>1, <1>5, <1>10, ScriptTalks DEF Dialog

LEMMA WriteChoiceUp == ASSUME TypeInv, NEW s \in Servers, Up(s), WriteChoice PROVE Up(s)'
<1>1. /\ ScriptOnly /\ UNCHANGED <<csync, session, kind, made, answered>> /\ waiting[Client] = 0
      /\ cpc = "choice" /\ cpc' = "type" /\ Put(Client, "infifo", Line("choice", made))
  BY DEF WriteChoice, Script, Running
<1>2. Executing(s) /\ Pipes /\ fd[Client]["infifo"] = path["infifo"]
  BY <1>1, UpPlaces, UpFacts, ScriptThere
<1>3. PICK line \in Lines(made) : line = Line("choice", made) /\ Put(Client, "infifo", line)
  <2>1. made \in 0 .. made
    BY TypeFacts
  <2> QED  BY <1>1, <2>1, CommandLine
<1>4. /\ UNCHANGED <<path, fd, waiting>> /\ Pipes'
      /\ \A m \in Names : m # "infifo" => Buf(m)' = Buf(m)
      /\ \A m \in Names : Rd(m)' = Rd(m) /\ Wr(m)' = Wr(m)
      /\ Buf("infifo")' = Append(Buf("infifo"), line)
  BY <1>1, <1>2, <1>3, PipePut, Constants
<1>5. UNCHANGED <<spc, ssync, opened, executed, cmd>>
  BY <1>1 DEF ScriptOnly, server
<1>6. spc[s] = "wait" /\ Buf("infifo") = <<>> /\ Buf("outfifo") = <<>>
  BY <1>1, <1>2 DEF Executing
<1>7. Buf("infifo")' = <<line>> /\ Buf("outfifo")' = <<>> /\ Buf("stopfifo")' = Buf("stopfifo")
  <2>1. Append(<<>>, line) = <<line>>
    OBVIOUS
  <2> QED  BY <1>4, <1>6, <2>1, Constants
<1>8. Line("cmd", made)' = Line("cmd", made) /\ Line("choice", made)' = line
  BY <1>1, <1>3 DEF Line
<1>9. Executing(s)'
  BY <1>1, <1>2, <1>4, <1>5, <1>6, <1>7, <1>8 DEF Executing, calls!Executed
<1> QED  BY <1>1, <1>4, <1>7, <1>9, ScriptTalks DEF Dialog

LEMMA ReadResultUp ==
    ASSUME TypeInv, NEW s \in Servers, Up(s), ReadResult
    PROVE  Up(s)' /\ answered' = made /\ answered < made /\ calls!Executed(made)
<1>1. /\ ScriptOnly /\ UNCHANGED <<csync, session, kind, made>> /\ waiting[Client] = 0
      /\ cpc = "result" /\ cpc' = "close"
      /\ Readable(Client, "outfifo") /\ Take(Client, "outfifo")
      /\ answered' = Head(At(Client, "outfifo").buf).call
  BY DEF ReadResult, Script, Running
<1>2. Replying(s)
  BY <1>1, UpPlaces
<1>3. /\ UNCHANGED <<path, fd, waiting>> /\ Pipes'
      /\ \A m \in Names : Rd(m)' = Rd(m) /\ Wr(m)' = Wr(m)
      /\ Buf("infifo")' = Buf("infifo") /\ Buf("stopfifo")' = Buf("stopfifo")
      /\ Buf("outfifo")' = Tail(Buf("outfifo")) /\ Buf("outfifo") # <<>>
      /\ At(Client, "outfifo").buf = Buf("outfifo")
  BY <1>1, ScriptTakes
<1>4. UNCHANGED <<spc, ssync, opened, executed, cmd>>
  BY <1>1 DEF ScriptOnly, server
<1> DEFINE done == SIn(s, 0) \/ Coming(s, 1)
<1>5. done /\ Buf("outfifo") = <<Line("result", made)>> /\ answered < made
      /\ calls!Executed(made) /\ opened[s] /\ Buf("infifo") = <<>>
  BY <1>1, <1>2, <1>3 DEF Replying
<1>6. Buf("outfifo")' = <<>> /\ answered' = made
  <2>1. \A x : Tail(<<x>>) = <<>> /\ Head(<<x>>) = x
    OBVIOUS
  <2>2. Tail(Buf("outfifo")) = <<>> /\ Head(Buf("outfifo")) = Line("result", made)
    BY <1>5, <2>1
  <2>3. Line("result", made).call = made
    BY DEF Line
  <2> QED  BY <1>1, <1>3, <2>2, <2>3
<1>7. done'
  BY <1>3, <1>4, <1>5 DEF SIn, Coming, SBefore, SBlocked, SAt, PipeOf
<1> HIDE DEF done
<1>8. Replying(s)'
  <2>1. /\ waiting'[Client] = 0 /\ opened'[s] /\ calls!Executed(made)' /\ Buf("infifo")' = <<>>
    BY <1>1, <1>3, <1>4, <1>5 DEF calls!Executed
  <2> QED  BY <1>1, <1>6, <1>7, <2>1 DEF Replying, done
<1>9. Up(s)'
  BY <1>1, <1>3, <1>8, ScriptTalks DEF Dialog
<1> QED  BY <1>5, <1>6, <1>9

\* What is left in the pipes is gone when the dialog is closed.
LEMMA CloseDialogUp == ASSUME TypeInv, NEW s \in Servers, Up(s), CloseDialog PROVE Up(s)'
<1>1. /\ ScriptOnly /\ UNCHANGED <<session, kind, made, answered>> /\ waiting[Client] = 0
      /\ cpc = "close" /\ cpc' = "sync" /\ csync' = 1 /\ Close(Client, {"infifo", "outfifo"})
  BY DEF CloseDialog, Script, Running
<1>2. Replying(s) /\ Sides(s) /\ Pipes
  BY <1>1, UpPlaces, UpFacts
<1>3. UNCHANGED <<spc, ssync, opened, executed, cmd>>
  BY <1>1 DEF ScriptOnly, server
<1>4. /\ Buf("infifo") = <<>> /\ Buf("outfifo") = <<>> /\ opened[s]
      /\ SIn(s, 0) \/ Coming(s, 1)
  BY <1>1, <1>2 DEF Replying
<1>5. /\ path' = path /\ waiting'[Client] = 0
      /\ \A n \in Names : /\ fd'[Client][n] =
                              IF n \in {"infifo", "outfifo"} THEN 0 ELSE fd[Client][n]
                          /\ Buf(n)' = Buf(n) \/ Buf(n)' = <<>>
      /\ \A q \in Procs : q # Client => fd'[q] = fd[q] /\ waiting'[q] = waiting[q]
  <2>1. {"infifo", "outfifo"} \in SUBSET Names /\ Client \in Procs
        /\ \A m, n \in Names : fd[Client][m] = path[n] => m = n
    BY Constants, UpFacts
  <2> QED  BY <1>1, <1>2, <2>1, PipeClose
<1>6. \A n \in Names : fd'[Client][n] = 0
  BY <1>1, <1>5, ScriptThere, Constants
<1>7. CShape'
  BY <1>1, <1>6 DEF CShape
<1>8. Sides(s)'
  <2>1. \A m \in Names \ {"infifo", "outfifo"} : fd[Client][m] = 0
    BY <1>1, ScriptThere, Constants
  <2> QED  BY <1>1, <1>2, <1>3, <1>7, <2>1, ClientCloses, Constants
<1>9. Meet(s, 1)'
  <2>1. CBefore(1)'
    BY <1>1, <1>5, <1>6, MeetingPipes DEF CBefore, CAt, PipeOf
  <2>2. SIn(s, 0)' \/ Coming(s, 1)'
    BY <1>3, <1>4, <1>5, UpFacts DEF SIn, Coming, SBefore, SBlocked, SAt, PipeOf
  <2>3. SIn(s, 1 - 1)' \/ Coming(s, 1)'
    BY <2>2
  <2> QED  BY <2>1, <2>3 DEF Meet
<1>10. InStep(s)'
  <2>1. Buf("infifo")' = <<>> /\ Buf("outfifo")' = <<>> /\ 1 \in 1 .. 6
    BY <1>4, <1>5, Constants
  <2> QED  BY <1>1, <1>3, <1>4, <1>9, <2>1 DEF InStep
<1>11. Buf("stopfifo")' = <<>> /\ \A q \in Servers : fd'[q] = fd[q]
  BY <1>5, UpFacts, Constants
<1>12. session' = "up" <=> cpc' \notin {"quit", "quitting", "stopping"}
  BY <1>1, UpFacts
<1> QED  BY <1>1, <1>5, <1>8, <1>10, <1>11, <1>12, ScriptUp DEF Dialog

\* close_dialog, pipe after pipe.
LEMMA ClientSyncOpenUp == ASSUME TypeInv, NEW s \in Servers, Up(s), ClientSyncOpen PROVE Up(s)'
<1>1. /\ ScriptOnly /\ UNCHANGED <<cpc, csync, session, kind, made, answered>>
      /\ waiting[Client] = 0 /\ cpc = "sync"
      /\ fd[Client][ClientSync[csync][1]] = 0
      /\ Open(Client, ClientSync[csync][1], ClientSync[csync][2])
  BY DEF ClientSyncOpen, Running, client
<1>2. /\ InStep(s) /\ Meet(s, csync) /\ csync \in 1 .. 5 /\ csync \in 1 .. 6
      /\ Sides(s) /\ Pipes /\ Client \in Procs
  BY <1>1, UpPlaces, UpFacts
<1>0. PICK k \in 1 .. 6 : k = csync
  BY <1>2
<1> DEFINE n == PipeOf(k) mode == ClientWay(k)
<1>3. /\ n = ClientSync[csync][1] /\ mode = ClientSync[csync][2] /\ n \in Names
      /\ mode \in {"r", "w"} /\ CAt(csync)
  BY <1>0, <1>1, <1>2, MeetingPipes, MeetingWays DEF ClientWay, CAt
<1>4. UNCHANGED <<spc, ssync, opened>>
  BY <1>1 DEF ScriptOnly, server
<1>5. CBefore(csync)
  BY <1>0, <1>1, <1>3 DEF CBefore
<1>6. CAt(csync)'
  BY <1>1, <1>3 DEF CAt
<1>7. Meet(s, csync)'
  <2>2. Open(Client, PipeOf(k), ClientWay(k)) /\ CAt(k)' /\ CBefore(k) /\ Meet(s, k)
    BY <1>0, <1>1, <1>2, <1>3, <1>5, <1>6 DEF CAt
  <2>3. Meet(s, k)'
    BY <1>2, <1>4, <2>2, ClientArrives
  <2>4. csync' = k
    BY <1>0, <1>1
  <2> QED  BY <2>3, <2>4
<1>8. fd[Client][n] = 0 /\ Open(Client, n, mode)
  BY <1>0, <1>1, <1>3
<1> HIDE DEF n, mode
<1>9. /\ path' = path /\ fd'[Client][n] = path[n] /\ path[n] # 0
      /\ \A m \in Names : Buf(m)' = Buf(m)
      /\ \A m \in Names : m # n => fd'[Client][m] = fd[Client][m]
      /\ \A q \in Procs : q # Client => fd'[q] = fd[q]
  BY <1>2, <1>3, <1>8, PipeOpen, UpFacts
<1>10. \A m \in Names : m # n => fd[Client][m] = 0
  BY <1>0, <1>2, <1>3, MeetingShape DEF n
<1>11. CShape'
  <2>1. \A m \in Names : fd'[Client][m] \in {0, path'[m]}
    BY <1>9, <1>10
  <2>2. \A m \in Names : fd'[Client][m] # 0 => m = ClientSync[csync'][1]
    BY <1>0, <1>1, <1>3, <1>9, <1>10
  <2> QED  BY <1>1, <2>1, <2>2 DEF CShape
<1>12. Sides(s)'
  <2>1. \A m \in Names : CReads(m)' <=> CReads(m)
    BY <1>1 DEF CReads
  <2>2. CReads(n)' <=> mode = "r"
    BY <1>0, <1>3, <2>1, MeetingWays DEF n, mode
  <2> QED  BY <1>2, <1>3, <1>4, <1>8, <1>11, <2>1, <2>2, ClientOpens
<1>13. InStep(s)'
  BY <1>1, <1>2, <1>4, <1>7, <1>9, Constants DEF InStep
<1>14. Buf("stopfifo")' = <<>> /\ \A q \in Servers : fd'[q] = fd[q]
  BY <1>9, UpFacts, Constants
<1>15. session' = "up" <=> cpc' \notin {"quit", "quitting", "stopping"}
  BY <1>1, UpFacts
<1> QED  BY <1>1, <1>9, <1>12, <1>13, <1>14, <1>15, ScriptUp DEF Dialog

LEMMA ClientSyncCloseUp == ASSUME TypeInv, NEW s \in Servers, Up(s), ClientSyncClose PROVE Up(s)'
<1>1. /\ ScriptOnly /\ UNCHANGED <<session, kind, made, answered>>
      /\ waiting[Client] = 0 /\ cpc = "sync"
      /\ fd[Client][ClientSync[csync][1]] # 0
      /\ Close(Client, {ClientSync[csync][1]})
      /\ IF csync = 5 THEN cpc' = "idle" /\ csync' = 0 ELSE csync' = csync + 1 /\ cpc' = cpc
  <2>1. Len(ClientSync) = 5
    BY SyncPipes
  <2> QED  BY <2>1 DEF ClientSyncClose, Running
<1>2. /\ InStep(s) /\ Meet(s, csync) /\ csync \in 1 .. 5 /\ csync \in 1 .. 6
      /\ Sides(s) /\ Pipes /\ Client \in Procs
  BY <1>1, UpPlaces, UpFacts
<1> DEFINE n == PipeOf(csync)
<1>3. n = ClientSync[csync][1] /\ n \in Names /\ CAt(csync) /\ path[n] # 0
  BY <1>1, <1>2, MeetingPipes, UpFacts DEF CAt
<1>4. UNCHANGED <<spc, ssync, opened>>
  BY <1>1 DEF ScriptOnly, server
<1>5. fd[Client][n] # 0 /\ Close(Client, {n})
  BY <1>1, <1>3
<1>6. PICK k \in 1 .. 5 : k = csync
  BY <1>2
<1>7. CIn(k)
  BY <1>1, <1>3, <1>5, <1>6 DEF CIn, CAt
<1>8. CAt(k + 1)'
  <2>1. CASE k = 5
    BY <1>1, <1>6, <2>1 DEF CAt
  <2>2. CASE k # 5
    <3>1. k + 1 # 6
      BY <2>2
    <3> QED  BY <1>1, <1>6, <2>2, <3>1 DEF CAt
  <2> QED  BY <2>1, <2>2
<1>9. Meet(s, k + 1)'
  <2>1. Close(Client, {PipeOf(k)}) /\ Meet(s, k)
    BY <1>2, <1>5, <1>6
  <2> QED  BY <1>2, <1>4, <1>7, <1>8, <2>1, ClientDeparts
<1> HIDE DEF n
<1>10. \A m \in Names : m # n => fd[Client][m] = 0
  BY <1>2, <1>3, MeetingShape DEF n
<1>11. /\ path' = path
       /\ \A m \in Names : /\ fd'[Client][m] = IF m \in {n} THEN 0 ELSE fd[Client][m]
                           /\ Buf(m)' = Buf(m) \/ Buf(m)' = <<>>
       /\ \A q \in Procs : q # Client => fd'[q] = fd[q]
  <2>1. {n} \in SUBSET Names /\ \A l, m \in Names : fd[Client][l] = path[m] => l = m
    BY <1>3, UpFacts
  <2> QED  BY <1>2, <1>5, <2>1, PipeClose
<1>12. \A m \in Names : fd'[Client][m] = 0
  BY <1>10, <1>11
<1>13. CShape'
  <2>1. cpc' \in {"idle", "sync"}
    BY <1>1
  <2> QED  BY <1>12, <2>1, Constants DEF CShape
<1>14. Sides(s)'
  <2>1. {n} \in SUBSET Names /\ \A m \in Names \ {n} : fd[Client][m] = 0
    BY <1>3, <1>10
  <2> QED  BY <1>2, <1>4, <1>5, <1>13, <2>1, ClientCloses
<1>15. InStep(s)'
  <2>1. Buf("infifo")' = <<>> /\ Buf("outfifo")' = <<>>
    BY <1>2, <1>11, Constants DEF InStep
  <2>2. cpc' \in {"idle", "sync"} /\ opened'[s]
    BY <1>1, <1>2, <1>4 DEF InStep
  <2>3. k + 1 \in 1 .. 6
    OBVIOUS
  <2>4. \E j \in 1 .. 6 : Meet(s, j)'
    BY <1>9, <2>3
  <2> QED  BY <2>1, <2>2, <2>4 DEF InStep
<1>16. Buf("stopfifo")' = <<>> /\ \A q \in Servers : fd'[q] = fd[q]
  BY <1>11, UpFacts, Constants
<1>17. session' = "up" <=> cpc' \notin {"quit", "quitting", "stopping"}
  BY <1>1, UpFacts
<1> QED  BY <1>1, <1>11, <1>14, <1>15, <1>16, <1>17, ScriptUp DEF Dialog

\* What can not happen while the server is up.
LEMMA NeverUp ==
    ASSUME TypeInv, NEW s \in Servers, Up(s)
    PROVE  /\ ~Begin /\ ~OpenFails /\ ~Leave /\ ~WriteFails /\ ~Stopped /\ ~AbortWithoutServer
           /\ ~(StartServer /\ pidfile = 0)
<1>1. pidfile = s /\ s # 0 /\ \A n \in Names : path[n] # 0
  BY UpFacts
<1>2. ~Begin
  <2> SUFFICES ASSUME Begin PROVE FALSE
    OBVIOUS
  <2>1. session = "down" /\ cpc = "idle"
    BY DEF Begin, Script
  <2> QED  BY <2>1, UpFacts
<1>3. ~OpenFails
  BY <1>1, Constants DEF OpenFails
<1>4. ~Leave
  BY UpPlaces DEF Leave
<1>5. ~WriteFails
  <2> SUFFICES ASSUME WriteFails PROVE FALSE
    OBVIOUS
  <2>1. cpc \in {"command", "choice", "quit"} /\ waiting[Client] = 0 /\ ~Delivered(Client, "infifo")
    BY DEF WriteFails, Running
  <2>2. Sides(s) /\ Pipes /\ "infifo" \in Names /\ Client \in Procs
    BY UpFacts, Constants
  <2>3. fd[Client]["infifo"] # 0 /\ fd[Client]["infifo"] = path["infifo"]
    BY <2>1, <2>2, UpFacts DEF Sides, CShape
  <2>4. Rd("infifo") = {}
    BY <2>1, <2>2, <2>3, PipeDelivered
  <2>5. spc[s] # "sync" /\ fd[s]["infifo"] # 0
    <3>1. CASE cpc = "choice"
      <4>1. Executing(s)
        BY <3>1, UpPlaces
      <4>2. spc[s] \in InDialog
        BY <4>1 DEF Executing, InDialog
      <4> QED  BY <4>2, InDialogFacts
    <3>2. CASE cpc # "choice"
      <4>1. Meet(s, 6)
        BY <2>1, <3>2, UpPlaces
      <4>2. SIn(s, 6)
        BY <2>1, <2>3, <4>1, MeetingPipes DEF Meet, CBefore, CBlocked
      <4> QED  BY <4>2, MeetingPipes DEF SIn, SAt
    <3> QED  BY <3>1, <3>2
  <2>6. s \in Rd("infifo")
    BY <2>2, <2>5 DEF Sides, Ends, SReads
  <2> QED  BY <2>4, <2>6
<1>6. ~Stopped /\ ~AbortWithoutServer /\ ~(StartServer /\ pidfile = 0)
  BY <1>1 DEF Stopped, AbortWithoutServer
<1> QED  BY <1>2, <1>3, <1>4, <1>5, <1>6

\* Whatever the script does.
LEMMA ClientUp ==
    ASSUME TypeInv, NEW s \in Servers, Up(s), ClientNext, refused = 0, refused' = 0
    PROVE  Up(s)'
<1>1. CASE Refresh \/ Started \/ StartServer
  BY <1>1, QuietUp, NeverUp
<1>2. CASE Ask \/ StopServer
  BY <1>2, CallUp
<1>3. CASE WriteCommand \/ WriteQuit
  BY <1>3, SendUp
<1>4. CASE OpenOutfifo \/ CloseQuit
  BY <1>4, OpenOutfifoUp, CloseQuitUp
<1>5. CASE ReadType \/ ReadOptions \/ WriteChoice \/ ReadResult
  BY <1>5, ReadTypeUp, ReadOptionsUp, WriteChoiceUp, ReadResultUp
<1>6. CASE CloseDialog \/ ClientSyncOpen \/ ClientSyncClose
  BY <1>6, CloseDialogUp, ClientSyncOpenUp, ClientSyncCloseUp
<1> QED  BY <1>1, <1>2, <1>3, <1>4, <1>5, <1>6, NeverUp DEF ClientNext

-----------------------------------------------------------------------------
(* The server, while it is up. *)

LEMMA ServerPlacesUp ==
    ASSUME TypeInv, NEW s \in Servers, Up(s)
    PROVE  /\ spc[s] \in {"loop", "read", "open", "run", "raised", "wait", "result", "close",
                          "sync", "exit"}
           /\ spc[s] = "loop" => InStep(s)
           /\ spc[s] = "read" => InStep(s) \/ Sent(s) \/ Quitting(s)
           /\ spc[s] = "open" => Sent(s)
           /\ spc[s] = "run" /\ waiting[s] = 0 => Executing(s)
           /\ spc[s] \in {"raised", "wait"} => Executing(s)
           /\ spc[s] = "result" => Replying(s)
           /\ spc[s] = "close" => (InStep(s) /\ Meet(s, 1) /\ ~CIn(1)) \/ Replying(s)
           /\ spc[s] = "sync" => InStep(s) \/ (Replying(s) /\ Coming(s, 1))
           /\ spc[s] = "exit" => Quitting(s)
<1>1. \A k \in 1 .. 6 : \/ SAt(s, k) => spc[s] \in {"sync", "loop", "read"}
  BY DEF SAt
<1>2. ASSUME NEW k \in 1 .. 6, Meet(s, k)
      PROVE  \/ spc[s] \in {"sync", "loop", "read"}
             \/ spc[s] = "close" /\ k = 1 /\ ~CIn(1)
  <2>1. (SIn(s, k) \/ Coming(s, k)) => spc[s] \in {"sync", "loop", "read"}
    BY <1>1 DEF SIn, Coming, SBefore, SBlocked
  <2>2. k < 6 /\ Coming(s, k + 1) => spc[s] \in {"sync", "loop", "read"}
    <3> HAVE k < 6 /\ Coming(s, k + 1)
    <3>1. SAt(s, k + 1)
      BY DEF Coming, SBefore, SBlocked
    <3> QED  BY <3>1 DEF SAt
  <2>3. SIn(s, k - 1) => spc[s] \in {"sync", "loop", "read"} \/ (spc[s] = "close" /\ k = 1)
    <3>1. CASE k = 1
      BY <3>1 DEF SIn
    <3>2. CASE k # 1
      <4>1. k - 1 \in 1 .. 6 /\ k - 1 # 0
        BY <3>2
      <4> QED  BY <1>1, <4>1 DEF SIn
    <3> QED  BY <3>1, <3>2
  <2>4. CASE CIn(k)
    <3>1. path[PipeOf(k)] # 0
      BY UpFacts, MeetingPipes
    <3>2. ~CBefore(k) /\ ~CBlocked(k)
      BY <2>4, <3>1 DEF CIn, CBefore, CBlocked
    <3> QED  BY <1>2, <2>1, <2>2, <3>2 DEF Meet
  <2>5. CASE ~CIn(k)
    BY <1>2, <2>1, <2>3, <2>5 DEF Meet, Coming
  <2> QED  BY <2>4, <2>5
<1>3. InStep(s) => \/ spc[s] \in {"sync", "loop", "read"}
                   \/ spc[s] = "close" /\ Meet(s, 1) /\ ~CIn(1)
  BY <1>2 DEF InStep
<1>4. Sent(s) => spc[s] \in {"read", "open"} \/ (spc[s] = "run" /\ waiting[s] # 0)
  BY UpFacts, Constants DEF Sent
<1>5. Executing(s) => spc[s] \in {"run", "raised", "wait"}
  BY DEF Executing
<1>6. Replying(s) => spc[s] \in {"result", "close"} \/ (spc[s] = "sync" /\ Coming(s, 1))
  BY DEF Replying, SIn, Coming, SBefore, SBlocked, SAt
<1>7. Quitting(s) => spc[s] \in {"read", "exit"}
  BY DEF Quitting
<1>8. Dialog(s)
  BY UpFacts
<1> QED  BY <1>3, <1>4, <1>5, <1>6, <1>7, <1>8 DEF Dialog

\* A step of the server leaves the script alone.
LEMMA ServerUp ==
    ASSUME TypeInv, NEW s \in Servers, Up(s), ServerOnly, UNCHANGED <<pidfile, path>>,
           \A q \in Servers : q # s => fd'[q] = fd[q] /\ spc'[q] = spc[q],
           Sides(s)', Buf("stopfifo")' = <<>>, Dialog(s)'
    PROVE  Up(s)'
<1>1. session' = "up" <=> cpc' \notin {"quit", "quitting", "stopping"}
  BY UpFacts DEF ServerOnly, client
<1> QED  BY <1>1, UpMove

\* It reads or writes a line, and both sides keep what they have open.
LEMMA ServerTalks ==
    ASSUME TypeInv, NEW s \in Servers, Up(s), ServerOnly,
           UNCHANGED <<pidfile, ssync, path, fd, waiting>>,
           \A q \in Servers : q # s => spc'[q] = spc[q],
           Pipes', \A m \in Names : Rd(m)' = Rd(m) /\ Wr(m)' = Wr(m),
           Buf("stopfifo")' = Buf("stopfifo"), Dialog(s)',
           \/ spc[s] \in {"read", "open", "exit"} /\ spc'[s] \in {"read", "open", "exit"}
           \/ spc[s] \in InDialog \ {"open"} /\ spc'[s] \in InDialog \ {"open"}
    PROVE  Up(s)'
<1>1. Sides(s) /\ UNCHANGED <<cpc, csync>> /\ spc[s] # "sync" /\ spc'[s] # "sync"
  BY UpFacts DEF ServerOnly, client, InDialog
<1>2. Sides(s)'
  <2>1. SShape(s)'
    <3>1. /\ \A n \in Names : fd[s][n] \in {0, path[n]}
          /\ fd[s]["infifo"] # 0 <=> spc[s] \in InDialog \cup {"read", "exit"}
          /\ fd[s]["outfifo"] # 0 <=> spc[s] \in InDialog \ {"open"}
          /\ fd[s]["stopfifo"] = 0
      BY <1>1 DEF Sides, SShape
    <3>2. /\ spc'[s] \in InDialog \cup {"read", "exit"}
             <=> spc[s] \in InDialog \cup {"read", "exit"}
          /\ spc'[s] \in InDialog \ {"open"} <=> spc[s] \in InDialog \ {"open"}
      BY DEF InDialog
    <3> QED  BY <1>1, <3>1, <3>2 DEF SShape
  <2>2. CShape' /\ \A m \in Names : CReads(m)' <=> CReads(m)
    BY <1>1, ClientShape DEF Sides
  <2>3. \A m \in Names : SReads(s, m)' <=> SReads(s, m)
    BY <1>1 DEF SReads
  <2> QED  BY <1>1, <2>1, <2>2, <2>3, SidesStay
<1>3. Buf("stopfifo")' = <<>>
  BY UpFacts
<1> QED  BY <1>2, <1>3, ServerUp

\* What a write of the server to outfifo does.
LEMMA ServerPuts ==
    ASSUME TypeInv, NEW s \in Servers, Up(s), spc[s] \in InDialog \ {"open"},
           NEW w \in {"type", "options", "OK", "result"}, cmd[s] = Line("cmd", made),
           Put(s, "outfifo", Line(w, cmd[s].call)), made' = made
    PROVE  /\ UNCHANGED <<path, fd, waiting>> /\ Pipes'
           /\ \A m \in Names : Rd(m)' = Rd(m) /\ Wr(m)' = Wr(m)
           /\ Buf("infifo")' = Buf("infifo") /\ Buf("stopfifo")' = Buf("stopfifo")
           /\ Buf("outfifo")' = Append(Buf("outfifo"), Line(w, made))
<1>1. fd[s]["outfifo"] = path["outfifo"] /\ Pipes /\ s \in Procs
  BY UpFacts, InDialogFacts, Constants
<1>2. cmd[s].call = made
  BY DEF Line
<1>3. PICK line \in Lines(made) : line = Line(w, made)
  <2>1. made \in 0 .. made
    BY TypeFacts
  <2> QED  BY <2>1, CommandLine
<1>4. Put(s, "outfifo", line)
  BY <1>2, <1>3
<1> QED  BY <1>1, <1>3, <1>4, PipePut, Constants

\* It opens infifo for the next command.
LEMMA OpenInUp == ASSUME TypeInv, NEW s \in Servers, Up(s), OpenIn(s) PROVE Up(s)'
<1>1. /\ ServerOnly /\ UNCHANGED <<ssync, cmd, opened, pidfile, executed>> /\ waiting[s] = 0
      /\ spc[s] = "loop" /\ spc' = [spc EXCEPT ![s] = "read"] /\ Open(s, "infifo", "r")
  BY DEF OpenIn, Serve, Running
<1>2. InStep(s) /\ Sides(s) /\ Pipes /\ s \in Procs
  BY <1>1, UpFacts, ServerPlacesUp
<1>3. spc'[s] = "read" /\ \A q \in Servers : q # s => spc'[q] = spc[q]
  BY <1>1, ServerFacts
<1>4. fd[s]["infifo"] = 0 /\ fd[s]["outfifo"] = 0 /\ fd[s]["stopfifo"] = 0
  BY <1>1, <1>2 DEF Sides, SShape, InDialog
<1>5. UNCHANGED <<cpc, csync, session, kind, made, answered>>
  BY <1>1 DEF ServerOnly, client
<1>6. /\ path' = path /\ fd'[s]["infifo"] = path["infifo"] /\ path["infifo"] # 0
      /\ \A n \in Names : Buf(n)' = Buf(n)
      /\ \A m \in Names : m # "infifo" => fd'[s][m] = fd[s][m]
      /\ \A q \in Procs : q # s => fd'[q] = fd[q]
  BY <1>1, <1>2, PipeOpen, UpFacts, Constants
<1>7. SShape(s)'
  <2>1. \A n \in Names : fd'[s][n] \in {0, path'[n]}
    BY <1>6, UpFacts
  <2> QED  BY <1>3, <1>4, <1>6, <2>1, Constants DEF SShape, InDialog
<1>8. Sides(s)'
  <2>1. SReads(s, "infifo")' <=> "r" = "r"
    BY <1>3 DEF SReads
  <2>2. \A m \in Names : m # "infifo" /\ fd[s][m] # 0 => (SReads(s, m)' <=> SReads(s, m))
    BY <1>4, Constants
  <2> QED  BY <1>1, <1>2, <1>4, <1>5, <1>7, <2>1, <2>2, ServerOpens, Constants
<1>9. \A j \in 1 .. 6 : Meet(s, j) => Meet(s, j)'
  <2>1. PipeOf(6) = "infifo" /\ ServerWay(6) = "r" /\ 6 \in 1 .. 6
    BY MeetingPipes DEF ServerWay
  <2>2. SBefore(s, 6) /\ SAt(s, 6)'
    BY <1>1, <1>3, <1>4, <2>1 DEF SBefore, SAt
  <2>3. Open(s, PipeOf(6), ServerWay(6)) /\ UNCHANGED <<cpc, csync>>
    BY <1>1, <1>5, <2>1
  <2> QED  BY <1>2, <2>1, <2>2, <2>3, ServerArrives
<1>10. InStep(s)'
  BY <1>1, <1>2, <1>5, <1>6, <1>9, Constants DEF InStep, calls!Executed
<1>11. Buf("stopfifo")' = <<>>
  BY <1>6, UpFacts, Constants
<1> QED  BY <1>1, <1>3, <1>6, <1>8, <1>10, <1>11, Constants, ServerUp DEF Dialog

\* There is a command in it, or QUIT.
LEMMA ReadCommandUp == ASSUME TypeInv, NEW s \in Servers, Up(s), ReadCommand(s) PROVE Up(s)'
<1>1. /\ ServerOnly /\ UNCHANGED <<pidfile, executed>> /\ waiting[s] = 0 /\ spc[s] = "read"
  BY DEF ReadCommand, Running
<1>2. UNCHANGED <<cpc, csync, session, kind, made, answered>>
  BY <1>1 DEF ServerOnly, client
<1>3. /\ Sides(s) /\ Pipes /\ s \in Procs /\ fd[s]["infifo"] # 0
      /\ fd[s]["infifo"] = path["infifo"] /\ "infifo" \in Names
      /\ InStep(s) \/ Sent(s) \/ Quitting(s)
  BY <1>1, UpFacts, ServerPlacesUp, InDialogFacts, Constants
<1>4. Readable(s, "infifo") => At(s, "infifo").buf = Buf("infifo") /\ Buf("infifo") # <<>>
  BY <1>3 DEF Readable, At, Buf
<1>5. ~InStep(s) \/ (~Readable(s, "infifo") /\ ~AtEnd(s, "infifo"))
  <2> SUFFICES ASSUME InStep(s) PROVE ~Readable(s, "infifo") /\ ~AtEnd(s, "infifo")
    OBVIOUS
  <2>1. ~Readable(s, "infifo")
    BY <1>4 DEF InStep
  <2>2. PICK k \in 1 .. 6 : Meet(s, k)
    BY DEF InStep
  <2>3. ~Coming(s, 6)
    BY <1>1, <1>3, UpFacts, MeetingPipes DEF Coming, SBefore, SBlocked
  <2>4. \A i \in 1 .. 6 : (SIn(s, i) \/ Coming(s, i)) => i = 6
    BY <1>1 DEF SIn, Coming, SBefore, SBlocked, SAt
  <2>5. CIn(6)
    <3>1. ~Coming(s, k) /\ (k < 6 => ~Coming(s, k + 1))
      BY <2>3, <2>4
    <3>2. ~SIn(s, k - 1)
      <4>1. CASE k = 1
        BY <1>1, <4>1 DEF SIn
      <4>2. CASE k # 1
        <5>1. k - 1 \in 1 .. 6 /\ k - 1 # 6
          BY <4>2
        <5> QED  BY <2>4, <5>1
      <4> QED  BY <4>1, <4>2
    <3>3. CIn(k) /\ SIn(s, k)
      BY <2>2, <3>1, <3>2 DEF Meet, Coming
    <3> QED  BY <2>4, <3>3
  <2>6. Client \in Wr("infifo")
    <3>1. fd[Client]["infifo"] # 0 /\ cpc # "sync"
      BY <2>5, MeetingPipes DEF CIn, CAt
    <3> QED  BY <1>3, <3>1 DEF Sides, Ends, CReads
  <2>7. ~AtEnd(s, "infifo")
    BY <1>3, <2>6, PipeEnd
  <2> QED  BY <2>1, <2>7
<1>6. Sent(s) \/ Quitting(s)
  BY <1>3, <1>5 DEF ReadCommand
<1>7. PICK line : /\ Buf("infifo") = <<line>> /\ (Sent(s) => line = Line("cmd", made))
                  /\ (Quitting(s) => line = Line("QUIT", 0))
  BY <1>1, <1>6 DEF Sent, Quitting
<1>8. Readable(s, "infifo") /\ ~AtEnd(s, "infifo") /\ Head(At(s, "infifo").buf) = line
  <2>1. <<line>> # <<>> /\ Head(<<line>>) = line
    OBVIOUS
  <2> QED  BY <1>3, <1>7, <2>1 DEF Readable, AtEnd, At, Buf
<1>9. Take(s, "infifo")
  BY <1>8 DEF ReadCommand
<1>10. /\ UNCHANGED <<path, fd, waiting>> /\ Pipes'
       /\ \A m \in Names : m # "infifo" => Buf(m)' = Buf(m)
       /\ \A m \in Names : Rd(m)' = Rd(m) /\ Wr(m)' = Wr(m)
       /\ Buf("infifo")' = <<>>
  <2>1. Tail(<<line>>) = <<>>
    OBVIOUS
  <2> QED  BY <1>2, <1>3, <1>7, <1>8, <1>9, <2>1, PipeTake
<1>11. CASE Sent(s)
  <2>1. line.what = "cmd" /\ line.kind = kind /\ (kind = "open" \/ opened[s])
    BY <1>7, <1>11 DEF Line, Sent
  <2>2. /\ spc' = [spc EXCEPT ![s] = "open"] /\ cmd' = [cmd EXCEPT ![s] = line]
        /\ UNCHANGED <<ssync, opened>>
    BY <1>8, <2>1 DEF ReadCommand
  <2>3. spc'[s] = "open" /\ cmd'[s] = line /\ \A q \in Servers : q # s => spc'[q] = spc[q]
    BY <2>2, ServerFacts
  <2>4. Line("cmd", made)' = Line("cmd", made)
    BY <1>2 DEF Line
  <2>5. Sent(s)'
    BY <1>1, <1>2, <1>7, <1>10, <1>11, <2>2, <2>3, <2>4, Constants DEF Sent, calls!Executed
  <2> QED  BY <1>1, <1>10, <2>2, <2>3, <2>5, Constants, ServerTalks DEF Dialog
<1>12. CASE Quitting(s)
  <2>1. line.what # "cmd"
    BY <1>7, <1>12 DEF Line
  <2>2. spc' = [spc EXCEPT ![s] = "exit"] /\ UNCHANGED <<ssync, opened>>
    BY <1>8, <2>1 DEF ReadCommand, Exit
  <2>3. spc'[s] = "exit" /\ \A q \in Servers : q # s => spc'[q] = spc[q]
    BY <2>2, ServerFacts
  <2>4. Quitting(s)'
    BY <1>1, <1>2, <1>10, <1>12, <2>3 DEF Quitting
  <2> QED  BY <1>1, <1>10, <2>2, <2>3, <2>4, Constants, ServerTalks DEF Dialog
<1> QED  BY <1>6, <1>11, <1>12

\* It opens outfifo to answer.
LEMMA OpenOutUp == ASSUME TypeInv, NEW s \in Servers, Up(s), OpenOut(s) PROVE Up(s)'
<1>1. /\ ServerOnly /\ UNCHANGED <<ssync, cmd, opened, pidfile, executed>> /\ waiting[s] = 0
      /\ spc[s] = "open" /\ spc' = [spc EXCEPT ![s] = "run"] /\ Open(s, "outfifo", "w")
  BY DEF OpenOut, Serve, Running
<1>2. Sent(s) /\ Sides(s) /\ Pipes /\ s \in Procs /\ Client \in Procs /\ s # Client
  BY <1>1, UpFacts, ServerPlacesUp
<1>3. spc'[s] = "run" /\ \A q \in Servers : q # s => spc'[q] = spc[q]
  BY <1>1, ServerFacts
<1>4. fd[s]["infifo"] # 0 /\ fd[s]["outfifo"] = 0 /\ fd[s]["stopfifo"] = 0
  BY <1>1, <1>2 DEF Sides, SShape, InDialog
<1>5. UNCHANGED <<cpc, csync, session, kind, made, answered>>
  BY <1>1 DEF ServerOnly, client
<1>6. /\ path' = path /\ fd'[s]["outfifo"] = path["outfifo"] /\ path["outfifo"] # 0
      /\ \A n \in Names : Buf(n)' = Buf(n)
      /\ \A m \in Names : m # "outfifo" => fd'[s][m] = fd[s][m]
      /\ \A q \in Procs : q # s => fd'[q] = fd[q]
      /\ waiting'[s] = IF Rd("outfifo") = {} THEN path["outfifo"] ELSE 0
      /\ waiting'[Client] = IF Client \in Rd("outfifo") /\ waiting[Client] = path["outfifo"]
                            THEN 0 ELSE waiting[Client]
  BY <1>1, <1>2, PipeOpen, UpFacts, Constants
<1>7. SShape(s)'
  <2>1. \A n \in Names : fd'[s][n] \in {0, path'[n]}
    BY <1>6, UpFacts
  <2> QED  BY <1>3, <1>4, <1>6, <2>1, Constants DEF SShape, InDialog
<1>8. Sides(s)'
  <2>1. SReads(s, "outfifo")' <=> "w" = "r"
    BY <1>3 DEF SReads
  <2>2. \A m \in Names : m # "outfifo" /\ fd[s][m] # 0 => (SReads(s, m)' <=> SReads(s, m))
    BY <1>1, <1>3 DEF SReads
  <2> QED  BY <1>1, <1>2, <1>4, <1>5, <1>7, <2>1, <2>2, ServerOpens, Constants
<1>9. Rd("outfifo") \subseteq {Client} /\ (Client \in Rd("outfifo") <=> cpc = "type")
  <2>1. cpc \in {"answer", "type"}
    BY <1>2 DEF Sent
  <2>2. fd[Client]["outfifo"] # 0 <=> cpc = "type"
    BY <1>2, <2>1 DEF Sides, CShape
  <2>3. CReads("outfifo") /\ "outfifo" \in Names
    BY <2>1, Constants DEF CReads
  <2>4. /\ Rd("outfifo") \subseteq {Client, s} /\ s \notin Rd("outfifo")
        /\ Client \in Rd("outfifo") <=> fd[Client]["outfifo"] # 0
    BY <1>2, <1>4, <2>3 DEF Sides, Ends
  <2> QED  BY <2>2, <2>4
<1>10. Line("cmd", made)' = Line("cmd", made)
  BY <1>5 DEF Line
<1>11. Dialog(s)'
  <2>1. CASE cpc = "answer"
    <3>1. Rd("outfifo") = {} /\ waiting'[s] = path["outfifo"] /\ waiting'[Client] = waiting[Client]
      BY <1>6, <1>9, <2>1
    <3>2. Sent(s)'
      BY <1>1, <1>2, <1>3, <1>5, <1>6, <1>10, <2>1, <3>1, Constants DEF Sent, calls!Executed
    <3> QED  BY <3>2 DEF Dialog
  <2>2. CASE cpc = "type"
    <3>1. waiting'[Client] = 0 /\ waiting'[s] = 0
      BY <1>2, <1>6, <1>9, <2>2 DEF Sent
    <3>2. Executing(s)'
      BY <1>1, <1>2, <1>3, <1>5, <1>6, <1>10, <2>2, <3>1, Constants
      DEF Sent, Executing, calls!Executed
    <3> QED  BY <3>2 DEF Dialog
  <2> QED  BY <1>2, <2>1, <2>2 DEF Sent
<1>12. Buf("stopfifo")' = <<>>
  BY <1>6, UpFacts, Constants
<1> QED  BY <1>1, <1>3, <1>6, <1>8, <1>11, <1>12, Constants, ServerUp

LEMMA Appends == \A x, y : Append(<<>>, x) = <<x>> /\ Append(<<x>>, y) = <<x, y>>
<1> TAKE x, y
<1>1. Append(<<>>, x) = <<x>>
  OBVIOUS
<1>2. Append(<<x>>, y) = <<x, y>>
  <2>1. <<x>> \in Seq({x, y}) /\ <<x, y>> \in Seq({x, y}) /\ y \in {x, y} /\ Len(<<x>>) = 1
        /\ Len(<<x, y>>) = 2
    OBVIOUS
  <2>2. PICK a : a = Append(<<x>>, y)
    OBVIOUS
  <2>3. /\ a \in Seq({x, y}) /\ Len(a) = 2
        /\ a[1] = x /\ a[2] = y
    BY <2>1, <2>2, AppendProperties
  <2>4. PICK b \in Seq({x, y}) : b = <<x, y>> /\ b[1] = x /\ b[2] = y /\ Len(b) = 2
    BY <2>1
  <2>5. \A i \in 1 .. 2 : i = 1 \/ i = 2
    OBVIOUS
  <2>6. \A i \in 1 .. Len(a) : a[i] = b[i]
    BY <2>3, <2>4, <2>5
  <2>7. a = b
    BY <2>3, <2>4, <2>6, SeqEqual
  <2> QED  BY <2>2, <2>4, <2>7
<1> QED  BY <1>1, <1>2

\* An exception: its type, and its options.
LEMMA RaiseUp ==
    ASSUME TypeInv, NEW s \in Servers, Up(s), Raise(s) \/ PutOptions(s) PROVE Up(s)'
<1>1. /\ ServerOnly /\ UNCHANGED <<ssync, cmd, opened, pidfile, executed>> /\ waiting[s] = 0
      /\ \/ /\ spc[s] = "run" /\ spc' = [spc EXCEPT ![s] = "raised"]
            /\ Put(s, "outfifo", Line("type", cmd[s].call))
         \/ /\ spc[s] = "raised" /\ spc' = [spc EXCEPT ![s] = "wait"]
            /\ Put(s, "outfifo", Line("options", cmd[s].call))
  BY DEF Raise, PutOptions, Serve, Running
<1>2. Executing(s) /\ spc[s] \in InDialog \ {"open"}
  BY <1>1, ServerPlacesUp DEF InDialog
<1>3. UNCHANGED <<cpc, csync, session, kind, made, answered>>
  BY <1>1 DEF ServerOnly, client
<1>4. /\ spc'[s] = IF spc[s] = "run" THEN "raised" ELSE "wait"
      /\ \A q \in Servers : q # s => spc'[q] = spc[q]
  BY <1>1, ServerFacts
<1>5. cmd[s] = Line("cmd", made)
  BY <1>2 DEF Executing
<1>6. PICK w \in {"type", "options"} : /\ Put(s, "outfifo", Line(w, cmd[s].call))
                                       /\ w = IF spc[s] = "run" THEN "type" ELSE "options"
  BY <1>1
<1>7. /\ UNCHANGED <<path, fd, waiting>> /\ Pipes'
      /\ \A m \in Names : Rd(m)' = Rd(m) /\ Wr(m)' = Wr(m)
      /\ Buf("infifo")' = Buf("infifo") /\ Buf("stopfifo")' = Buf("stopfifo")
      /\ Buf("outfifo")' = Append(Buf("outfifo"), Line(w, made))
  BY <1>2, <1>3, <1>5, <1>6, ServerPuts
<1>8. Line("cmd", made)' = Line("cmd", made) /\ Line("type", made)' = Line("type", made)
      /\ Line("options", made)' = Line("options", made)
  BY <1>3 DEF Line
<1>9. Executing(s)'
  <2>1. \A x, y : Append(<<>>, x) = <<x>> /\ Append(<<x>>, y) = <<x, y>>
    BY Appends
  <2>2. /\ waiting'[Client] = 0 /\ waiting'[s] = 0 /\ cmd'[s] = Line("cmd", made)'
        /\ answered' < made' /\ ~calls!Executed(made)'
    BY <1>1, <1>2, <1>3, <1>7, <1>8 DEF Executing, calls!Executed
  <2>3. CASE spc[s] = "run"
    <3>1. Buf("infifo") = <<>> /\ Buf("outfifo") = <<>> /\ cpc = "type"
      BY <1>2, <2>3 DEF Executing
    <3>2. Buf("outfifo")' = <<Line("type", made)>>
      BY <1>6, <1>7, <2>1, <2>3, <3>1
    <3> QED  BY <1>3, <1>4, <1>7, <1>8, <2>2, <2>3, <3>1, <3>2 DEF Executing
  <2>4. CASE spc[s] # "run"
    <3>0. spc[s] = "raised" /\ w = "options" /\ Buf("infifo") = <<>>
      BY <1>1, <1>2, <1>6, <2>4 DEF Executing
    <3>1. \/ cpc = "type" /\ Buf("outfifo") = <<Line("type", made)>>
          \/ cpc = "options" /\ Buf("outfifo") = <<>>
      BY <1>2, <3>0 DEF Executing
    <3>2. \/ cpc = "type" /\ Buf("outfifo")' = <<Line("type", made), Line("options", made)>>
          \/ cpc = "options" /\ Buf("outfifo")' = <<Line("options", made)>>
      BY <1>7, <2>1, <3>0, <3>1
    <3> QED  BY <1>3, <1>4, <1>7, <1>8, <2>2, <2>4, <3>0, <3>2 DEF Executing
  <2> QED  BY <2>3, <2>4
<1>10. spc'[s] \in InDialog \ {"open"}
  BY <1>4 DEF InDialog
<1> QED  BY <1>1, <1>2, <1>4, <1>7, <1>9, <1>10, ServerTalks DEF Dialog

\* The answer to it.
LEMMA ReadChoiceUp == ASSUME TypeInv, NEW s \in Servers, Up(s), ReadChoice(s) PROVE Up(s)'
<1>1. /\ ServerOnly /\ UNCHANGED <<pidfile, executed>> /\ waiting[s] = 0 /\ spc[s] = "wait"
  BY DEF ReadChoice, Running
<1>2. UNCHANGED <<cpc, csync, session, kind, made, answered>>
  BY <1>1 DEF ServerOnly, client
<1>3. /\ Executing(s) /\ Pipes /\ s \in Procs /\ fd[s]["infifo"] # 0
      /\ fd[s]["infifo"] = path["infifo"] /\ "infifo" \in Names
  BY <1>1, UpFacts, ServerPlacesUp, InDialogFacts, Constants
<1>4. cpc \in {"type", "options", "choice"}
  BY <1>3 DEF Executing
<1>5. ~AtEnd(s, "infifo")
  <2>1. Client \in Wr("infifo")
    BY <1>4, ScriptThere
  <2> QED  BY <1>3, <2>1, PipeEnd
<1>6. Readable(s, "infifo") /\ Take(s, "infifo")
  BY <1>5 DEF ReadChoice
<1>7. /\ UNCHANGED <<path, fd, waiting>> /\ Pipes'
      /\ \A m \in Names : m # "infifo" => Buf(m)' = Buf(m)
      /\ \A m \in Names : Rd(m)' = Rd(m) /\ Wr(m)' = Wr(m)
      /\ Buf("infifo")' = Tail(Buf("infifo")) /\ Buf("infifo") # <<>>
      /\ At(s, "infifo").buf = Buf("infifo")
  BY <1>2, <1>3, <1>6, PipeTake
<1>8. cpc = "type" /\ Buf("infifo") = <<Line("choice", made)>> /\ Buf("outfifo") = <<>>
  BY <1>1, <1>3, <1>7 DEF Executing
<1>9. Buf("infifo")' = <<>> /\ Head(At(s, "infifo").buf).what = "choice"
  <2>1. \A x : Tail(<<x>>) = <<>> /\ Head(<<x>>) = x
    OBVIOUS
  <2>2. Tail(Buf("infifo")) = <<>> /\ Head(At(s, "infifo").buf) = Line("choice", made)
    BY <1>7, <1>8, <2>1
  <2> QED  BY <1>7, <2>2 DEF Line
<1>10. spc' = [spc EXCEPT ![s] = "run"] /\ UNCHANGED <<ssync, cmd, opened>>
  BY <1>5, <1>9 DEF ReadChoice
<1>11. spc'[s] = "run" /\ \A q \in Servers : q # s => spc'[q] = spc[q]
  BY <1>10, ServerFacts
<1>12. Line("cmd", made)' = Line("cmd", made)
  BY <1>2 DEF Line
<1>13. Executing(s)'
  BY <1>1, <1>2, <1>3, <1>7, <1>8, <1>9, <1>10, <1>11, <1>12, Constants
  DEF Executing, calls!Executed
<1>14. spc[s] \in InDialog \ {"open"} /\ spc'[s] \in InDialog \ {"open"}
  BY <1>1, <1>11 DEF InDialog
<1> QED  BY <1>1, <1>7, <1>10, <1>11, <1>13, <1>14, Constants, ServerTalks DEF Dialog

\* The command is executed, and this is the first time.
LEMMA DoneUp ==
    ASSUME TypeInv, NEW s \in Servers, Up(s), Done(s)
    PROVE  /\ Up(s)' /\ ~calls!Executed(made) /\ executed' = Append(executed, made)
           /\ cpc \in {"type", "options", "choice"}
<1>1. /\ ServerOnly /\ UNCHANGED <<ssync, cmd, pidfile>> /\ waiting[s] = 0
      /\ spc[s] = "run" /\ Put(s, "outfifo", Line("OK", cmd[s].call))
      /\ spc' = [spc EXCEPT ![s] = IF cmd[s].kind = "plain" THEN "close" ELSE "result"]
      /\ executed' = Append(executed, cmd[s].call) /\ opened' = [opened EXCEPT ![s] = TRUE]
  BY DEF Done, Serve, Running
<1>2. Executing(s) /\ spc[s] \in InDialog \ {"open"}
  BY <1>1, ServerPlacesUp DEF InDialog
<1>3. UNCHANGED <<cpc, csync, session, kind, made, answered>>
  BY <1>1 DEF ServerOnly, client
<1>4. /\ spc'[s] = (IF cmd[s].kind = "plain" THEN "close" ELSE "result") /\ opened'[s]
      /\ \A q \in Servers : q # s => spc'[q] = spc[q]
  BY <1>1, ServerFacts
<1>5. /\ cmd[s] = Line("cmd", made) /\ ~calls!Executed(made) /\ answered < made
      /\ cpc = "type" /\ Buf("infifo") = <<>> /\ Buf("outfifo") = <<>>
      /\ waiting[Client] = 0
  BY <1>1, <1>2 DEF Executing
<1>6. cmd[s].call = made /\ cmd[s].kind = kind
  BY <1>5 DEF Line
<1>7. /\ UNCHANGED <<path, fd, waiting>> /\ Pipes'
      /\ \A m \in Names : Rd(m)' = Rd(m) /\ Wr(m)' = Wr(m)
      /\ Buf("infifo")' = Buf("infifo") /\ Buf("stopfifo")' = Buf("stopfifo")
      /\ Buf("outfifo")' = Append(Buf("outfifo"), Line("OK", made))
  BY <1>1, <1>2, <1>3, <1>5, ServerPuts
<1>8. Line("cmd", made)' = Line("cmd", made) /\ Line("OK", made)' = Line("OK", made)
      /\ (HasAnswer' <=> HasAnswer)
  BY <1>3 DEF Line, HasAnswer
<1>9. Buf("outfifo")' = <<Line("OK", made)>>
  <2>1. \A x : Append(<<>>, x) = <<x>>
    OBVIOUS
  <2> QED  BY <1>5, <1>7, <2>1
<1>10. executed' = Append(executed, made) /\ calls!Executed(made)'
  <2>1. executed' = Append(executed, made) /\ executed \in Seq(1 .. made)
    BY <1>1, <1>6, ServerFacts
  <2>2. Len(executed) \in Nat /\ DOMAIN executed' = 1 .. (Len(executed) + 1)
        /\ executed'[Len(executed) + 1] = made
    BY <2>1
  <2>3. \E i \in DOMAIN executed' : executed'[i] = made'
    BY <1>3, <2>2
  <2> QED  BY <2>1, <2>3 DEF calls!Executed
<1>11. kind \in {"open", "plain", "bare"} /\ (HasAnswer <=> kind # "plain")
  BY TypeFacts DEF HasAnswer
<1>12. Replying(s)'
  <2>1. CASE HasAnswer
    <3>1. spc'[s] = "result"
      BY <1>4, <1>6, <1>11, <2>1
    <3> QED  BY <1>1, <1>3, <1>4, <1>5, <1>7, <1>8, <1>9, <1>10, <2>1, <3>1 DEF Replying
  <2>2. CASE ~HasAnswer
    <3>1. spc'[s] = "close"
      BY <1>4, <1>6, <1>11, <2>2
    <3>2. SIn(s, 0)'
      BY <1>1, <1>7, <3>1 DEF SIn
    <3> QED  BY <1>3, <1>4, <1>5, <1>7, <1>8, <1>9, <1>10, <2>2, <3>2 DEF Replying
  <2> QED  BY <2>1, <2>2
<1>13. spc'[s] \in InDialog \ {"open"}
  BY <1>4 DEF InDialog
<1>14. Up(s)'
  BY <1>1, <1>2, <1>4, <1>7, <1>12, <1>13, ServerTalks DEF Dialog
<1> QED  BY <1>5, <1>10, <1>14

LEMMA PutResultUp == ASSUME TypeInv, NEW s \in Servers, Up(s), PutResult(s) PROVE Up(s)'
<1>1. /\ ServerOnly /\ UNCHANGED <<ssync, cmd, opened, pidfile, executed>> /\ waiting[s] = 0
      /\ spc[s] = "result" /\ spc' = [spc EXCEPT ![s] = "close"]
      /\ Put(s, "outfifo", Line("result", cmd[s].call))
  BY DEF PutResult, Serve, Running
<1>2. Replying(s) /\ spc[s] \in InDialog \ {"open"}
  BY <1>1, ServerPlacesUp DEF InDialog
<1>3. UNCHANGED <<cpc, csync, session, kind, made, answered>>
  BY <1>1 DEF ServerOnly, client
<1>4. spc'[s] = "close" /\ \A q \in Servers : q # s => spc'[q] = spc[q]
  BY <1>1, ServerFacts
<1>5. /\ HasAnswer /\ cmd[s] = Line("cmd", made) /\ cpc \in {"type", "result"}
      /\ cpc = "type" => Buf("outfifo") = <<Line("OK", made)>>
      /\ cpc = "result" => Buf("outfifo") = <<>>
      /\ waiting[Client] = 0 /\ opened[s] /\ calls!Executed(made) /\ Buf("infifo") = <<>>
      /\ answered < made
  BY <1>1, <1>2 DEF Replying, SIn, Coming, SBefore, SBlocked, SAt
<1>6. /\ UNCHANGED <<path, fd, waiting>> /\ Pipes'
      /\ \A m \in Names : Rd(m)' = Rd(m) /\ Wr(m)' = Wr(m)
      /\ Buf("infifo")' = Buf("infifo") /\ Buf("stopfifo")' = Buf("stopfifo")
      /\ Buf("outfifo")' = Append(Buf("outfifo"), Line("result", made))
  BY <1>1, <1>2, <1>3, <1>5, ServerPuts
<1>7. Line("OK", made)' = Line("OK", made) /\ Line("result", made)' = Line("result", made)
      /\ (HasAnswer' <=> HasAnswer)
  BY <1>3 DEF Line, HasAnswer
<1>8. /\ cpc = "type" => Buf("outfifo")' = <<Line("OK", made), Line("result", made)>>
      /\ cpc = "result" => Buf("outfifo")' = <<Line("result", made)>>
  <2>1. \A x, y : Append(<<>>, x) = <<x>> /\ Append(<<x>>, y) = <<x, y>>
    BY Appends
  <2> QED  BY <1>5, <1>6, <2>1
<1>9. SIn(s, 0)'
  BY <1>1, <1>4, <1>6 DEF SIn
<1>10. Replying(s)'
  <2>1. calls!Executed(made)'
    BY <1>1, <1>3, <1>5 DEF calls!Executed
  <2> QED  BY <1>1, <1>3, <1>5, <1>6, <1>7, <1>8, <1>9, <2>1 DEF Replying
<1>11. spc'[s] \in InDialog \ {"open"}
  BY <1>4 DEF InDialog
<1> QED  BY <1>1, <1>2, <1>4, <1>6, <1>10, <1>11, ServerTalks DEF Dialog

\* It closes both pipes: the script may not have read its last lines yet.
LEMMA CloseFifosUp == ASSUME TypeInv, NEW s \in Servers, Up(s), CloseFifos(s) PROVE Up(s)'
<1>1. /\ ServerOnly /\ UNCHANGED <<cmd, opened, pidfile, executed>> /\ waiting[s] = 0
      /\ spc[s] = "close" /\ spc' = [spc EXCEPT ![s] = "sync"]
      /\ ssync' = [ssync EXCEPT ![s] = 1] /\ Close(s, {"infifo", "outfifo"})
  BY DEF CloseFifos, Serve, Running
<1>2. /\ Sides(s) /\ Pipes /\ s \in Procs /\ Client \in Procs /\ s # Client
      /\ (InStep(s) /\ Meet(s, 1) /\ ~CIn(1)) \/ Replying(s)
  BY <1>1, UpFacts, ServerPlacesUp
<1>3. UNCHANGED <<cpc, csync, session, kind, made, answered>>
  BY <1>1 DEF ServerOnly, client
<1>4. spc'[s] = "sync" /\ ssync'[s] = 1 /\ \A q \in Servers : q # s => spc'[q] = spc[q]
  BY <1>1, ServerFacts
<1>5. fd[s]["stopfifo"] = 0
  BY <1>1, <1>2 DEF Sides, SShape
<1>6. /\ path' = path /\ waiting'[s] = 0
      /\ \A n \in Names :
            /\ fd'[s][n] = IF n \in {"infifo", "outfifo"} THEN 0 ELSE fd[s][n]
            /\ Buf(n)' = Buf(n) \/ (Buf(n)' = <<>> /\ Rd(n) \subseteq {s})
      /\ \A q \in Procs : q # s => fd'[q] = fd[q] /\ waiting'[q] = waiting[q]
  <2>1. {"infifo", "outfifo"} \in SUBSET Names /\ \A m, n \in Names : fd[s][m] = path[n] => m = n
    BY Constants, UpFacts
  <2> QED  BY <1>1, <1>2, <2>1, PipeClose
<1>7. \A n \in Names : fd'[s][n] = 0
  BY <1>5, <1>6, Constants
<1>8. SShape(s)'
  BY <1>4, <1>7 DEF SShape
<1>9. Sides(s)'
  <2>1. \A m \in Names \ {"infifo", "outfifo"} : fd[s][m] = 0
    BY <1>5, Constants
  <2> QED  BY <1>1, <1>2, <1>3, <1>8, <2>1, ServerCloses, Constants
<1>10. SBefore(s, 1)'
  BY <1>4, <1>6, <1>7, MeetingPipes DEF SBefore, SAt, PipeOf
<1>11. Dialog(s)'
  <2>1. CASE InStep(s) /\ Meet(s, 1) /\ ~CIn(1)
    <3>1. CBefore(1) \/ CBlocked(1)
      BY <2>1 DEF Meet
    <3>2. CBefore(1)' \/ CBlocked(1)'
      BY <1>2, <1>3, <1>6, <3>1 DEF CBefore, CBlocked, CAt, PipeOf
    <3>3. Meet(s, 1)'
      BY <1>10, <3>2 DEF Meet, Coming
    <3>4. Buf("infifo")' = <<>> /\ Buf("outfifo")' = <<>> /\ 1 \in 1 .. 6
      BY <1>6, <2>1, Constants DEF InStep
    <3>5. InStep(s)'
      BY <1>1, <1>3, <2>1, <3>3, <3>4 DEF InStep, calls!Executed
    <3> QED  BY <3>5 DEF Dialog
  <2>2. CASE Replying(s)
    <3>1. cpc \in {"type", "result", "close"} /\ Buf("infifo") = <<>>
      BY <2>2 DEF Replying
    <3>2. Client \in Rd("outfifo")
      BY <3>1, ScriptThere
    <3>3. Buf("outfifo")' = Buf("outfifo") /\ Buf("infifo")' = <<>>
      BY <1>2, <1>6, <3>1, <3>2, Constants
    <3>4. Line("OK", made)' = Line("OK", made) /\ Line("result", made)' = Line("result", made)
          /\ (HasAnswer' <=> HasAnswer)
      BY <1>3 DEF Line, HasAnswer
    <3>5. Coming(s, 1)'
      BY <1>10 DEF Coming
    <3>6. waiting'[Client] = 0 /\ opened'[s] /\ calls!Executed(made)'
          /\ (cpc \in {"type", "result"} => answered < made)
      BY <1>1, <1>2, <1>3, <1>6, <2>2 DEF Replying, calls!Executed
    <3>7. \/ cpc = "type" /\ HasAnswer
             /\ Buf("outfifo") = <<Line("OK", made), Line("result", made)>>
          \/ cpc = "type" /\ ~HasAnswer /\ Buf("outfifo") = <<Line("OK", made)>>
          \/ cpc = "result" /\ HasAnswer /\ Buf("outfifo") = <<Line("result", made)>>
          \/ cpc = "close" /\ Buf("outfifo") = <<>>
      BY <1>1, <2>2 DEF Replying
    <3>8. Replying(s)'
      BY <1>3, <3>3, <3>4, <3>5, <3>6, <3>7 DEF Replying
    <3> QED  BY <3>8 DEF Dialog
  <2> QED  BY <1>2, <2>1, <2>2
<1>12. Buf("stopfifo")' = <<>>
  BY <1>6, UpFacts, Constants
<1> QED  BY <1>1, <1>4, <1>6, <1>9, <1>11, <1>12, Constants, ServerUp

\* What the server does in synchronise leaves a script that still reads as it is.
LEMMA ReplyStays ==
    ASSUME NEW s \in Servers, Replying(s), Coming(s, 1), Coming(s, 1)',
           UNCHANGED <<cpc, kind, made, answered, executed>>, waiting'[Client] = waiting[Client],
           opened'[s] = opened[s],
           Buf("infifo")' = Buf("infifo"), Buf("outfifo")' = Buf("outfifo")
    PROVE  Replying(s)'
<1>1. Line("OK", made)' = Line("OK", made) /\ Line("result", made)' = Line("result", made)
      /\ (HasAnswer' <=> HasAnswer)
  BY DEF Line, HasAnswer
<1>2. waiting'[Client] = 0 /\ opened'[s] /\ calls!Executed(made)' /\ Buf("infifo")' = <<>>
      /\ (cpc \in {"type", "result"} => answered < made)
  BY DEF Replying, calls!Executed
<1>3. spc[s] = "sync"
  BY DEF Coming, SBefore, SBlocked, SAt
<1>4. \/ cpc = "type" /\ HasAnswer
         /\ Buf("outfifo") = <<Line("OK", made), Line("result", made)>>
      \/ cpc = "type" /\ ~HasAnswer /\ Buf("outfifo") = <<Line("OK", made)>>
      \/ cpc = "result" /\ HasAnswer /\ Buf("outfifo") = <<Line("result", made)>>
      \/ cpc = "close" /\ Buf("outfifo") = <<>>
  BY <1>3 DEF Replying
<1> QED  BY <1>1, <1>2, <1>4 DEF Replying

LEMMA SyncOpenUp == ASSUME TypeInv, NEW s \in Servers, Up(s), SyncOpen(s) PROVE Up(s)'
<1>1. /\ ServerOnly /\ UNCHANGED <<server, pidfile, executed>> /\ waiting[s] = 0
      /\ spc[s] = "sync" /\ fd[s][ServerSync[ssync[s]][1]] = 0
      /\ Open(s, ServerSync[ssync[s]][1], ServerSync[ssync[s]][2])
  BY DEF SyncOpen, Running
<1>2. /\ Sides(s) /\ Pipes /\ s \in Procs /\ s # Client
      /\ InStep(s) \/ (Replying(s) /\ Coming(s, 1))
  BY <1>1, UpFacts, ServerPlacesUp
<1>3. UNCHANGED <<cpc, csync, session, kind, made, answered>>
  BY <1>1 DEF ServerOnly, client
<1>4. UNCHANGED <<spc, ssync, cmd, opened>>
  BY <1>1 DEF server
<1>5. PICK k \in 1 .. 5 : k = ssync[s]
  <2>1. ssync[s] \in 0 .. 5 /\ ssync[s] # 0
    BY <1>1, ServerFacts DEF TypeInv, StateType
  <2> QED  BY <2>1
<1> DEFINE n == PipeOf(k) mode == ServerWay(k)
<1>6. /\ n = ServerSync[ssync[s]][1] /\ mode = ServerSync[ssync[s]][2] /\ n \in Names
      /\ mode \in {"r", "w"} /\ SAt(s, k) /\ k \in 1 .. 6
  BY <1>1, <1>5, MeetingPipes, MeetingWays DEF ServerWay, SAt
<1>7. fd[s][n] = 0 /\ Open(s, n, mode) /\ SBefore(s, k) /\ SAt(s, k)'
  BY <1>1, <1>4, <1>6 DEF SBefore, SAt
<1>8. /\ \A j \in 1 .. 6 : Meet(s, j) => Meet(s, j)'
      /\ fd[Client][n] = 0 => SBlocked(s, k)' /\ waiting'[Client] = waiting[Client]
  BY <1>2, <1>3, <1>6, <1>7, ServerArrives
<1> HIDE DEF n, mode
<1>9. /\ path' = path /\ fd'[s][n] = path[n] /\ path[n] # 0
      /\ \A m \in Names : Buf(m)' = Buf(m)
      /\ \A m \in Names : m # n => fd'[s][m] = fd[s][m]
      /\ \A q \in Procs : q # s => fd'[q] = fd[q]
  BY <1>2, <1>6, <1>7, PipeOpen, UpFacts
<1>10. \A m \in Names : m # n => fd[s][m] = 0
  BY <1>2, <1>6, MeetingShape DEF n
<1>11. SShape(s)'
  <2>1. \A m \in Names : fd'[s][m] \in {0, path'[m]}
    BY <1>9, <1>10
  <2>2. \A m \in Names : fd'[s][m] # 0 => m = ServerSync[ssync'[s]][1]
    BY <1>4, <1>6, <1>9, <1>10
  <2> QED  BY <1>1, <1>4, <2>1, <2>2 DEF SShape
<1>12. Sides(s)'
  <2>1. \A m \in Names : SReads(s, m)' <=> SReads(s, m)
    BY <1>4 DEF SReads
  <2>2. SReads(s, n)' <=> mode = "r"
    BY <1>6, <2>1, MeetingWays DEF n, mode
  <2> QED  BY <1>2, <1>3, <1>6, <1>7, <1>11, <2>1, <2>2, ServerOpens
<1>13. Dialog(s)'
  <2>1. CASE InStep(s)
    <3>1. InStep(s)'
      BY <1>1, <1>3, <1>4, <1>8, <1>9, <2>1, Constants DEF InStep, calls!Executed
    <3> QED  BY <3>1 DEF Dialog
  <2>2. CASE Replying(s) /\ Coming(s, 1)
    <3>1. k = 1 /\ n = "stopfifo"
      BY <1>5, <2>2, MeetingPipes DEF Coming, SBefore, SBlocked, SAt, n
    <3>2. fd[Client][n] = 0
      BY <2>2, <3>1, ScriptThere DEF Replying
    <3>3. Coming(s, 1)' /\ waiting'[Client] = waiting[Client]
      BY <1>8, <3>1, <3>2 DEF Coming, n
    <3>4. Replying(s)'
      BY <1>1, <1>3, <1>4, <1>9, <2>2, <3>3, Constants, ReplyStays
    <3> QED  BY <3>4 DEF Dialog
  <2> QED  BY <1>2, <2>1, <2>2
<1>14. Buf("stopfifo")' = <<>>
  BY <1>9, UpFacts, Constants
<1> QED  BY <1>1, <1>4, <1>9, <1>12, <1>13, <1>14, Constants, ServerUp

LEMMA SyncCloseUp == ASSUME TypeInv, NEW s \in Servers, Up(s), SyncClose(s) PROVE Up(s)'
<1>1. /\ ServerOnly /\ UNCHANGED <<cmd, opened, pidfile, executed>> /\ waiting[s] = 0
      /\ spc[s] = "sync" /\ fd[s][ServerSync[ssync[s]][1]] # 0
      /\ Close(s, {ServerSync[ssync[s]][1]})
      /\ IF ssync[s] = 5
         THEN spc' = [spc EXCEPT ![s] = "loop"] /\ ssync' = [ssync EXCEPT ![s] = 0]
         ELSE ssync' = [ssync EXCEPT ![s] = @ + 1] /\ UNCHANGED spc
  <2>1. Len(ServerSync) = 5
    BY SyncPipes
  <2> QED  BY <2>1 DEF SyncClose, Running
<1>2. /\ Sides(s) /\ Pipes /\ s \in Procs /\ s # Client
      /\ InStep(s) \/ (Replying(s) /\ Coming(s, 1))
  BY <1>1, UpFacts, ServerPlacesUp
<1>3. UNCHANGED <<cpc, csync, session, kind, made, answered>>
  BY <1>1 DEF ServerOnly, client
<1>4. /\ IF ssync[s] = 5 THEN spc'[s] = "loop" ELSE spc'[s] = "sync" /\ ssync'[s] = ssync[s] + 1
      /\ \A q \in Servers : q # s => spc'[q] = spc[q]
  BY <1>1, ServerFacts
<1>5. PICK k \in 1 .. 5 : k = ssync[s]
  <2>1. ssync[s] \in 0 .. 5 /\ ssync[s] # 0
    BY <1>1, ServerFacts DEF TypeInv, StateType
  <2> QED  BY <2>1
<1> DEFINE n == PipeOf(k)
<1>6. n = ServerSync[ssync[s]][1] /\ n \in Names /\ SAt(s, k) /\ k \in 1 .. 6 /\ k # 0
      /\ path[n] # 0
  BY <1>1, <1>5, MeetingPipes, UpFacts DEF SAt
<1>7. fd[s][n] # 0 /\ Close(s, {n}) /\ SIn(s, k)
  BY <1>1, <1>6 DEF SIn
<1>8. SAt(s, k + 1)'
  <2>1. CASE k = 5
    BY <1>4, <1>5, <2>1 DEF SAt
  <2>2. CASE k # 5
    <3>1. k + 1 # 6
      BY <2>2
    <3> QED  BY <1>4, <1>5, <2>2, <3>1 DEF SAt
  <2> QED  BY <2>1, <2>2
<1>9. InStep(s)
  <2>1. ~Coming(s, 1)
    <3>1. Coming(s, 1) => k = 1
      BY <1>1, <1>5 DEF Coming, SBefore, SBlocked, SAt
    <3> QED  BY <1>1, <1>6, <1>7, <3>1 DEF Coming, SBefore, SBlocked
  <2> QED  BY <1>2, <2>1
<1>10. PICK j \in 1 .. 6 : Meet(s, j)
  BY <1>9 DEF InStep
<1>11. Meet(s, j)'
  BY <1>2, <1>3, <1>7, <1>8, <1>10, ServerDeparts
<1> HIDE DEF n
<1>12. \A m \in Names : m # n => fd[s][m] = 0
  BY <1>2, <1>6, MeetingShape DEF n
<1>13. /\ path' = path
       /\ \A m \in Names : /\ fd'[s][m] = IF m \in {n} THEN 0 ELSE fd[s][m]
                           /\ Buf(m)' = Buf(m) \/ Buf(m)' = <<>>
       /\ \A q \in Procs : q # s => fd'[q] = fd[q]
  <2>1. {n} \in SUBSET Names /\ \A l, m \in Names : fd[s][l] = path[m] => l = m
    BY <1>6, UpFacts
  <2> QED  BY <1>2, <1>7, <2>1, PipeClose
<1>14. \A m \in Names : fd'[s][m] = 0
  BY <1>12, <1>13
<1>15. SShape(s)'
  <2>1. spc'[s] \in {"loop", "sync"}
    BY <1>4
  <2> QED  BY <1>14, <2>1, Constants DEF SShape, InDialog
<1>16. Sides(s)'
  <2>1. {n} \in SUBSET Names /\ \A m \in Names \ {n} : fd[s][m] = 0
    BY <1>6, <1>12
  <2> QED  BY <1>2, <1>3, <1>7, <1>15, <2>1, ServerCloses
<1>17. InStep(s)'
  <2>1. Buf("infifo")' = <<>> /\ Buf("outfifo")' = <<>>
    BY <1>9, <1>13, Constants DEF InStep
  <2> QED  BY <1>1, <1>3, <1>9, <1>11, <2>1 DEF InStep, calls!Executed
<1>18. Buf("stopfifo")' = <<>>
  BY <1>13, UpFacts, Constants
<1> QED  BY <1>1, <1>4, <1>13, <1>16, <1>17, <1>18, Constants, ServerUp DEF Dialog

\* It ends: the pid file goes first.
LEMMA ExitUp == ASSUME TypeInv, NEW s \in Servers, Up(s), CleanUp(s) PROVE Down'
<1>1. spc[s] = "exit" /\ Quitting(s) /\ s # 0
  BY ServerPlacesUp, UpFacts DEF CleanUp, Serve
<1>2. /\ spc' = [spc EXCEPT ![s] = "in"] /\ pidfile' = 0 /\ UNCHANGED fifoVars /\ ServerOnly
  BY <1>1 DEF CleanUp, Serve
<1>3. spc'[s] = "in" /\ \A q \in Servers : q # s => spc'[q] = spc[q]
  BY <1>2, ServerFacts
<1>4. UNCHANGED <<cpc, session>> /\ UNCHANGED <<path, fd, waiting>>
  BY <1>2 DEF ServerOnly, client, fifoVars
<1>5. cpc \in {"quitting", "stopping"} /\ waiting[Client] = 0 /\ session # "up"
  BY <1>1, UpFacts DEF Quitting
<1>6. \A n \in Names : fd[Client][n] # 0 => cpc = "quitting" /\ n = "infifo"
  BY <1>5, UpFacts, Constants DEF Sides, CShape
<1>7. \A q \in Servers : spc'[q] \in {"in", "none", "gone", "dead"}
  BY <1>3 DEF Up
<1> QED  BY <1>2, <1>4, <1>5, <1>6, <1>7 DEF Down

LEMMA NeverServer ==
    ASSUME TypeInv, NEW s \in Servers, Up(s) PROVE ~Boot(s) /\ ~BrokenPipe(s)
<1>1. ~Boot(s)
  BY ServerPlacesUp DEF Boot, Serve
<1>2. ~BrokenPipe(s)
  <2> SUFFICES ASSUME BrokenPipe(s) PROVE FALSE
    OBVIOUS
  <2>1. spc[s] \in {"run", "raised", "result"} /\ waiting[s] = 0 /\ ~Delivered(s, "outfifo")
    BY DEF BrokenPipe, Running
  <2>2. fd[s]["outfifo"] # 0 /\ Pipes /\ s \in Procs /\ "outfifo" \in Names
    BY <2>1, UpFacts, InDialogFacts, Constants
  <2>3. fd[s]["outfifo"] = path["outfifo"]
    BY <2>2, UpFacts
  <2>4. Rd("outfifo") = {}
    BY <2>1, <2>2, <2>3, PipeDelivered
  <2>5. Executing(s) \/ Replying(s)
    BY <2>1, ServerPlacesUp
  <2>6. cpc \in {"type", "options", "choice", "result", "close"}
    BY <2>5 DEF Executing, Replying
  <2> QED  BY <2>4, <2>6, ScriptThere
<1> QED  BY <1>1, <1>2

\* Nothing of a dialog depends on the other servers.
LEMMA DialogStays ==
    ASSUME NEW s \in Servers, Dialog(s),
           UNCHANGED <<path, cpc, csync, kind, made, answered, executed>>,
           fd'[Client] = fd[Client], fd'[s] = fd[s], waiting'[Client] = waiting[Client],
           waiting'[s] = waiting[s], spc'[s] = spc[s], ssync'[s] = ssync[s],
           cmd'[s] = cmd[s], opened'[s] = opened[s],
           Buf("infifo")' = Buf("infifo"), Buf("outfifo")' = Buf("outfifo")
    PROVE  Dialog(s)'
<1>1. \A w, n : Line(w, n)' = Line(w, n)
  BY DEF Line
<1>2. /\ HasAnswer' <=> HasAnswer
      /\ calls!Executed(made)' <=> calls!Executed(made)
  BY DEF HasAnswer, calls!Executed
<1>3. \A k : /\ CBefore(k)' <=> CBefore(k)
             /\ CBlocked(k)' <=> CBlocked(k)
             /\ CIn(k)' <=> CIn(k)
             /\ SIn(s, k)' <=> SIn(s, k)
             /\ Coming(s, k)' <=> Coming(s, k)
  BY DEF CBefore, CBlocked, CIn, CAt, SIn, Coming, SBefore, SBlocked, SAt, PipeOf
<1>4. InStep(s) => InStep(s)'
  <2>1. ASSUME NEW k, Meet(s, k) PROVE Meet(s, k)'
    <3>1. /\ SIn(s, k - 1)' <=> SIn(s, k - 1)
          /\ Coming(s, k + 1)' <=> Coming(s, k + 1)
      BY <1>3
    <3>2. /\ CBefore(k)' <=> CBefore(k)
          /\ CBlocked(k)' <=> CBlocked(k)
          /\ CIn(k)' <=> CIn(k)
          /\ SIn(s, k)' <=> SIn(s, k)
          /\ Coming(s, k)' <=> Coming(s, k)
          /\ SBefore(s, k)' <=> SBefore(s, k)
      BY <1>3 DEF SBefore, SAt, PipeOf
    <3> QED  BY <2>1, <3>1, <3>2 DEF Meet
  <2> QED  BY <1>2, <2>1 DEF InStep
<1>5. Sent(s) => Sent(s)'
  BY <1>1, <1>2 DEF Sent
<1>6. Executing(s) => Executing(s)'
  BY <1>1, <1>2 DEF Executing
<1>7. Replying(s) => Replying(s)'
  BY <1>1, <1>2, <1>3 DEF Replying
<1>8. Quitting(s) => Quitting(s)'
  BY <1>1 DEF Quitting
<1> QED  BY <1>4, <1>5, <1>6, <1>7, <1>8 DEF Dialog

\* An earlier one has only to close what it still has open.
LEMMA OtherUp ==
    ASSUME TypeInv, NEW s \in Servers, Up(s), NEW q \in Servers, q # s, ServerNext(q)
    PROVE  Up(s)'
<1>1. spc[q] \in {"none", "gone", "dead"} /\ Stale(q)
  BY DEF Up
<1>2. /\ Close(q, Names) /\ spc' = [spc EXCEPT ![q] = "dead"]
      /\ UNCHANGED <<ssync, cmd, excs, opened, pidfile, executed>> /\ ServerOnly
  BY <1>1 DEF ServerNext, Boot, OpenIn, ReadCommand, OpenOut, Raise, PutOptions, ReadChoice, Done,
              PutResult, BrokenPipe, CloseFifos, SyncOpen, SyncClose, CleanUp, Serve
<1>3. spc'[q] = "dead" /\ \A t \in Servers : t # q => spc'[t] = spc[t]
  BY <1>2, ServerFacts
<1>4. /\ UNCHANGED <<cpc, csync, session, kind, made, answered>>
      /\ Client \in Procs /\ s \in Procs /\ q \in Procs /\ q # Client /\ Sides(s) /\ Pipes
      /\ \A n \in Names : path[n] # 0
  BY <1>2, UpFacts, Constants DEF ServerOnly, client
<1>5. \A m, n \in Names : fd[q][m] # path[n]
  BY <1>1, <1>4 DEF Stale
<1>6. /\ path' = path /\ Pipes'
      /\ \A n \in Names : /\ fd'[q][n] = 0
                          /\ Rd(n)' = Rd(n) /\ Wr(n)' = Wr(n) /\ Buf(n)' = Buf(n)
      /\ \A p \in Procs : p # q => fd'[p] = fd[p] /\ waiting'[p] = waiting[p]
  BY <1>2, <1>4, <1>5, PipeClose
<1>7. fd'[Client] = fd[Client] /\ fd'[s] = fd[s] /\ waiting'[Client] = waiting[Client]
      /\ waiting'[s] = waiting[s] /\ spc'[s] = spc[s]
  BY <1>3, <1>4, <1>6
<1>8. Sides(s)'
  <2>1. CShape' /\ \A n \in Names : CReads(n)' <=> CReads(n)
    BY <1>4, <1>6, <1>7, ClientShape DEF Sides
  <2>2. SShape(s)' /\ \A n \in Names : SReads(s, n)' <=> SReads(s, n)
    BY <1>2, <1>4, <1>6, <1>7 DEF Sides, SShape, SReads
  <2> QED  BY <1>4, <1>6, <1>7, <2>1, <2>2 DEF Sides, Ends
<1>9. Dialog(s)'
  BY <1>2, <1>4, <1>6, <1>7, UpFacts, DialogStays, Constants
<1>10. \A t \in Servers : t # s => spc'[t] \in {"none", "gone", "dead"} /\ Stale(t)'
  <2> TAKE t \in Servers
  <2>1. CASE t = q
    BY <1>3, <1>6, <2>1 DEF Stale
  <2>2. CASE t # q
    BY <1>3, <1>6, <2>2, Constants DEF Stale, Up
  <2> QED  BY <2>1, <2>2
<1>11. Buf("stopfifo")' = <<>> /\ pidfile' = s /\ session' = session
  BY <1>2, <1>4, <1>6, UpFacts, Constants
<1> QED  BY <1>4, <1>8, <1>9, <1>10, <1>11, UpFacts DEF Up, Sides, Dialog

\* Whatever a server does.
LEMMA ServersUp ==
    ASSUME TypeInv, NEW s \in Servers, Up(s), NEW q \in Servers, ServerNext(q)
    PROVE  Up(s)' \/ Down'
<1>1. CASE q # s
  BY <1>1, OtherUp
<1>2. CASE q = s
  <2>1. CASE OpenIn(s) \/ ReadCommand(s) \/ OpenOut(s)
    BY <2>1, OpenInUp, ReadCommandUp, OpenOutUp
  <2>2. CASE Raise(s) \/ PutOptions(s) \/ ReadChoice(s) \/ Done(s) \/ PutResult(s)
    BY <2>2, RaiseUp, ReadChoiceUp, DoneUp, PutResultUp
  <2>3. CASE CloseFifos(s) \/ SyncOpen(s) \/ SyncClose(s)
    BY <2>3, CloseFifosUp, SyncOpenUp, SyncCloseUp
  <2>4. CASE CleanUp(s)
    BY <2>4, ExitUp
  <2> QED  BY <1>2, <2>1, <2>2, <2>3, <2>4, NeverServer DEF ServerNext
<1> QED  BY <1>1, <1>2

-----------------------------------------------------------------------------
(* While there is no server. *)

LEMMA DownFacts ==
    ASSUME TypeInv, Down
    PROVE  /\ pidfile = 0 /\ cpc \in {"idle", "start", "forked", "quitting", "stopping"}
           /\ session = "up" <=> cpc \in {"start", "forked"}
           /\ waiting[Client] = 0
           /\ \A n \in Names : fd[Client][n] # 0 => cpc = "quitting" /\ n = "infifo"
           /\ cpc \in {"start", "forked"} => \A n \in Names : path[n] = 0
           /\ \A s \in Servers : spc[s] \in {"none", "init", "in", "out", "stop", "gone", "dead"}
           /\ cpc # "forked" => \A s \in Servers : spc[s] # "init"
           /\ cpc = "forked" =>
                 \E s \in Servers : /\ spc[s] = "init"
                                    /\ \A q \in Servers : q # s =>
                                           spc[q] \in {"none", "gone", "dead"}
BY DEF Down

LEMMA ClientDown ==
    ASSUME TypeInv, Down, ClientNext, overtaken' = FALSE
    PROVE  Down' /\ UNCHANGED <<made, answered, executed, refused>>
<1>1. /\ ~Refresh /\ ~Started /\ ~Ask /\ ~WriteCommand /\ ~OpenOutfifo /\ ~OpenFails /\ ~ReadType
      /\ ~Leave /\ ~ReadOptions /\ ~WriteChoice /\ ~WriteFails /\ ~ReadResult /\ ~CloseDialog
      /\ ~ClientSyncOpen /\ ~ClientSyncClose /\ ~StopServer /\ ~WriteQuit /\ ~AbortWithoutServer
  BY DownFacts DEF Refresh, Started, Ask, WriteCommand, OpenOutfifo, OpenFails, ReadType, Leave,
     ReadOptions, WriteChoice, WriteFails, ReadResult, CloseDialog, ClientSyncOpen,
     ClientSyncClose, StopServer, WriteQuit, AbortWithoutServer, Script
<1>2. CASE Begin
  <2>1. /\ cpc = "idle" /\ cpc' = "start" /\ session' = "up" /\ Unlink(Names)
        /\ ScriptOnly /\ UNCHANGED <<made, answered, refused>>
    BY <1>2 DEF Begin, Script
  <2>2. UNCHANGED <<pidfile, spc, executed>>
    BY <2>1 DEF ScriptOnly, server
  <2>3. UNCHANGED <<fd, waiting>> /\ \A n \in Names : path'[n] = 0
    BY <2>1 DEF Unlink
  <2> QED  BY <2>1, <2>2, <2>3, DownFacts DEF Down
<1>3. CASE StartServer
  <2>1. pidfile = 0
    BY DownFacts
  <2>2. /\ cpc = "start" /\ cpc' = "forked"
        /\ UNCHANGED <<pidfile, executed, session, made, answered, refused, fifoVars>>
        /\ ~\E q \in Servers : spc[q] \in {"in", "out", "stop"}
    BY <1>3, <2>1 DEF StartServer, Script
  <2>3. PICK s \in Servers : /\ \A t \in Servers : spc[t] = "none" <=> t >= s
                             /\ spc' = [spc EXCEPT ![s] = "init"]
    BY <1>3, <2>1 DEF StartServer
  <2>4. spc'[s] = "init" /\ \A q \in Servers : q # s => spc'[q] = spc[q]
    BY <2>3, ServerFacts
  <2>5. \A q \in Servers : q # s => spc'[q] \in {"none", "gone", "dead"}
    BY <2>2, <2>4, DownFacts
  <2>6. UNCHANGED <<path, fd, waiting>>
    BY <2>2 DEF fifoVars
  <2>7. \A q \in Servers : spc'[q] \in {"none", "init", "in", "out", "stop", "gone", "dead"}
    BY <2>4, <2>5
  <2>8. pidfile' = 0 /\ session' = "up" /\ waiting'[Client] = 0
        /\ \A n \in Names : fd'[Client][n] = 0 /\ path'[n] = 0
    BY <2>1, <2>2, <2>6, DownFacts
  <2> QED  BY <2>2, <2>4, <2>5, <2>7, <2>8 DEF Down
<1>4. CASE CloseQuit
  <2>1. /\ cpc = "quitting" /\ cpc' = "stopping" /\ Close(Client, {"infifo"})
        /\ ScriptOnly /\ UNCHANGED <<session, made, answered, refused>>
    BY <1>4 DEF CloseQuit, Script
  <2>2. UNCHANGED <<pidfile, spc, executed>>
    BY <2>1 DEF ScriptOnly, server
  <2>3. FifoType /\ Client \in Procs /\ {"infifo"} \in SUBSET Names
    BY Constants DEF TypeInv
  <2>4. waiting'[Client] = 0
        /\ \A n \in Names : fd'[Client][n] = IF n \in {"infifo"} THEN 0 ELSE fd[Client][n]
    BY <2>1, <2>3, CloseFds
  <2>5. \A n \in Names : fd'[Client][n] = 0
    BY <2>4, DownFacts
  <2> QED  BY <2>1, <2>2, <2>4, <2>5, DownFacts DEF Down
<1>5. CASE Stopped
  <2>1. /\ cpc = "stopping" /\ cpc' = "idle" /\ UNCHANGED fifoVars
        /\ ScriptOnly /\ UNCHANGED <<session, made, answered, refused>>
    BY <1>5 DEF Stopped, Script
  <2>2. UNCHANGED <<pidfile, spc, executed, fd, waiting>>
    BY <2>1 DEF ScriptOnly, server, fifoVars
  <2> QED  BY <2>1, <2>2, DownFacts DEF Down
<1> QED  BY <1>1, <1>2, <1>3, <1>4, <1>5 DEF ClientNext

\* The server that has been started makes the pipes, which are new.
LEMMA BootDown == ASSUME TypeInv, Down, NEW s \in Servers, Boot(s) PROVE Up(s)'
<1>1. /\ spc[s] = "init" /\ spc' = [spc EXCEPT ![s] = "loop"] /\ pidfile' = s /\ MakeFifos
      /\ ServerOnly /\ UNCHANGED <<ssync, cmd, opened, executed>>
  BY DEF Boot, Serve
<1>2. cpc = "forked" /\ session = "up" /\ \A n \in Names : path[n] = 0
  BY <1>1, DownFacts
<1>3. \A q \in Servers : q # s => spc[q] \in {"none", "gone", "dead"}
  BY <1>1, <1>2, DownFacts
<1>4. spc'[s] = "loop" /\ \A q \in Servers : q # s => spc'[q] = spc[q]
  BY <1>1, ServerFacts
<1>5. UNCHANGED <<cpc, csync, session, kind, made, answered>>
  BY <1>1 DEF ServerOnly, client
<1>6. /\ FifoType' /\ UNCHANGED <<fd, waiting>>
      /\ \A n \in Names : /\ path'[n] \in Len(inode) + 1 .. Len(inode')
                          /\ inode'[path'[n]].kind = "fifo" /\ inode'[path'[n]].buf = <<>>
                          /\ inode'[path'[n]].rd = {} /\ inode'[path'[n]].wr = {}
      /\ \A m, n \in Names : m # n => path'[m] # path'[n]
  <2>1. FifoType /\ made \in Nat /\ made' = made
    BY <1>5, TypeFacts DEF TypeInv
  <2>2. /\ FifoType' /\ UNCHANGED <<fd, waiting>>
        /\ \A n \in Names :
              IF path[n] # 0 THEN path'[n] = path[n]
              ELSE /\ path'[n] \in Len(inode) + 1 .. Len(inode')
                   /\ inode'[path'[n]].kind = "fifo" /\ inode'[path'[n]].buf = <<>>
                   /\ inode'[path'[n]].rd = {} /\ inode'[path'[n]].wr = {}
        /\ \A m, n \in Names : path[m] = 0 /\ path[n] = 0 /\ m # n => path'[m] # path'[n]
    BY <1>1, <2>1, MadeFifos
  <2> QED  BY <1>2, <2>2
<1>7. Len(inode) \in Nat /\ \A p \in Procs, m \in Names : fd[p][m] \in 0 .. Len(inode)
  BY InodeFacts, FdFacts DEF TypeInv
<1>8. /\ \A n \in Names : path'[n] # 0
      /\ \A p \in Procs, m, n \in Names : fd'[p][m] # path'[n]
  BY <1>6, <1>7
<1>9. Pipes'
  BY <1>6, <1>8 DEF Pipes
<1>10. \A n \in Names : Rd(n)' = {} /\ Wr(n)' = {} /\ Buf(n)' = <<>>
  BY <1>6 DEF Rd, Wr, Buf
<1>11. waiting[s] = 0 /\ \A n \in Names : fd[s][n] = 0 /\ fd[Client][n] = 0
  <2>1. waiting[s] = 0 /\ \A n \in Names : fd[s][n] = 0
    BY <1>1 DEF TypeInv, Holds
  <2> QED  BY <1>2, <2>1, DownFacts
<1>12. CShape' /\ SShape(s)'
  BY <1>2, <1>4, <1>5, <1>6, <1>11, Constants DEF CShape, SShape, InDialog
<1>13. Ends(s)'
  BY <1>6, <1>10, <1>11 DEF Ends
<1>14. Meet(s, 6)'
  <2>1. CBefore(6)'
    BY <1>2, <1>5, <1>6, <1>11, MeetingPipes, DownFacts DEF CBefore, CAt, PipeOf
  <2>2. SBefore(s, 6)'
    BY <1>4, <1>6, <1>11, MeetingPipes DEF SBefore, SAt, PipeOf
  <2> QED  BY <2>1, <2>2 DEF Meet, Coming
<1>15. InStep(s)'
  <2>1. Buf("infifo")' = <<>> /\ Buf("outfifo")' = <<>> /\ 6 \in 1 .. 6
    BY <1>10, Constants
  <2> QED  BY <1>2, <1>5, <1>14, <2>1 DEF InStep
<1>16. \A q \in Servers : q # s => spc'[q] \in {"none", "gone", "dead"} /\ Stale(q)'
  BY <1>3, <1>4, <1>8, Constants DEF Stale
<1>17. Buf("stopfifo")' = <<>>
  BY <1>10, Constants
<1> QED  BY <1>1, <1>2, <1>5, <1>9, <1>12, <1>13, <1>15, <1>16, <1>17 DEF Up

LEMMA CleanUpDown == ASSUME TypeInv, Down, NEW s \in Servers, CleanUp(s) PROVE Down'
<1>1. /\ ServerOnly /\ UNCHANGED pidfile
      /\ spc[s] \in {"in", "out", "stop", "gone"}
      /\ \E S \in SUBSET Names : Unlink(S) \/ Close(s, S)
      /\ \E to \in {"out", "stop", "gone", "dead"} : spc' = [spc EXCEPT ![s] = to]
      /\ spc[s] = "gone" => spc' = [spc EXCEPT ![s] = "dead"]
  <2>1. spc[s] # "exit"
    BY DownFacts
  <2>2. \A n \in {"infifo", "outfifo", "stopfifo"} : {n} \in SUBSET Names
    BY Constants
  <2> QED  BY <2>1, <2>2 DEF CleanUp, Serve
<1>2. UNCHANGED <<cpc, session>>
  BY <1>1 DEF ServerOnly, client
<1>3. /\ fd'[Client] = fd[Client] /\ waiting'[Client] = waiting[Client]
      /\ \A n \in Names : path[n] = 0 => path'[n] = 0
  <2>1. PICK S \in SUBSET Names : Unlink(S) \/ Close(s, S)
    BY <1>1
  <2>2. CASE Unlink(S)
    BY <2>2 DEF Unlink
  <2>3. CASE Close(s, S)
    <3>1. FifoType /\ s \in Procs /\ Client \in Procs /\ Client # s
      BY Constants DEF TypeInv
    <3> QED  BY <2>3, <3>1, CloseFds
  <2> QED  BY <2>1, <2>2, <2>3
<1>4. /\ spc'[s] \in {"out", "stop", "gone", "dead"} /\ (spc[s] = "gone" => spc'[s] = "dead")
      /\ \A q \in Servers : q # s => spc'[q] = spc[q]
  BY <1>1, ServerFacts
<1>5. \A q \in Servers : spc'[q] \in {"none", "init", "in", "out", "stop", "gone", "dead"}
  BY <1>4, DownFacts
<1>6. CASE cpc = "forked"
  <2>1. PICK q \in Servers : /\ spc[q] = "init"
                             /\ \A t \in Servers : t # q => spc[t] \in {"none", "gone", "dead"}
    BY <1>6, DownFacts
  <2>2. q # s /\ spc[s] = "gone"
    BY <1>1, <2>1
  <2>3. spc'[q] = "init" /\ \A t \in Servers : t # q => spc'[t] \in {"none", "gone", "dead"}
    BY <1>4, <2>1, <2>2
  <2> QED  BY <1>1, <1>2, <1>3, <1>5, <1>6, <2>3, DownFacts DEF Down
<1>7. CASE cpc # "forked"
  <2>1. \A q \in Servers : spc'[q] # "init"
    BY <1>4, <1>7, DownFacts
  <2> QED  BY <1>1, <1>2, <1>3, <1>5, <1>7, <2>1, DownFacts DEF Down
<1> QED  BY <1>6, <1>7

LEMMA ServersDown ==
    ASSUME TypeInv, Down, NEW s \in Servers, ServerNext(s)
    PROVE  Down' \/ Up(s)'
<1>1. Boot(s) \/ CleanUp(s)
  BY DownFacts
  DEF ServerNext, OpenIn, ReadCommand, OpenOut, Raise, PutOptions, ReadChoice, Done, PutResult,
      BrokenPipe, CloseFifos, SyncOpen, SyncClose, Serve
<1> QED  BY <1>1, BootDown, CleanUpDown

-----------------------------------------------------------------------------
(* What becomes of a server left with an exception. *)

Ending == {"exit", "in", "out", "stop", "gone", "dead"}

\* What another process does to a pipe that a server reads.
LEMMA PipeRemains ==
    ASSUME TypeInv, NEW i \in 1 .. Len(inode), NEW r \in inode[i].rd, inode[i].kind = "fifo",
           NEW p \in Procs, p # r,
           \/ \E n \in Names, mode \in {"r", "w"} : Open(p, n, mode)
           \/ \E S \in SUBSET Names : Close(p, S)
           \/ \E S \in SUBSET Names : Unlink(S)
           \/ UNCHANGED fifoVars
    PROVE  /\ r \in inode'[i].rd /\ inode'[i].kind = "fifo" /\ inode'[i].buf = inode[i].buf
           /\ \A n \in Names : path'[n] = i => path[n] = i
           /\ \A q \in Procs, n \in Names : fd'[q][n] = i => fd[q][n] = i \/ (q = p /\ path[n] = i)
           /\ \A q \in Procs : q # p => fd'[q] = fd[q]
<1>1. FifoType /\ Len(inode) \in Nat /\ i # 0 /\ i # Len(inode) + 1
  BY InodeFacts DEF TypeInv
<1>2. ASSUME NEW n \in Names, NEW mode \in {"r", "w"}, Open(p, n, mode)
      PROVE  /\ r \in inode'[i].rd /\ inode'[i].kind = "fifo" /\ inode'[i].buf = inode[i].buf
             /\ path'[n] = i => path[n] = i
             /\ \A m \in Names : m # n => path'[m] = path[m]
             /\ fd'[p][n] = path'[n] /\ \A m \in Names : m # n => fd'[p][m] = fd[p][m]
             /\ \A q \in Procs : q # p => fd'[q] = fd[q]
  <2>1. /\ path[n] # 0 => path'[n] = path[n]
        /\ path[n] = 0 => path'[n] = Len(inode) + 1
        /\ \A m \in Names : m # n => path'[m] = path[m]
        /\ fd'[p][n] = path'[n] /\ \A m \in Names : m # n => fd'[p][m] = fd[p][m]
        /\ \A q \in Procs : q # p => fd'[q] = fd[q]
    BY <1>1, <1>2, OpenFd
  <2>2. r \in inode'[i].rd /\ inode'[i].kind = "fifo" /\ inode'[i].buf = inode[i].buf
    <3>1. CASE path[n] = 0
      BY <1>1, <1>2, <3>1, OpenNew
    <3>2. CASE path[n] # 0 /\ path[n] # i
      BY <1>1, <1>2, <3>2, OpenThere
    <3>3. CASE path[n] = i
      <4>1. /\ inode'[i].kind = "fifo" /\ inode'[i].buf = inode[i].buf
        BY <1>1, <1>2, <3>3, OpenThere
      <4>2. inode'[path[n]].rd =
                IF mode = "r" THEN inode[path[n]].rd \cup {p} ELSE inode[path[n]].rd
        BY <1>1, <1>2, <3>3, OpenThere
      <4>3. r \in inode'[i].rd
        <5>1. CASE mode = "r"
          <6>1. inode'[path[n]].rd = inode[path[n]].rd \cup {p}
            BY <4>2, <5>1
          <6> QED  BY <3>3, <6>1
        <5>2. CASE mode # "r"
          <6>1. inode'[path[n]].rd = inode[path[n]].rd
            BY <4>2, <5>2
          <6> QED  BY <3>3, <6>1
        <5> QED  BY <5>1, <5>2
      <4> QED  BY <4>1, <4>3
    <3> QED  BY <3>1, <3>2, <3>3
  <2> QED  BY <1>1, <2>1, <2>2
<1>3. CASE \E n \in Names, mode \in {"r", "w"} : Open(p, n, mode)
  <2>1. PICK n \in Names, mode \in {"r", "w"} : Open(p, n, mode)
    BY <1>3
  <2>2. /\ r \in inode'[i].rd /\ inode'[i].kind = "fifo" /\ inode'[i].buf = inode[i].buf
        /\ path'[n] = i => path[n] = i
        /\ \A m \in Names : m # n => path'[m] = path[m]
        /\ fd'[p][n] = path'[n] /\ \A m \in Names : m # n => fd'[p][m] = fd[p][m]
        /\ \A q \in Procs : q # p => fd'[q] = fd[q]
    BY <1>2, <2>1
  <2> QED  BY <2>2
<1>4. CASE \E S \in SUBSET Names : Close(p, S)
  <2>1. PICK S \in SUBSET Names : Close(p, S)
    BY <1>4
  <2>2. /\ path' = path
        /\ \A m \in Names : fd'[p][m] = IF m \in S THEN 0 ELSE fd[p][m]
        /\ \A q \in Procs : q # p => fd'[q] = fd[q]
    BY <1>1, <2>1, CloseFds
  <2>3. r \in inode'[i].rd /\ inode'[i].kind = "fifo" /\ inode'[i].buf = inode[i].buf
    <3>1. CASE \E n \in S : fd[p][n] = i
      <4>1. /\ inode'[i].kind = inode[i].kind /\ inode'[i].rd = inode[i].rd \ {p}
            /\ inode'[i].buf =
                   IF inode[i].kind = "fifo" /\ inode[i].rd \cup inode[i].wr \subseteq {p}
                    THEN <<>> ELSE inode[i].buf
        BY <1>1, <2>1, <3>1, CloseInodes
      <4>2. ~(inode[i].rd \cup inode[i].wr \subseteq {p})
        OBVIOUS
      <4> QED  BY <4>1, <4>2
    <3>2. CASE ~\E n \in S : fd[p][n] = i
      BY <1>1, <2>1, <3>2, CloseInodes
    <3> QED  BY <3>1, <3>2
  <2> QED  BY <1>1, <2>2, <2>3
<1>5. CASE \E S \in SUBSET Names : Unlink(S)
  BY <1>1, <1>5 DEF Unlink
<1>6. CASE UNCHANGED fifoVars
  BY <1>6 DEF fifoVars
<1> QED  BY <1>3, <1>4, <1>5, <1>6

\* What is needed of a step that leaves the server where it is.
LEMMA AbandonedStays ==
    ASSUME TypeInv, NEW r \in Servers, Abandoned(r), pidfile' = pidfile, fd'[r] = fd[r],
           \A q \in Servers : q # r => spc'[q] \in {spc[q], "dead"},
           r \in inode'[fd[r]["infifo"]].rd, inode'[fd[r]["infifo"]].kind = "fifo",
           \A n \in Names \ {"infifo"} :
               /\ path'[n] # fd[r]["infifo"]
               /\ \A p \in Procs : fd'[p][n] # fd[r]["infifo"],
           inode'[fd[r]["infifo"]].buf = <<>> =>
               (fd'[Client]["infifo"] = fd[r]["infifo"] =>
                    cpc' \notin {"answer", "type", "options", "choice"}),
           inode'[fd[r]["infifo"]].buf # <<>> =>
               Head(inode'[fd[r]["infifo"]].buf).what # "choice"
    PROVE  Abandoned(r)'
BY DEF Abandoned

LEMMA AbandonedFacts ==
    ASSUME TypeInv, NEW r \in Servers, Abandoned(r)
    PROVE  /\ pidfile = r /\ r # 0
           /\ \A q \in Servers : q # r => spc[q] \in {"none", "gone", "dead"}
           /\ fd[r]["infifo"] \in 1 .. Len(inode) /\ fd[r]["infifo"] # 0
           /\ r \in inode[fd[r]["infifo"]].rd /\ inode[fd[r]["infifo"]].kind = "fifo"
           /\ inode[fd[r]["infifo"]].buf \in Seq(Lines(made))
           /\ \A n \in Names \ {"infifo"} :
                 path[n] # fd[r]["infifo"] /\ \A p \in Procs : fd[p][n] # fd[r]["infifo"]
           /\ inode[fd[r]["infifo"]].buf = <<>> =>
                 (fd[Client]["infifo"] = fd[r]["infifo"] =>
                      cpc \notin {"answer", "type", "options", "choice"})
           /\ inode[fd[r]["infifo"]].buf # <<>> =>
                 Head(inode[fd[r]["infifo"]].buf).what # "choice"
           /\ FifoType /\ r \in Procs /\ Client \in Procs /\ r # Client /\ "infifo" \in Names
<1>1. FifoType /\ r \in Procs /\ Client \in Procs /\ r # Client /\ "infifo" \in Names /\ r # 0
  BY Constants DEF TypeInv
<1>2. fd[r]["infifo"] \in 0 .. Len(inode) /\ Len(inode) \in Nat
  BY <1>1, FdFacts, InodeFacts
<1>3. fd[r]["infifo"] # 0
  BY DEF Abandoned
<1>4. fd[r]["infifo"] \in 1 .. Len(inode)
  BY <1>2, <1>3
<1>5. inode[fd[r]["infifo"]].buf \in Seq(Lines(made))
  BY <1>1, <1>4, InodeFacts
<1> QED  BY <1>1, <1>3, <1>4, <1>5 DEF Abandoned

\* A step of the script in which no line is written or read.
LEMMA ScriptNear ==
    ASSUME TypeInv, NEW r \in Servers, Abandoned(r), ScriptOnly,
           \/ \E n \in Names, mode \in {"r", "w"} : Open(Client, n, mode)
           \/ \E S \in SUBSET Names : Close(Client, S)
           \/ \E S \in SUBSET Names : Unlink(S)
           \/ UNCHANGED fifoVars,
           cpc' \notin {"answer", "type", "options", "choice"}
    PROVE  Abandoned(r)'
<1>1. PICK i \in 1 .. Len(inode) : /\ i = fd[r]["infifo"] /\ r \in inode[i].rd
                                   /\ inode[i].kind = "fifo"
  BY AbandonedFacts
<1>2. /\ r \in inode'[i].rd /\ inode'[i].kind = "fifo" /\ inode'[i].buf = inode[i].buf
      /\ \A n \in Names : path'[n] = i => path[n] = i
      /\ \A q \in Procs, n \in Names : fd'[q][n] = i => fd[q][n] = i \/ (q = Client /\ path[n] = i)
      /\ \A q \in Procs : q # Client => fd'[q] = fd[q]
  BY <1>1, AbandonedFacts, PipeRemains
<1>3. UNCHANGED <<pidfile, spc>> /\ fd'[r] = fd[r]
  BY <1>2, AbandonedFacts DEF ScriptOnly, server
<1>4. \A n \in Names \ {"infifo"} : path'[n] # i /\ \A p \in Procs : fd'[p][n] # i
  BY <1>1, <1>2, AbandonedFacts
<1> QED  BY <1>1, <1>2, <1>3, <1>4, AbandonedFacts, AbandonedStays

\* Writing: what it writes first is a command, or QUIT.
LEMMA ScriptWrites ==
    ASSUME TypeInv, NEW r \in Servers, Abandoned(r), WriteCommand \/ WriteChoice \/ WriteQuit
    PROVE  Abandoned(r)'
<1>1. /\ ScriptOnly /\ UNCHANGED <<made, kind>>
      /\ \/ cpc = "command" /\ made # 0 /\ Put(Client, "infifo", Line("cmd", made))
         \/ cpc = "quit" /\ Put(Client, "infifo", Line("QUIT", 0))
         \/ cpc = "choice" /\ Put(Client, "infifo", Line("choice", made))
  BY TypeFacts DEF WriteCommand, WriteChoice, WriteQuit, Script
<1>2. PICK line \in Lines(made) : Put(Client, "infifo", line)
                                  /\ (cpc # "choice" => line.what # "choice")
  <2>1. made \in 0 .. made /\ 0 \in 0 .. made
    BY TypeFacts
  <2>2. Line("cmd", made).what # "choice" /\ Line("QUIT", 0).what # "choice"
    BY DEF Line
  <2> QED  BY <1>1, <2>1, <2>2, CommandLine
<1>3. PICK i \in 1 .. Len(inode) : /\ i = fd[r]["infifo"] /\ r \in inode[i].rd
                                   /\ inode[i].kind = "fifo"
  BY AbandonedFacts
<1>4. fd[Client]["infifo"] # 0 /\ made \in Nat /\ made' = made
  BY <1>1, TypeFacts DEF TypeInv, Holds
<1>5. /\ UNCHANGED <<path, fd, waiting>>
      /\ i # fd[Client]["infifo"] => inode'[i] = inode[i]
      /\ inode'[i].kind = inode[i].kind /\ inode'[i].rd = inode[i].rd
      /\ i = fd[Client]["infifo"] => inode'[i].buf = Append(inode[i].buf, line)
  <2>1. /\ UNCHANGED <<path, fd, waiting>>
        /\ \A j \in 1 .. Len(inode) :
              /\ j # fd[Client]["infifo"] => inode'[j] = inode[j]
              /\ inode'[j].kind = inode[j].kind /\ inode'[j].rd = inode[j].rd
        /\ inode'[fd[Client]["infifo"]].buf =
              IF inode[fd[Client]["infifo"]].kind = "file"
                 /\ Len(inode[fd[Client]["infifo"]].buf) >= FileLines
              THEN inode[fd[Client]["infifo"]].buf
              ELSE Append(inode[fd[Client]["infifo"]].buf, line)
    BY <1>2, <1>4, AbandonedFacts, PutNode
  <2> QED  BY <1>3, <2>1
<1>6. UNCHANGED <<pidfile, spc>>
  BY <1>1 DEF ScriptOnly, server
<1>7. CASE i # fd[Client]["infifo"]
  <2>1. inode'[i] = inode[i] /\ fd'[Client]["infifo"] # i
    BY <1>5, <1>7
  <2> QED  BY <1>3, <1>5, <1>6, <2>1, AbandonedFacts, AbandonedStays
<1>8. CASE i = fd[Client]["infifo"]
  <2>1. inode[i].buf \in Seq(Lines(made)) /\ inode'[i].buf = Append(inode[i].buf, line)
    BY <1>3, <1>5, <1>8, AbandonedFacts
  <2>2. inode'[i].buf # <<>>
        /\ Head(inode'[i].buf) = IF inode[i].buf = <<>> THEN line ELSE Head(inode[i].buf)
    <3>1. CASE inode[i].buf = <<>>
      <4>1. Append(<<>>, line) = <<line>> /\ Head(<<line>>) = line /\ <<line>> # <<>>
        OBVIOUS
      <4> QED  BY <2>1, <3>1, <4>1
    <3>2. CASE inode[i].buf # <<>>
      <4>1. PICK b \in Seq(Lines(made)) : b = inode[i].buf /\ b # <<>>
        BY <2>1, <3>2
      <4>2. Append(b, line) # <<>> /\ Head(Append(b, line)) = Head(b)
        BY <4>1
      <4> QED  BY <2>1, <3>2, <4>1, <4>2
    <3> QED  BY <3>1, <3>2
  <2>3. inode[i].buf = <<>> => line.what # "choice"
    BY <1>2, <1>3, <1>8, AbandonedFacts
  <2>4. Head(inode'[i].buf).what # "choice"
    BY <1>3, <2>2, <2>3, AbandonedFacts
  <2> QED  BY <1>3, <1>5, <1>6, <2>2, <2>4, AbandonedFacts, AbandonedStays
<1> QED  BY <1>7, <1>8

\* Reading: outfifo is another pipe.
LEMMA ScriptReads ==
    ASSUME TypeInv, NEW r \in Servers, Abandoned(r), ReadType \/ ReadOptions \/ ReadResult
    PROVE  Abandoned(r)'
<1>1. /\ ScriptOnly /\ made' = made
      /\ (Readable(Client, "outfifo") /\ Take(Client, "outfifo")) \/ UNCHANGED fifoVars
      /\ cpc \in {"type", "options", "result"} /\ (cpc = "result" => cpc' = "close")
  BY DEF ReadType, ReadOptions, ReadResult, Script
<1>2. PICK i \in 1 .. Len(inode) : /\ i = fd[r]["infifo"] /\ r \in inode[i].rd
                                   /\ inode[i].kind = "fifo"
  BY AbandonedFacts
<1>3. fd[Client]["outfifo"] # 0 /\ fd[Client]["outfifo"] # i /\ made \in Nat /\ "outfifo" \in Names
  <2>1. fd[Client]["outfifo"] # 0 /\ made \in Nat /\ "outfifo" \in Names
    BY <1>1, TypeFacts, Constants DEF TypeInv, Holds
  <2> QED  BY <1>2, <2>1, AbandonedFacts
<1>4. UNCHANGED <<path, fd>> /\ inode'[i] = inode[i]
  <2>1. CASE Readable(Client, "outfifo") /\ Take(Client, "outfifo")
    BY <1>1, <1>3, <2>1, AbandonedFacts, TakeNode
  <2>2. CASE UNCHANGED fifoVars
    BY <2>2 DEF fifoVars
  <2> QED  BY <1>1, <2>1, <2>2
<1>5. UNCHANGED <<pidfile, spc>>
  BY <1>1 DEF ScriptOnly, server
<1>6. inode'[i].buf = <<>> /\ fd'[Client]["infifo"] = i =>
          cpc' \notin {"answer", "type", "options", "choice"}
  BY <1>1, <1>2, <1>4, AbandonedFacts
<1> QED  BY <1>2, <1>4, <1>5, <1>6, AbandonedFacts, AbandonedStays

LEMMA OpenOutfifoNear ==
    ASSUME TypeInv, NEW r \in Servers, Abandoned(r), OpenOutfifo PROVE Abandoned(r)'
<1>1. ScriptOnly /\ Open(Client, "outfifo", "r") /\ cpc = "answer" /\ "outfifo" \in Names
  BY Constants DEF OpenOutfifo, Script
<1>2. PICK i \in 1 .. Len(inode) : /\ i = fd[r]["infifo"] /\ r \in inode[i].rd
                                   /\ inode[i].kind = "fifo"
  BY AbandonedFacts
<1>3. /\ r \in inode'[i].rd /\ inode'[i].kind = "fifo" /\ inode'[i].buf = inode[i].buf
      /\ \A n \in Names : path'[n] = i => path[n] = i
      /\ \A q \in Procs, n \in Names : fd'[q][n] = i => fd[q][n] = i \/ (q = Client /\ path[n] = i)
      /\ \A q \in Procs : q # Client => fd'[q] = fd[q]
  <2>1. \E n \in Names, mode \in {"r", "w"} : Open(Client, n, mode)
    BY <1>1
  <2> QED  BY <1>2, <2>1, AbandonedFacts, PipeRemains
<1>4. fd'[Client]["infifo"] = fd[Client]["infifo"]
  BY <1>1, AbandonedFacts, OpenFd
<1>5. UNCHANGED <<pidfile, spc>> /\ fd'[r] = fd[r]
  BY <1>1, <1>3, AbandonedFacts DEF ScriptOnly, server
<1>6. \A n \in Names \ {"infifo"} : path'[n] # i /\ \A p \in Procs : fd'[p][n] # i
  BY <1>2, <1>3, AbandonedFacts
<1>7. inode'[i].buf = <<>> => fd'[Client]["infifo"] # i
  BY <1>1, <1>2, <1>3, <1>4, AbandonedFacts
<1> QED  BY <1>2, <1>3, <1>5, <1>6, <1>7, AbandonedFacts, AbandonedStays

\* Whatever a script does to a server left with an exception, it does not answer it.
LEMMA ClientNear ==
    ASSUME TypeInv, NEW r \in Servers, Abandoned(r), ClientNext PROVE Abandoned(r)'
<1>1. pidfile # 0 /\ "infifo" \in Names /\ "outfifo" \in Names
  BY AbandonedFacts, Constants
<1>2. CASE Refresh \/ StartServer \/ Started \/ Stopped \/ AbortWithoutServer
  <2>1. ScriptOnly /\ UNCHANGED fifoVars /\ cpc' \in {"start", "idle", "open"}
    BY <1>1, <1>2 DEF Refresh, StartServer, Started, Stopped, AbortWithoutServer, Script, ScriptOnly
  <2> QED  BY <2>1, ScriptNear
<1>3. CASE Begin
  <2>1. ScriptOnly /\ Unlink(Names) /\ cpc' = "start"
    BY <1>3 DEF Begin, Script
  <2> QED  BY <2>1, ScriptNear
<1>4. CASE Ask \/ StopServer
  <2>1. ScriptOnly /\ Open(Client, "infifo", "w") /\ cpc' \in {"command", "quit"}
    BY <1>4 DEF Ask, StopServer, Script
  <2> QED  BY <1>1, <2>1, ScriptNear
<1>5. CASE ClientSyncOpen
  <2>1. /\ ScriptOnly /\ Open(Client, ClientSync[csync][1], ClientSync[csync][2])
        /\ cpc = "sync" /\ cpc' = cpc
    BY <1>5 DEF ClientSyncOpen, client
  <2>2. csync \in 1 .. 5
    <3>1. csync \in 0 .. 5 /\ csync # 0
      BY <2>1, TypeFacts
    <3> QED  BY <3>1
  <2>3. ClientSync[csync][1] \in Names /\ ClientSync[csync][2] \in {"r", "w"}
    BY <2>2, SyncPipes
  <2> QED  BY <2>1, <2>3, ScriptNear
<1>6. CASE OpenFails \/ Leave \/ WriteFails
  <2>1. ScriptOnly /\ Close(Client, Names) /\ cpc' = "idle"
    BY <1>6 DEF OpenFails, Leave, WriteFails, Abandon
  <2> QED  BY <2>1, ScriptNear
<1>7. CASE CloseDialog \/ CloseQuit
  <2>1. /\ ScriptOnly /\ cpc' \in {"sync", "stopping"}
        /\ Close(Client, {"infifo", "outfifo"}) \/ Close(Client, {"infifo"})
    BY <1>7 DEF CloseDialog, CloseQuit, Script
  <2>2. \E S \in SUBSET Names : Close(Client, S)
    <3>1. {"infifo", "outfifo"} \in SUBSET Names /\ {"infifo"} \in SUBSET Names
      BY <1>1
    <3> QED  BY <2>1, <3>1
  <2> QED  BY <2>1, <2>2, ScriptNear
<1>8. CASE ClientSyncClose
  <2>1. /\ ScriptOnly /\ Close(Client, {ClientSync[csync][1]})
        /\ cpc = "sync" /\ cpc' \in {"idle", "sync"}
    BY <1>8 DEF ClientSyncClose
  <2>2. csync \in 1 .. 5
    <3>1. csync \in 0 .. 5 /\ csync # 0
      BY <2>1, TypeFacts
    <3> QED  BY <3>1
  <2>3. {ClientSync[csync][1]} \in SUBSET Names
    BY <2>2, SyncPipes
  <2> QED  BY <2>1, <2>3, ScriptNear
<1> QED  BY <1>2, <1>3, <1>4, <1>5, <1>6, <1>7, <1>8, ScriptWrites, ScriptReads, OpenOutfifoNear
         DEF ClientNext

\* An ending server goes on to its end.
LEMMA EndingStays ==
    ASSUME TypeInv, NEW r \in Servers, spc[r] \in Ending, Next
    PROVE  spc'[r] \in Ending
<1>1. CASE ClientNext
  <2>1. CASE StartServer
    <3>1. UNCHANGED spc \/ \E s \in Servers : /\ spc[s] = "none"
                                              /\ spc' = [spc EXCEPT ![s] = "init"]
      <4>1. UNCHANGED spc \/ \E s \in Servers : /\ \A t \in Servers : spc[t] = "none" <=> t >= s
                                                /\ spc' = [spc EXCEPT ![s] = "init"]
        BY <2>1 DEF StartServer, server
      <4>2. \A s \in Servers : s >= s
        BY Constants
      <4> QED  BY <4>1, <4>2
    <3>2. CASE UNCHANGED spc
      BY <3>2
    <3>3. CASE \E s \in Servers : spc[s] = "none" /\ spc' = [spc EXCEPT ![s] = "init"]
      <4>1. PICK s \in Servers : spc[s] = "none" /\ spc' = [spc EXCEPT ![s] = "init"]
        BY <3>3
      <4>2. s # r
        BY <4>1 DEF Ending
      <4> QED  BY <4>1, <4>2, ServerFacts
    <3> QED  BY <3>1, <3>2, <3>3
  <2>2. CASE ~StartServer
    <3>1. ScriptOnly
      BY <1>1, <2>2 DEF ClientNext, Begin, Refresh, Started, Ask, WriteCommand, OpenOutfifo,
         OpenFails, ReadType, Leave, ReadOptions, WriteChoice, WriteFails, ReadResult, CloseDialog,
         ClientSyncOpen, ClientSyncClose, StopServer, WriteQuit, CloseQuit, Stopped,
         AbortWithoutServer, Abandon
    <3> QED  BY <3>1 DEF ScriptOnly, server
  <2> QED  BY <2>1, <2>2
<1>2. CASE \E s \in Servers : ServerNext(s)
  <2>1. PICK s \in Servers : ServerNext(s)
    BY <1>2
  <2>2. CASE s # r
    <3>1. spc' = spc \/ \E to : spc' = [spc EXCEPT ![s] = to]
      BY <2>1 DEF ServerNext, Boot, OpenIn, ReadCommand, OpenOut, Raise, PutOptions, ReadChoice,
         Done, PutResult, BrokenPipe, CloseFifos, SyncOpen, SyncClose, CleanUp, Serve, Exit,
         Killed, server
    <3> QED  BY <2>2, <3>1, ServerFacts
  <2>3. CASE s = r
    <3>1. CleanUp(r)
      BY <2>1, <2>3 DEF Ending, ServerNext, Boot, OpenIn, ReadCommand, OpenOut, Raise, PutOptions,
         ReadChoice, Done, PutResult, BrokenPipe, CloseFifos, SyncOpen, SyncClose, Serve
    <3>2. \E to \in Ending : spc' = [spc EXCEPT ![r] = to]
      BY <3>1 DEF CleanUp, Serve, Ending
    <3> QED  BY <3>2, ServerFacts
  <2> QED  BY <2>1, <2>2, <2>3
<1> QED  BY <1>1, <1>2 DEF Next

\* One that waits for an answer gets to the end without one.
LEMMA ServersNear ==
    ASSUME TypeInv, NEW r \in Servers, Abandoned(r), spc[r] \in {"raised", "wait"},
           NEW s \in Servers, ServerNext(s)
    PROVE  spc'[r] \in Ending \/ (spc'[r] \in {"raised", "wait"} /\ Abandoned(r)')
<1>1. PICK i \in 1 .. Len(inode) : /\ i = fd[r]["infifo"] /\ r \in inode[i].rd
                                   /\ inode[i].kind = "fifo"
  BY AbandonedFacts
<1>2. CASE s # r
  <2>1. spc[s] \in {"none", "gone", "dead"}
    BY <1>2, AbandonedFacts
  <2>2. /\ Close(s, Names) /\ spc' = [spc EXCEPT ![s] = "dead"] /\ UNCHANGED pidfile /\ ServerOnly
    BY <2>1 DEF ServerNext, Boot, OpenIn, ReadCommand, OpenOut, Raise, PutOptions, ReadChoice, Done,
                PutResult, BrokenPipe, CloseFifos, SyncOpen, SyncClose, CleanUp, Serve
  <2>3. s \in Procs /\ s # Client /\ cpc' = cpc /\ spc'[r] = spc[r]
        /\ \A q \in Servers : q # r => spc'[q] \in {spc[q], "dead"}
    BY <1>2, <2>2, Constants, ServerFacts DEF ServerOnly, client
  <2>4. /\ r \in inode'[i].rd /\ inode'[i].kind = "fifo" /\ inode'[i].buf = inode[i].buf
        /\ \A n \in Names : path'[n] = i => path[n] = i
        /\ \A q \in Procs, n \in Names : fd'[q][n] = i => fd[q][n] = i \/ (q = s /\ path[n] = i)
        /\ \A q \in Procs : q # s => fd'[q] = fd[q]
    <3>1. \E S \in SUBSET Names : Close(s, S)
      BY <2>2
    <3>2. PICK p \in Procs : p = s
      BY <2>3
    <3>3. p # r /\ \E S \in SUBSET Names : Close(p, S)
      BY <1>2, <3>1, <3>2
    <3>4. /\ r \in inode'[i].rd /\ inode'[i].kind = "fifo" /\ inode'[i].buf = inode[i].buf
          /\ \A n \in Names : path'[n] = i => path[n] = i
          /\ \A q \in Procs, n \in Names :
                 fd'[q][n] = i => fd[q][n] = i \/ (q = p /\ path[n] = i)
          /\ \A q \in Procs : q # p => fd'[q] = fd[q]
      BY <1>1, <3>3, PipeRemains
    <3> QED  BY <3>2, <3>4
  <2>5. \A n \in Names \ {"infifo"} : path'[n] # i /\ \A p \in Procs : fd'[p][n] # i
    BY <1>1, <2>4, AbandonedFacts
  <2>6. fd'[r] = fd[r] /\ fd'[Client] = fd[Client]
    BY <1>2, <2>3, <2>4, AbandonedFacts
  <2>7. Abandoned(r)'
    <3>1. /\ inode'[i].buf = <<>> =>
                 (fd'[Client]["infifo"] = i => cpc' \notin {"answer", "type", "options", "choice"})
          /\ inode'[i].buf # <<>> => Head(inode'[i].buf).what # "choice"
      BY <1>1, <2>3, <2>4, <2>6, AbandonedFacts
    <3>2. \A q \in Servers : q # r => spc'[q] \in {spc[q], "dead"}
      BY <2>3
    <3>3. pidfile' = pidfile
      BY <2>2
    <3> QED  BY <1>1, <2>4, <2>5, <2>6, <3>1, <3>2, <3>3, AbandonedStays
  <2> QED  BY <2>3, <2>7
<1>3. CASE s = r /\ spc[r] = "raised"
  <2>1. PutOptions(r) \/ BrokenPipe(r)
    BY <1>3 DEF ServerNext, Boot, OpenIn, ReadCommand, OpenOut, Raise, ReadChoice, Done,
                PutResult, CloseFifos, SyncOpen, SyncClose, CleanUp, Serve
  <2>2. CASE BrokenPipe(r)
    BY <2>2, ServerFacts DEF BrokenPipe, Killed, Ending
  <2>3. CASE PutOptions(r)
    <3>1. /\ spc' = [spc EXCEPT ![r] = "wait"] /\ Put(r, "outfifo", Line("options", cmd[r].call))
          /\ UNCHANGED pidfile /\ ServerOnly
      BY <2>3 DEF PutOptions, Serve
    <3>2. spc'[r] = "wait" /\ \A q \in Servers : q # r => spc'[q] = spc[q]
      BY <3>1, ServerFacts
    <3>3. /\ fd[r]["outfifo"] # 0 /\ fd[r]["outfifo"] # i /\ cmd[r].call \in 0 .. made
          /\ "outfifo" \in Names /\ made \in Nat /\ made' = made /\ cpc' = cpc
      <4>1. fd[r]["outfifo"] # 0 /\ cmd[r].call \in 0 .. made
        BY <1>3, InDialogFacts
      <4>2. "outfifo" \in Names /\ made \in Nat /\ made' = made /\ cpc' = cpc
        BY <3>1, TypeFacts, Constants DEF ServerOnly, client
      <4> QED  BY <1>1, <4>1, <4>2, AbandonedFacts
    <3>4. PICK line \in Lines(made) : Put(r, "outfifo", line)
      BY <3>1, <3>3, CommandLine
    <3>5. UNCHANGED <<path, fd>> /\ inode'[i] = inode[i]
      BY <1>1, <3>3, <3>4, AbandonedFacts, PutNode
    <3>6. /\ inode[i].buf = <<>> =>
                 (fd[Client]["infifo"] = i => cpc \notin {"answer", "type", "options", "choice"})
          /\ inode[i].buf # <<>> => Head(inode[i].buf).what # "choice"
          /\ \A n \in Names \ {"infifo"} : path[n] # i /\ \A p \in Procs : fd[p][n] # i
      BY <1>1, AbandonedFacts
    <3>7. pidfile' = pidfile /\ \A q \in Servers : q # r => spc'[q] \in {spc[q], "dead"}
      BY <3>1, <3>2
    <3>8. Abandoned(r)'
      BY <1>1, <3>3, <3>5, <3>6, <3>7, AbandonedStays
    <3> QED  BY <3>2, <3>8
  <2> QED  BY <2>1, <2>2, <2>3
<1>4. CASE s = r /\ spc[r] = "wait"
  <2>1. ReadChoice(r)
    BY <1>4 DEF ServerNext, Boot, OpenIn, ReadCommand, OpenOut, Raise, PutOptions, Done,
                PutResult, BrokenPipe, CloseFifos, SyncOpen, SyncClose, CleanUp, Serve
  <2>2. Readable(r, "infifo") => Head(At(r, "infifo").buf).what # "choice"
    <3>1. inode[i].buf # <<>> => Head(inode[i].buf).what # "choice"
      BY <1>1, AbandonedFacts
    <3> QED  BY <1>1, <3>1 DEF Readable, At
  <2>3. spc' = [spc EXCEPT ![r] = "exit"]
    BY <2>1, <2>2 DEF ReadChoice, Exit
  <2> QED  BY <2>3, ServerFacts DEF Ending
<1> QED  BY <1>2, <1>3, <1>4

-----------------------------------------------------------------------------
(* All together. *)

LEMMA RefusedStays ==
    ASSUME IInv, Next
    PROVE  RefusedInv' /\ (refused # 0 => refused' = refused)
<1>1. TypeInv /\ Clean /\ RefusedInv
  BY DEF IInv, TypeInv
<1>2. refused' = refused \/ ReadType
  BY DEF Next, ClientNext, Begin, Refresh, StartServer, Started, Ask, WriteCommand, OpenOutfifo,
     OpenFails, Leave, ReadOptions, WriteChoice, WriteFails, ReadResult, CloseDialog,
     ClientSyncOpen, ClientSyncClose, StopServer, WriteQuit, CloseQuit, Stopped,
     AbortWithoutServer, Abandon, ServerNext, Boot, OpenIn, ReadCommand, OpenOut, Raise, PutOptions,
     ReadChoice, Done, PutResult, BrokenPipe, Killed, CloseFifos, SyncOpen, SyncClose, CleanUp,
     ServerOnly
<1>3. refused # 0 => refused' = refused
  BY <1>2 DEF ReadType
<1>4. CASE refused # 0
  <2>1. refused \in Servers
    BY <1>1, <1>4, TypeFacts DEF Servers, Client
  <2>2. PICK r \in Servers : r = refused /\ r = refused'
    BY <1>3, <1>4, <2>1
  <2>3. CASE spc[r] \in Ending
    <3>1. spc'[r] \in Ending
      BY <1>1, <2>3, EndingStays
    <3> QED  BY <1>3, <2>2, <3>1 DEF RefusedInv, Ending
  <2>4. CASE spc[r] \in {"raised", "wait"} /\ Abandoned(r)
    <3>1. CASE ClientNext
      <4>1. Abandoned(r)'
        BY <1>1, <2>4, <3>1, ClientNear
      <4>2. spc'[r] = spc[r]
        <5>1. pidfile # 0
          BY <1>1, <2>4, AbandonedFacts
        <5>2. UNCHANGED spc
          BY <3>1, <5>1 DEF ClientNext, Begin, Refresh, StartServer, Started, Ask, WriteCommand,
             OpenOutfifo, OpenFails, ReadType, Leave, ReadOptions, WriteChoice, WriteFails,
             ReadResult, CloseDialog, ClientSyncOpen, ClientSyncClose, StopServer, WriteQuit,
             CloseQuit, Stopped, AbortWithoutServer, Abandon, ScriptOnly, server
        <5> QED  BY <5>2
      <4> QED  BY <1>3, <2>2, <2>4, <4>1, <4>2 DEF RefusedInv
    <3>2. CASE \E s \in Servers : ServerNext(s)
      <4>1. spc'[r] \in Ending \/ (spc'[r] \in {"raised", "wait"} /\ Abandoned(r)')
        BY <1>1, <2>4, <3>2, ServersNear
      <4> QED  BY <1>3, <2>2, <4>1 DEF RefusedInv, Ending
    <3> QED  BY <3>1, <3>2 DEF Next
  <2> QED  BY <1>1, <1>4, <2>2, <2>3, <2>4 DEF RefusedInv, Ending
<1>5. CASE refused = 0
  <2>1. CASE refused' = 0
    BY <1>5, <2>1 DEF RefusedInv
  <2>2. CASE refused' # 0
    <3>1. ReadType
      BY <1>2, <1>5, <2>2
    <3>2. ~overtaken /\ cpc = "type"
      BY <3>1 DEF ReadType, Running
    <3>3. ~Down
      BY <3>2 DEF Down
    <3>4. PICK s \in Servers : Up(s)
      BY <1>1, <1>5, <3>2, <3>3 DEF Clean
    <3>5. refused' = s /\ spc'[s] \in {"raised", "wait"} /\ Abandoned(s)'
      BY <1>1, <1>5, <2>2, <3>1, <3>4, ReadTypeRefuses
    <3>6. PICK r \in Servers : r = refused' /\ spc'[r] \in {"raised", "wait"} /\ Abandoned(r)'
      BY <3>5
    <3> QED  BY <1>5, <3>6 DEF RefusedInv
  <2> QED  BY <2>1, <2>2
<1> QED  BY <1>3, <1>4, <1>5

LEMMA Going == Next => ~overtaken
BY DEF Next, ClientNext, Begin, Refresh, StartServer, Started, Ask, WriteCommand, OpenOutfifo,
   OpenFails, ReadType, Leave, ReadOptions, WriteChoice, WriteFails, ReadResult, CloseDialog,
   ClientSyncOpen, ClientSyncClose, StopServer, WriteQuit, CloseQuit, Stopped,
   AbortWithoutServer, ServerNext, Boot, OpenIn, ReadCommand, OpenOut, Raise, PutOptions,
   ReadChoice, Done, PutResult, BrokenPipe, CloseFifos, SyncOpen, SyncClose, CleanUp,
   Serve, Script, Running

LEMMA CleanStays == ASSUME IInv, Next PROVE Clean'
<1>1. TypeInv /\ Clean
  BY DEF IInv, TypeInv
<1>2. SUFFICES ASSUME refused' = 0, ~overtaken' PROVE Down' \/ \E s \in Servers : Up(s)'
  BY DEF Clean
<1>3. refused = 0 /\ ~overtaken /\ overtaken' = FALSE
  <2>1. refused = 0 /\ ~overtaken
    BY <1>2, RefusedStays, Going
  <2>2. overtaken \in BOOLEAN /\ overtaken' \in BOOLEAN
    <3>1. TypeInv'
      BY <1>1, StepTypes
    <3> QED  BY <1>1, <3>1 DEF TypeInv, StateType
  <2> QED  BY <1>2, <2>1, <2>2
<1>4. CASE Down
  BY <1>1, <1>3, <1>4, ClientDown, ServersDown DEF Next
<1>5. CASE \E s \in Servers : Up(s)
  <2>1. PICK s \in Servers : Up(s)
    BY <1>5
  <2> QED  BY <1>1, <1>2, <1>3, <2>1, ClientUp, ServersUp DEF Next
<1> QED  BY <1>1, <1>3, <1>4, <1>5 DEF Clean

LEMMA Inductive == IInv /\ [Next]_vars => IInv'
<1> SUFFICES ASSUME IInv, [Next]_vars PROVE IInv'
  OBVIOUS
<1>1. TypeInv'
  BY StepTypes DEF IInv, TypeInv
<1>2. CASE Next
  BY <1>1, <1>2, CleanStays, RefusedStays DEF IInv, TypeInv
<1>3. CASE UNCHANGED vars
  <2>1. Clean'
    <3>1. ASSUME NEW s \in Servers, Up(s) PROVE Up(s)'
      <4>1. /\ TypeInv /\ Sides(s) /\ Dialog(s) /\ Pipes
            /\ UNCHANGED <<pidfile, cpc, csync, session, kind, made, answered, executed>>
            /\ UNCHANGED <<spc, ssync, cmd, opened>> /\ UNCHANGED fifoVars
        BY <1>3, <3>1, UpFacts DEF IInv, TypeInv, vars, client, server
      <4>2. /\ UNCHANGED <<path, fd, waiting>> /\ Pipes'
            /\ \A n \in Names : Rd(n)' = Rd(n) /\ Wr(n)' = Wr(n) /\ Buf(n)' = Buf(n)
        BY <4>1, StillPipes
      <4>3. Sides(s)'
        <5>1. CShape' /\ \A n \in Names : CReads(n)' <=> CReads(n)
          BY <4>1, <4>2, ClientShape DEF Sides
        <5>2. SShape(s)' /\ \A n \in Names : SReads(s, n)' <=> SReads(s, n)
          BY <4>1, <4>2, ServerShape DEF Sides
        <5> QED  BY <4>1, <4>2, <5>1, <5>2, SidesStay
      <4>4. Dialog(s)'
        BY <4>1, <4>2, DialogStays, Constants
      <4>5. Buf("stopfifo")' = <<>>
        BY <3>1, <4>1, <4>2, UpFacts, Constants
      <4>6. session' = "up" <=> cpc' \notin {"quit", "quitting", "stopping"}
        BY <3>1, <4>1, UpFacts
      <4> QED  BY <3>1, <4>1, <4>2, <4>3, <4>4, <4>5, <4>6, UpMove
    <3>2. Down => Down'
      BY <1>3 DEF vars, fifoVars, client, server, Down
    <3> QED  BY <1>3, <3>1, <3>2 DEF IInv, Clean, vars
  <2>2. RefusedInv'
    BY <1>3 DEF IInv, RefusedInv, Abandoned, vars, fifoVars, client, server
  <2> QED  BY <1>1, <2>1, <2>2 DEF IInv, TypeInv
<1> QED  BY <1>2, <1>3

LEMMA InitIInv == Init => IInv
<1> HAVE Init
<1>1. TypeInv
  BY InitTypes
<1>2. Down
  BY Constants DEF Init, FifosInit, Down
<1>3. Clean /\ RefusedInv
  BY <1>2 DEF Clean, RefusedInv, Init
<1> QED  BY <1>1, <1>3 DEF IInv, TypeInv

\* The inductive invariant: unless an exception has been left or a server started too
\* soon, there is no server, or one whose dialog with the script is in step.
THEOREM Invariance == Spec => []IInv
<1>1. Init => IInv
  BY InitIInv
<1>2. IInv /\ [Next]_vars => IInv'
  BY Inductive
<1> QED  BY <1>1, <1>2, PTL DEF Spec

LEMMA Ready == IInv => ServerReady
<1> SUFFICES ASSUME IInv, Undisturbed, cpc = "idle", session = "up"
             PROVE  /\ pidfile # 0 /\ spc[pidfile] \in {"sync", "loop", "read"}
                    /\ \A n \in Names : /\ path[n] # 0
                                        /\ inode[path[n]].kind = "fifo" /\ inode[path[n]].buf = <<>>
  BY DEF ServerReady
<1>1. TypeInv /\ Clean
  BY DEF IInv, TypeInv
<1>2. ~Down
  BY DEF Down
<1>3. PICK s \in Servers : Up(s)
  BY <1>1, <1>2 DEF Clean, Undisturbed
<1>4. InStep(s) /\ Meet(s, 6) /\ pidfile = s /\ s # 0 /\ Sides(s) /\ Pipes
      /\ Buf("stopfifo") = <<>>
  BY <1>1, <1>3, UpPlaces, UpFacts
<1>5. fd[Client]["infifo"] = 0
  BY <1>4 DEF Sides, CShape
<1>6. SIn(s, 6 - 1) \/ Coming(s, 6)
  BY <1>4, <1>5, MeetingPipes DEF Meet, CBlocked, CIn
<1>7. spc[s] \in {"sync", "loop", "read"}
  BY <1>6 DEF SIn, Coming, SBefore, SBlocked, SAt
<1>8. \A n \in Names : path[n] # 0 /\ inode[path[n]].kind = "fifo" /\ inode[path[n]].buf = <<>>
  BY <1>4, Constants DEF Pipes, InStep, Buf
<1> QED  BY <1>4, <1>7, <1>8

\* Between two calls the server is there, on its way to infifo, and the pipes are empty,
\* however many servers, calls and exceptions there have been.
THEOREM AlwaysReady == Spec => []ServerReady
<1>1. IInv => ServerReady
  BY Ready
<1> QED  BY <1>1, Invariance, PTL

\* A server whose exception a script left without an answer executes nothing more.
THEOREM RefusedEnds == Spec => []RefusedServerEnds
<1>1. IInv => RefusedServerEnds
  BY DEF IInv, RefusedInv, RefusedServerEnds
<1> QED  BY <1>1, Invariance, PTL

-----------------------------------------------------------------------------
(* Dialogs implement calls. *)

Pending == cpc \notin {"idle", "start", "forked", "open", "quit", "quitting", "stopping"}

\* The steps of the scripts.
LEMMA ClientImplements ==
    ASSUME TypeInv, Down \/ \E s \in Servers : Up(s), ClientNext
    PROVE  calls!Next \/ UNCHANGED calls!callVars
<1>1. CASE Begin \/ Refresh \/ StartServer \/ Started \/ StopServer \/ WriteQuit \/ CloseQuit
           \/ Stopped \/ AbortWithoutServer
  <2>1. UNCHANGED <<made, answered, executed>> /\ ~Pending /\ ~Pending'
    BY <1>1 DEF Begin, Refresh, StartServer, Started, StopServer, WriteQuit, CloseQuit, Stopped,
       AbortWithoutServer, Script, ScriptOnly, Pending
  <2> QED  BY <2>1 DEF calls!callVars, Pending
<1>2. CASE WriteCommand \/ OpenOutfifo \/ ReadType \/ ReadOptions \/ WriteChoice \/ CloseDialog
           \/ ClientSyncOpen
  <2>1. UNCHANGED <<made, answered, executed>> /\ Pending /\ Pending'
    BY <1>2 DEF WriteCommand, OpenOutfifo, ReadType, ReadOptions, WriteChoice, CloseDialog,
       ClientSyncOpen, Script, ScriptOnly, Pending, client
  <2> QED  BY <2>1 DEF calls!callVars, Pending
<1>3. CASE Ask
  <2>1. UNCHANGED <<answered, executed>> /\ made' = made + 1 /\ ~Pending /\ Pending'
    BY <1>3 DEF Ask, Script, ScriptOnly, Pending
  <2> QED  BY <2>1 DEF calls!Next, calls!Ask, Pending
<1>4. CASE OpenFails \/ Leave \/ WriteFails \/ ClientSyncClose
  <2>1. UNCHANGED <<made, answered, executed>>
    BY <1>4 DEF OpenFails, Leave, WriteFails, ClientSyncClose, Abandon, ScriptOnly
  <2>2. CASE cpc = "quit"
    <3>1. cpc' = "idle"
      BY <1>4, <2>2 DEF OpenFails, Leave, WriteFails, ClientSyncClose, Abandon
    <3> QED  BY <2>1, <2>2, <3>1 DEF calls!callVars
  <2>3. CASE cpc # "quit"
    <3>1. Pending
      BY <1>4, <2>3 DEF OpenFails, Leave, WriteFails, ClientSyncClose, Pending
    <3> QED  BY <2>1, <3>1 DEF calls!Next, calls!Return, calls!callVars, Pending
  <2> QED  BY <2>2, <2>3
<1>5. CASE ReadResult
  <2>1. cpc = "result" /\ cpc' = "close" /\ UNCHANGED <<made, executed>>
    BY <1>5 DEF ReadResult, Script, ScriptOnly
  <2>2. PICK s \in Servers : Up(s)
    BY <2>1 DEF Down
  <2>3. answered' = made /\ answered < made /\ calls!Executed(made)
    BY <1>5, <2>2, ReadResultUp
  <2> QED  BY <2>1, <2>3 DEF calls!Next, calls!Answer
<1> QED  BY <1>1, <1>2, <1>3, <1>4, <1>5 DEF ClientNext

\* The steps of the servers.
LEMMA ServersImplement ==
    ASSUME TypeInv, Down \/ \E s \in Servers : Up(s), NEW q \in Servers, ServerNext(q)
    PROVE  calls!Next \/ UNCHANGED calls!callVars
<1>1. CASE Done(q)
  <2>1. PICK s \in Servers : Up(s)
    BY <1>1 DEF Down, Done, Serve
  <2>2. q = s
    BY <1>1, <2>1 DEF Up, Done, Serve
  <2>3. ~calls!Executed(made) /\ executed' = Append(executed, made)
        /\ cpc \in {"type", "options", "choice"}
    BY <1>1, <2>1, <2>2, DoneUp
  <2>4. UNCHANGED <<made, answered, cpc>>
    BY <1>1 DEF Done, ServerOnly, client
  <2> QED  BY <2>3, <2>4 DEF calls!Next, calls!Execute
<1>2. CASE ~Done(q)
  <2>1. UNCHANGED <<executed, client>>
    BY <1>2 DEF ServerNext, Boot, OpenIn, ReadCommand, OpenOut, Raise, PutOptions, ReadChoice,
       PutResult, BrokenPipe, Killed, CloseFifos, SyncOpen, SyncClose, CleanUp, ServerOnly
  <2> QED  BY <2>1 DEF client, calls!callVars
<1> QED  BY <1>1, <1>2

\* A call is executed at most once, while it is being made, and a script goes on with the
\* answer to its own call, as long as no exception has been left without an answer.
THEOREM Refinement == Spec => ImplementsCalls
<1>1. Init => calls!Init
  BY DEF Init, calls!Init
<1>2. IInv /\ [Next]_vars => [refused # 0 \/ calls!Next]_(calls!callVars)
  <2> SUFFICES ASSUME IInv, [Next]_vars, refused = 0
               PROVE  calls!Next \/ UNCHANGED calls!callVars
    OBVIOUS
  <2>1. CASE UNCHANGED vars
    BY <2>1 DEF vars, client, calls!callVars
  <2>2. CASE Next
    <3>1. TypeInv /\ (Down \/ \E s \in Servers : Up(s))
      BY <2>2, Going DEF IInv, TypeInv, Clean
    <3> QED  BY <2>2, <3>1, ClientImplements, ServersImplement DEF Next
  <2> QED  BY <2>1, <2>2
<1> QED  BY <1>1, <1>2, Invariance, PTL DEF Spec, ImplementsCalls
=============================================================================
