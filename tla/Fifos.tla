------------------------------- MODULE Fifos --------------------------------
(***************************************************************************)
(* Named pipes as the shell and parted_server find them in                 *)
(* /var/lib/partman: opening one end waits for somebody to open the other, *)
(* a write without readers kills the writer, a read without writers and    *)
(* without data is the end of the file, and the data is gone when nobody   *)
(* has the pipe open.  A name somebody opens for writing when it does not  *)
(* exist becomes a plain file, which nobody waits for.                     *)
(***************************************************************************)
EXTENDS Naturals, Sequences, FiniteSets

CONSTANTS Procs, Names
VARIABLES
    path,     \* the inode of a name, 0 when there is none
    inode,    \* every pipe and file there has been
    fd,       \* the inode a process has open under a name, 0 when closed
    waiting   \* the pipe a process waits for in open(), 0 when it does not

fifoVars == <<path, inode, fd, waiting>>

NewInode(k) == [kind |-> k, rd |-> {}, wr |-> {}, buf |-> <<>>]

FifosInit ==
    /\ path = [n \in Names |-> 0] /\ inode = <<>>
    /\ fd = [p \in Procs |-> [n \in Names |-> 0]]
    /\ waiting = [p \in Procs |-> 0]

\* mkfifo() of every name, the existing ones left as they are.
MakeFifos ==
    LET missing == { n \in Names : path[n] = 0 }
        number == CHOOSE f \in [missing -> 1..Cardinality(missing)] :
                    \A m, n \in missing : f[m] = f[n] => m = n
    IN  /\ path' = [n \in Names |-> IF n \in missing THEN Len(inode) + number[n] ELSE path[n]]
        /\ inode' = inode \o [i \in 1..Cardinality(missing) |-> NewInode("fifo")]
        /\ UNCHANGED <<fd, waiting>>

Unlink(S) ==
    /\ path' = [n \in Names |-> IF n \in S THEN 0 ELSE path[n]]
    /\ UNCHANGED <<inode, fd, waiting>>

\* p has entered open(): it counts as a reader ("r") or a writer ("w") at once,
\* and returns when there is, or comes, somebody at the other end.
Open(p, n, mode) ==
    LET new == path[n] = 0
        i == IF new THEN Len(inode) + 1 ELSE path[n]
        node == IF new THEN NewInode("file") ELSE inode[i]
        there == IF mode = "r" THEN node.wr ELSE node.rd
        joined == [node EXCEPT !.rd = IF mode = "r" THEN @ \cup {p} ELSE @,
                               !.wr = IF mode = "w" THEN @ \cup {p} ELSE @,
                               !.buf = IF node.kind = "file" /\ mode = "w" THEN <<>> ELSE @]
    IN  /\ new => mode = "w"
        /\ path' = [path EXCEPT ![n] = i]
        /\ inode' = IF new THEN Append(inode, joined) ELSE [inode EXCEPT ![i] = joined]
        /\ fd' = [fd EXCEPT ![p][n] = i]
        /\ waiting' = [q \in Procs |->
              IF q = p THEN IF node.kind = "file" \/ there # {} THEN 0 ELSE i
              ELSE IF q \in there /\ waiting[q] = i THEN 0 ELSE waiting[q]]

Close(p, S) ==
    LET held == { fd[p][n] : n \in S } \ {0}
        left(x) == [x EXCEPT !.rd = @ \ {p}, !.wr = @ \ {p},
                             !.buf = IF x.kind = "fifo" /\ x.rd \cup x.wr \subseteq {p}
                                     THEN <<>> ELSE @]
    IN  /\ inode' = [i \in DOMAIN inode |-> IF i \in held THEN left(inode[i]) ELSE inode[i]]
        /\ fd' = [fd EXCEPT ![p] = [n \in Names |-> IF n \in S THEN 0 ELSE @[n]]]
        /\ waiting' = [waiting EXCEPT ![p] = 0]
        /\ UNCHANGED path

At(p, n) == inode[fd[p][n]]

\* A write by p to n is delivered, or finds nobody who could read it.
Delivered(p, n) == At(p, n).kind = "file" \/ At(p, n).rd # {}

\* A bound: what is written to a plain file beyond FileLines lines is not kept.
FileLines == 2

Put(p, n, line) ==
    /\ Delivered(p, n)
    /\ inode' = [inode EXCEPT ![fd[p][n]].buf =
                    IF At(p, n).kind = "file" /\ Len(@) >= FileLines THEN @ ELSE Append(@, line)]
    /\ UNCHANGED <<path, fd, waiting>>

\* A read by p from n: there is a line, or there will never be one.  (Every reader
\* of a plain file is alone with it, so that its lines may as well be taken out.)
Readable(p, n) == At(p, n).buf # <<>>
AtEnd(p, n) == At(p, n).buf = <<>> /\ (At(p, n).kind = "file" \/ At(p, n).wr = {})

Take(p, n) ==
    /\ inode' = [inode EXCEPT ![fd[p][n]].buf = Tail(@)]
    /\ UNCHANGED <<path, fd, waiting>>
=============================================================================
