---------------------------- MODULE PartedDialog ----------------------------
(***************************************************************************)
(* The dialogs between the scripts of backharddi and parted_server over    *)
(* the pipes infifo, outfifo and stopfifo: how a server is started and     *)
(* stopped, a command asked, an exception answered, and the pipes shut in  *)
(* step so that nothing of a dialog is left for the next one.              *)
(*                                                                         *)
(* Process 0 is whatever script runs: each starts with no pipe open and    *)
(* loses those it has when it ends.  The others are the servers there      *)
(* have been.  A line is a record: what it is, and the call it is from.    *)
(***************************************************************************)
EXTENDS Fifos

CONSTANTS
    MaxServers,  \* servers started
    MaxCalls,    \* calls made
    MaxExc       \* exceptions raised by one command

Client == 0
Servers == Procs \ {Client}

ASSUME DialogAssumption ==
    /\ MaxServers \in Nat /\ MaxCalls \in Nat /\ MaxExc \in Nat
    /\ Procs = 0..MaxServers /\ Names = {"infifo", "outfifo", "stopfifo"}

VARIABLES
    pidfile,   \* the server named by /var/run/parted_server.pid, 0 without one
    cpc, csync,
    session,   \* "up" while backharddi is between inicio.d and the end of its dialogs
    kind,      \* of the last call: "open", "plain" or, with no error handler, "bare"
    made,      \* calls so far
    executed,  \* the calls the servers have executed, in order
    answered,  \* the last call whose answer a script has read
    spc, ssync,
    cmd,       \* the call the server executes
    excs,      \* exceptions it has raised in it
    opened,    \* the server has the device open
    refused,   \* the first server a script left with an exception waiting for its answer, 0
    overtaken  \* a server was started while an earlier one still removed its pipes

client == <<cpc, csync, session, kind, made, answered>>
server == <<spc, ssync, cmd, excs, opened>>
vars == <<fifoVars, pidfile, client, server, executed, refused, overtaken>>

Line(w, n) == [what |-> w, call |-> n, kind |-> IF w = "cmd" THEN kind ELSE "none"]
HasAnswer == kind \in {"open", "bare"}  \* one line after OK, which the script reads

Init ==
    /\ FifosInit /\ pidfile = 0
    /\ cpc = "idle" /\ csync = 0 /\ session = "down" /\ kind = "plain"
    /\ made = 0 /\ executed = <<>> /\ answered = 0
    /\ spc = [s \in Servers |-> "none"] /\ ssync = [s \in Servers |-> 0]
    /\ cmd = [s \in Servers |-> Line("none", 0)] /\ excs = [s \in Servers |-> 0]
    /\ opened = [s \in Servers |-> FALSE]
    /\ refused = 0 /\ overtaken = FALSE

-----------------------------------------------------------------------------
(* The scripts. *)

\* Once a server is started while another is still at removing pipes of the same names,
\* the model stops: from there on a script may be given the answer to an earlier call,
\* and a server find none of its pipes.
Running(p) == ~overtaken /\ waiting[p] = 0
Script(from, to) == cpc = from /\ cpc' = to /\ Running(Client)
ScriptOnly == UNCHANGED <<pidfile, server, executed, overtaken>>

\* The script ends in the middle of a dialog: killed by a write nobody can read,
\* or by an exec that can not open its pipe.
Abandon ==
    /\ cpc' = "idle" /\ csync' = 0 /\ Close(Client, Names)
    /\ UNCHANGED <<session, kind, made, answered, refused>> /\ ScriptOnly

\* backharddi begins with an empty /var/lib/partman, and inicio.d/parted starts a
\* server when there is no pid file.
Begin ==
    /\ session = "down" /\ Script("idle", "start") /\ session' = "up"
    /\ Unlink(Names)
    /\ UNCHANGED <<csync, kind, made, answered, refused>> /\ ScriptOnly

\* update_metadata runs inicio.d/parted again.
Refresh ==
    /\ session = "up" /\ Script("idle", "start")
    /\ UNCHANGED <<csync, session, kind, made, answered, refused, fifoVars>> /\ ScriptOnly

StartServer ==
    \/ /\ pidfile # 0 /\ Script("start", "idle")
       /\ UNCHANGED <<pidfile, server, executed, overtaken>>
       /\ UNCHANGED <<csync, session, kind, made, answered, refused, fifoVars>>
    \/ /\ pidfile = 0 /\ Script("start", "forked")
       /\ \E s \in Servers : /\ \A t \in Servers : spc[t] = "none" <=> t >= s
                             /\ spc' = [spc EXCEPT ![s] = "init"]
       /\ overtaken' = \E s \in Servers : spc[s] \in {"in", "out", "stop"}
       /\ UNCHANGED <<pidfile, ssync, cmd, excs, opened, executed>>
       /\ UNCHANGED <<csync, session, kind, made, answered, refused, fifoVars>>

\* The parent waits for SIGUSR1; the script looks for the pid file again.  A new
\* server has the device opened at once.
Started ==
    /\ cpc = "forked" /\ Running(Client) /\ \A s \in Servers : spc[s] # "init"
    /\ cpc' = IF pidfile # 0 THEN "open" ELSE "start"
    /\ UNCHANGED <<csync, session, kind, made, answered, refused, fifoVars>> /\ ScriptOnly

Ask ==
    /\ made < MaxCalls /\ session = "up"
    /\ \/ Script("open", "command") /\ kind' = "open"
       \/ Script("idle", "command") /\ kind' \in {"plain", "bare"}
    /\ made' = made + 1
    /\ Open(Client, "infifo", "w")
    /\ UNCHANGED <<csync, session, answered, refused>> /\ ScriptOnly

WriteCommand ==
    /\ Script("command", "answer") /\ Put(Client, "infifo", Line("cmd", made))
    /\ UNCHANGED <<csync, session, kind, made, answered, refused>> /\ ScriptOnly

OpenOutfifo ==
    /\ Script("answer", "type") /\ Open(Client, "outfifo", "r")
    /\ UNCHANGED <<csync, session, kind, made, answered, refused>> /\ ScriptOnly

OpenFails ==
    /\ cpc = "answer" /\ Running(Client) /\ path["outfifo"] = 0
    /\ Abandon

\* The loop of error_handler, and the single read of open_dialog_with_no_error_handler.
\* At the end of the file read gives "", which is not OK either: error_handler goes
\* through a nameless exception.
ReadType ==
    /\ cpc = "type" /\ Running(Client)
    /\ \/ /\ Readable(Client, "outfifo") /\ Take(Client, "outfifo")
          /\ LET l == Head(At(Client, "outfifo").buf)
             IN  IF l.what = "OK"
                 THEN cpc' = (IF HasAnswer THEN "result" ELSE "close") /\ UNCHANGED refused
                 ELSE IF kind # "bare" THEN cpc' = "options" /\ UNCHANGED refused
                 ELSE cpc' = "leave" /\ refused' = IF refused = 0 THEN pidfile ELSE refused
       \/ /\ AtEnd(Client, "outfifo") /\ UNCHANGED <<fifoVars, refused>>
          /\ cpc' = IF kind = "bare" THEN "leave" ELSE "options"
    /\ UNCHANGED <<csync, session, kind, made, answered>> /\ ScriptOnly

\* restore_mbr: "|| break", and the subshell of the loop ends.
Leave ==
    /\ cpc = "leave" /\ Running(Client)
    /\ Abandon

ReadOptions ==
    /\ Script("options", "choice")
    /\ \/ Readable(Client, "outfifo") /\ Take(Client, "outfifo")
       \/ AtEnd(Client, "outfifo") /\ UNCHANGED fifoVars
    /\ UNCHANGED <<csync, session, kind, made, answered, refused>> /\ ScriptOnly

WriteChoice ==
    /\ Script("choice", "type") /\ Put(Client, "infifo", Line("choice", made))
    /\ UNCHANGED <<csync, session, kind, made, answered, refused>> /\ ScriptOnly

WriteFails ==
    /\ cpc \in {"command", "choice", "quit"} /\ Running(Client)
    /\ ~Delivered(Client, "infifo")
    /\ Abandon

ReadResult ==
    /\ Script("result", "close")
    /\ Readable(Client, "outfifo") /\ Take(Client, "outfifo")
    /\ answered' = Head(At(Client, "outfifo").buf).call
    /\ UNCHANGED <<csync, session, kind, made, refused>> /\ ScriptOnly

\* close_dialog: the pipes are closed, then each side opens and closes them in an
\* order in which neither can go on without the other.
\* Variant: infifo before outfifo.
ClientSync_swapped == <<<<"stopfifo", "w">>, <<"infifo", "r">>, <<"stopfifo", "w">>,
                        <<"outfifo", "w">>, <<"stopfifo", "w">>>>
ClientSync == <<<<"stopfifo", "w">>, <<"outfifo", "w">>, <<"stopfifo", "w">>,
                <<"infifo", "r">>, <<"stopfifo", "w">>>>
ServerSync == <<<<"stopfifo", "r">>, <<"outfifo", "r">>, <<"stopfifo", "r">>,
                <<"infifo", "w">>, <<"stopfifo", "r">>>>

CloseDialog ==
    /\ Script("close", "sync") /\ csync' = 1
    /\ Close(Client, {"infifo", "outfifo"})
    /\ UNCHANGED <<session, kind, made, answered, refused>> /\ ScriptOnly

\* cat and fgetc read what is left before the pipe is closed again.
Drained(p, n, mode) == mode = "r" /\ n # "stopfifo" =>
    At(p, n).kind = "file" \/ At(p, n).wr = {}

ClientSyncOpen ==
    /\ cpc = "sync" /\ Running(Client)
    /\ LET n == ClientSync[csync][1] mode == ClientSync[csync][2]
       IN  fd[Client][n] = 0 /\ Open(Client, n, mode)
    /\ UNCHANGED client /\ UNCHANGED refused /\ ScriptOnly

\* Variant: the position is not reset.
ClientSyncClose_on ==
    /\ cpc = "sync" /\ Running(Client)
    /\ LET n == ClientSync[csync][1] mode == ClientSync[csync][2]
       IN  fd[Client][n] # 0 /\ Drained(Client, n, mode) /\ Close(Client, {n})
    /\ csync' = csync + 1 /\ cpc' = IF csync = Len(ClientSync) THEN "idle" ELSE "sync"
    /\ UNCHANGED <<session, kind, made, answered, refused>> /\ ScriptOnly

ClientSyncClose ==
    /\ cpc = "sync" /\ Running(Client)
    /\ LET n == ClientSync[csync][1] mode == ClientSync[csync][2]
       IN  fd[Client][n] # 0 /\ Drained(Client, n, mode) /\ Close(Client, {n})
    /\ IF csync = Len(ClientSync) THEN cpc' = "idle" /\ csync' = 0
                                  ELSE csync' = csync + 1 /\ UNCHANGED cpc
    /\ UNCHANGED <<session, kind, made, answered, refused>> /\ ScriptOnly

\* stop_parted_server, from fin.d/parted whatever there is, from abort when there
\* is a pid file.
StopServer ==
    /\ session = "up" /\ Script("idle", "quit") /\ session' = "down"
    /\ Open(Client, "infifo", "w")
    /\ UNCHANGED <<csync, kind, made, answered, refused>> /\ ScriptOnly

WriteQuit ==
    /\ Script("quit", "quitting") /\ Put(Client, "infifo", Line("QUIT", 0))
    /\ UNCHANGED <<csync, session, kind, made, answered, refused>> /\ ScriptOnly

CloseQuit ==
    /\ Script("quitting", "stopping") /\ Close(Client, {"infifo"})
    /\ UNCHANGED <<csync, session, kind, made, answered, refused>> /\ ScriptOnly

\* Variant: stop_parted_server does not wait for the pid file to go.
Stopped_at_once ==
    /\ Script("stopping", "idle")
    /\ UNCHANGED <<csync, session, kind, made, answered, refused, fifoVars>> /\ ScriptOnly

Stopped ==
    /\ Script("stopping", "idle") /\ pidfile = 0
    /\ UNCHANGED <<csync, session, kind, made, answered, refused, fifoVars>> /\ ScriptOnly

\* abort without a pid file: backharddi only ends.
AbortWithoutServer ==
    /\ session = "up" /\ pidfile = 0 /\ Script("idle", "idle") /\ session' = "down"
    /\ UNCHANGED <<csync, kind, made, answered, refused, fifoVars>> /\ ScriptOnly

ClientNext ==
    \/ Begin \/ Refresh \/ StartServer \/ Started \/ Ask \/ WriteCommand \/ OpenOutfifo
    \/ OpenFails \/ ReadType \/ Leave \/ ReadOptions \/ WriteChoice \/ WriteFails \/ ReadResult
    \/ CloseDialog \/ ClientSyncOpen \/ ClientSyncClose
    \/ StopServer \/ WriteQuit \/ CloseQuit \/ Stopped \/ AbortWithoutServer

-----------------------------------------------------------------------------
(* The servers. *)

Serve(s, from, to) == spc[s] = from /\ spc' = [spc EXCEPT ![s] = to] /\ Running(s)
ServerOnly == UNCHANGED <<client, refused>>

\* critical_error: exit(1), and cleanup_and_die with everything still open.
Exit(s) ==
    /\ spc' = [spc EXCEPT ![s] = "exit"]
    /\ UNCHANGED <<ssync, cmd, excs, opened>>

\* SIGPIPE: no cleanup at all.
Killed(s) ==
    /\ spc' = [spc EXCEPT ![s] = "dead"] /\ Close(s, Names)
    /\ UNCHANGED <<ssync, cmd, excs, opened, pidfile, executed, overtaken>> /\ ServerOnly

Boot(s) ==
    /\ Serve(s, "init", "loop") /\ pidfile' = s /\ MakeFifos
    /\ UNCHANGED <<ssync, cmd, excs, opened, executed, overtaken>> /\ ServerOnly

OpenIn(s) ==
    /\ Serve(s, "loop", "read") /\ Open(s, "infifo", "r")
    /\ UNCHANGED <<ssync, cmd, excs, opened, pidfile, executed, overtaken>> /\ ServerOnly

\* The name of the command; every one but OPEN then wants the device to be open.
ReadCommand(s) ==
    /\ spc[s] = "read" /\ Running(s)
    /\ LET l == Head(At(s, "infifo").buf)
           good == l.what = "cmd" /\ (l.kind = "open" \/ opened[s])
       IN  \/ /\ Readable(s, "infifo") /\ good /\ Take(s, "infifo")
              /\ spc' = [spc EXCEPT ![s] = "open"]
              /\ cmd' = [cmd EXCEPT ![s] = l] /\ excs' = [excs EXCEPT ![s] = 0]
              /\ UNCHANGED <<ssync, opened>>
           \/ Readable(s, "infifo") /\ ~good /\ Take(s, "infifo") /\ Exit(s)
           \/ AtEnd(s, "infifo") /\ UNCHANGED fifoVars /\ Exit(s)
    /\ UNCHANGED <<pidfile, executed, overtaken>> /\ ServerOnly

OpenOut(s) ==
    /\ Serve(s, "open", "run") /\ Open(s, "outfifo", "w")
    /\ UNCHANGED <<ssync, cmd, excs, opened, pidfile, executed, overtaken>> /\ ServerOnly

\* pseudo_exception: the type, then the message and the options, then the answer.
Raise(s) ==
    /\ Serve(s, "run", "raised") /\ excs[s] < MaxExc
    /\ excs' = [excs EXCEPT ![s] = @ + 1]
    /\ Put(s, "outfifo", Line("type", cmd[s].call))
    /\ UNCHANGED <<ssync, cmd, opened, pidfile, executed, overtaken>> /\ ServerOnly

PutOptions(s) ==
    /\ Serve(s, "raised", "wait") /\ Put(s, "outfifo", Line("options", cmd[s].call))
    /\ UNCHANGED <<ssync, cmd, excs, opened, pidfile, executed, overtaken>> /\ ServerOnly

\* Variant: no answer counts as "unhandled".
ReadChoice_lenient(s) ==
    /\ Serve(s, "wait", "run")
    /\ \/ Readable(s, "infifo") /\ Take(s, "infifo")
       \/ AtEnd(s, "infifo") /\ UNCHANGED fifoVars
    /\ UNCHANGED <<ssync, cmd, excs, opened, pidfile, executed, overtaken>> /\ ServerOnly

ReadChoice(s) ==
    /\ spc[s] = "wait" /\ Running(s)
    /\ \/ /\ Readable(s, "infifo") /\ Take(s, "infifo")
          /\ IF Head(At(s, "infifo").buf).what = "choice"
             THEN spc' = [spc EXCEPT ![s] = "run"] /\ UNCHANGED <<ssync, cmd, excs, opened>>
             ELSE Exit(s)
       \/ AtEnd(s, "infifo") /\ UNCHANGED fifoVars /\ Exit(s)
    /\ UNCHANGED <<pidfile, executed, overtaken>> /\ ServerOnly

\* Variant: the command is run again when it has raised an exception.
Done_again(s) ==
    /\ Serve(s, "run", IF excs[s] = 1 THEN "run"
                       ELSE IF cmd[s].kind = "plain" THEN "close" ELSE "result")
    /\ IF excs[s] = 1 THEN UNCHANGED fifoVars
                      ELSE Put(s, "outfifo", Line("OK", cmd[s].call))
    /\ excs' = [excs EXCEPT ![s] = @ + 1]
    /\ executed' = Append(executed, cmd[s].call) /\ opened' = [opened EXCEPT ![s] = TRUE]
    /\ UNCHANGED <<ssync, cmd, pidfile, overtaken>> /\ ServerOnly

\* The command is done, and OK is written.
Done(s) ==
    /\ Serve(s, "run", IF cmd[s].kind = "plain" THEN "close" ELSE "result")
    /\ Put(s, "outfifo", Line("OK", cmd[s].call))
    /\ executed' = Append(executed, cmd[s].call) /\ opened' = [opened EXCEPT ![s] = TRUE]
    /\ UNCHANGED <<ssync, cmd, excs, pidfile, overtaken>> /\ ServerOnly

PutResult(s) ==
    /\ Serve(s, "result", "close") /\ Put(s, "outfifo", Line("result", cmd[s].call))
    /\ UNCHANGED <<ssync, cmd, excs, opened, pidfile, executed, overtaken>> /\ ServerOnly

BrokenPipe(s) ==
    /\ spc[s] \in {"run", "raised", "result"} /\ Running(s) /\ ~Delivered(s, "outfifo")
    /\ Killed(s)

CloseFifos(s) ==
    /\ Serve(s, "close", "sync") /\ ssync' = [ssync EXCEPT ![s] = 1]
    /\ Close(s, {"infifo", "outfifo"})
    /\ UNCHANGED <<cmd, excs, opened, pidfile, executed, overtaken>> /\ ServerOnly

SyncOpen(s) ==
    /\ spc[s] = "sync" /\ Running(s)
    /\ LET n == ServerSync[ssync[s]][1] mode == ServerSync[ssync[s]][2]
       IN  fd[s][n] = 0 /\ Open(s, n, mode)
    /\ UNCHANGED <<server, pidfile, executed, overtaken>> /\ ServerOnly

SyncClose(s) ==
    /\ spc[s] = "sync" /\ Running(s)
    /\ LET n == ServerSync[ssync[s]][1] mode == ServerSync[ssync[s]][2]
       IN  fd[s][n] # 0 /\ Drained(s, n, mode) /\ Close(s, {n})
    /\ IF ssync[s] = Len(ServerSync)
       THEN spc' = [spc EXCEPT ![s] = "loop"] /\ ssync' = [ssync EXCEPT ![s] = 0]
       ELSE ssync' = [ssync EXCEPT ![s] = @ + 1] /\ UNCHANGED spc
    /\ UNCHANGED <<cmd, excs, opened, pidfile, executed, overtaken>> /\ ServerOnly

\* cleanup_and_die, by name: whoever has the name by now.
CleanUp(s) ==
    \/ /\ Serve(s, "exit", "in") /\ pidfile' = 0
       /\ UNCHANGED <<fifoVars, ssync, cmd, excs, opened, executed, overtaken>> /\ ServerOnly
    \/ /\ \/ Serve(s, "in", "out") /\ Unlink({"infifo"})
          \/ Serve(s, "out", "stop") /\ Unlink({"outfifo"})
          \/ Serve(s, "stop", "gone") /\ Unlink({"stopfifo"})
       /\ UNCHANGED <<ssync, cmd, excs, opened, pidfile, executed, overtaken>> /\ ServerOnly
    \/ /\ Serve(s, "gone", "dead") /\ Close(s, Names)
       /\ UNCHANGED <<ssync, cmd, excs, opened, pidfile, executed, overtaken>> /\ ServerOnly

ServerNext(s) ==
    \/ Boot(s) \/ OpenIn(s) \/ ReadCommand(s) \/ OpenOut(s) \/ Raise(s) \/ PutOptions(s)
    \/ ReadChoice(s) \/ Done(s) \/ PutResult(s) \/ BrokenPipe(s) \/ CloseFifos(s)
    \/ SyncOpen(s) \/ SyncClose(s) \/ CleanUp(s)

Next == ClientNext \/ \E s \in Servers : ServerNext(s)
Spec == Init /\ [][Next]_vars
FairSpec ==
    Spec /\ WF_vars(ClientNext) /\ \A s \in Servers : WF_vars(ServerNext(s))

-----------------------------------------------------------------------------
(* Properties. *)

\* Every variable keeps its type, and the pid file names a server there has been.
TypeOK ==
    /\ path \in [Names -> 0..Len(inode)] /\ fd \in [Procs -> [Names -> 0..Len(inode)]]
    /\ waiting \in [Procs -> 0..Len(inode)]
    /\ \A i \in DOMAIN inode : inode[i].rd \subseteq Procs /\ inode[i].wr \subseteq Procs
    /\ pidfile \in Procs /\ (pidfile # 0 => spc[pidfile] # "none")
    /\ csync \in 0..Len(ClientSync) /\ ssync \in [Servers -> 0..Len(ServerSync)]
    /\ excs \in [Servers -> 0..MaxExc]
    /\ made \in 0..MaxCalls /\ executed \in Seq(1..made) /\ answered \in 0..made

Undisturbed == refused = 0 /\ ~overtaken

\* Between two calls of backharddi the server of the pid file is there, on its way to
\* infifo, with the three pipes in place and nothing in them, unless a script left an
\* exception unanswered (definitions.sh:175) or a server was started too
\* soon after the end of another (parted_server.c:2245).
ServerReady ==
    Undisturbed /\ cpc = "idle" /\ session = "up" =>
        /\ pidfile # 0 /\ spc[pidfile] \in {"sync", "loop", "read"}
        /\ \A n \in Names : /\ path[n] # 0
                            /\ inode[path[n]].kind = "fifo" /\ inode[path[n]].buf = <<>>

\* A server left with an unanswered exception executes nothing more, whatever the next
\* script sends it: nothing but its end follows.
RefusedServerEnds ==
    refused # 0 => spc[refused] \in {"raised", "wait", "exit", "in", "out", "stop", "gone", "dead"}

AtBound == \/ cpc = "open" /\ made = MaxCalls
           \/ cpc = "start" /\ \A s \in Servers : spc[s] # "none"

\* Neither side waits for ever in one of the opens of a dialog, nor in starting or stopping
\* the server, unless an exception was left unanswered.
CallsReturn == (cpc # "idle") ~> (cpc = "idle" \/ AtBound \/ ~Undisturbed)

\* Dialogs implement calls: one is executed at most once and while it is being made, and
\* no script takes the answer to another for its own.  (After a refusal the command a
\* script leaves in a plain file infifo may be read by a later server.)
calls == INSTANCE Calls WITH
    pending <- cpc \notin {"idle", "start", "forked", "open", "quit", "quitting", "stopping"}
ImplementsCalls == calls!Init /\ [][refused # 0 \/ calls!Next]_(calls!callVars)

\* What parted_server.c:263 says of the answer to an exception: "This is either
\* "unhandled" or one of the options from 4."
AnswersExceptions ==
    \A s \in Servers : spc[s] = "wait" /\ Running(s) =>
        /\ ~AtEnd(s, "infifo")
        /\ Readable(s, "infifo") => Head(At(s, "infifo").buf).what = "choice"
=============================================================================
