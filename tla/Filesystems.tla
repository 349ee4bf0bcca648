---------------------------- MODULE Filesystems ----------------------------
(***************************************************************************)
(* fin.d/filesystems: the script that, once the user has marked the        *)
(* partitions, generates or restores one image after another.  Every image *)
(* goes through a shell pipeline                                            *)
(*                                                                         *)
(*   gen :  monitor | gen_cmd | comprime | split (or nc)                   *)
(*   rest:  concatena | descomprime | rest_cmd                             *)
(*          where concatena itself runs   monitor | feed                   *)
(*                                                                         *)
(* whose members run concurrently and talk through pipes and through two   *)
(* files, STOP_MONITOR and ERROR.  Media "hd-media" and "net" are modelled *)
(* here; FilesystemsCd has the volume loop of medium "cdrom".              *)
(*                                                                         *)
(* Data is abstracted to chunks: an image and a partition have Size of     *)
(* them, pipes keep their order, so a count says which chunks arrived.     *)
(***************************************************************************)
EXTENDS Integers, FiniteSets

CONSTANTS
    NParts,        \* partitions, in the order of the globs  for dev / for id
    Size,          \* chunks of a complete image
    PipeCap,       \* chunks a pipe holds
    MaxFallos,     \* bound on the number of external failures
    FallosDe,      \* which stages may fail
    Medios,        \* media the run is about
    Acciones,      \* marks the run is about
    Cloners,       \* cloning tools the run is about
    Compresiones,  \* values of the compresion file the run is about
    Imagenes       \* how many chunks an image that is to be restored has

Parts == 1..NParts
Procs == {"mon", "con", "src", "mid", "snk"}
Fallibles == {"prep", "port", "cloner", "compr", "sink", "feed", "status", "meta"}

ASSUME SizesAssumption ==
    NParts \in Nat /\ Size \in Nat \ {0} /\ PipeCap \in Nat \ {0} /\ MaxFallos \in Nat

ASSUME ChoicesAssumption ==
    /\ FallosDe \subseteq Fallibles
    /\ Medios \subseteq {"hd-media", "net"}
    /\ Acciones \subseteq {"none", "gen", "rest"}
    /\ Cloners \subseteq {"ntfsclone", "partclone", "dd", "partimage"}
    /\ Compresiones \subseteq {"none", "lzo", "lzma"}
    /\ Imagenes \subseteq 0..Size

VARIABLES
    \* what the session left under $DEVICES: it does not change here
    medio, accion, cloner, compresion, swap,
    \* $imagenes/$id/img.* and the block devices, as counts of chunks
    imagen, disco,
    \* the script: its phase, the partition it is at, its exit status,
    \* success_gen, whether the server has the metadata
    fase, id, salida, success_gen, meta,
    \* the files STOP_MONITOR and ERROR (0: there is no file)
    stop, error,
    \* the pipeline: state of each member, the code each is reporting, its
    \* exit status, what the feed has read, what was put in the first pipe,
    \* the contents of both pipes, whether the server gave a port, and the
    \* percentage the monitor has seen, in chunks
    st, cod, ret, leido, sent, p1, p2, puerto, percent,
    \* external failures so far
    fallos

config == <<medio, accion, cloner, compresion, swap>>
script == <<fase, id, salida, success_gen, meta>>
files  == <<stop, error>>
procs  == <<st, cod, ret, puerto>>
data   == <<imagen, disco, leido, sent, p1, p2>>
vars   == <<config, script, files, procs, data, percent, fallos>>

Running == {"check", "poll", "status", "end",  \* the monitor, by line
            "port", "start", "wait",           \* concatena
            "run",                             \* the other stages
            "touch", "test", "write"}          \* inside error()
States == Running \cup {"off", "ended"}

TypeConfig ==
    /\ medio \in Medios
    /\ accion \in [Parts -> {"none", "gen", "rest"}]
    /\ cloner \in [Parts -> Cloners]
    /\ compresion \in [Parts -> Compresiones]
    /\ swap \in [Parts -> BOOLEAN]

TypeScript ==
    /\ fase \in {"next", "pipe", "exit"}
    /\ id \in 1..NParts + 1
    /\ salida \in Nat
    /\ success_gen \in BOOLEAN /\ meta \in BOOLEAN
    /\ stop \in BOOLEAN /\ error \in Nat

TypeProcs ==
    /\ st \in [Procs -> States]
    /\ cod \in [Procs -> Nat]
    /\ ret \in [Procs -> 0..1]
    /\ puerto \in BOOLEAN

TypeData ==
    /\ imagen \in [Parts -> 0..Size]
    /\ disco \in [Parts -> 0..Size]
    /\ leido \in 0..Size /\ sent \in 0..Size
    /\ p1 \in 0..PipeCap /\ p2 \in 0..PipeCap
    /\ percent \in 0..Size
    /\ fallos \in 0..MaxFallos

\* Every variable holds what the code can put in it: in particular no count of
\* chunks, in a pipe or at either end, leaves its bounds.
TypeOK == TypeConfig /\ TypeScript /\ TypeProcs /\ TypeData

AllEnded == [p \in Procs |-> "ended"]

InitEstado ==
    /\ accion \in [Parts -> Acciones]
    /\ cloner \in [Parts -> Cloners]
    /\ compresion \in [Parts -> Compresiones]
    /\ swap \in [Parts -> BOOLEAN]
    /\ imagen \in [Parts -> Imagenes]
    /\ disco = [p \in Parts |-> 0]
    /\ fase = "next" /\ id = 1 /\ salida = 0
    /\ success_gen = FALSE /\ meta = FALSE
    /\ stop = FALSE /\ error = 0
    /\ st = AllEnded
    /\ cod = [p \in Procs |-> 0]
    /\ ret = [p \in Procs |-> 0]
    /\ leido = 0 /\ sent = 0 /\ p1 = 0 /\ p2 = 0
    /\ puerto = TRUE /\ percent = 0 /\ fallos = 0

Init == medio \in Medios /\ InitEstado

-----------------------------------------------------------------------------
(***************************************************************************)
(* Failures of what the script calls, and error()                          *)
(***************************************************************************)

\* The environment makes stage e fail.
Falla(e) == e \in FallosDe /\ fallos < MaxFallos /\ fallos' = fallos + 1

\* A member that found its command failed calls error with code c.  (Variant:
\* the  || error  of comprime and descomprime forgotten.)
Raise_unless_mid(p, c) ==
    /\ st' = [st EXCEPT ![p] = IF p = "mid" THEN "ended" ELSE "touch"]
    /\ cod' = [cod EXCEPT ![p] = c]

Raise(p, c) ==
    /\ st' = [st EXCEPT ![p] = "touch"]
    /\ cod' = [cod EXCEPT ![p] = c]

\* Where a member goes on after error() returned.
Resume(p) ==
    CASE cod[p] = 71 -> "check"                             \* monitor
      [] cod[p] = 52 -> "start"                             \* concatena, no port
      [] cod[p] = 41 /\ leido < imagen[id] -> "run"         \* next img.NN
      [] OTHER -> "ended"

\* error(): touch STOP_MONITOR, look for ERROR, write it if there is none.
\* Three steps: other members may run error() at the same time.
ErrorStep(p) ==
    /\ \/ /\ st[p] = "touch"
          /\ stop' = TRUE
          /\ st' = [st EXCEPT ![p] = "test"]
          /\ UNCHANGED error
       \/ /\ st[p] = "test"
          /\ st' = [st EXCEPT ![p] = IF error = 0 THEN "write" ELSE Resume(p)]
          /\ UNCHANGED <<stop, error>>
       \/ /\ st[p] = "write"
          /\ error' = cod[p]
          /\ st' = [st EXCEPT ![p] = Resume(p)]
          /\ UNCHANGED stop
    /\ UNCHANGED <<config, script, cod, ret, puerto, data, percent, fallos>>

-----------------------------------------------------------------------------
(***************************************************************************)
(* monitor: polls the statistics of the cloner until they say 100 or       *)
(* somebody leaves STOP_MONITOR.                                           *)
(***************************************************************************)

\* parse_stats: dd publishes no percentage.  (Variant: one chunk too many.)
Parse_stats_ahead ==
    IF cloner[id] = "dd" THEN 0
    ELSE 1 + (IF accion[id] = "gen" THEN sent ELSE disco[id])

Parse_stats ==
    IF cloner[id] = "dd" THEN 0
    ELSE IF accion[id] = "gen" THEN sent ELSE disco[id]

\* The head of the loop and the test for STOP_MONITOR.
MonitorCheck ==
    /\ st["mon"] = "check"
    /\ \/ /\ percent = Size
          /\ st' = [st EXCEPT !["mon"] = "end"] /\ UNCHANGED stop
       \/ /\ percent < Size /\ stop
          /\ st' = [st EXCEPT !["mon"] = "ended"] /\ stop' = FALSE
       \/ /\ percent < Size /\ ~stop
          /\ st' = [st EXCEPT !["mon"] = "poll"] /\ UNCHANGED stop
    /\ UNCHANGED <<config, script, error, cod, ret, puerto, data, percent, fallos>>

MonitorPoll ==
    /\ st["mon"] = "poll"
    /\ percent' = Parse_stats
    /\ st' = [st EXCEPT !["mon"] = IF medio = "net" THEN "status" ELSE "check"]
    /\ UNCHANGED <<config, script, files, cod, ret, puerto, data, fallos>>

\* sendstatus_to_server
MonitorStatus ==
    /\ st["mon"] = "status"
    /\ \/ st' = [st EXCEPT !["mon"] = "check"] /\ UNCHANGED <<cod, fallos>>
       \/ Falla("status") /\ Raise("mon", 71)
    /\ UNCHANGED <<config, script, files, ret, puerto, data, percent>>

\* After the loop: the STOP_MONITOR of whoever stopped in the meantime goes.
MonitorEnd ==
    /\ st["mon"] = "end"
    /\ stop' = FALSE
    /\ st' = [st EXCEPT !["mon"] = "ended"]
    /\ UNCHANGED <<config, script, error, cod, ret, puerto, data, percent, fallos>>

Monitor == MonitorCheck \/ MonitorPoll \/ MonitorStatus \/ MonitorEnd \/ ErrorStep("mon")

-----------------------------------------------------------------------------
(***************************************************************************)
(* First stage.  gen_cmd reads the partition; the feed of concatena reads  *)
(* the image: concatena2 (hd-media) or udp-receiver (net).                 *)
(***************************************************************************)

Gen  == fase = "pipe" /\ accion[id] = "gen"
Rest == fase = "pipe" /\ accion[id] = "rest"

\* Only dd_rescue is followed by  && touch $STOP_MONITOR.  (Variants: every
\* cloner is, none is.)
StopsMonitor_always == TRUE
StopsMonitor_never  == FALSE
StopsMonitor == cloner[id] = "dd"

Gen_code == CASE cloner[id] = "ntfsclone" -> 21 [] cloner[id] = "partclone" -> 22
              [] cloner[id] = "dd" -> 23 [] OTHER -> 24

\* The cloner clones a chunk, ends, or fails: by itself or by SIGPIPE.
Gen_cmd ==
    /\ Gen /\ st["src"] = "run"
    /\ \/ /\ sent < Size /\ p1 < PipeCap /\ st["mid"] # "ended"
          /\ sent' = sent + 1 /\ p1' = p1 + 1
          /\ UNCHANGED <<stop, st, cod, fallos>>
       \/ /\ sent = Size
          /\ st' = [st EXCEPT !["src"] = "ended"]
          /\ stop' = (stop \/ StopsMonitor)
          /\ UNCHANGED <<sent, p1, cod, fallos>>
       \/ /\ \/ Falla("cloner")
             \/ sent < Size /\ st["mid"] = "ended" /\ UNCHANGED fallos
          /\ Raise("src", Gen_code)
          /\ UNCHANGED <<sent, p1, stop>>
    /\ UNCHANGED <<config, script, error, ret, puerto, imagen, disco, leido, p2, percent>>

\* concatena2: cat of each img.NN; one that fails is reported with error 41
\* and the next one follows.  Without any img.NN the pattern itself fails.
Concatena2 ==
    /\ Rest /\ medio = "hd-media" /\ st["src"] = "run"
    /\ \/ /\ leido < imagen[id] /\ p1 < PipeCap /\ st["mid"] # "ended"
          /\ leido' = leido + 1 /\ sent' = sent + 1 /\ p1' = p1 + 1
          /\ UNCHANGED <<st, cod, fallos>>
       \/ /\ leido = imagen[id] /\ imagen[id] > 0
          /\ st' = [st EXCEPT !["src"] = "ended"]
          /\ UNCHANGED <<leido, sent, p1, cod, fallos>>
       \/ /\ leido < imagen[id]
          /\ \/ Falla("feed")
             \/ st["mid"] = "ended" /\ UNCHANGED fallos
          /\ leido' = leido + 1
          /\ Raise("src", 41)
          /\ UNCHANGED <<sent, p1>>
       \/ /\ imagen[id] = 0
          /\ Raise("src", 41)
          /\ UNCHANGED <<leido, sent, p1, fallos>>
    /\ UNCHANGED <<config, script, files, ret, puerto, imagen, disco, p2, percent>>

\* udp-receiver: its failure is only an exit status for concatena.
Udp_receiver ==
    /\ Rest /\ medio = "net" /\ st["src"] = "run"
    /\ \/ /\ puerto /\ leido < imagen[id] /\ p1 < PipeCap /\ st["mid"] # "ended"
          /\ leido' = leido + 1 /\ sent' = sent + 1 /\ p1' = p1 + 1
          /\ UNCHANGED <<st, ret, fallos>>
       \/ /\ puerto /\ leido = imagen[id]
          /\ st' = [st EXCEPT !["src"] = "ended"]
          /\ UNCHANGED <<leido, sent, p1, ret, fallos>>
       \/ /\ \/ Falla("feed")
             \/ ~puerto /\ UNCHANGED fallos
             \/ leido < imagen[id] /\ st["mid"] = "ended" /\ UNCHANGED fallos
          /\ st' = [st EXCEPT !["src"] = "ended"]
          /\ ret' = [ret EXCEPT !["src"] = 1]
          /\ UNCHANGED <<leido, sent, p1>>
    /\ UNCHANGED <<config, script, files, cod, puerto, imagen, disco, p2, percent>>

Source == Gen_cmd \/ Concatena2 \/ Udp_receiver \/ ErrorStep("src")

\* concatena: asks for the port (net), starts  monitor | feed  and, since the
\* shell waits for every member of a pipeline, only when both have ended does
\* it see the exit status of the feed.
Concatena ==
    /\ Rest
    /\ \/ /\ st["con"] = "port"
          /\ \/ st' = [st EXCEPT !["con"] = "start"] /\ UNCHANGED <<cod, puerto, fallos>>
             \/ Falla("port") /\ puerto' = FALSE /\ Raise("con", 52)
       \/ /\ st["con"] = "start"
          /\ st' = [st EXCEPT !["con"] = "wait", !["mon"] = "check", !["src"] = "run"]
          /\ UNCHANGED <<cod, puerto, fallos>>
       \/ /\ st["con"] = "wait" /\ st["mon"] = "ended" /\ st["src"] = "ended"
          /\ \/ ret["src"] = 0 /\ st' = [st EXCEPT !["con"] = "ended"] /\ UNCHANGED cod
             \/ ret["src"] = 1 /\ Raise("con", 51)
          /\ UNCHANGED <<puerto, fallos>>
    /\ UNCHANGED <<config, script, files, ret, data, percent>>

-----------------------------------------------------------------------------
(***************************************************************************)
(* Middle stage: comprime or descomprime.                                  *)
(***************************************************************************)

Compr_code ==
    CASE accion[id] = "gen" /\ compresion[id] = "lzo" -> 31
      [] accion[id] = "gen" /\ compresion[id] = "lzma" -> 32
      [] accion[id] = "gen" /\ compresion[id] = "none" -> 33
      [] accion[id] = "rest" /\ compresion[id] = "lzo" -> 34
      [] accion[id] = "rest" /\ compresion[id] = "lzma" -> 35
      [] OTHER -> 36

\* Every writer of the first pipe is gone: gen_cmd, or concatena itself, whose
\* subshell keeps the pipe open until  monitor | feed  is over.
Eof == IF accion[id] = "gen" THEN st["src"] = "ended" ELSE st["con"] = "ended"

\* A decompressor notices that its input is cut short; cat does not.  (Variant:
\* it takes every end of input for a premature one.)
Truncated_always == accion[id] = "rest" /\ compresion[id] # "none"

Truncated == accion[id] = "rest" /\ compresion[id] # "none" /\ sent < Size

Comprime ==
    /\ fase = "pipe" /\ st["mid"] = "run"
    /\ \/ /\ p1 > 0 /\ p2 < PipeCap /\ st["snk"] # "ended"
          /\ p1' = p1 - 1 /\ p2' = p2 + 1
          /\ UNCHANGED <<st, cod, fallos>>
       \/ /\ p1 = 0 /\ Eof /\ ~Truncated
          /\ st' = [st EXCEPT !["mid"] = "ended"]
          /\ UNCHANGED <<p1, p2, cod, fallos>>
       \/ /\ \/ Falla("compr")
             \/ p1 = 0 /\ Eof /\ Truncated /\ UNCHANGED fallos
             \/ p1 > 0 /\ st["snk"] = "ended" /\ UNCHANGED fallos
          /\ Raise("mid", Compr_code)
          /\ UNCHANGED <<p1, p2>>
    /\ UNCHANGED <<config, script, files, ret, puerto, imagen, disco, leido, sent, percent>>

Middle == Comprime \/ ErrorStep("mid")

-----------------------------------------------------------------------------
(***************************************************************************)
(* Last stage: split or nc (gen), rest_cmd (rest).                         *)
(***************************************************************************)

\* Neither split nor nc is followed by error: their exit status is the one of
\* the pipeline.  Without a port nc can only fail.
Sink ==
    /\ Gen /\ st["snk"] = "run"
    /\ \/ /\ puerto /\ p2 > 0
          /\ p2' = p2 - 1 /\ imagen' = [imagen EXCEPT ![id] = @ + 1]
          /\ UNCHANGED <<st, ret, fallos>>
       \/ /\ puerto /\ p2 = 0 /\ st["mid"] = "ended"
          /\ st' = [st EXCEPT !["snk"] = "ended"]
          /\ UNCHANGED <<p2, imagen, ret, fallos>>
       \/ /\ \/ Falla("sink")
             \/ ~puerto /\ UNCHANGED fallos
          /\ st' = [st EXCEPT !["snk"] = "ended"]
          /\ ret' = [ret EXCEPT !["snk"] = 1]
          /\ UNCHANGED <<p2, imagen>>
    /\ UNCHANGED <<config, script, files, cod, puerto, disco, leido, sent, p1, percent>>

Rest_code == CASE cloner[id] = "ntfsclone" -> 25 [] cloner[id] = "partclone" -> 26
               [] cloner[id] = "dd" -> 27 [] OTHER -> 28

\* The cloner knows how much to write: it ends when it has written all of it,
\* without waiting for the end of its input.  An early end of input makes it
\* fail, except that dd_rescue takes one at a block boundary for a normal end.
Rest_cmd ==
    /\ Rest /\ st["snk"] = "run"
    /\ \/ /\ p2 > 0 /\ disco[id] < Size
          /\ p2' = p2 - 1 /\ disco' = [disco EXCEPT ![id] = @ + 1]
          /\ UNCHANGED <<stop, st, cod, fallos>>
       \/ /\ \/ disco[id] = Size
             \/ cloner[id] = "dd" /\ p2 = 0 /\ st["mid"] = "ended"
          /\ st' = [st EXCEPT !["snk"] = "ended"]
          /\ stop' = (stop \/ StopsMonitor)
          /\ UNCHANGED <<p2, disco, cod, fallos>>
       \/ /\ \/ Falla("cloner")
             \/ disco[id] < Size /\ p2 = 0 /\ st["mid"] = "ended" /\ UNCHANGED fallos
          /\ Raise("snk", Rest_code)
          /\ UNCHANGED <<p2, disco, stop>>
    /\ UNCHANGED <<config, script, error, ret, puerto, imagen, leido, sent, p1, percent>>

Last == Sink \/ Rest_cmd \/ ErrorStep("snk")

-----------------------------------------------------------------------------
(***************************************************************************)
(* The script itself                                                       *)
(***************************************************************************)

Exit(code) ==
    /\ fase' = "exit" /\ salida' = code

\* The image of this partition goes to the server.
SentToServer == accion[id] = "gen" /\ medio = "net"

AtPartition == fase = "next" /\ id <= NParts

Skip ==
    /\ AtPartition /\ accion[id] = "none"
    /\ id' = id + 1
    /\ UNCHANGED <<config, fase, salida, success_gen, meta, files, procs, data, percent, fallos>>

\* A swap partition is copied by dd (or made by mkswap) without a pipeline.
Swap ==
    /\ AtPartition /\ accion[id] # "none" /\ swap[id]
    /\ IF accion[id] = "gen"
       THEN imagen' = [imagen EXCEPT ![id] = Size] /\ UNCHANGED disco
       ELSE disco' = [disco EXCEPT ![id] = Size] /\ UNCHANGED imagen
    /\ id' = id + 1
    /\ success_gen' = (success_gen \/ SentToServer)
    /\ UNCHANGED <<config, fase, salida, meta, files, procs, leido, sent, p1, p2, percent, fallos>>

\* Something before the pipeline fails (mkdir, cp, umount, [ -b ], the dd of a
\* swap partition): sh -e ends the script; the old image may be gone already.
Prep_fails ==
    /\ AtPartition /\ accion[id] # "none"
    /\ Falla("prep")
    /\ IF accion[id] = "gen" THEN imagen' \in {imagen, [imagen EXCEPT ![id] = 0]}
                            ELSE UNCHANGED imagen
    /\ Exit(1)
    /\ UNCHANGED <<config, id, success_gen, meta, files, procs, disco, leido, sent, p1, p2, percent>>

\* What every pipeline starts from.
NewPipeline ==
    /\ fase' = "pipe"
    /\ cod' = [p \in Procs |-> 0] /\ ret' = [p \in Procs |-> 0]
    /\ leido' = 0 /\ sent' = 0 /\ p1' = 0 /\ p2' = 0 /\ percent' = 0
    /\ UNCHANGED <<config, id, salida, success_gen, meta>>

\* The previous image is removed and its directory made anew.  A server that
\* gives no port is reported (53), and the pipeline is started nevertheless.
Start_gen ==
    /\ AtPartition /\ accion[id] = "gen" /\ ~swap[id]
    /\ imagen' = [imagen EXCEPT ![id] = 0]
    /\ st' = [p \in Procs |-> IF p = "mon" THEN "check"
                             ELSE IF p = "con" THEN "ended" ELSE "run"]
    /\ \/ puerto' = TRUE /\ UNCHANGED <<files, fallos>>
       \/ /\ medio = "net" /\ Falla("port")
          /\ puerto' = FALSE /\ stop' = TRUE /\ error' = 53
    /\ NewPipeline
    /\ UNCHANGED disco

Start_rest ==
    /\ AtPartition /\ accion[id] = "rest" /\ ~swap[id]
    /\ disco' = [disco EXCEPT ![id] = 0]
    /\ st' = [p \in Procs |-> CASE p \in {"mon", "src"} -> "off"
                              [] p = "con" -> IF medio = "net" THEN "port" ELSE "start"
                              [] OTHER -> "run"]
    /\ puerto' = TRUE
    /\ NewPipeline
    /\ UNCHANGED <<files, imagen, fallos>>

\* [ ! -f $ERROR ] || exit   (Variant: the test forgotten.)
Reported_never == FALSE
Reported == error # 0

\* The shell has waited for every member.  Under sh -e the exit status of the
\* last stage ends the script; otherwise the ERROR file does.
Pipeline_done ==
    /\ fase = "pipe" /\ \A p \in Procs : st[p] = "ended"
    /\ \/ /\ ret["snk"] = 1
          /\ Exit(1) /\ UNCHANGED <<id, success_gen>>
       \/ /\ ret["snk"] = 0 /\ Reported
          /\ Exit(error) /\ UNCHANGED id
          /\ success_gen' = (success_gen \/ SentToServer)
       \/ /\ ret["snk"] = 0 /\ ~Reported
          /\ fase' = "next" /\ id' = id + 1 /\ UNCHANGED salida
          /\ success_gen' = (success_gen \/ SentToServer)
    /\ UNCHANGED <<config, meta, files, procs, data, percent, fallos>>

\* After the loops: a net backup sends its metadata.  error 54 and 55 are
\* reported by error(), which succeeds, so the exit status is 0 either way.
Put_meta ==
    /\ fase = "next" /\ id = NParts + 1
    /\ Exit(0)
    /\ \/ ~success_gen /\ UNCHANGED <<meta, files, fallos>>
       \/ success_gen /\ meta' = TRUE /\ UNCHANGED <<files, fallos>>
       \/ /\ success_gen /\ Falla("meta")
          /\ stop' = TRUE /\ error' \in {54, 55}
          /\ UNCHANGED meta
    /\ UNCHANGED <<config, id, success_gen, procs, data, percent>>

Script == Skip \/ Swap \/ Prep_fails \/ Start_gen \/ Start_rest \/ Pipeline_done \/ Put_meta

Terminated == fase = "exit" /\ UNCHANGED vars

Concatenator == Concatena \/ ErrorStep("con")

Next == Script \/ Monitor \/ Concatenator \/ Source \/ Middle \/ Last \/ Terminated

Spec == Init /\ [][Next]_vars

\* The kernel schedules every process that can go on, and the script; it does
\* not owe anybody a failure.
WithoutFailure(A) == A /\ UNCHANGED fallos

FairSpec ==
    /\ Spec
    /\ WF_vars(WithoutFailure(Script))
    /\ WF_vars(WithoutFailure(Monitor))
    /\ WF_vars(WithoutFailure(Concatenator))
    /\ WF_vars(WithoutFailure(Source))
    /\ WF_vars(WithoutFailure(Middle))
    /\ WF_vars(WithoutFailure(Last))

-----------------------------------------------------------------------------
(***************************************************************************)
(* Properties                                                              *)
(***************************************************************************)

\* What was marked for partition q has been carried out completely.
Done(q) ==
    /\ accion[q] = "gen" => imagen[q] = Size
    /\ accion[q] = "rest" => disco[q] = Size

\* Every partition the script has left behind is complete, and an exit status
\* of 0 means that all are: no failure of any member of any pipeline is lost
\* between error(), the ERROR file and the shell's exit status.
DoneBehind ==
    /\ \A q \in Parts : q < id => Done(q)
    /\ fase = "exit" /\ salida = 0 => id = NParts + 1

\* A STOP_MONITOR left over from one partition never meets the monitor of the
\* next: between partitions there is neither STOP_MONITOR nor ERROR.
CleanHandover == fase = "next" => ~stop /\ error = 0

\* Without external failures, and with complete images, no race of the members
\* makes the script fail.
NoSpuriousFailure ==
    (fallos = 0 /\ \A q \in Parts : accion[q] = "rest" => imagen[q] = Size)
        => error = 0 /\ (fase = "exit" => salida = 0)

\* Once ERROR exists the script works on no other partition.
StopsAtError == [][error # 0 => id' = id]_vars

\* concatena waits for the monitor of a feed that did not deliver the image: it
\* failed without a report, or the image is not complete.
Orphaned ==
    /\ Rest /\ st["mon"] # "ended" /\ st["src"] = "ended"
    /\ ret["src"] = 1 \/ imagen[id] < Size

\* The script ends, whatever fails and in whatever order its processes run: the
\* monitor of every other pipeline is stopped, and nobody waits for a pipe for
\* ever.
Termination == <>(fase = "exit") \/ <>[]Orphaned

\* The script as the session sees it: where each partition's data is to go and
\* how much of it is there.
Dest == [q \in Parts |-> IF accion[q] = "gen" THEN imagen[q] ELSE disco[q]]
Outcome == IF fase # "exit" THEN "run" ELSE IF salida = 0 THEN "ok" ELSE "failed"

Abstract == INSTANCE ActionList WITH
    marked <- [q \in Parts |-> accion[q] # "none"],
    dest <- Dest, pos <- id, fin <- Outcome

\* The pipelines, with all their concurrency and failures, do what ActionList
\* says: destinations are written one after the other and completed in order.
ImplementsActionList == Abstract!ASpec

\* A feed that fails is reported: concatena's  || error 51  is there for it.
\* Not so in the code (README, section 6): the monitor polls on.
FeedFailureReported == (Rest /\ ret["src"] = 1) ~> (error # 0)

\* An exit status of 0 means that nothing was reported with error().
\* Not so in the code (README, section 6): errors 54 and 55 leave it 0.
SuccessIsErrorFree == fase = "exit" /\ salida = 0 => error = 0

=============================================================================
