------------------------- MODULE FilesystemsProofs -------------------------
(***************************************************************************)
(* What fin.d/filesystems guarantees for any number of partitions, any     *)
(* image size, any pipe capacity and any number of failures.               *)
(***************************************************************************)
EXTENDS Filesystems, TLAPS

ErrorStates == {"touch", "test", "write"}

\* Somebody has got so far in error() that ERROR exists or is going to.
Alarm == error # 0 \/ \E p \in Procs : st[p] \in {"test", "write"}

\* The cloner has done its whole job.
Delivered == IF accion[id] = "gen" THEN sent = Size ELSE disco[id] = Size

\* The last command of the cloner's stage is over.
ClonerEnded == IF accion[id] = "gen" THEN st["src"] = "ended" ELSE st["snk"] = "ended"

\* Where each member can be, and which codes it reports.
Places ==
    /\ st["mon"] \in {"off", "check", "poll", "status", "end", "ended"} \cup ErrorStates
    /\ st["con"] \in {"port", "start", "wait", "ended"} \cup ErrorStates
    /\ st["src"] \in {"off", "run", "ended"} \cup ErrorStates
    /\ st["mid"] \in {"run", "ended"} \cup ErrorStates
    /\ st["snk"] \in {"run", "ended"} \cup ErrorStates
    /\ accion[id] = "gen" => st["snk"] \notin ErrorStates
    /\ (st["con"] \in {"port", "start"} \/ (st["con"] \in ErrorStates /\ cod["con"] = 52))
          => st["mon"] = "off" /\ st["src"] = "off"
    /\ st["mon"] \in ErrorStates => cod["mon"] = 71
    /\ st["con"] \in ErrorStates => cod["con"] \in {51, 52}
    /\ st["src"] \in ErrorStates => cod["src"] \in {21, 22, 23, 24, 41}
    /\ st["mid"] \in ErrorStates => cod["mid"] \in 31..36
    /\ st["snk"] \in ErrorStates => cod["snk"] \in 25..28

\* Nothing is lost inside the pipes.
Conservation ==
    /\ accion[id] = "gen" => sent = p1 + p2 + imagen[id]
    /\ accion[id] = "rest" => sent = p1 + p2 + disco[id] /\ sent <= leido

\* Why a member that has ended may have ended.
Endings ==
    /\ accion[id] = "gen" => st["con"] = "ended"
    /\ accion[id] = "gen" /\ st["src"] = "ended" => sent = Size \/ error # 0
    /\ accion[id] = "gen" /\ st["snk"] = "ended" =>
          ret["snk"] = 1 \/ (st["mid"] = "ended" /\ p2 = 0)
    /\ accion[id] = "rest" /\ st["con"] = "ended" =>
          error # 0 \/ (st["mon"] = "ended" /\ st["src"] = "ended")
    /\ st["mid"] = "ended" => error # 0 \/ (Eof /\ p1 = 0)
    /\ accion[id] = "rest" /\ st["snk"] = "ended" => Alarm \/ disco[id] = Size

\* What STOP_MONITOR and the end of the monitor mean.
StopMeaning ==
    /\ percent = Size => cloner[id] # "dd" /\ Delivered
    /\ st["mon"] = "end" => percent = Size
    /\ st["mon"] = "ended" \/ stop => Alarm \/ Delivered
    /\ cloner[id] = "dd" /\ (st["mon"] = "ended" \/ stop) => Alarm \/ ClonerEnded
    /\ cloner[id] # "dd" /\ stop => Alarm
    /\ st["mon"] = "ended" /\ stop => Alarm

PipeInv ==
    /\ id \in Parts /\ accion[id] \in {"gen", "rest"}
    /\ Places /\ Conservation /\ Endings /\ StopMeaning

Quiet ==
    /\ \A p \in Procs : st[p] = "ended"
    /\ fase = "next" => error = 0 /\ ~stop
    /\ fase = "exit" /\ salida = 0 => id = NParts + 1

IInv ==
    /\ TypeOK
    /\ \A q \in Parts : q < id => Done(q)
    /\ fase = "pipe" => PipeInv
    /\ fase # "pipe" => Quiet
-----------------------------------------------------------------------------

USE SizesAssumption DEF Parts, Procs

LEMMA FunctionRange ==
  ASSUME NEW D, NEW S, NEW T, S \subseteq T, NEW f \in [D -> S]
  PROVE  f \in [D -> T]
OBVIOUS

\* The script starts with its invariant: nothing is running, no file is left.
LEMMA InitOK == Init => IInv
<1> SUFFICES ASSUME Init PROVE IInv
  OBVIOUS
<1>1. imagen \in [Parts -> 0..Size] /\ accion \in [Parts -> {"none", "gen", "rest"}]
  BY ChoicesAssumption, Zenon, FunctionRange DEF Init, InitEstado
<1>2. TypeConfig /\ TypeScript
  <2>1. TypeConfig
    BY <1>1, Zenon DEF Init, InitEstado, TypeConfig
  <2>2. TypeScript
    <3>1. fase = "next" /\ id = 1 /\ salida = 0 /\ error = 0
      BY DEF Init, InitEstado
    <3>2. {success_gen, meta, stop} \subseteq BOOLEAN
      BY DEF Init, InitEstado
    <3> QED
      BY <3>1, <3>2 DEF TypeScript
  <2> QED
    BY <2>1, <2>2
<1>3. TypeProcs
  BY DEF Init, InitEstado, TypeProcs, AllEnded, States
<1>4. TypeData
  BY <1>1 DEF Init, InitEstado, TypeData
<1>5. Quiet
  BY DEF Init, InitEstado, Quiet, AllEnded
<1> QED
  BY <1>2, <1>3, <1>4, <1>5 DEF Init, InitEstado, IInv, TypeOK

\* Where error() returns to.
LEMMA ResumeAt ==
  ASSUME NEW p \in Procs
  PROVE  /\ Resume(p) \in {"check", "start", "run", "ended"}
         /\ cod[p] = 71 => Resume(p) = "check"
         /\ cod[p] = 52 => Resume(p) = "start"
         /\ cod[p] = 41 => Resume(p) \in {"run", "ended"}
         /\ cod[p] \notin {71, 52, 41} => Resume(p) = "ended"
BY DEF Resume

\* error(), whoever runs it.
LEMMA ErrorStepOK ==
  ASSUME IInv, NEW p \in Procs, ErrorStep(p)
  PROVE  IInv'
<1>0. UNCHANGED <<config, script, cod, ret, puerto, data, percent, fallos>>
  BY DEF ErrorStep
<1>1. fase = "pipe"
  BY DEF IInv, Quiet, ErrorStep
<1>2. PipeInv /\ TypeOK
  BY <1>1 DEF IInv
<1>3. /\ st[p] \in ErrorStates
      /\ \/ st[p] = "touch" /\ st' = [st EXCEPT ![p] = "test"] /\ stop' /\ error' = error
         \/ st[p] = "test" /\ st' = [st EXCEPT ![p] = "write"] /\ stop' = stop /\ error = 0 /\ error' = 0
         \/ st[p] # "touch" /\ st' = [st EXCEPT ![p] = Resume(p)] /\ stop' = stop /\ error' # 0 /\ error' \in Nat
  <2>1. cod[p] \in Nat \ {0}
    BY <1>2 DEF PipeInv, Places, ErrorStates, TypeOK, TypeProcs, ErrorStep
  <2> QED
    BY <2>1, <1>2 DEF ErrorStep, ErrorStates, TypeOK, TypeScript
<1>4. TypeOK'
  <2>1. TypeConfig' /\ TypeData'
    BY <1>0, <1>2 DEF config, data, TypeOK, TypeConfig, TypeData
  <2>2. TypeScript'
    BY <1>0, <1>2, <1>3 DEF script, TypeOK, TypeScript
  <2>3. TypeProcs'
    BY <1>0, <1>2, <1>3, ResumeAt DEF TypeOK, TypeProcs, States, Running
  <2> QED
    BY <2>1, <2>2, <2>3 DEF TypeOK
<1>5. st \in [Procs -> States]
  BY <1>2 DEF TypeOK, TypeProcs
<1>6. Alarm => Alarm'
  BY <1>3, <1>5 DEF Alarm, ErrorStates
<1>7. PipeInv'
  <2>1. Places'
    BY <1>0, <1>2, <1>3, <1>5, ResumeAt DEF PipeInv, Places, ErrorStates, config, script
  <2>2. Conservation'
    BY <1>0, <1>2 DEF PipeInv, Conservation, config, script, data
  <2>3. Endings'
    <3>1. error # 0 => error' # 0
      BY <1>3
    <3>2. \A r \in Procs : /\ st[r] = "ended" => st'[r] = "ended"
                           /\ st'[r] = "ended" => st[r] = "ended" \/ error' # 0
      BY <1>3, <1>5 DEF ErrorStates
    <3>3. accion[id] = "gen" => st["con"]' = "ended"
      BY <1>2, <3>2 DEF PipeInv, Endings
    <3>4. st["mid"]' = "ended" => error' # 0 \/ (Eof' /\ p1' = 0)
      BY <1>0, <1>2, <3>1, <3>2 DEF PipeInv, Endings, Eof, config, script, data
    <3>5. /\ accion[id] = "gen" /\ st["src"]' = "ended" => sent' = Size \/ error' # 0
          /\ accion[id] = "rest" /\ st["con"]' = "ended" =>
                error' # 0 \/ (st["mon"]' = "ended" /\ st["src"]' = "ended")
      BY <1>0, <1>2, <3>1, <3>2 DEF PipeInv, Endings, data
    <3>6. accion[id] = "gen" /\ st["snk"]' = "ended" =>
            ret'["snk"] = 1 \/ (st["mid"]' = "ended" /\ p2' = 0)
      <4>1. accion[id] = "gen" => st["snk"] \notin ErrorStates
        BY <1>2 DEF PipeInv, Places
      <4> QED
        BY <1>0, <1>2, <1>3, <1>5, <3>2, <4>1 DEF PipeInv, Endings, data
    <3>7. accion[id] = "rest" /\ st["snk"]' = "ended" => Alarm' \/ disco'[id] = Size
      BY <1>0, <1>2, <1>6, <3>2 DEF PipeInv, Endings, Alarm, data
    <3> QED
      BY <1>0, <3>3, <3>4, <3>5, <3>6, <3>7 DEF Endings, config, script
  <2>4. StopMeaning'
    <3>1. CASE st[p] = "touch"
      <4>1. Alarm'
        BY <3>1, <1>3, <1>5 DEF Alarm
      <4> QED
        BY <4>1, <3>1, <1>0, <1>2, <1>3, <1>5
        DEF PipeInv, StopMeaning, Delivered, config, script, data
    <3>2. CASE st[p] # "touch"
      <4>1. (stop' <=> stop) /\ (st["mon"]' = "ended" => st["mon"] = "ended")
            /\ (st["mon"]' = "end" => st["mon"] = "end")
        BY <3>2, <1>2, <1>3, <1>5, ResumeAt DEF PipeInv, Places, ErrorStates
      <4>2. (Delivered => Delivered') /\ (ClonerEnded => ClonerEnded')
        BY <1>0, <1>3, <1>5 DEF Delivered, ClonerEnded, config, script, data, ErrorStates
      <4> QED
        BY <4>1, <4>2, <1>0, <1>2, <1>6 DEF PipeInv, StopMeaning, config, script
    <3> QED
      BY <3>1, <3>2
  <2> QED
    BY <1>0, <1>2, <2>1, <2>2, <2>3, <2>4 DEF PipeInv, config, script
<1> QED
  BY <1>0, <1>1, <1>2, <1>4, <1>7 DEF IInv, Done, config, script, data

\* The monitor.  It ends because it saw 100 or because it saw STOP_MONITOR,
\* and in both cases takes STOP_MONITOR away.
LEMMA MonitorOK ==
  ASSUME IInv, MonitorCheck \/ MonitorPoll \/ MonitorStatus \/ MonitorEnd
  PROVE  IInv'
<1> USE DEF MonitorCheck, MonitorPoll, MonitorStatus, MonitorEnd, Raise, files, Falla
<1>0. UNCHANGED <<config, script, error, ret, puerto, data>>
  OBVIOUS
<1>1. fase = "pipe" /\ PipeInv /\ TypeOK
  BY DEF IInv, Quiet
<1>2. st \in [Procs -> States] /\ cod \in [Procs -> Nat]
  BY <1>1 DEF TypeOK, TypeProcs
<1>3. /\ st["mon"] \in {"check", "poll", "status", "end"}
      /\ \/ /\ st' = [st EXCEPT !["mon"] = "end"] /\ percent = Size
            /\ UNCHANGED <<stop, cod, percent>>
         \/ /\ st' = [st EXCEPT !["mon"] = "ended"] /\ ~stop'
            /\ stop \/ percent = Size
            /\ UNCHANGED <<cod, percent>>
         \/ /\ st' = [st EXCEPT !["mon"] = "poll"]
            /\ UNCHANGED <<stop, cod, percent>>
         \/ /\ st' \in {[st EXCEPT !["mon"] = "status"], [st EXCEPT !["mon"] = "check"]}
            /\ percent' = Parse_stats
            /\ UNCHANGED <<stop, cod>>
         \/ /\ st' = [st EXCEPT !["mon"] = "check"]
            /\ UNCHANGED <<stop, cod, percent>>
         \/ /\ st' = [st EXCEPT !["mon"] = "touch"] /\ cod' = [cod EXCEPT !["mon"] = 71]
            /\ UNCHANGED <<stop, percent>>
  <2>1. st["mon"] = "end" => percent = Size
    BY <1>1 DEF PipeInv, StopMeaning
  <2> QED
    BY <2>1
<1>4. fallos' \in 0..MaxFallos
  BY <1>1 DEF TypeOK, TypeData
<1>5. Parse_stats \in 0..Size /\ (Parse_stats = Size => cloner[id] # "dd" /\ Delivered)
  BY <1>1 DEF TypeOK, TypeData, Parse_stats, Delivered, PipeInv
<1>6. TypeOK'
  <2>1. TypeConfig'
    BY <1>0, <1>1 DEF config, TypeOK, TypeConfig
  <2>2. stop' \in BOOLEAN /\ percent' \in 0..Size
    BY <1>1, <1>3, <1>5 DEF TypeOK, TypeScript, TypeData
  <2>3. TypeScript' /\ TypeData'
    BY <1>0, <1>1, <1>4, <2>2 DEF script, data, TypeOK, TypeScript, TypeData
  <2>4. TypeProcs'
    BY <1>0, <1>1, <1>2, <1>3 DEF TypeOK, TypeProcs, States, Running
  <2> QED
    BY <2>1, <2>3, <2>4 DEF TypeOK
<1>7. \A r \in Procs \ {"mon"} : st'[r] = st[r]
  BY <1>2, <1>3
<1>8. Alarm => Alarm'
  BY <1>0, <1>3, <1>7 DEF Alarm
<1>9. PipeInv'
  <2>1. Places'
    BY <1>0, <1>1, <1>2, <1>3, <1>7 DEF PipeInv, Places, ErrorStates, config, script
  <2>2. Conservation'
    BY <1>0, <1>1 DEF PipeInv, Conservation, config, script, data
  <2>3. Endings'
    BY <1>0, <1>1, <1>3, <1>7, <1>8 DEF PipeInv, Endings, Eof, config, script, data
  <2>4. StopMeaning'
    <3>1. (Delivered <=> Delivered') /\ (ClonerEnded <=> ClonerEnded')
      BY <1>0, <1>7 DEF Delivered, ClonerEnded, config, script, data
    <3>2. percent' = Size => cloner'[id'] # "dd" /\ Delivered'
      BY <1>0, <1>1, <1>3, <1>5, <3>1 DEF PipeInv, StopMeaning, config, script
    <3>3. st'["mon"] = "end" => percent' = Size
      BY <1>1, <1>2, <1>3 DEF PipeInv, StopMeaning
    <3>4. st'["mon"] = "ended" => ~stop' /\ (stop \/ percent = Size)
      BY <1>2, <1>3
    <3>5. stop' => stop
      BY <1>3
    <3> QED
      BY <1>0, <1>1, <1>8, <3>1, <3>2, <3>3, <3>4, <3>5
      DEF PipeInv, StopMeaning, config, script
  <2> QED
    BY <1>0, <1>1, <2>1, <2>2, <2>3, <2>4 DEF PipeInv, config, script
<1> QED
  BY <1>0, <1>1, <1>6, <1>9 DEF IInv, Done, config, script, data

\* concatena.  It ends only when the monitor and the feed have ended.
LEMMA ConcatenaOK ==
  ASSUME IInv, Concatena
  PROVE  IInv'
<1> USE DEF Concatena, Raise, files, Falla
<1>0. UNCHANGED <<config, script, files, ret, data, percent>> /\ accion[id] = "rest"
  BY DEF Rest
<1>1. fase = "pipe" /\ PipeInv /\ TypeOK
  BY DEF IInv, Rest
<1>2. st \in [Procs -> States] /\ cod \in [Procs -> Nat]
  BY <1>1 DEF TypeOK, TypeProcs
<1>3. /\ st["con"] \in {"port", "start", "wait"}
      /\ \/ st' = [st EXCEPT !["con"] = "start"] /\ UNCHANGED cod
         \/ st' = [st EXCEPT !["con"] = "touch"] /\ cod' = [cod EXCEPT !["con"] = 52]
         \/ st' = [st EXCEPT !["con"] = "touch"] /\ cod' = [cod EXCEPT !["con"] = 51]
         \/ /\ st["con"] = "start"
            /\ st' = [st EXCEPT !["con"] = "wait", !["mon"] = "check", !["src"] = "run"] 
            /\ UNCHANGED cod
         \/ /\ st["mon"] = "ended" /\ st["src"] = "ended"
            /\ st' = [st EXCEPT !["con"] = "ended"] /\ UNCHANGED cod
  OBVIOUS
<1>4. fallos' \in 0..MaxFallos /\ puerto' \in BOOLEAN
  <2>1. fallos \in 0..MaxFallos /\ puerto \in BOOLEAN
    BY <1>1 DEF TypeOK, TypeData, TypeProcs
  <2>2. fallos' \in 0..MaxFallos
    BY <2>1
  <2>3. puerto' \in BOOLEAN
    BY <2>1
  <2> QED
    BY <2>2, <2>3
<1>5. TypeOK'
  <2>1. TypeConfig' /\ TypeScript'
    BY <1>0, <1>1 DEF config, script, TypeOK, TypeConfig, TypeScript
  <2>2. TypeData'
    BY <1>0, <1>1, <1>4 DEF data, TypeOK, TypeData
  <2>3. TypeProcs'
    BY <1>0, <1>1, <1>2, <1>3, <1>4 DEF TypeOK, TypeProcs, States, Running
  <2> QED
    BY <2>1, <2>2, <2>3 DEF TypeOK
<1>6. /\ \A r \in Procs \ {"con"} : st'[r] = st[r] \/ (st[r] = "off" /\ st'[r] \in {"check", "run"})
      /\ st'["mid"] = st["mid"] /\ st'["snk"] = st["snk"]
  BY <1>1, <1>2, <1>3 DEF PipeInv, Places
<1>7. Alarm => Alarm'
  BY <1>0, <1>3, <1>6 DEF Alarm
<1>8. PipeInv'
  <2>1. Places'
    BY <1>0, <1>1, <1>2, <1>3 DEF PipeInv, Places, ErrorStates, config, script
  <2>2. Conservation'
    BY <1>0, <1>1 DEF PipeInv, Conservation, config, script, data
  <2>3. Endings'
    BY <1>0, <1>1, <1>2, <1>3, <1>6, <1>7 DEF PipeInv, Endings, Eof, config, script, data
  <2>4. StopMeaning'
    <3>1. (Delivered <=> Delivered') /\ (ClonerEnded <=> ClonerEnded')
      BY <1>0, <1>6 DEF Delivered, ClonerEnded, config, script, data
    <3>2. /\ st'["mon"] = "ended" => st["mon"] = "ended"
          /\ st'["mon"] = "end" => st["mon"] = "end"
      BY <1>6
    <3> QED
      BY <1>0, <1>1, <1>7, <3>1, <3>2 DEF PipeInv, StopMeaning, config, script
  <2> QED
    BY <1>0, <1>1, <2>1, <2>2, <2>3, <2>4 DEF PipeInv, config, script
<1> QED
  BY <1>0, <1>1, <1>5, <1>8 DEF IInv, Done, config, script, data

\* gen_cmd.  It ends well only after the last chunk; dd then stops the monitor.
LEMMA Gen_cmdOK ==
  ASSUME IInv, Gen_cmd
  PROVE  IInv'
<1> USE DEF Gen_cmd, Gen, Raise, Falla
<1>0. /\ UNCHANGED <<config, script, error, ret, puerto, imagen, disco, leido, p2, percent>>
      /\ accion[id] = "gen"
  OBVIOUS
<1>1. fase = "pipe" /\ PipeInv /\ TypeOK
  BY DEF IInv
<1>2. st \in [Procs -> States] /\ cod \in [Procs -> Nat] /\ sent \in 0..Size /\ p1 \in 0..PipeCap
      /\ fallos \in 0..MaxFallos
  BY <1>1 DEF TypeOK, TypeProcs, TypeData
<1>3. /\ st["src"] = "run"
      /\ \/ /\ sent < Size /\ p1 < PipeCap /\ sent' = sent + 1 /\ p1' = p1 + 1
            /\ UNCHANGED <<stop, st, cod>>
         \/ /\ sent = Size /\ st' = [st EXCEPT !["src"] = "ended"]
            /\ stop' = (stop \/ StopsMonitor)
            /\ UNCHANGED <<sent, p1, cod>>
         \/ /\ st' = [st EXCEPT !["src"] = "touch"] /\ cod' = [cod EXCEPT !["src"] = Gen_code]
            /\ UNCHANGED <<sent, p1, stop>>
  OBVIOUS
<1>4. fallos' \in 0..MaxFallos
  BY <1>2
<1>10. sent' \in 0..Size /\ p1' \in 0..PipeCap /\ sent' - p1' = sent - p1
  BY <1>2, <1>3
<1>11. imagen[id] \in 0..Size /\ disco[id] \in 0..Size /\ p2 \in 0..PipeCap
  BY <1>1 DEF PipeInv, TypeOK, TypeData
<1>5. Gen_code \in {21, 22, 23, 24}
  BY DEF Gen_code
<1>6. TypeOK'
  <2>1. TypeConfig'
    BY <1>0, <1>1 DEF config, TypeOK, TypeConfig
  <2>2. stop' \in BOOLEAN
    BY <1>1, <1>3 DEF TypeOK, TypeScript
  <2>3. TypeScript'
    BY <1>0, <1>1, <2>2 DEF script, TypeOK, TypeScript
  <2>4. TypeData'
    BY <1>0, <1>1, <1>4, <1>10 DEF TypeOK, TypeData
  <2>5. TypeProcs'
    BY <1>0, <1>1, <1>2, <1>3, <1>5 DEF TypeOK, TypeProcs, States, Running
  <2> QED
    BY <2>1, <2>3, <2>4, <2>5 DEF TypeOK
<1>7. \A r \in Procs \ {"src"} : st'[r] = st[r]
  BY <1>2, <1>3
<1>8. Alarm => Alarm'
  BY <1>0, <1>3, <1>7 DEF Alarm
<1>9. PipeInv'
  <2>1. Places'
    BY <1>0, <1>1, <1>2, <1>3, <1>5, <1>7 DEF PipeInv, Places, ErrorStates, config, script
  <2>2. Conservation'
    <3>1. sent = p1 + p2 + imagen[id]
      BY <1>0, <1>1 DEF PipeInv, Conservation
    <3>2. sent' = p1' + p2 + imagen[id]
      BY <1>2, <1>10, <1>11, <3>1
    <3> QED
      BY <1>0, <3>2 DEF Conservation, config, script
  <2>3. Endings'
    <3>1. st'["src"] = "ended" => sent' = Size
      BY <1>2, <1>3
    <3>2. st["mid"] = "ended" => error # 0
      BY <1>0, <1>1, <1>3 DEF PipeInv, Endings, Eof
    <3> QED
      BY <1>0, <1>1, <1>7, <3>1, <3>2 DEF PipeInv, Endings, Eof, config, script
  <2>4. StopMeaning'
    <3>1. /\ Delivered => Delivered'
          /\ ClonerEnded' => Delivered'
          /\ ~ClonerEnded
      BY <1>0, <1>2, <1>3 DEF Delivered, ClonerEnded, config, script
    <3>2. stop' => stop \/ (cloner[id] = "dd" /\ ClonerEnded')
      BY <1>0, <1>2, <1>3 DEF StopsMonitor, ClonerEnded, config, script
    <3>3. cloner[id] = "dd" /\ (st["mon"] = "ended" \/ stop) => Alarm
      BY <1>1, <3>1 DEF PipeInv, StopMeaning
    <3> QED
      BY <1>0, <1>1, <1>7, <1>8, <3>1, <3>2, <3>3 DEF PipeInv, StopMeaning, config, script
  <2> QED
    BY <1>0, <1>1, <2>1, <2>2, <2>3, <2>4 DEF PipeInv, config, script
<1> QED
  BY <1>0, <1>1, <1>6, <1>9 DEF IInv, Done, config, script

\* The feed of concatena.
LEMMA FeedOK ==
  ASSUME IInv, Concatena2 \/ Udp_receiver
  PROVE  IInv'
<1> USE DEF Concatena2, Udp_receiver, Rest, Raise, Falla
<1>0. /\ UNCHANGED <<config, script, files, puerto, imagen, disco, p2, percent>>
      /\ accion[id] = "rest"
  OBVIOUS
<1>1. fase = "pipe" /\ PipeInv /\ TypeOK
  BY DEF IInv
<1>2. st \in [Procs -> States] /\ cod \in [Procs -> Nat] /\ ret \in [Procs -> 0..1]
      /\ sent \in 0..Size /\ leido \in 0..Size /\ p1 \in 0..PipeCap
      /\ fallos \in 0..MaxFallos /\ imagen[id] \in 0..Size
  BY <1>1 DEF TypeOK, TypeProcs, TypeData, PipeInv
<1>3. /\ st["src"] = "run"
      /\ \/ /\ leido < imagen[id] /\ p1 < PipeCap
            /\ leido' = leido + 1 /\ sent' = sent + 1 /\ p1' = p1 + 1
            /\ st["mid"] # "ended"
            /\ UNCHANGED <<st, cod, ret>>
         \/ /\ st' = [st EXCEPT !["src"] = "ended"]
            /\ ret' = ret \/ ret' = [ret EXCEPT !["src"] = 1]
            /\ UNCHANGED <<leido, sent, p1, cod>>
         \/ /\ st' = [st EXCEPT !["src"] = "touch"] /\ cod' = [cod EXCEPT !["src"] = 41]
            /\ leido' = leido \/ (leido < imagen[id] /\ leido' = leido + 1)
            /\ UNCHANGED <<sent, p1, ret>>
  OBVIOUS
<1>4. fallos' \in 0..MaxFallos
  BY <1>2
<1>5. sent <= leido /\ sent = p1 + p2 + disco[id]
  BY <1>0, <1>1 DEF PipeInv, Conservation
<1>10. /\ sent' \in 0..Size /\ p1' \in 0..PipeCap /\ leido' \in 0..Size
       /\ sent' <= leido' /\ sent' - p1' = sent - p1
  BY <1>2, <1>3, <1>5
<1>11. imagen[id] \in 0..Size /\ disco[id] \in 0..Size /\ p2 \in 0..PipeCap
  BY <1>1 DEF PipeInv, TypeOK, TypeData
<1>6. TypeOK'
  <2>1. TypeConfig' /\ TypeScript'
    BY <1>0, <1>1 DEF config, script, files, TypeOK, TypeConfig, TypeScript
  <2>2. TypeData'
    BY <1>0, <1>1, <1>4, <1>10 DEF TypeOK, TypeData
  <2>3. TypeProcs'
    BY <1>0, <1>1, <1>2, <1>3 DEF TypeOK, TypeProcs, States, Running
  <2> QED
    BY <2>1, <2>2, <2>3 DEF TypeOK
<1>7. (\A r \in Procs \ {"src"} : st'[r] = st[r]) /\ ret'["snk"] = ret["snk"]
  BY <1>2, <1>3
<1>8. Alarm => Alarm'
  BY <1>0, <1>3, <1>7 DEF Alarm, files
<1>9. PipeInv'
  <2>1. Places'
    BY <1>0, <1>1, <1>2, <1>3, <1>7 DEF PipeInv, Places, ErrorStates, config, script
  <2>2. Conservation'
    <3>1. sent' = p1' + p2 + disco[id]
      BY <1>2, <1>5, <1>10, <1>11
    <3> QED
      BY <1>0, <1>10, <3>1 DEF Conservation, config, script
  <2>3. Endings'
    <3>1. st["con"] = "ended" => error # 0
      BY <1>0, <1>1, <1>3 DEF PipeInv, Endings
    <3>2. st["mid"] = "ended" => error # 0
      BY <1>0, <1>1, <1>3, <3>1 DEF PipeInv, Endings, Eof
    <3> QED
      BY <1>0, <1>1, <1>7, <1>8, <3>1, <3>2 DEF PipeInv, Endings, Eof, config, script, files
  <2>4. StopMeaning'
    <3>1. (Delivered <=> Delivered') /\ (ClonerEnded <=> ClonerEnded')
      BY <1>0, <1>7 DEF Delivered, ClonerEnded, config, script
    <3> QED
      BY <1>0, <1>1, <1>7, <1>8, <3>1 DEF PipeInv, StopMeaning, config, script, files
  <2> QED
    BY <1>0, <1>1, <2>1, <2>2, <2>3, <2>4 DEF PipeInv, config, script
<1> QED
  BY <1>0, <1>1, <1>6, <1>9 DEF IInv, Done, config, script

\* comprime and descomprime.  They end well only at the end of their input.
LEMMA ComprimeOK ==
  ASSUME IInv, Comprime
  PROVE  IInv'
<1> USE DEF Comprime, Raise, Falla
<1>0. UNCHANGED <<config, script, files, ret, puerto, imagen, disco, leido, sent, percent>>
  OBVIOUS
<1>1. fase = "pipe" /\ PipeInv /\ TypeOK
  BY DEF IInv
<1>2. st \in [Procs -> States] /\ cod \in [Procs -> Nat]
      /\ p1 \in 0..PipeCap /\ p2 \in 0..PipeCap /\ fallos \in 0..MaxFallos
  BY <1>1 DEF TypeOK, TypeProcs, TypeData
<1>3. /\ st["mid"] = "run"
      /\ \/ /\ p1 > 0 /\ p2 < PipeCap /\ p1' = p1 - 1 /\ p2' = p2 + 1
            /\ st["snk"] # "ended"
            /\ UNCHANGED <<st, cod>>
         \/ /\ p1 = 0 /\ Eof /\ st' = [st EXCEPT !["mid"] = "ended"]
            /\ UNCHANGED <<p1, p2, cod>>
         \/ /\ st' = [st EXCEPT !["mid"] = "touch"] /\ cod' = [cod EXCEPT !["mid"] = Compr_code]
            /\ UNCHANGED <<p1, p2>>
  OBVIOUS
<1>4. fallos' \in 0..MaxFallos
  BY <1>2
<1>5. Compr_code \in 31..36
  BY DEF Compr_code
<1>6. p1' \in 0..PipeCap /\ p2' \in 0..PipeCap /\ p1' + p2' = p1 + p2
  BY <1>2, <1>3
<1>7. TypeOK'
  <2>1. TypeConfig' /\ TypeScript'
    BY <1>0, <1>1 DEF config, script, files, TypeOK, TypeConfig, TypeScript
  <2>2. TypeData'
    BY <1>0, <1>1, <1>4, <1>6 DEF TypeOK, TypeData
  <2>3. TypeProcs'
    BY <1>0, <1>1, <1>2, <1>3, <1>5 DEF TypeOK, TypeProcs, States, Running
  <2> QED
    BY <2>1, <2>2, <2>3 DEF TypeOK
<1>8. \A r \in Procs \ {"mid"} : st'[r] = st[r]
  BY <1>2, <1>3
<1>9. Alarm => Alarm'
  BY <1>0, <1>3, <1>8 DEF Alarm, files
<1>10. PipeInv'
  <2>1. Places'
    BY <1>0, <1>1, <1>2, <1>3, <1>5, <1>8 DEF PipeInv, Places, ErrorStates, config, script
  <2>2. Conservation'
    <3>1. imagen[id] \in 0..Size /\ disco[id] \in 0..Size
      BY <1>1 DEF PipeInv, TypeOK, TypeData
    <3> QED
      BY <1>0, <1>1, <1>2, <1>6, <3>1 DEF PipeInv, Conservation, config, script
  <2>3. Endings'
    <3>1. st'["mid"] = "ended" => p1' = 0 /\ Eof
      BY <1>2, <1>3
    <3>2. Eof <=> Eof'
      BY <1>0, <1>8 DEF Eof, config, script
    <3>3. accion[id] = "gen" /\ st["snk"] = "ended" => ret["snk"] = 1
      BY <1>1, <1>3 DEF PipeInv, Endings
    <3> QED
      BY <1>0, <1>1, <1>8, <1>9, <3>1, <3>2, <3>3 DEF PipeInv, Endings, config, script, files
  <2>4. StopMeaning'
    <3>1. (Delivered <=> Delivered') /\ (ClonerEnded <=> ClonerEnded')
      BY <1>0, <1>8 DEF Delivered, ClonerEnded, config, script
    <3> QED
      BY <1>0, <1>1, <1>8, <1>9, <3>1 DEF PipeInv, StopMeaning, config, script, files
  <2> QED
    BY <1>0, <1>1, <2>1, <2>2, <2>3, <2>4 DEF PipeInv, config, script
<1> QED
  BY <1>0, <1>1, <1>7, <1>10 DEF IInv, Done, config, script

\* split and nc.  They end well only at the end of their input.
LEMMA SinkOK ==
  ASSUME IInv, Sink
  PROVE  IInv'
<1> USE DEF Sink, Gen, Falla
<1>0. /\ UNCHANGED <<config, script, files, cod, puerto, disco, leido, sent, p1, percent>>
      /\ accion[id] = "gen"
  OBVIOUS
<1>1. fase = "pipe" /\ PipeInv /\ TypeOK
  BY DEF IInv
<1>2. /\ st \in [Procs -> States] /\ ret \in [Procs -> 0..1] /\ imagen \in [Parts -> 0..Size]
      /\ p1 \in 0..PipeCap /\ p2 \in 0..PipeCap /\ fallos \in 0..MaxFallos
      /\ sent \in 0..Size /\ id \in Parts
  BY <1>1 DEF TypeOK, TypeProcs, TypeData, PipeInv
<1>3. /\ st["snk"] = "run"
      /\ \/ /\ p2 > 0 /\ p2' = p2 - 1 /\ imagen' = [imagen EXCEPT ![id] = imagen[id] + 1]
            /\ UNCHANGED <<st, ret>>
         \/ /\ p2 = 0 /\ st["mid"] = "ended" /\ st' = [st EXCEPT !["snk"] = "ended"]
            /\ UNCHANGED <<p2, imagen, ret>>
         \/ /\ st' = [st EXCEPT !["snk"] = "ended"] /\ ret' = [ret EXCEPT !["snk"] = 1]
            /\ UNCHANGED <<p2, imagen>>
  OBVIOUS
<1>4. fallos' \in 0..MaxFallos
  BY <1>2
<1>5. sent = p1 + p2 + imagen[id] /\ imagen[id] \in 0..Size
  BY <1>0, <1>1, <1>2 DEF PipeInv, Conservation
<1>6. /\ p2' \in 0..PipeCap /\ imagen' \in [Parts -> 0..Size]
      /\ p2' + imagen'[id] = p2 + imagen[id]
      /\ \A q \in Parts : q # id => imagen'[q] = imagen[q]
  <2>1. p2 > 0 => imagen[id] + 1 \in 0..Size
    <3> DEFINE i == imagen[id]
    <3>1. sent = p1 + p2 + i /\ i \in 0..Size
      BY <1>5
    <3>2. sent \in 0..Size /\ p1 \in 0..PipeCap /\ p2 \in 0..PipeCap
      BY <1>2
    <3> HIDE DEF i
    <3>3. p2 > 0 => i + 1 \in 0..Size
      BY <3>1, <3>2
    <3> QED
      BY <3>3 DEF i
  <2>2. CASE p2 > 0 /\ p2' = p2 - 1 /\ imagen' = [imagen EXCEPT ![id] = imagen[id] + 1]
    <3>1. imagen' \in [Parts -> 0..Size] /\ imagen'[id] = imagen[id] + 1
          /\ \A q \in Parts : q # id => imagen'[q] = imagen[q]
      BY <1>2, <2>1, <2>2
    <3>2. p2' \in 0..PipeCap /\ p2' + (imagen[id] + 1) = p2 + imagen[id]
      BY <1>2, <1>5, <2>2
    <3> QED
      BY <3>1, <3>2
  <2>3. CASE UNCHANGED <<p2, imagen>>
    BY <1>2, <2>3
  <2> QED
    BY <1>3, <2>2, <2>3
<1>7. TypeOK'
  <2>1. TypeConfig' /\ TypeScript'
    BY <1>0, <1>1 DEF config, script, files, TypeOK, TypeConfig, TypeScript
  <2>2. TypeData'
    BY <1>0, <1>1, <1>4, <1>6 DEF TypeOK, TypeData
  <2>3. TypeProcs'
    <3>1. st' \in [Procs -> States]
      BY <1>2, <1>3 DEF States
    <3>2. ret' \in [Procs -> 0..1]
      BY <1>2, <1>3
    <3>3. cod' \in [Procs -> Nat] /\ puerto' \in BOOLEAN
      BY <1>0, <1>1 DEF TypeOK, TypeProcs
    <3> QED
      BY <3>1, <3>2, <3>3 DEF TypeProcs
  <2> QED
    BY <2>1, <2>2, <2>3 DEF TypeOK
<1>8. \A r \in Procs \ {"snk"} : st'[r] = st[r]
  BY <1>2, <1>3
<1>9. Alarm => Alarm'
  BY <1>0, <1>3, <1>8 DEF Alarm, files
<1>10. PipeInv'
  <2>1. Places'
    BY <1>0, <1>1, <1>2, <1>3, <1>8 DEF PipeInv, Places, ErrorStates, config, script
  <2>2. Conservation'
    <3>1. imagen'[id] \in Int /\ imagen[id] \in Int 
          /\ p1 \in Int /\ p2 \in Int /\ p2' \in Int /\ sent \in Int
      BY <1>2, <1>6
    <3>2. sent = p1 + p2' + imagen'[id]
      <4>1. sent = p1 + p2 + imagen[id] /\ p2' + imagen'[id] = p2 + imagen[id]
        BY <1>5, <1>6
      <4> QED
        BY <3>1, <4>1
    <3> QED
      BY <1>0, <3>2 DEF Conservation, config, script
  <2>3. Endings'
    <3>1. st'["snk"] = "ended" => ret'["snk"] = 1 \/ (st["mid"] = "ended" /\ p2' = 0)
      BY <1>2, <1>3
    <3> QED
      BY <1>0, <1>1, <1>8, <3>1 DEF PipeInv, Endings, Eof, config, script, files
  <2>4. StopMeaning'
    <3>1. (Delivered <=> Delivered') /\ (ClonerEnded <=> ClonerEnded')
      BY <1>0, <1>8 DEF Delivered, ClonerEnded, config, script
    <3> QED
      BY <1>0, <1>1, <1>8, <1>9, <3>1 DEF PipeInv, StopMeaning, config, script, files
  <2> QED
    BY <1>0, <1>1, <2>1, <2>2, <2>3, <2>4 DEF PipeInv, config, script
<1>11. \A q \in Parts : q < id => Done(q)'
  BY <1>0, <1>2, <1>6 DEF IInv, Done, config
<1> QED
  BY <1>0, <1>1, <1>7, <1>10, <1>11 DEF IInv, script

\* rest_cmd.  dd_rescue may take an early end of input for a normal one; but
\* the input ends only after concatena, hence the monitor, has ended, and that
\* happens only if everything was written or somebody is in error().
LEMMA Rest_cmdOK ==
  ASSUME IInv, Rest_cmd
  PROVE  IInv'
<1> USE DEF Rest_cmd, Rest, Raise, Falla
<1>0. /\ UNCHANGED <<config, script, error, ret, puerto, imagen, leido, sent, p1, percent>>
      /\ accion[id] = "rest"
  OBVIOUS
<1>1. fase = "pipe" /\ PipeInv /\ TypeOK
  BY DEF IInv
<1>2. /\ st \in [Procs -> States] /\ cod \in [Procs -> Nat] /\ disco \in [Parts -> 0..Size]
      /\ p1 \in 0..PipeCap /\ p2 \in 0..PipeCap /\ fallos \in 0..MaxFallos
      /\ sent \in 0..Size /\ id \in Parts
  BY <1>1 DEF TypeOK, TypeProcs, TypeData, PipeInv
<1>3. /\ st["snk"] = "run"
      /\ \/ /\ p2 > 0 /\ disco[id] < Size
            /\ p2' = p2 - 1 /\ disco' = [disco EXCEPT ![id] = disco[id] + 1]
            /\ UNCHANGED <<stop, st, cod>>
         \/ /\ disco[id] = Size \/ st["mid"] = "ended"
            /\ st' = [st EXCEPT !["snk"] = "ended"]
            /\ stop' = (stop \/ StopsMonitor)
            /\ UNCHANGED <<p2, disco, cod>>
         \/ /\ st' = [st EXCEPT !["snk"] = "touch"] /\ cod' = [cod EXCEPT !["snk"] = Rest_code]
            /\ UNCHANGED <<p2, disco, stop>>
  OBVIOUS
<1>4. fallos' \in 0..MaxFallos
  BY <1>2
<1>5. Rest_code \in 25..28
  BY DEF Rest_code
<1>6. /\ p2' \in 0..PipeCap /\ disco' \in [Parts -> 0..Size]
      /\ p2' + disco'[id] = p2 + disco[id]
      /\ disco[id] = Size => disco'[id] = Size
      /\ \A q \in Parts : q # id => disco'[q] = disco[q]
  <2>1. CASE /\ p2 > 0 /\ disco[id] < Size
             /\ p2' = p2 - 1 /\ disco' = [disco EXCEPT ![id] = disco[id] + 1]
    <3>1. disco[id] \in 0..Size /\ disco[id] + 1 \in 0..Size
      BY <1>2, <2>1
    <3>2. disco' \in [Parts -> 0..Size] /\ disco'[id] = disco[id] + 1
          /\ \A q \in Parts : q # id => disco'[q] = disco[q]
      BY <1>2, <2>1, <3>1
    <3>3. p2' \in 0..PipeCap /\ p2' + (disco[id] + 1) = p2 + disco[id]
      BY <1>2, <2>1, <3>1
    <3>4. disco[id] # Size
      BY <2>1, <3>1
    <3> QED
      BY <3>2, <3>3, <3>4
  <2>2. CASE UNCHANGED <<p2, disco>>
    BY <1>2, <2>2
  <2> QED
    BY <1>3, <2>1, <2>2
<1>7. TypeOK'
  <2>1. TypeConfig'
    BY <1>0, <1>1 DEF config, TypeOK, TypeConfig
  <2>2. stop' \in BOOLEAN
    BY <1>1, <1>3 DEF TypeOK, TypeScript
  <2>3. TypeScript'
    BY <1>0, <1>1, <2>2 DEF script, TypeOK, TypeScript
  <2>4. TypeData'
    BY <1>0, <1>1, <1>4, <1>6 DEF TypeOK, TypeData
  <2>5. TypeProcs'
    <3>1. st' \in [Procs -> States]
      <4>1. st' = st \/ st' = [st EXCEPT !["snk"] = "ended"] \/ st' = [st EXCEPT !["snk"] = "touch"]
        BY <1>3
      <4>2. "ended" \in States /\ "touch" \in States
        BY DEF States, Running
      <4> QED
        BY <1>2, <4>1, <4>2
    <3>2. cod' \in [Procs -> Nat]
      BY <1>2, <1>3, <1>5
    <3>3. ret' \in [Procs -> 0..1] /\ puerto' \in BOOLEAN
      BY <1>0, <1>1 DEF TypeOK, TypeProcs
    <3> QED
      BY <3>1, <3>2, <3>3 DEF TypeProcs
  <2> QED
    BY <2>1, <2>3, <2>4, <2>5 DEF TypeOK
<1>8. \A r \in Procs \ {"snk"} : st'[r] = st[r]
  BY <1>2, <1>3
<1>9. Alarm => Alarm'
  BY <1>0, <1>3, <1>8 DEF Alarm
<1>10. st["mid"] = "ended" => Alarm \/ disco[id] = Size
  <2>1. st["mid"] = "ended" => error # 0 \/ st["con"] = "ended"
    BY <1>0, <1>1 DEF PipeInv, Endings, Eof
  <2>2. st["con"] = "ended" => error # 0 \/ st["mon"] = "ended"
    BY <1>0, <1>1 DEF PipeInv, Endings
  <2>3. st["mon"] = "ended" => Alarm \/ disco[id] = Size
    BY <1>0, <1>1 DEF PipeInv, StopMeaning, Delivered
  <2> QED
    BY <2>1, <2>2, <2>3 DEF Alarm
<1>11. st'["snk"] = "ended" => Alarm' \/ disco'[id] = Size
  BY <1>2, <1>3, <1>6, <1>9, <1>10
<1>12. PipeInv'
  <2>1. Places'
    <3>1. /\ st'["snk"] \in {"run", "ended", "touch"}
          /\ st'["snk"] = "touch" => cod'["snk"] \in 25..28
          /\ \A r \in Procs \ {"snk"} : cod'[r] = cod[r]
      BY <1>2, <1>3, <1>5
    <3> QED
      BY <1>0, <1>1, <1>8, <3>1 DEF PipeInv, Places, ErrorStates, config, script
  <2>2. Conservation'
    <3>1. sent = p1 + p2 + disco[id] /\ sent <= leido
      BY <1>0, <1>1 DEF PipeInv, Conservation
    <3>2. disco'[id] \in Int /\ disco[id] \in Int 
          /\ p1 \in Int /\ p2 \in Int /\ p2' \in Int /\ sent \in Int
      BY <1>2, <1>6
    <3>3. sent = p1 + p2' + disco'[id]
      <4>1. sent = p1 + p2 + disco[id] /\ p2' + disco'[id] = p2 + disco[id]
        BY <1>6, <3>1
      <4> QED
        BY <3>2, <4>1
    <3> QED
      BY <1>0, <3>1, <3>3 DEF Conservation, config, script
  <2>3. Endings'
    BY <1>0, <1>1, <1>8, <1>11 DEF PipeInv, Endings, Eof, config, script
  <2>4. StopMeaning'
    <3>1. /\ Delivered => Delivered'
          /\ ClonerEnded' => Alarm' \/ Delivered'
          /\ ~ClonerEnded
      BY <1>0, <1>3, <1>6, <1>11 DEF Delivered, ClonerEnded, config, script
    <3>2. stop' => stop \/ (cloner[id] = "dd" /\ ClonerEnded')
      BY <1>0, <1>2, <1>3 DEF StopsMonitor, ClonerEnded, config, script
    <3>3. cloner[id] = "dd" /\ (st["mon"] = "ended" \/ stop) => Alarm
      BY <1>1, <3>1 DEF PipeInv, StopMeaning
    <3> QED
      BY <1>0, <1>1, <1>8, <1>9, <3>1, <3>2, <3>3 DEF PipeInv, StopMeaning, config, script
  <2> QED
    BY <1>0, <1>1, <2>1, <2>2, <2>3, <2>4 DEF PipeInv, config, script
<1>13. \A q \in Parts : q < id => Done(q)'
  BY <1>0, <1>2, <1>6 DEF IInv, Done, config
<1> QED
  BY <1>0, <1>1, <1>7, <1>12, <1>13 DEF IInv, script

-----------------------------------------------------------------------------
\* Between pipelines nothing runs, so the steps of the script only have to
\* keep what is behind them complete.
LEMMA SkipOK ==
  ASSUME IInv, Skip \/ Swap
  PROVE  IInv'
<1> USE DEF Skip, Swap, AtPartition
<1>0. UNCHANGED <<config, fase, salida, meta, files, procs, leido, sent, p1, p2, percent, fallos>>
  BY DEF data
<1>1. fase = "next" /\ Quiet /\ TypeOK /\ id \in Parts /\ id' = id + 1
  BY DEF IInv, TypeOK, TypeScript
<1>2. imagen \in [Parts -> 0..Size] /\ disco \in [Parts -> 0..Size]
  BY <1>1 DEF TypeOK, TypeData
<1>3. /\ imagen' \in [Parts -> 0..Size] /\ disco' \in [Parts -> 0..Size]
      /\ \A q \in Parts : q # id => imagen'[q] = imagen[q] /\ disco'[q] = disco[q]
      /\ accion[id] = "gen" => imagen'[id] = Size
      /\ accion[id] = "rest" => disco'[id] = Size
  <2>1. CASE Skip
    BY <1>1, <1>2, <2>1 DEF data
  <2>2. CASE Swap /\ accion[id] = "gen"
    <3>1. imagen' = [imagen EXCEPT ![id] = Size] /\ disco' = disco
      BY <2>2
    <3> QED
      BY <1>1, <1>2, <2>2, <3>1
  <2>3. CASE Swap /\ accion[id] # "gen"
    <3>1. disco' = [disco EXCEPT ![id] = Size] /\ imagen' = imagen
      BY <2>3
    <3> QED
      BY <1>1, <1>2, <2>3, <3>1
  <2> QED
    BY <2>1, <2>2, <2>3
<1>4. success_gen' \in BOOLEAN
  BY <1>1 DEF TypeOK, TypeScript
<1>5. TypeOK'
  <2>1. TypeConfig' /\ TypeProcs'
    BY <1>0, <1>1 DEF config, procs, TypeOK, TypeConfig, TypeProcs
  <2>2. TypeScript'
    BY <1>0, <1>1, <1>4 DEF TypeOK, TypeScript, files
  <2>3. TypeData'
    BY <1>0, <1>1, <1>3 DEF TypeOK, TypeData
  <2> QED
    BY <2>1, <2>2, <2>3 DEF TypeOK
<1>6. Quiet'
  BY <1>0, <1>1 DEF Quiet, procs, files
<1>7. \A q \in Parts : q < id' => Done(q)'
  <2> SUFFICES ASSUME NEW q \in Parts, q < id + 1 PROVE Done(q)'
    BY <1>1
  <2>1. CASE q = id
    BY <1>0, <1>3, <2>1 DEF Done, config
  <2>2. CASE q # id
    <3>1. q < id
      BY <1>1, <2>2
    <3> QED
      BY <1>0, <1>3, <2>2, <3>1 DEF IInv, Done, config
  <2> QED
    BY <2>1, <2>2
<1> QED
  BY <1>0, <1>1, <1>5, <1>6, <1>7 DEF IInv

LEMMA Prep_failsOK ==
  ASSUME IInv, Prep_fails
  PROVE  IInv'
<1> USE DEF Prep_fails, AtPartition, Falla, Exit
<1>0. /\ UNCHANGED <<config, id, success_gen, meta, files, procs, disco, leido, sent, p1, p2, percent>>
      /\ fase' = "exit" /\ salida' = 1
  OBVIOUS
<1>1. fase = "next" /\ Quiet /\ TypeOK /\ id \in Parts
  BY DEF IInv, TypeOK, TypeScript
<1>2. /\ imagen' \in [Parts -> 0..Size]
      /\ \A q \in Parts : q # id => imagen'[q] = imagen[q]
  <2>1. imagen \in [Parts -> 0..Size]
    BY <1>1 DEF TypeOK, TypeData
  <2>2. imagen' = imagen \/ imagen' = [imagen EXCEPT ![id] = 0]
    OBVIOUS
  <2> QED
    BY <1>1, <2>1, <2>2
<1>3. fallos' \in 0..MaxFallos
  BY <1>1 DEF TypeOK, TypeData
<1>4. TypeOK'
  <2>1. TypeConfig' /\ TypeProcs'
    BY <1>0, <1>1 DEF config, procs, TypeOK, TypeConfig, TypeProcs
  <2>2. TypeScript'
    BY <1>0, <1>1 DEF TypeOK, TypeScript, files
  <2>3. TypeData'
    BY <1>0, <1>1, <1>2, <1>3 DEF TypeOK, TypeData
  <2> QED
    BY <2>1, <2>2, <2>3 DEF TypeOK
<1>5. Quiet'
  BY <1>0, <1>1 DEF Quiet, procs
<1>6. \A q \in Parts : q < id' => Done(q)'
  BY <1>0, <1>1, <1>2 DEF IInv, Done, config
<1> QED
  BY <1>0, <1>4, <1>5, <1>6 DEF IInv

\* A pipeline starts with empty pipes and, unless the server gave no port,
\* without STOP_MONITOR and ERROR.
LEMMA StartOK ==
  ASSUME IInv, Start_gen \/ Start_rest
  PROVE  IInv'
<1> USE DEF Start_gen, Start_rest, AtPartition, NewPipeline, Falla
<1>0. /\ UNCHANGED <<config, id, salida, success_gen, meta>>
      /\ fase' = "pipe"
      /\ cod' = [p \in Procs |-> 0] /\ ret' = [p \in Procs |-> 0]
      /\ leido' = 0 /\ sent' = 0 /\ p1' = 0 /\ p2' = 0 /\ percent' = 0
  OBVIOUS
<1>1. fase = "next" /\ Quiet /\ TypeOK /\ id \in Parts
  BY DEF IInv, TypeOK, TypeScript
<1>2. error = 0 /\ ~stop
  BY <1>1 DEF Quiet
<1>11. (stop' = stop /\ error' = error) \/ (stop' = TRUE /\ error' = 53)
  BY DEF files
<1>3. imagen \in [Parts -> 0..Size] /\ disco \in [Parts -> 0..Size]
  BY <1>1 DEF TypeOK, TypeData
<1>4. /\ imagen' \in [Parts -> 0..Size] /\ disco' \in [Parts -> 0..Size]
      /\ \A q \in Parts : q # id => imagen'[q] = imagen[q] /\ disco'[q] = disco[q]
      /\ accion[id] \in {"gen", "rest"}
      /\ accion[id] = "gen" => imagen'[id] = 0
      /\ accion[id] = "rest" => disco'[id] = 0
  <2>1. CASE Start_gen
    BY <1>1, <1>3, <2>1
  <2>2. CASE Start_rest
    BY <1>1, <1>3, <2>2
  <2> QED
    BY <2>1, <2>2
<1>5. fallos' \in 0..MaxFallos /\ puerto' \in BOOLEAN /\ stop' \in BOOLEAN /\ error' \in Nat
  <2>1. fallos \in 0..MaxFallos
    BY <1>1 DEF TypeOK, TypeData
  <2>2. fallos' \in 0..MaxFallos
    BY <2>1
  <2>3. puerto' \in BOOLEAN
    OBVIOUS
  <2>4. stop \in BOOLEAN /\ error \in Nat
    BY <1>1 DEF TypeOK, TypeScript
  <2> HIDE DEF Start_gen, Start_rest
  <2>5. stop' \in BOOLEAN
    BY <1>11, <2>4, Zenon
  <2>6. error' \in Nat
    BY <1>11, <2>4
  <2> QED
    BY <2>2, <2>3, <2>5, <2>6
<1>6. /\ st' \in [Procs -> States]
      /\ st'["mon"] = (IF accion[id] = "gen" THEN "check" ELSE "off")
      /\ st'["src"] = (IF accion[id] = "gen" THEN "run" ELSE "off")
      /\ st'["mid"] = "run" /\ st'["snk"] = "run"
      /\ st'["con"] \in (IF accion[id] = "gen" THEN {"ended"} ELSE {"port", "start"})
  <2>1. CASE Start_gen
    BY <2>1 DEF States, Running
  <2>2. CASE Start_rest
    BY <2>2 DEF States, Running
  <2> QED
    BY <2>1, <2>2
<1>7. stop' => error' # 0
  <2>1. stop' => error' = 53
    BY <1>2, <1>11, Zenon
  <2> HIDE DEF Start_gen, Start_rest
  <2> QED
    BY <2>1
<1>8. TypeOK'
  <2>1. TypeConfig'
    BY <1>0, <1>1 DEF config, TypeOK, TypeConfig
  <2>2. TypeScript'
    BY <1>0, <1>1, <1>5 DEF TypeOK, TypeScript
  <2>3. TypeProcs'
    BY <1>0, <1>5, <1>6 DEF TypeProcs
  <2>4. TypeData'
    BY <1>0, <1>4, <1>5 DEF TypeData
  <2> QED
    BY <2>1, <2>2, <2>3, <2>4 DEF TypeOK
<1>9. PipeInv'
  <2>1. Places'
    BY <1>0, <1>4, <1>6 DEF Places, ErrorStates, config
  <2>2. Conservation'
    BY <1>0, <1>4 DEF Conservation, config
  <2>3. Endings'
    BY <1>0, <1>4, <1>6 DEF Endings, config
  <2>4. StopMeaning'
    <3>1. stop' => Alarm'
      BY <1>7 DEF Alarm
    <3>2. percent' # Size /\ st'["mon"] \notin {"end", "ended"}
      BY <1>0, <1>6
    <3> QED
      BY <3>1, <3>2 DEF StopMeaning
  <2> QED
    BY <1>0, <1>1, <1>4, <2>1, <2>2, <2>3, <2>4 DEF PipeInv, config
<1>10. \A q \in Parts : q < id' => Done(q)'
  BY <1>0, <1>1, <1>4 DEF IInv, Done, config
<1> QED
  BY <1>0, <1>8, <1>9, <1>10 DEF IInv

\* A pipeline all of whose members have ended without ERROR and with exit
\* status 0 has done its whole job.
LEMMA EndedMeansDone ==
  ASSUME IInv, fase = "pipe", \A p \in Procs : st[p] = "ended",
         ret["snk"] = 0, error = 0
  PROVE  Done(id) /\ ~stop
<1>1. PipeInv /\ TypeOK
  BY DEF IInv
<1>2. ~Alarm
  BY DEF Alarm
<1>3. CASE accion[id] = "gen"
  <2>1. sent = Size /\ p1 = 0 /\ p2 = 0
    BY <1>1, <1>3 DEF PipeInv, Endings
  <2>2. imagen[id] \in 0..Size /\ sent = p1 + p2 + imagen[id]
    BY <1>1, <1>3 DEF PipeInv, Conservation, TypeOK, TypeData
  <2>3. imagen[id] = Size
    BY <2>1, <2>2
  <2> QED
    BY <1>1, <1>2, <1>3, <2>3 DEF PipeInv, StopMeaning, Done
<1>4. CASE accion[id] = "rest"
  BY <1>1, <1>2, <1>4 DEF PipeInv, Endings, StopMeaning, Done
<1> QED
  BY <1>1, <1>3, <1>4 DEF PipeInv

LEMMA Pipeline_doneOK ==
  ASSUME IInv, Pipeline_done
  PROVE  IInv'
<1> USE DEF Pipeline_done, Exit, Reported
<1>0. UNCHANGED <<config, meta, files, procs, data, percent, fallos>>
  OBVIOUS
<1>1. fase = "pipe" /\ PipeInv /\ TypeOK /\ id \in Parts /\ \A p \in Procs : st[p] = "ended"
  BY DEF IInv, PipeInv
<1>2. success_gen' \in BOOLEAN
  BY <1>1 DEF TypeOK, TypeScript
<1>3. TypeOK'
  <2>1. TypeConfig' /\ TypeProcs' /\ TypeData'
    BY <1>0, <1>1 DEF config, procs, data, TypeOK, TypeConfig, TypeProcs, TypeData
  <2>2. fase' \in {"next", "exit"} /\ id' \in 1..NParts + 1 /\ salida' \in Nat
    BY <1>1 DEF TypeOK, TypeScript
  <2>3. TypeScript'
    BY <1>0, <1>1, <1>2, <2>2 DEF TypeOK, TypeScript, files
  <2> QED
    BY <2>1, <2>3 DEF TypeOK
<1>4. CASE fase' = "exit"
  <2>1. id' = id /\ salida' # 0 /\ fase' # "next"
    BY <1>4
  <2>2. Quiet'
    BY <1>0, <1>1, <1>4, <2>1 DEF Quiet, procs
  <2>3. \A q \in Parts : q < id' => Done(q)'
    BY <1>0, <2>1 DEF IInv, Done, config, data
  <2> QED
    BY <1>3, <1>4, <2>2, <2>3 DEF IInv
<1>5. CASE fase' = "next"
  <2>1. id' = id + 1 /\ ret["snk"] = 0 /\ error = 0
    BY <1>5
  <2>2. Done(id) /\ ~stop
    BY <1>1, <2>1, EndedMeansDone
  <2>3. Quiet'
    BY <1>0, <1>1, <1>5, <2>1, <2>2 DEF Quiet, procs, files
  <2>4. \A q \in Parts : q < id' => Done(q)'
    <3> SUFFICES ASSUME NEW q \in Parts, q < id + 1 PROVE Done(q)
      BY <1>0, <2>1 DEF Done, config, data
    <3>1. q = id \/ q < id
      BY <1>1
    <3> QED
      BY <2>2, <3>1 DEF IInv
  <2> QED
    BY <1>3, <1>5, <2>3, <2>4 DEF IInv
<1> QED
  BY <1>4, <1>5

LEMMA Put_metaOK ==
  ASSUME IInv, Put_meta
  PROVE  IInv'
<1> USE DEF Put_meta, Exit, Falla
<1>0. /\ UNCHANGED <<config, id, success_gen, procs, data, percent>>
      /\ fase' = "exit" /\ salida' = 0 /\ id = NParts + 1
  OBVIOUS
<1>1. fase = "next" /\ Quiet /\ TypeOK
  BY DEF IInv
<1>2. meta' \in BOOLEAN /\ stop' \in BOOLEAN /\ error' \in Nat
  <2>1. meta \in BOOLEAN /\ stop \in BOOLEAN /\ error \in Nat
    BY <1>1 DEF TypeOK, TypeScript
  <2>2. /\ meta' = meta \/ meta' = TRUE
        /\ stop' = stop \/ stop' = TRUE
        /\ error' = error \/ error' \in {54, 55}
    BY DEF files
  <2> HIDE DEF Put_meta
  <2>3. meta' \in BOOLEAN /\ stop' \in BOOLEAN
    BY <2>1, <2>2, Zenon
  <2>4. error' \in Nat
    BY <2>1, <2>2
  <2> QED
    BY <2>3, <2>4
<1>3. fallos' \in 0..MaxFallos
  BY <1>1 DEF TypeOK, TypeData
<1>4. TypeOK'
  <2>1. TypeConfig' /\ TypeProcs'
    BY <1>0, <1>1 DEF config, procs, TypeOK, TypeConfig, TypeProcs
  <2>2. TypeScript'
    BY <1>0, <1>1, <1>2 DEF TypeOK, TypeScript
  <2>3. TypeData'
    BY <1>0, <1>1, <1>3 DEF data, TypeOK, TypeData
  <2> QED
    BY <2>1, <2>2, <2>3 DEF TypeOK
<1>5. Quiet'
  BY <1>0, <1>1 DEF Quiet, procs
<1> QED
  BY <1>0, <1>4, <1>5 DEF IInv, Done, config, data

-----------------------------------------------------------------------------
LEMMA StutterOK ==
  ASSUME IInv, UNCHANGED vars
  PROVE  IInv'
<1>0. UNCHANGED <<config, script, files, procs, data, percent, fallos>>
  BY DEF vars
<1>1. TypeOK'
  BY <1>0 DEF IInv, TypeOK, TypeConfig, TypeScript, TypeProcs, TypeData,
     config, script, files, procs, data
<1>2. PipeInv => PipeInv'
  <2>1. (Alarm <=> Alarm') /\ (Delivered <=> Delivered') /\ (ClonerEnded <=> ClonerEnded')
    BY <1>0 DEF Alarm, Delivered, ClonerEnded, config, script, files, procs, data
  <2>2. Places => Places'
    BY <1>0 DEF Places, config, script, procs
  <2>3. (Conservation => Conservation') /\ (Endings => Endings')
    BY <1>0, <2>1 DEF Conservation, Endings, Eof, config, script, files, procs, data
  <2>4. StopMeaning => StopMeaning'
    BY <1>0, <2>1 DEF StopMeaning, config, script, files, procs
  <2> QED
    BY <1>0, <2>2, <2>3, <2>4 DEF PipeInv, config, script
<1>3. Quiet => Quiet'
  BY <1>0 DEF Quiet, script, files, procs
<1> QED
  BY <1>0, <1>1, <1>2, <1>3 DEF IInv, Done, config, script, data

\* IInv is an invariant of the script.
THEOREM Invariance == Spec => []IInv
<1>1. ASSUME IInv, [Next]_vars PROVE IInv'
  <2>1. CASE Script
    BY <1>1, <2>1, SkipOK, Prep_failsOK, StartOK, Pipeline_doneOK, Put_metaOK DEF Script
  <2>2. CASE Monitor
    BY <1>1, <2>2, MonitorOK, ErrorStepOK DEF Monitor
  <2>3. CASE Concatenator
    BY <1>1, <2>3, ConcatenaOK, ErrorStepOK DEF Concatenator
  <2>4. CASE Source
    BY <1>1, <2>4, Gen_cmdOK, FeedOK, ErrorStepOK DEF Source
  <2>5. CASE Middle
    BY <1>1, <2>5, ComprimeOK, ErrorStepOK DEF Middle
  <2>6. CASE Last
    BY <1>1, <2>6, SinkOK, Rest_cmdOK, ErrorStepOK DEF Last
  <2>7. CASE UNCHANGED vars
    BY <1>1, <2>7, StutterOK
  <2> QED
    BY <1>1, <2>1, <2>2, <2>3, <2>4, <2>5, <2>6, <2>7 DEF Next, Terminated
<1> QED
  BY <1>1, InitOK, PTL DEF Spec

\* Type correctness of the script: in particular the counts of chunks in the
\* pipes and at both ends never leave their bounds.
THEOREM TypeCorrect == Spec => []TypeOK
<1>1. IInv => TypeOK
  BY DEF IInv
<1> QED
  BY <1>1, Invariance, PTL

\* No failure gets lost: whatever fails, every partition the script has left
\* behind is complete, and exit status 0 means that all of them are.
THEOREM NoFailureLost == Spec => []DoneBehind
<1>1. IInv => DoneBehind
  BY DEF IInv, DoneBehind, Quiet
<1> QED
  BY <1>1, Invariance, PTL

\* No partition inherits STOP_MONITOR or ERROR from the one before.
THEOREM HandoverIsClean == Spec => []CleanHandover
<1>1. IInv => CleanHandover
  BY DEF IInv, CleanHandover, Quiet
<1> QED
  BY <1>1, Invariance, PTL

\* Once ERROR exists the script does not go on to another partition.
THEOREM ErrorStops == Spec => StopsAtError
<1>1. ASSUME IInv, [Next]_vars PROVE [error # 0 => id' = id]_vars
  <2>1. CASE Skip \/ Swap
    <3>1. error = 0
      BY <1>1, <2>1 DEF IInv, Quiet, Skip, Swap, AtPartition
    <3> QED
      BY <3>1
  <2>2. CASE Pipeline_done
    BY <2>2 DEF Pipeline_done, Reported
  <2>3. CASE Prep_fails \/ Start_gen \/ Start_rest \/ Put_meta
    BY <2>3 DEF Prep_fails, Start_gen, Start_rest, NewPipeline, Put_meta
  <2>4. CASE Monitor \/ Concatenator \/ Source \/ Middle \/ Last
    <3>1. UNCHANGED script
      BY <2>4 DEF Monitor, MonitorCheck, MonitorPoll, MonitorStatus, MonitorEnd, ErrorStep,
         Concatenator, Concatena, Source, Gen_cmd, Concatena2, Udp_receiver, Middle, Comprime,
         Last, Sink, Rest_cmd
    <3> QED
      BY <3>1 DEF script
  <2>5. CASE UNCHANGED vars
    BY <2>5
  <2> QED
    BY <1>1, <2>1, <2>2, <2>3, <2>4, <2>5 DEF Next, Script, Terminated
<1> QED
  BY <1>1, Invariance, PTL DEF Spec, StopsAtError

-----------------------------------------------------------------------------
(***************************************************************************)
(* The script implements ActionList.                                       *)
(***************************************************************************)

\* What a step does to the partitions other than the current one: nothing.
Local(q) == q # id => imagen'[q] = imagen[q] /\ disco'[q] = disco[q]

\* The partitions and their destinations, as far as ActionList knows of them.
Destinations ==
    /\ accion \in [Parts -> {"none", "gen", "rest"}]
    /\ imagen \in [Parts -> 0..Size] /\ disco \in [Parts -> 0..Size]
    /\ id \in 1..NParts + 1
    /\ \A q \in Parts : q < id => Done(q)

LEMMA DestinationsOK == IInv => Destinations
  BY DEF IInv, TypeOK, TypeConfig, TypeScript, TypeData, Destinations

\* A step of a pipeline writes at most at the current destination.
LEMMA StageIsLocal ==
  ASSUME Destinations, Monitor \/ Concatenator \/ Source \/ Middle \/ Last
  PROVE  UNCHANGED <<config, script>> /\ \A q \in Parts : Local(q)
<1>2. UNCHANGED <<config, script>>
  BY DEF Monitor, MonitorCheck, MonitorPoll, MonitorStatus, MonitorEnd, ErrorStep,
     Concatenator, Concatena, Source, Gen_cmd, Concatena2, Udp_receiver, Middle, Comprime,
     Last, Sink, Rest_cmd
<1>3. imagen \in [Parts -> 0..Size] /\ disco \in [Parts -> 0..Size]
  BY DEF Destinations
<1>4. CASE Sink
  BY <1>2, <1>3, <1>4 DEF Sink, Local
<1>5. CASE Rest_cmd
  BY <1>2, <1>3, <1>5 DEF Rest_cmd, Local
<1>6. CASE Monitor \/ Concatenator \/ Source \/ Middle \/ ErrorStep("snk")
  <2>1. imagen' = imagen /\ disco' = disco
    BY <1>6 DEF Monitor, MonitorCheck, MonitorPoll, MonitorStatus, MonitorEnd, ErrorStep,
       Concatenator, Concatena, Source, Gen_cmd, Concatena2, Udp_receiver, Middle, Comprime, data
  <2> QED
    BY <1>2, <2>1 DEF Local
<1> QED
  BY <1>2, <1>4, <1>5, <1>6 DEF Last

LEMMA PipelineStepIsLocal ==
  ASSUME IInv, Monitor \/ Concatenator \/ Source \/ Middle \/ Last
  PROVE  /\ fase = "pipe" /\ UNCHANGED <<config, script>>
         /\ \A q \in Parts : Local(q)
<1>1. fase = "pipe"
  BY DEF IInv, Quiet, Monitor, MonitorCheck, MonitorPoll, MonitorStatus, MonitorEnd, ErrorStep,
     Concatenator, Concatena, Source, Gen_cmd, Concatena2, Udp_receiver, Middle, Comprime,
     Last, Sink, Rest_cmd, Gen, Rest
<1> QED
  BY <1>1, DestinationsOK, StageIsLocal

\* A function that changes at most at one place is an update.
LEMMA UpdateAt ==
  ASSUME NEW D, NEW S, NEW f \in [D -> S], NEW g \in [D -> S], NEW d \in D,
         \A q \in D : q # d => g[q] = f[q]
  PROVE  \E n \in S : g = [f EXCEPT ![d] = n]
<1>1. g = [f EXCEPT ![d] = g[d]] /\ g[d] \in S
  OBVIOUS
<1> QED
  BY <1>1

\* The destinations, seen from ActionList, change as a function update.
LEMMA DestUpdate ==
  ASSUME Destinations, Destinations', UNCHANGED accion, id \in Parts, \A q \in Parts : Local(q)
  PROVE  \E n \in 0..Size : Dest' = [Dest EXCEPT ![id] = n]
<1> DEFINE f == [q \in Parts |-> IF accion[q] = "gen" THEN imagen[q] ELSE disco[q]]
           g == [q \in Parts |-> IF accion[q] = "gen" THEN imagen'[q] ELSE disco'[q]]
<1>1. /\ imagen \in [Parts -> 0..Size] /\ disco \in [Parts -> 0..Size]
      /\ imagen' \in [Parts -> 0..Size] /\ disco' \in [Parts -> 0..Size]
  BY DEF Destinations
<1>2. f \in [Parts -> 0..Size] /\ g \in [Parts -> 0..Size]
  BY <1>1
<1>3. \A q \in Parts : q # id => g[q] = f[q]
  BY DEF Local
<1>4. Dest = f /\ Dest' = g
  BY DEF Dest
<1> HIDE DEF f, g
<1>5. \E n \in 0..Size : g = [f EXCEPT ![id] = n]
  BY <1>2, <1>3, UpdateAt
<1> QED
  BY <1>4, <1>5

\* The initial states of the script are initial states of ActionList.
LEMMA AbstractInit == Init => Abstract!AInit
<1> SUFFICES ASSUME Init PROVE Abstract!AInit
  OBVIOUS
<1>1. TypeOK
  BY InitOK DEF IInv
<1>2. imagen \in [Parts -> 0..Size] /\ disco \in [Parts -> 0..Size]
  BY <1>1 DEF TypeOK, TypeData
<1>3. Dest \in [1..NParts -> 0..Size]
  BY <1>2 DEF Dest
<1>4. [q \in Parts |-> accion[q] # "none"] \in [1..NParts -> BOOLEAN]
  BY Zenon
<1>5. id = 1 /\ Outcome = "run"
  BY DEF Init, InitEstado, Outcome
<1> QED
  BY <1>3, <1>4, <1>5 DEF Abstract!AInit

\* A step inside a pipeline, its start included, works at the current
\* destination.
LEMMA WorkStep ==
  ASSUME Destinations, Destinations', id \in Parts, accion[id] # "none", \A q \in Parts : Local(q),
         UNCHANGED <<accion, id>>, fase # "exit", fase' # "exit"
  PROVE  Abstract!Work
<1>1. Outcome = "run" /\ UNCHANGED Outcome
  BY DEF Outcome
<1>2. \E n \in 0..Size : Dest' = [Dest EXCEPT ![id] = n]
  BY DestUpdate
<1>3. [q \in Parts |-> accion[q] # "none"][id]
  BY Zenon
<1>4. id <= NParts
  OBVIOUS
<1>5. UNCHANGED [q \in Parts |-> accion[q] # "none"]
  BY Zenon
<1> QED
  BY <1>1, <1>2, <1>3, <1>4, <1>5, Zenon DEF Abstract!Work

\* Leaving a partition behind: it is complete, or nothing was to be done.
LEMMA AdvanceStep ==
  ASSUME Destinations, Destinations', id \in Parts, \A q \in Parts : Local(q),
         UNCHANGED accion, id' = id + 1, fase # "exit", fase' # "exit",
         accion[id] = "none" => UNCHANGED <<imagen, disco>>
  PROVE  Abstract!Advance
<1>1. Outcome = "run" /\ UNCHANGED Outcome
  BY DEF Outcome
<1>2. \E n \in 0..Size : Dest' = [Dest EXCEPT ![id] = n]
  BY DestUpdate
<1>3. (accion[id] = "gen" => imagen'[id] = Size) /\ (accion[id] = "rest" => disco'[id] = Size)
  <2>1. id < id'
    OBVIOUS
  <2> QED
    BY <2>1 DEF Destinations, Done
<1>4. UNCHANGED [q \in Parts |-> accion[q] # "none"]
  BY Zenon
<1>5. CASE accion[id] = "none"
  <2>1. UNCHANGED Dest
    BY <1>5 DEF Dest
  <2>2. ~[q \in Parts |-> accion[q] # "none"][id]
    BY <1>5, Zenon
  <2> QED
    BY <1>1, <1>4, <2>1, <2>2 DEF Abstract!Advance
<1>6. CASE accion[id] # "none"
  <2>1. Dest'[id] = Size
    <3>1. accion[id] \in {"none", "gen", "rest"}
      BY DEF Destinations
    <3> QED
      BY <1>3, <1>6, <3>1 DEF Dest
  <2>2. Dest' = [Dest EXCEPT ![id] = Size]
    <3>1. id \in DOMAIN Dest
      BY DEF Dest
    <3> QED
      BY <1>2, <2>1, <3>1
  <2>3. [q \in Parts |-> accion[q] # "none"][id]
    BY <1>6, Zenon
  <2> QED
    BY <1>1, <1>4, <2>2, <2>3 DEF Abstract!Advance
<1> QED
  BY <1>5, <1>6

\* Ending the script early, with an exit status other than 0.
LEMMA GiveUpStep ==
  ASSUME Destinations, Destinations', id \in Parts, accion[id] # "none", \A q \in Parts : Local(q),
         UNCHANGED <<accion, id>>, fase # "exit", fase' = "exit", salida' # 0
  PROVE  Abstract!GiveUp
<1>1. Outcome = "run" /\ Outcome' = "failed"
  BY DEF Outcome
<1>2. \E n \in 0..Size : Dest' = [Dest EXCEPT ![id] = n]
  BY DestUpdate
<1>3. [q \in Parts |-> accion[q] # "none"][id]
  BY Zenon
<1>4. id <= NParts
  OBVIOUS
<1>5. UNCHANGED [q \in Parts |-> accion[q] # "none"]
  BY Zenon
<1> QED
  BY <1>1, <1>2, <1>3, <1>4, <1>5, Zenon DEF Abstract!GiveUp

\* Every step of the script itself is one of ActionList.
LEMMA ScriptStep ==
  ASSUME Destinations, Destinations', Script, fase = "pipe" => id \in Parts /\ accion[id] # "none"
  PROVE  Abstract!ANext
<1>0. /\ imagen \in [Parts -> 0..Size] /\ disco \in [Parts -> 0..Size]
      /\ id \in 1..NParts + 1
  BY DEF Destinations
<1>2. CASE Start_gen \/ Start_rest
  <2>1. id \in Parts /\ accion[id] # "none" /\ fase # "exit"
    BY <1>0, <1>2 DEF Start_gen, Start_rest, AtPartition
  <2>2. UNCHANGED <<accion, id>> /\ fase' # "exit"
    BY <1>2 DEF Start_gen, Start_rest, NewPipeline, config
  <2>3. \A q \in Parts : Local(q)
    BY <1>0, <1>2 DEF Start_gen, Start_rest, Local
  <2> QED
    BY <2>1, <2>2, <2>3, WorkStep DEF Abstract!ANext
<1>3. CASE Skip
  <2>1. id \in Parts /\ fase # "exit" /\ fase' # "exit" /\ id' = id + 1
    BY <1>0, <1>3 DEF Skip, AtPartition
  <2>2. UNCHANGED <<accion, imagen, disco>>
    BY <1>3 DEF Skip, config, data
  <2>3. \A q \in Parts : Local(q)
    BY <2>2 DEF Local
  <2> QED
    BY <2>1, <2>2, <2>3, AdvanceStep DEF Abstract!ANext
<1>4. CASE Swap
  <2>1. id \in Parts /\ fase # "exit" /\ fase' # "exit" /\ id' = id + 1 /\ accion[id] # "none"
    BY <1>0, <1>4 DEF Swap, AtPartition
  <2>2. UNCHANGED accion
    BY <1>4 DEF Swap, config
  <2>3. \A q \in Parts : Local(q)
    BY <1>0, <1>4 DEF Swap, Local
  <2> QED
    BY <2>1, <2>2, <2>3, AdvanceStep DEF Abstract!ANext
<1>5. CASE Prep_fails
  <2>1. id \in Parts /\ accion[id] # "none" /\ fase # "exit"
    BY <1>0, <1>5 DEF Prep_fails, AtPartition
  <2>2. UNCHANGED <<accion, id>> /\ fase' = "exit" /\ salida' # 0
    BY <1>5 DEF Prep_fails, Exit, config
  <2>3. \A q \in Parts : Local(q)
    BY <1>0, <1>5 DEF Prep_fails, Local
  <2> QED
    BY <2>1, <2>2, <2>3, GiveUpStep DEF Abstract!ANext
<1>6. CASE Pipeline_done
  <2>1. id \in Parts /\ accion[id] # "none" /\ fase # "exit"
    BY <1>6 DEF Pipeline_done
  <2>2. UNCHANGED <<accion, imagen, disco>>
    BY <1>6 DEF Pipeline_done, config, data
  <2>3. \A q \in Parts : Local(q)
    BY <2>2 DEF Local
  <2>4. \/ id' = id + 1 /\ fase' # "exit"
        \/ id' = id /\ fase' = "exit" /\ salida' # 0
    BY <1>6 DEF Pipeline_done, Reported, Exit
  <2> QED
    BY <2>1, <2>2, <2>3, <2>4, AdvanceStep, GiveUpStep DEF Abstract!ANext
<1>7. CASE Put_meta
  <2>1. Outcome = "run" /\ Outcome' = "ok" /\ id = NParts + 1
    BY <1>7 DEF Put_meta, Exit, Outcome
  <2>2. UNCHANGED <<accion, imagen, disco, id>>
    BY <1>7 DEF Put_meta, config, data
  <2>3. UNCHANGED Dest /\ UNCHANGED [q \in Parts |-> accion[q] # "none"]
    BY <2>2 DEF Dest
  <2> QED
    BY <2>1, <2>2, <2>3 DEF Abstract!ANext, Abstract!Finish
<1> QED
  BY <1>2, <1>3, <1>4, <1>5, <1>6, <1>7 DEF Script

\* A step that changes nothing ActionList knows of.
LEMMA AbstractStutter ==
  ASSUME UNCHANGED <<accion, imagen, disco, id, fase, salida>>
  PROVE  UNCHANGED Abstract!avars
<1>1. UNCHANGED Dest /\ UNCHANGED [q \in Parts |-> accion[q] # "none"] /\ UNCHANGED Outcome
  BY DEF Dest, Outcome
<1> QED
  BY <1>1 DEF Abstract!avars

\* Every step of the script is a step of ActionList or leaves it alone.
LEMMA AbstractStep ==
  ASSUME IInv, IInv', [Next]_vars
  PROVE  [Abstract!ANext]_(Abstract!avars)
<1>1. Destinations /\ Destinations'
  BY DestinationsOK DEF IInv, TypeOK, TypeConfig, TypeScript, TypeData, Destinations
<1>2. CASE Monitor \/ Concatenator \/ Source \/ Middle \/ Last
  <2>1. fase = "pipe" /\ UNCHANGED <<config, script>> /\ \A q \in Parts : Local(q)
    BY <1>2, PipelineStepIsLocal
  <2>2. id \in Parts /\ accion[id] # "none"
    BY <2>1 DEF IInv, PipeInv
  <2>3. UNCHANGED <<accion, id>> /\ fase' # "exit" /\ fase # "exit"
    BY <2>1 DEF config, script
  <2> QED
    BY <1>1, <2>1, <2>2, <2>3, WorkStep DEF Abstract!ANext
<1>3. CASE Script
  BY <1>1, <1>3, ScriptStep DEF IInv, PipeInv
<1>4. CASE UNCHANGED vars
  BY <1>4, AbstractStutter DEF vars, config, data, script
<1> QED
  BY <1>2, <1>3, <1>4 DEF Next, Terminated

\* The pipelines of fin.d/filesystems, with their concurrency and failures,
\* implement ActionList.
THEOREM Refinement == Spec => ImplementsActionList
<1>1. ASSUME IInv, IInv', [Next]_vars PROVE [Abstract!ANext]_(Abstract!avars)
  BY <1>1, AbstractStep
<1> QED
  BY <1>1, AbstractInit, Invariance, PTL DEF Spec, ImplementsActionList, Abstract!ASpec
-----------------------------------------------------------------------------
(***************************************************************************)
(* Without failures from outside the script does not fail.                 *)
(***************************************************************************)

Undisturbed == fallos = 0 /\ \A q \in Parts : accion[q] = "rest" => imagen[q] = Size

\* Nobody is in error(), nobody has failed, and a first stage that has ended has
\* put everything into the pipe.
Smooth ==
    /\ error = 0
    /\ fase = "exit" => salida = 0
    /\ fase = "pipe" =>
          /\ puerto /\ \A p \in Procs : st[p] \notin ErrorStates /\ ret[p] = 0
          /\ accion[id] = "rest" => sent = leido
          /\ st["src"] = "ended" => sent = Size

SInv == Undisturbed => Smooth

LEMMA UndisturbedBefore ==
  ASSUME IInv, [Next]_vars, Undisturbed'
  PROVE  Undisturbed
<1>1. fallos \in Nat /\ imagen \in [Parts -> 0..Size] /\ UNCHANGED accion
  BY DEF IInv, TypeOK, TypeData, vars, config, Next, Script, Skip, Swap, Prep_fails, Start_gen,
     Start_rest, NewPipeline, Pipeline_done, Put_meta, Terminated, Monitor, MonitorCheck,
     MonitorPoll, MonitorStatus, MonitorEnd, ErrorStep, Concatenator, Concatena, Source,
     Gen_cmd, Concatena2, Udp_receiver, Middle, Comprime, Last, Sink, Rest_cmd
<1>2. fallos' = fallos \/ fallos' = fallos + 1
  BY DEF vars, Falla, files, Next, Script, Skip, Swap, Prep_fails, Start_gen,
     Start_rest, NewPipeline, Pipeline_done, Put_meta, Terminated, Monitor, MonitorCheck,
     MonitorPoll, MonitorStatus, MonitorEnd, ErrorStep, Concatenator, Concatena, Source,
     Gen_cmd, Concatena2, Udp_receiver, Middle, Comprime, Last, Sink, Rest_cmd
<1>3. ASSUME NEW q \in Parts, accion[q] = "rest" PROVE imagen'[q] = imagen[q]
  <2>1. CASE Swap \/ Prep_fails \/ Start_gen \/ Sink
    BY <1>1, <1>3, <2>1 DEF Swap, Prep_fails, Start_gen, Sink, Gen
  <2>2. CASE ~(Swap \/ Prep_fails \/ Start_gen \/ Sink)
    BY <2>2 DEF vars, data, Next, Script, Skip, Start_rest, NewPipeline, Pipeline_done, Put_meta,
       Terminated, Monitor, MonitorCheck, MonitorPoll, MonitorStatus, MonitorEnd, ErrorStep,
       Concatenator, Concatena, Source, Gen_cmd, Concatena2, Udp_receiver, Middle, Comprime,
       Last, Rest_cmd
  <2> QED
    BY <2>1, <2>2
<1> QED
  BY <1>1, <1>2, <1>3 DEF Undisturbed

\* What a pipeline that runs smoothly has behind it.
LEMMA SmoothPipe ==
  ASSUME IInv, Undisturbed, Smooth, fase = "pipe"
  PROVE  /\ id \in Parts /\ ~Alarm
         /\ accion[id] = "rest" => imagen[id] = Size
         /\ st["mid"] = "ended" => Eof /\ p1 = 0
         /\ accion[id] = "rest" /\ st["snk"] = "ended" => disco[id] = Size
         /\ Eof => st["src"] = "ended"
         /\ accion[id] = "gen" /\ st["snk"] = "ended" => st["mid"] = "ended"
<1> USE DEF IInv, PipeInv
<1>1. ~Alarm
  BY DEF Smooth, Alarm, ErrorStates
<1>2. accion[id] = "rest" => imagen[id] = Size
  BY DEF Undisturbed
<1>3. error = 0 /\ ret["snk"] = 0
  BY DEF Smooth
<1>4. accion[id] = "rest" /\ Eof => st["src"] = "ended"
  BY <1>3 DEF Endings, Eof
<1> QED
  BY <1>1, <1>2, <1>3, <1>4 DEF Endings, Eof

\* The members of the pipeline: none of them finds a reason to fail.
LEMMA SmoothStages ==
  ASSUME IInv, Undisturbed, Undisturbed', Smooth,
         Monitor \/ Concatenator \/ Source \/ Middle \/ Last
  PROVE  Smooth'
<1>1. fase = "pipe" /\ UNCHANGED <<config, script>>
  BY PipelineStepIsLocal
<1>2. /\ st \in [Procs -> States] /\ ret \in [Procs -> 0..1] /\ fallos = 0 /\ fallos' = 0
      /\ leido \in 0..Size /\ sent \in 0..Size /\ p1 \in 0..PipeCap /\ p2 \in 0..PipeCap
      /\ disco[id] \in 0..Size /\ Size # 0
  BY <1>1, SmoothPipe DEF IInv, TypeOK, TypeProcs, TypeData, Undisturbed
<1>3. ASSUME NEW e PROVE ~Falla(e)
  BY <1>2 DEF Falla
<1>4. /\ puerto /\ error = 0
      /\ \A p \in Procs : st[p] \notin ErrorStates /\ ret[p] = 0
      /\ accion[id] = "rest" => sent = leido /\ imagen[id] = Size
      /\ st["src"] = "ended" => sent = Size
  BY <1>1, SmoothPipe DEF Smooth
<1>5. SUFFICES /\ puerto' /\ error' = 0
               /\ \A p \in Procs : st'[p] \notin ErrorStates /\ ret'[p] = 0
               /\ accion[id] = "rest" => sent' = leido'
               /\ st'["src"] = "ended" => sent' = Size
  BY <1>1 DEF Smooth, config, script
<1>6. CASE Monitor
  <2>1. ~ErrorStep("mon")
    BY <1>4 DEF ErrorStep, ErrorStates
  <2>2. UNCHANGED <<puerto, error, ret, sent, leido>> /\ st' \in [Procs -> States]
        /\ \A p \in Procs \ {"mon"} : st'[p] = st[p]
        /\ st'["mon"] \in {"end", "ended", "poll", "status", "check"}
    BY <1>2, <1>3, <1>6, <2>1
    DEF Monitor, MonitorCheck, MonitorPoll, MonitorStatus, MonitorEnd, data, files, States, Running
  <2> QED
    BY <1>4, <2>2 DEF ErrorStates
<1>7. CASE Concatenator
  <2>1. ~ErrorStep("con")
    BY <1>4 DEF ErrorStep, ErrorStates
  <2>2. UNCHANGED <<puerto, error, ret, sent, leido>>
        /\ \/ st' = [st EXCEPT !["con"] = "start"]
           \/ st' = [st EXCEPT !["con"] = "wait", !["mon"] = "check", !["src"] = "run"]
           \/ st' = [st EXCEPT !["con"] = "ended"]
    <3>1. ret["src"] # 1 /\ ~Falla("port")
      BY <1>3, <1>4
    <3> QED
      BY <1>7, <2>1, <3>1 DEF Concatenator, Concatena, data, files
  <2> QED
    BY <1>2, <1>4, <2>2 DEF ErrorStates
<1>8. CASE Gen_cmd
  <2>1. st["mid"] # "ended"
    BY <1>1, <1>8, SmoothPipe DEF Gen_cmd
  <2>2. /\ UNCHANGED <<puerto, error, ret>> /\ accion[id] = "gen"
        /\ \/ st' = st /\ st["src"] = "run"
           \/ st' = [st EXCEPT !["src"] = "ended"] /\ sent' = sent /\ sent = Size
    BY <1>3, <1>8, <2>1 DEF Gen_cmd, Gen
  <2> QED
    BY <1>2, <1>4, <2>2 DEF ErrorStates
<1>9. CASE Concatena2 \/ Udp_receiver
  <2>1. st["mid"] # "ended" /\ accion[id] = "rest" /\ imagen[id] = Size
    BY <1>1, <1>4, <1>9, SmoothPipe DEF Concatena2, Udp_receiver, Rest
  <2>2. /\ UNCHANGED <<puerto, error, ret>>
        /\ \/ st' = st /\ st["src"] = "run" /\ sent' = sent + 1 /\ leido' = leido + 1
           \/ st' = [st EXCEPT !["src"] = "ended"] /\ UNCHANGED <<sent, leido>> /\ leido = Size
    BY <1>2, <1>3, <1>4, <1>9, <2>1 DEF Concatena2, Udp_receiver, files
  <2> QED
    BY <1>2, <1>4, <2>1, <2>2 DEF ErrorStates
<1>10. CASE Comprime
  <2>1. ~(p1 = 0 /\ Eof /\ Truncated)
    BY <1>1, <1>4, SmoothPipe DEF Truncated
  <2>2. ~(p1 > 0 /\ st["snk"] = "ended")
    <3>1. accion[id] = "gen" => st["snk"] # "ended"
      BY <1>1, <1>10, SmoothPipe DEF Comprime
    <3>2. accion[id] = "rest" /\ st["snk"] = "ended" => disco[id] = Size
      BY <1>1, SmoothPipe
    <3>3. accion[id] = "rest" => sent = p1 + p2 + disco[id]
      BY <1>1 DEF IInv, PipeInv, Conservation
    <3>4. accion[id] \in {"gen", "rest"}
      BY <1>1 DEF IInv, PipeInv
    <3> QED
      BY <1>2, <3>1, <3>2, <3>3, <3>4
  <2>3. UNCHANGED <<puerto, error, ret, sent, leido>>
        /\ (st' = st \/ st' = [st EXCEPT !["mid"] = "ended"])
    BY <1>3, <1>10, <2>1, <2>2 DEF Comprime, files
  <2> QED
    BY <1>2, <1>4, <2>3 DEF ErrorStates
<1>11. CASE Sink
  <2>1. UNCHANGED <<puerto, error, ret, sent, leido>>
        /\ (st' = st \/ st' = [st EXCEPT !["snk"] = "ended"])
    BY <1>3, <1>4, <1>11 DEF Sink, files
  <2> QED
    BY <1>2, <1>4, <2>1 DEF ErrorStates
<1>12. CASE Rest_cmd
  <2>1. ~(disco[id] < Size /\ p2 = 0 /\ st["mid"] = "ended")
    <3>1. st["mid"] = "ended" => p1 = 0 /\ sent = Size
      BY <1>1, <1>4, SmoothPipe
    <3>2. sent = p1 + p2 + disco[id]
      BY <1>1, <1>12 DEF IInv, PipeInv, Conservation, Rest_cmd, Rest
    <3> QED
      BY <1>2, <3>1, <3>2
  <2>2. UNCHANGED <<puerto, error, ret, sent, leido>>
        /\ (st' = st \/ st' = [st EXCEPT !["snk"] = "ended"])
    BY <1>3, <1>12, <2>1 DEF Rest_cmd
  <2> QED
    BY <1>2, <1>4, <2>2 DEF ErrorStates
<1>13. ~ErrorStep("src") /\ ~ErrorStep("mid") /\ ~ErrorStep("snk")
  BY <1>4 DEF ErrorStep, ErrorStates
<1> QED
  BY <1>6, <1>7, <1>8, <1>9, <1>10, <1>11, <1>12, <1>13 DEF Source, Middle, Last

\* The script between the pipelines.
LEMMA SmoothScript ==
  ASSUME IInv, Undisturbed, Undisturbed', Smooth, Script
  PROVE  Smooth'
<1>1. ASSUME NEW e PROVE ~Falla(e)
  BY DEF Falla, Undisturbed
<1>2. error = 0 /\ (fase = "exit" => salida = 0)
  BY DEF Smooth
<1>3. CASE Skip \/ Swap
  BY <1>2, <1>3 DEF Skip, Swap, AtPartition, files, Smooth
<1>4. CASE Prep_fails
  BY <1>1, <1>4 DEF Prep_fails
<1>5. CASE Start_gen \/ Start_rest
  <2>1. UNCHANGED files /\ puerto'
    BY <1>1, <1>5 DEF Start_gen, Start_rest
  <2>2. fase' = "pipe" /\ sent' = leido' /\ ret' = [p \in Procs |-> 0]
    BY <1>5 DEF Start_gen, Start_rest, NewPipeline
  <2>3. \A p \in Procs : st'[p] \in {"off", "check", "run", "ended", "port", "start"}
    BY <1>5 DEF Start_gen, Start_rest
  <2>4. st'["src"] # "ended"
    BY <1>5 DEF Start_gen, Start_rest
  <2> QED
    BY <1>2, <2>1, <2>2, <2>3, <2>4 DEF Smooth, files, ErrorStates
<1>6. CASE Pipeline_done
  <2>1. ret["snk"] = 0 /\ ~Reported
    BY <1>2, <1>6 DEF Pipeline_done, Smooth, Reported
  <2> QED
    BY <1>2, <1>6, <2>1 DEF Pipeline_done, Smooth, files
<1>7. CASE Put_meta
  BY <1>1, <1>2, <1>7 DEF Put_meta, Exit, files, Smooth
<1> QED
  BY <1>3, <1>4, <1>5, <1>6, <1>7 DEF Script

\* No race of the members, and no order in which they end, makes the script
\* fail when nothing else does.
THEOREM FailuresComeFromOutside == Spec => []NoSpuriousFailure
<1>1. Init => SInv
  BY DEF Init, InitEstado, SInv, Smooth
<1>2. ASSUME IInv, SInv, [Next]_vars PROVE SInv'
  <2> SUFFICES ASSUME Undisturbed' PROVE Smooth'
    BY DEF SInv
  <2>1. Undisturbed /\ Smooth
    BY <1>2, UndisturbedBefore DEF SInv
  <2>2. CASE UNCHANGED vars
    BY <2>1, <2>2 DEF Smooth, vars, config, script, files, procs, data
  <2> QED
    BY <1>2, <2>1, <2>2, SmoothScript, SmoothStages DEF Next, Terminated
<1>3. SInv => NoSpuriousFailure
  BY DEF SInv, Smooth, Undisturbed, NoSpuriousFailure
<1> QED
  BY <1>1, <1>2, <1>3, Invariance, PTL DEF Spec
=============================================================================
