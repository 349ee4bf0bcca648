------------------------ MODULE FilesystemsCdProofs ------------------------
(***************************************************************************)
(* What fin.d/filesystems guarantees when it restores from discs, for any  *)
(* number of partitions, volumes and discs, and whatever the user inserts. *)
(***************************************************************************)
EXTENDS FilesystemsCd, FilesystemsProofs

W == INSTANCE WellFoundedInduction

\* The disc with volume v of the current partition, and what the first v volumes
\* of an image hold.
DiscOf(v) == DiscoDe[id][v]
Chunks(v) == v * VolSize

CdTypes ==
    /\ medio = "cdrom" /\ TypeScript /\ TypeData
    /\ accion \in [Parts -> {"none", "rest"}] /\ cloner \in [Parts -> Cloners]
    /\ st \in [Procs -> States \cup {"prompt"}]
    /\ cod \in [Procs -> Nat] /\ ret \in [Procs -> 0..1] /\ puerto \in BOOLEAN
    /\ cd \in 0..NDiscos /\ vol \in 1..Vols /\ num \in Nat \ {0}
    /\ cambio \in BOOLEAN /\ errores \in 0..MaxErrores

\* concatena has not started on the volume it is at.
Between == st["con"] \in {"start", "prompt"}

\* Where each member can be, and which codes it reports.  The monitor reports
\* nothing here, and concatena and cat only end.
CdPlaces ==
    /\ st["mon"] \in {"off", "check", "poll", "end", "ended"}
    /\ st["con"] \in {"start", "prompt", "wait", "ended"}
    /\ st["src"] \in {"off", "run", "ended"}
    /\ st["mid"] \in {"run", "ended"} \cup ErrorStates
    /\ st["snk"] \in {"run", "ended"} \cup ErrorStates
    /\ Between => st["mon"] \in {"off", "ended"} /\ st["src"] \in {"off", "ended"}
    /\ ~Between => st["mon"] # "off" /\ st["src"] # "off"
    /\ st["con"] = "ended" => st["mon"] = "ended" /\ st["src"] = "ended"
    /\ st["mid"] \in ErrorStates => cod["mid"] \in 31..36
    /\ st["snk"] \in ErrorStates => cod["snk"] \in 25..28

\* How far the volumes have been read.
Volumes ==
    /\ ret["mon"] = 0 /\ ret["con"] = 0 /\ ret["mid"] = 0 /\ ret["snk"] = 0
    /\ Between => ret["src"] = 0 /\ leido = Chunks(vol - 1)
    /\ Chunks(vol - 1) <= leido /\ leido <= Chunks(vol)
    /\ ~Between /\ st["src"] = "ended" /\ ret["src"] = 0 => leido = Chunks(vol)
    /\ st["src"] = "run" => ret["src"] = 0
    /\ st["con"] = "ended" => ret["src"] = 1 \/ vol = Vols

\* Nothing is lost inside the pipes.
CdConservation == sent = leido /\ sent = p1 + p2 + disco[id]

\* Why a member that has ended may have ended.
CdEndings ==
    /\ st["mid"] = "ended" => error # 0 \/ (st["con"] = "ended" /\ p1 = 0)
    /\ st["snk"] = "ended" => Alarm \/ disco[id] = Size

\* The volume is over and is not the last one: cat leaves STOP_MONITOR.
Turn == vol < Vols /\ st["src"] = "ended" /\ ret["src"] = 0

\* The cloner of dd_rescue has ended, or any other has written everything.
ClonerIsOver == IF cloner[id] = "dd" THEN st["snk"] = "ended" ELSE disco[id] = Size

\* What STOP_MONITOR and the end of the monitor mean.  Between two volumes, and
\* beside a monitor that has ended, only error() can have left STOP_MONITOR.
CdStopMeaning ==
    /\ percent = Size => cloner[id] # "dd" /\ disco[id] = Size
    /\ st["mon"] = "end" => percent = Size
    /\ ~Between /\ (st["mon"] = "ended" \/ stop) => Alarm \/ Turn \/ ClonerIsOver
    /\ (Between \/ st["mon"] = "ended") /\ stop => Alarm

CdPipe ==
    /\ id \in Parts /\ accion[id] = "rest"
    /\ CdPlaces /\ Volumes /\ CdConservation /\ CdEndings /\ CdStopMeaning

CdInv ==
    /\ CdTypes
    /\ \A q \in Parts : q < id => Done(q)
    /\ fase = "pipe" => CdPipe
    /\ fase # "pipe" => Quiet
-----------------------------------------------------------------------------
(* Volumes and discs. *)

USE SizesAssumption DEF Parts, Procs

LEMMA ChunksFacts ==
  ASSUME NEW v \in 1..Vols
  PROVE  /\ Chunks(v - 1) \in Nat /\ Chunks(v) \in Nat /\ Chunks(v) \in 0..Size
         /\ Chunks(v) = Chunks(v - 1) + VolSize /\ VolSize \in Nat \ {0}
         /\ v < Vols => Chunks(v) < Size
         /\ v = Vols => Chunks(v) = Size
         /\ Chunks(0) = 0
<1>1. VolSize \in Nat \ {0} /\ Vols \in Nat \ {0} /\ Size = Vols * VolSize /\ v \in Nat /\ v >= 1 /\ v <= Vols
  BY VolumesAssumption
<1>2. ASSUME NEW a \in Nat, NEW b \in Nat PROVE a * b \in Nat
  OBVIOUS
<1>3. v * VolSize = (v - 1) * VolSize + VolSize /\ (v - 1) * VolSize \in Nat /\ v * VolSize \in Nat
  BY <1>1, <1>2
<1>4. Vols * VolSize = v * VolSize + (Vols - v) * VolSize /\ (Vols - v) * VolSize \in Nat
  BY <1>1, <1>2
<1>5. v < Vols => (Vols - v) * VolSize = (Vols - v - 1) * VolSize + VolSize
                  /\ (Vols - v - 1) * VolSize \in Nat
  BY <1>1, <1>2
<1>6. 0 * VolSize = 0
  BY <1>1
<1>7. v < Vols => v * VolSize < Size
  BY <1>1, <1>3, <1>4, <1>5
<1>8. v * VolSize \in 0..Size
  BY <1>1, <1>3, <1>4
<1> QED
  BY <1>1, <1>3, <1>6, <1>7, <1>8 DEF Chunks

\* The volumes of an image are on discs that do not go back.
LEMMA LastDisc ==
  ASSUME NEW p \in Parts
  PROVE  DiscoDe[p][1] <= DiscoDe[p][Vols]
<1> DEFINE d == DiscoDe[p]
           T == {v \in 1..Vols : d[v] < d[1]}
<1>1. /\ Vols \in Nat \ {0} /\ 1 \in 1..Vols /\ Vols \in 1..Vols
      /\ \A v \in 1..Vols : d[v] \in Int
  BY LayoutAssumption, VolumesAssumption DEF Discos
<1>2. ASSUME NEW v \in 1..Vols, v < Vols PROVE d[v + 1] - d[v] \in {0, 1}
  BY <1>2, LayoutAssumption
<1> HIDE DEF d
<1>3. ASSUME T # {} PROVE FALSE
  <2>1. PICK v \in T : \A w \in T : ~ (<<w, v>> \in W!OpToRel(<, Nat))
    <3>1. T \subseteq Nat
      BY <1>1
    <3> QED
      BY <1>3, <3>1, W!NatLessThanWellFounded, W!WFMin
  <2>2. v \in 1..Vols /\ v # 1 /\ d[v] < d[1]
    <3>1. v \in 1..Vols /\ d[v] < d[1]
      OBVIOUS
    <3>2. ~(d[1] < d[1])
      BY <1>1
    <3> QED
      BY <3>1, <3>2
  <2>3. v - 1 \in 1..Vols /\ v - 1 < Vols /\ (v - 1) + 1 = v
    BY <1>1, <2>2
  <2>4. d[v] - d[v - 1] \in {0, 1}
    BY <1>2, <2>3
  <2>5. d[v] \in Int /\ d[v - 1] \in Int /\ d[1] \in Int
    BY <1>1, <2>2, <2>3
  <2>6. v - 1 \in T
    BY <2>2, <2>3, <2>4, <2>5
  <2>7. <<v - 1, v>> \in W!OpToRel(<, Nat)
    BY <2>2, <2>3, <1>1 DEF W!OpToRel
  <2> QED
    BY <2>1, <2>6, <2>7
<1>4. Vols \notin T
  BY <1>3
<1>5. ~(d[Vols] < d[1])
  BY <1>1, <1>4
<1>6. d[1] <= d[Vols]
  BY <1>1, <1>5
<1> QED
  BY <1>6 DEF d
-----------------------------------------------------------------------------
(* CdInv holds at first. *)

LEMMA CdInitOK == InitCd => CdInv
<1> SUFFICES ASSUME InitCd PROVE CdInv
  OBVIOUS
<1>1. /\ imagen \in [Parts -> 0..Size] /\ accion \in [Parts -> {"none", "rest"}]
      /\ cloner \in [Parts -> Cloners]
  BY ChoicesAssumption, NothingGenerated, Zenon, FunctionRange DEF InitCd, InitEstado
<1>2. TypeScript
  <2>1. fase = "next" /\ id = 1 /\ salida = 0 /\ error = 0
    BY DEF InitCd, InitEstado
  <2>2. {success_gen, meta, stop} \subseteq BOOLEAN
    BY DEF InitCd, InitEstado
  <2> QED
    BY <2>1, <2>2 DEF TypeScript
<1>3. TypeData
  BY <1>1 DEF InitCd, InitEstado, TypeData
<1>4. st \in [Procs -> States \cup {"prompt"}] /\ cod \in [Procs -> Nat] /\ ret \in [Procs -> 0..1]
  BY DEF InitCd, InitEstado, AllEnded, States
<1>5. /\ cd \in 0..NDiscos /\ vol \in 1..Vols /\ num \in Nat \ {0} /\ errores \in 0..MaxErrores
  <2>1. cd \in 1..NDiscos /\ vol = 1 /\ num = 1 /\ errores = 0
    BY DEF InitCd, Discos
  <2>2. 1 \in 1..Vols /\ 0 \in 0..MaxErrores
    BY VolumesAssumption
  <2> QED
    BY <2>1, <2>2
<1>6. puerto \in BOOLEAN /\ cambio \in BOOLEAN /\ medio = "cdrom"
  BY DEF InitCd, InitEstado
<1>7. CdTypes
  BY <1>1, <1>2, <1>3, <1>4, <1>5, <1>6 DEF CdTypes
<1>8. Quiet
  BY DEF InitCd, InitEstado, Quiet, AllEnded
<1> QED
  BY <1>7, <1>8 DEF InitCd, InitEstado, CdInv

-----------------------------------------------------------------------------
(* The members of the pipeline. *)

\* What a step that stays within a pipeline has to show.
LEMMA CdPipeStep ==
  ASSUME CdInv, fase = "pipe", UNCHANGED <<config, script>>, CdTypes',
         \A q \in Parts : Local(q),
         CdPlaces', Volumes', CdConservation', CdEndings', CdStopMeaning'
  PROVE  CdInv'
<1>1. id' = id /\ accion' = accion /\ fase' = fase
  BY DEF config, script
<1>2. CdPipe'
  BY <1>1 DEF CdInv, CdPipe
<1>3. \A q \in Parts : q < id' => Done(q)'
  <2>1. id \in 1..NParts
    BY DEF CdInv, CdPipe
  <2> QED
    BY <1>1, <2>1 DEF CdInv, Done, Local
<1> QED
  BY <1>1, <1>2, <1>3 DEF CdInv

LEMMA CdDestinations == CdInv => Destinations
<1> SUFFICES ASSUME CdInv PROVE Destinations
  OBVIOUS
<1>1. accion \in [Parts -> {"none", "gen", "rest"}]
  <2>1. accion \in [Parts -> {"none", "rest"}] /\ {"none", "rest"} \subseteq {"none", "gen", "rest"}
    BY DEF CdInv, CdTypes
  <2> QED
    BY <2>1, FunctionRange
<1> QED
  BY <1>1 DEF CdInv, CdTypes, TypeScript, TypeData, Destinations

LEMMA CdStageIsLocal ==
  ASSUME CdInv, Monitor \/ Middle \/ Last
  PROVE  UNCHANGED <<config, script>> /\ \A q \in Parts : Local(q)
BY CdDestinations, StageIsLocal

\* error(), which comprime and rest_cmd run.
LEMMA CdErrorStepOK ==
  ASSUME CdInv, fase = "pipe", NEW p \in {"mid", "snk"}, ErrorStep(p), UNCHANGED cdvars,
         UNCHANGED <<config, script>>, \A q \in Parts : Local(q)
  PROVE  CdInv'
<1>0. /\ UNCHANGED <<medio, accion, cloner, fase, id, salida, success_gen, meta>>
      /\ UNCHANGED <<cod, ret, puerto, imagen, disco, leido, sent, p1, p2, percent, fallos>>
      /\ UNCHANGED <<cd, vol, num, cambio, errores>>
  BY DEF ErrorStep, config, script, data, cdvars
<1>1. CdPipe /\ CdTypes
  BY DEF CdInv
<1>2. st \in [Procs -> States \cup {"prompt"}] /\ error \in Nat /\ stop \in BOOLEAN
  BY <1>1 DEF CdTypes, TypeScript
<1>3. cod[p] \in 25..28 \cup 31..36 /\ st[p] \in ErrorStates
  BY <1>1 DEF CdPipe, CdPlaces, ErrorStep, ErrorStates
<1>4. \/ /\ st[p] = "touch" /\ st' = [st EXCEPT ![p] = "test"] /\ stop' = TRUE /\ error' = error
      \/ /\ st[p] = "test" /\ st' = [st EXCEPT ![p] = "write"] /\ stop' = stop /\ error = 0 /\ error' = 0
      \/ /\ st[p] # "touch" /\ st' = [st EXCEPT ![p] = "ended"] /\ stop' = stop
         /\ error' # 0 /\ error' \in Nat
  <2>1. Resume(p) = "ended" /\ cod[p] \in Nat \ {0}
    BY <1>3 DEF Resume
  <2> QED
    BY <1>2, <2>1 DEF ErrorStep
<1>5. stop' \in BOOLEAN /\ error' \in Nat /\ st' \in [Procs -> States \cup {"prompt"}]
  <2>1. stop' \in BOOLEAN
    BY <1>2, <1>4
  <2>2. error' \in Nat
    BY <1>2, <1>4
  <2>3. st' \in [Procs -> States \cup {"prompt"}]
    BY <1>2, <1>4 DEF States, Running
  <2> QED
    BY <2>1, <2>2, <2>3
<1>6. CdTypes'
  BY <1>0, <1>1, <1>5 DEF CdTypes, TypeScript, TypeData
<1>7. Alarm => Alarm'
  BY <1>2, <1>4 DEF Alarm
<1>8. /\ \A r \in Procs \ {p} : st'[r] = st[r]
      /\ st'[p] \in {"test", "write", "ended"} /\ (st'[p] = "ended" => error' # 0)
      /\ (error # 0 => error' # 0)
  BY <1>2, <1>4
<1>9. Between <=> Between'
  BY <1>8 DEF Between
<1>10. CdPlaces'
  BY <1>0, <1>1, <1>3, <1>8, <1>9 DEF CdPipe, CdPlaces, ErrorStates
<1>11. Volumes'
  BY <1>0, <1>1, <1>8, <1>9 DEF CdPipe, Volumes
<1>12. CdConservation'
  BY <1>0, <1>1 DEF CdPipe, CdConservation
<1>13. CdEndings'
  <2>1. error' # 0 => Alarm'
    BY DEF Alarm
  <2> QED
    BY <1>0, <1>1, <1>7, <1>8, <2>1 DEF CdPipe, CdEndings
<1>14. CdStopMeaning'
  <2>1. Turn <=> Turn'
    BY <1>0, <1>8 DEF Turn
  <2>2. CASE Alarm'
    BY <1>0, <1>1, <1>8, <2>2 DEF CdPipe, CdStopMeaning
  <2>3. CASE ~Alarm'
    <3>1. stop' = stop /\ st'[p] # "ended"
      <4>1. st'[p] = "test" => Alarm'
        BY DEF Alarm
      <4> QED
        BY <1>2, <1>4, <1>8, <2>3, <4>1 DEF Alarm
    <3>2. st'["snk"] = "ended" <=> st["snk"] = "ended"
      BY <1>3, <1>8, <3>1 DEF ErrorStates
    <3> QED
      BY <1>0, <1>1, <1>7, <1>8, <1>9, <2>1, <2>3, <3>1, <3>2 DEF CdPipe, CdStopMeaning, ClonerIsOver
  <2> QED
    BY <2>2, <2>3
<1> QED
  BY <1>6, <1>10, <1>11, <1>12, <1>13, <1>14, CdPipeStep

\* The monitor of a volume.
LEMMA CdMonitorOK ==
  ASSUME CdInv, fase = "pipe", Monitor, UNCHANGED cdvars
  PROVE  CdInv'
<1>1. CdPipe /\ CdTypes
  BY DEF CdInv
<1>2. /\ st \in [Procs -> States \cup {"prompt"}] /\ stop \in BOOLEAN
      /\ disco[id] \in 0..Size /\ medio = "cdrom"
  BY <1>1 DEF CdTypes, TypeScript, TypeData, CdPipe
<1>3. ~ErrorStep("mon") /\ ~MonitorStatus
  BY <1>1 DEF CdPipe, CdPlaces, ErrorStep, MonitorStatus
<1>4. MonitorCheck \/ MonitorPoll \/ MonitorEnd
  BY <1>3 DEF Monitor
<1>0. /\ UNCHANGED <<medio, accion, cloner, fase, id, salida, success_gen, meta, error>>
      /\ UNCHANGED <<cod, ret, puerto, imagen, disco, leido, sent, p1, p2, fallos>>
      /\ UNCHANGED <<cd, vol, num, cambio, errores>>
  BY <1>4 DEF MonitorCheck, MonitorPoll, MonitorEnd, config, script, files, data, cdvars
<1>5. /\ st["mon"] \in {"check", "poll", "end"}
      /\ \/ st' = [st EXCEPT !["mon"] = "end"] /\ percent = Size /\ UNCHANGED <<stop, percent>>
         \/ /\ st' = [st EXCEPT !["mon"] = "ended"] /\ stop' = FALSE
            /\ stop \/ percent = Size
            /\ UNCHANGED percent
         \/ st' = [st EXCEPT !["mon"] = "poll"] /\ UNCHANGED <<stop, percent>>
         \/ st' = [st EXCEPT !["mon"] = "check"] /\ percent' = Parse_stats /\ UNCHANGED stop
  <2>1. st["mon"] = "end" => percent = Size
    BY <1>1 DEF CdPipe, CdStopMeaning
  <2>2. medio # "net"
    BY <1>2
  <2> QED
    BY <1>4, <2>1, <2>2 DEF MonitorCheck, MonitorPoll, MonitorEnd, files
<1>6. Parse_stats \in 0..Size /\ (Parse_stats = Size => cloner[id] # "dd" /\ disco[id] = Size)
  BY <1>1, <1>2 DEF Parse_stats, CdPipe
<1>7. /\ stop' \in BOOLEAN /\ percent' \in 0..Size /\ st' \in [Procs -> States \cup {"prompt"}]
  <2>1. percent \in 0..Size
    BY <1>1 DEF CdTypes, TypeData
  <2> QED
    <3>1. stop' \in BOOLEAN
      BY <1>2, <1>5
    <3>2. percent' \in 0..Size
      BY <1>5, <1>6, <2>1
    <3>3. st' \in [Procs -> States \cup {"prompt"}]
      BY <1>2, <1>5 DEF States, Running
    <3> QED
      BY <3>1, <3>2, <3>3
<1>8. CdTypes'
  BY <1>0, <1>1, <1>7 DEF CdTypes, TypeScript, TypeData
<1>9. /\ \A r \in Procs \ {"mon"} : st'[r] = st[r]
      /\ st'["mon"] \in {"end", "ended", "poll", "check"}
  BY <1>2, <1>5
<1>10. (Between <=> Between') /\ ~Between /\ st["con"] # "ended"
  BY <1>1, <1>5, <1>9 DEF Between, CdPipe, CdPlaces
<1>11. Alarm <=> Alarm'
  <2>1. st["mon"] \notin {"test", "write"} /\ st'["mon"] \notin {"test", "write"}
    BY <1>5, <1>9
  <2> QED
    BY <1>0, <1>9, <2>1 DEF Alarm
<1>12. CdPlaces'
  BY <1>0, <1>1, <1>9, <1>10 DEF CdPipe, CdPlaces
<1>13. Volumes'
  BY <1>0, <1>1, <1>9, <1>10 DEF CdPipe, Volumes
<1>14. CdConservation' /\ CdEndings'
  BY <1>0, <1>1, <1>9, <1>11 DEF CdPipe, CdConservation, CdEndings
<1>15. CdStopMeaning'
  <2>1. (Turn <=> Turn') /\ (ClonerIsOver <=> ClonerIsOver')
    BY <1>0, <1>9 DEF Turn, ClonerIsOver
  <2>2. percent' = Size => cloner[id] # "dd" /\ disco[id] = Size
    BY <1>1, <1>5, <1>6 DEF CdPipe, CdStopMeaning
  <2>3. st'["mon"] = "end" => percent' = Size
    BY <1>2, <1>5
  <2>4. st'["mon"] = "ended" => stop' = FALSE /\ (stop \/ percent = Size)
    BY <1>2, <1>5
  <2>5. stop' => stop
    BY <1>5
  <2> QED
    BY <1>0, <1>1, <1>10, <1>11, <2>1, <2>2, <2>3, <2>4, <2>5 DEF CdPipe, CdStopMeaning, ClonerIsOver
<1> QED
  BY <1>8, <1>12, <1>13, <1>14, <1>15, CdPipeStep, CdStageIsLocal
\* concatena between two volumes: what it changes is not what the others see.
LEMMA BuscaOK ==
  ASSUME CdInv, Busca
  PROVE  CdInv'
<1>0. /\ UNCHANGED <<config, script>>
      /\ UNCHANGED <<medio, accion, cloner, fase, id, salida, success_gen, meta, stop, error>>
      /\ UNCHANGED <<cod, ret, puerto, imagen, disco, leido, sent, p1, p2, fallos>>
      /\ UNCHANGED <<vol, cambio, errores>>
  BY DEF Busca, config, script, files, data
<1>1. CdPipe /\ CdTypes /\ fase = "pipe"
  BY DEF CdInv, Busca, Rest
<1>2. st \in [Procs -> States \cup {"prompt"}] /\ percent \in 0..Size /\ Size # 0
      /\ num \in Nat \ {0} /\ cd \in 0..NDiscos /\ st["con"] = "start"
  BY <1>1 DEF CdTypes, TypeData, Busca
<1>3. \/ /\ st' = [st EXCEPT !["con"] = "wait", !["mon"] = "check", !["src"] = "run"]
         /\ percent' = 0
      \/ /\ st' = [st EXCEPT !["con"] = "prompt"] /\ percent' = percent
  BY DEF Busca
<1>4. num' \in Nat \ {0} /\ cd' \in 0..NDiscos
  <2>1. (num' = num \/ num' = num + 1) /\ (cd' = cd \/ cd' = 0)
    BY DEF Busca
  <2>2. 0 \in 0..NDiscos
    BY VolumesAssumption
  <2> QED
    BY <1>2, <2>1, <2>2
<1>5. CdTypes'
  <2>1. percent' \in 0..Size /\ st' \in [Procs -> States \cup {"prompt"}]
    <3>1. percent' \in 0..Size
      BY <1>2, <1>3
    <3>2. st' \in [Procs -> States \cup {"prompt"}]
      BY <1>2, <1>3 DEF States, Running
    <3> QED
      BY <3>1, <3>2
  <2> QED
    BY <1>0, <1>1, <1>4, <2>1 DEF CdTypes, TypeScript, TypeData
<1>6. /\ st'["mid"] = st["mid"] /\ st'["snk"] = st["snk"]
      /\ \/ /\ Between' /\ st'["con"] = "prompt" /\ st'["mon"] = st["mon"] /\ st'["src"] = st["src"]
            /\ percent' = percent
         \/ /\ ~Between' /\ st'["con"] = "wait" /\ st'["mon"] = "check" /\ st'["src"] = "run"
            /\ percent' = 0
  BY <1>2, <1>3 DEF Between
<1>7. Between
  BY <1>2 DEF Between
<1>8. Alarm => Alarm'
  <2>1. st["con"] = "start" /\ st["mon"] \in {"off", "ended"} /\ st["src"] \in {"off", "ended"}
    BY <1>1, <1>2, <1>7 DEF CdPipe, CdPlaces
  <2> QED
    BY <1>0, <1>6, <2>1 DEF Alarm
<1>9. CdPlaces'
  BY <1>0, <1>1, <1>6, <1>7 DEF CdPipe, CdPlaces
<1>10. Volumes'
  BY <1>0, <1>1, <1>6, <1>7 DEF CdPipe, Volumes
<1>11. CdConservation' /\ CdEndings'
  BY <1>0, <1>1, <1>2, <1>6, <1>8 DEF CdPipe, CdConservation, CdEndings
<1>12. CdStopMeaning'
  BY <1>0, <1>1, <1>2, <1>6, <1>7, <1>8 DEF CdPipe, CdStopMeaning, CdPlaces
<1> QED
  BY <1>0, <1>1, <1>5, <1>9, <1>10, <1>11, <1>12, CdPipeStep DEF Local

LEMMA Cambia_discoOK ==
  ASSUME CdInv, Cambia_disco
  PROVE  CdInv'
<1>0. /\ UNCHANGED <<config, script>>
      /\ UNCHANGED <<medio, accion, cloner, fase, id, salida, success_gen, meta, stop, error>>
      /\ UNCHANGED <<cod, ret, puerto, imagen, disco, leido, sent, p1, p2, percent, fallos>>
      /\ UNCHANGED <<vol, num>>
  BY DEF Cambia_disco, config, script, files, data
<1>1. CdPipe /\ CdTypes /\ fase = "pipe"
  BY DEF CdInv, Cambia_disco, Rest
<1>2. /\ st \in [Procs -> States \cup {"prompt"}] /\ st["con"] = "prompt"
      /\ cd \in 0..NDiscos /\ errores \in 0..MaxErrores /\ cambio \in BOOLEAN
  BY <1>1 DEF CdTypes, Cambia_disco
<1>3. /\ st' = st \/ st' = [st EXCEPT !["con"] = "start"]
      /\ cd' = cd \/ cd' \in Discos
      /\ cambio' = cambio \/ cambio' = TRUE
      /\ errores' = errores \/ (errores < MaxErrores /\ errores' = errores + 1)
  BY DEF Cambia_disco
<1>4. CdTypes'
  <2>1. cd' \in 0..NDiscos /\ errores' \in 0..MaxErrores
    <3>1. cd' \in 0..NDiscos
      BY <1>2, <1>3, VolumesAssumption DEF Discos
    <3>2. errores' \in 0..MaxErrores
      BY <1>2, <1>3, VolumesAssumption
    <3> QED
      BY <3>1, <3>2
  <2>2. cambio' \in BOOLEAN
    BY <1>2, <1>3
  <2>3. st' \in [Procs -> States \cup {"prompt"}]
    BY <1>2, <1>3 DEF States, Running
  <2> QED
    BY <1>0, <1>1, <2>1, <2>2, <2>3 DEF CdTypes, TypeScript, TypeData
<1>5. /\ Between /\ Between' /\ st'["con"] \in {"start", "prompt"}
      /\ st'["mon"] = st["mon"] /\ st'["src"] = st["src"]
      /\ st'["mid"] = st["mid"] /\ st'["snk"] = st["snk"]
  BY <1>2, <1>3 DEF Between
<1>6. Alarm <=> Alarm'
  BY <1>0, <1>2, <1>5 DEF Alarm
<1>7. CdPlaces' /\ Volumes'
  BY <1>0, <1>1, <1>5 DEF CdPipe, CdPlaces, Volumes
<1>8. CdConservation' /\ CdEndings'
  BY <1>0, <1>1, <1>2, <1>5, <1>6 DEF CdPipe, CdConservation, CdEndings
<1>9. CdStopMeaning'
  BY <1>0, <1>1, <1>5, <1>6 DEF CdPipe, CdStopMeaning
<1> QED
  BY <1>0, <1>1, <1>4, <1>7, <1>8, <1>9, CdPipeStep DEF Local

\* cat of a volume.  The STOP_MONITOR it leaves finds its own monitor running,
\* or a failure that has been reported.
LEMMA CatOK ==
  ASSUME CdInv, Cat
  PROVE  CdInv'
<1>0. /\ UNCHANGED <<config, script>>
      /\ UNCHANGED <<medio, accion, cloner, fase, id, salida, success_gen, meta, error>>
      /\ UNCHANGED <<cod, puerto, imagen, disco, p2, percent>>
      /\ UNCHANGED <<cd, vol, num, cambio, errores>>
  BY DEF Cat, config, script, cdvars
<1>1. CdPipe /\ CdTypes /\ fase = "pipe"
  BY DEF CdInv, Cat, Rest
<1>2. /\ st \in [Procs -> States \cup {"prompt"}] /\ ret \in [Procs -> 0..1] /\ vol \in 1..Vols
      /\ leido \in 0..Size /\ sent \in 0..Size /\ p1 \in 0..PipeCap /\ p2 \in 0..PipeCap
      /\ disco[id] \in 0..Size /\ fallos \in 0..MaxFallos /\ stop \in BOOLEAN
  BY <1>1 DEF CdTypes, TypeData, TypeScript, CdPipe
<1>3. /\ st["src"] = "run" /\ ret["src"] = 0
      /\ \/ /\ leido < Chunks(vol) /\ p1 < PipeCap
            /\ leido' = leido + 1 /\ sent' = sent + 1 /\ p1' = p1 + 1
            /\ UNCHANGED <<stop, st, ret>>
         \/ /\ leido = Chunks(vol)
            /\ st' = [st EXCEPT !["src"] = "ended"] /\ stop' = (stop \/ vol < Vols)
            /\ UNCHANGED <<leido, sent, p1, ret>>
         \/ /\ st' = [st EXCEPT !["src"] = "ended"] /\ ret' = [ret EXCEPT !["src"] = 1]
            /\ UNCHANGED <<leido, sent, p1, stop>>
      /\ fallos' = fallos \/ (fallos < MaxFallos /\ fallos' = fallos + 1)
  <2>1. ret["src"] = 0
    BY <1>1 DEF Cat, CdPipe, Volumes
  <2> QED
    BY <2>1 DEF Cat, Falla, Chunks
<1>4. Chunks(vol) \in 0..Size /\ Chunks(vol - 1) \in Nat
  BY <1>2, ChunksFacts
<1>5. CdTypes'
  <2>1. leido' \in 0..Size /\ sent' \in 0..Size /\ p1' \in 0..PipeCap /\ fallos' \in 0..MaxFallos
    <3>1. sent = leido
      BY <1>1 DEF CdPipe, CdConservation
    <3> QED
      BY <1>2, <1>3, <1>4, <3>1
  <2>2. stop' \in BOOLEAN
    BY <1>2, <1>3
  <2>3. st' \in [Procs -> States \cup {"prompt"}]
    BY <1>2, <1>3 DEF States
  <2>4. ret' \in [Procs -> 0..1]
    BY <1>2, <1>3
  <2> QED
    BY <1>0, <1>1, <2>1, <2>2, <2>3, <2>4 DEF CdTypes, TypeScript, TypeData
<1>6. /\ \A r \in Procs \ {"src"} : st'[r] = st[r] /\ ret'[r] = ret[r]
      /\ st'["src"] \in {"run", "ended"}
  BY <1>2, <1>3
<1>7. ~Between /\ ~Between' /\ st["con"] = "wait" /\ st'["con"] = "wait"
  BY <1>1, <1>3, <1>6 DEF Between, CdPipe, CdPlaces
<1>8. Alarm <=> Alarm'
  BY <1>0, <1>3, <1>6 DEF Alarm
<1>9. CdPlaces'
  BY <1>0, <1>1, <1>6, <1>7 DEF CdPipe, CdPlaces
<1>10. Volumes'
  <2>1. Chunks(vol - 1) <= leido /\ leido <= Chunks(vol)
    BY <1>1 DEF CdPipe, Volumes
  <2>2. Chunks(vol - 1) <= leido' /\ leido' <= Chunks(vol)
    BY <1>2, <1>3, <1>4, <2>1
  <2>3. st'["src"] = "ended" /\ ret'["src"] = 0 => leido' = Chunks(vol)
    BY <1>2, <1>3
  <2>4. st'["src"] = "run" => ret'["src"] = 0
    BY <1>2, <1>3
  <2> QED
    BY <1>0, <1>1, <1>6, <1>7, <2>2, <2>3, <2>4 DEF CdPipe, Volumes
<1>11. CdConservation'
  <2>1. sent = leido /\ sent = p1 + p2 + disco[id]
    BY <1>1 DEF CdPipe, CdConservation
  <2>2. sent' = leido' /\ sent' = p1' + p2 + disco[id]
    BY <1>2, <1>3, <2>1
  <2> QED
    BY <1>0, <2>2 DEF CdConservation
<1>12. CdEndings'
  <2>1. st["mid"] = "ended" => error # 0
    BY <1>1, <1>7 DEF CdPipe, CdEndings
  <2> QED
    BY <1>0, <1>1, <1>6, <1>8, <2>1 DEF CdPipe, CdEndings
<1>13. CdStopMeaning'
  <2>1. ~Turn
    BY <1>3 DEF Turn
  <2>2. ClonerIsOver <=> ClonerIsOver'
    BY <1>0, <1>6 DEF ClonerIsOver
  <2>3. ~stop /\ stop' => Turn' /\ vol < Vols /\ leido = Chunks(vol)
    BY <1>0, <1>2, <1>3 DEF Turn
  <2>4. vol < Vols /\ leido = Chunks(vol) => disco[id] # Size
    <3>1. vol < Vols => Chunks(vol) < Size
      BY <1>2, ChunksFacts
    <3>2. leido = p1 + p2 + disco[id]
      BY <1>1 DEF CdPipe, CdConservation
    <3> QED
      BY <1>2, <1>4, <3>1, <3>2
  <2>5. ClonerIsOver => Alarm \/ disco[id] = Size
    BY <1>1 DEF ClonerIsOver, CdPipe, CdEndings
  <2>6. st["mon"] = "ended" => Alarm \/ ClonerIsOver
    BY <1>1, <1>7, <2>1 DEF CdPipe, CdStopMeaning
  <2> QED
    BY <1>0, <1>1, <1>6, <1>7, <1>8, <2>1, <2>2, <2>3, <2>4, <2>5, <2>6 DEF CdPipe, CdStopMeaning
<1> QED
  BY <1>0, <1>1, <1>5, <1>9, <1>10, <1>11, <1>12, <1>13, CdPipeStep DEF Local

\* From one volume to the next: nothing is left of the last one.
LEMMA SiguienteOK ==
  ASSUME CdInv, Siguiente_volumen
  PROVE  CdInv'
<1>0. /\ UNCHANGED <<config, script>>
      /\ UNCHANGED <<medio, accion, cloner, fase, id, salida, success_gen, meta, stop, error>>
      /\ UNCHANGED <<cod, ret, puerto, imagen, disco, leido, sent, p1, p2, percent, fallos>>
      /\ UNCHANGED <<cd, num, errores>>
  BY DEF Siguiente_volumen, config, script, files, data
<1>1. CdPipe /\ CdTypes /\ fase = "pipe"
  BY DEF CdInv, Siguiente_volumen, Rest
<1>2. /\ st \in [Procs -> States \cup {"prompt"}] /\ vol \in 1..Vols /\ cambio \in BOOLEAN
      /\ st["con"] = "wait" /\ st["mon"] = "ended" /\ st["src"] = "ended"
      /\ ret["src"] \in 0..1
  BY <1>1 DEF CdTypes, Siguiente_volumen
<1>3. \/ /\ ret["src"] = 0 /\ vol < Vols /\ vol' = vol + 1 /\ cambio' = FALSE
         /\ st' = [st EXCEPT !["con"] = "start"]
      \/ /\ ret["src"] = 1 \/ vol = Vols
         /\ UNCHANGED <<vol, cambio>> /\ st' = [st EXCEPT !["con"] = "ended"]
  <2>1. ret["src"] = 0 \/ ret["src"] = 1
    BY <1>2
  <2>2. ~(vol < Vols) => vol = Vols
    BY <1>2, VolumesAssumption
  <2> QED
    BY <2>1, <2>2 DEF Siguiente_volumen
<1>4. CdTypes'
  <2>1. vol' \in 1..Vols
    BY <1>2, <1>3, VolumesAssumption
  <2>2. cambio' \in BOOLEAN
    BY <1>2, <1>3
  <2>3. st' \in [Procs -> States \cup {"prompt"}]
    BY <1>2, <1>3 DEF States, Running
  <2> QED
    BY <1>0, <1>1, <2>1, <2>2, <2>3 DEF CdTypes, TypeScript, TypeData
<1>5. \A r \in Procs \ {"con"} : st'[r] = st[r]
  BY <1>2, <1>3
<1>6. st["con"] = "wait" /\ ~Between
  BY <1>2 DEF Between
<1>7. \/ /\ st'["con"] = "start" /\ Between' /\ vol' = vol + 1 /\ ret["src"] = 0 /\ vol < Vols
      \/ /\ st'["con"] = "ended" /\ ~Between' /\ vol' = vol /\ (ret["src"] = 1 \/ vol = Vols)
  BY <1>2, <1>3 DEF Between
<1>8. Alarm <=> Alarm'
  <2>1. st'["con"] \notin {"test", "write"}
    BY <1>7
  <2> QED
    BY <1>0, <1>2, <1>5, <2>1 DEF Alarm
<1>9. CdPlaces'
  BY <1>0, <1>1, <1>2, <1>5, <1>7 DEF CdPipe, CdPlaces
<1>10. Volumes'
  <2>1. CASE vol' = vol
    BY <1>0, <1>1, <1>2, <1>5, <1>6, <1>7, <2>1 DEF CdPipe, Volumes
  <2>2. CASE vol' = vol + 1 /\ Between' /\ ret["src"] = 0 /\ vol < Vols /\ st'["con"] = "start"
    <3>1. leido = Chunks(vol)
      BY <1>1, <1>2, <1>6, <2>2 DEF CdPipe, Volumes
    <3>2. vol' - 1 = vol /\ vol' \in 1..Vols
      BY <1>2, <2>2, VolumesAssumption
    <3>3. Chunks(vol') = Chunks(vol) + VolSize /\ Chunks(vol) \in Nat /\ VolSize \in Nat
      BY <3>2, ChunksFacts
    <3>4. Chunks(vol' - 1) = leido /\ leido <= Chunks(vol')
      BY <3>1, <3>2, <3>3
    <3>5. leido <= leido
      BY <3>1, <3>3
    <3> QED
      BY <1>0, <1>1, <1>2, <1>5, <2>2, <3>4, <3>5 DEF CdPipe, Volumes, Chunks
  <2> QED
    BY <1>7, <2>1, <2>2
<1>11. CdConservation' /\ CdEndings'
  <2>1. st["mid"] = "ended" => error # 0
    BY <1>1, <1>6 DEF CdPipe, CdEndings
  <2> QED
    BY <1>0, <1>1, <1>5, <1>8, <2>1 DEF CdPipe, CdConservation, CdEndings
<1>12. CdStopMeaning'
  <2>1. ClonerIsOver <=> ClonerIsOver'
    BY <1>0, <1>5 DEF ClonerIsOver
  <2>2. vol' = vol => (Turn <=> Turn')
    BY <1>0, <1>5 DEF Turn
  <2> QED
    BY <1>0, <1>1, <1>2, <1>5, <1>6, <1>7, <1>8, <2>1, <2>2 DEF CdPipe, CdStopMeaning
<1> QED
  BY <1>0, <1>1, <1>4, <1>9, <1>10, <1>11, <1>12, CdPipeStep DEF Local

\* Everything has been written only when the last volume has been read.
LEMMA FullMeansLast ==
  ASSUME CdInv, fase = "pipe", disco[id] = Size
  PROVE  vol = Vols /\ ~Between /\ leido = Size /\ p1 = 0 /\ p2 = 0
<1>1. CdPipe /\ CdTypes
  BY DEF CdInv
<1>2. /\ vol \in 1..Vols /\ leido \in 0..Size /\ p1 \in 0..PipeCap /\ p2 \in 0..PipeCap
  BY <1>1 DEF CdTypes, TypeData
<1>3. leido = p1 + p2 + Size
  BY <1>1 DEF CdPipe, CdConservation
<1>4. leido = Size /\ p1 = 0 /\ p2 = 0
  BY <1>2, <1>3
<1>5. leido <= Chunks(vol) /\ (Between => leido = Chunks(vol - 1))
  BY <1>1 DEF CdPipe, Volumes
<1>6. /\ Chunks(vol - 1) \in Nat /\ Chunks(vol) \in 0..Size /\ VolSize \in Nat \ {0}
      /\ Chunks(vol) = Chunks(vol - 1) + VolSize /\ (vol < Vols => Chunks(vol) < Size)
  BY <1>2, ChunksFacts
<1>7. ~(vol < Vols) /\ ~Between
  BY <1>2, <1>4, <1>5, <1>6
<1> QED
  BY <1>2, <1>4, <1>7, VolumesAssumption

LEMMA CdComprimeOK ==
  ASSUME CdInv, Comprime, UNCHANGED cdvars
  PROVE  CdInv'
<1>0. /\ UNCHANGED <<config, script>>
      /\ UNCHANGED <<medio, accion, cloner, fase, id, salida, success_gen, meta, stop, error>>
      /\ UNCHANGED <<ret, puerto, imagen, disco, leido, sent, percent>>
      /\ UNCHANGED <<cd, vol, num, cambio, errores>>
  BY DEF Comprime, config, script, files, cdvars
<1>1. CdPipe /\ CdTypes /\ fase = "pipe" /\ accion[id] = "rest"
  BY DEF CdInv, CdPipe, Comprime
<1>2. /\ st \in [Procs -> States \cup {"prompt"}] /\ cod \in [Procs -> Nat]
      /\ p1 \in 0..PipeCap /\ p2 \in 0..PipeCap /\ fallos \in 0..MaxFallos
      /\ disco[id] \in 0..Size /\ sent \in 0..Size
  BY <1>1 DEF CdTypes, TypeData, CdPipe
<1>3. /\ st["mid"] = "run"
      /\ \/ /\ p1 > 0 /\ p2 < PipeCap /\ p1' = p1 - 1 /\ p2' = p2 + 1
            /\ UNCHANGED <<st, cod>>
         \/ /\ p1 = 0 /\ st["con"] = "ended" /\ st' = [st EXCEPT !["mid"] = "ended"]
            /\ UNCHANGED <<p1, p2, cod>>
         \/ /\ st' = [st EXCEPT !["mid"] = "touch"] /\ cod' = [cod EXCEPT !["mid"] = Compr_code]
            /\ UNCHANGED <<p1, p2>>
  BY <1>1 DEF Comprime, Raise, Eof
<1>4. fallos' \in 0..MaxFallos
  BY <1>2 DEF Comprime, Falla
<1>5. Compr_code \in 31..36
  BY DEF Compr_code
<1>6. p1' \in 0..PipeCap /\ p2' \in 0..PipeCap /\ p1' + p2' = p1 + p2
  BY <1>2, <1>3
<1>7. CdTypes'
  <2>1. st' \in [Procs -> States \cup {"prompt"}]
    BY <1>2, <1>3 DEF States, Running
  <2>2. cod' \in [Procs -> Nat]
    BY <1>2, <1>3, <1>5
  <2> QED
    BY <1>0, <1>1, <1>4, <1>6, <2>1, <2>2 DEF CdTypes, TypeScript, TypeData
<1>8. /\ \A r \in Procs \ {"mid"} : st'[r] = st[r] /\ cod'[r] = cod[r]
      /\ st'["mid"] \in {"run", "ended", "touch"}
      /\ st'["mid"] = "touch" => cod'["mid"] \in 31..36
      /\ st'["mid"] = "ended" => st["con"] = "ended" /\ p1' = 0
  BY <1>2, <1>3, <1>5
<1>9. Alarm <=> Alarm'
  BY <1>0, <1>3, <1>8 DEF Alarm
<1>10. Between <=> Between'
  BY <1>8 DEF Between
<1>11. CdPlaces'
  BY <1>0, <1>1, <1>8, <1>10 DEF CdPipe, CdPlaces, ErrorStates
<1>12. Volumes'
  BY <1>0, <1>1, <1>8, <1>10 DEF CdPipe, Volumes
<1>13. CdConservation'
  <2>1. sent = leido /\ sent = p1 + p2 + disco[id]
    BY <1>1 DEF CdPipe, CdConservation
  <2>2. sent = p1' + p2' + disco[id]
    BY <1>2, <1>6, <2>1
  <2> QED
    BY <1>0, <2>1, <2>2 DEF CdConservation
<1>14. CdEndings'
  BY <1>0, <1>1, <1>8, <1>9 DEF CdPipe, CdEndings
<1>15. CdStopMeaning'
  <2>1. (Turn <=> Turn') /\ (ClonerIsOver <=> ClonerIsOver')
    BY <1>0, <1>8 DEF Turn, ClonerIsOver
  <2> QED
    BY <1>0, <1>1, <1>8, <1>9, <1>10, <2>1 DEF CdPipe, CdStopMeaning
<1> QED
  BY <1>0, <1>1, <1>7, <1>11, <1>12, <1>13, <1>14, <1>15, CdPipeStep DEF Local

\* rest_cmd.  When dd_rescue takes an early end of input for a normal one, the
\* volumes are not over and somebody has reported it.
LEMMA CdRest_cmdOK ==
  ASSUME CdInv, Rest_cmd, UNCHANGED cdvars
  PROVE  CdInv'
<1>0. /\ UNCHANGED <<config, script>>
      /\ UNCHANGED <<medio, accion, cloner, fase, id, salida, success_gen, meta, error>>
      /\ UNCHANGED <<ret, puerto, imagen, leido, sent, p1, percent>>
      /\ UNCHANGED <<cd, vol, num, cambio, errores>>
  BY DEF Rest_cmd, config, script, cdvars
<1>1. CdPipe /\ CdTypes /\ fase = "pipe" /\ id \in Parts
  BY DEF CdInv, CdPipe, Rest_cmd, Rest
<1>2. /\ st \in [Procs -> States \cup {"prompt"}] /\ cod \in [Procs -> Nat]
      /\ p1 \in 0..PipeCap /\ p2 \in 0..PipeCap /\ fallos \in 0..MaxFallos
      /\ disco \in [Parts -> 0..Size] /\ disco[id] \in 0..Size /\ sent \in 0..Size
      /\ stop \in BOOLEAN /\ vol \in 1..Vols
  BY <1>1 DEF CdTypes, TypeData, TypeScript
<1>3. /\ st["snk"] = "run"
      /\ \/ /\ p2 > 0 /\ disco[id] < Size
            /\ p2' = p2 - 1 /\ disco' = [disco EXCEPT ![id] = disco[id] + 1]
            /\ UNCHANGED <<stop, st, cod>>
         \/ /\ disco[id] = Size \/ st["mid"] = "ended"
            /\ st' = [st EXCEPT !["snk"] = "ended"]
            /\ stop' = (stop \/ StopsMonitor)
            /\ UNCHANGED <<p2, disco, cod>>
         \/ /\ st' = [st EXCEPT !["snk"] = "touch"] /\ cod' = [cod EXCEPT !["snk"] = Rest_code]
            /\ UNCHANGED <<p2, disco, stop>>
  BY DEF Rest_cmd, Raise
<1>4. fallos' \in 0..MaxFallos
  BY <1>2 DEF Rest_cmd, Falla
<1>5. Rest_code \in 25..28
  BY DEF Rest_code
<1>6. /\ p2' \in 0..PipeCap /\ disco' \in [Parts -> 0..Size]
      /\ p2' + disco'[id] = p2 + disco[id] /\ disco'[id] \in 0..Size
      /\ disco[id] = Size => disco'[id] = Size
      /\ \A q \in Parts : q # id => disco'[q] = disco[q]
  <2>1. CASE /\ p2 > 0 /\ disco[id] < Size
             /\ p2' = p2 - 1 /\ disco' = [disco EXCEPT ![id] = disco[id] + 1]
    <3>1. disco[id] \in 0..Size /\ disco[id] + 1 \in 0..Size
      BY <1>2, <2>1
    <3>2. disco' \in [Parts -> 0..Size] /\ disco'[id] = disco[id] + 1
          /\ \A q \in Parts : q # id => disco'[q] = disco[q]
      BY <1>1, <1>2, <2>1, <3>1
    <3>3. p2' \in 0..PipeCap /\ p2' + (disco[id] + 1) = p2 + disco[id]
      BY <1>2, <2>1, <3>1
    <3>4. disco[id] # Size
      BY <2>1, <3>1
    <3> QED
      BY <3>1, <3>2, <3>3, <3>4
  <2>2. CASE UNCHANGED <<p2, disco>>
    BY <1>2, <2>2
  <2> QED
    BY <1>3, <2>1, <2>2
<1>7. CdTypes'
  <2>1. stop' \in BOOLEAN
    BY <1>2, <1>3
  <2>2. st' \in [Procs -> States \cup {"prompt"}]
    <3>1. st' = st \/ st' = [st EXCEPT !["snk"] = "ended"] \/ st' = [st EXCEPT !["snk"] = "touch"]
      BY <1>3
    <3>2. "ended" \in States /\ "touch" \in States
      BY DEF States, Running
    <3> QED
      BY <1>2, <3>1, <3>2
  <2>3. cod' \in [Procs -> Nat]
    BY <1>2, <1>3, <1>5
  <2> QED
    BY <1>0, <1>1, <1>4, <1>6, <2>1, <2>2, <2>3 DEF CdTypes, TypeScript, TypeData
<1>8. /\ \A r \in Procs \ {"snk"} : st'[r] = st[r] /\ cod'[r] = cod[r]
      /\ st'["snk"] \in {"run", "ended", "touch"}
      /\ st'["snk"] = "touch" => cod'["snk"] \in 25..28
  BY <1>2, <1>3, <1>5
<1>9. Alarm <=> Alarm'
  BY <1>0, <1>3, <1>8 DEF Alarm
<1>10. Between <=> Between'
  BY <1>8 DEF Between
<1>11. CdPlaces'
  BY <1>0, <1>1, <1>8, <1>10 DEF CdPipe, CdPlaces, ErrorStates
<1>12. Volumes'
  BY <1>0, <1>1, <1>8, <1>10 DEF CdPipe, Volumes
<1>13. CdConservation'
  <2>1. sent = leido /\ sent = p1 + p2 + disco[id]
    BY <1>1 DEF CdPipe, CdConservation
  <2>2. sent = p1 + p2' + disco'[id]
    <3>1. disco'[id] \in Int /\ disco[id] \in Int
          /\ p1 \in Int /\ p2 \in Int /\ p2' \in Int /\ sent \in Int
      BY <1>2, <1>6
    <3>2. p2' + disco'[id] = p2 + disco[id]
      BY <1>6
    <3> QED
      BY <2>1, <3>1, <3>2
  <2> QED
    BY <1>0, <2>1, <2>2 DEF CdConservation
\* The end of the middle stage came with a report or after everything.
<1>14. st["mid"] = "ended" => Alarm \/ disco[id] = Size
  <2>1. st["mid"] = "ended" => error # 0 \/ st["con"] = "ended"
    BY <1>1 DEF CdPipe, CdEndings
  <2>2. st["con"] = "ended" => st["mon"] = "ended" /\ ~Between /\ ~Turn
    BY <1>1, <1>2, VolumesAssumption DEF CdPipe, CdPlaces, Volumes, Between, Turn
  <2>3. st["mon"] = "ended" /\ ~Between /\ ~Turn => Alarm \/ disco[id] = Size
    BY <1>1, <1>3 DEF CdPipe, CdStopMeaning, ClonerIsOver
  <2> QED
    BY <2>1, <2>2, <2>3 DEF Alarm
<1>15. CdEndings'
  <2>1. st'["snk"] = "ended" => Alarm \/ disco'[id] = Size
    BY <1>2, <1>3, <1>6, <1>14
  <2> QED
    BY <1>0, <1>1, <1>8, <1>9, <2>1 DEF CdPipe, CdEndings
<1>16. CdStopMeaning'
  <2>1. Turn <=> Turn'
    BY <1>0, <1>8 DEF Turn
  <2>2. ClonerIsOver => ClonerIsOver'
    BY <1>0, <1>3, <1>6, <1>8 DEF ClonerIsOver
  <2>3. ~stop /\ stop' => cloner[id] = "dd" /\ st'["snk"] = "ended" /\ (Alarm \/ disco[id] = Size)
    BY <1>2, <1>3, <1>14 DEF StopsMonitor
  <2>4. disco[id] = Size => ~Between /\ ~Turn
    BY <1>1, <1>2, FullMeansLast, VolumesAssumption DEF Turn
  <2>5. cloner[id] = "dd" /\ ~Between /\ st["mon"] = "ended" => Alarm \/ Turn
    BY <1>1, <1>3 DEF CdPipe, CdStopMeaning, ClonerIsOver
  <2>6. (Between' \/ st'["mon"] = "ended") /\ stop' => Alarm'
    BY <1>1, <1>8, <1>9, <1>10, <2>3, <2>4, <2>5 DEF CdPipe, CdStopMeaning
  <2>7. ~Between' /\ (st'["mon"] = "ended" \/ stop') => Alarm' \/ Turn' \/ ClonerIsOver'
    <3>1. ~stop /\ stop' => ClonerIsOver'
      BY <1>0, <2>3 DEF ClonerIsOver
    <3> QED
      BY <1>1, <1>8, <1>9, <1>10, <2>1, <2>2, <3>1 DEF CdPipe, CdStopMeaning
  <2>8. percent = Size => cloner[id] # "dd" /\ disco'[id] = Size
    BY <1>1, <1>6 DEF CdPipe, CdStopMeaning
  <2> QED
    BY <1>0, <1>1, <1>8, <2>6, <2>7, <2>8 DEF CdPipe, CdStopMeaning
<1>17. \A q \in Parts : Local(q)
  BY <1>0, <1>6 DEF Local
<1> QED
  BY <1>0, <1>1, <1>7, <1>11, <1>12, <1>13, <1>15, <1>16, <1>17, CdPipeStep

-----------------------------------------------------------------------------
(* The script. *)

LEMMA CdSkipOK ==
  ASSUME CdInv, Skip \/ Swap, UNCHANGED cdvars
  PROVE  CdInv'
<1>0. /\ UNCHANGED <<medio, accion, cloner, fase, salida, meta, stop, error>>
      /\ UNCHANGED <<st, cod, ret, puerto, leido, sent, p1, p2, percent, fallos>>
      /\ UNCHANGED <<cd, vol, num, cambio, errores>>
      /\ id' = id + 1 /\ fase = "next" /\ id \in Parts
  <2>1. id \in 1..NParts + 1
    BY DEF CdInv, CdTypes, TypeScript
  <2>2. id \in Parts /\ fase = "next" /\ id' = id + 1
    BY <2>1 DEF Skip, Swap, AtPartition
  <2> QED
    BY <2>2 DEF Skip, Swap, config, files, procs, data, cdvars
<1>1. CdTypes /\ Quiet
  BY <1>0 DEF CdInv
<1>2. /\ imagen' = imagen /\ accion[id] \in {"none", "rest"}
      /\ \/ disco' = disco /\ accion[id] = "none"
         \/ disco' = [disco EXCEPT ![id] = Size]
  <2>1. accion[id] \in {"none", "rest"}
    BY <1>0, <1>1 DEF CdTypes
  <2> QED
    BY <2>1 DEF Skip, Swap, data
<1>3. /\ disco \in [Parts -> 0..Size] /\ imagen \in [Parts -> 0..Size]
      /\ success_gen \in BOOLEAN /\ id \in 1..NParts
  BY <1>0, <1>1 DEF CdTypes, TypeData, TypeScript
<1>4. disco' \in [Parts -> 0..Size]
  <2>1. disco' = disco \/ disco' = [disco EXCEPT ![id] = Size]
    BY <1>2
  <2>2. Size \in 0..Size
    OBVIOUS
  <2> QED
    BY <1>3, <2>1, <2>2
<1>5. success_gen' \in BOOLEAN
  <2>1. accion[id] # "gen"
    BY <1>2
  <2> QED
    BY <1>3, <2>1 DEF Skip, Swap, SentToServer
<1>6. CdTypes'
  <2>1. id' \in 1..NParts + 1
    BY <1>0, <1>3
  <2> QED
    BY <1>0, <1>1, <1>2, <1>4, <1>5, <2>1 DEF CdTypes, TypeScript, TypeData
<1>7. \A q \in Parts : q < id' => Done(q)'
  <2> SUFFICES ASSUME NEW q \in Parts, q < id + 1 PROVE Done(q)'
    BY <1>0
  <2>1. q = id \/ q < id
    BY <1>0
  <2>2. CASE q = id
    BY <1>0, <1>2, <1>3, <2>2 DEF Done
  <2>3. CASE q < id
    BY <1>0, <1>2, <1>3, <2>3 DEF Done, CdInv
  <2> QED
    BY <2>1, <2>2, <2>3
<1>8. Quiet'
  BY <1>0, <1>1 DEF Quiet
<1> QED
  BY <1>0, <1>6, <1>7, <1>8 DEF CdInv

LEMMA CdPrep_failsOK ==
  ASSUME CdInv, Prep_fails, UNCHANGED cdvars
  PROVE  CdInv'
<1>0. /\ UNCHANGED <<medio, accion, cloner, id, success_gen, meta, stop, error>>
      /\ UNCHANGED <<st, cod, ret, puerto, disco, leido, sent, p1, p2, percent>>
      /\ UNCHANGED <<cd, vol, num, cambio, errores>>
      /\ fase = "next" /\ fase' = "exit" /\ salida' = 1
  BY DEF Prep_fails, AtPartition, Exit, config, files, procs, cdvars
<1>1. CdTypes /\ Quiet /\ id \in Parts
  BY <1>0 DEF CdInv, CdTypes, TypeScript, Prep_fails, AtPartition
<1>2. imagen' = imagen
  <2>1. accion[id] \in {"none", "rest"}
    BY <1>1 DEF CdTypes
  <2> QED
    BY <2>1 DEF Prep_fails
<1>3. fallos' \in 0..MaxFallos
  BY <1>1 DEF Prep_fails, Falla, CdTypes, TypeData
<1>4. CdTypes'
  BY <1>0, <1>1, <1>2, <1>3 DEF CdTypes, TypeScript, TypeData
<1>5. Quiet'
  BY <1>0, <1>1 DEF Quiet
<1> QED
  BY <1>0, <1>2, <1>4, <1>5 DEF CdInv, Done

LEMMA Start_rest_cdOK ==
  ASSUME CdInv, Start_rest_cd
  PROVE  CdInv'
<1>0. /\ UNCHANGED <<medio, accion, cloner, id, salida, success_gen, meta, stop, error>>
      /\ UNCHANGED <<imagen, fallos, cd, num, errores>>
      /\ fase = "next" /\ fase' = "pipe" /\ accion[id] = "rest"
      /\ leido' = 0 /\ sent' = 0 /\ p1' = 0 /\ p2' = 0 /\ percent' = 0
      /\ vol' = 1 /\ cambio' = FALSE /\ puerto' = TRUE
      /\ cod' = [p \in Procs |-> 0] /\ ret' = [p \in Procs |-> 0]
      /\ disco' = [disco EXCEPT ![id] = 0]
  BY DEF Start_rest_cd, Start_rest, NewPipeline, AtPartition, config, files
<1>1. /\ CdTypes /\ Quiet /\ id \in Parts /\ disco \in [Parts -> 0..Size] /\ medio = "cdrom"
      /\ ~stop /\ error = 0
  <2>1. CdTypes /\ Quiet
    BY <1>0 DEF CdInv
  <2>2. id \in 1..NParts + 1 /\ id <= NParts
    BY <2>1 DEF CdTypes, TypeScript, Start_rest_cd, Start_rest, AtPartition
  <2>3. disco \in [Parts -> 0..Size] /\ medio = "cdrom"
    BY <2>1 DEF CdTypes, TypeData
  <2> QED
    BY <1>0, <2>1, <2>2, <2>3 DEF Quiet
<1>2. /\ st'["mon"] = "off" /\ st'["src"] = "off" /\ st'["con"] = "start"
      /\ st'["mid"] = "run" /\ st'["snk"] = "run"
      /\ st' \in [Procs -> States \cup {"prompt"}]
  <2>1. st' = [p \in Procs |-> CASE p \in {"mon", "src"} -> "off"
                               [] p = "con" -> "start"
                               [] OTHER -> "run"]
    BY <1>1 DEF Start_rest_cd, Start_rest
  <2> QED
    BY <2>1 DEF States, Running
<1>3. disco' \in [Parts -> 0..Size] /\ disco'[id] = 0
      /\ \A q \in Parts : q # id => disco'[q] = disco[q]
  BY <1>0, <1>1
<1>4. CdTypes'
  <2>1. 0 \in 0..Size /\ 0 \in 0..PipeCap /\ 1 \in 1..Vols
    BY VolumesAssumption
  <2>2. cod' \in [Procs -> Nat] /\ ret' \in [Procs -> 0..1]
    BY <1>0
  <2> QED
    BY <1>0, <1>1, <1>2, <1>3, <2>1, <2>2 DEF CdTypes, TypeScript, TypeData
<1>5. Between'
  BY <1>2 DEF Between
<1>6. CdPlaces'
  BY <1>2, <1>5 DEF CdPlaces, ErrorStates
<1>7. Volumes'
  <2>1. Chunks(1 - 1) = 0 /\ Chunks(1) \in Nat
    <3>1. 1 \in 1..Vols /\ 1 - 1 = 0
      BY VolumesAssumption
    <3> QED
      BY <3>1, ChunksFacts
  <2>2. 0 <= 0 /\ 0 <= Chunks(1)
    BY <2>1
  <2> QED
    BY <1>0, <1>2, <1>5, <2>1, <2>2 DEF Volumes, Chunks
<1>8. CdConservation' /\ CdEndings'
  BY <1>0, <1>2, <1>3 DEF CdConservation, CdEndings
<1>9. CdStopMeaning'
  BY <1>0, <1>1, <1>2, <1>5 DEF CdStopMeaning
<1>10. CdPipe'
  BY <1>0, <1>1, <1>6, <1>7, <1>8, <1>9 DEF CdPipe
<1>11. \A q \in Parts : q < id' => Done(q)'
  BY <1>0, <1>1, <1>3 DEF CdInv, Done
<1> QED
  BY <1>0, <1>4, <1>10, <1>11 DEF CdInv

LEMMA CdPipeline_doneOK ==
  ASSUME CdInv, Pipeline_done, UNCHANGED cdvars
  PROVE  CdInv' /\ (fase' = "next" => disco[id] = Size)
<1>0. /\ UNCHANGED <<medio, accion, cloner, meta, stop, error>>
      /\ UNCHANGED <<st, cod, ret, puerto, imagen, disco, leido, sent, p1, p2, percent, fallos>>
      /\ UNCHANGED <<cd, vol, num, cambio, errores>>
  BY DEF Pipeline_done, config, files, procs, data, cdvars
<1>1. /\ fase = "pipe" /\ CdPipe /\ CdTypes /\ id \in 1..NParts /\ \A p \in Procs : st[p] = "ended"
      /\ error \in Nat /\ accion[id] = "rest"
  BY DEF Pipeline_done, CdInv, CdPipe, CdTypes, TypeScript
<1>2. \/ fase' = "exit" /\ id' = id /\ salida' # 0 /\ salida' \in Nat
      \/ fase' = "next" /\ id' = id + 1 /\ salida' = salida /\ error = 0
  BY <1>1 DEF Pipeline_done, Exit, Reported
<1>3. success_gen' \in BOOLEAN
  <2>1. success_gen \in BOOLEAN /\ ~SentToServer
    BY <1>1 DEF CdTypes, TypeScript, SentToServer
  <2> QED
    BY <2>1 DEF Pipeline_done
<1>4. CdTypes'
  <2>1. id' \in 1..NParts + 1 /\ salida' \in Nat /\ fase' \in {"next", "exit"}
    BY <1>1, <1>2 DEF CdTypes, TypeScript
  <2> QED
    BY <1>0, <1>1, <1>3, <2>1 DEF CdTypes, TypeScript, TypeData
<1>5. error = 0 => disco[id] = Size /\ ~stop
  <2>1. error = 0 => ~Alarm
    BY <1>1 DEF Alarm
  <2> QED
    BY <1>1, <2>1 DEF CdPipe, CdEndings, CdStopMeaning
<1>6. Quiet'
  BY <1>0, <1>1, <1>2, <1>5 DEF Quiet
<1>7. \A q \in Parts : q < id' => Done(q)'
  <2> SUFFICES ASSUME NEW q \in Parts, q < id' PROVE Done(q)
    BY <1>0 DEF Done
  <2>1. q < id \/ (q = id /\ error = 0)
    BY <1>1, <1>2
  <2>2. CASE q = id /\ error = 0
    BY <1>1, <1>5, <2>2 DEF Done
  <2> QED
    BY <2>1, <2>2 DEF CdInv
<1> QED
  BY <1>2, <1>4, <1>5, <1>6, <1>7 DEF CdInv

LEMMA CdPut_metaOK ==
  ASSUME CdInv, Put_meta, UNCHANGED cdvars
  PROVE  CdInv'
<1>0. /\ UNCHANGED <<medio, accion, cloner, id, success_gen>>
      /\ UNCHANGED <<st, cod, ret, puerto, imagen, disco, leido, sent, p1, p2, percent>>
      /\ UNCHANGED <<cd, vol, num, cambio, errores>>
      /\ fase = "next" /\ fase' = "exit" /\ salida' = 0 /\ id = NParts + 1
  BY DEF Put_meta, Exit, config, procs, data, cdvars
<1>1. CdTypes /\ Quiet
  BY <1>0 DEF CdInv
<1>2. meta' \in BOOLEAN /\ stop' \in BOOLEAN /\ error' \in Nat
  <2>1. meta \in BOOLEAN /\ stop \in BOOLEAN /\ error \in Nat
    BY <1>1 DEF CdTypes, TypeScript
  <2>2. /\ meta' = meta \/ meta' = TRUE
        /\ stop' = stop \/ stop' = TRUE
        /\ error' = error \/ error' \in {54, 55}
    BY DEF Put_meta, files
  <2>3. meta' \in BOOLEAN
    BY <2>1, <2>2
  <2>4. stop' \in BOOLEAN
    BY <2>1, <2>2
  <2>5. error' \in Nat
    BY <2>1, <2>2
  <2> QED
    BY <2>3, <2>4, <2>5
<1>3. fallos' \in 0..MaxFallos
  BY <1>1 DEF Put_meta, Falla, CdTypes, TypeData
<1>4. CdTypes'
  BY <1>0, <1>1, <1>2, <1>3 DEF CdTypes, TypeScript, TypeData
<1>5. Quiet'
  BY <1>0, <1>1 DEF Quiet
<1> QED
  BY <1>0, <1>4, <1>5 DEF CdInv, Done

LEMMA CdStutterOK ==
  ASSUME CdInv, UNCHANGED allvars
  PROVE  CdInv'
<1>0. /\ UNCHANGED <<medio, accion, cloner, fase, id, salida, success_gen, meta, stop, error>>
      /\ UNCHANGED <<st, cod, ret, puerto, imagen, disco, leido, sent, p1, p2, percent, fallos>>
      /\ UNCHANGED <<cd, vol, num, cambio, errores>>
  BY DEF allvars, vars, config, script, files, procs, data, cdvars
<1>1. CdTypes'
  BY <1>0 DEF CdInv, CdTypes, TypeScript, TypeData
<1>2. (Between <=> Between') /\ (Turn <=> Turn') /\ (ClonerIsOver <=> ClonerIsOver') /\ (Alarm <=> Alarm')
  BY <1>0 DEF Between, Turn, ClonerIsOver, Alarm
<1>3. (CdPlaces => CdPlaces') /\ (Volumes => Volumes') /\ (CdConservation => CdConservation')
  BY <1>0, <1>2 DEF CdPlaces, Volumes, CdConservation, Chunks
<1>4. (CdEndings => CdEndings') /\ (CdStopMeaning => CdStopMeaning')
  BY <1>0, <1>2 DEF CdEndings, CdStopMeaning
<1>5. CdPipe => CdPipe'
  BY <1>0, <1>3, <1>4 DEF CdPipe
<1>6. Quiet => Quiet'
  BY <1>0 DEF Quiet
<1> QED
  BY <1>0, <1>1, <1>5, <1>6 DEF CdInv, Done

\* CdInv is an invariant of a restoration from discs.
THEOREM CdInvariance == SpecCd => []CdInv
<1>1. ASSUME CdInv, [NextCd]_allvars PROVE CdInv'
  <2>1. CASE ScriptCd
    BY <1>1, <2>1, CdSkipOK, CdPrep_failsOK, Start_rest_cdOK, CdPipeline_doneOK, CdPut_metaOK
    DEF ScriptCd
  <2>2. CASE MonitorCd \/ MiddleCd \/ LastCd
    <3>1. fase = "pipe"
      BY <1>1, <2>2 DEF CdInv, Quiet, MonitorCd, MiddleCd, LastCd, Monitor, MonitorCheck,
         MonitorPoll, MonitorStatus, MonitorEnd, ErrorStep, Middle, Comprime, Last, Sink, Gen,
         Rest_cmd, Rest
    <3>2. UNCHANGED <<config, script>> /\ \A q \in Parts : Local(q)
      BY <1>1, <2>2, CdStageIsLocal DEF MonitorCd, MiddleCd, LastCd
    <3>3. ~Sink
      BY <1>1, <3>1 DEF CdInv, CdPipe, Sink, Gen
    <3> QED
      BY <1>1, <2>2, <3>1, <3>2, <3>3, CdMonitorOK, CdComprimeOK, CdRest_cmdOK, CdErrorStepOK
      DEF MonitorCd, MiddleCd, LastCd, Middle, Last
  <2>3. CASE Busca \/ Cambia_disco \/ Cat \/ Siguiente_volumen
    BY <1>1, <2>3, BuscaOK, Cambia_discoOK, CatOK, SiguienteOK
  <2>4. CASE UNCHANGED allvars
    BY <1>1, <2>4, CdStutterOK
  <2> QED
    BY <1>1, <2>1, <2>2, <2>3, <2>4 DEF NextCd, TerminatedCd
<1> QED
  BY <1>1, CdInitOK, PTL DEF SpecCd

\* No disc and no partition inherits STOP_MONITOR or ERROR from the one before.
THEOREM CdHandoverIsClean == SpecCd => []CleanHandover
<1>1. CdInv => CleanHandover
  BY DEF CdInv, CleanHandover, Quiet
<1> QED
  BY <1>1, CdInvariance, PTL

-----------------------------------------------------------------------------
(***************************************************************************)
(* Discs.  Two bounds on the number that is asked for: one that holds      *)
(* whatever is marked, and an exact one when everything is restored.       *)
(***************************************************************************)

\* num has followed the disc in the drive, which is not beyond disc d.
Asked(d) == num = 1 \/ (num <= cd + 1 /\ cd <= d)

DiscInv ==
    /\ fase = "next" /\ id <= NParts => Asked(DiscOf(1))
    /\ fase = "pipe" =>
          /\ ~Between => cd = DiscOf(vol) /\ num <= DiscOf(vol) + 1
          /\ st["con"] = "prompt" => num <= DiscOf(vol)
          /\ st["con"] = "start" /\ cambio => num <= DiscOf(vol)
          /\ st["con"] = "start" /\ ~cambio => Asked(DiscOf(vol))
    /\ fase # "pipe" => num <= NDiscos + 1

\* The disc in the drive is the last one that was asked for, and disc d is that
\* one or the next.
Exact(d) == IF num = 1 THEN d = 1 ELSE num = cd + 1 /\ d \in {cd, cd + 1}

ExactInv ==
    Todo =>
      /\ fase = "next" /\ id <= NParts => Exact(DiscOf(1))
      /\ fase = "pipe" =>
            /\ ~Between => cd = DiscOf(vol) /\ num = DiscOf(vol) + 1
            /\ st["con"] = "prompt" => num = DiscOf(vol)
            /\ st["con"] = "start" /\ cambio => num = DiscOf(vol)
            /\ st["con"] = "start" /\ ~cambio => Exact(DiscOf(vol))

LEMMA DiscOfType ==
  ASSUME id \in Parts, NEW v \in 1..Vols
  PROVE  DiscOf(v) \in 1..NDiscos /\ DiscOf(v) \in Int /\ NDiscos \in Nat
BY LayoutAssumption, VolumesAssumption DEF DiscOf, Discos

\* The members of the pipeline other than concatena have nothing to do with it.
LEMMA DiscsStage ==
  ASSUME CdInv, CdInv', DiscInv, ExactInv, fase = "pipe", fase' = "pipe", st["con"]' = st["con"],
         UNCHANGED cdvars, UNCHANGED <<accion, swap, id>>
  PROVE  DiscInv' /\ ExactInv'
<1>1. UNCHANGED <<cd, vol, num, cambio>> /\ (Between <=> Between') /\ (Todo <=> Todo')
  BY DEF cdvars, Between, Todo
<1>2. DiscOf(vol)' = DiscOf(vol)
  BY <1>1 DEF DiscOf
<1> QED
  BY <1>1, <1>2 DEF DiscInv, ExactInv, Asked, Exact, DiscOf

LEMMA DiscsBusca ==
  ASSUME CdInv, CdInv', DiscInv, ExactInv, Busca
  PROVE  DiscInv' /\ ExactInv'
<1> DEFINE d == DiscOf(vol)
<1>1. /\ fase = "pipe" /\ st["con"] = "start" /\ UNCHANGED <<fase, id, vol, cambio, accion, swap>>
      /\ CdTypes /\ id \in Parts
  BY DEF Busca, Rest, script, config, CdInv, CdPipe
<1>2. d \in Int /\ d >= 1 /\ cd \in Int /\ num \in Int /\ num >= 1 /\ cambio \in BOOLEAN
  BY <1>1, DiscOfType DEF CdTypes
<1>3. /\ st \in [Procs -> States \cup {"prompt"}] /\ DiscOf(vol)' = d /\ (Todo <=> Todo')
  BY <1>1 DEF CdTypes, DiscOf, Todo
<1>4. /\ cambio => num <= d
      /\ ~cambio => num = 1 \/ (num <= cd + 1 /\ cd <= d)
  BY <1>1 DEF DiscInv, Asked
<1>5. Todo => /\ cambio => num = d
              /\ ~cambio => IF num = 1 THEN d = 1 ELSE num = cd + 1 /\ d \in {cd, cd + 1}
  BY <1>1 DEF ExactInv, Exact
<1> HIDE DEF d
<1>6. CASE En_este_disco
  <2>1. /\ cd = d /\ cd' = cd /\ num' = IF cambio \/ num = 1 THEN num + 1 ELSE num
        /\ st' = [st EXCEPT !["con"] = "wait", !["mon"] = "check", !["src"] = "run"]
    BY <1>6 DEF Busca, En_este_disco, d, DiscOf
  <2>2. ~Between' /\ st'["con"] = "wait"
    BY <1>3, <2>1 DEF Between
  <2>3. num' <= d + 1
    BY <1>2, <1>4, <2>1
  <2>4. Todo => num' = d + 1
    BY <1>2, <1>5, <2>1
  <2> QED
    BY <1>1, <1>3, <2>1, <2>2, <2>3, <2>4 DEF DiscInv, ExactInv
<1>7. CASE ~En_este_disco
  <2>1. cd # d /\ num' = num /\ st' = [st EXCEPT !["con"] = "prompt"]
    BY <1>7 DEF Busca, En_este_disco, d, DiscOf
  <2>2. Between' /\ st'["con"] = "prompt"
    BY <1>3, <2>1 DEF Between
  <2>3. num' <= d
    BY <1>2, <1>4, <2>1
  <2>4. Todo => num' = d
    BY <1>2, <1>5, <2>1
  <2> QED
    BY <1>1, <1>3, <2>2, <2>3, <2>4 DEF DiscInv, ExactInv
<1> QED
  BY <1>6, <1>7

LEMMA DiscsCambia ==
  ASSUME CdInv, CdInv', DiscInv, ExactInv, Cambia_disco
  PROVE  DiscInv' /\ ExactInv'
<1>1. /\ fase = "pipe" /\ st["con"] = "prompt" /\ UNCHANGED <<fase, id, vol, num, accion, swap>>
      /\ st \in [Procs -> States \cup {"prompt"}]
  BY DEF Cambia_disco, Rest, script, config, CdInv, CdTypes
<1>2. DiscOf(vol)' = DiscOf(vol) /\ (Todo <=> Todo')
  BY <1>1 DEF DiscOf, Todo
<1>3. /\ st'["con"] = "prompt" \/ (st'["con"] = "start" /\ cambio' = TRUE)
      /\ Between'
  BY <1>1 DEF Cambia_disco, Between
<1> QED
  BY <1>1, <1>2, <1>3 DEF DiscInv, ExactInv

LEMMA DiscsSiguiente ==
  ASSUME CdInv, CdInv', DiscInv, ExactInv, Siguiente_volumen
  PROVE  DiscInv' /\ ExactInv'
<1>1. /\ fase = "pipe" /\ st["con"] = "wait" /\ UNCHANGED <<fase, id, cd, num, accion, swap>>
      /\ st \in [Procs -> States \cup {"prompt"}] /\ id \in Parts /\ vol \in 1..Vols
      /\ num \in Nat \ {0}
  BY DEF Siguiente_volumen, Rest, script, config, CdInv, CdTypes, CdPipe
<1>2. Todo <=> Todo'
  BY <1>1 DEF Todo
<1>3. ~Between
  BY <1>1 DEF Between
<1>4. CASE vol' = vol /\ st' = [st EXCEPT !["con"] = "ended"]
  <2>1. ~Between' /\ st'["con"] = "ended"
    BY <1>1, <1>4 DEF Between
  <2>2. DiscOf(vol)' = DiscOf(vol)
    BY <1>1, <1>4 DEF DiscOf
  <2> QED
    BY <1>1, <1>2, <1>3, <2>1, <2>2 DEF DiscInv, ExactInv
<1>5. CASE vol < Vols /\ vol' = vol + 1 /\ cambio' = FALSE /\ st' = [st EXCEPT !["con"] = "start"]
  <2>1. Between' /\ st'["con"] = "start"
    BY <1>1, <1>5 DEF Between
  <2>2. DiscOf(vol)' - DiscOf(vol) \in {0, 1} /\ DiscOf(vol)' \in Int
    <3>1. vol + 1 \in 1..Vols
      BY <1>1, <1>5, VolumesAssumption
    <3>2. DiscOf(vol)' = DiscoDe[id][vol + 1]
      BY <1>1, <1>5 DEF DiscOf
    <3>3. DiscoDe[id][vol + 1] \in Int
      BY <1>1, <3>1, DiscOfType DEF DiscOf
    <3> QED
      BY <1>1, <1>5, <3>2, <3>3, LayoutAssumption DEF DiscOf
  <2>3. DiscOf(vol) \in Int /\ DiscOf(vol) >= 1
    BY <1>1, DiscOfType
  <2>4. cd = DiscOf(vol) /\ num <= DiscOf(vol) + 1 /\ (Todo => num = DiscOf(vol) + 1)
    BY <1>1, <1>3 DEF DiscInv, ExactInv
  <2>5. Asked(DiscOf(vol))'
    BY <1>1, <2>2, <2>3, <2>4 DEF Asked
  <2>6. Todo => Exact(DiscOf(vol))'
    BY <1>1, <2>2, <2>3, <2>4 DEF Exact
  <2> QED
    BY <1>1, <1>2, <1>5, <2>1, <2>5, <2>6 DEF DiscInv, ExactInv
<1> QED
  BY <1>4, <1>5 DEF Siguiente_volumen

\* Images that are skipped lie between two that are not, so the discs only go
\* forwards.
LEMMA NextImage ==
  ASSUME NEW p \in Parts, p < NParts
  PROVE  /\ DiscoDe[p][1] \in Int /\ DiscoDe[p][Vols] \in Int /\ DiscoDe[p + 1][1] \in Int
         /\ DiscoDe[p + 1][1] - DiscoDe[p][Vols] \in {0, 1}
         /\ DiscoDe[p][1] <= DiscoDe[p][Vols]
<1>1. p + 1 \in Parts /\ 1 \in 1..Vols /\ Vols \in 1..Vols
  BY VolumesAssumption
<1>2. DiscoDe[p][1] \in Int /\ DiscoDe[p][Vols] \in Int /\ DiscoDe[p + 1][1] \in Int
  BY <1>1, LayoutAssumption DEF Discos
<1>3. DiscoDe[p + 1][1] - DiscoDe[p][Vols] \in {0, 1}
  BY LayoutAssumption
<1> QED
  BY <1>2, <1>3, LastDisc

LEMMA DiscsScript ==
  ASSUME CdInv, CdInv', DiscInv, ExactInv, ScriptCd
  PROVE  DiscInv' /\ ExactInv'
<1>1. UNCHANGED <<accion, swap, cd, num>> /\ id \in 1..NParts + 1
      /\ cd \in Int /\ num \in Int /\ num >= 1
  <2>1. UNCHANGED <<accion, swap>>
    BY DEF ScriptCd, Start_rest_cd, Start_rest, NewPipeline, Skip, Swap, Prep_fails,
       Pipeline_done, Put_meta, config
  <2>2. UNCHANGED <<cd, num>>
    BY DEF ScriptCd, Start_rest_cd, cdvars
  <2> QED
    BY <2>1, <2>2 DEF CdInv, CdTypes, TypeScript
<1>2. Todo <=> Todo'
  BY <1>1 DEF Todo
<1>3. CASE Skip \/ Swap
  <2>1. /\ fase = "next" /\ fase' = "next" /\ id \in Parts /\ id' = id + 1
        /\ accion[id] = "none" \/ swap[id]
    BY <1>1, <1>3 DEF Skip, Swap, AtPartition
  <2>2. ~Todo
    BY <2>1 DEF Todo
  <2>3. id' <= NParts => Asked(DiscOf(1))'
    <3> SUFFICES ASSUME id + 1 <= NParts PROVE Asked(DiscOf(1))'
      BY <2>1
    <3>1. num = 1 \/ (num <= cd + 1 /\ cd <= DiscoDe[id][1])
      BY <2>1 DEF DiscInv, Asked, DiscOf
    <3>2. /\ DiscoDe[id][1] \in Int /\ DiscoDe[id][Vols] \in Int /\ DiscoDe[id + 1][1] \in Int
          /\ DiscoDe[id + 1][1] - DiscoDe[id][Vols] \in {0, 1}
          /\ DiscoDe[id][1] <= DiscoDe[id][Vols]
      BY <2>1, NextImage
    <3>3. cd <= DiscoDe[id][1] => cd <= DiscoDe[id + 1][1]
      BY <1>1, <3>2
    <3> QED
      BY <1>1, <2>1, <3>1, <3>3 DEF Asked, DiscOf
  <2> QED
    BY <1>1, <1>2, <2>1, <2>2, <2>3 DEF DiscInv, ExactInv
<1>4. CASE Prep_fails \/ Put_meta
  <2>1. fase = "next" /\ fase' = "exit"
    BY <1>4 DEF Prep_fails, Put_meta, AtPartition, Exit
  <2> QED
    BY <1>1, <2>1 DEF DiscInv, ExactInv
<1>5. CASE Start_rest_cd
  <2>1. /\ fase = "next" /\ fase' = "pipe" /\ id' = id /\ id <= NParts /\ vol' = 1 /\ cambio' = FALSE
        /\ medio = "cdrom"
    BY <1>5 DEF Start_rest_cd, Start_rest, NewPipeline, AtPartition, CdInv, CdTypes
  <2>2. st'["con"] = "start" /\ Between'
    BY <1>5, <2>1 DEF Start_rest_cd, Start_rest, Between
  <2>3. (Asked(DiscOf(1)) => Asked(DiscOf(vol))') /\ (Exact(DiscOf(1)) => Exact(DiscOf(vol))')
    BY <1>1, <2>1 DEF Asked, Exact, DiscOf
  <2> QED
    BY <1>1, <1>2, <2>1, <2>2, <2>3 DEF DiscInv, ExactInv
<1>6. CASE Pipeline_done
  <2>1. /\ fase = "pipe" /\ st["con"] = "ended" /\ ~Between /\ id \in Parts /\ vol \in 1..Vols
    BY <1>6 DEF Pipeline_done, Between, CdInv, CdPipe, CdTypes
  <2>2. /\ cd = DiscOf(vol) /\ num <= DiscOf(vol) + 1 /\ (Todo => num = DiscOf(vol) + 1)
    BY <2>1 DEF DiscInv, ExactInv
  <2>3. DiscOf(vol) \in 1..NDiscos /\ NDiscos \in Nat
    BY <2>1, DiscOfType
  <2>4. num <= NDiscos + 1
    BY <1>1, <2>2, <2>3
  <2>5. CASE fase' = "exit"
    BY <1>1, <2>4, <2>5 DEF DiscInv, ExactInv
  <2>6. CASE fase' = "next" /\ id' = id + 1
    <3>1. vol = Vols
      BY <1>6, <2>1, <2>6, CdPipeline_doneOK, FullMeansLast DEF ScriptCd, Pipeline_done, Start_rest_cd, Start_rest, AtPartition
    <3>2. ASSUME id + 1 <= NParts PROVE Asked(DiscOf(1))' /\ (Todo => Exact(DiscOf(1))')
      <4>1. /\ DiscoDe[id][Vols] \in Int /\ DiscoDe[id + 1][1] \in Int
            /\ DiscoDe[id + 1][1] - DiscoDe[id][Vols] \in {0, 1}
        BY <2>1, <3>2, NextImage
      <4>2. cd = DiscoDe[id][Vols] /\ num <= cd + 1 /\ (Todo => num = cd + 1) /\ cd >= 1
        BY <2>2, <2>3, <3>1 DEF DiscOf
      <4>3. cd <= DiscoDe[id + 1][1] /\ DiscoDe[id + 1][1] \in {cd, cd + 1}
        BY <1>1, <4>1, <4>2
      <4> QED
        BY <1>1, <2>6, <4>2, <4>3 DEF Asked, Exact, DiscOf
    <3> QED
      BY <1>1, <1>2, <2>4, <2>6, <3>2 DEF DiscInv, ExactInv
  <2>7. fase' = "exit" \/ (fase' = "next" /\ id' = id + 1)
    BY <1>6 DEF Pipeline_done, Exit
  <2> QED
    BY <2>5, <2>6, <2>7
<1> QED
  BY <1>3, <1>4, <1>5, <1>6 DEF ScriptCd

LEMMA DiscsInit == InitCd => DiscInv /\ ExactInv
<1> SUFFICES ASSUME InitCd PROVE DiscInv /\ ExactInv
  OBVIOUS
<1>1. fase = "next" /\ id = 1 /\ num = 1
  BY DEF InitCd, InitEstado
<1>2. 1 <= NDiscos + 1 /\ DiscOf(1) = 1
  BY <1>1, VolumesAssumption, LayoutAssumption DEF DiscOf
<1> QED
  BY <1>1, <1>2 DEF DiscInv, ExactInv, Asked, Exact

LEMMA DiscsStep ==
  ASSUME CdInv, CdInv', DiscInv, ExactInv, [NextCd]_allvars
  PROVE  DiscInv' /\ ExactInv'
<1>1. CASE MonitorCd \/ MiddleCd \/ LastCd \/ Cat
  <2>1. /\ fase = "pipe" /\ UNCHANGED <<fase, id, accion, swap, cdvars>>
    BY <1>1 DEF CdInv, Quiet, MonitorCd, MiddleCd, LastCd, Monitor, MonitorCheck, MonitorPoll,
       MonitorStatus, MonitorEnd, ErrorStep, Middle, Comprime, Last, Sink, Gen, Rest_cmd, Rest, Cat,
       config, script
  <2>2. st \in [Procs -> States \cup {"prompt"}]
    BY DEF CdInv, CdTypes
  <2>3. st'["con"] = st["con"]
    BY <1>1, <2>2 DEF MonitorCd, MiddleCd, LastCd, Monitor, MonitorCheck, MonitorPoll,
       MonitorStatus, MonitorEnd, ErrorStep, Middle, Comprime, Last, Sink, Rest_cmd, Cat, Raise
  <2> QED
    BY <2>1, <2>3, DiscsStage
<1>2. CASE UNCHANGED allvars
  <2>1. /\ UNCHANGED <<fase, id, st, accion, swap, cd, vol, num, cambio>>
    BY <1>2 DEF allvars, vars, script, procs, config, cdvars
  <2>2. (Between <=> Between') /\ (Todo <=> Todo')
    BY <2>1 DEF Between, Todo
  <2> QED
    BY <2>1, <2>2 DEF DiscInv, ExactInv, Asked, Exact, DiscOf
<1> QED
  BY <1>1, <1>2, DiscsScript, DiscsBusca, DiscsCambia, DiscsSiguiente DEF NextCd, TerminatedCd

\* The number of the disc that is asked for follows the discs of the images.
THEOREM DiscInvariance == SpecCd => [](DiscInv /\ ExactInv)
BY DiscsInit, DiscsStep, CdInvariance, PTL DEF SpecCd

\* Type correctness of a restoration from discs: in particular no disc beyond the
\* last one is ever asked for, whatever is marked and whatever the user inserts.
THEOREM CdTypeCorrect == SpecCd => []TypeOKCd
<1>1. CdInv /\ DiscInv => TypeOKCd
  <2> SUFFICES ASSUME CdInv, DiscInv PROVE TypeOKCd
    OBVIOUS
  <2>1. CdTypes /\ num \in Nat \ {0}
    BY DEF CdInv, CdTypes
  <2>2. num \in 1..NDiscos + 1
    <3>1. CASE fase # "pipe"
      BY <2>1, <3>1, VolumesAssumption DEF DiscInv
    <3>2. CASE fase = "pipe"
      <4>1. id \in Parts /\ vol \in 1..Vols /\ cd \in 0..NDiscos /\ cambio \in BOOLEAN
        BY <3>2 DEF CdInv, CdPipe, CdTypes
      <4>2. DiscOf(vol) \in 1..NDiscos /\ NDiscos \in Nat
        BY <4>1, DiscOfType
      <4>3. CASE Asked(DiscOf(vol))
        BY <2>1, <4>1, <4>2, <4>3 DEF Asked
      <4>4. CASE ~Asked(DiscOf(vol))
        <5>1. num <= DiscOf(vol) \/ num <= DiscOf(vol) + 1
          BY <3>2, <4>1, <4>4 DEF DiscInv, Between
        <5> QED
          BY <2>1, <4>2, <5>1
      <4> QED
        BY <4>3, <4>4
    <3> QED
      BY <3>1, <3>2
  <2> QED
    BY <2>1, <2>2 DEF CdTypes, TypeOKCd
<1> QED
  BY <1>1, CdInvariance, DiscInvariance, PTL

\* When everything is restored, the user is asked for the disc that has the
\* volume, after any number of wrong discs.
THEOREM RightDiscAsked == SpecCd => []AsksForItsDisc
<1>1. CdInv /\ ExactInv => AsksForItsDisc
  <2> SUFFICES ASSUME CdInv, ExactInv, st["con"] = "prompt", Todo PROVE num = DiscoDe[id][vol]
    BY DEF AsksForItsDisc
  <2>1. fase = "pipe"
    BY DEF CdInv, Quiet
  <2> QED
    BY <2>1 DEF ExactInv, DiscOf
<1> QED
  BY <1>1, CdInvariance, DiscInvariance, PTL

-----------------------------------------------------------------------------
(***************************************************************************)
(* Without failures from outside a restoration from discs does not fail,   *)
(* whatever wrong discs are inserted on the way.                           *)
(***************************************************************************)

\* Nobody is in error() and nobody has failed.
CdSmooth ==
    /\ error = 0
    /\ fase = "exit" => salida = 0
    /\ fase = "pipe" => \A p \in Procs : st[p] \notin ErrorStates /\ ret[p] = 0

CdSInv == fallos = 0 => CdSmooth

\* What a pipeline that runs smoothly has behind it.
LEMMA CdSmoothPipe ==
  ASSUME CdInv, CdSmooth, fase = "pipe"
  PROVE  /\ id \in Parts /\ accion[id] = "rest" /\ ~Alarm
         /\ sent = leido /\ sent = p1 + p2 + disco[id]
         /\ st["con"] = "ended" => st["src"] = "ended" /\ sent = Size
         /\ st["mid"] = "ended" => st["con"] = "ended" /\ p1 = 0
         /\ st["snk"] = "ended" => disco[id] = Size
<1>1. CdPipe /\ CdTypes
  BY DEF CdInv
<1>2. ~Alarm /\ error = 0 /\ ret["src"] = 0
  BY DEF CdSmooth, Alarm, ErrorStates
<1>3. /\ id \in Parts /\ accion[id] = "rest"
      /\ sent = leido /\ sent = p1 + p2 + disco[id]
  BY <1>1 DEF CdPipe, CdConservation
<1>4. /\ st["mid"] = "ended" => st["con"] = "ended" /\ p1 = 0
      /\ st["snk"] = "ended" => disco[id] = Size
  BY <1>1, <1>2 DEF CdPipe, CdEndings
<1>5. ASSUME st["con"] = "ended" PROVE st["src"] = "ended" /\ sent = Size
  <2>1. vol = Vols /\ ~Between /\ st["src"] = "ended" /\ vol \in 1..Vols
    BY <1>1, <1>2, <1>5 DEF CdPipe, CdPlaces, Volumes, Between, CdTypes
  <2>2. leido = Chunks(vol)
    BY <1>1, <1>2, <2>1 DEF CdPipe, Volumes
  <2> QED
    BY <1>3, <2>1, <2>2, ChunksFacts
<1> QED
  BY <1>2, <1>3, <1>4, <1>5

\* The members of the pipeline.
LEMMA CdSmoothStages ==
  ASSUME CdInv, fallos = 0, fallos' = 0, CdSmooth,
         Monitor \/ Busca \/ Cambia_disco \/ Cat \/ Siguiente_volumen \/ Middle \/ Last
  PROVE  CdSmooth'
<1>1. fase = "pipe" /\ UNCHANGED <<config, script>>
  BY DEF CdInv, Quiet, Monitor, MonitorCheck, MonitorPoll, MonitorStatus, MonitorEnd, ErrorStep,
     Busca, Cambia_disco, Cat, Siguiente_volumen, Middle, Comprime, Last, Sink, Gen, Rest_cmd, Rest
<1>2. /\ st \in [Procs -> States \cup {"prompt"}] /\ ret \in [Procs -> 0..1]
      /\ leido \in 0..Size /\ sent \in 0..Size /\ p1 \in 0..PipeCap /\ p2 \in 0..PipeCap
      /\ disco[id] \in 0..Size /\ Size # 0
  BY <1>1, CdSmoothPipe DEF CdInv, CdTypes, TypeData
<1>3. ASSUME NEW e PROVE ~Falla(e)
  BY DEF Falla
<1>4. error = 0 /\ \A p \in Procs : st[p] \notin ErrorStates /\ ret[p] = 0
  BY <1>1 DEF CdSmooth
<1>5. \A p \in Procs : ~ErrorStep(p)
  BY <1>4 DEF ErrorStep, ErrorStates
<1>6. SUFFICES error' = 0 /\ \A p \in Procs : st'[p] \notin ErrorStates /\ ret'[p] = 0
  BY <1>1 DEF CdSmooth, script
<1>7. CASE Monitor
  <2>1. UNCHANGED <<error, ret>> /\ \A p \in Procs \ {"mon"} : st'[p] = st[p]
    BY <1>2, <1>3, <1>5, <1>7
    DEF Monitor, MonitorCheck, MonitorPoll, MonitorStatus, MonitorEnd, files
  <2>2. st'["mon"] \in {"end", "ended", "poll", "status", "check"}
    BY <1>2, <1>3, <1>5, <1>7
    DEF Monitor, MonitorCheck, MonitorPoll, MonitorStatus, MonitorEnd
  <2> QED
    BY <1>4, <2>1, <2>2 DEF ErrorStates
<1>8. CASE Busca \/ Cambia_disco \/ Siguiente_volumen
  <2>1. UNCHANGED <<error, ret>>
    BY <1>8 DEF Busca, Cambia_disco, Siguiente_volumen, files
  <2>2. \/ st' = st
        \/ st' = [st EXCEPT !["con"] = "wait", !["mon"] = "check", !["src"] = "run"]
        \/ \E s \in {"prompt", "start", "ended"} : st' = [st EXCEPT !["con"] = s]
    BY <1>8 DEF Busca, Cambia_disco, Siguiente_volumen
  <2> QED
    BY <1>2, <1>4, <2>1, <2>2 DEF ErrorStates
<1>9. CASE Cat
  <2>1. st["mid"] # "ended"
    BY <1>1, <1>9, CdSmoothPipe DEF Cat
  <2>2. UNCHANGED <<error, ret>> /\ (st' = st \/ st' = [st EXCEPT !["src"] = "ended"])
    BY <1>3, <1>9, <2>1 DEF Cat
  <2> QED
    BY <1>2, <1>4, <2>2 DEF ErrorStates
<1>10. CASE Comprime
  <2>1. ~(Eof /\ Truncated)
    BY <1>1, <1>2, CdSmoothPipe DEF Eof, Truncated
  <2>2. ~(p1 > 0 /\ st["snk"] = "ended")
    BY <1>1, <1>2, CdSmoothPipe
  <2>3. UNCHANGED <<error, ret>> /\ (st' = st \/ st' = [st EXCEPT !["mid"] = "ended"])
    BY <1>3, <1>10, <2>1, <2>2 DEF Comprime, files
  <2> QED
    BY <1>2, <1>4, <2>3 DEF ErrorStates
<1>11. CASE Rest_cmd
  <2>1. ~(disco[id] < Size /\ p2 = 0 /\ st["mid"] = "ended")
    BY <1>1, <1>2, CdSmoothPipe
  <2>2. UNCHANGED <<error, ret>> /\ (st' = st \/ st' = [st EXCEPT !["snk"] = "ended"])
    BY <1>3, <1>11, <2>1 DEF Rest_cmd
  <2> QED
    BY <1>2, <1>4, <2>2 DEF ErrorStates
<1>12. ~Sink
  BY <1>1, CdSmoothPipe DEF Sink, Gen
<1> QED
  BY <1>5, <1>7, <1>8, <1>9, <1>10, <1>11, <1>12 DEF Middle, Last

\* The script between the pipelines.
LEMMA CdSmoothScript ==
  ASSUME CdInv, fallos = 0, fallos' = 0, CdSmooth, ScriptCd
  PROVE  CdSmooth'
<1>1. ASSUME NEW e PROVE ~Falla(e)
  BY DEF Falla
<1>2. error = 0 /\ (fase = "exit" => salida = 0)
  BY DEF CdSmooth
<1>3. CASE Skip \/ Swap
  BY <1>2, <1>3 DEF Skip, Swap, AtPartition, files, CdSmooth
<1>4. CASE Start_rest_cd
  <2>1. fase' = "pipe" /\ UNCHANGED error /\ ret' = [p \in Procs |-> 0]
    BY <1>4 DEF Start_rest_cd, Start_rest, NewPipeline, files
  <2>2. \A p \in Procs : st'[p] \in {"off", "port", "start", "run"}
    BY <1>4 DEF Start_rest_cd, Start_rest
  <2> QED
    BY <1>2, <2>1, <2>2 DEF CdSmooth, ErrorStates
<1>5. CASE Pipeline_done
  <2>1. ret["snk"] = 0 /\ ~Reported
    BY <1>2, <1>5 DEF Pipeline_done, CdSmooth, Reported
  <2> QED
    BY <1>2, <1>5, <2>1 DEF Pipeline_done, CdSmooth, files
<1>6. CASE Put_meta
  BY <1>1, <1>2, <1>6 DEF Put_meta, Exit, files, CdSmooth
<1>7. ~Prep_fails
  BY <1>1 DEF Prep_fails
<1> QED
  BY <1>3, <1>4, <1>5, <1>6, <1>7 DEF ScriptCd

LEMMA CdFailuresOnlyGrow ==
  ASSUME CdInv, [NextCd]_allvars, fallos' = 0
  PROVE  fallos = 0
<1>1. fallos \in Nat
  BY DEF CdInv, CdTypes, TypeData
<1>2. fallos' = fallos \/ fallos' = fallos + 1
  BY DEF allvars, vars, Falla, files, NextCd, TerminatedCd, ScriptCd, Start_rest_cd, Skip, Swap,
     Prep_fails, Start_rest, Pipeline_done, Put_meta, MonitorCd, Monitor, MonitorCheck, MonitorPoll,
     MonitorStatus, MonitorEnd, ErrorStep, MiddleCd, Middle, Comprime, LastCd, Last, Sink, Rest_cmd,
     Busca, Cambia_disco, Cat, Siguiente_volumen
<1> QED
  BY <1>1, <1>2

\* No race of the members, no order in which they end, no number of volumes and
\* no disc inserted by mistake makes a restoration fail when nothing else does.
THEOREM CdFailuresComeFromOutside == SpecCd => []NoSpuriousFailure
<1>1. InitCd => CdSInv
  BY DEF InitCd, InitEstado, CdSInv, CdSmooth
<1>2. ASSUME CdInv, CdSInv, [NextCd]_allvars PROVE CdSInv'
  <2> SUFFICES ASSUME fallos' = 0 PROVE CdSmooth'
    BY DEF CdSInv
  <2>1. fallos = 0 /\ CdSmooth
    BY <1>2, CdFailuresOnlyGrow DEF CdSInv
  <2>2. CASE UNCHANGED allvars
    BY <2>1, <2>2 DEF CdSmooth, allvars, vars, script, files, procs
  <2>3. CASE NextCd
    BY <1>2, <2>1, <2>2, <2>3, CdSmoothScript, CdSmoothStages
    DEF NextCd, TerminatedCd, MonitorCd, MiddleCd, LastCd
  <2> QED
    BY <1>2, <2>2, <2>3
<1>3. CdSInv => NoSpuriousFailure
  BY DEF CdSInv, CdSmooth, NoSpuriousFailure
<1> QED
  BY <1>1, <1>2, <1>3, CdInvariance, PTL DEF SpecCd

-----------------------------------------------------------------------------
(***************************************************************************)
(* A restoration from discs implements ActionList too.                     *)
(***************************************************************************)

LEMMA CdAbstractInit == InitCd => Abstract!AInit
<1> SUFFICES ASSUME InitCd PROVE Abstract!AInit
  OBVIOUS
<1>1. imagen \in [Parts -> 0..Size] /\ disco \in [Parts -> 0..Size]
  BY CdInitOK DEF CdInv, CdTypes, TypeData
<1>2. Dest \in [1..NParts -> 0..Size]
  BY <1>1 DEF Dest
<1>3. [q \in Parts |-> accion[q] # "none"] \in [1..NParts -> BOOLEAN]
  BY Zenon
<1>4. id = 1 /\ Outcome = "run"
  BY DEF InitCd, InitEstado, Outcome
<1> QED
  BY <1>2, <1>3, <1>4 DEF Abstract!AInit

\* Every step of the restoration is a step of ActionList or leaves it alone.
LEMMA CdAbstractStep ==
  ASSUME CdInv, CdInv', [NextCd]_allvars
  PROVE  [Abstract!ANext]_(Abstract!avars)
<1>1. Destinations /\ Destinations'
  BY CdDestinations DEF CdInv, CdTypes, TypeScript, TypeData, Destinations
<1>2. fase = "pipe" => id \in Parts /\ accion[id] # "none"
  BY DEF CdInv, CdPipe
<1>3. CASE Monitor \/ Middle \/ Last
  <2>1. fase = "pipe"
    BY <1>3 DEF CdInv, Quiet, Monitor, MonitorCheck, MonitorPoll, MonitorStatus, MonitorEnd,
       ErrorStep, Middle, Comprime, Last, Sink, Gen, Rest_cmd, Rest
  <2>2. UNCHANGED <<config, script>> /\ \A q \in Parts : Local(q)
    BY <1>3, CdStageIsLocal
  <2>3. UNCHANGED <<accion, id>> /\ fase # "exit" /\ fase' # "exit"
    BY <2>1, <2>2 DEF config, script
  <2> QED
    BY <1>1, <1>2, <2>1, <2>2, <2>3, WorkStep DEF Abstract!ANext
<1>4. CASE Busca \/ Cambia_disco \/ Cat \/ Siguiente_volumen \/ UNCHANGED allvars
  <2>1. UNCHANGED <<accion, imagen, disco, id, fase, salida>>
    BY <1>4 DEF Busca, Cambia_disco, Cat, Siguiente_volumen, allvars, vars, config, script, data
  <2> QED
    BY <2>1, AbstractStutter
<1>5. CASE ScriptCd
  <2>1. Script
    BY <1>5 DEF ScriptCd, Start_rest_cd, Script
  <2> QED
    BY <1>1, <1>2, <2>1, ScriptStep
<1> QED
  BY <1>3, <1>4, <1>5 DEF NextCd, MonitorCd, MiddleCd, LastCd, TerminatedCd

\* With volumes, discs and the user between the image and the pipe, the script
\* still does what ActionList says.
THEOREM CdRefinement == SpecCd => ImplementsActionList
<1>1. ASSUME CdInv, CdInv', [NextCd]_allvars PROVE [Abstract!ANext]_(Abstract!avars)
  BY <1>1, CdAbstractStep
<1> QED
  BY <1>1, CdAbstractInit, CdInvariance, PTL DEF SpecCd, ImplementsActionList, Abstract!ASpec

\* Every partition that the script has left behind is restored completely, from
\* however many discs, and an exit status of 0 means that all are.
THEOREM CdAllDoneBehind == SpecCd => []DoneBehind
<1>1. CdInv => DoneBehind
  BY DEF CdInv, Quiet, DoneBehind
<1> QED
  BY <1>1, CdInvariance, PTL
=============================================================================
