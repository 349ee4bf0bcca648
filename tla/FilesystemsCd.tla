--------------------------- MODULE FilesystemsCd ---------------------------
(***************************************************************************)
(* fin.d/filesystems on medium "cdrom": an image is spread over volumes    *)
(* img.00, img.01, ... on several discs, and concatena asks the user for   *)
(* the next disc whenever the volume it needs is not on the one in the     *)
(* drive.  Each volume has a monitor of its own, running beside the cat of *)
(* the volume; descomprime and rest_cmd run on through all of them.        *)
(*                                                                         *)
(* The other members of the pipeline, error() and the script are those of  *)
(* Filesystems, whose variables are used here as they are; medio is always *)
(* "cdrom" and nothing is generated.                                       *)
(***************************************************************************)
EXTENDS Filesystems

CONSTANTS
    Vols,        \* volumes of an image
    VolSize,     \* chunks of a volume
    NDiscos,     \* discs
    DiscoDe,     \* the disc with volume v of partition p: DiscoDe[p][v]
    MaxErrores   \* bound on wrong discs and failing mounts

Discos == 1..NDiscos

ASSUME VolumesAssumption ==
    /\ Vols \in Nat \ {0} /\ VolSize \in Nat \ {0} /\ Size = Vols * VolSize
    /\ NDiscos \in Nat \ {0} /\ MaxErrores \in Nat

\* A backup on discs is only read.
ASSUME NothingGenerated == Acciones \subseteq {"none", "rest"}

\* Images are laid out one after the other, beginning on the first disc.
ASSUME LayoutAssumption ==
    /\ DiscoDe \in [Parts -> [1..Vols -> Discos]]
    /\ DiscoDe[1][1] = 1
    /\ \A p \in Parts, v \in 1..Vols : v < Vols => DiscoDe[p][v + 1] - DiscoDe[p][v] \in {0, 1}
    /\ \A p \in Parts : p < NParts => DiscoDe[p + 1][1] - DiscoDe[p][Vols] \in {0, 1}

VARIABLES
    cd,      \* the disc mounted on /target (0: none)
    vol,     \* the volume concatena is at
    num,     \* the file cdnum: the number of the disc that is asked for next
    cambio,  \* has a disc been mounted for this volume?
    errores  \* wrong discs and failing mounts so far

cdvars == <<cd, vol, num, cambio, errores>>
allvars == <<vars, cdvars>>

TypeOKCd ==
    /\ medio = "cdrom"
    /\ TypeScript /\ TypeData
    /\ st \in [Procs -> States \cup {"prompt"}]
    /\ cd \in 0..NDiscos /\ vol \in 1..Vols /\ num \in 1..NDiscos + 1
    /\ cambio \in BOOLEAN /\ errores \in 0..MaxErrores

InitCd ==
    /\ medio = "cdrom"
    /\ InitEstado
    /\ cd \in Discos /\ vol = 1 /\ num = 1 /\ cambio = FALSE /\ errores = 0

-----------------------------------------------------------------------------

En_este_disco == cd = DiscoDe[id][vol]

\* The head of the loop over volumes.  The volume is there: its monitor and its
\* cat are started.  It is not: the disc is unmounted, and asked for.
\* (Variant: every volume counts as a disc.)
Busca_cuenta_todos ==
    /\ Rest /\ st["con"] = "start"
    /\ \/ /\ En_este_disco
          /\ num' = num + 1
          /\ st' = [st EXCEPT !["con"] = "wait", !["mon"] = "check", !["src"] = "run"]
          /\ percent' = 0
          /\ UNCHANGED cd
       \/ /\ ~En_este_disco
          /\ cd' = 0
          /\ st' = [st EXCEPT !["con"] = "prompt"]
          /\ UNCHANGED <<num, percent>>
    /\ UNCHANGED <<config, script, files, cod, ret, puerto, data, fallos, vol, cambio, errores>>

Busca ==
    /\ Rest /\ st["con"] = "start"
    /\ \/ /\ En_este_disco
          /\ num' = IF cambio \/ num = 1 THEN num + 1 ELSE num
          /\ st' = [st EXCEPT !["con"] = "wait", !["mon"] = "check", !["src"] = "run"]
          /\ percent' = 0
          /\ UNCHANGED cd
       \/ /\ ~En_este_disco
          /\ cd' = 0
          /\ st' = [st EXCEPT !["con"] = "prompt"]
          /\ UNCHANGED <<num, percent>>
    /\ UNCHANGED <<config, script, files, cod, ret, puerto, data, fallos, vol, cambio, errores>>

\* The user inserts a disc, not always the right one, and it is mounted or not.
Cambia_disco ==
    /\ Rest /\ st["con"] = "prompt"
    /\ \/ \E d \in Discos :
             /\ IF d = DiscoDe[id][vol] THEN UNCHANGED errores
                ELSE errores < MaxErrores /\ errores' = errores + 1
             /\ cd' = d /\ cambio' = TRUE
             /\ st' = [st EXCEPT !["con"] = "start"]
       \/ /\ errores < MaxErrores /\ errores' = errores + 1
          /\ UNCHANGED <<cd, cambio, st>>
    /\ UNCHANGED <<config, script, files, cod, ret, puerto, data, percent, fallos, vol, num>>

\* cat of a volume and, unless it is the last one, touch STOP_MONITOR.  Under
\* sh -e a cat that fails ends the braces before the touch.
Cat ==
    /\ Rest /\ st["src"] = "run"
    /\ \/ /\ leido < vol * VolSize /\ p1 < PipeCap /\ st["mid"] # "ended"
          /\ leido' = leido + 1 /\ sent' = sent + 1 /\ p1' = p1 + 1
          /\ UNCHANGED <<stop, st, ret, fallos>>
       \/ /\ leido = vol * VolSize
          /\ st' = [st EXCEPT !["src"] = "ended"]
          /\ stop' = (stop \/ vol < Vols)
          /\ UNCHANGED <<leido, sent, p1, ret, fallos>>
       \/ /\ leido < vol * VolSize
          /\ \/ Falla("feed")
             \/ st["mid"] = "ended" /\ UNCHANGED fallos
          /\ st' = [st EXCEPT !["src"] = "ended"]
          /\ ret' = [ret EXCEPT !["src"] = 1]
          /\ UNCHANGED <<leido, sent, p1, stop>>
    /\ UNCHANGED <<config, script, error, cod, puerto, imagen, disco, p2, percent, cdvars>>

\* After  monitor | cat : the next volume, unless it was the last one, or -e
\* ends concatena because cat failed.
Siguiente_volumen ==
    /\ Rest /\ st["con"] = "wait" /\ st["mon"] = "ended" /\ st["src"] = "ended"
    /\ IF ret["src"] = 0 /\ vol < Vols
       THEN vol' = vol + 1 /\ cambio' = FALSE /\ st' = [st EXCEPT !["con"] = "start"]
       ELSE UNCHANGED <<vol, cambio>> /\ st' = [st EXCEPT !["con"] = "ended"]
    /\ UNCHANGED <<config, script, files, cod, ret, puerto, data, percent, fallos, cd, num, errores>>

-----------------------------------------------------------------------------

Start_rest_cd ==
    /\ Start_rest
    /\ vol' = 1 /\ cambio' = FALSE /\ UNCHANGED <<cd, num, errores>>

ScriptCd ==
    \/ Start_rest_cd
    \/ (Skip \/ Swap \/ Prep_fails \/ Pipeline_done \/ Put_meta) /\ UNCHANGED cdvars

MonitorCd == Monitor /\ UNCHANGED cdvars
MiddleCd  == Middle /\ UNCHANGED cdvars
LastCd    == Last /\ UNCHANGED cdvars

TerminatedCd == fase = "exit" /\ UNCHANGED allvars

NextCd ==
    \/ ScriptCd \/ MonitorCd \/ Busca \/ Cambia_disco \/ Cat \/ Siguiente_volumen
    \/ MiddleCd \/ LastCd \/ TerminatedCd

SpecCd == InitCd /\ [][NextCd]_allvars

\* Every process goes on when it can, and the user answers: sooner or later,
\* since errores is bounded, with the disc that is needed.
FairSpecCd ==
    /\ SpecCd
    /\ WF_allvars(WithoutFailure(ScriptCd))
    /\ WF_allvars(WithoutFailure(MonitorCd))
    /\ WF_allvars(Busca \/ Siguiente_volumen)
    /\ WF_allvars(Cambia_disco)
    /\ WF_allvars(WithoutFailure(Cat))
    /\ WF_allvars(WithoutFailure(MiddleCd))
    /\ WF_allvars(WithoutFailure(LastCd))

-----------------------------------------------------------------------------
(***************************************************************************)
(* Properties (with those of Filesystems)                                  *)
(***************************************************************************)

Todo == \A q \in Parts : accion[q] = "rest" /\ ~swap[q]

\* The user is asked for the disc that has the volume, whatever discs were
\* inserted by mistake before, when everything is restored from the beginning.
AsksForItsDisc == st["con"] = "prompt" /\ Todo => num = DiscoDe[id][vol]

\* The same whatever is marked for restoration.  Not so in the code (README, section 6).
AsksForItsDiscAlways == st["con"] = "prompt" => num = DiscoDe[id][vol]

\* Without failures the script ends: every volume's monitor is stopped by the
\* end of its volume and by no other, and the right disc is found.
TerminationCd == [](fallos = 0) => <>(fase = "exit")

\* A reported failure ends the script: that is what error() leaves
\* STOP_MONITOR and ERROR for.
ErrorEndsScript == (error # 0) ~> (fase = "exit")

=============================================================================
