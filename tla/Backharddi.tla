----------------------------- MODULE Backharddi -----------------------------
(***************************************************************************)
(* One session of backharddi: the unattended configuration (auto/configura)*)
(* or the menus leave marks under $DEVICES, one directory per partition    *)
(* that parted_server knows, and the fin.d scripts then carry the marks    *)
(* out.  What makes a session hard to get right is that the partition      *)
(* table exists four times: on the disk, in the memory of parted_server,   *)
(* as directories under $DEVICES, and in the pt and mbr files of every     *)
(* backup; opening a backup already replaces the one in memory.            *)
(*                                                                         *)
(* A partition is a device and a geometry (the name of its directory), a   *)
(* table the set of its geometries.  fin.d/filesystems is taken as         *)
(* ActionList describes it; the CMOS, resize and STI scripts are left out. *)
(***************************************************************************)
EXTENDS Integers, FiniteSets

CONSTANTS
    NDevs,         \* devices, in the order of the glob  for dev in *
    Ausentes,      \* those that only backups know: the machine does not have them
    Geoms,         \* geometries a partition can have
    Discos,        \* tables the disks may have when a session begins
    Copias,        \* the backups there are at first, a record for each
    Nueva,         \* the name under which a new backup is generated
    Uso,           \* hd-media: the partition that holds the backups
    SinFs,         \* partitions without a file system anybody detects
    Medios, Modos, \* media, and values of backharddi/modo ("": no unattended mode)
    MaxRuta,       \* how deep the directories of backups nest
    MaxSesiones,   \* sessions, one after the other
    RestMbrFalla,  \* may parted_server refuse a partition of a backup?
    UpdateFalla    \* may an inicio.d script fail?

Devs == 1..NDevs
Partes == Devs \X Geoms
Tablas == [Devs -> SUBSET Geoms]

\* The partitions of a table.
De(t) == {p \in Partes : p[2] \in t[p[1]]}

\* What a directory of backups keeps: per device its pt and its mbr (empty: no
\* such device in the backup), the devices that were bigger (size) than those of
\* the machine are, the partitions with an img, those with a label, and how many
\* directories there are above it.
Copia == [pt : Tablas, mbr : Tablas, grande : SUBSET Devs, img : SUBSET Partes,
          label : SUBSET Partes, prof : 0..MaxRuta]

Nombres == DOMAIN Copias \cup {Nueva, ""}
Vacia == [pt |-> [d \in Devs |-> {}], mbr |-> [d \in Devs |-> {}], grande |-> {}, img |-> {},
          label |-> {}, prof |-> 0]

ASSUME ConstantesAssumption ==
    /\ NDevs \in Nat /\ MaxRuta \in Nat /\ MaxSesiones \in Nat \ {0}
    /\ \A b \in DOMAIN Copias :
          Copias[b] \in Copia /\ \A d \in Copias[b].grande : Copias[b].pt[d] # {}
    /\ Discos \subseteq Tablas /\ SinFs \subseteq Partes
    /\ Ausentes \subseteq Devs /\ \A t \in Discos : \A d \in Ausentes : t[d] = {}
    /\ Medios \subseteq {"hd-media", "net", "cdrom"} /\ Modos \subseteq {"", "gen", "rest"}
    /\ "" \notin DOMAIN Copias /\ Nueva \notin DOMAIN Copias \cup {""}
    /\ RestMbrFalla \in BOOLEAN /\ UpdateFalla \in BOOLEAN

VARIABLES
    medio, modo,   \* debconf: backharddi/medio and backharddi/modo
    imagenes,      \* debconf: backharddi/imagenes, "" when it is not set
    disco,         \* the tables on the disks
    tabla,         \* the tables in parted_server
    dirs,          \* the partitions with a directory under $DEVICES
    gen, rest,     \* the partitions marked with the files gen and rest
    genmbr, restmbr, \* the devices marked with the files genmbr and restmbr
    hay, copia,    \* the backups that exist, and what they hold
    fase,          \* which part of backharddi is running
    menu,          \* the menu that is being shown
    ruta,          \* how many directories escoge_backup has descended
    origen,        \* what opened the menus: "backup", "generar" or "auto"
    manual,        \* did escoge_etiqueta open escoge_particion?
    codigo,        \* the exit status of backharddi
    sesion,
    \* what the user did, for the properties: cancelled the directory menu of
    \* an unattended backup, said that the restoration may begin, removed the
    \* backup that was open, said no to the restoration; whether fin.d got to
    \* its end; the backup that was open when a device was marked restmbr; and
    \* whether backup_ok has left tables of a backup that nothing takes back
    cancelado, confirmado, eliminado, rechazado, hecho, restmbr_de, sin_deshacer

debconf  == <<medio, modo, imagenes>>
tablas   == <<disco, tabla, dirs>>
marcas   == <<gen, rest, genmbr, restmbr>>
copias   == <<hay, copia>>
menus    == <<menu, ruta, origen, manual>>
historia == <<cancelado, confirmado, eliminado, rechazado, hecho, restmbr_de, sin_deshacer>>
vars == <<debconf, tablas, marcas, copias, fase, menus, codigo, sesion, historia>>

\* Every variable has the values its files can have.
TypeOK ==
    /\ medio \in Medios /\ modo \in Modos /\ imagenes \in Nombres
    /\ disco \in Tablas /\ tabla \in Tablas
    /\ dirs \subseteq Partes /\ gen \subseteq dirs /\ rest \subseteq dirs
    /\ genmbr \subseteq Devs /\ restmbr \subseteq Devs
    /\ hay \subseteq Nombres /\ copia \in [Nombres -> Copia]
    /\ fase \in {"inicio", "auto", "menu", "parted", "mbr", "filesystems", "fin"}
    /\ menu \in {"escoge_backup", "escoge_etiqueta", "escoge_particion"}
    /\ ruta \in 0..MaxRuta /\ origen \in {"backup", "generar", "auto"} /\ manual \in BOOLEAN
    /\ codigo \in Nat /\ sesion \in 1..MaxSesiones
    /\ cancelado \in BOOLEAN /\ confirmado \in BOOLEAN /\ eliminado \in BOOLEAN
    /\ rechazado \in BOOLEAN /\ hecho \in BOOLEAN
    /\ restmbr_de \in [Devs -> Nombres] /\ sin_deshacer \in BOOLEAN

\* A booted system: nothing is marked, nothing is open.
Init ==
    /\ medio \in Medios /\ modo \in Modos
    /\ disco \in Discos /\ tabla = disco
    /\ hay = DOMAIN Copias
    /\ copia = [b \in Nombres |-> IF b \in DOMAIN Copias THEN Copias[b] ELSE Vacia]
    /\ sesion = 1
    /\ imagenes = "" /\ dirs = {} /\ gen = {} /\ rest = {} /\ genmbr = {} /\ restmbr = {}
    /\ fase = "inicio" /\ menu = "escoge_backup" /\ ruta = 0 /\ origen = "backup"
    /\ manual = FALSE /\ codigo = 0
    /\ cancelado = FALSE /\ confirmado = FALSE /\ eliminado = FALSE /\ rechazado = FALSE
    /\ hecho = FALSE
    /\ restmbr_de = [d \in Devs |-> ""] /\ sin_deshacer = FALSE

-----------------------------------------------------------------------------
(***************************************************************************)
(* definitions.sh                                                          *)
(***************************************************************************)

\* update_metadata with table t in parted_server: the directory of every
\* partition goes, with its marks, and update_partitions makes new ones.  An
\* inicio.d script that fails leaves none.  (Variants: the old ones stay; the
\* marks outlive their directories.)
Update_metadata_keeping(t, ok) ==
    /\ dirs' = IF ok THEN De(t) \cup dirs ELSE {}
    /\ IF ok THEN UNCHANGED <<gen, rest>> ELSE gen' = {} /\ rest' = {}

Update_metadata_marked(t, ok) ==
    /\ dirs' = IF ok THEN De(t) ELSE {}
    /\ UNCHANGED <<gen, rest>>

Update_metadata(t, ok) ==
    /\ dirs' = IF ok THEN De(t) ELSE {}
    /\ gen' = {} /\ rest' = {}

Oks == IF UpdateFalla THEN BOOLEAN ELSE {TRUE}

\* The devices whose table backup_ok has replaced when it stops before device k:
\* those the machine has, unless the one in the backup was bigger.
Antes(b, k) == {d \in Devs \ (Ausentes \cup copia[b].grande) : d < k /\ copia[b].pt[d] # {}}

Con_pt(b, S) == [d \in Devs |-> IF d \in S THEN copia[b].pt[d] ELSE tabla[d]]

\* no_backharddi: the backup knows nothing of the partition in use.
No_backharddi(b, d) ==
    /\ medio = "hd-media" /\ Uso \in dirs /\ d = Uso[1]
    /\ copia[b].pt[d] # {} /\ Uso[2] \notin copia[b].pt[d]

\* backup_ok with restore_mbr: device after device, parted_server gets the table
\* of the backup.  It stops at a device d that lacks the partition in use, gets
\* to the end, stops at a device k of which parted_server refuses a partition,
\* and is left with any other table g on that one, or the user goes back at the
\* message about a device k that is not there.  Nothing is undone here.
Para(b, d) == [res |-> "exit", tabla |-> Con_pt(b, Antes(b, d))]
Sigue(b) == [res |-> IF Antes(b, NDevs + 1) = {} THEN "no" ELSE "ok",
             tabla |-> Con_pt(b, Antes(b, NDevs + 1))]
Rehusa(b, k, g) == [res |-> IF Antes(b, k) = {} THEN "no" ELSE "error",
                    tabla |-> [Con_pt(b, Antes(b, k)) EXCEPT ![k] = g]]

Atras_en(b, k) == [res |-> "back", tabla |-> Con_pt(b, Antes(b, k))]

Parada(b) == {d \in Devs : No_backharddi(b, d)}
Antes_de_parar(b, S) == {k \in S : \A d \in Parada(b) : k < d}
Roto(b) == IF RestMbrFalla THEN Antes_de_parar(b, Antes(b, NDevs + 1)) ELSE {}
Faltan(b) == Antes_de_parar(b, {k \in Ausentes : copia[b].pt[k] # {}})

\* The possible outcomes; in the first ones the script that called it ends.
Acaba(b) == {Para(b, d) : d \in Parada(b)} \cup {Atras_en(b, k) : k \in Faltan(b)}

Backup_ok(b) ==
    Acaba(b)
    \cup (IF Parada(b) = {} THEN {Sigue(b)} ELSE {})
    \cup UNION {{Rehusa(b, k, g) : g \in SUBSET Geoms} : k \in Roto(b)}

\* The partition in use is left out when the backup is looked for in the top
\* directory of its partition: the name of that directory is the device.
EnUso(backup_arg) ==
    medio = "hd-media" /\ backup_arg # "" /\ copia[backup_arg].prof = 1

Salvo_uso(S, backup_arg) == IF EnUso(backup_arg) THEN S \ {Uso} ELSE S

\* rm -rf of a backup.
Borra(b) ==
    /\ hay' = hay \ {b}
    /\ copia' = [copia EXCEPT ![b] = [Vacia EXCEPT !.prof = copia[b].prof]]

Abort(c) ==
    /\ fase' = "fin" /\ codigo' = c

\* A do_option of escoge_backup has returned less than 100.  In /target, the
\* loop of backharddi then removes the marks.
Sin_marcas == IF ruta = 0 THEN gen' = {} /\ rest' = {} ELSE UNCHANGED <<gen, rest>>

-----------------------------------------------------------------------------
(***************************************************************************)
(* backharddi: inicio.d, and auto/configura                                *)
(***************************************************************************)

Inicio ==
    /\ fase = "inicio"
    /\ \E ok \in Oks :
         /\ tabla' = disco
         /\ Update_metadata(disco, ok)
         /\ IF ok THEN fase' = "auto" /\ UNCHANGED codigo ELSE Abort(10)
    /\ UNCHANGED <<debconf, disco, genmbr, restmbr, copias, menus, sesion, historia>>

\* generar_todo and restaurar_todo, called with the argument backup_arg.
Generar_todo(backup_arg) ==
    LET S == Salvo_uso(dirs \ SinFs, backup_arg)
    IN /\ gen' = gen \cup S /\ rest' = rest \ S
       /\ UNCHANGED <<genmbr, restmbr>>

Restaurar_todo(D, b, backup_arg) ==
    LET S == Salvo_uso(D, backup_arg)
    IN /\ gen' = gen \ S
       /\ rest' = (rest \ S) \cup (S \cap copia[b].img)
       /\ UNCHANGED <<genmbr, restmbr>>

Configura_nada ==
    /\ fase = "auto" /\ modo = ""
    /\ fase' = "menu"
    /\ UNCHANGED <<debconf, tablas, marcas, copias, menus, codigo, sesion, historia>>

\* cp -r $DEVICES/* over a backup.
Con_devices(c, q) ==
    [c EXCEPT !.pt = [d \in Devs |-> IF d \in Ausentes THEN @[d] ELSE disco[d]],
              !.mbr = [d \in Devs |-> IF d \in Ausentes THEN @[d] ELSE disco[d]],
              !.grande = {}, !.prof = q]

\* Unattended backup: into the directory that was given, or the one chosen in
\* escoge_dir, whose cancellation (255) ends the loop just as a choice (100).
Configura_gen ==
    /\ fase = "auto" /\ modo = "gen"
    /\ \E b \in (IF medio = "cdrom" THEN {""} ELSE Nombres), q \in 0..MaxRuta :
         /\ imagenes' = b /\ cancelado' = (b = "")
         /\ hay' = hay \cup ({b} \ {""})
         /\ copia' = IF b = "" THEN copia
                     ELSE [copia EXCEPT ![b] = Con_devices(@, IF b \in hay THEN @.prof ELSE q)]
         /\ Generar_todo("")
    /\ fase' = "parted"
    /\ UNCHANGED <<medio, modo, tablas, menus, codigo, sesion, confirmado, eliminado, rechazado,
                   hecho, restmbr_de, sin_deshacer>>

\* Unattended restoration, up to backup_ok: the backup is given, chosen or (the
\* menu cancelled) missing, and on a CD the user is asked.  (Variant: answering
\* the question makes no difference.)
Preguntado_never(b) == TRUE
Preguntado(b) == medio # "cdrom" \/ copia[b].label # {}

Configura_rechazo ==
    /\ fase = "auto" /\ modo = "rest"
    /\ \E b \in hay : ~Preguntado(b) /\ imagenes' = b
    /\ \/ fase' = "menu" /\ UNCHANGED <<codigo, rechazado>>     \* back
       \/ Abort(0) /\ rechazado' = TRUE                         \* No
    /\ UNCHANGED <<medio, modo, tablas, marcas, copias, menus, sesion, cancelado, confirmado,
                   eliminado, hecho, restmbr_de, sin_deshacer>>

\* What follows backup_ok: everything with an image is marked, or the labels are
\* shown; or update_metadata fails, no device matched, or the script has ended
\* in backup_ok: with status 0, or with that of the user's going back.
Rest_todo(b, r) ==
    /\ r.res \in {"ok", "error"} /\ copia[b].label = {}
    /\ dirs' = De(r.tabla)
    /\ Restaurar_todo(De(r.tabla), b, "")
    /\ fase' = "parted" /\ UNCHANGED <<codigo, menus>>

Rest_etiquetas(b, r) ==
    /\ r.res \in {"ok", "error"} /\ copia[b].label # {}
    /\ Update_metadata(r.tabla, TRUE)
    /\ fase' = "menu" /\ menu' = "escoge_etiqueta" /\ origen' = "auto" /\ manual' = FALSE
    /\ UNCHANGED <<codigo, ruta, genmbr, restmbr>>

Rest_sin_metadatos(r) ==
    /\ r.res \in {"ok", "error"}
    /\ Update_metadata(r.tabla, FALSE)
    /\ Abort(0) /\ UNCHANGED <<menus, genmbr, restmbr>>

Rest_sin_discos(r) ==
    /\ \/ r.res \in {"no", "exit"} /\ fase' = "menu" /\ UNCHANGED codigo
       \/ medio = "cdrom" /\ r.res = "no" /\ Abort(0)
       \/ r.res = "back" /\ Abort(0)
    /\ UNCHANGED <<dirs, marcas, menus>>

\* Here nothing ever takes the tables back.
Configura_rest ==
    /\ fase = "auto" /\ modo = "rest"
    /\ \E b \in hay, ok \in Oks : \E r \in Backup_ok(b) :
         /\ imagenes' = b /\ tabla' = r.tabla
         /\ confirmado' = ~Preguntado(b)
         /\ sin_deshacer' = (r.res = "error" \/ tabla' # tabla)
         /\ IF ok THEN Rest_todo(b, r) \/ Rest_etiquetas(b, r) \/ Rest_sin_discos(r)
                  ELSE Rest_sin_metadatos(r)
    /\ UNCHANGED <<medio, modo, disco, copias, sesion, cancelado, eliminado, rechazado, hecho,
                   restmbr_de>>

\* The menu cancelled, or the message about missing devices: to the menus.
Configura_sin_copia ==
    /\ fase = "auto" /\ modo = "rest"
    /\ fase' = "menu"
    /\ UNCHANGED <<debconf, tablas, marcas, copias, menus, codigo, sesion, historia>>

-----------------------------------------------------------------------------
(***************************************************************************)
(* escoge_backup                                                           *)
(***************************************************************************)

En(m) == fase = "menu" /\ menu = m

Entra_directorio ==
    /\ En("escoge_backup") /\ ruta < MaxRuta
    /\ ruta' = ruta + 1
    /\ UNCHANGED <<debconf, tablas, marcas, copias, fase, menu, origen, manual, codigo, sesion,
                   historia>>

\* Back: one directory up, or out of backharddi.
Sale_directorio ==
    /\ En("escoge_backup")
    /\ IF ruta = 0
       THEN Abort(10) /\ UNCHANGED <<ruta, gen, rest>>
       ELSE /\ ruta' = ruta - 1 /\ UNCHANGED <<fase, codigo>>
            /\ IF ruta = 1 THEN gen' = {} /\ rest' = {} ELSE UNCHANGED <<gen, rest>>
    /\ UNCHANGED <<debconf, tablas, genmbr, restmbr, copias, menu, origen, manual, sesion, historia>>

\* generar: a new backup in the current directory.
Generar ==
    /\ En("escoge_backup")
    /\ medio # "cdrom" /\ (ruta > 0 \/ medio = "net") /\ Nueva \notin hay
    /\ imagenes' = Nueva
    /\ copia' = [copia EXCEPT ![Nueva] = [Vacia EXCEPT !.prof = ruta]]
    /\ \E ok \in Oks :
         /\ Update_metadata(tabla, ok)
         /\ IF ok THEN menu' = "escoge_particion" /\ origen' = "generar" /\ manual' = FALSE
                  ELSE UNCHANGED <<menu, origen, manual>>
    /\ eliminado' = FALSE
    /\ UNCHANGED <<medio, modo, disco, tabla, genmbr, restmbr, hay, fase, ruta, codigo, sesion,
                   cancelado, confirmado, rechazado, hecho, restmbr_de, sin_deshacer>>

\* backup_tree on a backup: it is opened, or it is of no use on these devices,
\* and may be removed.
Abre_copia(b, r, ok) ==
    /\ r.res = "ok"
    /\ imagenes' = b /\ eliminado' = FALSE
    /\ Update_metadata(r.tabla, ok)
    /\ IF ok
       THEN /\ menu' = IF copia[b].label # {} THEN "escoge_etiqueta" ELSE "escoge_particion"
            /\ origen' = "backup" /\ manual' = FALSE
       ELSE UNCHANGED <<menu, origen, manual>>
    /\ UNCHANGED copias

Copia_inservible(b, r) ==
    /\ r.res # "ok"
    /\ Sin_marcas
    /\ \/ UNCHANGED copias
       \/ r.res = "no" /\ medio = "hd-media" /\ Borra(b)
    /\ UNCHANGED <<imagenes, dirs, menu, origen, manual, eliminado>>

Elige_copia(b) ==
    /\ En("escoge_backup") /\ b \in hay /\ copia[b].prof = ruta
    /\ \E r \in Backup_ok(b), ok \in Oks :
         tabla' = r.tabla /\ (Abre_copia(b, r, ok) \/ Copia_inservible(b, r))
    /\ sin_deshacer' = (sin_deshacer \/ (menu' = "escoge_backup" /\ tabla' # tabla))
    /\ UNCHANGED <<medio, modo, disco, genmbr, restmbr, fase, ruta, codigo, sesion,
                   cancelado, confirmado, rechazado, hecho, restmbr_de>>

-----------------------------------------------------------------------------
(***************************************************************************)
(* escoge_particion, with particion_activa and dispositivo_activo          *)
(***************************************************************************)

\* The next state of a mark: nothing, gen, rest, nothing.
Siguiente(s, puede_gen, puede_rest) ==
    CASE s = "nada" /\ puede_gen -> "gen"
      [] s \in {"nada", "gen"} /\ (s = "nada" => ~puede_gen) /\ puede_rest -> "rest"
      [] OTHER -> "nada"

Estado(x, g, r) == IF x \in r THEN "rest" ELSE IF x \in g THEN "gen" ELSE "nada"

Marca(S, x, si) == IF si THEN S \cup {x} ELSE S \ {x}

\* particion_activa/accion.  (Variant: rest without looking for the image.)
Accion_unchecked(p) ==
    LET s == Siguiente(Estado(p, gen, rest), p \notin SinFs /\ medio # "cdrom", TRUE)
    IN /\ En("escoge_particion") /\ p \in Salvo_uso(dirs \cap De(tabla), imagenes)
       /\ gen' = Marca(gen, p, s = "gen") /\ rest' = Marca(rest, p, s = "rest")
       /\ UNCHANGED <<debconf, tablas, genmbr, restmbr, copias, fase, menus, codigo, sesion, historia>>

Accion(p) ==
    LET s == Siguiente(Estado(p, gen, rest), p \notin SinFs /\ medio # "cdrom",
                       p \in copia[imagenes].img)
    IN /\ En("escoge_particion") /\ p \in Salvo_uso(dirs \cap De(tabla), imagenes)
       /\ gen' = Marca(gen, p, s = "gen") /\ rest' = Marca(rest, p, s = "rest")
       /\ UNCHANGED <<debconf, tablas, genmbr, restmbr, copias, fase, menus, codigo, sesion, historia>>

\* dispositivo_activo/accion, of a device with a directory under $DEVICES.
Accion_mbr(d) ==
    LET s == Siguiente(Estado(d, genmbr, restmbr), medio # "cdrom",
                       copia[imagenes].mbr[d] # {})
    IN /\ En("escoge_particion") /\ d \notin Ausentes
       /\ genmbr' = Marca(genmbr, d, s = "gen") /\ restmbr' = Marca(restmbr, d, s = "rest")
       /\ restmbr_de' = [restmbr_de EXCEPT ![d] = IF s = "rest" THEN imagenes ELSE ""]
       /\ UNCHANGED <<debconf, tablas, gen, rest, copias, fase, menus, codigo, sesion, cancelado,
                      confirmado, eliminado, rechazado, hecho, sin_deshacer>>

Marcar_todo ==
    /\ En("escoge_particion")
    /\ \/ medio # "cdrom" /\ Generar_todo(imagenes)
       \/ Restaurar_todo(dirs, imagenes, imagenes)
    /\ UNCHANGED <<debconf, tablas, copias, fase, menus, codigo, sesion, historia>>

Finish ==
    /\ En("escoge_particion")
    /\ fase' = "parted" /\ confirmado' = TRUE
    /\ UNCHANGED <<debconf, tablas, marcas, copias, menus, codigo, sesion, cancelado, eliminado,
                   rechazado, hecho, restmbr_de, sin_deshacer>>

\* What follows a menu that was left: escoge_etiqueta is shown again, a new
\* backup is forgotten, the table of an opened one is taken back
\* (restore_metadata), and configura goes on to the menus as they are.
\* (Variant: the table is not taken back.)
Vuelve_sin_undo ==
    IF origen = "auto"
    THEN menu' = "escoge_backup" /\ ruta' = 0
         /\ UNCHANGED <<imagenes, tabla, dirs, gen, rest, sin_deshacer>>
    ELSE IF manual /\ menu = "escoge_particion"
    THEN menu' = "escoge_etiqueta"
         /\ UNCHANGED <<ruta, imagenes, tabla, dirs, gen, rest, sin_deshacer>>
    ELSE /\ menu' = "escoge_backup" /\ imagenes' = "" /\ UNCHANGED ruta
         /\ Sin_marcas /\ UNCHANGED <<tabla, dirs, sin_deshacer>>

Vuelve ==
    IF origen = "auto"
    THEN menu' = "escoge_backup" /\ ruta' = 0
         /\ UNCHANGED <<imagenes, tabla, dirs, gen, rest, sin_deshacer>>
    ELSE IF manual /\ menu = "escoge_particion"
    THEN menu' = "escoge_etiqueta"
         /\ UNCHANGED <<ruta, imagenes, tabla, dirs, gen, rest, sin_deshacer>>
    ELSE IF origen = "generar"
    THEN /\ menu' = "escoge_backup" /\ imagenes' = "" /\ UNCHANGED ruta
         /\ Sin_marcas /\ UNCHANGED <<tabla, dirs, sin_deshacer>>
    ELSE \E ok \in Oks :
         /\ menu' = "escoge_backup" /\ UNCHANGED ruta
         /\ imagenes' = IF ok THEN "" ELSE imagenes
         /\ tabla' = disco /\ Update_metadata(disco, ok) /\ sin_deshacer' = FALSE

Atras ==
    /\ En("escoge_particion") \/ En("escoge_etiqueta")
    /\ Vuelve
    /\ UNCHANGED <<medio, modo, disco, genmbr, restmbr, copias, fase, origen, manual, codigo, sesion,
                   cancelado, confirmado, eliminado, rechazado, hecho, restmbr_de>>

\* eliminar: the backup goes, and the menu is left.
Eliminar ==
    /\ En("escoge_particion") /\ medio = "hd-media"
    /\ Borra(imagenes)
    /\ eliminado' = TRUE
    /\ Vuelve
    /\ UNCHANGED <<medio, modo, disco, genmbr, restmbr, fase, origen, manual, codigo, sesion,
                   cancelado, confirmado, rechazado, hecho, restmbr_de>>

-----------------------------------------------------------------------------
(***************************************************************************)
(* escoge_etiqueta                                                         *)
(***************************************************************************)

\* etiquetas: what carries the label (which is not the label of a volume, so
\* that the comparison meant for the partition in use never succeeds).
Etiqueta ==
    LET S == dirs \cap copia[imagenes].label
    IN /\ En("escoge_etiqueta") /\ S # {}
       /\ \/ gen' = gen \ S /\ rest' = (rest \ S) \cup (S \cap copia[imagenes].img)
          \/ medio # "cdrom" /\ gen' = gen \cup S /\ rest' = rest \ S
       /\ fase' = "parted" /\ confirmado' = TRUE
       /\ UNCHANGED <<debconf, tablas, genmbr, restmbr, copias, menus, codigo, sesion, cancelado,
                      eliminado, rechazado, hecho, restmbr_de, sin_deshacer>>

\* generar_todo and restaurar_todo, which get no argument here.
Etiqueta_todo ==
    /\ En("escoge_etiqueta")
    /\ \/ medio # "cdrom" /\ Generar_todo("")
       \/ Restaurar_todo(dirs, imagenes, "")
    /\ fase' = "parted" /\ confirmado' = TRUE
    /\ UNCHANGED <<debconf, tablas, copias, menus, codigo, sesion, cancelado, eliminado, rechazado,
                   hecho, restmbr_de, sin_deshacer>>

Seleccion_manual ==
    /\ En("escoge_etiqueta")
    /\ menu' = "escoge_particion" /\ manual' = TRUE
    /\ UNCHANGED <<debconf, tablas, marcas, copias, fase, ruta, origen, codigo, sesion, historia>>

-----------------------------------------------------------------------------
(***************************************************************************)
(* fin.d                                                                   *)
(***************************************************************************)

\* The devices with something to be restored.  (Variant: a device with something
\* to be generated as well is not counted.)
Con_rest_sin_gen == {p[1] : p \in rest} \ {p[1] : p \in gen}
Con_rest == {p[1] : p \in rest}

\* 30parted: the table of the backup on every device with something to be
\* restored; it gives up at the first one that is not written or not re-read.
Parted ==
    /\ fase = "parted"
    /\ \/ /\ rest = {} \/ imagenes \in hay
          /\ disco' = [d \in Devs |-> IF d \in Con_rest THEN copia[imagenes].pt[d] ELSE disco[d]]
          /\ fase' = "mbr" /\ UNCHANGED codigo
       \/ /\ \E k \in Con_rest : \E n \in {k, k + 1} :
               disco' = IF imagenes \notin hay THEN disco
                        ELSE [d \in Devs |-> IF d \in Con_rest /\ d < n THEN copia[imagenes].pt[d]
                                             ELSE disco[d]]
          /\ Abort(1)
    /\ UNCHANGED <<debconf, tabla, dirs, marcas, copias, menus, sesion, historia>>

\* A device the backup does not have yet is copied to it as it is.
Con_dispositivos(c, S) ==
    [c EXCEPT !.pt  = [d \in Devs |-> IF d \in S /\ @[d] = {} THEN disco[d] ELSE @[d]],
              !.mbr = [d \in Devs |-> IF d \in S /\ c.pt[d] = {} THEN disco[d] ELSE @[d]]]

\* 35mbr: sectors, the table among them, are kept, or written back if the
\* backup has them; a device marked restmbr without them ends the script.
Mbr ==
    LET Falta == {d \in restmbr : copia[imagenes].mbr[d] = {}}
        Llega == {d \in Devs : \A k \in Falta : d < k}
        c0 == Con_dispositivos(copia[imagenes], genmbr \cap Llega)
        c1 == [c0 EXCEPT !.mbr = [d \in Devs |-> IF d \in genmbr \cap Llega THEN disco[d] ELSE @[d]]]
    IN /\ fase = "mbr"
       /\ copia' = [copia EXCEPT ![imagenes] = c1]
       /\ hay' = hay \cup (IF genmbr \cap Llega = {} THEN {} ELSE {imagenes} \ {""})
       /\ disco' = [d \in Devs |-> IF d \in (restmbr \cup Con_rest) \cap Llega /\ c1.mbr[d] # {}
                                  THEN c1.mbr[d] ELSE disco[d]]
       /\ IF Falta = {} THEN fase' = "filesystems" /\ UNCHANGED codigo ELSE Abort(1)
       /\ UNCHANGED <<debconf, tabla, dirs, marcas, menus, sesion, historia>>

\* The images of S, with what is kept of their devices.
Con_imagenes(c, S) ==
    [Con_dispositivos(c, {p[1] : p \in S}) EXCEPT !.img = @ \cup S]

\* 50filesystems, which may stop at any partition, and the end.
Filesystems ==
    /\ fase = "filesystems"
    /\ \E hechas \in SUBSET gen, c \in {0, 1} :
         /\ c = 0 => hechas = gen
         /\ copia' = [copia EXCEPT ![imagenes] = Con_imagenes(@, hechas)]
         /\ hay' = hay \cup (IF hechas = {} THEN {} ELSE {imagenes} \ {""})
         /\ Abort(c) /\ hecho' = (c = 0)
    /\ UNCHANGED <<debconf, tablas, marcas, menus, sesion, cancelado, confirmado, eliminado, rechazado,
                   restmbr_de, sin_deshacer>>

\* Another session on the same machine, which may have new tables by then.
Otra_sesion ==
    /\ fase = "fin" /\ sesion < MaxSesiones
    /\ sesion' = sesion + 1
    /\ medio' = medio /\ modo' \in Modos
    /\ disco' \in Discos \cup {disco} /\ tabla' = disco'
    /\ imagenes' = "" /\ dirs' = {} /\ gen' = {} /\ rest' = {} /\ genmbr' = {} /\ restmbr' = {}
    /\ fase' = "inicio" /\ menu' = "escoge_backup" /\ ruta' = 0 /\ origen' = "backup"
    /\ manual' = FALSE /\ codigo' = 0
    /\ cancelado' = FALSE /\ confirmado' = FALSE /\ eliminado' = FALSE /\ rechazado' = FALSE
    /\ hecho' = FALSE
    /\ restmbr_de' = [d \in Devs |-> ""] /\ sin_deshacer' = FALSE
    /\ copia' = [copia EXCEPT ![""] = Vacia] /\ UNCHANGED hay

Terminado == fase = "fin" /\ sesion = MaxSesiones /\ UNCHANGED vars

Menus ==
    \/ Entra_directorio \/ Sale_directorio \/ Generar \/ (\E b \in Nombres : Elige_copia(b))
    \/ (\E p \in Partes : Accion(p)) \/ (\E d \in Devs : Accion_mbr(d)) \/ Marcar_todo \/ Finish
    \/ Atras \/ Eliminar \/ Etiqueta \/ Etiqueta_todo \/ Seleccion_manual

Configura == Configura_nada \/ Configura_gen \/ Configura_rechazo \/ Configura_rest \/ Configura_sin_copia

Next == Inicio \/ Configura \/ Menus \/ Parted \/ Mbr \/ Filesystems \/ Otra_sesion \/ Terminado

Spec == Init /\ [][Next]_vars

-----------------------------------------------------------------------------
(***************************************************************************)
(* Properties                                                              *)
(***************************************************************************)

\* While partitions are being marked, the directories that carry the marks are
\* those of the partitions parted_server has: what the user sees in the menu,
\* what is marked and what is looked up in the backup are the same partitions.
DirsMatchTable == En("escoge_particion") \/ En("escoge_etiqueta") => dirs = De(tabla)

\* What fin.d gets to do makes sense for the backup that is open, whatever was
\* opened and left before: nothing is both generated and restored, what is to
\* be restored has its image there (unless the user removed the backup), and
\* there is a place to generate to (unless the user cancelled its choice).
MarksSound ==
    fase = "parted" =>
        /\ gen \cap rest = {}
        /\ rest \subseteq copia[imagenes].img \/ eliminado
        /\ imagenes = "" /\ gen # {} => cancelado

\* An image is kept under a geometry that the pt of its backup has, or will
\* have: otherwise restore_mbr rebuilds other partitions and nobody ever finds
\* the image.  Unless the user removed the backup while it was open; and not so
\* in the code (README, section 6) after a backup_ok that gave up half way and
\* left its tables, nor on a device too small for the pt of the backup.
GenRestorable ==
    fase = "filesystems" /\ ~eliminado /\ ~sin_deshacer =>
        \A p \in gen : p[1] \notin copia[imagenes].grande =>
            p[2] \in (IF copia[imagenes].pt[p[1]] = {} THEN disco[p[1]]
                      ELSE copia[imagenes].pt[p[1]])

\* When images are restored, the disk has the table the backup was made with,
\* unless the mbr of the backup was renewed and its pt was not.
RestoresOnItsTable ==
    fase = "filesystems" =>
        \A p \in rest : copia[imagenes].mbr[p[1]] \in {{}, copia[imagenes].pt[p[1]]} =>
                            disco[p[1]] = copia[imagenes].pt[p[1]]

\* No restoration from a CD begins before the user has confirmed it.
Confirmed ==
    medio = "cdrom" /\ fase \in {"parted", "mbr", "filesystems"} /\ rest # {} => confirmado

\* The partition with the backups in use is neither generated nor restored.
\* Not so in the code (README, section 6): not for a backup two levels down.
InUseProtected == fase = "parted" /\ medio = "hd-media" => Uso \notin gen \cup rest

\* The note that everything was done, which postinst shows when backharddi
\* exits with 0, is only shown if fin.d was run to its end, or the user refused.
\* Not so in the code (README, section 6): also if no device matched.
NoteIsTrue == fase = "fin" /\ codigo = 0 => hecho \/ rechazado

\* Only what was marked for the backup that is open is written over an MBR: by
\* its own mark, or because some partition of the device is restored.
\* Not so in the code (README, section 6): restmbr survives.
MbrWasAskedFor ==
    [][fase = "mbr" => \A d \in Devs : disco'[d] # disco[d] =>
                            d \in Con_rest \/ restmbr_de[d] = imagenes]_vars

=============================================================================
