-------------------------- MODULE BackharddiProofs --------------------------
(***************************************************************************)
(* What holds of a session of backharddi whatever the user does, for any   *)
(* devices, partitions, backups, media and modes, and any number of        *)
(* sessions.                                                               *)
(***************************************************************************)
EXTENDS Backharddi, TLAPS

\* A backup is open, or a new one is being made: the menus that mark.
Abierta == fase = "menu" /\ menu # "escoge_backup"

\* What is marked belongs to the backup that is open, and the directories that
\* carry the marks to the table parted_server has.
Marcado ==
    /\ "" \notin hay
    /\ gen \cap rest = {}
    /\ fase \in {"inicio", "auto"} => gen = {} /\ rest = {} /\ menu = "escoge_backup"
    /\ Abierta =>
          /\ imagenes # "" /\ dirs = De(tabla)
          /\ rest \subseteq copia[imagenes].img \/ eliminado

\* 30parted has written the table of every device with something to be restored.
Escrita == fase = "mbr" => \A p \in rest : disco[p[1]] = copia[imagenes].pt[p[1]]

IInv == TypeOK /\ Marcado /\ MarksSound /\ Confirmed /\ Escrita /\ RestoresOnItsTable

-----------------------------------------------------------------------------
\* The condition under which GenRestorable is proved: disks and backups have some
\* table where they have something else.  (sin_deshacer and grande, in the property
\* itself, stand for what backup_ok may do to it.)
Sana(c) ==
    /\ \A p \in c.img : c.pt[p[1]] # {}
    /\ \A d \in Devs : c.mbr[d] # {} => c.pt[d] # {}

Con_tablas ==
    /\ \A t \in Discos : \A d \in Devs \ Ausentes : t[d] # {}
    /\ \A b \in DOMAIN Copias : Sana(Copias[b])

\* The table images are generated under, per device, when backup b is open, on the
\* devices that the machine has and that are big enough.
Tabla_de(b) == [d \in Devs |-> IF copia[b].pt[d] = {} THEN disco[d] ELSE copia[b].pt[d]]
Caben(b) == Devs \ (Ausentes \cup copia[b].grande)

\* A device that the machine lacks has nothing that a device of it has.
Ausentes_fuera ==
    /\ \A d \in Ausentes : disco[d] = {} /\ tabla[d] = {}
    /\ (genmbr \cup restmbr) \cap Ausentes = {}
    /\ \A p \in dirs : p[1] \notin Ausentes

Rehecha ==
    /\ \A d \in Devs \ Ausentes : disco[d] # {}
    /\ \A b \in Nombres : Sana(copia[b])
    /\ fase \in {"menu", "parted"} /\ eliminado => imagenes \notin hay
    /\ fase \in {"inicio", "auto"} => ~eliminado /\ ~sin_deshacer /\ copia[""] = Vacia
    /\ fase = "auto" => tabla = disco /\ dirs = De(disco)
    /\ fase = "menu" /\ menu = "escoge_backup" => tabla = disco \/ sin_deshacer
    /\ Abierta /\ origen # "backup" => tabla = disco \/ sin_deshacer
    /\ Abierta /\ origen = "generar" => menu = "escoge_particion" /\ ~manual
    /\ Abierta /\ ~eliminado /\ ~sin_deshacer =>
          \A d \in Caben(imagenes) : tabla[d] = Tabla_de(imagenes)[d]
    /\ fase \in {"parted", "mbr"} /\ ~eliminado /\ ~sin_deshacer =>
          \A p \in gen : p[1] \in Caben(imagenes) => p[2] \in Tabla_de(imagenes)[p[1]]

GInv == Rehecha /\ GenRestorable

-----------------------------------------------------------------------------
LEMMA Naturales == NDevs \in Nat /\ MaxRuta \in Nat /\ MaxSesiones \in Nat \ {0}
BY ConstantesAssumption

\* What the operators of the model return.
LEMMA DeEnPartes == \A t : De(t) \subseteq Partes
BY DEF De

LEMMA VaciaTipo == Vacia \in Copia
<1>1. 0 \in 0..MaxRuta
  BY Naturales
<1> QED
  BY <1>1 DEF Vacia, Copia, Tablas, Partes

LEMMA CopiaCampos ==
  ASSUME NEW c \in Copia
  PROVE  /\ c.pt \in Tablas /\ c.mbr \in Tablas /\ c.img \subseteq Partes
         /\ c.label \subseteq Partes /\ c.prof \in 0..MaxRuta /\ c.grande \subseteq Devs
BY DEF Copia

LEMMA Con_devicesTipo ==
  ASSUME NEW c \in Copia, NEW q \in 0..MaxRuta, disco \in Tablas
  PROVE  Con_devices(c, q) \in Copia
<1> DEFINE pt  == [d \in Devs |-> IF d \in Ausentes THEN c.pt[d] ELSE disco[d]]
           mbr == [d \in Devs |-> IF d \in Ausentes THEN c.mbr[d] ELSE disco[d]]
<1>1. pt \in Tablas /\ mbr \in Tablas
  BY CopiaCampos DEF Tablas
<1>2. Con_devices(c, q) = [c EXCEPT !.pt = pt, !.mbr = mbr, !.grande = {}, !.prof = q]
  BY DEF Con_devices
<1> HIDE DEF pt, mbr
<1>3. [c EXCEPT !.pt = pt, !.mbr = mbr, !.grande = {}, !.prof = q] \in Copia
  BY <1>1 DEF Copia
<1> QED
  BY <1>2, <1>3

LEMMA Backup_okCasos ==
  ASSUME NEW b, NEW r \in Backup_ok(b)
  PROVE  \/ \E d \in Devs : No_backharddi(b, d) /\ r = Para(b, d)
         \/ r = Sigue(b)
         \/ \E k \in Antes(b, NDevs + 1) : \E g \in SUBSET Geoms : r = Rehusa(b, k, g)
         \/ \E k \in Ausentes : r = Atras_en(b, k)
<1>1. r \in Acaba(b) => \/ \E d \in Devs : No_backharddi(b, d) /\ r = Para(b, d)
                        \/ \E k \in Ausentes : r = Atras_en(b, k)
  BY Zenon DEF Acaba, Parada, Faltan, Antes_de_parar
<1>2. r \in (IF Parada(b) = {} THEN {Sigue(b)} ELSE {}) => r = Sigue(b)
  BY Zenon
<1>3. ASSUME r \in UNION {{Rehusa(b, k, g) : g \in SUBSET Geoms} : k \in Roto(b)}
      PROVE  \E k \in Antes(b, NDevs + 1) : \E g \in SUBSET Geoms : r = Rehusa(b, k, g)
  <2>1. PICK k \in Roto(b) : r \in {Rehusa(b, k, g) : g \in SUBSET Geoms}
    BY <1>3, Zenon
  <2>2. k \in Antes(b, NDevs + 1)
    BY <2>1, Zenon DEF Roto, Antes_de_parar
  <2> QED
    BY <2>1, <2>2, Zenon
<1> QED
  BY <1>1, <1>2, <1>3, Zenon DEF Backup_ok

LEMMA Backup_okTipo ==
  ASSUME TypeOK, NEW b \in Nombres, NEW r \in Backup_ok(b)
  PROVE  /\ r.tabla \in Tablas /\ r.res \in {"ok", "no", "exit", "back", "error"}
         /\ r.res = "ok" => r = Sigue(b)
<1>1. copia[b].pt \in Tablas /\ tabla \in Tablas
  BY CopiaCampos DEF TypeOK
<1>2. \A S : Con_pt(b, S) \in Tablas
  BY <1>1 DEF Con_pt, Tablas
<1>3. \A S, k : \A g \in SUBSET Geoms : [Con_pt(b, S) EXCEPT ![k] = g] \in Tablas
  BY <1>2 DEF Tablas
<1>4. ASSUME NEW d, r = Para(b, d)
      PROVE  r.tabla \in Tablas /\ r.res = "exit"
  BY <1>2, <1>4 DEF Para
<1>5. ASSUME r = Sigue(b)
      PROVE  r.tabla \in Tablas /\ r.res \in {"ok", "no"}
  BY <1>2, <1>5 DEF Sigue
<1>6. ASSUME NEW k, NEW g \in SUBSET Geoms, r = Rehusa(b, k, g)
      PROVE  r.tabla \in Tablas /\ r.res \in {"no", "error"}
  BY <1>3, <1>6 DEF Rehusa
<1>7. ASSUME NEW k, r = Atras_en(b, k)
      PROVE  r.tabla \in Tablas /\ r.res = "back"
  BY <1>2, <1>7 DEF Atras_en
<1> QED
  BY <1>4, <1>5, <1>6, <1>7, Backup_okCasos

LEMMA Con_dispositivosTipo ==
  ASSUME NEW c \in Copia, NEW S, disco \in Tablas
  PROVE  Con_dispositivos(c, S) \in Copia
<1> DEFINE pt  == [d \in Devs |-> IF d \in S /\ c.pt[d] = {} THEN disco[d] ELSE c.pt[d]]
           mbr == [d \in Devs |-> IF d \in S /\ c.pt[d] = {} THEN disco[d] ELSE c.mbr[d]]
<1>1. pt \in Tablas /\ mbr \in Tablas
  BY CopiaCampos DEF Tablas
<1>2. Con_dispositivos(c, S) = [c EXCEPT !.pt = pt, !.mbr = mbr]
  BY DEF Con_dispositivos
<1> HIDE DEF pt, mbr
<1>3. [c EXCEPT !.pt = pt, !.mbr = mbr] \in Copia
  BY <1>1 DEF Copia
<1> QED
  BY <1>2, <1>3

LEMMA Con_imagenesTipo ==
  ASSUME NEW c \in Copia, NEW S \in SUBSET Partes, disco \in Tablas
  PROVE  Con_imagenes(c, S) \in Copia
<1> DEFINE c0 == Con_dispositivos(c, {p[1] : p \in S})
<1>1. c0 \in Copia
  BY Con_dispositivosTipo
<1> HIDE DEF c0
<1>2. c0.img \cup S \subseteq Partes
  BY <1>1 DEF Copia
<1>3. [c0 EXCEPT !.img = c0.img \cup S] \in Copia
  BY <1>1, <1>2 DEF Copia
<1> QED
  BY <1>3 DEF Con_imagenes, c0

-----------------------------------------------------------------------------
USE DEF debconf, tablas, marcas, copias, menus, historia

\* Most actions leave fin.d to come, and then only types and marks are at stake.
LEMMA FueraDeFin ==
  ASSUME TypeOK', Marcado', fase' \notin {"parted", "mbr", "filesystems"}
  PROVE  IInv'
BY DEF IInv, MarksSound, Confirmed, Escrita, RestoresOnItsTable

LEMMA InicioInv == ASSUME IInv, Inicio PROVE IInv'
<1> USE DEF Inicio, Update_metadata, Abort
<1>1. TypeOK'
  BY DeEnPartes DEF IInv, TypeOK
<1>2. Marcado'
  BY DEF IInv, Marcado, Abierta
<1> QED
  BY <1>1, <1>2, FueraDeFin

LEMMA Entra_directorioInv == ASSUME IInv, Entra_directorio PROVE IInv'
<1> USE DEF Entra_directorio, En
<1>1. TypeOK'
  <2>1. ruta \in 0..MaxRuta
    BY DEF IInv, TypeOK
  <2>2. ruta' \in 0..MaxRuta
    BY <2>1, Naturales
  <2> QED
    BY <2>2 DEF IInv, TypeOK
<1>2. Marcado'
  BY DEF IInv, Marcado, Abierta
<1> QED
  BY <1>1, <1>2, FueraDeFin

LEMMA Sale_directorioInv == ASSUME IInv, Sale_directorio PROVE IInv'
<1> USE DEF Sale_directorio, En, Abort
<1>1. TypeOK'
  <2>1. ruta \in 0..MaxRuta
    BY DEF IInv, TypeOK
  <2>2. ruta' \in 0..MaxRuta
    BY <2>1, Naturales
  <2> QED
    BY <2>2 DEF IInv, TypeOK
<1>2. Marcado'
  BY DEF IInv, Marcado, Abierta
<1> QED
  BY <1>1, <1>2, FueraDeFin

LEMMA GenerarInv == ASSUME IInv, Generar PROVE IInv'
<1> USE DEF Generar, En, Update_metadata
<1>1. TypeOK'
  <2>1. copia' \in [Nombres -> Copia] /\ imagenes' \in Nombres
    <3>1. [Vacia EXCEPT !.prof = ruta] \in Copia
      BY VaciaTipo DEF IInv, TypeOK, Copia
    <3> QED
      BY <3>1 DEF IInv, TypeOK, Nombres
  <2> QED
    BY <2>1, DeEnPartes DEF IInv, TypeOK
<1>2. Marcado'
  <2>1. Nueva # ""
    BY ConstantesAssumption
  <2> QED
    BY <2>1 DEF IInv, Marcado, Abierta
<1> QED
  BY <1>1, <1>2, FueraDeFin

LEMMA Configura_nadaInv == ASSUME IInv, Configura_nada PROVE IInv'
<1> USE DEF Configura_nada
<1>1. TypeOK'
  <2>1. TypeOK
    BY DEF IInv
  <2>2. /\ fase' = "menu" /\ medio' = medio /\ modo' = modo /\ imagenes' = imagenes
        /\ disco' = disco /\ tabla' = tabla /\ dirs' = dirs /\ gen' = gen /\ rest' = rest
        /\ genmbr' = genmbr /\ restmbr' = restmbr /\ hay' = hay /\ copia' = copia
    OBVIOUS
  <2>3. /\ menu' = menu /\ ruta' = ruta /\ origen' = origen /\ manual' = manual
        /\ codigo' = codigo /\ sesion' = sesion /\ UNCHANGED historia
    OBVIOUS
  <2> HIDE DEF Configura_nada
  <2> QED
    BY <2>1, <2>2, <2>3 DEF TypeOK
<1>2. Marcado'
  BY DEF IInv, Marcado, Abierta
<1> QED
  BY <1>1, <1>2, FueraDeFin

LEMMA Configura_rechazoInv == ASSUME IInv, Configura_rechazo PROVE IInv'
<1> USE DEF Configura_rechazo, Abort
<1>1. TypeOK'
  <2>1. imagenes' \in Nombres
    BY DEF IInv, TypeOK
  <2>2. CASE fase' = "menu" /\ UNCHANGED <<codigo, rechazado>>
    BY <2>1, <2>2 DEF IInv, TypeOK
  <2>3. CASE fase' = "fin" /\ codigo' = 0 /\ rechazado' = TRUE
    BY <2>1, <2>3 DEF IInv, TypeOK
  <2> QED
    BY <2>2, <2>3
<1>2. Marcado'
  BY DEF IInv, Marcado, Abierta
<1> QED
  BY <1>1, <1>2, FueraDeFin

LEMMA Configura_sin_copiaInv == ASSUME IInv, Configura_sin_copia PROVE IInv'
<1> USE DEF Configura_sin_copia
<1>1. TypeOK'
  BY DeEnPartes DEF IInv, TypeOK
<1>2. Marcado'
  BY DEF IInv, Marcado, Abierta
<1> QED
  BY <1>1, <1>2, FueraDeFin

LEMMA Seleccion_manualInv == ASSUME IInv, Seleccion_manual PROVE IInv'
<1> USE DEF Seleccion_manual, En
<1>1. TypeOK'
  BY DeEnPartes DEF IInv, TypeOK
<1>2. Marcado'
  BY DEF IInv, Marcado, Abierta
<1> QED
  BY <1>1, <1>2, FueraDeFin

LEMMA AccionInv == ASSUME IInv, NEW p \in Partes, Accion(p) PROVE IInv'
<1> USE DEF Accion, En, Marca, Salvo_uso
<1> DEFINE s == Siguiente(Estado(p, gen, rest), p \notin SinFs /\ medio # "cdrom",
                          p \in copia[imagenes].img)
<1>1. TypeOK'
  BY DEF IInv, TypeOK
<1>2. Marcado'
  <2>1. s = "rest" => p \in copia[imagenes].img
    BY DEF Siguiente
  <2>2. gen' = Marca(gen, p, s = "gen") /\ rest' = Marca(rest, p, s = "rest")
    BY Zenon
  <2>3. UNCHANGED <<fase, menu, hay, copia, imagenes, dirs, tabla, eliminado>>
    OBVIOUS
  <2> HIDE DEF s, Accion
  <2>4. gen' \cap rest' = {}
    BY <2>2 DEF IInv, Marcado
  <2>5. rest' \subseteq rest \cup copia[imagenes].img
    BY <2>1, <2>2
  <2>6. Abierta
    BY DEF Abierta, Accion
  <2> QED
    BY <2>3, <2>4, <2>5, <2>6 DEF IInv, Marcado, Abierta
<1> QED
  BY <1>1, <1>2, FueraDeFin

LEMMA Accion_mbrInv == ASSUME IInv, NEW d \in Devs, Accion_mbr(d) PROVE IInv'
<1> USE DEF Accion_mbr, En, Marca
<1>1. TypeOK'
  <2>1. restmbr_de' \in [Devs -> Nombres]
    BY DEF IInv, TypeOK, Nombres
  <2>2. genmbr' \subseteq Devs /\ restmbr' \subseteq Devs
    BY DEF IInv, TypeOK
  <2> QED
    BY <2>1, <2>2 DEF IInv, TypeOK
<1>2. Marcado'
  BY DEF IInv, Marcado, Abierta
<1> QED
  BY <1>1, <1>2, FueraDeFin

LEMMA Marcar_todoInv == ASSUME IInv, Marcar_todo PROVE IInv'
<1> USE DEF Marcar_todo, En, Generar_todo, Restaurar_todo, Salvo_uso
<1>1. TypeOK'
  BY DeEnPartes DEF IInv, TypeOK
<1>2. Marcado'
  BY DEF IInv, Marcado, Abierta
<1> QED
  BY <1>1, <1>2, FueraDeFin

LEMMA FinishInv == ASSUME IInv, Finish PROVE IInv'
<1> USE DEF Finish, En
<1>1. TypeOK'
  BY DeEnPartes DEF IInv, TypeOK
<1>2. Marcado'
  BY DEF IInv, Marcado, Abierta
<1>3. MarksSound'
  BY DEF IInv, Marcado, Abierta, MarksSound
<1>4. Confirmed' /\ Escrita' /\ RestoresOnItsTable'
  BY DEF Confirmed, Escrita, RestoresOnItsTable
<1> QED
  BY <1>1, <1>2, <1>3, <1>4 DEF IInv

LEMMA EtiquetaInv == ASSUME IInv, Etiqueta PROVE IInv'
<1> USE DEF Etiqueta, En
<1>1. TypeOK'
  BY DeEnPartes DEF IInv, TypeOK
<1>2. Marcado'
  BY DEF IInv, Marcado, Abierta
<1>3. MarksSound'
  BY DEF IInv, Marcado, Abierta, MarksSound
<1>4. Confirmed' /\ Escrita' /\ RestoresOnItsTable'
  BY DEF Confirmed, Escrita, RestoresOnItsTable
<1> QED
  BY <1>1, <1>2, <1>3, <1>4 DEF IInv

LEMMA Etiqueta_todoInv == ASSUME IInv, Etiqueta_todo PROVE IInv'
<1> USE DEF Etiqueta_todo, En, Generar_todo, Restaurar_todo, Salvo_uso
<1>1. TypeOK'
  BY DeEnPartes DEF IInv, TypeOK
<1>2. Marcado'
  BY DEF IInv, Marcado, Abierta
<1>3. MarksSound'
  BY DEF IInv, Marcado, Abierta, MarksSound
<1>4. Confirmed' /\ Escrita' /\ RestoresOnItsTable'
  BY DEF Confirmed, Escrita, RestoresOnItsTable
<1> QED
  BY <1>1, <1>2, <1>3, <1>4 DEF IInv

LEMMA Configura_genInv == ASSUME IInv, Configura_gen PROVE IInv'
<1>1. PICK b \in Nombres, q \in 0..MaxRuta :
         /\ imagenes' = b /\ cancelado' = (b = "")
         /\ hay' = hay \cup ({b} \ {""})
         /\ copia' = IF b = "" THEN copia
                     ELSE [copia EXCEPT ![b] = Con_devices(@, IF b \in hay THEN @.prof ELSE q)]
  BY DEF Configura_gen, Nombres
<1>2. /\ fase = "auto" /\ fase' = "parted" /\ Generar_todo("")
      /\ UNCHANGED <<medio, modo, tablas, menus, codigo, sesion, confirmado, eliminado, rechazado,
                     hecho, restmbr_de, sin_deshacer>>
  BY DEF Configura_gen
<1>3. gen = {} /\ rest = {}
  BY <1>2 DEF IInv, Marcado
<1>4. gen' \subseteq dirs /\ rest' = {}
  BY <1>2, <1>3 DEF Generar_todo, Salvo_uso
<1>5. copia' \in [Nombres -> Copia]
  <2> DEFINE p == IF b \in hay THEN copia[b].prof ELSE q
             c == Con_devices(copia[b], p)
  <2>1. copia[b] \in Copia /\ disco \in Tablas /\ copia \in [Nombres -> Copia]
    BY DEF IInv, TypeOK
  <2>2. p \in 0..MaxRuta
    BY <2>1, CopiaCampos
  <2> HIDE DEF p
  <2>3. c \in Copia
    BY <2>1, <2>2, Con_devicesTipo
  <2>4. b # "" => copia' = [copia EXCEPT ![b] = c]
    BY <1>1, <2>1 DEF p
  <2> HIDE DEF c
  <2> QED
    BY <1>1, <2>1, <2>3, <2>4
<1>6. TypeOK'
  BY <1>1, <1>2, <1>3, <1>4, <1>5 DEF IInv, TypeOK, Generar_todo
<1>7. Marcado'
  BY <1>1, <1>2, <1>4 DEF IInv, Marcado, Abierta
<1>8. MarksSound' /\ Confirmed' /\ Escrita' /\ RestoresOnItsTable'
  BY <1>1, <1>2, <1>4 DEF MarksSound, Confirmed, Escrita, RestoresOnItsTable
<1> QED
  BY <1>6, <1>7, <1>8 DEF IInv

LEMMA Configura_restInv == ASSUME IInv, Configura_rest PROVE IInv'
<1>1. PICK b \in hay, ok \in Oks : \E r \in Backup_ok(b) :
         /\ imagenes' = b /\ tabla' = r.tabla
         /\ confirmado' = ~Preguntado(b)
         /\ sin_deshacer' = (r.res = "error" \/ tabla' # tabla)
         /\ IF ok THEN Rest_todo(b, r) \/ Rest_etiquetas(b, r) \/ Rest_sin_discos(r)
                  ELSE Rest_sin_metadatos(r)
  BY DEF Configura_rest
<1>2. PICK r \in Backup_ok(b) :
         /\ imagenes' = b /\ tabla' = r.tabla
         /\ confirmado' = ~Preguntado(b)
         /\ sin_deshacer' = (r.res = "error" \/ tabla' # tabla)
         /\ Rest_todo(b, r) \/ Rest_etiquetas(b, r) \/ Rest_sin_discos(r) \/ Rest_sin_metadatos(r)
  BY <1>1, Zenon
<1>3. /\ fase = "auto"
      /\ UNCHANGED <<medio, modo, disco, copias, sesion, cancelado, eliminado, rechazado, hecho,
                     restmbr_de>>
  BY DEF Configura_rest
<1>4. gen = {} /\ rest = {} /\ menu = "escoge_backup"
  BY <1>3 DEF IInv, Marcado
<1>5. r.tabla \in Tablas /\ b \in Nombres /\ b # ""
  BY Backup_okTipo DEF IInv, TypeOK, Marcado
<1>6. CASE Rest_todo(b, r)
  <2>1. gen' = {} /\ rest' \subseteq De(r.tabla) /\ rest' \subseteq copia[b].img
    BY <1>4, <1>6 DEF Rest_todo, Restaurar_todo, Salvo_uso
  <2>2. TypeOK'
    BY <1>2, <1>3, <1>5, <1>6, <2>1, DeEnPartes DEF IInv, TypeOK, Rest_todo, Restaurar_todo
  <2>3. Marcado'
    BY <1>3, <1>6, <2>1 DEF IInv, Marcado, Abierta, Rest_todo
  <2>4. MarksSound'
    BY <1>2, <1>3, <2>1 DEF MarksSound
  <2>5. Confirmed'
    BY <1>2, <1>3, <1>6 DEF Confirmed, Preguntado, Rest_todo
  <2>6. Escrita' /\ RestoresOnItsTable'
    BY <1>6 DEF Escrita, RestoresOnItsTable, Rest_todo
  <2> QED
    BY <2>2, <2>3, <2>4, <2>5, <2>6 DEF IInv
<1>7. CASE Rest_etiquetas(b, r)
  <2>1. TypeOK'
    BY <1>2, <1>3, <1>5, <1>7, DeEnPartes DEF IInv, TypeOK, Rest_etiquetas, Update_metadata
  <2>2. Marcado'
    BY <1>2, <1>3, <1>5, <1>7 DEF IInv, Marcado, Abierta, Rest_etiquetas, Update_metadata
  <2> QED
    BY <1>7, <2>1, <2>2, FueraDeFin DEF Rest_etiquetas
<1>8. CASE Rest_sin_discos(r)
  <2>1. UNCHANGED <<dirs, marcas, menus>> /\ fase' \in {"menu", "fin"} /\ codigo' \in Nat
    BY <1>8 DEF IInv, TypeOK, Rest_sin_discos, Abort
  <2>2. TypeOK'
    BY <1>2, <1>3, <1>5, <2>1 DEF IInv, TypeOK
  <2>3. Marcado'
    BY <1>3, <1>4, <2>1 DEF IInv, Marcado, Abierta
  <2> QED
    BY <2>1, <2>2, <2>3, FueraDeFin
<1>9. CASE Rest_sin_metadatos(r)
  <2>1. TypeOK'
    BY <1>2, <1>3, <1>5, <1>9 DEF IInv, TypeOK, Rest_sin_metadatos, Update_metadata, Abort
  <2>2. Marcado'
    BY <1>3, <1>4, <1>9 DEF IInv, Marcado, Abierta, Rest_sin_metadatos, Update_metadata, Abort
  <2> QED
    BY <1>9, <2>1, <2>2, FueraDeFin DEF Rest_sin_metadatos, Abort
<1> QED
  BY <1>2, <1>6, <1>7, <1>8, <1>9

\* The backup itself is removed, and whatever is open is still a type.
LEMMA BorraTipo ==
  ASSUME TypeOK, NEW b \in Nombres, Borra(b)
  PROVE  hay' \subseteq hay /\ copia' \in [Nombres -> Copia]
<1>1. copia \in [Nombres -> Copia] /\ copia[b].prof \in 0..MaxRuta
  BY CopiaCampos DEF TypeOK
<1>2. [Vacia EXCEPT !.prof = copia[b].prof] \in Copia
  BY <1>1, VaciaTipo DEF Copia
<1> QED
  BY <1>1, <1>2 DEF Borra

LEMMA Elige_copiaInv == ASSUME IInv, NEW b \in Nombres, Elige_copia(b) PROVE IInv'
<1>1. PICK r \in Backup_ok(b), ok \in Oks :
         tabla' = r.tabla /\ (Abre_copia(b, r, ok) \/ Copia_inservible(b, r))
  BY DEF Elige_copia
<1>2. /\ fase = "menu" /\ menu = "escoge_backup" /\ b \in hay
      /\ UNCHANGED <<medio, modo, disco, genmbr, restmbr, fase, ruta, codigo, sesion,
                     cancelado, confirmado, rechazado, hecho, restmbr_de>>
      /\ sin_deshacer' \in BOOLEAN
  BY DEF Elige_copia, En, IInv, TypeOK
<1>3. r.tabla \in Tablas /\ b # ""
  BY <1>2, Backup_okTipo DEF IInv, Marcado
<1>4. CASE Abre_copia(b, r, ok)
  <2>1. dirs' \subseteq Partes /\ gen' = {} /\ rest' = {}
    BY <1>4, DeEnPartes DEF Abre_copia, Update_metadata
  <2>2. /\ menu' \in {"escoge_backup", "escoge_etiqueta", "escoge_particion"}
        /\ origen' \in {"backup", "generar", "auto"} /\ manual' \in BOOLEAN
    BY <1>4 DEF IInv, TypeOK, Abre_copia
  <2>3. imagenes' = b /\ eliminado' = FALSE /\ UNCHANGED copias
    BY <1>4 DEF Abre_copia
  <2>4. TypeOK'
    BY <1>1, <1>2, <1>3, <2>1, <2>2, <2>3 DEF IInv, TypeOK
  <2>5. Marcado'
    BY <1>1, <1>2, <1>3, <1>4 DEF IInv, Marcado, Abierta, Abre_copia, Update_metadata
  <2> QED
    BY <1>2, <2>4, <2>5, FueraDeFin
<1>5. CASE Copia_inservible(b, r)
  <2>1. hay' \subseteq hay /\ copia' \in [Nombres -> Copia]
    BY <1>5, BorraTipo DEF IInv, TypeOK, Copia_inservible
  <2>2. gen' \subseteq gen /\ rest' \subseteq rest
    BY <1>5 DEF Copia_inservible, Sin_marcas
  <2>3. TypeOK'
    BY <1>1, <1>2, <1>3, <1>5, <2>1, <2>2 DEF IInv, TypeOK, Copia_inservible
  <2>4. Marcado'
    BY <1>2, <1>5, <2>1, <2>2 DEF IInv, Marcado, Abierta, Copia_inservible
  <2> QED
    BY <1>2, <2>3, <2>4, FueraDeFin
<1> QED
  BY <1>1, <1>4, <1>5
\* What Vuelve leaves: the menu of backups with nothing marked for another one,
\* or the menu of labels as it was.
LEMMA VuelveDeja ==
  ASSUME TypeOK, Vuelve, UNCHANGED disco
  PROVE  /\ imagenes' \in {"", imagenes} /\ tabla' \in Tablas /\ ruta' \in 0..MaxRuta
         /\ dirs' \subseteq Partes /\ gen' \subseteq gen \cap dirs' /\ rest' \subseteq rest \cap dirs'
         /\ menu' \in {"escoge_backup", "escoge_etiqueta"} /\ sin_deshacer' \in BOOLEAN
         /\ menu' = "escoge_etiqueta" => UNCHANGED <<imagenes, tabla, dirs, gen, rest>>
<1>1. CASE origen = "auto"
  BY <1>1, Naturales DEF Vuelve, TypeOK
<1>2. CASE origen # "auto" /\ manual /\ menu = "escoge_particion"
  BY <1>2 DEF Vuelve, TypeOK
<1>3. CASE origen = "generar" /\ ~(manual /\ menu = "escoge_particion")
  BY <1>3 DEF Vuelve, TypeOK, Sin_marcas
<1>4. CASE origen \notin {"auto", "generar"} /\ ~(manual /\ menu = "escoge_particion")
  BY <1>4, DeEnPartes DEF Vuelve, TypeOK, Update_metadata
<1> QED
  BY <1>1, <1>2, <1>3, <1>4

LEMMA AtrasInv == ASSUME IInv, Atras PROVE IInv'
<1>1. /\ fase = "menu" /\ Abierta
      /\ UNCHANGED <<medio, modo, disco, genmbr, restmbr, copias, fase, origen, manual, codigo, sesion,
                     cancelado, confirmado, eliminado, rechazado, hecho, restmbr_de>>
  BY DEF Atras, En, Abierta
<1>2. /\ imagenes' \in {"", imagenes} /\ tabla' \in Tablas /\ ruta' \in 0..MaxRuta
      /\ dirs' \subseteq Partes /\ gen' \subseteq gen \cap dirs' /\ rest' \subseteq rest \cap dirs'
      /\ menu' \in {"escoge_backup", "escoge_etiqueta"} /\ sin_deshacer' \in BOOLEAN
      /\ menu' = "escoge_etiqueta" => UNCHANGED <<imagenes, tabla, dirs, gen, rest>>
  BY VuelveDeja DEF IInv, Atras
<1>3. TypeOK'
  <2>1. imagenes' \in Nombres
    BY <1>2 DEF IInv, TypeOK, Nombres
  <2> QED
    BY <1>1, <1>2, <2>1 DEF IInv, TypeOK
<1>4. Marcado'
  <2>1. CASE menu' = "escoge_backup"
    BY <1>1, <1>2, <2>1 DEF IInv, Marcado, Abierta
  <2>2. CASE menu' = "escoge_etiqueta"
    BY <1>1, <1>2, <2>2 DEF IInv, Marcado, Abierta
  <2> QED
    BY <1>2, <2>1, <2>2
<1> QED
  BY <1>1, <1>3, <1>4, FueraDeFin

LEMMA EliminarInv == ASSUME IInv, Eliminar PROVE IInv'
<1>1. /\ fase = "menu" /\ Abierta /\ Borra(imagenes) /\ eliminado' = TRUE
      /\ UNCHANGED <<medio, modo, disco, genmbr, restmbr, fase, origen, manual, codigo, sesion,
                     cancelado, confirmado, rechazado, hecho, restmbr_de>>
  BY DEF Eliminar, En, Abierta
<1>2. /\ imagenes' \in {"", imagenes} /\ tabla' \in Tablas /\ ruta' \in 0..MaxRuta
      /\ dirs' \subseteq Partes /\ gen' \subseteq gen \cap dirs' /\ rest' \subseteq rest \cap dirs'
      /\ menu' \in {"escoge_backup", "escoge_etiqueta"} /\ sin_deshacer' \in BOOLEAN
      /\ menu' = "escoge_etiqueta" => UNCHANGED <<imagenes, tabla, dirs, gen, rest>>
  BY VuelveDeja DEF IInv, Eliminar
<1>3. hay' \subseteq hay /\ copia' \in [Nombres -> Copia]
  BY <1>1, BorraTipo DEF IInv, TypeOK
<1>4. TypeOK'
  <2>1. imagenes' \in Nombres
    BY <1>2 DEF IInv, TypeOK, Nombres
  <2> QED
    BY <1>1, <1>2, <1>3, <2>1 DEF IInv, TypeOK
<1>5. Marcado'
  <2>1. CASE menu' = "escoge_backup"
    BY <1>1, <1>2, <1>3, <2>1 DEF IInv, Marcado, Abierta
  <2>2. CASE menu' = "escoge_etiqueta"
    BY <1>1, <1>2, <1>3, <2>2 DEF IInv, Marcado, Abierta
  <2> QED
    BY <1>2, <2>1, <2>2
<1> QED
  BY <1>1, <1>4, <1>5, FueraDeFin

LEMMA PartedInv == ASSUME IInv, Parted PROVE IInv'
<1> USE DEF Parted, Abort
<1>1. disco' \in Tablas
  <2>1. copia[imagenes].pt \in Tablas /\ disco \in Tablas
    BY CopiaCampos DEF IInv, TypeOK
  <2> QED
    BY <2>1 DEF Tablas
<1>2. TypeOK'
  BY <1>1 DEF IInv, TypeOK
<1>3. Marcado'
  BY DEF IInv, Marcado, Abierta
<1>4. Escrita'
  <2>1. SUFFICES ASSUME fase' = "mbr", NEW p \in rest
                 PROVE  disco'[p[1]] = copia[imagenes].pt[p[1]]
    BY DEF Escrita
  <2>2. p[1] \in Con_rest /\ p[1] \in Devs
    BY DEF Con_rest, IInv, TypeOK, Partes
  <2> QED
    BY <2>1, <2>2
<1>5. Confirmed'
  BY DEF IInv, Confirmed
<1>6. MarksSound' /\ RestoresOnItsTable'
  BY DEF MarksSound, RestoresOnItsTable
<1> QED
  BY <1>2, <1>3, <1>4, <1>5, <1>6 DEF IInv

\* 35mbr: what it leaves in the backup and on the disks.
Mbr_falta == {d \in restmbr : copia[imagenes].mbr[d] = {}}
Mbr_llega == {d \in Devs : \A k \in Mbr_falta : d < k}
Mbr_c0 == Con_dispositivos(copia[imagenes], genmbr \cap Mbr_llega)
Mbr_c1 == [Mbr_c0 EXCEPT !.mbr = [d \in Devs |-> IF d \in genmbr \cap Mbr_llega THEN disco[d] ELSE @[d]]]

LEMMA MbrHace ==
  ASSUME IInv, Mbr
  PROVE  /\ fase = "mbr" /\ Mbr_c1 \in Copia
         /\ copia' = [copia EXCEPT ![imagenes] = Mbr_c1]
         /\ hay' = hay \cup (IF genmbr \cap Mbr_llega = {} THEN {} ELSE {imagenes} \ {""})
         /\ disco' = [d \in Devs |-> IF d \in (restmbr \cup Con_rest) \cap Mbr_llega /\ Mbr_c1.mbr[d] # {}
                                    THEN Mbr_c1.mbr[d] ELSE disco[d]]
         /\ IF Mbr_falta = {} THEN fase' = "filesystems" /\ UNCHANGED codigo ELSE Abort(1)
         /\ UNCHANGED <<debconf, tabla, dirs, marcas, menus, sesion, historia>>
<1>1. Mbr_c0 \in Copia /\ disco \in Tablas
  BY Con_dispositivosTipo DEF IInv, TypeOK, Mbr_c0
<1> DEFINE mbr == [d \in Devs |-> IF d \in genmbr \cap Mbr_llega THEN disco[d] ELSE Mbr_c0.mbr[d]]
<1>2. mbr \in Tablas
  BY <1>1, CopiaCampos DEF Tablas
<1>3. Mbr_c1 = [Mbr_c0 EXCEPT !.mbr = mbr]
  BY DEF Mbr_c1
<1>4. Mbr_c1 \in Copia
  <2> HIDE DEF mbr
  <2> QED
    BY <1>1, <1>2, <1>3 DEF Copia
<1> QED
  BY <1>4, Zenon DEF Mbr, Mbr_c1, Mbr_c0, Mbr_llega, Mbr_falta

LEMMA MbrInv == ASSUME IInv, Mbr PROVE IInv'
<1>1. /\ fase = "mbr" /\ Mbr_c1 \in Copia
      /\ copia' = [copia EXCEPT ![imagenes] = Mbr_c1]
      /\ hay' = hay \cup (IF genmbr \cap Mbr_llega = {} THEN {} ELSE {imagenes} \ {""})
      /\ disco' = [d \in Devs |-> IF d \in (restmbr \cup Con_rest) \cap Mbr_llega /\ Mbr_c1.mbr[d] # {}
                                 THEN Mbr_c1.mbr[d] ELSE disco[d]]
      /\ IF Mbr_falta = {} THEN fase' = "filesystems" /\ UNCHANGED codigo ELSE Abort(1)
      /\ UNCHANGED <<debconf, tabla, dirs, marcas, menus, sesion, historia>>
  BY MbrHace, Zenon
<1>2. disco' \in Tablas
  <2>1. Mbr_c1.mbr \in Tablas /\ disco \in Tablas
    BY <1>1, CopiaCampos DEF IInv, TypeOK
  <2> QED
    BY <1>1, <2>1 DEF Tablas
<1>3. fase' \in {"filesystems", "fin"} /\ codigo' \in Nat
  <2>1. CASE fase' = "filesystems" /\ UNCHANGED codigo
    BY <2>1 DEF IInv, TypeOK
  <2>2. CASE fase' = "fin" /\ codigo' = 1
    BY <2>2
  <2> QED
    BY <1>1, <2>1, <2>2, Zenon DEF Abort
<1>4. copia' \in [Nombres -> Copia] /\ hay' \subseteq Nombres /\ "" \notin hay'
  BY <1>1 DEF IInv, TypeOK, Marcado
<1>5. TypeOK'
  <2>1. /\ UNCHANGED <<medio, modo, imagenes, tabla, dirs, gen, rest, genmbr, restmbr, menu, ruta,
                        origen, manual, sesion>>
        /\ UNCHANGED <<cancelado, confirmado, eliminado, rechazado, hecho, restmbr_de, sin_deshacer>>
    BY <1>1
  <2>2. TypeOK
    BY DEF IInv
  <2>3. /\ dirs' \subseteq Partes /\ gen' \subseteq dirs' /\ rest' \subseteq dirs'
        /\ menu' \in {"escoge_backup", "escoge_etiqueta", "escoge_particion"}
        /\ ruta' \in 0..MaxRuta /\ origen' \in {"backup", "generar", "auto"} /\ manual' \in BOOLEAN
        /\ restmbr_de' \in [Devs -> Nombres]
    BY <2>1, <2>2 DEF TypeOK
  <2>4. /\ medio' \in Medios /\ modo' \in Modos /\ imagenes' \in Nombres /\ tabla' \in Tablas
        /\ genmbr' \subseteq Devs /\ restmbr' \subseteq Devs /\ sesion' \in 1..MaxSesiones
        /\ cancelado' \in BOOLEAN /\ confirmado' \in BOOLEAN /\ eliminado' \in BOOLEAN
        /\ rechazado' \in BOOLEAN /\ hecho' \in BOOLEAN /\ sin_deshacer' \in BOOLEAN
    BY <2>1, <2>2 DEF TypeOK
  <2> QED
    BY <1>2, <1>3, <1>4, <2>3, <2>4 DEF TypeOK
<1>6. Marcado'
  BY <1>1, <1>3, <1>4 DEF IInv, Marcado, Abierta
<1>7. RestoresOnItsTable'
  <2>1. SUFFICES ASSUME fase' = "filesystems", NEW p \in rest,
                        copia'[imagenes].mbr[p[1]] \in {{}, copia'[imagenes].pt[p[1]]}
                 PROVE  disco'[p[1]] = copia'[imagenes].pt[p[1]]
    BY <1>1 DEF RestoresOnItsTable
  <2> DEFINE d == p[1]
  <2>2. d \in Devs /\ d \in Con_rest /\ disco[d] = copia[imagenes].pt[d]
    BY <1>1 DEF IInv, TypeOK, Partes, Con_rest, Escrita
  <2>3. Mbr_llega = Devs
    <3>1. Mbr_falta = {}
      BY <1>1, <2>1 DEF Abort
    <3> QED
      BY <3>1 DEF Mbr_llega
  <2>4. copia'[imagenes] = Mbr_c1
    BY <1>1 DEF IInv, TypeOK
  <2>5. disco'[d] = IF Mbr_c1.mbr[d] # {} THEN Mbr_c1.mbr[d] ELSE disco[d]
    BY <1>1, <2>2, <2>3
  <2>6. Mbr_c1.pt[d] = disco[d]
    <3>1. copia[imagenes] \in Copia
      BY DEF IInv, TypeOK
    <3>2. Mbr_c0.pt[d] = disco[d]
      BY <2>2, <3>1 DEF Mbr_c0, Con_dispositivos, Copia
    <3>3. Mbr_c1.pt = Mbr_c0.pt
      <4>1. Mbr_c0 \in Copia
        BY <3>1, Con_dispositivosTipo DEF Mbr_c0, IInv, TypeOK
      <4> QED
        BY <4>1 DEF Mbr_c1, Copia
    <3> QED
      BY <3>2, <3>3
  <2> HIDE DEF d
  <2>7. Mbr_c1.mbr[d] \in {{}, Mbr_c1.pt[d]}
    BY <2>1, <2>4 DEF d
  <2> QED
    BY <2>4, <2>5, <2>6, <2>7 DEF d
<1>8. Confirmed'
  BY <1>1, <1>3 DEF IInv, Confirmed
<1>9. MarksSound' /\ Escrita'
  BY <1>3 DEF MarksSound, Escrita
<1> QED
  BY <1>5, <1>6, <1>7, <1>8, <1>9 DEF IInv

LEMMA FilesystemsInv == ASSUME IInv, Filesystems PROVE IInv'
<1>1. PICK hechas \in SUBSET gen, c \in {0, 1} :
         /\ copia' = [copia EXCEPT ![imagenes] = Con_imagenes(@, hechas)]
         /\ hay' = hay \cup (IF hechas = {} THEN {} ELSE {imagenes} \ {""})
         /\ Abort(c) /\ hecho' = (c = 0)
  BY Zenon DEF Filesystems
<1>2. /\ fase' = "fin"
      /\ UNCHANGED <<debconf, tablas, marcas, menus, sesion, cancelado, confirmado, eliminado,
                     rechazado, restmbr_de, sin_deshacer>>
  BY <1>1 DEF Filesystems, Abort
<1>3. copia' \in [Nombres -> Copia]
  <2>1. copia \in [Nombres -> Copia] /\ copia[imagenes] \in Copia /\ gen \subseteq Partes
    BY DEF IInv, TypeOK
  <2>2. Con_imagenes(copia[imagenes], hechas) \in Copia
    BY <2>1, Con_imagenesTipo DEF IInv, TypeOK
  <2> QED
    BY <1>1, <2>1, <2>2
<1>4. hay' \subseteq Nombres /\ "" \notin hay'
  BY <1>1 DEF IInv, TypeOK, Marcado
<1>5. codigo' \in Nat /\ hecho' \in BOOLEAN
  <2>1. codigo' = c /\ hecho' = (c = 0)
    BY <1>1, Zenon DEF Abort
  <2> QED
    BY <2>1
<1>6. TypeOK'
  BY <1>2, <1>3, <1>4, <1>5 DEF IInv, TypeOK
<1>7. Marcado'
  BY <1>2, <1>4 DEF IInv, Marcado, Abierta
<1> QED
  BY <1>2, <1>6, <1>7, FueraDeFin

LEMMA Otra_sesionInv == ASSUME IInv, Otra_sesion PROVE IInv'
<1> USE DEF Otra_sesion
<1>1. disco' \in Tablas /\ tabla' \in Tablas /\ modo' \in Modos
  BY ConstantesAssumption DEF IInv, TypeOK
<1>2. copia' \in [Nombres -> Copia]
  BY VaciaTipo DEF IInv, TypeOK
<1>3. sesion' \in 1..MaxSesiones /\ ruta' \in 0..MaxRuta
  <2>1. sesion \in 1..MaxSesiones
    BY DEF IInv, TypeOK
  <2>2. sesion' = sesion + 1 /\ sesion < MaxSesiones /\ ruta' = 0
    OBVIOUS
  <2> HIDE DEF Otra_sesion
  <2> QED
    BY <2>1, <2>2, Naturales
<1>4. restmbr_de' \in [Devs -> Nombres]
  BY DEF Nombres
<1>5. TypeOK'
  BY <1>1, <1>2, <1>3, <1>4 DEF IInv, TypeOK, Nombres
<1>6. Marcado'
  BY DEF IInv, Marcado, Abierta
<1> QED
  BY <1>5, <1>6, FueraDeFin

LEMMA InitIInv == Init => IInv
<1> SUFFICES ASSUME Init PROVE IInv
  OBVIOUS
<1> USE DEF Init
<1>1. disco \in Tablas /\ tabla \in Tablas
  BY ConstantesAssumption
<1>2. copia \in [Nombres -> Copia]
  <2>1. \A b \in DOMAIN Copias : Copias[b] \in Copia
    BY ConstantesAssumption
  <2> QED
    BY <2>1, VaciaTipo
<1>3. ruta \in 0..MaxRuta /\ sesion \in 1..MaxSesiones
  <2>1. ruta = 0 /\ sesion = 1
    OBVIOUS
  <2> HIDE DEF Init
  <2> QED
    BY <2>1, Naturales
<1>4. TypeOK
  BY <1>1, <1>2, <1>3 DEF TypeOK, Nombres
<1>5. Marcado
  BY ConstantesAssumption DEF Marcado, Abierta
<1> QED
  BY <1>4, <1>5 DEF IInv, MarksSound, Confirmed, Escrita, RestoresOnItsTable

LEMMA StepIInv == IInv /\ [Next]_vars => IInv'
<1> SUFFICES ASSUME IInv, [Next]_vars PROVE IInv'
  OBVIOUS
<1>1. CASE Inicio
  BY <1>1, InicioInv
<1>2. CASE Configura
  BY <1>2, Configura_nadaInv, Configura_genInv, Configura_rechazoInv, Configura_restInv,
     Configura_sin_copiaInv DEF Configura
<1>3. CASE Menus
  BY <1>3, Entra_directorioInv, Sale_directorioInv, GenerarInv, Elige_copiaInv, AccionInv,
     Accion_mbrInv, Marcar_todoInv, FinishInv, AtrasInv, EliminarInv, EtiquetaInv,
     Etiqueta_todoInv, Seleccion_manualInv DEF Menus
<1>4. CASE Parted \/ Mbr \/ Filesystems
  BY <1>4, PartedInv, MbrInv, FilesystemsInv
<1>5. CASE Otra_sesion
  BY <1>5, Otra_sesionInv
<1>6. CASE UNCHANGED vars
  <2>1. TypeOK'
    BY <1>6 DEF vars, IInv, TypeOK
  <2>2. Marcado'
    BY <1>6 DEF vars, IInv, Marcado, Abierta
  <2>3. MarksSound' /\ Confirmed'
    BY <1>6 DEF vars, IInv, MarksSound, Confirmed
  <2>4. Escrita' /\ RestoresOnItsTable'
    BY <1>6 DEF vars, IInv, Escrita, RestoresOnItsTable
  <2> QED
    BY <2>1, <2>2, <2>3, <2>4 DEF IInv
<1> QED
  BY <1>1, <1>2, <1>3, <1>4, <1>5, <1>6 DEF Next, Terminado

\* IInv holds of every session, whatever the user does and whatever the sessions
\* before it left on the disks and in the backups.
THEOREM Invariance == Spec => []IInv
<1> QED
  BY InitIInv, StepIInv, PTL DEF Spec

\* Every file of the session holds a value its readers expect; above all, the
\* marks gen and rest are in directories that exist.
THEOREM TypeCorrect == Spec => []TypeOK
<1>1. IInv => TypeOK
  BY DEF IInv
<1> QED
  BY <1>1, Invariance, PTL

\* In the menus that mark, $DEVICES has a directory for exactly the partitions of
\* the table that backup_ok or update_metadata left in parted_server.
THEOREM DirsAreTheTable == Spec => []DirsMatchTable
<1>1. IInv => DirsMatchTable
  BY DEF IInv, Marcado, Abierta, DirsMatchTable, En
<1> QED
  BY <1>1, Invariance, PTL

\* When fin.d begins, nothing is marked both gen and rest, what is marked rest has
\* its image in backharddi/imagenes, and something marked gen has somewhere to go.
THEOREM MarksAreSound == Spec => []MarksSound
<1>1. IInv => MarksSound
  BY DEF IInv
<1> QED
  BY <1>1, Invariance, PTL

\* Nothing is restored from a CD before the user was asked: by cdrom/alert in
\* auto/configura, or by the menu in which the marks were made.
THEOREM NothingUnconfirmed == Spec => []Confirmed
<1>1. IInv => Confirmed
  BY DEF IInv
<1> QED
  BY <1>1, Invariance, PTL

\* When fin.d/filesystems begins to restore, 30parted and 35mbr have left on the
\* disk the table the images were made under, whatever else 35mbr wrote.
THEOREM RestoredOnItsTable == Spec => []RestoresOnItsTable
<1>1. IInv => RestoresOnItsTable
  BY DEF IInv
<1> QED
  BY <1>1, Invariance, PTL

-----------------------------------------------------------------------------
(***************************************************************************)
(* GenRestorable                                                           *)
(***************************************************************************)

\* When backup_ok succeeds it has replaced the table of every device it could.
LEMMA Backup_okEntero ==
  ASSUME TypeOK, NEW b \in Nombres, NEW r \in Backup_ok(b), r.res = "ok", tabla = disco
  PROVE  \A d \in Caben(b) : r.tabla[d] = Tabla_de(b)[d]
<1>1. r.tabla = Con_pt(b, Antes(b, NDevs + 1))
  BY Backup_okTipo DEF Sigue
<1>2. \A d \in Devs : d < NDevs + 1
  BY Naturales DEF Devs
<1>3. \A d \in Caben(b) : d \in Antes(b, NDevs + 1) <=> copia[b].pt[d] # {}
  BY <1>2 DEF Caben, Antes
<1> QED
  BY <1>1, <1>3 DEF Con_pt, Tabla_de, Caben

LEMMA AusentesInit == Init => Ausentes_fuera
BY ConstantesAssumption DEF Init, Ausentes_fuera

\* A table of parted_server gives directories to devices of the machine only.
LEMMA DeAusentes ==
  ASSUME NEW t, \A d \in Ausentes : t[d] = {}
  PROVE  \A p \in De(t) : p[1] \notin Ausentes
BY DEF De

LEMMA Backup_okAusentes ==
  ASSUME TypeOK, Ausentes_fuera, NEW b \in Nombres, NEW r \in Backup_ok(b)
  PROVE  \A d \in Ausentes : r.tabla[d] = {}
<1>1. \A k, S : \A d \in Ausentes : S \cap Ausentes = {} => Con_pt(b, S)[d] = {}
  BY ConstantesAssumption DEF Con_pt, Ausentes_fuera
<1>2. \A k : Antes(b, k) \cap Ausentes = {}
  BY DEF Antes
<1>3. ASSUME NEW k \in Antes(b, NDevs + 1), NEW g \in SUBSET Geoms, r = Rehusa(b, k, g)
      PROVE  \A d \in Ausentes : r.tabla[d] = {}
  <2>1. k \notin Ausentes /\ r.tabla = [Con_pt(b, Antes(b, k)) EXCEPT ![k] = g]
    BY <1>2, <1>3 DEF Rehusa
  <2>2. \A d \in Ausentes : r.tabla[d] = Con_pt(b, Antes(b, k))[d]
    BY <2>1, ConstantesAssumption DEF Con_pt
  <2> QED
    BY <1>1, <1>2, <2>2
<1> QED
  BY <1>1, <1>2, <1>3, Backup_okCasos DEF Para, Sigue, Atras_en

LEMMA Update_metadataAusentes ==
  ASSUME NEW t, NEW ok, \A d \in Ausentes : t[d] = {}, Update_metadata(t, ok)
  PROVE  \A p \in dirs' : p[1] \notin Ausentes
BY DeAusentes DEF Update_metadata

LEMMA ConfiguraAusentes ==
  ASSUME IInv, Ausentes_fuera, Configura
  PROVE  Ausentes_fuera'
<1>1. CASE Configura_nada \/ Configura_rechazo \/ Configura_sin_copia
  BY <1>1 DEF Configura_nada, Configura_rechazo, Configura_sin_copia, Ausentes_fuera
<1>2. CASE Configura_gen
  BY <1>2 DEF Configura_gen, Generar_todo, Ausentes_fuera
<1>3. CASE Configura_rest
  <2> DEFINE Sigue_con(b, r) ==
               /\ tabla' = r.tabla
               /\ \/ Rest_todo(b, r) \/ Rest_etiquetas(b, r)
                  \/ Rest_sin_discos(r) \/ Rest_sin_metadatos(r)
  <2>1. PICK b \in hay : \E r \in Backup_ok(b) : Sigue_con(b, r)
    BY <1>3, Zenon DEF Configura_rest
  <2>2. PICK r \in Backup_ok(b) : Sigue_con(b, r)
    BY <2>1
  <2>3. disco' = disco
    BY <1>3 DEF Configura_rest
  <2>4. \A d \in Ausentes : r.tabla[d] = {}
    BY <2>2, Backup_okAusentes DEF IInv, TypeOK
  <2>5. UNCHANGED <<genmbr, restmbr>>
    BY <2>2 DEF Rest_todo, Restaurar_todo, Rest_etiquetas, Rest_sin_discos, Rest_sin_metadatos
  <2>6. dirs' = dirs \/ dirs' = {} \/ dirs' = De(r.tabla)
    BY <2>2 DEF Rest_todo, Rest_etiquetas, Rest_sin_discos, Rest_sin_metadatos, Update_metadata
  <2> QED
    BY <2>2, <2>3, <2>4, <2>5, <2>6, DeAusentes DEF Ausentes_fuera
<1> QED
  BY <1>1, <1>2, <1>3 DEF Configura

LEMMA VuelveAusentes ==
  ASSUME Ausentes_fuera, Vuelve, UNCHANGED <<disco, genmbr, restmbr>>
  PROVE  Ausentes_fuera'
<1>1. CASE UNCHANGED <<tabla, dirs>>
  BY <1>1 DEF Ausentes_fuera
<1>2. CASE \E ok \in Oks : tabla' = disco /\ Update_metadata(disco, ok)
  BY <1>2, Update_metadataAusentes DEF Ausentes_fuera
<1> QED
  BY <1>1, <1>2 DEF Vuelve

LEMMA MenusAusentes ==
  ASSUME IInv, Ausentes_fuera, Menus
  PROVE  Ausentes_fuera'
<1>1. CASE Entra_directorio \/ Sale_directorio \/ Marcar_todo \/ Finish \/ Seleccion_manual
  BY <1>1 DEF Entra_directorio, Sale_directorio, Marcar_todo, Generar_todo, Restaurar_todo, Finish,
              Seleccion_manual, Ausentes_fuera
<1>2. CASE Etiqueta \/ Etiqueta_todo \/ \E p \in Partes : Accion(p)
  BY <1>2 DEF Etiqueta, Etiqueta_todo, Generar_todo, Restaurar_todo, Accion, Ausentes_fuera
<1>3. CASE Generar
  BY <1>3, Update_metadataAusentes DEF Generar, Ausentes_fuera
<1>4. ASSUME NEW b \in Nombres, Elige_copia(b)
      PROVE  Ausentes_fuera'
  <2>1. PICK r \in Backup_ok(b), ok \in Oks :
           tabla' = r.tabla /\ (Abre_copia(b, r, ok) \/ Copia_inservible(b, r))
    BY <1>4 DEF Elige_copia
  <2>2. UNCHANGED <<disco, genmbr, restmbr>>
    BY <1>4 DEF Elige_copia
  <2>3. \A d \in Ausentes : r.tabla[d] = {}
    BY Backup_okAusentes DEF IInv
  <2>4. CASE Abre_copia(b, r, ok)
    BY <2>1, <2>2, <2>3, <2>4, Update_metadataAusentes DEF Abre_copia, Ausentes_fuera
  <2>5. CASE Copia_inservible(b, r)
    BY <2>1, <2>2, <2>3, <2>5 DEF Copia_inservible, Ausentes_fuera
  <2> QED
    BY <2>1, <2>4, <2>5
<1>5. ASSUME NEW d \in Devs, Accion_mbr(d)
      PROVE  Ausentes_fuera'
  BY <1>5 DEF Accion_mbr, Marca, Ausentes_fuera
<1>6. CASE Atras \/ Eliminar
  BY <1>6, VuelveAusentes DEF Atras, Eliminar
<1> QED
  BY <1>1, <1>2, <1>3, <1>4, <1>5, <1>6 DEF Menus

\* Only tables of devices that have a mark, or a partition with one, are written.
LEMMA FinAusentes ==
  ASSUME IInv, Ausentes_fuera, Parted \/ Mbr \/ Filesystems
  PROVE  Ausentes_fuera'
<1>1. Con_rest \cap Ausentes = {} /\ Ausentes \subseteq Devs
  <2>1. \A p \in rest : p[1] \notin Ausentes
    BY DEF Ausentes_fuera, IInv, TypeOK
  <2>2. \A d \in Con_rest : d \notin Ausentes
    BY <2>1 DEF Con_rest
  <2> QED
    BY <2>2, ConstantesAssumption
<1>2. UNCHANGED <<tabla, dirs, genmbr, restmbr>>
  BY DEF Parted, Mbr, Filesystems
<1>3. \A d \in Ausentes : disco'[d] = disco[d]
  <2>1. CASE Parted
    BY <1>1, <2>1 DEF Parted, Ausentes_fuera
  <2>2. CASE Mbr
    <3>1. disco' = [d \in Devs |-> IF d \in (restmbr \cup Con_rest) \cap Mbr_llega /\ Mbr_c1.mbr[d] # {}
                                   THEN Mbr_c1.mbr[d] ELSE disco[d]]
      BY <2>2, MbrHace, Zenon
    <3> QED
      BY <1>1, <3>1 DEF Ausentes_fuera
  <2>3. CASE Filesystems
    BY <2>3 DEF Filesystems
  <2> QED
    BY <2>1, <2>2, <2>3
<1> QED
  BY <1>2, <1>3 DEF Ausentes_fuera

LEMMA AusentesStep == ASSUME IInv, Ausentes_fuera, [Next]_vars PROVE Ausentes_fuera'
<1>1. CASE Inicio
  BY <1>1, Update_metadataAusentes DEF Inicio, Ausentes_fuera
<1>2. CASE Otra_sesion
  BY <1>2, ConstantesAssumption DEF Otra_sesion, Ausentes_fuera
<1>3. CASE UNCHANGED vars
  BY <1>3 DEF vars, Ausentes_fuera
<1> QED
  BY <1>1, <1>2, <1>3, ConfiguraAusentes, MenusAusentes, FinAusentes DEF Next, Terminado

LEMMA VaciaSana == \A q : Sana([Vacia EXCEPT !.prof = q]) /\ Sana(Vacia)
BY DEF Sana, Vacia

\* What is kept of the devices of a sound backup leaves it sound.
LEMMA Con_dispositivosSana ==
  ASSUME NEW c \in Copia, NEW S, disco \in Tablas, Sana(c), \A d \in Devs \cap S : disco[d] # {}
  PROVE  /\ Sana(Con_dispositivos(c, S))
         /\ \A d \in Devs \cap S : Con_dispositivos(c, S).pt[d] # {}
         /\ \A d \in Devs : Con_dispositivos(c, S).pt[d] =
                              IF d \in S /\ c.pt[d] = {} THEN disco[d] ELSE c.pt[d]
         /\ \A d \in Devs \ S : Con_dispositivos(c, S).mbr[d] = c.mbr[d]
         /\ Con_dispositivos(c, S).img = c.img /\ Con_dispositivos(c, S).grande = c.grande
<1> DEFINE c0 == Con_dispositivos(c, S)
<1>1. /\ c0.img = c.img /\ c0.grande = c.grande
      /\ \A d \in Devs : c0.pt[d] = IF d \in S /\ c.pt[d] = {} THEN disco[d] ELSE c.pt[d]
      /\ \A d \in Devs : c0.mbr[d] = IF d \in S /\ c.pt[d] = {} THEN disco[d] ELSE c.mbr[d]
  BY DEF Con_dispositivos, Copia
<1> HIDE DEF c0
<1>2. \A d \in Devs : c.pt[d] # {} => c0.pt[d] # {}
  BY <1>1
<1>3. \A p \in c.img : p[1] \in Devs
  BY DEF Copia, Partes
<1>4. Sana(c0)
  BY <1>1, <1>2, <1>3 DEF Sana
<1> QED
  BY <1>1, <1>4 DEF c0

LEMMA Entra_directorioG == ASSUME Con_tablas, IInv, IInv', GInv, Entra_directorio PROVE GInv'
BY DEF GInv, Rehecha, GenRestorable, Tabla_de, Caben, Abierta, Entra_directorio, En

LEMMA Sale_directorioG == ASSUME Con_tablas, IInv, IInv', GInv, Sale_directorio PROVE GInv'
BY DEF GInv, Rehecha, GenRestorable, Tabla_de, Caben, Abierta, Sale_directorio, En, Abort

LEMMA AccionG == ASSUME Con_tablas, IInv, IInv', GInv, NEW p \in Partes, Accion(p) PROVE GInv'
BY DEF GInv, Rehecha, GenRestorable, Tabla_de, Caben, Abierta, Accion, En

LEMMA Accion_mbrG == ASSUME Con_tablas, IInv, IInv', GInv, NEW d \in Devs, Accion_mbr(d) PROVE GInv'
BY DEF GInv, Rehecha, GenRestorable, Tabla_de, Caben, Abierta, Accion_mbr, En

LEMMA Marcar_todoG == ASSUME Con_tablas, IInv, IInv', GInv, Marcar_todo PROVE GInv'
BY DEF GInv, Rehecha, GenRestorable, Tabla_de, Caben, Abierta, Marcar_todo, En

LEMMA Seleccion_manualG == ASSUME Con_tablas, IInv, IInv', GInv, Seleccion_manual PROVE GInv'
BY DEF GInv, Rehecha, GenRestorable, Tabla_de, Caben, Abierta, Seleccion_manual, En

LEMMA Configura_nadaG == ASSUME Con_tablas, IInv, IInv', GInv, Configura_nada PROVE GInv'
BY DEF IInv, Marcado, GInv, Rehecha, GenRestorable, Tabla_de, Caben, Abierta, Configura_nada

LEMMA Configura_genG ==
  ASSUME Con_tablas, IInv, IInv', Ausentes_fuera, GInv, Configura_gen
  PROVE  GInv'
<1>1. PICK b \in Nombres, q \in 0..MaxRuta :
         /\ imagenes' = b /\ hay' = hay \cup ({b} \ {""})
         /\ copia' = IF b = "" THEN copia
                     ELSE [copia EXCEPT ![b] = Con_devices(@, IF b \in hay THEN @.prof ELSE q)]
  BY DEF Configura_gen, Nombres
<1>2. /\ fase = "auto" /\ fase' = "parted"
      /\ UNCHANGED <<disco, tabla, dirs, origen, eliminado, sin_deshacer>>
  BY DEF Configura_gen
<1>3. gen' \subseteq De(disco)
  BY <1>2 DEF GInv, Rehecha, IInv, TypeOK
<1>4. /\ copia \in [Nombres -> Copia] /\ disco \in Tablas /\ ~eliminado /\ copia[""] = Vacia
      /\ \A d \in Devs \ Ausentes : disco[d] # {}
      /\ \A n \in Nombres : Sana(copia[n])
  BY <1>2 DEF IInv, TypeOK, GInv, Rehecha
<1>5. /\ copia'[b] \in Copia /\ Sana(copia'[b])
      /\ \A d \in Devs \ Ausentes : copia'[b].pt[d] \in {{}, disco[d]}
  <2>1. CASE b = ""
    <3>1. copia'[b] = Vacia
      BY <1>1, <1>4, <2>1
    <3>2. Vacia \in Copia /\ Sana(Vacia)
      BY VaciaTipo, VaciaSana
    <3>3. \A d \in Devs : Vacia.pt[d] = {}
      BY DEF Vacia
    <3> QED
      BY <3>1, <3>2, <3>3
  <2>2. CASE b # ""
    <3>1. PICK p : copia'[b] = Con_devices(copia[b], p)
      BY <1>1, <1>4, <2>2
    <3> DEFINE c == copia[b]
    <3>2. c \in Copia /\ Sana(c)
      BY <1>4
    <3> HIDE DEF c
    <3>3. /\ Con_devices(c, p).img = c.img
          /\ Con_devices(c, p).pt = [d \in Devs |-> IF d \in Ausentes THEN c.pt[d] ELSE disco[d]]
          /\ Con_devices(c, p).mbr = [d \in Devs |-> IF d \in Ausentes THEN c.mbr[d] ELSE disco[d]]
      BY <3>2 DEF Con_devices, Copia
    <3>4. \A d \in Devs : c.pt[d] # {} => Con_devices(c, p).pt[d] # {}
      BY <1>4, <3>3
    <3>5. \A d \in Devs : Con_devices(c, p).mbr[d] # {} => Con_devices(c, p).pt[d] # {}
      BY <1>4, <3>2, <3>3 DEF Sana
    <3>6. Sana(Con_devices(c, p))
      BY <3>2, <3>3, <3>4, <3>5 DEF Sana, Copia, Partes
    <3> QED
      BY <3>1, <3>3, <3>6 DEF c, IInv, TypeOK
  <2> QED
    BY <2>1, <2>2
<1>6. \A n \in Nombres : Sana(copia'[n])
  BY <1>1, <1>4, <1>5
<1>7. Rehecha'
  <2>1. \A d \in Caben(imagenes)' : Tabla_de(imagenes)'[d] = disco[d]
    BY <1>1, <1>2, <1>5 DEF Tabla_de, Caben
  <2>2. ~sin_deshacer' => \A p \in gen' : p[1] \in Caben(imagenes)' =>
                                            p[2] \in Tabla_de(imagenes)'[p[1]]
    BY <1>2, <1>3, <2>1 DEF De
  <2> QED
    BY <1>2, <1>4, <1>6, <2>2 DEF Rehecha, Abierta
<1> QED
  BY <1>2, <1>7 DEF GInv, GenRestorable

LEMMA Configura_rechazoG == ASSUME Con_tablas, IInv, IInv', GInv, Configura_rechazo PROVE GInv'
<1>1. /\ fase = "auto" /\ fase' \in {"menu", "fin"}
      /\ UNCHANGED <<tablas, marcas, copias, menus, eliminado, sin_deshacer>>
  BY DEF Configura_rechazo, Abort
<1>2. menu = "escoge_backup" /\ gen = {}
  BY <1>1 DEF IInv, Marcado
<1> QED
  BY <1>1, <1>2 DEF GInv, Rehecha, GenRestorable, Abierta

LEMMA Configura_sin_copiaG == ASSUME Con_tablas, IInv, IInv', GInv, Configura_sin_copia PROVE GInv'
BY DEF IInv, Marcado, GInv, Rehecha, GenRestorable, Tabla_de, Caben, Abierta, Configura_sin_copia

LEMMA Configura_restG == ASSUME Con_tablas, IInv, IInv', GInv, Configura_rest PROVE GInv'
<1> DEFINE Sigue_con(b, r) ==
             /\ imagenes' = b /\ tabla' = r.tabla
             /\ sin_deshacer' = (r.res = "error" \/ tabla' # tabla)
             /\ \/ Rest_todo(b, r) \/ Rest_etiquetas(b, r)
                \/ Rest_sin_discos(r) \/ Rest_sin_metadatos(r)
<1>1. PICK b \in hay : \E r \in Backup_ok(b) : Sigue_con(b, r)
  BY Zenon DEF Configura_rest
<1>2. PICK r \in Backup_ok(b) : Sigue_con(b, r)
  BY <1>1
<1>3. fase = "auto" /\ UNCHANGED <<disco, copias, eliminado>>
  BY DEF Configura_rest
<1>4. /\ gen = {} /\ menu = "escoge_backup" /\ ~eliminado /\ ~sin_deshacer /\ tabla = disco
      /\ b \in Nombres /\ "" \notin hay
  BY <1>3 DEF IInv, TypeOK, Marcado, GInv, Rehecha
<1>5. tabla' = disco \/ sin_deshacer'
  BY <1>2, <1>4
<1>6. CASE Rest_todo(b, r)
  <2>1. gen' = {} /\ fase' = "parted"
    BY <1>4, <1>6 DEF Rest_todo, Restaurar_todo
  <2>2. Rehecha'
    BY <1>3, <1>4, <2>1 DEF GInv, Rehecha, Abierta
  <2> QED
    BY <2>1, <2>2 DEF GInv, GenRestorable
<1>7. CASE Rest_etiquetas(b, r)
  <2>1. fase' = "menu" /\ menu' = "escoge_etiqueta" /\ origen' = "auto" /\ r.res \in {"ok", "error"}
    BY <1>7 DEF Rest_etiquetas
  <2>2. ~sin_deshacer' => \A d \in Caben(b) : tabla'[d] = Tabla_de(b)[d]
    BY <1>2, <1>4, <2>1, Backup_okEntero DEF IInv
  <2>3. Tabla_de(imagenes)' = Tabla_de(b) /\ Caben(imagenes)' = Caben(b)
    BY <1>2, <1>3 DEF Tabla_de, Caben
  <2>4. Rehecha'
    BY <1>3, <1>4, <1>5, <2>1, <2>2, <2>3 DEF GInv, Rehecha, Abierta
  <2> QED
    BY <2>1, <2>4 DEF GInv, GenRestorable
<1>8. CASE Rest_sin_discos(r) \/ Rest_sin_metadatos(r)
  <2>1. fase' \in {"menu", "fin"} /\ UNCHANGED menus
    BY <1>8 DEF Rest_sin_discos, Rest_sin_metadatos, Abort
  <2>2. Rehecha'
    BY <1>3, <1>4, <1>5, <2>1 DEF GInv, Rehecha, Abierta
  <2> QED
    BY <2>1, <2>2 DEF GInv, GenRestorable
<1> QED
  BY <1>2, <1>6, <1>7, <1>8

LEMMA InicioG == ASSUME Con_tablas, IInv, IInv', GInv, Inicio PROVE GInv'
BY DEF GInv, Rehecha, GenRestorable, Tabla_de, Caben, Abierta, Inicio, Update_metadata, Abort

\* What can be marked gen is in the table the images will be made under.
LEMMA MarcadoEnTabla ==
  ASSUME IInv, GInv, Abierta, ~eliminado, ~sin_deshacer
  PROVE  \A p \in dirs : p[1] \in Caben(imagenes) => p[2] \in Tabla_de(imagenes)[p[1]]
BY DEF IInv, Marcado, GInv, Rehecha, De

LEMMA FinishG == ASSUME Con_tablas, IInv, IInv', GInv, Finish PROVE GInv'
<1> USE DEF Finish, En
<1>1. Abierta /\ gen \subseteq dirs
  BY DEF Abierta, IInv, TypeOK
<1>2. Rehecha'
  BY <1>1, MarcadoEnTabla DEF GInv, Rehecha, Tabla_de, Caben, Abierta
<1> QED
  BY <1>2 DEF GInv, GenRestorable

LEMMA EtiquetaG == ASSUME Con_tablas, IInv, IInv', GInv, Etiqueta PROVE GInv'
<1> USE DEF Etiqueta, En
<1>1. Abierta
  BY DEF Abierta
<1>2. gen' \subseteq dirs
  BY DEF IInv, TypeOK
<1>3. Rehecha'
  BY <1>1, <1>2, MarcadoEnTabla DEF GInv, Rehecha, Tabla_de, Caben, Abierta
<1> QED
  BY <1>3 DEF GInv, GenRestorable

LEMMA Etiqueta_todoG == ASSUME Con_tablas, IInv, IInv', GInv, Etiqueta_todo PROVE GInv'
<1> USE DEF Etiqueta_todo, En
<1>1. Abierta
  BY DEF Abierta
<1>2. gen' \subseteq dirs
  BY DEF IInv, TypeOK
<1>3. Rehecha'
  BY <1>1, <1>2, MarcadoEnTabla DEF GInv, Rehecha, Tabla_de, Caben, Abierta
<1> QED
  BY <1>3 DEF GInv, GenRestorable

LEMMA GenerarG == ASSUME Con_tablas, IInv, IInv', GInv, Generar PROVE GInv'
<1>1. /\ fase = "menu" /\ menu = "escoge_backup" /\ imagenes' = Nueva
      /\ copia' = [copia EXCEPT ![Nueva] = [Vacia EXCEPT !.prof = ruta]]
      /\ \/ menu' = "escoge_particion" /\ origen' = "generar" /\ manual' = FALSE
         \/ UNCHANGED menu
      /\ eliminado' = FALSE /\ UNCHANGED <<disco, tabla, fase, sin_deshacer>>
  BY DEF Generar, En
<1>2. copia \in [Nombres -> Copia] /\ Nueva \in Nombres /\ disco \in Tablas
  BY DEF IInv, TypeOK, Nombres
<1>3. tabla = disco \/ sin_deshacer
  BY <1>1 DEF GInv, Rehecha
<1>4. \A b \in Nombres : Sana(copia'[b])
  BY <1>1, <1>2, VaciaSana DEF GInv, Rehecha
<1>5. Tabla_de(imagenes)' = disco
  <2>1. \A d \in Devs : copia'[imagenes'].pt[d] = {}
    BY <1>1, <1>2 DEF Vacia
  <2> QED
    BY <1>1, <1>2, <2>1 DEF Tabla_de, Tablas
<1>6. Rehecha'
  BY <1>1, <1>3, <1>4, <1>5 DEF GInv, Rehecha, Abierta
<1> QED
  BY <1>1, <1>6 DEF GInv, GenRestorable

LEMMA BorraSana ==
  ASSUME TypeOK, NEW b \in Nombres, Borra(b), \A n \in Nombres : Sana(copia[n])
  PROVE  \A n \in Nombres : Sana(copia'[n])
BY VaciaSana DEF Borra, TypeOK

LEMMA Elige_copiaG ==
  ASSUME Con_tablas, IInv, IInv', GInv, NEW b \in Nombres, Elige_copia(b)
  PROVE  GInv'
<1>1. PICK r \in Backup_ok(b), ok \in Oks :
         tabla' = r.tabla /\ (Abre_copia(b, r, ok) \/ Copia_inservible(b, r))
  BY DEF Elige_copia
<1>2. /\ fase = "menu" /\ menu = "escoge_backup" /\ b \in hay
      /\ UNCHANGED <<disco, fase>>
      /\ sin_deshacer' = (sin_deshacer \/ (menu' = "escoge_backup" /\ tabla' # tabla))
  BY DEF Elige_copia, En
<1>3. tabla = disco \/ sin_deshacer
  BY <1>2 DEF GInv, Rehecha
<1>4. CASE Abre_copia(b, r, ok)
  <2>1. /\ imagenes' = b /\ eliminado' = FALSE /\ UNCHANGED copias
        /\ \/ menu' \in {"escoge_etiqueta", "escoge_particion"} /\ origen' = "backup"
           \/ menu' = "escoge_backup"
    BY <1>2, <1>4 DEF Abre_copia
  <2>2. ~sin_deshacer' => \A d \in Caben(b) : tabla'[d] = Tabla_de(b)[d]
    BY <1>1, <1>2, <1>3, <1>4, Backup_okEntero DEF IInv, Abre_copia
  <2>3. Tabla_de(imagenes)' = Tabla_de(b) /\ Caben(imagenes)' = Caben(b)
    BY <1>2, <2>1 DEF Tabla_de, Caben
  <2>4. menu' = "escoge_backup" => tabla' = disco \/ sin_deshacer'
    BY <1>2, <1>3
  <2>5. Rehecha'
    BY <1>2, <2>1, <2>2, <2>3, <2>4 DEF GInv, Rehecha, Abierta
  <2> QED
    BY <1>2, <2>5 DEF GInv, GenRestorable
<1>5. CASE Copia_inservible(b, r)
  <2>1. tabla' = disco \/ sin_deshacer'
    BY <1>2, <1>3, <1>5 DEF Copia_inservible
  <2>2. (\A n \in Nombres : Sana(copia'[n])) /\ hay' \subseteq hay
    BY <1>5, BorraSana, BorraTipo DEF IInv, GInv, Rehecha, Copia_inservible
  <2>3. UNCHANGED <<imagenes, menu, origen, manual, eliminado>>
    BY <1>5 DEF Copia_inservible
  <2>4. Rehecha'
    BY <1>2, <2>1, <2>2, <2>3 DEF GInv, Rehecha, Abierta
  <2> QED
    BY <1>2, <2>4 DEF GInv, GenRestorable
<1> QED
  BY <1>1, <1>4, <1>5

\* Leaving the menus leaves parted_server with the table of the disk, if it had
\* that one before.
LEMMA VuelveG ==
  ASSUME Con_tablas, IInv, GInv, Abierta, Vuelve, UNCHANGED <<disco, fase, origen, manual>>
  PROVE  /\ imagenes' \in {"", imagenes}
         /\ menu' = "escoge_backup" \/ origen # "backup" => tabla' = disco \/ sin_deshacer'
         /\ menu' # "escoge_backup" => menu' = "escoge_etiqueta" /\ origen # "generar"
                                        /\ UNCHANGED <<imagenes, tabla, sin_deshacer>>
<1>1. /\ origen # "backup" => tabla = disco \/ sin_deshacer
      /\ origen = "generar" => ~manual
  BY DEF GInv, Rehecha
<1>2. CASE origen = "auto"
  BY <1>1, <1>2 DEF Vuelve
<1>3. CASE origen # "auto" /\ manual /\ menu = "escoge_particion"
  BY <1>1, <1>3 DEF Vuelve
<1>4. CASE origen = "generar" /\ ~(manual /\ menu = "escoge_particion")
  BY <1>1, <1>4 DEF Vuelve
<1>5. CASE origen \notin {"auto", "generar"} /\ ~(manual /\ menu = "escoge_particion")
  BY <1>1, <1>5 DEF Vuelve
<1> QED
  BY <1>2, <1>3, <1>4, <1>5

LEMMA AtrasG == ASSUME Con_tablas, IInv, IInv', GInv, Atras PROVE GInv'
<1>1. /\ Abierta /\ Vuelve /\ fase = "menu"
      /\ UNCHANGED <<disco, copias, fase, origen, manual, eliminado>>
  BY DEF Atras, En, Abierta
<1>2. /\ imagenes' \in {"", imagenes}
      /\ menu' = "escoge_backup" \/ origen # "backup" => tabla' = disco \/ sin_deshacer'
      /\ menu' # "escoge_backup" => menu' = "escoge_etiqueta" /\ origen # "generar"
                                     /\ UNCHANGED <<imagenes, tabla, sin_deshacer>>
  BY <1>1, VuelveG
<1>3. "" \notin hay
  BY DEF IInv, Marcado
<1>4. CASE menu' = "escoge_backup"
  <2>1. Rehecha'
    BY <1>1, <1>2, <1>3, <1>4 DEF GInv, Rehecha, Abierta
  <2> QED
    BY <1>1, <2>1 DEF GInv, GenRestorable
<1>5. CASE menu' # "escoge_backup"
  <2>1. Tabla_de(imagenes)' = Tabla_de(imagenes) /\ Caben(imagenes)' = Caben(imagenes)
    BY <1>1, <1>2, <1>5 DEF Tabla_de, Caben
  <2>2. ~eliminado /\ ~sin_deshacer =>
          \A d \in Caben(imagenes) : tabla[d] = Tabla_de(imagenes)[d]
    BY <1>1 DEF GInv, Rehecha
  <2>3. (~eliminado /\ ~sin_deshacer =>
          \A d \in Caben(imagenes) : tabla[d] = Tabla_de(imagenes)[d])'
    BY <1>1, <1>2, <1>5, <2>1, <2>2
  <2>4. Rehecha'
    BY <1>1, <1>2, <1>3, <1>5, <2>3 DEF GInv, Rehecha, Abierta
  <2> QED
    BY <1>1, <2>4 DEF GInv, GenRestorable
<1> QED
  BY <1>4, <1>5

LEMMA EliminarG == ASSUME Con_tablas, IInv, IInv', GInv, Eliminar PROVE GInv'
<1>1. /\ Abierta /\ Vuelve /\ fase = "menu" /\ Borra(imagenes) /\ eliminado' = TRUE
      /\ UNCHANGED <<disco, fase, origen, manual>>
  BY DEF Eliminar, En, Abierta
<1>2. /\ imagenes' \in {"", imagenes}
      /\ menu' = "escoge_backup" \/ origen # "backup" => tabla' = disco \/ sin_deshacer'
      /\ menu' # "escoge_backup" => menu' = "escoge_etiqueta" /\ origen # "generar"
                                     /\ UNCHANGED <<imagenes, tabla, sin_deshacer>>
  BY <1>1, VuelveG
<1>3. imagenes' \notin hay'
  BY <1>1, <1>2 DEF IInv, Marcado, Borra
<1>4. \A n \in Nombres : Sana(copia'[n])
  BY <1>1, BorraSana DEF IInv, TypeOK, GInv, Rehecha
<1>5. Rehecha'
  BY <1>1, <1>2, <1>3, <1>4 DEF GInv, Rehecha, Abierta
<1> QED
  BY <1>1, <1>5 DEF GInv, GenRestorable

LEMMA PartedG == ASSUME Con_tablas, IInv, IInv', GInv, Parted PROVE GInv'
<1>1. /\ fase = "parted" /\ fase' \in {"mbr", "fin"}
      /\ UNCHANGED <<imagenes, tabla, gen, rest, copias, menus, eliminado, sin_deshacer>>
      /\ \A d \in Devs : disco'[d] \in {disco[d], copia[imagenes].pt[d]}
      /\ \A d \in Devs : disco'[d] # disco[d] => d \in Con_rest /\ imagenes \in hay
  <2>1. /\ UNCHANGED <<imagenes, tabla, gen, rest, copias, menus, eliminado, sin_deshacer>>
        /\ fase = "parted"
    BY DEF Parted
  <2>2. CASE /\ rest = {} \/ imagenes \in hay
             /\ disco' = [d \in Devs |-> IF d \in Con_rest THEN copia[imagenes].pt[d] ELSE disco[d]]
             /\ fase' = "mbr"
    <3>1. rest = {} => Con_rest = {}
      BY DEF Con_rest
    <3> QED
      BY <2>1, <2>2, <3>1
  <2>3. CASE /\ \E n \in Int :
                   disco' = IF imagenes \notin hay THEN disco
                            ELSE [d \in Devs |-> IF d \in Con_rest /\ d < n THEN copia[imagenes].pt[d]
                                                 ELSE disco[d]]
             /\ fase' = "fin"
    BY <2>1, <2>3
  <2>4. Con_rest \subseteq Int
    BY DEF Con_rest, IInv, TypeOK, Partes, Devs
  <2> QED
    BY <2>2, <2>3, <2>4, Zenon DEF Parted, Abort
<1>2. eliminado => imagenes \notin hay
  BY <1>1 DEF GInv, Rehecha
<1>3. \A d \in Devs : disco'[d] # disco[d] => ~eliminado /\ copia[imagenes].pt[d] # {}
  <2>1. SUFFICES ASSUME NEW d \in Devs, d \in Con_rest, ~eliminado
                 PROVE  copia[imagenes].pt[d] # {}
    BY <1>1, <1>2
  <2>2. PICK p \in rest : d = p[1]
    BY <2>1 DEF Con_rest
  <2>3. p \in copia[imagenes].img
    BY <1>1, <2>1 DEF IInv, MarksSound
  <2>4. Sana(copia[imagenes])
    BY DEF IInv, TypeOK, GInv, Rehecha
  <2> QED
    BY <2>2, <2>3, <2>4 DEF Sana
<1>4. \A d \in Devs \ Ausentes : disco'[d] # {}
  BY <1>1, <1>3 DEF GInv, Rehecha
<1>5. Tabla_de(imagenes)' = Tabla_de(imagenes) /\ Caben(imagenes)' = Caben(imagenes)
  BY <1>1, <1>3 DEF Tabla_de, Caben
<1>6. Rehecha'
  <2>1. ~eliminado /\ ~sin_deshacer =>
          \A p \in gen : p[1] \in Caben(imagenes) => p[2] \in Tabla_de(imagenes)[p[1]]
    BY <1>1 DEF GInv, Rehecha
  <2>2. (~eliminado /\ ~sin_deshacer =>
          \A p \in gen : p[1] \in Caben(imagenes) => p[2] \in Tabla_de(imagenes)[p[1]])'
    BY <1>1, <1>5, <2>1
  <2> QED
    BY <1>1, <1>4, <2>2 DEF GInv, Rehecha, Abierta
<1> QED
  BY <1>1, <1>6 DEF GInv, GenRestorable

LEMMA MbrG == ASSUME Con_tablas, IInv, IInv', Ausentes_fuera, GInv, Mbr PROVE GInv'
<1> DEFINE c == copia[imagenes]
           S == genmbr \cap Mbr_llega
<1>1. /\ fase = "mbr" /\ fase' \in {"filesystems", "fin"} /\ Mbr_c1 \in Copia
      /\ copia' = [copia EXCEPT ![imagenes] = Mbr_c1]
      /\ disco' = [d \in Devs |-> IF d \in (restmbr \cup Con_rest) \cap Mbr_llega /\ Mbr_c1.mbr[d] # {}
                                 THEN Mbr_c1.mbr[d] ELSE disco[d]]
      /\ fase' = "filesystems" => Mbr_falta = {}
      /\ UNCHANGED <<imagenes, tabla, gen, menus, eliminado, sin_deshacer>>
  BY MbrHace, Zenon DEF Abort, debconf, marcas, menus, historia
<1>2. /\ copia \in [Nombres -> Copia] /\ imagenes \in Nombres /\ c \in Copia /\ disco \in Tablas
      /\ \A d \in Devs \ Ausentes : disco[d] # {}
      /\ \A b \in Nombres : Sana(copia[b])
      /\ S \cap Ausentes = {} /\ \A p \in gen : p[1] \notin Ausentes
  BY DEF IInv, TypeOK, GInv, Rehecha, Ausentes_fuera
<1>3. /\ Sana(Mbr_c0) /\ Mbr_c0 \in Copia
      /\ \A d \in Devs \cap S : Mbr_c0.pt[d] # {}
      /\ \A d \in Devs : Mbr_c0.pt[d] = IF d \in S /\ c.pt[d] = {} THEN disco[d] ELSE c.pt[d]
      /\ \A d \in Devs \ S : Mbr_c0.mbr[d] = c.mbr[d]
      /\ Mbr_c0.img = c.img /\ Mbr_c0.grande = c.grande
  <2>1. Sana(c)
    BY <1>2
  <2> HIDE DEF c, S
  <2>2. Mbr_c0 = Con_dispositivos(c, S)
    BY DEF Mbr_c0, c, S
  <2>3. c \in Copia /\ disco \in Tablas /\ \A d \in Devs \cap S : disco[d] # {}
    BY <1>2
  <2>4. Con_dispositivos(c, S) \in Copia
    BY <2>3, Con_dispositivosTipo
  <2> QED
    BY <2>1, <2>2, <2>3, <2>4, Con_dispositivosSana
<1> HIDE DEF c, S
<1>4. /\ Mbr_c1.pt = Mbr_c0.pt /\ Mbr_c1.img = Mbr_c0.img /\ Mbr_c1.grande = Mbr_c0.grande
      /\ \A d \in Devs : Mbr_c1.mbr[d] = IF d \in S THEN disco[d] ELSE Mbr_c0.mbr[d]
  BY <1>3 DEF Mbr_c1, S, Copia
<1>5. Sana(Mbr_c1)
  BY <1>3, <1>4 DEF Sana
<1>6. (\A b \in Nombres : Sana(copia'[b])) /\ copia'[imagenes'] = Mbr_c1
  BY <1>1, <1>2, <1>5
<1>7. \A d \in Devs \ Ausentes : disco'[d] # {}
  BY <1>1, <1>2
<1>8. Rehecha'
  BY <1>1, <1>2, <1>6, <1>7 DEF Rehecha, Abierta
<1>9. GenRestorable'
  <2>1. SUFFICES ASSUME fase' = "filesystems", ~eliminado, ~sin_deshacer, NEW p \in gen,
                        p[1] \notin Mbr_c1.grande
                 PROVE  p[2] \in (IF Mbr_c1.pt[p[1]] = {} THEN disco'[p[1]] ELSE Mbr_c1.pt[p[1]])
    BY <1>1, <1>6 DEF GenRestorable
  <2> DEFINE d == p[1]
  <2>2. d \in Devs /\ p[2] \in (IF c.pt[d] = {} THEN disco[d] ELSE c.pt[d])
    <3>1. d \in Caben(imagenes)
      BY <1>2, <1>3, <1>4, <2>1 DEF Caben, c, IInv, TypeOK, Partes
    <3> QED
      BY <1>1, <2>1, <3>1 DEF GInv, Rehecha, Tabla_de, Caben, c
  <2>3. Mbr_llega = Devs
    BY <1>1, <2>1 DEF Mbr_llega
  <2> HIDE DEF d
  <2>4. CASE c.pt[d] # {}
    BY <1>3, <1>4, <2>2, <2>4 DEF d
  <2>5. CASE c.pt[d] = {} /\ d \in S
    BY <1>2, <1>3, <1>4, <2>2, <2>5 DEF d
  <2>6. CASE c.pt[d] = {} /\ d \notin S
    <3>1. c.mbr[d] = {}
      BY <1>2, <2>2, <2>6 DEF Sana, c
    <3>2. Mbr_c1.mbr[d] = {} /\ Mbr_c1.pt[d] = {}
      BY <1>3, <1>4, <2>2, <2>6, <3>1
    <3>3. disco'[d] = disco[d]
      BY <1>1, <2>2, <3>2
    <3> QED
      BY <2>2, <2>6, <3>2, <3>3 DEF d
  <2> QED
    BY <2>4, <2>5, <2>6
<1> QED
  BY <1>8, <1>9 DEF GInv

LEMMA FilesystemsG ==
  ASSUME Con_tablas, IInv, IInv', Ausentes_fuera, GInv, Filesystems
  PROVE  GInv'
<1>1. PICK hechas \in SUBSET gen :
         copia' = [copia EXCEPT ![imagenes] = Con_imagenes(@, hechas)]
  BY Zenon DEF Filesystems
<1>2. fase' = "fin" /\ UNCHANGED disco
  BY DEF Filesystems, Abort
<1>3. /\ copia \in [Nombres -> Copia] /\ imagenes \in Nombres /\ copia[imagenes] \in Copia
      /\ disco \in Tablas /\ gen \subseteq Partes
      /\ \A d \in Devs \ Ausentes : disco[d] # {}
      /\ \A b \in Nombres : Sana(copia[b])
      /\ \A p \in gen : p[1] \notin Ausentes
  BY DEF IInv, TypeOK, GInv, Rehecha, Ausentes_fuera
<1>4. Sana(Con_imagenes(copia[imagenes], hechas))
  <2> DEFINE c == copia[imagenes]
             S == {p[1] : p \in hechas}
             c0 == Con_dispositivos(c, S)
  <2>1. Sana(c0) /\ c0 \in Copia /\ \A d \in Devs \cap S : c0.pt[d] # {}
    <3>1. c \in Copia /\ Sana(c) /\ \A d \in Devs \cap S : disco[d] # {}
      BY <1>3
    <3> HIDE DEF c, S
    <3> QED
      BY <1>3, <3>1, Con_dispositivosSana, Con_dispositivosTipo
  <2>2. \A p \in hechas : p[1] \in Devs \cap S
    BY <1>3 DEF Partes
  <2>3. Con_imagenes(c, hechas) = [c0 EXCEPT !.img = c0.img \cup hechas]
    BY DEF Con_imagenes
  <2> HIDE DEF c0, S, c
  <2>4. LET c1 == [c0 EXCEPT !.img = c0.img \cup hechas]
        IN c1.img = c0.img \cup hechas /\ c1.pt = c0.pt /\ c1.mbr = c0.mbr
    BY <2>1 DEF Copia
  <2>5. Sana(Con_imagenes(c, hechas))
    BY <2>1, <2>2, <2>3, <2>4 DEF Sana
  <2> QED
    BY <2>5 DEF c
<1>5. \A b \in Nombres : Sana(copia'[b])
  BY <1>1, <1>3, <1>4
<1>6. Rehecha'
  BY <1>2, <1>3, <1>5 DEF Rehecha, Abierta
<1> QED
  BY <1>2, <1>6 DEF GInv, GenRestorable

LEMMA Otra_sesionG == ASSUME Con_tablas, IInv, IInv', GInv, Otra_sesion PROVE GInv'
<1>1. \A d \in Devs \ Ausentes : disco'[d] # {}
  BY DEF Otra_sesion, Con_tablas, GInv, Rehecha
<1>2. \A b \in Nombres : Sana(copia'[b])
  BY VaciaSana DEF Otra_sesion, IInv, TypeOK, GInv, Rehecha
<1>3. copia'[""] = Vacia
  BY DEF Otra_sesion, IInv, TypeOK, Nombres
<1>4. Rehecha'
  BY <1>1, <1>2, <1>3 DEF Rehecha, Abierta, Otra_sesion
<1> QED
  BY <1>4 DEF GInv, GenRestorable, Otra_sesion

LEMMA InitG == ASSUME Con_tablas, Init PROVE GInv
<1>1. \A d \in Devs \ Ausentes : disco[d] # {}
  BY DEF Init, Con_tablas
<1>2. \A b \in Nombres : Sana(copia[b])
  BY VaciaSana DEF Init, Con_tablas
<1>3. copia[""] = Vacia
  BY ConstantesAssumption DEF Init, Nombres
<1>4. Rehecha
  BY <1>1, <1>2, <1>3 DEF Rehecha, Abierta, Init
<1> QED
  BY <1>4 DEF GInv, GenRestorable, Init

LEMMA StepG == ASSUME Con_tablas, IInv, Ausentes_fuera, GInv, [Next]_vars PROVE GInv'
<1>1. IInv'
  BY StepIInv
<1>2. CASE Inicio
  BY <1>1, <1>2, InicioG
<1>3. CASE Configura
  BY <1>1, <1>3, Configura_nadaG, Configura_genG, Configura_rechazoG, Configura_restG,
     Configura_sin_copiaG DEF Configura
<1>4. CASE Menus
  BY <1>1, <1>4, Entra_directorioG, Sale_directorioG, GenerarG, Elige_copiaG, AccionG, Accion_mbrG,
     Marcar_todoG, FinishG, AtrasG, EliminarG, EtiquetaG, Etiqueta_todoG, Seleccion_manualG DEF Menus
<1>5. CASE Parted \/ Mbr \/ Filesystems
  BY <1>1, <1>5, PartedG, MbrG, FilesystemsG
<1>6. CASE Otra_sesion
  BY <1>1, <1>6, Otra_sesionG
<1>7. CASE UNCHANGED vars
  BY <1>7 DEF vars, GInv, Rehecha, GenRestorable, Tabla_de, Caben, Abierta
<1> QED
  BY <1>2, <1>3, <1>4, <1>5, <1>6, <1>7 DEF Next, Terminado

\* What was generated can be found again, attended or not: fin.d makes every image
\* under a geometry that the pt of its backup has, on the devices that are not too
\* small for it, as long as no backup_ok has left its tables behind.
THEOREM GenerationsRestorable == ASSUME Con_tablas PROVE Spec => []GenRestorable
<1>1. Init => GInv
  BY InitG
<1>2. IInv /\ Ausentes_fuera /\ GInv /\ [Next]_vars => GInv'
  BY StepG
<1>3. Init => Ausentes_fuera
  BY AusentesInit
<1>4. IInv /\ Ausentes_fuera /\ [Next]_vars => Ausentes_fuera'
  BY AusentesStep
<1>5. GInv => GenRestorable
  BY DEF GInv
<1> QED
  BY <1>1, <1>2, <1>3, <1>4, <1>5, Invariance, PTL DEF Spec
=============================================================================
