# A TLA+ model of Backharddi NG

Backharddi NG is a Debian-installer based system that boots a machine from a
CD, a disk or the network and generates or restores images of its partitions.
Nearly all of the repository is vendored (the installer, the kernel
configurations, partimage, partclone, ntfs tools, lzop, udpcast, openvpn, ...).
What is the project's own is the package
`src/udebs/addons/backharddi-ng-udeb/source`, called **B** below: some 2500
lines of shell that drive the rest, and a few small C programs (`dd_rescue`
among them). The model is about B, and about the two vendored programs whose
protocols B takes part in: the dialog of its scripts with `parted_server` over
named pipes (`src/udebs/d-i/partman/partman-base/source`), and udpcast
(`src/udebs/addons/udpcast/source`), through which the images of a net
restoration arrive.

## 1. The system

### 1.1 Components

| component | its state | its operations |
|---|---|---|
| `backharddi` (driver) | the phase; the pid file; debconf answers | runs `inicio.d/*`, then `auto/*`, then loops on the menus, then `fin.d/*`; turns exit statuses into its own |
| `definitions.sh` | `$DEVICES` (a directory per device, one per partition in it, marker files in those), `STOP_MONITOR`, `ERROR` | `update_metadata`, `backup_ok`, `restore_mbr`, `restore_metadata`, `error`, helpers |
| `auto/configura` | `backharddi/modo`, `medio`, `imagenes` | the unattended generation or restoration |
| `escoge_backup`, `escoge_dir` | the directory of backups that is shown | descend, go back, open a backup, begin a new one |
| `escoge_particion`, `particion_activa`, `dispositivo_activo` | marks `gen`, `rest` of partitions and `genmbr`, `restmbr` of devices | cycle a mark, mark all, remove the backup, finish |
| `escoge_etiqueta` | marks | by label, all, by hand |
| `fin.d/30parted` | the tables on the disks | writes the table of the backup to each device with something to be restored |
| `fin.d/35mbr` | the files `mbr`, `pt` of the backup; the sectors of the disks | keeps and writes back the MBR |
| `fin.d/50filesystems` | `img.*` of the backup; the partitions; the pipelines | generates and restores the images |
| `fin.d` 20umount, 32cmos, 40resize_parts, 55resize_filesystems, 60sti, 70postmaster | | single commands, and the resizing of partitions |
| `backharddi_do`, `backharddi-monitor` | a remote command of the server | kill and restart a session |
| `postinst` | where the backups are | finds the medium or the server; restarts `backharddi`; the final note |
| `dd_rescue` (C) | positions, `errs`, `errno`, the size of block it works with | `copyfile` at two levels, `readblock`, `writeblock`, `printstatus` |
| `parted_server` and the client half of `definitions.sh` (partman) | the pid file, `infifo`, `outfifo`, `stopfifo`, what each side has open | start, `open_dialog` ... `close_dialog`, exceptions, `stop_parted_server` |
| udpcast: `udp-sender`, `udp-receiver` | slices under way and who has them; the blocks of a receiver | send a slice, ask (REQACK), confirm (OK) or ask back (RETRANSMIT), repeat, drop |
| `stidump`, `cmospwd` (C) | | dump |

### 1.2 How they interact

The scripts share no memory. They talk through

* files: the marks below `$DEVICES`, the backup itself, and during
  `50filesystems` the two files `STOP_MONITOR` and `ERROR`;
* exit statuses: below 10, 10, below 100, 100, 255 all have a meaning that some
  caller gives them, and `sh -e` gives one to each command that is not tested;
* pipes: an image is generated by `monitor | gen_cmd | comprime | split` (or
  `nc`) and restored by `concatena | descomprime | rest_cmd`, where `concatena`
  runs `monitor | feed` inside, once for each volume on a CD;
* the FIFOs of `parted_server`, whose tables are neither those of the disks nor
  those the directories below `$DEVICES` were made from, until somebody makes
  them so; each script opens and shuts them anew;
* datagrams, between the server's `udp-sender` and the `udp-receiver` at the head
  of the pipeline of each machine that is restored.

### 1.3 What is hard

* The members of a pipeline run concurrently; any may fail at any time;
  `error()` tests and writes a file without a lock; the shell waits for all of
  them, but knows the exit status of the last only. A monitor that is not told
  to stop hangs everything, one that is told twice leaves `STOP_MONITOR` for
  the next pipeline.
* A cloner ends before its input does, and it kills its writers (SIGPIPE) if it
  goes early; the writer's error must not be one when the restoration was fine.
* The partition table exists four times (disk, `parted_server`, `$DEVICES`, and
  `pt`/`mbr` of each backup). Opening a backup replaces the one in
  `parted_server`, and every way back through the menus has to undo that.
* Marks outlive the menu they were made in.
* On a CD, the disc must be asked for by a number that nobody stored.
* `dd_rescue` calls itself with smaller blocks around a bad place, mixes what
  `errno` was left at with what it asks of it, and tells its caller no more than
  a number of errors modulo 256.
* The two sides of a dialog shut their pipes at different times, and a pipe
  somebody is late to close wakes up, or feeds, the next dialog. A server that
  dies leaves names that the next one finds.
* A datagram, a whole slice or the question for it may be lost; a late answer
  may meet a timeout; a receiver may die. With two slices under way the
  sender is ahead of the receivers it waits for.

### 1.4 What makes it correct

* `fin.d/filesystems`: a partition the script has gone past is complete, and so
  are all when it exits with 0; a failure is never lost, and stops the list; no
  file leaks from one pipeline to the next; a healthy run never fails; the
  script ends. As a whole: it is a sequential list of actions, `ActionList`.
* the session: the directories with the marks are the partitions of the table
  in `parted_server`; marks make sense for the open backup; images are
  restored on the table they belong to, generated under geometries that are
  found again; nothing is overwritten that was not asked for or confirmed; the
  message at the end is true.
* `dd_rescue`: its status tells the truth of what was read and accepted by the
  output, what can be read is rescued and is at its place, it ends. As a whole: a
  copy that counts an error before it passes what it has not copied, `Copy`.
* the dialog: one call at a time, executed at most once, answered with its own
  answer (`Calls`); between two calls the server is there and the pipes are
  empty; nobody waits for ever.
* udpcast: a reliable multicast, `Multicast`: a slice is left behind when every
  participant has it, and given to each receiver in order and whole; all end.
* `parted`'s mounts, resizing, the remote commands: section 8.

`PROJECT.json` lists all components, and the hazards at their lines with the
properties that are there for them.

## 2. Modules

| module | models |
|---|---|
| `Filesystems` | `fin.d/filesystems` and `error()`, media `hd-media` and `net`: script, pipelines, monitor |
| `FilesystemsCd` | the same on `cdrom`: extends `Filesystems` with the volume loop of `concatena` |
| `ActionList` | what `fin.d/filesystems` promises to the session (abstract) |
| `FilesystemsProofs` | inductive invariant of `Filesystems`, theorems and proofs |
| `FilesystemsCdProofs` | inductive invariants of `FilesystemsCd`, theorems and proofs |
| `Backharddi` | a session: driver, `configura`, menus, `fin.d` parted, mbr, filesystems (as `ActionList` has it) |
| `BackharddiProofs` | inductive invariants of `Backharddi`, theorems and proofs |
| `DdRescue` | `dd_rescue` as `gen_cmd` and `rest_cmd` call it |
| `Copy` | what a copying program promises to who looks at its status (abstract) |
| `DdRescueProofs` | inductive invariant of `DdRescue`, theorems and proofs |
| `Fifos` | named pipes: open, close, read, write, unlink |
| `PartedDialog` | scripts and `parted_server` over three such pipes: extends `Fifos` |
| `Calls` | what a dialog promises: calls, one at a time (abstract) |
| `PartedDialogProofs` | inductive invariant of `PartedDialog`, theorems and proofs |
| `Udpcast` | the transfer of `udp-sender` to its receivers over lossy channels |
| `Multicast` | what udpcast promises: a reliable multicast (abstract) |
| `UdpcastProofs` | inductive invariant of `Udpcast`, theorems and proofs |
| `UdpcastLossProofs` | an account of what the channels lose, and the theorem that rests on it |
| `MCFilesystemsCd`, `MCBackharddi`, `MCDdRescue`, `MCUdpcast` | values of constants for TLC |

`Filesystems` and `FilesystemsCd` are instances of the same pipeline; they
implement `ActionList` (property `ImplementsActionList`, an `INSTANCE` with a
refinement mapping), and `Backharddi` uses in its action `Filesystems` just what
`ActionList` says: the images marked `gen` are done one after the other, any
number of them before a failure, and all of them if the status is 0.
`DdRescue` is one of the cloners of `Filesystems` looked at from inside (there a
cloner only succeeds or fails, which `Copy` says of `dd_rescue`), `Udpcast` is
what feeds the pipelines of a net restoration, and `PartedDialog` is how every
command of `Backharddi` to `parted_server` travels. Each has an abstract
specification it is shown to implement, which is what the modules above it may
rely on. What no layer promises is that a disk keeps what it has been given: a
`weak` output of `DdRescue` does not, `Copy` leaves its places out, and "complete" in
`Filesystems` and below means that the cloner has delivered the image.

### 2.1 Filesystems

Data are counts of chunks: an image has `Size` of them, pipes hold `PipeCap`
and keep order, so a count tells which chunks have arrived.

| in the model | in the code |
|---|---|
| `accion`, `cloner`, `compresion`, `swap` | the marker files of a partition below `$DEVICES`, read, never written |
| `imagen`, `disco` | what `$imagenes/$id/img.*` and the block device hold |
| `fase`, `id`, `salida` | where the script is: between partitions, in a pipeline, or gone with a status |
| `stop`, `error` | files `STOP_MONITOR` and `ERROR` (0: none) |
| `st["mon"]`, `"con"`, `"src"`, `"mid"`, `"snk"` | monitor; `concatena`; `gen_cmd` or the feed; `comprime` or `descomprime`; `split`, `nc` or `rest_cmd` |
| `p1`, `p2` | the pipes before and after the middle stage |
| `ErrorStep(p)` | `error()` run by member p, in three steps: touch, test, write |
| `Gen_cmd`, `Concatena2`, `Udp_receiver`, `Concatena`, `Comprime`, `Sink`, `Rest_cmd`, `Monitor...` | the functions of the same name |
| `Skip`, `Swap`, `Prep_fails`, `Start_gen`, `Start_rest`, `Pipeline_done`, `Put_meta` | the two `for` loops and what follows them |
| `Falla(e)` | something the script calls fails; at most `MaxFallos` times |

Shell semantics that the model keeps: a pipeline ends when all members have; its
status is that of the last; `a && b`, `a || error N` per stage, and after
`error()` the stage continues where the function does (`Resume`); a writer
whose reader is gone is killed (SIGPIPE) and reports that as a failure; an input
is at its end when all its writers are gone, which for `concatena` includes the
monitor inside it (`Eof`). Outside the repository are the cloners and the
decompressors: a cloner knows how much there is to write and stops reading
then; an early end of input makes it fail, except that dd_rescue takes a short
input as the end; `lzop` and `lzma` notice a truncated stream and `cat` does not.

### 2.2 FilesystemsCd

The volumes of an image are on discs (`DiscoDe`, laid out in order from disc
1). `Busca` is the head of the loop over volumes, `Cambia_disco` the dialog and
the mount (the user may insert a wrong disc, or the mount may fail, `MaxErrores`
times), `Cat` the braces `{ cat ...; touch $STOP_MONITOR; }` under `sh -e`, so
that a failing `cat` skips the `touch`, and `Siguiente_volumen` the end of
`monitor | cat`. `num` is the file `cdnum`. `medio` is fixed to `cdrom` by
`InitCd`; the constant `Medios` belongs to `Filesystems`, has no role here and
is empty in the configurations. That the name of the last volume is known from
the backup is an external fact (`split` names them).

### 2.3 Backharddi

A partition is a device and a geometry, which is the name of its directory; a
table is the set of its geometries.

| in the model | in the code |
|---|---|
| `disco`, `tabla`, `dirs` | tables on the disks, in `parted_server`, and the directories below `$DEVICES` |
| `gen`, `rest`, `genmbr`, `restmbr` | the marker files of those names |
| `copia[b]` | backup b: `pt` and `mbr` per device, the devices whose `size` is more than that of the machine's (`grande`), partitions with an `img`, with a `label`, and its depth in the tree (what `backupdev` depends on) |
| `Ausentes` | devices that only backups have |
| `Update_metadata`, `Backup_ok`, `No_backharddi` | the functions of `definitions.sh`. `Backup_ok` returns all outcomes with the tables they leave in `parted_server`: to the end (`Sigue`), over missing devices and those too small; a refusal part way, which leaves any table on that device (`Rehusa`); and those in which the calling script ends (`Acaba`), at a device without the partition in use (`Para`) or when the user goes back at a missing one (`Atras_en`) |
| `Configura_*` | the branches of `auto/configura` |
| `Entra_directorio`, `Sale_directorio`, `Generar`, `Elige_copia`, `Accion`, `Accion_mbr`, `Marcar_todo`, `Finish`, `Atras`, `Eliminar`, `Etiqueta`, ... | the `do_option` scripts of the menus, each with the loop of the driver that it returns to |
| `Vuelve` | what the callers do when a menu is left: `restore_metadata` for an opened backup, nothing for a new one or after `configura` |
| `Parted`, `Mbr`, `Filesystems` | the three scripts of `fin.d` |
| `Otra_sesion` | `backharddi` is started again, perhaps after the disks were repartitioned |
| `cancelado`, `confirmado`, `eliminado`, `rechazado`, `hecho`, `restmbr_de`, `sin_deshacer` | history of what the user did, and of whether `backup_ok` has left tables of a backup that nothing takes back; read by properties only |

Left out, and why it does not matter to the properties: options whose text is
blank and that cannot be selected (`eliminar` on net and CD, `generar_todo` on
CD) are no actions; a label is a set of
partitions; CMOS, STI, resize, cloner and compression marks are data of other
scripts.

### 2.4 DdRescue

`dd_rescue path - -m size` generates and `dd_rescue - path -m size` restores. With
nothing but `-m`, input and output position and `xfer` are one number. Data are
units, of which a hard block has `HB` and a soft one `SB`.

| in the model | in the code |
|---|---|
| `i_chr`, `o_chr`, `len`, `olen`, `bad`, `flaky`, `weak`, `gone` | the media, chosen at the start: which side is a pipe, how long each is, the units that fail always or at times, places of the output that take what is written and do not keep it, an input device that disappears (at any step) |
| `bs`, `call`, `errs`, `herrs`, `new_max`, `old_xfer` | the two activations of `copyfile`: with soft blocks, and the call of itself with hard ones, from which of its two places (`"rest"`, `"small"`) |
| `readblock`, `writeblock`, `fsync` | the functions of these names, and the `fsync` inside `printstatus`: what they transfer and what they leave in `errno` |
| `EndOfFile`, `CopyBlock`, `FatalError`, `SkipBlock`, `FallBack` | one iteration of the loop of `copyfile`, by what was read and at which level |
| `EndOfSmall`, `StaySmall`, `Promote` | what follows the call with hard blocks |
| `xfer`, `sxfer`, `fxfer`, `nrerr`, `status` | the counters of the same names, and the exit status |
| `out`, `eaten` | pairs of a place and the unit `write` accepted for it; units taken out of a pipe |
| `kept` | what of `out` is in the output for good: what a `weak` place took is not, and the code, which ignores what `fsync` returns, never learns of it |

`errno` is kept across system calls as the code keeps it: `readblock` asks for
the rest of a short read only while it is 0, and the status line comes between
the failed read and the test for fatal errnos. `BrokenPipe` is SIGPIPE. Left out
are the options nobody gives (`-r`, `-a`, `-A`, `-e`, `-w`, `-s`, `-S`), signals,
the log and the report.

### 2.5 PartedDialog

Process 0 is whatever script runs (one at a time), the others are the servers
there have been. `Fifos` gives each name an inode with readers, writers and a
buffer of lines: `open` waits for the other end, a write without readers kills,
the end of the file is an empty pipe without writers, what is in a pipe is lost
when nobody has it open, and opening a missing name for writing makes a plain
file. A line is what it is (`cmd`, `choice`, `type`, `OK`, ...) and the call it
belongs to.

| in the model | in the code |
|---|---|
| `cpc`, `csync` | where the script is: `open_infifo`, `write_line`, `open_outfifo`, `error_handler`, `close_dialog` |
| `spc`, `ssync`, `cmd`, `excs`, `opened` | each server's `main_loop`, the call it executes, the exceptions it has raised, whether it has the device |
| `pidfile`, `Boot`, `Started`, `Stopped` | `/var/run/parted_server.pid`, the fork and the SIGUSR1 of the parent, `stop_parted_server` |
| `kind` | `OPEN`, a command with `error_handler`, or one with `open_dialog_with_no_error_handler` (as in `restore_mbr`) |
| `Raise`, `PutOptions`, `ReadChoice` | `pseudo_exception` and `exception_handler` |
| `ClientSync`, `ServerSync` | `close_fifos_and_synchronise` and its counterpart in the shell: five pairs of open and close, `stopfifo` in between |
| `CleanUp`, `Exit`, `Killed` | `cleanup_and_die` one `unlink` at a time; `critical_error`; SIGPIPE |
| `refused`, `overtaken` | history: the server that was left with an exception; a server was started before an earlier one had removed its pipes |
| `made`, `executed`, `answered` | history of calls, which `Calls` speaks of |

Commands are not told apart by what they do to a label. The model stops where
`overtaken` becomes true (a hazard of its own, `parted_server.c:2235`).

### 2.6 Udpcast

A channel in each direction between the sender and each receiver keeps its
order and may lose any message (`Broadcast`, `Reply`).

| in the model | in the code |
|---|---|
| `xmit`, `rexmit`, `sliceNo` | `xmitSlice`, `rexmitSlice` and the number of the next slice, in `netSenderMain`; fields as in `struct slice` (`ready`, `answered`, `rxmitMap`, `isXmitted`, `needRxmit`, `rxmitId`) |
| `stage` | where `netSenderMain`'s loop is: at its tests, in `doRetransmissions`, in `sendSlice`, ended |
| `sn` | `FLAG_SN`, full duplex: chosen at the start, as the link or the options decide |
| `AckSlice`, `Shift`, `HandleOk`, `HandleRetransmit`, `HandleDisconnect`, `Resend`, `AskAgain`, `SendBlock`, `AtEnd`, `Repeat`, `Drop` | the branches of that loop in their order; the messages it takes |
| `rx[r]` | `struct clientState`: `currentSliceNo`, `receivedSliceNo`, the slices whose size is known, the blocks, how it ended |
| `ReceiveData`, `ReceiveReqack`, `GiveUp`, `ExitWait`, `Quit` | `processDataBlock`, `processReqAck`, the exits in `findSlice` and `initSlice`, the wait after the last slice, a kill |
| `Late` | the test on `rxmit` in `handleRetransmit`, with the value in network order |
| `participants`, `faults` | `participantsDb`; one budget for losses, timeouts that come while something is under way, and kills |

Rounds beyond the last one before a drop are not told apart (`NextRound`).
Negotiation, forward error correction, `--async`, `--streaming`, rate and slice
size control and the disk ends are left out.

## 3. Runs

The first eight hold. The last four show what the code does against what the
repository says of it (section 6).

| run | question | states, about |
|---|---|---|
| `complete` | two partitions, generated or restored from complete or missing images, uncompressed, disk and net, one failure anywhere. `TypeOK`, `DoneBehind`, `CleanHandover`, `StopsAtError`, `Termination` | 270 000 |
| `mixed` | gen, rest and nothing, `lzo`, incomplete images, one failure anywhere: `IInv`, the invariant of the proofs; `NoSpuriousFailure`; `Termination`; `ImplementsActionList` | 490 000 |
| `cd` | images of three volumes on four discs, one wrong disc or failing mount, one failure: `TypeOKCd`, `AsksForItsDisc`, `CleanHandover`, `NoSpuriousFailure`, `TerminationCd`, `ImplementsActionList` | 216 000 |
| `menus` | hd-media, two sessions, three devices of which the machine lacks one, backups with other tables, with labels, of a bigger device and without the partition in use, disks repartitioned between sessions: `TypeOK`, `DirsMatchTable`, `MarksSound`, `GenRestorable`, `RestoresOnItsTable` | 2 436 000 |
| `auto` | CD and net, all unattended modes, refused partitions, failing `inicio.d`, a missing device and one too small: `DirsMatchTable`, `MarksSound`, `Confirmed` | 65 000 |
| `ddrescue` | a partition through `dd_rescue`, from and to a pipe and between devices, with bad and doubtful units, short inputs, small outputs, outputs that lose what they took, a lost device: `TypeOK`, `ZeroIsComplete`, `NoFalseAlarm`, `RescuesTheRest`, `InOrder`, `LossesCounted`, `Termination`, `ImplementsCopy` | 437 000 |
| `dialog` | every interleaving of scripts and servers: start, commands with and without exceptions and handler, stop, servers that die and are replaced: `TypeOK`, `ServerReady`, `RefusedServerEnds`, `CallsReturn`, `ImplementsCalls` | 55 000 |
| `udpcast` | a sender and two receivers, both modes, three faults in any combination: `TypeOK`, `GivesUpForAReason`, `EveryoneEnds`, `ImplementsMulticast` | 279 000 |
| `cd_stuck` | `ErrorEndsScript` is violated | |
| `dd_fatal` | `FatalEnds` is violated | |
| `refused` | `AnswersExceptions` is violated | |
| `udp_drop` | `DroppedByServer` is violated | |

### What the properties say

* `DoneBehind`: whatever fails in whatever order, partitions behind `id` are
  complete, and status 0 means all of them. It depends on the race in
  `error()`, on who writes `ERROR` and when the shell looks.
* `CleanHandover`: between partitions there is neither `STOP_MONITOR` nor
  `ERROR`. That is why only `dd_rescue`, whose monitor never sees 100 percent,
  may leave `STOP_MONITOR` when it succeeds.
* `StopsAtError`: once `ERROR` exists no other partition is begun.
* `NoSpuriousFailure`: without external failures and with complete images, no
  order of events makes the script fail.
* `Termination`: the script ends, unless `concatena` waits for the monitor of a
  feed that did not deliver the image (`Orphaned`): there the code does hang
  (section 6). An image that is shorter than it should be hangs in the same way,
  since nothing but 100 percent or `STOP_MONITOR` ends a monitor.
* `TerminationCd`: without failures the script on CD ends. With failures it
  need not (`cd_stuck`).
* `AsksForItsDisc`: when everything is restored from the first disc on, the
  number in the request is the disc that is needed, after wrong discs too.
* `DirsMatchTable`, `MarksSound`, `GenRestorable`, `RestoresOnItsTable`,
  `Confirmed`: section 1.4. Their exceptions are named in the formulas:
  the user removed the open backup (`eliminado`), cancelled the choice of a
  directory (`cancelado`), or renewed the `mbr` of an old backup and not its
  `pt`. `GenRestorable` has two more, for the code does go wrong in them (section
  6). In the sessions of `sin_deshacer` a `backup_ok` that gave up half way, or a
  restoration by `configura`, has left tables of a backup in `parted_server`. A
  device of `grande` is too small for the backup, and keeps the disk's table
  while the `pt` of the backup has another.
* `ZeroIsComplete`: with status 0, and fewer errors than make it go round, every
  unit is at its place, unless the place takes what it is given and loses it
  (`weak`): of that the status never tells (section 6). `ImplementsCopy` says so of
  every step on the way, with the same exception, by name and by place.
* `NoFalseAlarm`: healthy media give status 0, however short the reads of a pipe
  are and whatever `fsync` leaves in `errno`. An `errno` that survives turns a
  short read into an error only if nothing resets it first.
* `RescuesTheRest`: around a bad unit only its hard block is not written, at the
  ends of blocks, of the input and of what `-m` asks for too.
* `InOrder`, `LossesCounted`: on a device a skipped block is a hole, in a pipe
  what follows moves forward but keeps its order; what `write` has not accepted is
  bounded by the errors counted.
* `ServerReady`: between two calls the server is waiting or about to, with three
  empty pipes. It excuses an exception that was left without an answer and a
  server that overtakes the removal of the pipes of another.
* `RefusedServerEnds`: such a server executes nothing that comes after.
* `CallsReturn`: neither side is left waiting in an `open`. With the pipes shut in
  any other order it fails.
* `ImplementsCalls`: an answer is never taken for that of another call, nor a
  command executed twice.
* `GivesUpForAReason`: a receiver ends by itself only when it was dropped or, in
  full duplex mode, there were more faults than some slice has blocks. That is how
  many it takes to lose a whole slice and the request for it, but the formula does
  not say that they were these: it counts all faults, of any kind and anybody's. In
  half duplex mode there is no such exception, which is also proved
  (`HalfDuplexKeeps`).
* `EveryoneEnds`: the sender ends, and every receiver it has not dropped. One it
  has dropped may wait for ever (section 6).
* `ImplementsMulticast`: no slice is acknowledged that a participant does not
  have, whatever is lost, late or repeated.

## 4. Bounds

| bound | value | why it is enough |
|---|---|---|
| `NParts` | 2 | one hand-over from a pipeline to the next; nothing is remembered over two |
| `Size` | 2 (3 on CD) | a first, an unfinished and a last chunk; three volumes: first, middle, last |
| `PipeCap` | 1 | full and empty, so that writers block and readers wait |
| `MaxFallos` | 1 | one failure, and whatever it brings about: SIGPIPEs and early ends are not counted, so several members do run `error()` at once. The proofs have no bound |
| `MaxErrores` | 1 | a wrong disc after which the right one is asked for |
| `NDevs`, geometries | 3, 3 (2 in `auto`) | a device in the backup and one that is not, loops that stop at the first, in the middle or at the last; a geometry of both tables, of one, of the other |
| `Ausentes` | {2}; {3} in `auto` | the missing device has others before and after it, or is the last; backups with it and without it |
| `Copias` | 3 (2 in `auto`) | the partition in use is on the last device, so that a backup without it stops after the first got its table; device 3 (2 in `auto`) of one was bigger, that of another was not |
| `MaxSesiones` | 2 in `menus` | a backup of one session is used in the next |
| `MaxRuta` | 1; 0 in `auto` | the top directory and one below it; the third level is where `backupdev` is wrong (section 6) |
| `SB`, `HB`, `Max` | 4, 2, 9 | two whole soft blocks and a rest, neither block divides `Max`, two hard blocks in a soft one |
| `SyncEvery` | 4 | a soft block may end at an `fsync` or not |
| `StatusSize` | 3 | three errors make the status go round |
| `Lens`, `OutLens` | {5, 8, 9}, {6, 9} | ends inside a hard block, at a block, and at `Max` |
| `Defects` | all sets of at most one unit, three larger ones | bad places in one block, in two, at both ends |
| `WeakSets` | {}, {2}, {8}, {0, 5} | no loss, one before an `fsync` of `copyfile`, one that no `fsync` follows, two |
| `MaxServers`, `MaxCalls`, `MaxExc` | 3, 4, 1 | a server that dies, one that takes its place, one after that; each kind of call after each other |
| `FileLines` | 2 | a plain file `infifo` holds the command the next server would read, and one more |
| `Receivers` | 2 (1 in `udp_drop`) | one who has the slice and one who lacks it |
| `Blocks` | 1, 2 and the empty slice; 1, 1, 1 and the empty one in `udp_drop` | a slice lost whole by one datagram and one lost in part; the window of two moves |
| `RetriesUntilDrop`, `NegativeRound` | 1, 2; 0, 1 in `udp_drop` | rounds 0, 1 and 2, drop in the last: answers to round 0 are late in both others, those to round 1 are heard in round 2, those to round 2 are taken for late ones (default: 200 and 128) |
| `MaxFaults` | 3; 2 in `udp_drop` | a block, the request for it and the answer to the next one |

Deadlock is checked in the runs of `Filesystems`, `FilesystemsCd` and `Backharddi`:
a state without a successor would be a system in which everybody waits for
everybody, and the end of the script and of the last session are steps of their
own (`Terminated`, `TerminatedCd`, `Terminado`). A hang in which the monitor goes
on polling is no deadlock, and is what `Termination` is for. The other systems
really stop: `dd_rescue` when it has ended, the dialogs when `MaxCalls` and
`MaxServers` are used up (or at `overtaken`), udpcast when the transfer is over
and a dropped receiver waits. There a hang is found by `Termination`,
`CallsReturn` and `EveryoneEnds`.

## 5. Fairness

`FairSpec` has weak fairness for each process (script, monitor, `concatena`,
source, middle, last), because the kernel schedules every process that can go
on: each is a process of its own, blocked only by a full or an empty pipe, and
once its step is enabled it stays so. Fairness never obliges a failure:
`WithoutFailure(A)` is A with no external failure. On CD, `FairSpecCd` adds
that the user answers the dialog: since wrong discs are bounded, with the right
one sooner or later. There is no fairness for a session: a user may stay in a
menu for ever, and the properties of `Backharddi` are safety.

`DdRescue`: the process runs, and what feeds its pipe goes on or closes it (which
`Filesystems` is about). `PartedDialog`: weak fairness of the scripts as a whole
and of each server; an action that waits in an `open` is not enabled, so nothing
is assumed of the other side. A script is not obliged to end its session.
`Udpcast`: weak fairness of the sender's loop and of each receiver; never of a loss,
of a kill, nor of a timeout before another event, and the timeout of the sender
is a step of its loop that is enabled whenever it waits.

## 6. Where the code does something else

Shown by runs, with the lines and quotations in `PROJECT.json`, "findings":

| run | what happens |
|---|---|
| `cd_stuck` | End of volume and `error()` share `STOP_MONITOR`; if both come between two looks of the monitor, one `rm` answers both and the monitor of the next volume is never stopped. |
| `dd_fatal` | "Some errnos are fatal", but `errno` is replaced by the `fsync` of a pipe before it is looked at: while an image is generated, a device that has gone is read to its end, an error for each block. |
| `refused` | `restore_mbr` leaves a refused `NEW_PARTITION` without an answer and without `close_dialog`: the server takes the end of the file, or the next script's command, for the answer, and exits. |
| `udp_drop` | With two slices under way a receiver that loses a short slice and its REQACK ends with "Dropped by server" while it is a participant and the sender would have repeated both. |

Shown by TLC with the formula of that name in the module, and not among the runs:

| property | what happens |
|---|---|
| `FeedFailureReported` (`Filesystems`) | A failing `udp-receiver` should be reported (error 51), but `monitor` polls for ever and the report comes after it: the restoration hangs. A volume of a CD that cannot be read hangs in the same way, without any `error` at all. |
| `SuccessIsErrorFree` (`Filesystems`) | Metadata that does not reach the server (errors 54, 55) leaves status 0. |
| `AsksForItsDiscAlways` (`FilesystemsCd`) | With only a later partition marked, the user is asked for a disc by a wrong number. |
| `InUseProtected` (`Backharddi`) | The partition that holds the backups can be marked if the backup is in a directory of the second level (`MaxRuta` = 2). |
| `NoteIsTrue` (`Backharddi`) | An unattended CD restoration that matches no device ends with the note that everything was done. |
| `MbrWasAskedFor` (`Backharddi`) | `restmbr` survives leaving its backup; the MBR of another one is written. |

Seen while modelling, and part of the model:

* `senddata.c:664` passes `msg->retransmit.rxmit` on without the `ntohl` it was
  sent for (`receivedata.c:206`). On a little-endian sender a late answer is
  recognised only if it is of round 0, and every answer of rounds 128 to 255 is
  taken for a late one, although nobody is dropped before round 200: that
  costs retransmissions, not data (`Late`).
* `cleanup_and_die` removes the pid file first, for whose disappearance
  `stop_parted_server` waits: a server started at once may lose its new pipes to
  the old one's last `unlink`s (`overtaken`).
* After a refusal a script may make a plain file `infifo`; `mkfifo` accepts it and
  the next server reads its first command from it (`Fifos`, `MakeFifos`).
* `backup_ok` may stop when some devices have been given the tables of the backup,
  in `parted_server`, and others have not: with `db_go || exit` at a device the machine
  lacks (`definitions.sh:221`), with `exit` at a device where the backup lacks the
  partition the backups are on (232), with `break` at one that is refused (244).
  Nothing takes the tables back; nor does anything when the `inicio.d` script that
  follows fails, nor `auto/configura` in any case. A new backup that
  is then generated has geometries the disk does not have (`sin_deshacer`). The `exit`s
  end the calling script: called by `configura`, the one at 232 goes on to the menus,
  the one at 221, whose status is that of going back, ends `backharddi` with 0, as if
  everything had been done.
* At a device that is too small for the backup, `backup_ok` gives a message and goes on
  (`definitions.sh:235-243`). The backup opens if another device matches; the small one
  keeps the disk's table, images of it are generated under geometries that the `pt`
  beside them need not have, and if one of its partitions is restored,
  `fin.d/parted` writes the table of the bigger disk after all (`grande`).
* `printstatus` does not look at what `fsync` returns (`dd_rescue.c:197`), nor does
  anything else. A block that `write` accepted and that is lost on its way from the
  cache to the disk is reported by that call only: the restoration ends with status 0
  over a disk that does not have it (`weak`, `kept`).
* A receiver that was dropped after its last block, or whose sender died, waits in
  `recvmsg` for ever, and the pipeline of `fin.d/filesystems` with it.

## 7. Proofs

### 7.1 FilesystemsProofs

`FilesystemsProofs` proves for every number of partitions, image size, pipe
capacity and number of failures (assumptions `SizesAssumption`,
`ChoicesAssumption` of `Filesystems`, nothing else):

| theorem | says |
|---|---|
| `Invariance` | `Spec => []IInv` |
| `TypeCorrect` | `Spec => []TypeOK` |
| `NoFailureLost` | `Spec => []DoneBehind` |
| `HandoverIsClean` | `Spec => []CleanHandover` |
| `ErrorStops` | `Spec => StopsAtError` |
| `Refinement` | `Spec => ImplementsActionList` |
| `FailuresComeFromOutside` | `Spec => []NoSpuriousFailure` |

**The argument.** `DoneBehind` is not inductive: that the script goes on only
past complete partitions depends on why each member of the pipeline has ended.
`IInv` says so, for a pipeline that is running (`PipeInv`):

* `Places`: where each member can be, and with which code it reports. In
  particular the monitor and the feed run only after `concatena` started them.
* `Conservation`: what was sent is in a pipe or has arrived.
* `Endings`: a member that ended did so because its input was over and its pipe
  empty, because it delivered everything, or because `ERROR` exists (or, for
  the last one, because somebody is about to write it: `Alarm`).
* `StopMeaning`: `STOP_MONITOR`, and a monitor that ended, mean that the work is
  done or that there is an alarm; `STOP_MONITOR` still there beside a monitor
  that ended means an alarm.

`Alarm`, that `ERROR` exists or somebody is past the touch of `error()`, is what
makes the three-step `error()` work: a member may end without writing `ERROR`
only when another one has. When all have ended, an alarm is an `ERROR`, and
without one `Endings` and `Conservation` give a complete destination
(`Pipeline_done`). Outside a pipeline (`Quiet`) nothing runs and no file is left.
Each action has its lemma, with a step for each conjunct it can disturb;
the refinement maps each action to an action of `ActionList` or a stutter. It
needs no more of `IInv` than `Destinations`, types and `Done` behind `id`, so that
the same lemmas serve the restoration from discs.

`NoSpuriousFailure` needs more than `IInv`, and only when nothing has been
disturbed (`Undisturbed`): then nobody is in `error()`, no member has a status
other than 0, and a first stage that has ended has sent everything (`Smooth`). With
`Endings` and `Conservation` that excludes each way to fail: a writer whose reader
has gone, a decompressor with a short input, a cloner that finds the end of it.
`SInv == Undisturbed => Smooth` is inductive on top of `IInv`, because what has
been disturbed stays so (`UndisturbedBefore`).

### 7.2 FilesystemsCdProofs

For any number of partitions, volumes, discs, wrong discs and failures, and any
layout in order (`VolumesAssumption`, `LayoutAssumption`, `NothingGenerated`: a CD is
only read):

| theorem | says |
|---|---|
| `CdInvariance` | `SpecCd => []CdInv` |
| `CdTypeCorrect` | `SpecCd => []TypeOKCd` |
| `CdAllDoneBehind` | `SpecCd => []DoneBehind` |
| `CdHandoverIsClean` | `SpecCd => []CleanHandover` |
| `CdFailuresComeFromOutside` | `SpecCd => []NoSpuriousFailure` |
| `CdRefinement` | `SpecCd => ImplementsActionList` |
| `RightDiscAsked` | `SpecCd => []AsksForItsDisc` |

`CdInv` has the parts of `IInv` (`CdPlaces`, `CdConservation`, `CdEndings`), with two
that are about volumes. `Volumes`: between two of them (`Between`) exactly the ones
before are read, and a volume whose `cat` ended without an error is read to its
end. `CdStopMeaning`: here three things leave `STOP_MONITOR`: an alarm, the end of
the cloner, and the end of a volume that is not the last (`Turn`). While a volume is
under way each of them may be what it means; between volumes, or beside a monitor
that has ended, only an alarm may. That is the heart of the proof. When the
destination is complete the last volume is under way and the pipes are empty
(`FullMeansLast`), so that the `STOP_MONITOR` of the cloner cannot be taken for the
end of a volume nor the other way round.

`num` is a second matter. `DiscInv` bounds it, and holds whatever is marked; `ExactInv`
says what it is when everything is restored, and `RightDiscAsked` follows. Both go
from the last volume of an image to the first of the next one, for which the discs of
an image must not go back (`LastDisc`). That is an induction over volumes; it is done
with a smallest counterexample (`WFMin` of `WellFoundedInduction`, which takes a set
and not an operator).

### 7.3 DdRescueProofs

For blocks, partitions, media and `StatusSize` of any size (`BlocksAssumption`,
`MediaAssumption`):

| theorem | says |
|---|---|
| `Invariance` | `Spec => []IInv` |
| `TypeCorrect` | `Spec => []TypeOK` |
| `ZeroStatusIsComplete` | `Spec => []ZeroIsComplete` |
| `OutputInOrder` | `Spec => []InOrder` |
| `LossesAreCounted` | `Spec => []LossesCounted` |
| `RefinesCopy` | `Spec => ImplementsCopy` |
| `FalseAlarmsNever` | `Spec => []NoFalseAlarm` |
| `TheRestIsRescued` | `Spec => []RescuesTheRest` |

What an output took and lost is left out of `ZeroIsComplete` and `ImplementsCopy` by
name (`weak`); the other theorems speak of what `write` accepted, or of the status. The
refinement maps `got` to the units that are `kept` and `dropped` to `weak`.

`IInv` is `TypeOK` and four parts. `Levels`: the hard level is entered by an error
and left with `errs` of both added up, so that no error can be counted twice or
forgotten between the two. `Clean`: as long as `total` is 0 the output is the input
up to `xfer`, and `copyfile` only returns at the end. `Ordered`: what was written is
below the place and the unit that come next, from which `InOrder` follows for a
pipe, where places and units differ by what was skipped. `Counted` relates the
four counters. That `Cardinality(out)` is `sxfer` is a second invariant, on top of
the first, because a write adds units that `Ordered` says are new.

`NoFalseAlarm` is not inductive: a piece of a pipe that `errno` cuts short would be an
error. `Untroubled` adds that on healthy media the hard level is never entered and,
when the input is a pipe, nothing is left in `errno`. `RescuesTheRest` is inductive
beside `IInv`: each step accounts for the units it passes, and what is accounted for
stays so (`AccountedStays`).

### 7.4 UdpcastProofs and UdpcastLossProofs

For any number of receivers, slices, blocks, rounds and faults
(`UdpcastAssumption`):

| theorem | says |
|---|---|
| `Invariance` | `Spec => []IInv` |
| `TypeCorrect` | `Spec => []TypeOK` |
| `NobodyGivesUp` | `Spec => []HalfDuplexKeeps` |
| `Refinement` | `Spec => ImplementsMulticast` |
| `GivesUpWithReason` | `Spec => []GivesUpForAReason` |

That a slice is acknowledged only when every participant has it is not
inductive: the sender counts messages, and what they say was true when they were
sent. `SlotInv`: the two slices under way are the last two made, and nobody has
answered for the one that was not asked about. `HaveInv`: a participant has all
that was acknowledged and all it has confirmed. `ChanInv`: on the way to a
participant a request is only for a slice before which it has everything; on the
way from it an OK is only for what it has. `ClientInv` keeps the counters of a
receiver in step. A receiver never loses what it has passed on, so a message that
was true stays true. For the refinement `acked` is `sliceNo` less the slices under
way; `AckSlice` maps to `Ack`, `HandleDisconnect` and `Drop` to `Leave` (or a stutter),
`AtEnd` to `Finish`, a receiver's step to `Give` or a stutter, and all others to
stutters.

In full duplex a receiver gives up when it hears of a slice two ahead of what it
has, and that this takes the loss of a whole slice is not in the counters of
`IInv`: which datagrams were lost is nowhere in the state. `LossInv` accounts for
them. `SentOf(k)` is how many different datagrams about slice `k` have been sent
(its blocks, then the request); a participant is `Deaf` to `k` when it has heard
nothing of it and every datagram about it still under way comes after one about a
later slice; then at least `SentOf(k)` were lost on their way to it. A datagram sent
adds one to `SentOf` and either reaches the channel or `faults`; reading one can
only end deafness or, at the head of the channel, be the moment `k` is skipped, when
`SentOf(k)` is the whole slice. `MapInv` (blocks are only known of slices that are)
and `SentInv` (a slice is asked about after its blocks) are what this needs of the
two sides.

### 7.5 BackharddiProofs

For any devices, geometries, backups, media and modes, and any number of sessions
(`ConstantesAssumption`):

| theorem | says |
|---|---|
| `Invariance` | `Spec => []IInv` |
| `TypeCorrect` | `Spec => []TypeOK` |
| `DirsAreTheTable` | `Spec => []DirsMatchTable` |
| `MarksAreSound` | `Spec => []MarksSound` |
| `NothingUnconfirmed` | `Spec => []Confirmed` |
| `RestoredOnItsTable` | `Spec => []RestoresOnItsTable` |
| `GenerationsRestorable` | `Con_tablas` implies `Spec => []GenRestorable` |

`IInv` joins the properties with two more parts. `Marcado`: in the menus that mark, a
backup is open, the directories are those of the table of `parted_server`, and what
is marked `rest` is in that backup; in the menus before, nothing is marked. This is
what a way back (`Vuelve`) has to restore, and without it `MarksSound` would not hold
when `fin.d` begins. `Escrita`: after `30parted` the table of the backup is on each
disk with something to restore, so that what `35mbr` does next can be told from it.
Each action has its lemma; those that `backup_ok` is part of go through its outcomes
(`Backup_okCasos`).

`GenRestorable` has a hypothesis, `Con_tablas`: every device of the machine has a
partition, and in the backups there are at first a device with an image or an `mbr`
has a `pt` with some partition. An empty set stands for "no such device", so the model cannot tell
a disk without partitions from a missing one. Nothing is assumed of refusals,
failing scripts, missing or small devices, the place of the partition in use or
unattended modes: what goes wrong with them is excepted in the property, state by
state (`sin_deshacer`, `grande`). Its own invariant is `Rehecha`: as long as nothing is
left behind by a `backup_ok` that gave up, the table that images are generated under is, on
each device that is there and not too small (`Caben`), that of the open backup, or
the disk's where the backup has none (`Tabla_de`), and in the first menu it is the disk's.
It needs that devices the machine lacks never get a table or a mark (`Ausentes_fuera`).

### 7.6 PartedDialogProofs

For any number of servers, calls and exceptions (`DialogAssumption`):

| theorem | says |
|---|---|
| `Invariance` | `Spec => []IInv` |
| `TypeCorrect` | `Spec => []TypeOK` |
| `AlwaysReady` | `Spec => []ServerReady` |
| `RefusedEnds` | `Spec => []RefusedServerEnds` |
| `Refinement` | `Spec => ImplementsCalls` |

`ServerReady` speaks of the moment between two calls, and says nothing of how both sides
got there through `close_dialog`. `IInv` says at every moment where the one is when the
other is at a given place: as long as no exception has been left and no server was
started too soon (`Clean`), there is no server (`Down`), or one (`Up`) and all others are
gone and hold only pipes of names that are no more (`Stale`). With a server up, a process
has open what its place says (`CShape`, `SShape`), the inodes agree with that about
readers and writers (`Ends`), and the dialog is in one of five stages:

* `InStep`: nothing is in the pipes and both are at one of six meetings, the five pairs
  of open and close of `ClientSync` and `ServerSync` and, as the sixth, `infifo` for the
  next command. `Meet(s, k)` lists who may be early: each may wait in the `open` for the
  other, or be through and go on to the next pipe, but never two pipes ahead, because
  that next `open` waits for who is still in this one.
* `Sent`: the command is in `infifo` or read, and both go on to open `outfifo`.
* `Executing`: both have both pipes, and the pairs of places go with the lines in between
  (a `type` and its `options` on the way, a `choice` on the way back).
* `Replying`: the command has been executed; what of `OK` and result is still in
  `outfifo` is what the script has not read, also when the server has closed it already.
* `Quitting`: `QUIT` is on its way.

Each operation of `Fifos` has a lemma that says what it does to the inodes, and one that
says it of pipes by their names; coming to a meeting and
leaving it are then one lemma for each side and all six meetings (`ClientArrives`,
`ServerArrives`, `ClientDeparts`, `ServerDeparts`).
The rest goes by the actions. After a refusal nothing of this holds any more: names may
be plain files, and several servers may have lines of each other. What is left then is
`RefusedInv`: the server that was left (`Abandoned`) is the one of the pid file, it reads
from an inode that nobody has as anything but `infifo`, and the next line there, if any,
is no choice, so that it ends when it reads. For the refinement `Ask` maps to `Ask`, `Done`
to `Execute`, `ReadResult` to `Answer`, the last close and the failures of a call to
`Return`, all others to stutters.

### 7.7 Only model-checked

Liveness (`Termination`, `TerminationCd`, `CallsReturn`, `EveryoneEnds`), since fairness
and `ENABLED` are beyond the prover.

## 8. Not modelled, and the plan

Done in this order: `Filesystems`, `ActionList`, their proofs, `FilesystemsCd`,
`Backharddi`, `DdRescue` and `Copy` with proofs, `PartedDialog` with `Fifos` and
`Calls`, `Udpcast` and `Multicast` with proofs, the proofs of `Backharddi`,
`FilesystemsCd` and `PartedDialog`. Planned, the most important first:

1. `FinParted`: the retries and mounts of `fin.d/parted`, where one partition of a
   device is assumed to be mounted, and `mp` keeps the value of an earlier device.
2. `Monitor`: `backharddi_do` and `backharddi-monitor`, which kill and restart a
   session in any state, with the pid file and the marks as they are.
3. `ResizeParts`: the arithmetic of the extra space, its rounding and its
   retries, and the recursion that applies it to all devices.
4. `Postinst`: finding the medium or the server, and the restart.

Left out for good: `stidump` and `cmospwd` (dump tools without control that
matters), `pack_backup_metadata` and the texts of the menus (selection and
wording), `visual.d`, `auto.d`, `finish.d` (run by partman when a backup medium is
prepared), LVM, MD and RAID detection in `inicio.d` (only its success or
failure is an input), the race between the test for a marker file and the umount
of the CD it is on.

All other vendored code appears only as far as B depends on it. It is nearly the
whole repository: of some 550 000 lines of C all but a few thousand are
parted, e2fsprogs, the ntfs tools, openvpn, partimage and the like, while B is
mostly shell. What the model covers is therefore a small part of the
repository by lines, and most of the control of B.

## 9. Running

    tlc -workers 2 -config MCcomplete.cfg Filesystems
    tlc -workers 2 -config MCmixed.cfg    FilesystemsProofs
    tlc -workers 2 -config MCcd.cfg       MCFilesystemsCd
    tlc -workers 2 -config MCmenus.cfg    MCBackharddi
    tlc -workers 2 -config MCauto.cfg     MCBackharddi
    tlc -workers 2 -config MCddrescue.cfg MCDdRescue
    tlc -workers 2 -config MCdialog.cfg   PartedDialog
    tlc -workers 2 -config MCudpcast.cfg  MCUdpcast

each without an error, and each of these with a counterexample:

    tlc -workers 2 -config MCcd_stuck.cfg MCFilesystemsCd
    tlc -workers 2 -config MCdd_fatal.cfg MCDdRescue
    tlc -workers 2 -config MCrefused.cfg  PartedDialog
    tlc -workers 2 -config MCudp_drop.cfg MCUdpcast

    tlapm FilesystemsProofs.tla
    tlapm FilesystemsCdProofs.tla
    tlapm BackharddiProofs.tla
    tlapm DdRescueProofs.tla
    tlapm UdpcastProofs.tla
    tlapm UdpcastLossProofs.tla
    tlapm PartedDialogProofs.tla

In the modules, an operator whose comment says *Variant* is a plausible mistake
in the definition beside it. No specification uses it: replacing the
definition by its variant breaks the property that "mutants" in `PROJECT.json`
names, which shows that the property depends on that line of the code.
