------------------------------ MODULE DdRescue ------------------------------
(***************************************************************************)
(* dd_rescue as fin.d/filesystems calls it, "dd_rescue path - -m size" to  *)
(* generate and "dd_rescue - path -m size" to restore: forwards, from the  *)
(* beginning of both sides, with no other option and with a path on at     *)
(* least one side.  copyfile() copies soft blocks and calls itself with    *)
(* hard blocks around a bad place.  ipos, opos and xfer are then the same  *)
(* number, here xfer.                                                      *)
(*                                                                         *)
(* Data is counted in units, of which a hard block has HB.  What a side    *)
(* does is chosen at the start: its length, the units that can not be      *)
(* read, those that can not always be, the places that take what is        *)
(* written and do not keep it, and whether the side can seek.              *)
(***************************************************************************)
EXTENDS Integers, FiniteSets

CONSTANTS
    SB, HB,      \* units of a soft and of a hard block (65536 and 512 bytes)
    Max,         \* the units -m asks for
    SyncEvery,   \* units between two calls of fsync (512 soft blocks)
    StatusSize,  \* different exit statuses (256)
    Lens,        \* lengths the input may have
    OutLens,     \* lengths the output may have
    Defects,     \* sets of units that may be bad, or be so now and then
    WeakSets     \* sets of places that may lose what is written to them

ASSUME BlocksAssumption ==
    /\ HB \in Nat \ {0} /\ SB \in Nat /\ SB > HB
    /\ Max \in Nat \ {0} /\ SyncEvery \in Nat \ {0} /\ StatusSize \in Nat \ {0}

ASSUME MediaAssumption ==
    /\ Lens \subseteq Nat /\ OutLens \subseteq Nat
    /\ Defects \subseteq SUBSET Nat /\ WeakSets \subseteq SUBSET Nat

VARIABLES
    i_chr, o_chr,  \* the input, the output is a pipe
    len, olen,     \* units of the input, places of the output
    bad, flaky,    \* units that can not be read, or not always
    weak,          \* places write() accepts and the write-back from the cache loses
    gone,          \* the input device has been lost
    pc,            \* "copy", "back" (from copyfile with hard blocks), "main", "done"
    bs,            \* the level copyfile is at: "soft" or "hard"
    call,          \* which of its two calls of itself: "rest" or "small"
    errs, herrs,   \* errs of the soft and of the hard level
    new_max, old_xfer,
    xfer, sxfer, fxfer, nrerr,
    errno,         \* "0", "EIO", "EINVAL" or one of the fatal ones, "ENXIO"
    eaten,         \* units taken from an input that is a pipe
    out,           \* <<place, unit>>: what write() has accepted where
    status         \* of the process

media == <<i_chr, o_chr, len, olen, bad, flaky, weak>>
frames == <<call, new_max, old_xfer>>
counts == <<xfer, sxfer, fxfer, nrerr>>
vars == <<media, gone, pc, bs, errs, herrs, frames, counts, errno,
          eaten, out, status>>

least(a, b) == IF a <= b THEN a ELSE b

Init ==
    /\ i_chr \in BOOLEAN /\ o_chr \in BOOLEAN /\ ~(i_chr /\ o_chr)
    /\ len \in Lens /\ olen \in OutLens
    /\ bad \in Defects /\ flaky \in Defects /\ weak \in WeakSets
    /\ i_chr => bad = {} /\ flaky = {}
    /\ o_chr => weak = {}
    /\ gone = FALSE
    /\ pc = "copy" /\ bs = "soft" /\ call = "rest"
    /\ errs = 0 /\ herrs = 0 /\ new_max = 0 /\ old_xfer = 0
    /\ xfer = 0 /\ sxfer = 0 /\ fxfer = 0 /\ nrerr = 0 /\ errno = "0"
    /\ eaten = 0 /\ out = {} /\ status = 0

-----------------------------------------------------------------------------
(* The system calls. *)

\* The next unit of the input.
source == IF i_chr THEN eaten ELSE xfer

Fails(p) == gone \/ (p < len /\ p \in bad \cup flaky)

\* Variant: what read() did not give is never asked for again.
readblock_once(toread, rd, e) ==
    /\ rd \in 0..toread /\ (rd > 0 => source + rd <= len /\ ~gone)
    /\ \A p \in source .. source + rd - 1 : p \notin bad
    /\ \/ rd = toread /\ e = errno
       \/ rd < toread /\ source + rd >= len /\ ~gone /\ e = errno
       \/ rd < toread /\ Fails(source + rd) /\ e = IF gone THEN "ENXIO" ELSE "EIO"
       \/ i_chr /\ 0 < rd /\ rd < toread /\ e = errno

\* readblock(toread) returns rd and leaves e in errno.  It asks for the rest of
\* what read() did not give only while errno is 0, and nothing resets errno
\* when a read succeeds.
readblock(toread, rd, e) ==
    /\ rd \in 0..toread /\ (rd > 0 => source + rd <= len /\ ~gone)
    /\ \A p \in source .. source + rd - 1 : p \notin bad
    /\ \/ rd = toread /\ e = errno
       \/ rd < toread /\ source + rd >= len /\ ~gone /\ e = errno
       \/ /\ rd < toread /\ Fails(source + rd)
          /\ e = IF rd > 0 /\ errno # "0" THEN errno ELSE IF gone THEN "ENXIO" ELSE "EIO"
       \/ i_chr /\ errno # "0" /\ 0 < rd /\ rd < toread /\ e = errno

\* How much of rd writeblock writes, and the place in a pipe it begins at.
written(rd) ==
    IF o_chr \/ xfer + rd <= olen THEN rd ELSE IF xfer < olen THEN olen - xfer ELSE 0
place == IF o_chr THEN sxfer ELSE xfer

writeblock(rd) ==
    out' = out \cup { <<place + k, source + k>> : k \in 0 .. written(rd) - 1 }

\* What the output has for good of what has been written.
kept == { w \in out : w[1] \notin weak }

\* printstatus with sync calls fsync(odes) and ignores its result: a pipe
\* refuses it, a device reports in one of these calls or the other that it has
\* lost some of what it was given.  What is in errno after it:
fsync(e, given) ==
    IF o_chr THEN {"EINVAL"}
    ELSE IF \E w \in given : w[1] \in weak THEN {e, "EIO"} ELSE {e}

\* The status line at the end of an iteration.
endIteration(e) == errno' \in IF xfer' % SyncEvery = 0 THEN fsync(e, out') ELSE {e}

-----------------------------------------------------------------------------
(* copyfile. *)

max == IF bs = "hard" THEN new_max ELSE Max
\* Variant: the hard level works with soft blocks.
block_soft == SB

block == IF bs = "hard" THEN HB ELSE SB
\* Variant: the last block is as long as the others.
toread_whole == block

toread == least(max - xfer, block)

\* Variant: the last error replaces the ones before.
oneMore_last(n) ==
    IF bs = "hard" THEN herrs' = n /\ errs' = 0
    ELSE errs' = n /\ herrs' = herrs

\* One more error of the level copyfile is at.
oneMore(n) ==
    IF bs = "hard" THEN herrs' = herrs + n /\ errs' = errs
    ELSE errs' = errs + n /\ herrs' = herrs

\* Where copyfile returns to.
return == pc' = IF bs = "hard" THEN "back" ELSE "main"

\* The loop's condition does not hold any more.
MaxReached ==
    /\ pc = "copy" /\ xfer >= max
    /\ return
    /\ UNCHANGED <<media, gone, bs, errs, herrs, frames, counts, errno,
                   eaten, out, status>>

EndOfFile ==
    /\ pc = "copy" /\ xfer < max
    /\ readblock(toread, 0, "0") /\ errno' = "0"
    /\ return
    /\ UNCHANGED <<media, gone, bs, errs, herrs, frames, counts,
                   eaten, out, status>>

\* Variant: a block that is not written whole is no error.
CopyBlock_blind ==
    /\ pc = "copy" /\ xfer < max
    /\ readblock(toread, toread, errno)
    /\ writeblock(toread)
    /\ sxfer' = sxfer + written(toread)
    /\ xfer' = xfer + toread
    /\ endIteration(errno)
    /\ eaten' = IF i_chr THEN eaten + toread ELSE 0
    /\ UNCHANGED <<media, gone, pc, bs, errs, herrs, frames, fxfer, nrerr, status>>

\* The whole block has been read.
CopyBlock ==
    /\ pc = "copy" /\ xfer < max
    /\ readblock(toread, toread, errno)
    /\ LET lost == IF written(toread) < toread THEN 1 ELSE 0 IN
       /\ writeblock(toread)
       /\ oneMore(lost)
       /\ nrerr' = nrerr + lost
       /\ sxfer' = sxfer + written(toread)
       /\ xfer' = xfer + toread
       /\ endIteration(IF lost = 1 THEN "0" ELSE errno)
    /\ eaten' = IF i_chr THEN eaten + toread ELSE 0
    /\ UNCHANGED <<media, gone, pc, bs, frames, fxfer, status>>

\* Fewer than toread units: a read error.  The status line comes before errno is
\* looked at; f is what fsync leaves in it.
readError(rd, f) ==
    /\ pc = "copy" /\ xfer < max /\ rd < toread
    /\ \E e \in {"0", "EIO", "EINVAL", "ENXIO"} :
          readblock(toread, rd, e) /\ ~(rd = 0 /\ e = "0") /\ f \in fsync(e, out)
    /\ eaten' = IF i_chr THEN eaten + rd ELSE 0

FatalError ==
    /\ \E rd \in 0 .. toread - 1 : readError(rd, "ENXIO")
    /\ oneMore(1)
    /\ errno' = "ENXIO" /\ status' = 20 /\ pc' = "done"
    /\ UNCHANGED <<media, gone, bs, frames, counts, out>>

\* Variant: a skipped block is not counted in nrerr.
SkipBlock_uncounted ==
    /\ bs = "hard"
    /\ \E rd \in 0 .. toread - 1, f \in {"0", "EIO", "EINVAL"} : readError(rd, f)
    /\ oneMore(1)
    /\ fxfer' = fxfer + toread
    /\ xfer' = xfer + toread
    /\ UNCHANGED <<media, gone, pc, bs, frames, sxfer, nrerr, out, status>>
    /\ endIteration("0")

\* With hard blocks the block is skipped, what has been read of it included.
SkipBlock ==
    /\ bs = "hard"
    /\ \E rd \in 0 .. toread - 1, f \in {"0", "EIO", "EINVAL"} : readError(rd, f)
    /\ oneMore(1)
    /\ nrerr' = nrerr + 1
    /\ fxfer' = fxfer + toread
    /\ xfer' = xfer + toread
    /\ UNCHANGED <<media, gone, pc, bs, frames, sxfer, out, status>>
    /\ endIteration("0")

\* Variant: what has been read is written, but not passed.
FallBack_again ==
    /\ bs = "soft"
    /\ \E rd \in 0 .. toread - 1, f \in {"0", "EIO", "EINVAL"} :
          /\ readError(rd, f)
          /\ writeblock(rd)
          /\ errs' = errs + 1
          /\ sxfer' = sxfer + written(rd)
    /\ new_max' = xfer + toread /\ old_xfer' = xfer /\ call' = "rest"
    /\ bs' = "hard" /\ herrs' = 0 /\ errno' = "0"
    /\ UNCHANGED <<media, gone, pc, xfer, fxfer, nrerr, status>>

\* With soft blocks what has been read is written, and the rest is tried again
\* with hard ones.
FallBack ==
    /\ bs = "soft"
    /\ \E rd \in 0 .. toread - 1, f \in {"0", "EIO", "EINVAL"} :
          LET lost == IF written(rd) < rd THEN 1 ELSE 0 IN
          /\ readError(rd, f)
          /\ writeblock(rd)
          /\ nrerr' = nrerr + lost
          /\ errs' = errs + 1 + lost
          /\ sxfer' = sxfer + written(rd)
          /\ xfer' = xfer + rd
    /\ new_max' = xfer + toread /\ old_xfer' = xfer' /\ call' = "rest"
    /\ bs' = "hard" /\ herrs' = 0 /\ errno' = "0"
    /\ UNCHANGED <<media, gone, pc, fxfer, status>>

\* The call with hard blocks returns err = herrs: the end of the input, once
\* more two soft blocks in small pieces, or soft blocks again.
Back ==
    /\ pc = "back"
    /\ bs' = "soft" /\ errs' = errs + herrs /\ herrs' = 0
    /\ UNCHANGED <<media, gone, counts, eaten, out, status>>

EndOfSmall ==
    /\ Back /\ herrs = 0 /\ old_xfer = xfer
    /\ pc' = "main"
    /\ errno' = IF call = "small" THEN "0" ELSE errno
    /\ UNCHANGED frames

\* Variant: small pieces go on when there has been no error.
StaySmall_ever ==
    /\ pc = "back" /\ xfer < Max
    /\ errs' = errs + herrs /\ herrs' = 0
    /\ new_max' = least((IF call = "rest" THEN xfer ELSE new_max) + 2 * SB, Max)
    /\ old_xfer' = xfer /\ call' = "small"
    /\ pc' = "copy" /\ errno' = "0"
    /\ UNCHANGED <<media, gone, bs, counts, eaten, out, status>>

StaySmall ==
    /\ pc = "back" /\ herrs # 0 /\ xfer < Max
    /\ errs' = errs + herrs /\ herrs' = 0
    /\ new_max' = least((IF call = "rest" THEN xfer ELSE new_max) + 2 * SB, Max)
    /\ old_xfer' = xfer /\ call' = "small"
    /\ pc' = "copy" /\ errno' = "0"
    /\ UNCHANGED <<media, gone, bs, counts, eaten, out, status>>

Promote ==
    /\ Back /\ ~(herrs # 0 /\ xfer < Max) /\ ~(herrs = 0 /\ old_xfer = xfer)
    /\ pc' = "copy"
    /\ endIteration("0")
    /\ UNCHANGED frames

-----------------------------------------------------------------------------
(* main, and what happens to the process. *)

Exit ==
    /\ pc = "main"
    /\ pc' = "done" /\ status' = errs % StatusSize
    /\ UNCHANGED <<media, gone, bs, errs, herrs, frames, counts, errno,
                   eaten, out>>

\* Nobody reads from the output any more: SIGPIPE.
BrokenPipe ==
    /\ pc = "copy" /\ o_chr
    /\ pc' = "done" /\ status' = 141
    /\ UNCHANGED <<media, gone, bs, errs, herrs, frames, counts, errno,
                   eaten, out>>

LoseDevice ==
    /\ pc # "done" /\ ~i_chr /\ ~gone
    /\ gone' = TRUE
    /\ UNCHANGED <<media, pc, bs, errs, herrs, frames, counts, errno,
                   eaten, out, status>>

Work ==
    \/ MaxReached \/ EndOfFile \/ CopyBlock \/ FatalError \/ SkipBlock \/ FallBack
    \/ EndOfSmall \/ StaySmall \/ Promote \/ Exit

Next == Work \/ BrokenPipe \/ LoseDevice

Spec == Init /\ [][Next]_vars

\* The process runs, and what feeds a pipe goes on or closes it.
FairSpec == Spec /\ WF_vars(Work)
-----------------------------------------------------------------------------
(* Properties. *)

total == errs + herrs
done == pc = "done"

TypeOK ==
    /\ i_chr \in BOOLEAN /\ o_chr \in BOOLEAN /\ gone \in BOOLEAN
    /\ len \in Nat /\ olen \in Nat
    /\ bad \subseteq Nat /\ flaky \subseteq Nat /\ weak \subseteq Nat
    /\ pc \in {"copy", "back", "main", "done"} /\ bs \in {"soft", "hard"}
    /\ call \in {"rest", "small"}
    /\ errs \in Nat /\ herrs \in Nat /\ nrerr \in Nat
    /\ new_max \in 0..Max /\ old_xfer \in 0..Max /\ xfer \in 0..Max
    /\ sxfer \in 0..Max /\ fxfer \in 0..Max
    /\ errno \in {"0", "EIO", "EINVAL", "ENXIO"}
    /\ eaten \in Nat /\ out \subseteq (0 .. Max - 1) \X (0 .. Max - 1)
    /\ status \in Nat

\* The exit status is all fin.d/filesystems looks at.  When it is 0, and there
\* were not so many errors that it has gone round, the whole partition has been
\* copied, or all of an input that is shorter than it, every unit at its place:
\* all of it is on the device but what a place took and did not keep, of which
\* the status never tells, because what fsync returns is not looked at.
ZeroIsComplete ==
    done /\ status = 0 /\ total < StatusSize =>
        /\ xfer = Max \/ xfer = len
        /\ kept = { <<p, p>> : p \in (0 .. xfer - 1) \ weak }

\* Nothing is reported that did not happen: if everything can be read and
\* written the status is 0, however the input arrives and whatever is left in
\* errno meanwhile.
NoFalseAlarm ==
    done /\ status # 141 /\ bad \cup flaky = {} /\ ~gone /\ len >= Max
         /\ (o_chr \/ (olen >= Max /\ weak = {}))
    => status = 0 /\ total = 0

\* What the program is for: around a place that can not be read only the hard
\* block that holds it is not written.
RescuesTheRest ==
    ~i_chr /\ ~gone => \A p \in 0 .. xfer - 1 :
        \/ p >= len \/ (~o_chr /\ p >= olen)
        \/ \E w \in out : w[2] = p
        \/ \E q \in bad \cup flaky : p - HB < q /\ q < p + HB
        \/ len < xfer /\ p > len - HB

\* On a device that is copied to, every unit of a device is at its own place or
\* missing; in a pipe the units keep their order, and none comes twice.
InOrder ==
    /\ ~i_chr /\ ~o_chr => \A w \in out : w[1] = w[2]
    /\ \A v, w \in out : v[1] < w[1] <=> v[2] < w[2]

\* The counts of the summary and the exit status tell of the same losses: no
\* more has not been accepted by write() than the errors account for.  Nothing
\* is counted of what is lost after that.
LossesCounted ==
    /\ Cardinality(out) = sxfer
    /\ sxfer + fxfer <= xfer
    /\ fxfer <= HB * nrerr
    /\ xfer - sxfer <= SB * total

\* A copy ends, although a bad place makes copyfile call itself again and again
\* and the promotion to soft blocks leads back to it.
Termination == <>done

Spare == INSTANCE Copy WITH pos <- xfer, got <- { w[2] : w \in kept }, dropped <- weak,
                            failed <- total > 0, ended <- done

\* The program is a copy that counts an error before it passes anything that it
\* could not read or write.  What the output has is what it keeps, so that the
\* places that lose what they were given are left out of the promise, and only
\* they are.
ImplementsCopy == Spare!Spec

\* "Some errnos are fatal", the comment in front of the test for ESPIPE, EPERM,
\* ENXIO and ENODEV says: when the device is gone nothing more is passed, unless
\* fsync has an error of its own to report.
FatalEnds == [][gone /\ kept = out => xfer' = xfer]_vars
=============================================================================
