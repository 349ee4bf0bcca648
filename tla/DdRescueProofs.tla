--------------------------- MODULE DdRescueProofs ---------------------------
(***************************************************************************)
(* What the exit status of dd_rescue means, for blocks and partitions of   *)
(* any size and for any input and output.                                  *)
(***************************************************************************)
EXTENDS DdRescue, Functions, FiniteSetTheorems, TLAPS

\* The process did not end with copyfile.
Cut == status \in {20, 141}

\* Where copyfile is: the hard level is entered by an error.
Levels ==
    /\ ~(i_chr /\ o_chr) /\ (i_chr => ~gone)
    /\ ~done => errno # "ENXIO"
    /\ bs = "soft" => herrs = 0
    /\ bs = "hard" => errs > 0
    /\ pc = "back" => bs = "hard"
    /\ pc = "main" => bs = "soft"
    /\ done => Cut \/ (herrs = 0 /\ status = errs % StatusSize)

\* Without an error nothing has been left out and nothing has moved.
Clean ==
    /\ total = 0 =>
          /\ out = { <<p, p>> : p \in 0 .. xfer - 1 }
          /\ sxfer = xfer /\ xfer <= len
          /\ i_chr => eaten = xfer
    /\ total = 0 /\ (pc = "main" \/ (done /\ ~Cut)) =>
          xfer = Max \/ xfer = len

\* What has been written lies before the place that is written next, and comes
\* from before the unit that is read next.
Ordered ==
    /\ sxfer <= xfer /\ (i_chr => eaten <= xfer)
    /\ \A w \in out : w[1] < place /\ w[2] < source
    /\ InOrder

\* The counts that LossesCounted relates.
Counted ==
    /\ sxfer + fxfer <= xfer
    /\ fxfer <= HB * nrerr
    /\ xfer - sxfer <= SB * total

IInv == TypeOK /\ Levels /\ Clean /\ Ordered /\ Counted

USE BlocksAssumption

-----------------------------------------------------------------------------
(* A block. *)

\* A block is not empty, does not go beyond what is asked for and is at most a
\* soft block, or a hard one at the hard level.
LEMMA BlockSize ==
    ASSUME TypeOK, xfer < max
    PROVE  /\ toread \in Nat /\ toread > 0 /\ xfer + toread <= max /\ max <= Max
           /\ toread <= SB /\ (bs = "hard" => toread <= HB)
BY DEF TypeOK, toread, least, max, block

\* What writeblock returns.
LEMMA WrittenRange ==
    ASSUME TypeOK, NEW rd \in Nat
    PROVE  written(rd) \in 0 .. rd
BY DEF TypeOK, written

\* Writing what has been read keeps the output in order.
LEMMA WriteOrdered ==
    ASSUME TypeOK, Ordered, ~(i_chr /\ o_chr), NEW rd \in Nat, xfer + rd <= Max,
           writeblock(rd),
           sxfer' = sxfer + written(rd), xfer' \in Nat, xfer' >= xfer + rd, xfer' <= Max,
           eaten' = IF i_chr THEN eaten + rd ELSE 0,
           UNCHANGED <<i_chr, o_chr>>
    PROVE  Ordered' /\ out' \subseteq (0 .. Max - 1) \X (0 .. Max - 1)
<1>1. written(rd) \in 0 .. rd
  BY WrittenRange
<1>2. PICK n \in 0 .. rd : n = written(rd)
  BY <1>1
<1>3. out' = out \cup { <<place + k, source + k>> : k \in 0 .. n - 1 }
  BY <1>2 DEF writeblock
<1>4. /\ sxfer' = sxfer + n
      /\ i_chr \in BOOLEAN /\ o_chr \in BOOLEAN
      /\ xfer \in Nat /\ sxfer \in Nat /\ eaten \in Nat /\ Max \in Nat
      /\ place \in Nat /\ source \in Nat /\ place <= xfer /\ source <= xfer
      /\ out \subseteq (0 .. Max - 1) \X (0 .. Max - 1)
  BY <1>2 DEF TypeOK, place, source, Ordered
<1>5. /\ place' \in Nat /\ source' \in Nat /\ place' >= place + n /\ source' >= source + n
      /\ sxfer' <= xfer' /\ (i_chr' => eaten' <= xfer')
  BY <1>2, <1>4 DEF place, source, Ordered
<1>6. \A w \in out' : w[1] < place' /\ w[2] < source' /\ w \in (0 .. Max - 1) \X (0 .. Max - 1)
  <2> SUFFICES ASSUME NEW w \in out'
               PROVE  w[1] < place' /\ w[2] < source' /\ w \in (0 .. Max - 1) \X (0 .. Max - 1)
    OBVIOUS
  <2>1. CASE w \in out
    <3>1. w \in (0 .. Max - 1) \X (0 .. Max - 1) /\ w[1] \in Int /\ w[2] \in Int
      BY <2>1, <1>4
    <3>2. w[1] < place /\ w[2] < source
      BY <2>1 DEF Ordered
    <3> QED  BY <3>1, <3>2, <1>2, <1>4, <1>5
  <2>2. CASE \E k \in 0 .. n - 1 : w = <<place + k, source + k>>
    BY <2>2, <1>2, <1>4, <1>5
  <2> QED  BY <2>1, <2>2, <1>3
<1>7. InOrder'
  <2>1. ~i_chr' /\ ~o_chr' => \A w \in out' : w[1] = w[2]
    <3> SUFFICES ASSUME ~i_chr, ~o_chr, NEW w \in out' PROVE w[1] = w[2]
      OBVIOUS
    <3>1. CASE w \in out
      BY <3>1 DEF Ordered, InOrder
    <3>2. CASE \E k \in 0 .. n - 1 : w = <<place + k, source + k>>
      BY <3>2 DEF place, source
    <3> QED  BY <3>1, <3>2, <1>3
  <2>2. ASSUME NEW v \in out', NEW w \in out'
        PROVE  v[1] < w[1] <=> v[2] < w[2]
    <3>1. CASE v \in out /\ w \in out
      BY <3>1 DEF Ordered, InOrder
    <3>2. CASE v \in out /\ \E k \in 0 .. n - 1 : w = <<place + k, source + k>>
      <4>1. v[1] < place /\ v[2] < source /\ v[1] \in Int /\ v[2] \in Int
        BY <3>2, <1>4 DEF Ordered
      <4> QED  BY <3>2, <4>1, <1>2, <1>4
    <3>3. CASE w \in out /\ \E k \in 0 .. n - 1 : v = <<place + k, source + k>>
      <4>1. w[1] < place /\ w[2] < source /\ w[1] \in Int /\ w[2] \in Int
        BY <3>3, <1>4 DEF Ordered
      <4> QED  BY <3>3, <4>1, <1>2, <1>4
    <3>4. CASE /\ \E k \in 0 .. n - 1 : v = <<place + k, source + k>>
               /\ \E k \in 0 .. n - 1 : w = <<place + k, source + k>>
      BY <3>4, <1>2, <1>4
    <3> QED  BY <3>1, <3>2, <3>3, <3>4, <1>3
  <2> QED  BY <2>1, <2>2 DEF InOrder
<1> QED  BY <1>5, <1>6, <1>7 DEF Ordered

\* A block that has been read and written without an error leaves nothing out.
LEMMA WriteClean ==
    ASSUME TypeOK, Clean, total = 0, ~(i_chr /\ o_chr), NEW rd \in Nat,
           writeblock(rd), written(rd) = rd
    PROVE  out' = { <<p, p>> : p \in 0 .. xfer + rd - 1 }
<1>1. place = xfer /\ source = xfer /\ xfer \in Nat
  BY DEF TypeOK, Clean, place, source
<1>2. out' = out \cup { <<xfer + k, xfer + k>> : k \in 0 .. rd - 1 }
  BY <1>1 DEF writeblock
<1>3. \A k \in 0 .. rd - 1 : xfer + k \in 0 .. xfer + rd - 1
  BY <1>1
<1>4. \A p \in 0 .. xfer + rd - 1 :
         p \in 0 .. xfer - 1 \/ (p - xfer \in 0 .. rd - 1 /\ xfer + (p - xfer) = p)
  BY <1>1
<1> QED  BY <1>1, <1>2, <1>3, <1>4 DEF Clean

\* How a step changes the counts.
LEMMA CountStep ==
    ASSUME TypeOK, Counted, NEW dx \in Nat, NEW ds \in Nat, NEW df \in Nat,
           NEW dn \in Nat, NEW dt \in Nat,
           ds + df <= dx, df <= HB * dn, dx - ds <= SB * dt,
           xfer' = xfer + dx, sxfer' = sxfer + ds, fxfer' = fxfer + df,
           nrerr' = nrerr + dn, total' = total + dt
    PROVE  Counted'
<1>1. \A a, n, m \in Nat : a * (n + m) = a * n + a * m
  OBVIOUS
<1>2. nrerr \in Nat /\ total \in Nat /\ HB \in Nat /\ SB \in Nat
  BY DEF TypeOK, total
<1>3. HB * (nrerr + dn) = HB * nrerr + HB * dn /\ SB * (total + dt) = SB * total + SB * dt
  BY <1>1, <1>2
<1>4. \A a, n \in Nat : a * n \in Nat
  OBVIOUS
<1>5. HB * nrerr \in Nat /\ HB * dn \in Nat /\ SB * total \in Nat /\ SB * dt \in Nat
  BY <1>2, <1>4
<1> QED  BY <1>3, <1>5 DEF Counted, TypeOK

\* What readblock has read was there.
LEMMA ReadWasThere ==
    ASSUME TypeOK, Ordered, NEW n \in Nat, NEW rd, NEW e, readblock(n, rd, e)
    PROVE  rd \in 0 .. n /\ source \in Nat /\ (rd > 0 => source + rd <= len)
BY DEF readblock, TypeOK, source

\* A read that ends without an error and without a unit is the end of the input.
LEMMA EndIsEnd ==
    ASSUME TypeOK, NEW n \in Nat \ {0}, readblock(n, 0, "0")
    PROVE  source >= len
BY DEF readblock, TypeOK, source

-----------------------------------------------------------------------------
(* The invariant. *)

LEMMA Initially == Init => IInv
<1> SUFFICES ASSUME Init PROVE IInv
  OBVIOUS
<1>1. /\ bad \subseteq Nat /\ flaky \subseteq Nat /\ weak \subseteq Nat
      /\ len \in Nat /\ olen \in Nat
  BY MediaAssumption DEF Init
<1>2. TypeOK
  <2>1. xfer \in 0..Max /\ sxfer \in 0..Max /\ fxfer \in 0..Max /\ new_max \in 0..Max /\ old_xfer \in 0..Max
    BY DEF Init
  <2> QED  BY <1>1, <2>1 DEF Init, TypeOK
<1>3. Levels
  BY DEF Init, Levels, done
<1>4. Clean
  BY <1>1 DEF Init, Clean, total, done
<1>5. Ordered
  BY DEF Init, Ordered, InOrder
<1>6. Counted
  BY DEF Init, Counted, total
<1> QED  BY <1>2, <1>3, <1>4, <1>5, <1>6 DEF IInv

LEMMA BlockKeeps == IInv /\ CopyBlock => IInv'
<1> SUFFICES ASSUME IInv, CopyBlock PROVE IInv'
  OBVIOUS
<1> USE DEF IInv
<1> DEFINE n == toread
           lost == IF written(n) < n THEN 1 ELSE 0
<1>1. n \in Nat /\ n > 0 /\ xfer + n <= Max /\ xfer + n <= max /\ n <= SB
  BY BlockSize DEF CopyBlock, TypeOK, max
<1>2. written(n) \in 0 .. n
  BY <1>1, WrittenRange
<1>3. /\ writeblock(n) /\ sxfer' = sxfer + written(n) /\ xfer' = xfer + n
      /\ nrerr' = nrerr + lost /\ oneMore(lost) /\ endIteration(IF lost = 1 THEN "0" ELSE errno)
      /\ eaten' = IF i_chr THEN eaten + n ELSE 0
      /\ UNCHANGED <<media, gone, pc, bs, frames, fxfer, status>>
  BY DEF CopyBlock
<1> HIDE DEF n
<1>4. Ordered' /\ out' \subseteq (0 .. Max - 1) \X (0 .. Max - 1)
  BY <1>1, <1>3, WriteOrdered DEF TypeOK, Levels, media
<1>5. errno' \in {"0", "EIO", "EINVAL", "ENXIO"} /\ errno' # "ENXIO"
  BY <1>3 DEF endIteration, fsync, TypeOK, Levels, CopyBlock, done
<1>6. TypeOK'
  BY <1>1, <1>2, <1>3, <1>4, <1>5 DEF TypeOK, oneMore, media, frames, Ordered
<1>7. Levels'
  BY <1>3, <1>5 DEF Levels, oneMore, media, done, CopyBlock, TypeOK
<1>8. Clean'
  <2> SUFFICES ASSUME total' = 0 PROVE Clean'
    BY DEF Clean
  <2>1. total = 0 /\ written(n) = n
    BY <1>1, <1>2, <1>3 DEF total, oneMore, TypeOK
  <2>2. out' = { <<p, p>> : p \in 0 .. xfer + n - 1 }
    BY <1>1, <1>3, <2>1, WriteClean DEF Levels
  <2>3. source + n <= len
    BY <1>1, ReadWasThere DEF CopyBlock, n
  <2> QED  BY <1>1, <1>3, <2>1, <2>2, <2>3 DEF Clean, TypeOK, source, done, CopyBlock, media
<1>9. Counted'
  <2>1. total' = total + lost /\ lost \in Nat
    BY <1>3 DEF oneMore, total, TypeOK
  <2>2. n - written(n) <= SB * lost
    BY <1>1, <1>2
  <2>3. fxfer' = fxfer + 0 /\ 0 <= HB * lost
    BY <1>3 DEF TypeOK
  <2> QED  BY <1>1, <1>2, <1>3, <2>1, <2>2, <2>3, CountStep
<1> QED  BY <1>4, <1>6, <1>7, <1>8, <1>9

LEMMA FallBackKeeps == IInv /\ FallBack => IInv'
<1> SUFFICES ASSUME IInv, FallBack PROVE IInv'
  OBVIOUS
<1> USE DEF IInv
<1>1. pc = "copy" /\ xfer < max
  BY DEF FallBack, readError
<1>2. toread \in Nat /\ xfer + toread <= Max /\ toread <= SB
  BY <1>1, BlockSize DEF TypeOK, max
<1>3. PICK rd \in Nat :
         /\ rd < toread
         /\ eaten' = IF i_chr THEN eaten + rd ELSE 0
         /\ writeblock(rd)
         /\ nrerr' = nrerr + (IF written(rd) < rd THEN 1 ELSE 0)
         /\ errs' = errs + 1 + (IF written(rd) < rd THEN 1 ELSE 0)
         /\ sxfer' = sxfer + written(rd) /\ xfer' = xfer + rd
  BY <1>2 DEF FallBack, readError
<1>4. /\ new_max' = xfer + toread /\ old_xfer' = xfer' /\ call' = "rest"
      /\ bs' = "hard" /\ herrs' = 0 /\ errno' = "0"
      /\ UNCHANGED <<media, gone, pc, fxfer, status>>
  BY DEF FallBack
<1>5. xfer + rd <= Max /\ written(rd) \in 0 .. rd
  BY <1>2, <1>3, WrittenRange DEF TypeOK
<1>6. Ordered' /\ out' \subseteq (0 .. Max - 1) \X (0 .. Max - 1)
  BY <1>3, <1>4, <1>5, WriteOrdered DEF TypeOK, Levels, media
<1>7. TypeOK'
  BY <1>1, <1>2, <1>3, <1>4, <1>5, <1>6 DEF TypeOK, media, Ordered
<1>8. errs' > 0 /\ herrs' = 0 /\ total' # 0
  BY <1>3, <1>4 DEF TypeOK, total
<1>9. Levels'
  BY <1>1, <1>4, <1>8 DEF Levels, media, done
<1>10. Clean'
  BY <1>8 DEF Clean
<1>11. Counted'
  <2> DEFINE lost == IF written(rd) < rd THEN 1 ELSE 0
  <2>1. total' = total + (1 + lost) /\ lost \in Nat /\ 1 + lost \in Nat
    BY <1>3, <1>4 DEF Levels, total, TypeOK, FallBack
  <2>2. rd - written(rd) <= SB * (1 + lost)
    BY <1>2, <1>3, <1>5
  <2>3. fxfer' = fxfer + 0 /\ 0 <= HB * lost
    BY <1>4 DEF TypeOK
  <2>4. sxfer' = sxfer + written(rd) /\ xfer' = xfer + rd /\ nrerr' = nrerr + lost
    BY <1>3
  <2> QED  BY <1>5, <2>1, <2>2, <2>3, <2>4, CountStep
<1> QED  BY <1>6, <1>7, <1>9, <1>10, <1>11

\* A step that changes neither the output nor what has been taken from the input,
\* and reads nothing or skips it.
LEMMA SameOutput ==
    ASSUME TypeOK, Ordered, UNCHANGED <<i_chr, o_chr, out, sxfer>>,
           xfer' \in Nat, xfer' >= xfer,
           i_chr => eaten' \in Nat /\ eaten' >= eaten /\ eaten' <= xfer'
    PROVE  Ordered'
<1>1. place' >= place /\ source' >= source
      /\ place \in Nat /\ place' \in Nat /\ source \in Nat /\ source' \in Nat
  BY DEF place, source, TypeOK
<1>2. \A w \in out' : w[1] < place' /\ w[2] < source'
  <2> SUFFICES ASSUME NEW w \in out PROVE w[1] < place' /\ w[2] < source'
    OBVIOUS
  <2>1. w[1] < place /\ w[2] < source /\ w[1] \in Int /\ w[2] \in Int
    BY DEF Ordered, TypeOK
  <2> QED  BY <1>1, <2>1
<1>3. InOrder'
  BY DEF Ordered, InOrder
<1> QED  BY <1>2, <1>3 DEF Ordered, TypeOK

LEMMA SkipKeeps == IInv /\ SkipBlock => IInv'
<1> SUFFICES ASSUME IInv, SkipBlock PROVE IInv'
  OBVIOUS
<1> USE DEF IInv
<1>1. pc = "copy" /\ xfer < max /\ bs = "hard"
  BY DEF SkipBlock, readError
<1>2. toread \in Nat /\ toread > 0 /\ xfer + toread <= Max /\ toread <= HB
  BY <1>1, BlockSize DEF TypeOK, max
<1>3. PICK rd \in Nat : rd < toread /\ eaten' = IF i_chr THEN eaten + rd ELSE 0
  BY <1>2 DEF SkipBlock, readError
<1>4. /\ oneMore(1) /\ nrerr' = nrerr + 1 /\ fxfer' = fxfer + toread /\ xfer' = xfer + toread
      /\ endIteration("0")
      /\ UNCHANGED <<media, gone, pc, bs, frames, sxfer, out, status>>
  BY DEF SkipBlock
<1>5. errno' \in {"0", "EIO", "EINVAL", "ENXIO"} /\ errno' # "ENXIO"
  BY <1>4 DEF endIteration, fsync
<1>6. errs' = errs /\ herrs' = herrs + 1 /\ total' # 0
  BY <1>1, <1>4 DEF oneMore, total, TypeOK
<1>7. fxfer <= xfer
  BY DEF Counted, TypeOK
<1>8. TypeOK'
  BY <1>1, <1>2, <1>3, <1>4, <1>5, <1>6, <1>7 DEF TypeOK, media, frames
<1>9. Ordered'
  <2>1. xfer' \in Nat /\ xfer' >= xfer /\ sxfer' = sxfer /\ out' = out
        /\ i_chr' = i_chr /\ o_chr' = o_chr
    BY <1>2, <1>4 DEF TypeOK, media
  <2>2. i_chr => eaten' \in Nat /\ eaten' >= eaten /\ eaten' <= xfer'
    BY <1>2, <1>3, <1>4 DEF TypeOK, Ordered
  <2> QED  BY <2>1, <2>2, SameOutput
<1>10. Levels'
  BY <1>1, <1>4, <1>5, <1>6 DEF Levels, media, done
<1>11. Clean'
  BY <1>6 DEF Clean
<1>12. Counted'
  <2>1. total' = total + 1
    BY <1>6 DEF total, TypeOK
  <2>2. toread <= HB * 1 /\ toread - 0 <= SB * 1 /\ sxfer' = sxfer + 0
    BY <1>2, <1>4 DEF TypeOK
  <2> QED  BY <1>2, <1>4, <2>1, <2>2, CountStep
<1> QED  BY <1>8, <1>9, <1>10, <1>11, <1>12

\* Every other step leaves the output, the counts and the errors alone.
LEMMA QuietKeeps ==
    ASSUME IInv, TypeOK', Levels',
           UNCHANGED <<i_chr, o_chr, len, out, eaten, xfer, sxfer, fxfer, nrerr>>,
           total' = total,
           total = 0 /\ (pc' = "main" \/ (pc' = "done" /\ ~Cut')) => xfer = Max \/ xfer = len
    PROVE  IInv'
<1> USE DEF IInv
<1>1. Ordered'
  BY SameOutput DEF TypeOK, Ordered
<1>2. Counted'
  BY DEF Counted
<1>3. ASSUME total = 0
      PROVE  out' = { <<p, p>> : p \in 0 .. xfer' - 1 } /\ sxfer' = xfer' /\ xfer' <= len'
                /\ (i_chr' => eaten' = xfer')
  BY <1>3 DEF Clean
<1>4. Clean'
  BY <1>3 DEF Clean, done
<1> QED  BY <1>1, <1>2, <1>4

LEMMA EndsKeep == IInv /\ (MaxReached \/ EndOfFile \/ FatalError) => IInv'
<1> USE DEF IInv
<1>1. ASSUME IInv, MaxReached PROVE IInv'
  <2>1. TypeOK' /\ Levels'
    BY <1>1 DEF MaxReached, TypeOK, Levels, return, media, frames, counts, done
  <2>2. total' = total
    BY <1>1 DEF MaxReached, total
  <2>3. total = 0 => xfer = Max
    BY <1>1 DEF MaxReached, TypeOK, Levels, total, max
  <2> QED  BY <1>1, <2>1, <2>2, <2>3, QuietKeeps DEF MaxReached, media, counts
<1>2. ASSUME IInv, EndOfFile PROVE IInv'
  <2>1. TypeOK' /\ Levels'
    BY <1>2 DEF EndOfFile, TypeOK, Levels, return, media, frames, counts, done
  <2>2. total' = total
    BY <1>2 DEF EndOfFile, total
  <2>3. toread \in Nat \ {0}
    BY <1>2, BlockSize DEF EndOfFile
  <2>4. source >= len
    BY <1>2, <2>3, EndIsEnd DEF EndOfFile
  <2>5. total = 0 => xfer = len
    BY <1>2, <2>4 DEF Clean, source, TypeOK
  <2> QED  BY <1>2, <2>1, <2>2, <2>5, QuietKeeps DEF EndOfFile, media, counts
<1>3. ASSUME IInv, FatalError PROVE IInv'
  <2>1. pc = "copy" /\ xfer < max
    BY <1>3 DEF FatalError, readError
  <2>2. toread \in Nat /\ xfer + toread <= Max
    BY <1>3, <2>1, BlockSize DEF TypeOK, max
  <2>3. PICK rd \in Nat :
           /\ rd < toread /\ eaten' = IF i_chr THEN eaten + rd ELSE 0
           /\ \E e \in {"0", "EIO", "EINVAL", "ENXIO"} :
                 readblock(toread, rd, e) /\ "ENXIO" \in fsync(e, out)
    BY <1>3, <2>2 DEF FatalError, readError
  <2>4. /\ oneMore(1) /\ errno' = "ENXIO" /\ status' = 20 /\ pc' = "done"
        /\ UNCHANGED <<media, gone, bs, frames, counts, out>>
    BY <1>3 DEF FatalError
  <2>5. total' = total + 1 /\ total' # 0
    BY <1>3, <2>4 DEF oneMore, total, TypeOK
  <2>6. TypeOK'
    BY <1>3, <2>2, <2>3, <2>4 DEF TypeOK, oneMore, media, frames, counts
  <2>7. Levels'
    BY <1>3, <2>4 DEF Levels, oneMore, media, done, Cut, TypeOK
  <2>8. Clean'
    BY <2>5 DEF Clean
  <2>9. Ordered'
    <3>1. ~i_chr
      BY <1>3, <2>1, <2>3 DEF readblock, fsync, Levels, done, Cut
    <3>2. xfer' \in Nat /\ xfer' = xfer /\ sxfer' = sxfer /\ out' = out
          /\ i_chr' = i_chr /\ o_chr' = o_chr
      BY <1>3, <2>4 DEF TypeOK, media, counts
    <3> QED  BY <1>3, <3>1, <3>2, SameOutput DEF TypeOK
  <2>10. Counted'
    <3>1. /\ xfer' = xfer + 0 /\ sxfer' = sxfer + 0 /\ fxfer' = fxfer + 0 /\ nrerr' = nrerr + 0
          /\ 0 <= HB * 0 /\ 0 - 0 <= SB * 1
      BY <1>3, <2>4 DEF TypeOK, counts
    <3> QED  BY <1>3, <2>5, <3>1, CountStep
  <2> QED  BY <2>6, <2>7, <2>8, <2>9, <2>10
<1> QED  BY <1>1, <1>2, <1>3

LEMMA BackKeeps == IInv /\ (EndOfSmall \/ StaySmall \/ Promote) => IInv'
<1> USE DEF IInv
<1>1. ASSUME IInv, EndOfSmall \/ StaySmall \/ Promote PROVE total' = total /\ errs' > 0
  BY <1>1 DEF EndOfSmall, StaySmall, Promote, Back, TypeOK, Levels, total
<1>2. ASSUME IInv, EndOfSmall PROVE IInv'
  <2>1. TypeOK' /\ Levels'
    BY <1>2, <1>1 DEF EndOfSmall, Back, TypeOK, Levels, media, frames, counts, done, Cut
  <2> QED  BY <1>1, <1>2, <2>1, QuietKeeps DEF EndOfSmall, Back, media, counts, Levels, total, TypeOK
<1>3. ASSUME IInv, StaySmall PROVE IInv'
  <2>1. new_max' \in 0 .. Max
    BY <1>3 DEF StaySmall, TypeOK, least
  <2>2. TypeOK'
    BY <1>3, <2>1 DEF StaySmall, TypeOK, media, counts
  <2>3. Levels'
    BY <1>3, <1>1 DEF StaySmall, Levels, media, done, Cut
  <2> QED  BY <1>1, <1>3, <2>2, <2>3, QuietKeeps DEF StaySmall, media, counts
<1>4. ASSUME IInv, Promote PROVE IInv'
  <2>1. TypeOK' /\ Levels'
    BY <1>4, <1>1 DEF Promote, Back, endIteration, fsync, TypeOK, Levels, media, frames, counts, done, Cut
  <2> QED  BY <1>1, <1>4, <2>1, QuietKeeps DEF Promote, Back, media, counts
<1> QED  BY <1>2, <1>3, <1>4

LEMMA OutsideKeeps == IInv /\ (Exit \/ BrokenPipe \/ LoseDevice) => IInv'
<1> USE DEF IInv
<1>1. ASSUME IInv, Exit PROVE IInv'
  <2>1. errs % StatusSize \in Nat
    BY <1>1 DEF TypeOK
  <2>2. TypeOK' /\ Levels'
    BY <1>1, <2>1 DEF Exit, TypeOK, Levels, media, frames, counts, done, Cut
  <2>3. total = 0 => xfer = Max \/ xfer = len
    BY <1>1 DEF Exit, Clean
  <2> QED  BY <1>1, <2>2, <2>3, QuietKeeps DEF Exit, media, counts, total
<1>2. ASSUME IInv, BrokenPipe PROVE IInv'
  <2>1. TypeOK' /\ Levels'
    BY <1>2 DEF BrokenPipe, TypeOK, Levels, media, frames, counts, done, Cut
  <2>2. pc' # "main" /\ Cut'
    BY <1>2 DEF BrokenPipe, Cut
  <2>3. total' = total
    BY <1>2 DEF BrokenPipe, total
  <2> QED  BY <1>2, <2>1, <2>2, <2>3, QuietKeeps DEF BrokenPipe, media, counts
<1>3. ASSUME IInv, LoseDevice PROVE IInv'
  <2>1. TypeOK' /\ Levels'
    BY <1>3 DEF LoseDevice, TypeOK, Levels, media, frames, counts, done, Cut
  <2>2. total = 0 /\ pc = "main" => xfer = Max \/ xfer = len
    BY <1>3 DEF Clean
  <2>3. total' = total /\ pc' = pc /\ pc # "done"
    BY <1>3 DEF LoseDevice, total
  <2> QED  BY <1>3, <2>1, <2>2, <2>3, QuietKeeps DEF LoseDevice, media, counts
<1> QED  BY <1>1, <1>2, <1>3

LEMMA Step == IInv /\ [Next]_vars => IInv'
<1>1. ASSUME IInv, UNCHANGED vars PROVE IInv'
  BY <1>1 DEF IInv, TypeOK, Levels, Clean, Ordered, InOrder, Counted, total, done, Cut, place, source,
              vars, media, frames, counts
<1> QED  BY <1>1, BlockKeeps, FallBackKeeps, SkipKeeps, EndsKeep, BackKeeps, OutsideKeeps
         DEF Next, Work

-----------------------------------------------------------------------------
(* The theorems. *)

THEOREM Invariance == Spec => []IInv
<1>1. Init => IInv
  BY Initially
<1>2. IInv /\ [Next]_vars => IInv'
  BY Step
<1> QED  BY <1>1, <1>2, PTL DEF Spec

\* The variables of copyfile stay in their ranges: xfer never passes what -m asks
\* for, at either level.
THEOREM TypeCorrect == Spec => []TypeOK
<1>1. IInv => TypeOK
  BY DEF IInv
<1> QED  BY <1>1, Invariance, PTL

\* What is kept of an output in which every unit is at its place.
LEMMA KeptInPlace ==
    ASSUME NEW n, out = { <<p, p>> : p \in 0 .. n - 1 }
    PROVE  kept = { <<p, p>> : p \in (0 .. n - 1) \ weak }
<1>1. ASSUME NEW w \in kept PROVE w \in { <<p, p>> : p \in (0 .. n - 1) \ weak }
  <2>1. PICK p \in 0 .. n - 1 : w = <<p, p>>
    BY DEF kept
  <2> QED  BY <2>1 DEF kept
<1>2. ASSUME NEW p \in (0 .. n - 1) \ weak PROVE <<p, p>> \in kept
  BY DEF kept
<1> QED  BY <1>1, <1>2

\* For every size, every pattern of bad places and every way a pipe delivers: as
\* long as the number of errors fits into the status, status 0 means that all
\* there was has been copied to its place, where the device has it unless it has
\* dropped it after taking it.
THEOREM ZeroStatusIsComplete == Spec => []ZeroIsComplete
<1>1. IInv => ZeroIsComplete
  <2> SUFFICES ASSUME IInv, done, status = 0, total < StatusSize
               PROVE  /\ xfer = Max \/ xfer = len
                      /\ kept = { <<p, p>> : p \in (0 .. xfer - 1) \ weak }
    BY DEF ZeroIsComplete
  <2>1. herrs = 0 /\ errs % StatusSize = 0 /\ errs \in Nat /\ errs < StatusSize
    BY DEF IInv, Levels, TypeOK, total, Cut
  <2>2. total = 0
    BY <2>1 DEF total
  <2>3. /\ xfer = Max \/ xfer = len
        /\ out = { <<p, p>> : p \in 0 .. xfer - 1 }
    BY <2>2 DEF IInv, Clean, Cut
  <2> QED  BY <2>3, KeptInPlace
<1> QED  BY <1>1, Invariance, PTL

\* What gets into a pipe keeps its order and comes once, and what gets onto a
\* device from a device is where it was, whatever could not be read.
THEOREM OutputInOrder == Spec => []InOrder
<1>1. IInv => InOrder
  BY DEF IInv, Ordered
<1> QED  BY <1>1, Invariance, PTL

\* The units kept of an output in which every unit is at its place.
LEMMA UnitsInPlace ==
    ASSUME NEW n, NEW D, NEW S, S = { <<p, p>> : p \in 0 .. n - 1 }
    PROVE  { w[2] : w \in { v \in S : v[1] \notin D } } = (0 .. n - 1) \ D
<1> DEFINE K == { v \in S : v[1] \notin D }
<1>1. ASSUME NEW p \in (0 .. n - 1) \ D PROVE p \in { w[2] : w \in K }
  <2>1. <<p, p>> \in K /\ <<p, p>>[2] = p
    OBVIOUS
  <2> QED  BY <2>1
<1>2. ASSUME NEW w \in K PROVE w[2] \in (0 .. n - 1) \ D
  OBVIOUS
<1> QED  BY <1>1, <1>2

\* A step of copyfile that passes dx units and counts dt errors.
LEMMA PassStep ==
    ASSUME IInv, Clean', out \subseteq out', weak' = weak, ~done, ~done',
           NEW dx \in Nat, dx > 0, xfer' = xfer + dx, xfer + dx <= Max,
           NEW dt \in Nat, total' = total + dt
    PROVE  Spare!Pass
<1> USE DEF IInv
<1>1. { w[2] : w \in kept } \subseteq { w[2] : w \in kept' }
  BY DEF kept
<1>2. xfer' \in xfer + 1 .. Max
  BY DEF TypeOK
<1>3. total \in Nat
  BY DEF TypeOK, total
<1>4. (total > 0 => total' > 0) /\ (~(total' > 0) => total' = 0)
  BY <1>3
<1>5. total' = 0 => { w[2] : w \in kept' } = (0 .. xfer' - 1) \ weak
  BY UnitsInPlace DEF Clean, kept
<1> QED  BY <1>1, <1>2, <1>4, <1>5 DEF Spare!Pass

\* A step by which nothing is passed.
LEMMA StillStep ==
    ASSUME IInv, UNCHANGED <<xfer, out, weak>>, ~done,
           NEW dt \in Nat, total' = total + dt, dt = 0 \/ (dt > 0 /\ ~done') \/ done'
    PROVE  Spare!Trouble \/ Spare!End \/ UNCHANGED Spare!copyVars
<1> USE DEF IInv
<1>0. kept' = kept
  BY DEF kept
<1>1. total \in Nat
  BY DEF TypeOK, total
<1>2. total > 0 => total' > 0
  BY <1>1
<1>3. CASE done'
  BY <1>2, <1>3, <1>0 DEF Spare!End
<1>4. CASE ~done' /\ dt > 0
  <2>1. total' > 0 /\ done' = done
    BY <1>1, <1>4 DEF done
  <2> QED  BY <2>1, <1>0 DEF Spare!Trouble
<1>5. CASE ~done' /\ dt = 0
  <2>1. total' = total /\ done' = done
    BY <1>1, <1>5 DEF done
  <2> QED  BY <2>1, <1>0 DEF Spare!copyVars
<1> QED  BY <1>3, <1>4, <1>5

\* What oneMore counts is in the total.
LEMMA CountedOne ==
    ASSUME TypeOK, NEW n \in Nat, oneMore(n)
    PROVE  total' = total + n
BY DEF oneMore, total, TypeOK

LEMMA StepsCopy ==
    ASSUME IInv, IInv', Next
    PROVE  Spare!Next \/ UNCHANGED Spare!copyVars
<1> USE DEF IInv
<1>0. weak' = weak
  BY DEF Next, Work, MaxReached, EndOfFile, CopyBlock, FatalError, SkipBlock, FallBack, EndOfSmall,
         StaySmall, Promote, Back, Exit, BrokenPipe, LoseDevice, media
<1>1. CASE CopyBlock
  <2>1. toread \in Nat /\ toread > 0 /\ xfer + toread <= Max
    BY <1>1, BlockSize DEF CopyBlock, TypeOK, max
  <2>2. out \subseteq out' /\ xfer' = xfer + toread /\ ~done /\ ~done'
    BY <1>1 DEF CopyBlock, writeblock, done
  <2>3. oneMore(IF written(toread) < toread THEN 1 ELSE 0)
    BY <1>1 DEF CopyBlock
  <2>4. PICK dt \in {0, 1} : total' = total + dt
    BY <2>3, CountedOne
  <2> QED  BY <1>0, <2>1, <2>2, <2>4, PassStep DEF Spare!Next
<1>2. CASE SkipBlock
  <2>1. pc = "copy" /\ xfer < max
    BY <1>2 DEF SkipBlock, readError
  <2>2. toread \in Nat /\ toread > 0 /\ xfer + toread <= Max
    BY <2>1, BlockSize DEF TypeOK, max
  <2>3. out \subseteq out' /\ xfer' = xfer + toread /\ ~done /\ ~done'
    BY <1>2, <2>1 DEF SkipBlock, done
  <2>4. total' = total + 1
    BY <1>2, CountedOne DEF SkipBlock
  <2> QED  BY <1>0, <2>2, <2>3, <2>4, PassStep DEF Spare!Next
<1>3. CASE FallBack
  <2>1. pc = "copy" /\ xfer < max
    BY <1>3 DEF FallBack, readError
  <2>2. toread \in Nat /\ xfer + toread <= Max
    BY <2>1, BlockSize DEF TypeOK, max
  <2>3. PICK rd \in Nat :
           /\ rd < toread /\ writeblock(rd) /\ xfer' = xfer + rd
           /\ errs' = errs + 1 + (IF written(rd) < rd THEN 1 ELSE 0)
    BY <1>3, <2>2 DEF FallBack
  <2>4. herrs = 0 /\ herrs' = 0 /\ ~done /\ ~done'
    BY <1>3, <2>1 DEF FallBack, Levels, done
  <2>5. PICK dt \in {1, 2} : total' = total + dt
    BY <2>3, <2>4 DEF total, TypeOK
  <2>6. CASE rd > 0
    <3>1. out \subseteq out' /\ xfer + rd <= Max
      BY <2>2, <2>3 DEF writeblock, TypeOK
    <3> QED  BY <1>0, <2>3, <2>4, <2>5, <2>6, <3>1, PassStep DEF Spare!Next
  <2>7. CASE rd = 0
    <3>1. written(rd) \in 0 .. 0
      BY <2>7, WrittenRange
    <3>2. out' = out
      BY <2>3, <3>1, <2>7 DEF writeblock
    <3>3. xfer' = xfer
      BY <2>3, <2>7 DEF TypeOK
    <3> QED  BY <1>0, <2>4, <2>5, <3>2, <3>3, StillStep DEF Spare!Next
  <2> QED  BY <2>3, <2>6, <2>7
<1>4. CASE FatalError
  <2>1. ~done /\ done' /\ xfer' = xfer /\ out' = out
    BY <1>4 DEF FatalError, readError, done, counts
  <2>2. oneMore(1)
    BY <1>4 DEF FatalError
  <2>3. total' = total + 1
    BY <2>2, CountedOne
  <2> QED  BY <1>0, <2>1, <2>3, StillStep DEF Spare!Next
<1>5. CASE MaxReached \/ EndOfFile \/ EndOfSmall \/ StaySmall \/ Promote \/ Exit \/ BrokenPipe
           \/ LoseDevice
  <2>1. ~done /\ xfer' = xfer /\ out' = out
    BY <1>5 DEF MaxReached, EndOfFile, EndOfSmall, StaySmall, Promote, Back, Exit, BrokenPipe,
                LoseDevice, counts, done
  <2>2. total' = total + 0
    <3>1. errs \in Nat /\ herrs \in Nat
      BY DEF TypeOK
    <3>2. CASE EndOfSmall \/ StaySmall \/ Promote
      BY <3>1, <3>2 DEF EndOfSmall, StaySmall, Promote, Back, total
    <3>3. CASE MaxReached \/ EndOfFile \/ Exit \/ BrokenPipe \/ LoseDevice
      BY <3>1, <3>3 DEF MaxReached, EndOfFile, Exit, BrokenPipe, LoseDevice, total
    <3> QED  BY <1>5, <3>2, <3>3
  <2> QED  BY <1>0, <2>1, <2>2, StillStep DEF Spare!Next
<1> QED  BY <1>1, <1>2, <1>3, <1>4, <1>5 DEF Next, Work

\* dd_rescue is a copy that counts an error before it passes anything that it has
\* not read or that write() has not accepted: every behaviour, seen through xfer,
\* the units the output keeps, the places that drop theirs, the errors and the
\* end, is one of Copy.
THEOREM RefinesCopy == Spec => ImplementsCopy
<1>1. Init => Spare!Init
  <2>1. Init => kept = {}
    BY DEF Init, kept
  <2>2. Init => weak \subseteq Nat
    BY MediaAssumption DEF Init
  <2> QED  BY <2>1, <2>2 DEF Init, Spare!Init, total, done
<1>2. ASSUME IInv, IInv', [Next]_vars PROVE [Spare!Next]_Spare!copyVars
  <2>1. CASE UNCHANGED vars
    BY <2>1 DEF Spare!copyVars, vars, media, counts, total, done, kept
  <2> QED  BY <1>2, <2>1, StepsCopy
<1> QED  BY <1>1, <1>2, Invariance, PTL DEF Spec, Spare!Spec, ImplementsCopy

-----------------------------------------------------------------------------
(* The number of units in the output. *)

CountedOut == IsFiniteSet(out) /\ Cardinality(out) = sxfer

\* What writeblock adds to an output.
Pieces(a, b, n) == { <<a + k, b + k>> : k \in 0 .. n - 1 }

LEMMA PiecesCount ==
    ASSUME NEW a \in Nat, NEW b \in Nat, NEW n \in Nat
    PROVE  IsFiniteSet(Pieces(a, b, n)) /\ Cardinality(Pieces(a, b, n)) = n
<1> DEFINE S == Pieces(a, b, n)
           f == [k \in 0 .. n - 1 |-> <<a + k, b + k>>]
<1>1. f \in [0 .. n - 1 -> S]
  BY DEF Pieces
<1>2. \A k, m \in 0 .. n - 1 : f[k] = f[m] => k = m
  <2> SUFFICES ASSUME NEW k \in 0 .. n - 1, NEW m \in 0 .. n - 1, f[k] = f[m] PROVE k = m
    OBVIOUS
  <2>1. <<a + k, b + k>> = <<a + m, b + m>>
    OBVIOUS
  <2>2. a + k = a + m
    BY <2>1
  <2> QED  BY <2>2
<1>3. \A t \in S : \E k \in 0 .. n - 1 : f[k] = t
  BY DEF Pieces
<1> HIDE DEF f
<1>4. f \in Bijection(0 .. n - 1, S)
  BY <1>1, <1>2, <1>3 DEF Bijection, Injection, Surjection, IsInjective
<1>5. IsFiniteSet(0 .. n - 1) /\ Cardinality(0 .. n - 1) = n
  <2>1. 0 \in Int /\ n - 1 \in Int
    OBVIOUS
  <2> QED  BY <2>1, FS_Interval
<1>6. ExistsBijection(0 .. n - 1, S)
  BY <1>4 DEF ExistsBijection
<1> HIDE DEF S
<1>7. IsFiniteSet(S) /\ Cardinality(S) = Cardinality(0 .. n - 1)
  BY <1>5, <1>6, FS_Bijection
<1> QED  BY <1>5, <1>7 DEF S

LEMMA WriteCounted ==
    ASSUME IInv, CountedOut, NEW rd \in Nat, writeblock(rd), sxfer' = sxfer + written(rd)
    PROVE  CountedOut'
<1> USE DEF IInv
<1>1. PICK n \in Nat : n = written(rd)
  BY WrittenRange
<1> DEFINE S == Pieces(place, source, n)
<1>2. out' = out \cup S
  BY <1>1 DEF writeblock, Pieces
<1>3. place \in Nat /\ source \in Nat
  BY DEF place, source, TypeOK
<1>4. out \cap S = {}
  <2> SUFFICES ASSUME NEW w \in out, NEW k \in 0 .. n - 1, w = <<place + k, source + k>>
               PROVE  FALSE
    BY DEF Pieces
  <2>1. w[1] < place /\ w[1] = place + k
    BY DEF Ordered
  <2> QED  BY <2>1, <1>3
<1>5. IsFiniteSet(S) /\ Cardinality(S) = n
  BY <1>3, PiecesCount
<1>6. Cardinality({}) = 0
  BY FS_EmptySet
<1> HIDE DEF S
<1>7. IsFiniteSet(out') /\ Cardinality(out') = Cardinality(out) + n - 0
  BY <1>2, <1>4, <1>5, <1>6, FS_Union DEF CountedOut
<1>8. Cardinality(out') = sxfer'
  BY <1>1, <1>7 DEF CountedOut, TypeOK
<1> QED  BY <1>7, <1>8 DEF CountedOut

LEMMA CountKeeps == IInv /\ CountedOut /\ [Next]_vars => CountedOut'
<1> SUFFICES ASSUME IInv, CountedOut, [Next]_vars PROVE CountedOut'
  OBVIOUS
<1> USE DEF IInv
<1>1. CASE CopyBlock
  <2>1. toread \in Nat
    BY <1>1, BlockSize DEF CopyBlock
  <2> QED  BY <1>1, <2>1, WriteCounted DEF CopyBlock
<1>2. CASE FallBack
  <2>1. toread \in Nat
    BY <1>2, BlockSize DEF FallBack, readError
  <2>2. PICK rd \in Nat : writeblock(rd) /\ sxfer' = sxfer + written(rd)
    BY <1>2, <2>1 DEF FallBack
  <2> QED  BY <2>2, WriteCounted
<1>3. CASE ~CopyBlock /\ ~FallBack
  <2>1. out' = out /\ sxfer' = sxfer
    BY <1>3 DEF Next, Work, MaxReached, EndOfFile, FatalError, SkipBlock, EndOfSmall, StaySmall,
                Promote, Back, Exit, BrokenPipe, LoseDevice, vars, counts
  <2> QED  BY <2>1 DEF CountedOut
<1> QED  BY <1>1, <1>2, <1>3

\* The summary and the status tell of the same losses: what write() has accepted
\* is what sxfer says, and what it has not is accounted for by the errors.
THEOREM LossesAreCounted == Spec => []LossesCounted
<1>1. Init => CountedOut
  BY FS_EmptySet DEF Init, CountedOut
<1>2. IInv /\ CountedOut => LossesCounted
  BY DEF IInv, Counted, CountedOut, LossesCounted
<1> QED  BY <1>1, <1>2, CountKeeps, Invariance, PTL DEF Spec

-----------------------------------------------------------------------------
(* Without a reason there is no error. *)

\* Everything can be read and written, and the device is there.
Perfect ==
    /\ bad \cup flaky = {} /\ ~gone /\ len >= Max
    /\ o_chr \/ (olen >= Max /\ weak = {})

\* Then copyfile never gets to the hard level.  That nothing is left in errno when
\* the input is a pipe is needed because readblock gives up on a short read then.
Untroubled ==
    Perfect =>
        /\ total = 0 /\ bs = "soft" /\ pc # "back"
        /\ i_chr => errno = "0"
        /\ done => status \in {0, 141}

LEMMA PerfectBefore == Perfect' /\ [Next]_vars => Perfect
<1> SUFFICES ASSUME Perfect', [Next]_vars PROVE Perfect
  OBVIOUS
<1>1. UNCHANGED media /\ (gone => gone')
  BY DEF Next, Work, MaxReached, EndOfFile, CopyBlock, FatalError, SkipBlock, FallBack, EndOfSmall,
         StaySmall, Promote, Back, Exit, BrokenPipe, LoseDevice, readError, vars
<1> QED  BY <1>1 DEF Perfect, media

\* Every read is whole.
LEMMA NoReadError ==
    ASSUME IInv, Perfect, Untroubled, NEW rd, NEW f, readError(rd, f)
    PROVE  FALSE
<1> USE DEF IInv
<1>1. /\ pc = "copy" /\ xfer < max /\ rd < toread
      /\ \E e : readblock(toread, rd, e)
  BY DEF readError
<1>2. toread \in Nat /\ xfer + toread <= Max
  BY <1>1, BlockSize DEF TypeOK, max
<1>3. PICK e : readblock(toread, rd, e)
  BY <1>1
<1>4. source = xfer /\ xfer \in Nat /\ len \in Nat /\ len >= Max
  BY DEF Untroubled, Clean, source, TypeOK, Perfect
<1>5. rd \in Nat /\ rd < toread
  BY <1>1, <1>2, <1>3 DEF readblock
<1>6. ~(source + rd >= len)
  BY <1>2, <1>4, <1>5
<1>7. ~Fails(source + rd)
  BY DEF Fails, Perfect
<1>8. ~(i_chr /\ errno # "0")
  BY DEF Untroubled
<1>9. rd # toread
  BY <1>2, <1>5
<1> QED  BY <1>3, <1>5, <1>6, <1>7, <1>8, <1>9 DEF readblock

LEMMA UntroubledStep == IInv /\ Untroubled /\ [Next]_vars => Untroubled'
<1> SUFFICES ASSUME IInv, Untroubled, [Next]_vars, Perfect' PROVE Untroubled'
  BY DEF Untroubled
<1> USE DEF IInv
<1>1. Perfect
  BY PerfectBefore
<1>2. total = 0 /\ errs = 0 /\ herrs = 0 /\ bs = "soft" /\ pc # "back" /\ (i_chr => errno = "0")
  BY <1>1 DEF Untroubled, total, TypeOK
<1>3. ASSUME NEW rd, NEW f PROVE ~readError(rd, f)
  BY <1>1, NoReadError
<1>4. CASE CopyBlock
  <2>1. toread \in Nat /\ xfer + toread <= Max
    BY <1>4, BlockSize DEF CopyBlock, TypeOK, max
  <2>2. written(toread) = toread
    BY <1>1, <2>1 DEF written, Perfect, TypeOK
  <2>3. oneMore(0) /\ endIteration(errno) /\ UNCHANGED <<media, pc, bs>> /\ pc = "copy"
    BY <1>4, <2>1, <2>2 DEF CopyBlock
  <2>4. total' = 0 /\ ~done'
    BY <1>2, <2>3 DEF oneMore, total, done
  <2>5. i_chr => errno' = "0"
    BY <1>1, <1>2, <2>3 DEF endIteration, fsync, Perfect, Levels
  <2> QED  BY <1>2, <2>3, <2>4, <2>5 DEF Untroubled, media
<1>5. CASE FatalError \/ SkipBlock \/ FallBack
  BY <1>3, <1>5 DEF FatalError, SkipBlock, FallBack
<1>6. CASE MaxReached \/ EndOfFile
  BY <1>2, <1>6 DEF MaxReached, EndOfFile, return, Untroubled, total, done, media
<1>7. CASE EndOfSmall \/ StaySmall \/ Promote
  BY <1>2, <1>7 DEF EndOfSmall, StaySmall, Promote, Back
<1>8. CASE Exit
  <2>1. errs % StatusSize = 0
    BY <1>2
  <2> QED  BY <1>2, <1>8, <2>1 DEF Exit, Untroubled, total, done, media
<1>9. CASE BrokenPipe
  BY <1>2, <1>9 DEF BrokenPipe, Untroubled, total, done, media
<1>10. CASE LoseDevice
  BY <1>10 DEF LoseDevice, Perfect
<1>11. CASE UNCHANGED vars
  BY <1>2, <1>1, <1>11 DEF vars, media, Untroubled, total, done
<1> QED  BY <1>4, <1>5, <1>6, <1>7, <1>8, <1>9, <1>10, <1>11 DEF Next, Work

\* If everything can be read and written, the status is 0, whatever pieces a pipe
\* delivers and whatever fsync of a pipe leaves in errno.
THEOREM FalseAlarmsNever == Spec => []NoFalseAlarm
<1>1. Init => Untroubled
  BY DEF Init, Untroubled, total, done
<1>2. Untroubled => NoFalseAlarm
  BY DEF Untroubled, NoFalseAlarm, Perfect
<1> QED  BY <1>1, <1>2, UntroubledStep, Invariance, PTL DEF Spec

-----------------------------------------------------------------------------
(* Only what is near a bad place is lost. *)

\* Unit p has been written, had no place there, does not exist, or is in the hard
\* block of a unit that is bad or beyond the end.
Accounted(p) ==
    \/ p >= len \/ (~o_chr /\ p >= olen)
    \/ \E w \in out : w[2] = p
    \/ \E q \in bad \cup flaky : p - HB < q /\ q < p + HB
    \/ len < xfer /\ p > len - HB

\* What has been accounted for stays so, so that only new units count.
LEMMA AccountedStays ==
    ASSUME IInv, IInv', RescuesTheRest, ~i_chr, ~gone, out \subseteq out', xfer' >= xfer,
           UNCHANGED <<o_chr, len, olen, bad, flaky>>, NEW p, p \in 0 .. xfer - 1
    PROVE  Accounted(p)'
<1>1. xfer \in Nat /\ xfer' \in Nat /\ len \in Nat
  BY DEF IInv, TypeOK
<1>2. Accounted(p)
  BY DEF RescuesTheRest, Accounted
<1> QED  BY <1>1, <1>2 DEF Accounted

\* What writeblock writes is accounted for, and what it does not write has no place.
LEMMA WriteAccounts ==
    ASSUME IInv, ~i_chr, NEW rd \in Nat, writeblock(rd), NEW p \in xfer .. xfer + rd - 1,
           UNCHANGED <<o_chr, olen>>
    PROVE  (~o_chr' /\ p >= olen') \/ \E w \in out' : w[2] = p
<1>1. source = xfer /\ xfer \in Nat /\ olen \in Nat /\ p \in Nat
  BY DEF IInv, TypeOK, source
<1>2. written(rd) \in 0 .. rd
  BY WrittenRange DEF IInv
<1>3. CASE p < xfer + written(rd)
  <2>1. p - xfer \in 0 .. written(rd) - 1
    BY <1>1, <1>2, <1>3
  <2>2. <<place + (p - xfer), source + (p - xfer)>> \in out'
    BY <2>1 DEF writeblock
  <2>3. source + (p - xfer) = p
    BY <1>1
  <2> QED  BY <2>2, <2>3
<1>4. CASE p >= xfer + written(rd)
  BY <1>1, <1>2, <1>4 DEF written
<1> QED  BY <1>1, <1>2, <1>3, <1>4

LEMMA RescuesStep == IInv /\ IInv' /\ RescuesTheRest /\ [Next]_vars => RescuesTheRest'
<1> SUFFICES ASSUME IInv, IInv', RescuesTheRest, [Next]_vars, ~i_chr', ~gone',
                    NEW p, p \in 0 .. xfer' - 1
             PROVE  Accounted(p)'
  BY DEF RescuesTheRest, Accounted
<1>1. UNCHANGED <<o_chr, len, olen, bad, flaky>> /\ ~i_chr /\ ~gone
  BY DEF Next, Work, MaxReached, EndOfFile, CopyBlock, FatalError, SkipBlock, FallBack, EndOfSmall,
         StaySmall, Promote, Back, Exit, BrokenPipe, LoseDevice, readError, vars, media
<1>2. /\ xfer \in Nat /\ xfer' \in Nat /\ len \in Nat /\ source = xfer
      /\ p \in Nat /\ p < xfer'
  <2>1. xfer \in Nat /\ xfer' \in Nat /\ len \in Nat /\ source = xfer
    BY <1>1 DEF IInv, TypeOK, source
  <2>2. PICK n \in Nat : n = xfer'
    BY <2>1
  <2>3. p \in 0 .. n - 1
    BY <2>2
  <2>4. p \in Nat /\ p < n
    BY <2>3
  <2> QED  BY <2>1, <2>2, <2>4
<1>3. CASE CopyBlock
  <2>1. toread \in Nat
    BY <1>3, BlockSize DEF CopyBlock, IInv
  <2>2. writeblock(toread) /\ xfer' = xfer + toread
    BY <1>3 DEF CopyBlock
  <2>3. CASE p >= xfer
    <3>1. p \in xfer .. xfer + toread - 1
      BY <1>2, <2>1, <2>2, <2>3
    <3>2. (~o_chr' /\ p >= olen') \/ \E w \in out' : w[2] = p
      BY <1>1, <2>1, <2>2, <3>1, WriteAccounts
    <3> QED  BY <3>2 DEF Accounted
  <2>4. out \subseteq out' /\ xfer' >= xfer
    BY <1>2, <2>1, <2>2 DEF writeblock
  <2>5. CASE p < xfer
    <3>1. p \in 0 .. xfer - 1
      BY <1>2, <2>5
    <3> QED  BY <1>1, <2>4, <3>1, AccountedStays
  <2> QED  BY <1>2, <2>3, <2>5
<1>4. CASE FallBack
  <2>1. toread \in Nat
    BY <1>4, BlockSize DEF FallBack, readError, IInv
  <2>2. PICK rd \in Nat : writeblock(rd) /\ xfer' = xfer + rd
    BY <1>4, <2>1 DEF FallBack
  <2>3. CASE p >= xfer
    <3>1. p \in xfer .. xfer + rd - 1
      BY <1>2, <2>2, <2>3
    <3>2. (~o_chr' /\ p >= olen') \/ \E w \in out' : w[2] = p
      BY <1>1, <2>2, <3>1, WriteAccounts
    <3> QED  BY <3>2 DEF Accounted
  <2>4. out \subseteq out' /\ xfer' >= xfer
    BY <1>2, <2>2 DEF writeblock
  <2>5. CASE p < xfer
    <3>1. p \in 0 .. xfer - 1
      BY <1>2, <2>5
    <3> QED  BY <1>1, <2>4, <3>1, AccountedStays
  <2> QED  BY <1>2, <2>3, <2>5
<1>5. CASE SkipBlock
  <2>1. pc = "copy" /\ xfer < max /\ bs = "hard" /\ xfer' = xfer + toread /\ out' = out
    BY <1>5 DEF SkipBlock, readError
  <2>2. toread \in Nat /\ toread <= HB
    BY <2>1, BlockSize DEF IInv
  <2>3. PICK rd \in 0 .. toread - 1, e \in {"0", "EIO", "EINVAL", "ENXIO"} : readblock(toread, rd, e)
    BY <1>5 DEF SkipBlock, readError
  <2>4. CASE p >= xfer
    <3>1. rd < toread /\ rd \in Nat /\ p < xfer + toread
      BY <1>2, <2>1, <2>2, <2>3
    <3>2. CASE xfer + rd >= len
      BY <1>1, <1>2, <2>1, <2>2, <2>4, <3>1, <3>2, BlocksAssumption DEF Accounted
    <3>3. CASE xfer + rd \in bad \cup flaky
      <4>1. p - HB < xfer + rd /\ xfer + rd < p + HB
        BY <1>2, <2>2, <2>4, <3>1, BlocksAssumption
      <4> QED  BY <1>1, <3>3, <4>1 DEF Accounted
    <3>4. (xfer + rd >= len) \/ xfer + rd \in bad \cup flaky
      BY <1>1, <1>2, <2>3, <3>1 DEF readblock, Fails
    <3> QED  BY <3>2, <3>3, <3>4
  <2>5. CASE p < xfer
    <3>1. p \in 0 .. xfer - 1 /\ xfer' >= xfer
      BY <1>2, <2>1, <2>2, <2>5
    <3> QED  BY <1>1, <2>1, <3>1, AccountedStays
  <2> QED  BY <1>2, <2>4, <2>5
<1>6. CASE ~CopyBlock /\ ~FallBack /\ ~SkipBlock
  <2>1. out' = out /\ xfer' = xfer
    BY <1>6 DEF Next, Work, MaxReached, EndOfFile, FatalError, EndOfSmall, StaySmall, Promote, Back,
                Exit, BrokenPipe, LoseDevice, vars, counts
  <2>2. xfer' >= xfer /\ p \in 0 .. xfer - 1
    BY <1>2, <2>1
  <2> QED  BY <1>1, <2>1, <2>2, AccountedStays
<1> QED  BY <1>3, <1>4, <1>5, <1>6

\* Around a place of a device that can not be read, only the hard blocks it is in
\* are given up; all the rest is written, in spite of the soft block that
\* failed and of what is read twice.
THEOREM TheRestIsRescued == Spec => []RescuesTheRest
<1>1. Init => RescuesTheRest
  BY DEF Init, RescuesTheRest
<1>2. ASSUME IInv, IInv', RescuesTheRest, [Next]_vars PROVE RescuesTheRest'
  BY <1>2, RescuesStep
<1> QED  BY <1>1, <1>2, Invariance, PTL DEF Spec
=============================================================================
