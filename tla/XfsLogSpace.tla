---------------------------- MODULE XfsLogSpace ----------------------------
(***************************************************************************)
(* Arithmetic on positions in the circular on-disk log (fs/xfs/xfs_log.c). *)
(*                                                                         *)
(* A grant head is a pair (cycle, bytes); an LSN is a pair (cycle, block). *)
(* One basic block is one byte here, so both are the same kind of record   *)
(* and BBTOB/BTOBB are the identity on counts.                             *)
(***************************************************************************)
EXTENDS Integers

CONSTANT LogSize    \* l_logsize

ASSUME LogSizeAssumption == LogSize \in Nat \ {0}

Place == [cycle : Int, bytes : 0 .. LogSize - 1]

\* The same place as a distance from the very first byte of the log's life:
\* the reference the modular arithmetic below is checked against.
Pos(h) == h.cycle * LogSize + h.bytes

\* The operators named Mut... in these modules are the definition after them with
\* one deliberate mistake; they show which check notices it.

\* xlog_grant_add_space_write and xlog_grant_add_space_reserve
AddSpace(h, n) ==
  IF LogSize - h.bytes > n
    THEN [h EXCEPT !.bytes = @ + n]
    ELSE [cycle |-> h.cycle + 1, bytes |-> n - (LogSize - h.bytes)]

\* One half of xlog_grant_sub_space
SubSpace(h, n) ==
  IF h.bytes - n < 0
    THEN [cycle |-> h.cycle - 1, bytes |-> h.bytes - n + LogSize]
    ELSE [h EXCEPT !.bytes = @ - n]

\* xlog_space_left, the branches in the code's order
SpaceLeft(tail, h) ==
  IF tail.cycle = h.cycle /\ h.bytes >= tail.bytes
    THEN LogSize - (h.bytes - tail.bytes)
    ELSE IF tail.cycle + 1 < h.cycle THEN 0
    ELSE IF tail.cycle < h.cycle THEN tail.bytes - h.bytes
    ELSE LogSize

\* The lsn xlog_grant_push_ail aims at before capping it: n blocks past tail
ThresholdLsn(tail, n) ==
  IF tail.bytes + n >= LogSize
    THEN [cycle |-> tail.cycle + 1, bytes |-> tail.bytes + n - LogSize]
    ELSE [tail EXCEPT !.bytes = @ + n]

\* XFS_LSN_CMP(a, b) <= 0
LsnLeq(a, b) == \/ a.cycle < b.cycle
                \/ a.cycle = b.cycle /\ a.bytes <= b.bytes

----------------------------------------------------------------------------
(***************************************************************************)
(* What the arithmetic promises, for every place in the log.  TLC checks   *)
(* these over a bounded range of cycles, TLAPS proves them for all.        *)
(***************************************************************************)

\* Moving a grant head forward by at most one log's worth moves it by exactly
\* that many bytes and leaves it inside the log (xlog_grant_add_space).
AddIsExact(h, n) ==
  n \in 0 .. LogSize => /\ AddSpace(h, n) \in Place
                            /\ Pos(AddSpace(h, n)) = Pos(h) + n

\* Moving it back undoes that, across a cycle boundary too (xlog_grant_sub_space).
SubUndoesAdd(h, n) ==
  n \in 0 .. LogSize => SubSpace(AddSpace(h, n), n) = h

\* xlog_space_left never promises more than the distance to the tail leaves:
\* granting what it allows keeps the head within one log of the tail.
SpaceLeftIsSafe(tail, h, n) ==
  /\ n \in 1 .. LogSize
  /\ n <= SpaceLeft(tail, h)
  => Pos(AddSpace(h, n)) <= Pos(tail) + LogSize

\* ... and it is exact while the head is less than two cycles past the tail,
\* so no space that is really free is refused.
SpaceLeftIsExact(tail, h) ==
  /\ Pos(tail) <= Pos(h)
  /\ h.cycle <= tail.cycle + 1
  => SpaceLeft(tail, h) = LogSize - (Pos(h) - Pos(tail))

\* The threshold pushed on is exactly n blocks past the tail
\* (xlog_grant_push_ail), and XFS_LSN_CMP orders LSNs by distance.
ThresholdIsExact(tail, n) ==
  n \in 0 .. LogSize => /\ ThresholdLsn(tail, n) \in Place
                        /\ Pos(ThresholdLsn(tail, n)) = Pos(tail) + n
LsnOrderIsDistance(a, b) == LsnLeq(a, b) <=> Pos(a) <= Pos(b)
=============================================================================
