------------------------------ MODULE XfsIext ------------------------------
(***************************************************************************)
(* The in-core extent list of a fork (xfs_iext_* in xfs_inode.c): up to    *)
(* InlineExts extents live in the inode, up to LinearExts in one buffer    *)
(* ("direct"), more in an indirection array of pages, each of which knows  *)
(* how many extents it holds and the index of its first (er_extcount and   *)
(* er_extoff).  Indices are the C ones, from 0.  An extent is one block at *)
(* the file offset it is named by; 0 is a slot that has only been cleared. *)
(***************************************************************************)
EXTENDS Integers, Sequences, SequencesExt

CONSTANTS
  InlineExts,  \* XFS_INLINE_EXTS
  LinearExts,  \* XFS_LINEAR_EXTS, a power of two
  MaxBno,      \* bound: file offsets are 1 .. MaxBno
  MaxDiff      \* the extents one xfs_bmap.c call inserts or removes: 2

VARIABLES
  fork,        \* the in-core fork
  ref          \* the extents the callers mean it to hold, in order

iextVars == <<fork, ref>>

Zeros(n) == [i \in 1 .. n |-> 0]
InsertedAt(s, idx, new) == SubSeq(s, 1, idx) \o new \o SubSeq(s, idx + 1, Len(s))
WithoutAt(s, idx, n) == SubSeq(s, 1, idx) \o SubSeq(s, idx + n + 1, Len(s))
Least(a, b) == IF a < b THEN a ELSE b

\* bytes and real are if_bytes and if_real_bytes counted in extents; ext is the
\* array if_u1 points to, irec the indirection array while XFS_IFEXTIREC is set
Empty == [kind |-> "inline", bytes |-> 0, real |-> 0, ext |-> <<>>, irec |-> <<>>]

----------------------------------------------------------------------------
(* The indirection array *)

IrecUpdateExtoffs(a, from, diff) ==
  [k \in 1 .. Len(a) |-> IF k > from THEN [a[k] EXCEPT !.off = @ + diff] ELSE a[k]]

IrecNew(a, i) ==
  LET off == IF i > 0 THEN a[i].off + Len(a[i].ext) ELSE 0
  IN InsertedAt(a, i, <<[off |-> off, ext |-> <<>>]>>)

IrecRemove(a, i) ==
  WithoutAt(IrecUpdateExtoffs(a, i + 1, - Len(a[i + 1].ext)), i, 1)

\* The pages are searched by halving; with realloc the caller wants room for an
\* insertion, so the end of one page is as good as the start of the next.
IdxToIrec(a, idx, realloc) ==
  LET RECURSIVE Halve(_, _, _)
      Halve(low, high, i) ==
        IF low > high THEN [i |-> i, page |-> idx]
        ELSE LET m == (low + high) \div 2
                 e == a[m + 1]
                 n == Len(e.ext)
                 roomBefore == m > 0 /\ Len(a[m].ext) < LinearExts
             IN CASE idx < e.off \/ (idx = e.off /\ realloc /\ roomBefore) ->
                       Halve(low, m - 1, m)
                  [] idx > e.off + n \/ (idx = e.off + n /\ ~realloc) ->
                       Halve(m + 1, high, m)
                  [] idx = e.off + n /\ n = LinearExts -> [i |-> m + 1, page |-> 0]
                  [] OTHER -> [i |-> m, page |-> idx - e.off]
  IN Halve(0, Len(a) - 1, 0)

BnoToIrec(a, bno) ==
  LET RECURSIVE Halve(_, _, _)
      Halve(low, high, i) ==
        IF low > high THEN i
        ELSE LET m == (low + high) \div 2
             IN CASE bno < a[m + 1].ext[1] -> Halve(low, m - 1, m)
                  [] m < Len(a) - 1 /\ bno >= a[m + 2].ext[1] -> Halve(m + 1, high, m)
                  [] OTHER -> m
  IN Halve(0, Len(a) - 1, 0)

\* Neighbours that fit into one page are merged, front to back.
RECURSIVE IrecCompactPages(_, _)
IrecCompactPages(a, i) ==
  IF i >= Len(a) - 1 THEN a
  ELSE IF Len(a[i + 2].ext) > LinearExts - Len(a[i + 1].ext)
    THEN IrecCompactPages(a, i + 1)
    ELSE LET merged == [a EXCEPT ![i + 1].ext = @ \o a[i + 2].ext]
         IN IrecCompactPages(WithoutAt(merged, i + 1, 1), i)

----------------------------------------------------------------------------
(* Changing between the three representations *)

RoundupPow2(n) == CHOOSE p \in {2 ^ k : k \in 0 .. 8} :
                    p >= n /\ \A q \in {2 ^ k : k \in 0 .. 8} : q >= n => p <= q

Destroy(f) == Empty

\* Frees the buffer if_u1 points to; done twice it frees the inode's own array.
DirectToInline(f) ==
  [f EXCEPT !.kind = IF f.kind = "inline" THEN "freed" ELSE "inline", !.real = 0]

InlineToDirect(f, size) == [f EXCEPT !.kind = "direct", !.real = size]

ReallocDirect(f, size) ==
  CASE size = 0 -> Destroy(f)
    [] size # 0 /\ f.real # 0 /\ size <= InlineExts ->
         [DirectToInline(f) EXCEPT !.bytes = size]
    [] size > InlineExts /\ f.real # 0 ->
         [f EXCEPT !.real = RoundupPow2(size), !.bytes = size]
    [] size # 0 /\ f.real = 0 ->
         [InlineToDirect(f, RoundupPow2(size + f.bytes)) EXCEPT !.bytes = size + f.bytes]

IndirectToDirect(f) ==
  LET g == [f EXCEPT !.kind = "direct", !.irec = <<>>,
                     !.ext = IrecCompactPages(f.irec, 0)[1].ext]
  IN IF f.bytes < LinearExts THEN ReallocDirect(g, f.bytes) ELSE g

IrecCompact(f) ==
  CASE f.bytes = 0 -> Destroy(f)
    [] f.bytes \in 1 .. InlineExts -> DirectToInline(IndirectToDirect(f))
    [] f.bytes \in InlineExts + 1 .. LinearExts -> IndirectToDirect(f)
    [] f.bytes > LinearExts /\ f.bytes < (Len(f.irec) * LinearExts) \div 2 ->
         LET a == IrecCompactPages(f.irec, 0)
         IN [f EXCEPT !.irec = a, !.real = Len(a) * LinearExts]
    [] OTHER -> f

IrecInit(f) ==
  [f EXCEPT !.kind = "irec", !.real = LinearExts, !.ext = <<>>,
            !.irec = <<[off |-> 0, ext |-> f.ext]>>]

----------------------------------------------------------------------------
(* Insertion *)

\* idx slots in, count new ones are opened in a page that has no room for them:
\* the rest of the page moves to the last page that received new slots, to the
\* page after it, or to a page of its own.
RECURSIVE NewPages(_, _, _)
NewPages(a, i, count) ==
  IF count = 0 THEN [a |-> a, i |-> i]
  ELSE LET n == Least(count, LinearExts)
           b == [IrecNew(a, i + 1) EXCEPT ![i + 2].ext = Zeros(n)]
       IN NewPages(IrecUpdateExtoffs(b, i + 2, n), i + 1, count - n)

AddIndirectMulti(a, i, idx, count) ==
  LET rest  == SubSeq(a[i + 1].ext, idx + 1, Len(a[i + 1].ext))
      nex2  == Len(rest)
      first == Least(count, LinearExts - idx)
      cut   == IrecUpdateExtoffs([a EXCEPT ![i + 1].ext = SubSeq(@, 1, idx) \o Zeros(first)],
                                 i + 1, first - nex2)
      p     == NewPages(cut, i, count - first)
      n     == Len(p.a[p.i + 1].ext)
      nextFits == p.i < Len(a) - 1 /\ nex2 <= LinearExts - Len(p.a[p.i + 2].ext)
  IN CASE nex2 = 0 -> p.a
       [] nex2 # 0 /\ nex2 <= LinearExts - n ->
            IrecUpdateExtoffs([p.a EXCEPT ![p.i + 1].ext = @ \o rest], p.i + 1, nex2)
       [] nex2 > LinearExts - n /\ nextFits ->
            IrecUpdateExtoffs([p.a EXCEPT ![p.i + 2].ext = rest \o @], p.i + 2, nex2)
       [] nex2 > LinearExts - n /\ ~nextFits ->
            IrecUpdateExtoffs([IrecNew(p.a, p.i + 1) EXCEPT ![p.i + 2].ext = rest],
                              p.i + 2, nex2)

\* No page at the insertion point: new pages at the end.  er_extcount of each is
\* what is still to be added, not what the page can hold.
RECURSIVE AddPages(_, _, _)
AddPages(a, i, count) ==
  IF count = 0 THEN a
  ELSE AddPages([IrecNew(a, i) EXCEPT ![i + 1].ext = Zeros(count)], i + 1,
                count - Least(count, LinearExts))

AddIrec(f, idx, diff) ==
  LET g  == IF f.kind = "irec" THEN f ELSE IrecInit(f)
      at == IF f.kind = "irec" THEN IdxToIrec(f.irec, idx, TRUE) ELSE [i |-> 0, page |-> idx]
      a  == g.irec
      b  == CASE at.i >= Len(a) -> AddPages(a, at.i, diff)
              [] at.i < Len(a) /\ Len(a[at.i + 1].ext) + diff <= LinearExts ->
                   IrecUpdateExtoffs([a EXCEPT ![at.i + 1].ext = InsertedAt(@, at.page, Zeros(diff))],
                                     at.i + 1, diff)
              [] OTHER -> AddIndirectMulti(a, at.i, at.page, diff)
  IN [g EXCEPT !.irec = b, !.real = Len(b) * LinearExts]

IextAdd(f, idx, diff) ==
  LET size == f.bytes + diff
      opened == InsertedAt(f.ext, idx, Zeros(diff))
      g == CASE size <= InlineExts -> [f EXCEPT !.ext = opened, !.real = 0, !.kind = "inline"]
             [] size \in InlineExts + 1 .. LinearExts ->
                  [ReallocDirect(f, size) EXCEPT !.ext = opened]
             [] size > LinearExts -> AddIrec(f, idx, diff)
  IN [g EXCEPT !.bytes = size]

\* where xfs_iext_get_ext(idx) points
GetExt(f, idx) ==
  CASE f.kind = "irec" /\ idx = 0 -> f.irec[1].ext[1]
    [] f.kind = "irec" /\ idx # 0 ->
         LET at == IdxToIrec(f.irec, idx, FALSE) IN f.irec[at.i + 1].ext[at.page + 1]
    [] OTHER -> f.ext[idx + 1]

SetExt(f, idx, v) ==
  IF f.kind # "irec" THEN [f EXCEPT !.ext[idx + 1] = v]
  ELSE LET at == IF idx = 0 THEN [i |-> 0, page |-> 0] ELSE IdxToIrec(f.irec, idx, FALSE)
       IN [f EXCEPT !.irec[at.i + 1].ext[at.page + 1] = v]

IextInsert(f, idx, new) ==
  FoldLeft(LAMBDA g, i : SetExt(g, idx + i - 1, new[i]), IextAdd(f, idx, Len(new)),
           [i \in 1 .. Len(new) |-> i])

----------------------------------------------------------------------------
(* Removal *)

RemoveInline(f, idx, diff) == [f EXCEPT !.ext = WithoutAt(@, idx, diff)]

RemoveDirect(f, idx, diff) ==
  ReallocDirect([f EXCEPT !.ext = WithoutAt(@, idx, diff)], f.bytes - diff)

RECURSIVE RemovePages(_, _, _, _)
RemovePages(a, i, nex1, count) ==
  IF count = 0 THEN a
  ELSE LET n    == Len(a[i + 1].ext)
           diff == Least(count, n - nex1)
       IN IF diff = n
            THEN RemovePages(IrecRemove(a, i), i, 0, count - diff)
            ELSE RemovePages(IrecUpdateExtoffs([a EXCEPT ![i + 1].ext = WithoutAt(@, nex1, diff)],
                                               i + 1, - diff), i + 1, 0, count - diff)

RemoveIndirect(f, idx, count) ==
  LET at == IdxToIrec(f.irec, idx, FALSE)
      a  == RemovePages(f.irec, at.i, at.page, count)
  IN IrecCompact([f EXCEPT !.irec = a, !.real = Len(a) * LinearExts, !.bytes = @ - count])

IextRemove(f, idx, diff) ==
  LET size == f.bytes - diff
      g == CASE size = 0 -> Destroy(f)
             [] size # 0 /\ f.kind = "irec" -> RemoveIndirect(f, idx, diff)
             [] size # 0 /\ f.kind = "direct" -> RemoveDirect(f, idx, diff)
             [] size # 0 /\ f.kind = "inline" -> RemoveInline(f, idx, diff)
  IN [g EXCEPT !.bytes = size]

----------------------------------------------------------------------------
(* Lookup by file offset: the extent that holds bno or the first one after it *)

NotFound == -1

BnoToExt(f, bno) ==
  LET i    == IF f.kind = "irec" THEN BnoToIrec(f.irec, bno) ELSE 0
      base == IF f.kind = "irec" THEN f.irec[i + 1].ext ELSE f.ext
      off  == IF f.kind = "irec" THEN f.irec[i + 1].off ELSE 0
      RECURSIVE Halve(_, _, _)
      Halve(low, high, k) ==
        IF low > high THEN k
        ELSE LET m == (low + high) \div 2
             IN CASE bno < base[m + 1] -> Halve(low, m - 1, m)
                  [] bno > base[m + 1] -> Halve(m + 1, high, m)
                  [] OTHER -> m
      k   == Halve(0, Len(base) - 1, 0)
      idx == off + k + (IF bno > base[k + 1] THEN 1 ELSE 0)
  IN IF f.bytes = 0 THEN [idx |-> 0, ext |-> NotFound]
     ELSE [idx |-> idx, ext |-> IF idx = f.bytes THEN NotFound
                                ELSE IF bno > base[k + 1] THEN GetExt(f, idx) ELSE base[k + 1]]

----------------------------------------------------------------------------
(* The callers, in xfs_bmap.c, keep the list sorted by file offset *)

IextInit == fork = Empty /\ ref = <<>>

Gap(idx) == {b \in 1 .. MaxBno : (idx > 0 => ref[idx] < b) /\ (idx < Len(ref) => b < ref[idx + 1])}

\* xfs_bmap_add_extent_*: one or two extents into the gap before extent idx
InsertExtents(idx) ==
  \E b \in Gap(idx) : \E new \in {<<b>>} \cup {<<b, c>> : c \in {d \in Gap(idx) : d > b}} :
    /\ Len(new) <= MaxDiff
    /\ fork' = IextInsert(fork, idx, new)
    /\ ref' = InsertedAt(ref, idx, new)

RemoveExtents(idx, diff) ==
  /\ idx + diff <= Len(ref)
  /\ fork' = IextRemove(fork, idx, diff)
  /\ ref' = WithoutAt(ref, idx, diff)

\* xfs_iread_extents: all of a fork read from disk at once
ReadExtents(n) ==
  /\ ref = <<>>
  /\ ref' = [i \in 1 .. n |-> i]
  /\ fork' = IextInsert(fork, 0, ref')

IextNext ==
  \/ \E idx \in 0 .. Len(ref) : InsertExtents(idx)
  \/ \E idx \in 0 .. Len(ref), diff \in 1 .. MaxDiff : RemoveExtents(idx, diff)
  \/ \E n \in 1 .. MaxBno : ReadExtents(n)

IextSpec == IextInit /\ [][IextNext]_iextVars

----------------------------------------------------------------------------
(* Properties *)

\* Whatever the pages look like after insertions and removals in any order, every
\* index and every file offset leads to the extent a plain array would give, the
\* pages' first indices add up, no buffer overflows and none is freed twice.
ExtentListIsExact ==
  /\ fork.kind # "freed" /\ fork.bytes = Len(ref)
  /\ CASE fork.kind = "inline" -> Len(ref) <= InlineExts
       [] fork.kind = "direct" -> Len(ref) <= fork.real
       [] fork.kind = "irec" ->
            \A k \in 1 .. Len(fork.irec) :
              /\ Len(fork.irec[k].ext) \in 1 .. LinearExts
              /\ fork.irec[k].off = Len(FlattenSeq([j \in 1 .. k - 1 |-> fork.irec[j].ext]))
  /\ \A idx \in 0 .. Len(ref) - 1 : GetExt(fork, idx) = ref[idx + 1]
  /\ \A bno \in 1 .. MaxBno :
       LET n == Cardinality({i \in 1 .. Len(ref) : ref[i] < bno})
       IN BnoToExt(fork, bno) = [idx |-> n, ext |-> IF n < Len(ref) THEN ref[n + 1] ELSE NotFound]
=============================================================================
