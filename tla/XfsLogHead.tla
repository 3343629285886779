----------------------------- MODULE XfsLogHead -----------------------------
(***************************************************************************)
(* Where the log ends: xlog_find_head, xlog_find_tail and                  *)
(* xlog_clear_stale_blocks (fs/xfs/xfs_log_recover.c) against a log whose  *)
(* records are written block by block, in any order, by up to Bufs iclogs  *)
(* at a time, with a crash at any moment, also while the blocks past the   *)
(* head are being cleared.                                                 *)
(*                                                                         *)
(* A position counts blocks from the start of the log's first cycle: block *)
(* p % LogBB of cycle p \div LogBB + 1.  A block is its cycle stamp and,   *)
(* if it is a record header, what the search reads of the header.          *)
(***************************************************************************)
EXTENDS Integers, FiniteSets, FiniteSetsExt

CONSTANTS
  LogBB,      \* l_logBBsize
  MaxRec,     \* XLOG_REC_SHIFT: blocks of the longest record there can be
  Bufs,       \* XLOG_MAX_ICLOGS
  Starts,     \* logs to begin with: at, the position of their unmount record (0 fresh from
              \* mkfs), and recs, the lengths of record their l_iclog_size allows
  TailKept,   \* assume that no record overwrites the tail of the last one on disk
  Span,       \* bound on the blocks written after the start
  MaxCrashes  \* bound on the crashes

VARIABLES
  disk,       \* the blocks of the log
  core,       \* the log in memory: mode, pos (l_curr_*), tail (l_tail_lsn), sync (l_last_sync_lsn)
  flight,     \* records being written: their position, length and the blocks still to come
  stale,      \* blocks xlog_clear_stale_blocks still has to write, a sequence of two requests
  truth,      \* what a search must find: the end, tail and start of the last record
  crashes

headVars == <<disk, core, flight, stale, truth, crashes>>

NoRec == [len |-> -1, lsn |-> 0, tail |-> 0, um |-> FALSE]
Blk(p) == p % LogBB
Cycle(p) == p \div LogBB + 1
TotalRecShift == Bufs * MaxRec
Least(a, b) == IF a < b THEN a ELSE b

\* the block at position q of the record at p
BlockOf(p, n, tail, um, q) ==
  [cycle |-> Cycle(q), rec |-> IF p = q THEN [len |-> n, lsn |-> p, tail |-> tail, um |-> um] ELSE NoRec]

\* mkfs leaves an unmount record at the start of a log of zeroes; a later one
\* follows data of this cycle and of the one before
HeadInit ==
  /\ \E start \in Starts :
       LET p == start.at
           end == p + 2
       IN /\ disk = [b \in 0 .. LogBB - 1 |->
                      LET q == CHOOSE q \in end - LogBB .. end - 1 : Blk(q) = b
                      IN IF q >= p THEN BlockOf(p, 2, p, TRUE, q) ELSE [cycle |-> Max({Cycle(q), 0}), rec |-> NoRec]]
          /\ core = [mode |-> "down", pos |-> end, tail |-> end, sync |-> end, recs |-> start.recs, last |-> end + Span]
          /\ truth = [pos |-> end, tail |-> end, sync |-> end]
  /\ flight = {} /\ stale = <<{}, {}>> /\ crashes = 0

----------------------------------------------------------------------------
(* Finding the head *)

IsHeader(b) == disk[b].rec # NoRec

RECURSIVE FindCycleStart(_, _, _)
FindCycleStart(first, last, cycle) ==
  LET mid == (first + last) \div 2
  IN IF mid = first \/ mid = last THEN last
     ELSE IF disk[mid].cycle = cycle THEN FindCycleStart(first, mid, cycle)
     ELSE FindCycleStart(mid, last, cycle)

\* the first block of the n from start with the cycle given, or -1
FindVerifyCycle(start, n, cycle) ==
  LET hits == {b \in start .. start + n - 1 : disk[b].cycle = cycle}
  IN IF hits = {} THEN -1 ELSE Min(hits)

\* the head, moved back to the start of its last record unless that is whole;
\* -1 if there is no header down to block 0, -2 if there is none down to start
FindVerifyLogRecord(start, last, extra) ==
  LET headers == {b \in start .. last - 1 : IsHeader(b)}
      h == Max(headers)
  IN IF headers = {} THEN (IF start = 0 THEN -1 ELSE -2)
     ELSE IF last - h + extra # disk[h].rec.len THEN h ELSE last

\* a log whose last block was never written; -1 if it was, -2 on errors
ZeroedHead(start, last) ==
  LET new == FindVerifyCycle(start, last - start, 0)
      found == FindVerifyLogRecord(start, IF new = -1 THEN last ELSE new, 0)
  IN IF found < 0 THEN -2 ELSE found
ZeroedFrom(last) == ZeroedHead(last - Least(last, TotalRecShift), last)
FindZeroed ==
  IF disk[0].cycle = 0 THEN 0
  ELSE IF disk[LogBB - 1].cycle # 0 THEN -1
  ELSE IF disk[0].cycle # 1 THEN -2
  ELSE ZeroedFrom(FindCycleStart(0, LogBB - 1, 0))

\* the head by its cycle, moved back over blocks that were written too late
Or(new, old) == IF new = -1 THEN old ELSE new

ScanBack(head, cycle) ==
  IF head >= TotalRecShift THEN Or(FindVerifyCycle(head - TotalRecShift, TotalRecShift, cycle), head)
  ELSE LET before == FindVerifyCycle(LogBB - TotalRecShift + head, TotalRecShift - head, cycle - 1)
       IN IF before # -1 THEN before ELSE Or(FindVerifyCycle(0, head, cycle), head)

\* the head by the length of its record
WrappedRecord(head, new) == IF new < 0 THEN -2 ELSE IF new # LogBB THEN new ELSE head
WholeRecord(head) ==
  IF head >= MaxRec THEN FindVerifyLogRecord(head - MaxRec, head, 0)
  ELSE LET last == FindVerifyLogRecord(0, head, 0)
       IN IF last # -1 THEN last
          ELSE WrappedRecord(head, FindVerifyLogRecord(LogBB - MaxRec + head, LogBB, head))

HeadOf(head) == IF head = LogBB THEN 0 ELSE head
FindHead ==
  LET zeroed == FindZeroed
      first == disk[0].cycle
      last == disk[LogBB - 1].cycle
  IN IF zeroed # -1 THEN zeroed
     ELSE HeadOf(WholeRecord(IF first = last THEN ScanBack(LogBB, last - 1)
                             ELSE ScanBack(FindCycleStart(0, LogBB - 1, last), last)))

----------------------------------------------------------------------------
(* Finding the tail, and clearing what lies past the head *)

LastHeader(head) ==
  LET below == {b \in 0 .. head - 1 : IsHeader(b)}
      above == {b \in head .. LogBB - 1 : IsHeader(b)}
  IN IF below # {} THEN Max(below) ELSE IF above # {} THEN Max(above) ELSE -2

\* the log in memory after xlog_find_tail, and the tail it passes on
TailAt(head, h) ==
  LET rec == disk[h].rec
      pos == LogBB * (disk[h].cycle + (IF h >= head THEN 1 ELSE 0) - 1) + head
      clean == Blk(h + rec.len) = head /\ rec.um
  IN [ok |-> TRUE, pos |-> pos, tail |-> IF clean THEN pos ELSE rec.tail, sync |-> IF clean THEN pos ELSE rec.lsn, from |-> rec.tail]
FindTail(head) == IF head < 0 \/ LastHeader(head) < 0 THEN [ok |-> FALSE] ELSE TailAt(head, LastHeader(head))

MutClearFrom(found) == <<{}, {}>>

\* the positions xlog_clear_stale_blocks overwrites, before and after the end of
\* the log, so that nothing a crash left there is taken for a record again
ClearFrom(found) ==
  LET same == Cycle(found.pos) = Cycle(found.from)
      distance == Least(TotalRecShift, IF same THEN Blk(found.from) + LogBB - Blk(found.pos) ELSE Blk(found.from) - Blk(found.pos))
      all == found.pos .. found.pos + distance - 1
      here == {p \in all : Cycle(p) = Cycle(found.pos)}
  IN <<here, all \ here>>

StaleChecks(found) ==
  IF Cycle(found.pos) = Cycle(found.from) THEN Blk(found.pos) >= Blk(found.from)
  ELSE Blk(found.pos) < Blk(found.from) /\ Cycle(found.pos) = Cycle(found.from) + 1

AddRecord(p, tail) == [cycle |-> Cycle(p) - 1, rec |-> [len |-> 0, lsn |-> p - LogBB, tail |-> tail, um |-> FALSE]]

----------------------------------------------------------------------------
(* Actions *)

Mount ==
  /\ core.mode = "down"
  /\ \E head \in {FindHead} : \E found \in {FindTail(head)} :
       IF found.ok /\ StaleChecks(found)
       THEN /\ core' = [core EXCEPT !.mode = "clearing", !.pos = found.pos, !.tail = found.tail, !.sync = found.sync]
            /\ stale' = ClearFrom(found)
       ELSE core' = [core EXCEPT !.mode = "failed"] /\ UNCHANGED stale
  /\ UNCHANGED <<disk, flight, truth, crashes>>

\* one block of the first request, or of the second once that is done
ClearStale(p) ==
  /\ core.mode = "clearing" /\ p \in IF stale[1] # {} THEN stale[1] ELSE stale[2]
  /\ disk' = [disk EXCEPT ![Blk(p)] = AddRecord(p, core.tail)]
  /\ stale' = <<stale[1] \ {p}, stale[2] \ {p}>>
  /\ UNCHANGED <<core, flight, truth, crashes>>

Cleared ==
  /\ core.mode = "clearing" /\ stale = <<{}, {}>>
  /\ core' = [core EXCEPT !.mode = "up"]
  /\ UNCHANGED <<disk, flight, stale, truth, crashes>>

\* xlog_sync: the iclog of Bufs records ago is done, the head stays off the tail
Sync(n, tail, um) ==
  /\ core.mode = "up" /\ Cardinality(flight) < Bufs
  /\ core.pos + n <= core.last /\ core.pos + n - tail < LogBB
  /\ TailKept => core.pos + n - truth.tail < LogBB
  /\ um => flight = {}
  /\ flight' = flight \cup {[pos |-> core.pos, len |-> n, tail |-> tail, um |-> um, todo |-> core.pos .. core.pos + n - 1]}
  /\ core' = [core EXCEPT !.pos = @ + n, !.tail = tail, !.mode = IF um THEN "unmount" ELSE "up"]
  /\ UNCHANGED <<disk, stale, truth, crashes>>

WriteBlock(r, q) ==
  /\ disk' = [disk EXCEPT ![Blk(q)] = BlockOf(r.pos, r.len, r.tail, r.um, q)]
  /\ flight' = (flight \ {r}) \cup {[r EXCEPT !.todo = @ \ {q}]}
  /\ UNCHANGED <<core, stale, truth, crashes>>

\* the oldest record is on disk: its iclog may be used again
Iodone(r) ==
  /\ r.todo = {} /\ \A s \in flight : r.pos <= s.pos
  /\ flight' = flight \ {r}
  /\ core' = [core EXCEPT !.sync = r.pos, !.mode = IF r.um THEN "down" ELSE @]
  /\ truth' = [pos |-> r.pos + r.len, tail |-> IF r.um THEN r.pos + r.len ELSE r.tail, sync |-> IF r.um THEN r.pos + r.len ELSE r.pos]
  /\ UNCHANGED <<disk, stale, crashes>>

\* the last record before the first that is not whole on disk
WholeOnes == {r \in flight : \A s \in flight : s.pos <= r.pos => s.todo = {}}
Crash ==
  /\ core.mode \in {"up", "clearing", "unmount"} /\ crashes < MaxCrashes
  /\ crashes' = crashes + 1
  /\ flight' = {} /\ stale' = <<{}, {}>>
  /\ core' = [core EXCEPT !.mode = "down"]
  /\ truth' = IF WholeOnes = {} THEN truth
              ELSE LET r == CHOOSE w \in WholeOnes : \A v \in WholeOnes : v.pos <= w.pos
                       end == r.pos + r.len
                   IN IF r.um THEN [pos |-> end, tail |-> end, sync |-> end] ELSE [pos |-> end, tail |-> r.tail, sync |-> r.pos]
  /\ UNCHANGED disk

HeadNext ==
  \/ Mount \/ Cleared \/ Crash
  \/ \E p \in stale[1] \cup stale[2] : ClearStale(p)
  \/ \E n \in core.recs, tail \in {core.tail, core.sync} : Sync(n, tail, FALSE)
  \/ Sync(2, core.sync, TRUE)
  \/ \E r \in flight : Iodone(r) \/ \E q \in r.todo : WriteBlock(r, q)

HeadSpec == HeadInit /\ [][HeadNext]_headVars

----------------------------------------------------------------------------
\* However many records were being written, and in whatever order their blocks
\* reached the disk before the crash, the search finds the end of the last record
\* up to which the log is whole, with its cycle, tail and LSN; a crash while the
\* blocks past the head are cleared does not change that, and blocks an earlier
\* crash left behind are never taken for a later record (xlog_find_head,
\* xlog_find_tail, xlog_clear_stale_blocks).
HeadIsFound ==
  core.mode # "failed" /\ (core.mode = "clearing" => [pos |-> core.pos, tail |-> core.tail, sync |-> core.sync] = truth)
=============================================================================
