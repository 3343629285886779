---------------------------- MODULE XfsLogGrant ----------------------------
(***************************************************************************)
(* Reservation of log space: the grant heads, the tickets and the two      *)
(* queues of sleeping tickets (fs/xfs/xfs_log.c).                          *)
(*                                                                         *)
(* One step is one critical section under l_grant_lock.  Every ticket is   *)
(* driven by the one thread whose transaction owns it.  What is outside    *)
(* the component -- iclogs reaching the disk, items leaving the AIL -- is  *)
(* represented by the steps SyncLog, AilAdvance, AssignTail and MoveTail.  *)
(***************************************************************************)
EXTENDS XfsLogSpace, FiniteSetsExt, Sequences

CONSTANTS
  Tickets,      \* xlog_ticket_t objects
  Null,         \* the NULL pointer
  Unit,         \* [Tickets -> bytes]       t_unit_res
  Ocnt,         \* [Tickets -> count]       t_ocnt
  Perm,         \* the tickets with XLOG_TIC_PERM_RESERV
  MinFree,      \* the 256 blocks of xlog_grant_push_ail
  WriteSizes,   \* how much one xlog_write may consume
  RoundSizes,   \* what one xlog_sync may round off
  Stops,        \* bound: the positions where a log record may start
  MaxHead,      \* bound: bytes written to the log in a behaviour
  MaxRound,     \* bound: bytes of roundoff in a behaviour
  MaxMovers,    \* bound: AIL changes whose xfs_log_move_tail is still to run
  MaxShutdowns  \* bound: calls of xfs_log_force_umount

Need(t) == IF t \in Perm THEN Unit[t] * Ocnt[t] ELSE Unit[t]

\* xlog_grant_push_ail asserts that one request is smaller than the log, and
\* xlog_ungrant_log_space that only a permanent ticket has more than one unit; a
\* permanent one always has one.  Roundoff is less than a stripe unit (xlog_sync)
\* and the 256 blocks less than the smallest log (XFS_MIN_LOG_BYTES).
ASSUME GrantAssumption ==
  /\ Null \notin Tickets /\ IsFiniteSet(Tickets) /\ Perm \subseteq Tickets
  /\ Unit \in [Tickets -> 1 .. LogSize] /\ Ocnt \in [Tickets -> 0 .. LogSize]
  /\ \A t \in Tickets : Need(t) < LogSize
  /\ \A t \in Perm : Ocnt[t] > 0
  /\ \A t \in Tickets \ Perm : Ocnt[t] <= 1
  /\ WriteSizes \subseteq Nat \ {0} /\ RoundSizes \subseteq 1 .. LogSize
  /\ MinFree \in 0 .. LogSize /\ Stops \cup {MaxRound, MaxShutdowns} \subseteq Nat

Queues == {"reserve", "write"}    \* l_reserve_headq, l_write_headq

VARIABLES
  reserve,   \* l_grant_reserve_cycle, l_grant_reserve_bytes
  write,     \* l_grant_write_cycle, l_grant_write_bytes
  tail,      \* l_tail_lsn
  lastSync,  \* l_last_sync_lsn
  target,    \* xa_target
  pc,        \* where each ticket's thread is
  curr,      \* t_curr_res
  cnt,       \* t_cnt
  next,      \* t_next
  prev,      \* t_prev
  inQ,       \* the tickets with XLOG_TIC_IN_Q
  headq,     \* the two queue heads
  awake,     \* the sleepers that have been signalled
  shutdown,  \* XLOG_IO_ERROR, and how often force_umount was called
  head,      \* position of the next byte to be written to the log
  ailMin,    \* lsn of the first item in the AIL
  movers,    \* arguments of xfs_log_move_tail calls still to run
  round,     \* history: roundoff added so far
  oops       \* a queue walk followed a NULL t_next

heads  == <<reserve, write>>
tics   == <<pc, curr, cnt>>
queues == <<next, prev, inQ, headq>>
ail    == <<lastSync, ailMin, movers>>
vars   == <<heads, tics, queues, ail, tail, target, awake, shutdown, head,
            round, oops>>

Sleeping == {t \in Tickets : pc[t] \in {"gsleep1", "gsleep2", "wsleep1", "wsleep2"}}
Shut == shutdown > 0
At(n) == [cycle |-> n \div LogSize, bytes |-> n % LogSize]

Init ==
  \E p \in {LogSize} :     \* a freshly mounted log starts at cycle 1, block 0
    /\ reserve = At(p) /\ write = At(p) /\ tail = At(p) /\ lastSync = At(p)
    /\ target = [cycle |-> 0, bytes |-> 0]
    /\ pc = [t \in Tickets |-> "idle"]
    /\ curr = [t \in Tickets |-> 0] /\ cnt = [t \in Tickets |-> 0]
    /\ next = [t \in Tickets |-> Null] /\ prev = [t \in Tickets |-> Null]
    /\ inQ = {} /\ headq = [q \in Queues |-> Null] /\ awake = {}
    /\ shutdown = 0 /\ head = p /\ ailMin = At(p) /\ movers = {}
    /\ round = 0 /\ oops = FALSE

----------------------------------------------------------------------------
(* The rings of sleeping tickets *)

\* xlog_ins_ticketq
InsTicketq(q, t) ==
  LET h == headq[q] IN
  /\ inQ' = inQ \cup {t}
  /\ IF h # Null
       THEN /\ next' = [next EXCEPT ![t] = h, ![prev[h]] = t]
            /\ prev' = [prev EXCEPT ![t] = prev[h], ![h] = t]
            /\ UNCHANGED headq
       ELSE /\ next' = [next EXCEPT ![t] = t]
            /\ prev' = [prev EXCEPT ![t] = t]
            /\ headq' = [headq EXCEPT ![q] = t]

\* xlog_del_ticketq: the queue head becomes the deleted ticket's successor
DelTicketq(q, t) ==
  /\ inQ' = inQ \ {t}
  /\ headq' = [headq EXCEPT ![q] = IF next[t] = t THEN Null ELSE next[t]]
  /\ next' = [[next EXCEPT ![prev[t]] = next[t]] EXCEPT ![t] = Null]
  /\ prev' = [[prev EXCEPT ![next[t]] = prev[t]] EXCEPT ![t] = Null]

DelIfQueued(q, t) == IF t \in inQ THEN DelTicketq(q, t) ELSE UNCHANGED queues
InsIfAbsent(q, t) == IF t \in inQ THEN UNCHANGED queues ELSE InsTicketq(q, t)

\* The tickets a walk from the head of q along t_next visits, up to the one
\* before the head comes round again (or before a NULL pointer).
Hop[n \in Nat, t \in Tickets \cup {Null}] ==
  IF n = 0 \/ t = Null THEN t ELSE Hop[n - 1, next[t]]
Walk(q) ==
  LET h == headq[q]
      ends == {n \in 1 .. Cardinality(Tickets) : Hop[n, h] \in {h, Null}}
  IN IF h = Null THEN <<>>
     ELSE [n \in 1 .. (IF ends = {} THEN Cardinality(Tickets) ELSE Min(ends))
             |-> Hop[n - 1, h]]
Waiters(q) == {Walk(q)[i] : i \in DOMAIN Walk(q)}
WalkHitsNull(q) == \E t \in Waiters(q) : next[t] = Null

\* What a sleeper on q is waiting for, as xfs_log_move_tail computes it
QueueNeed(q, t) ==
  IF q = "reserve" /\ t \in Perm THEN Unit[t] * cnt[t] ELSE Unit[t]

\* The sleepers a wake-up loop signals: as many from the front of the walk as
\* the free bytes cover, the first one in any case if `force'.
Signalled(q, free, force) ==
  LET w == Walk(q)
      Before(i) == MapThenSumSet(LAMBDA j : QueueNeed(q, w[j]), 1 .. i - 1)
      Fits(i) == free - Before(i) >= QueueNeed(q, w[i]) \/ (force /\ i = 1)
  IN {w[i] : i \in {k \in DOMAIN w : \A j \in 1 .. k : Fits(j)}}

\* xfs_log_move_tail after it has set l_tail_lsn to newTail.  An argument of 1
\* (`force') wakes one ticket however little space there is.
WakeAfterMove(newTail, force) ==
  LET w == Signalled("write", SpaceLeft(newTail, write), force)
      r == Signalled("reserve", SpaceLeft(newTail, reserve), force /\ w = {})
  IN /\ awake' = awake \cup (Sleeping \cap (w \cup r))
     /\ oops' = (oops \/ \E q \in Queues : WalkHitsNull(q))

----------------------------------------------------------------------------
(* xfs_log_reserve, xlog_grant_push_ail *)

\* xlog_grant_push_ail: push the AIL so that max(need, a quarter of the log,
\* MinFree) would be free, but never past the last record known to be on disk.
GrantPushAil(need) ==
  LET want == Max({need, LogSize \div 4, MinFree})
      lsn == ThresholdLsn(tail, want)
      capped == IF LsnLeq(lsn, lastSync) THEN lsn ELSE lastSync
  IN IF /\ SpaceLeft(tail, reserve) < want
        /\ ~Shut
        /\ ~LsnLeq(capped, target)         \* xfs_trans_ail_push
       THEN target' = capped
       ELSE UNCHANGED target

\* xfs_log_reserve of a new transaction: xlog_ticket_alloc, then push.
\* Afterwards the thread is about to enter xlog_grant_log_space.
LogReserve(t) ==
  /\ pc[t] = "idle"
  /\ ~Shut
  /\ curr' = [curr EXCEPT ![t] = Unit[t]]
  /\ cnt' = [cnt EXCEPT ![t] = Ocnt[t]]
  /\ GrantPushAil(Unit[t] * Ocnt[t])
  /\ pc' = [pc EXCEPT ![t] = "grant"]
  /\ UNCHANGED <<heads, queues, ail, tail, awake, shutdown, head, round, oops>>

\* error_return of either routine: q is the queue the code deletes from
ErrorReturn(q, t) ==
  /\ DelIfQueued(q, t)
  /\ curr' = [curr EXCEPT ![t] = 0]
  /\ cnt' = [cnt EXCEPT ![t] = 0]
  /\ pc' = [pc EXCEPT ![t] = "failed"]
  /\ UNCHANGED <<heads, target>>

----------------------------------------------------------------------------
(* xlog_grant_log_space *)

MutGrantTry(t) ==
  \/ Shut /\ ErrorReturn("reserve", t)
  \/ /\ ~Shut /\ SpaceLeft(tail, reserve) < Unit[t]
     /\ InsIfAbsent("reserve", t)
     /\ pc' = [pc EXCEPT ![t] = "gsleep2"]
     /\ UNCHANGED <<heads, curr, cnt, target>>
  \/ /\ ~Shut /\ SpaceLeft(tail, reserve) >= Unit[t]
     /\ DelIfQueued("reserve", t)
     /\ write' = AddSpace(write, Need(t))
     /\ reserve' = AddSpace(reserve, Need(t))
     /\ pc' = [pc EXCEPT ![t] = "held"]
     /\ UNCHANGED <<curr, cnt, target>>

\* From `redo' on: fail, sleep (sleep 2) or take the space.
GrantTry(t) ==
  \/ Shut /\ ErrorReturn("reserve", t)
  \/ /\ ~Shut /\ SpaceLeft(tail, reserve) < Need(t)
     /\ InsIfAbsent("reserve", t)
     /\ pc' = [pc EXCEPT ![t] = "gsleep2"]
     /\ UNCHANGED <<heads, curr, cnt, target>>
  \/ /\ ~Shut /\ SpaceLeft(tail, reserve) >= Need(t)
     /\ DelIfQueued("reserve", t)
     /\ write' = AddSpace(write, Need(t))
     /\ reserve' = AddSpace(reserve, Need(t))
     /\ pc' = [pc EXCEPT ![t] = "held"]
     /\ UNCHANGED <<curr, cnt, target>>

\* Entry with nobody asleep, and the re-check after the push that follows wake 2
GrantLogSpace(t) ==
  /\ \/ pc[t] = "grant" /\ headq["reserve"] = Null
     \/ pc[t] = "gredo"
  /\ GrantTry(t)
  /\ UNCHANGED <<ail, tail, awake, shutdown, head, round, oops>>

\* Entry with others asleep already: queue up behind them (sleep 1), or find
\* out about the shutdown and leave the queue again at once.
GrantQueueUp(t) ==
  /\ pc[t] = "grant"
  /\ headq["reserve"] # Null
  /\ ~Shut
  /\ InsTicketq("reserve", t)
  /\ pc' = [pc EXCEPT ![t] = "gsleep1"]
  /\ UNCHANGED <<heads, curr, cnt, ail, tail, target, awake, shutdown, head,
                 round, oops>>

\* The insertion and the deletion in one critical section: the ring is as
\* before, and its head is what xlog_del_ticketq leaves, the old head again.
GrantQueueUpShut(t) ==
  /\ pc[t] = "grant"
  /\ headq["reserve"] # Null
  /\ Shut
  /\ curr' = [curr EXCEPT ![t] = 0]
  /\ cnt' = [cnt EXCEPT ![t] = 0]
  /\ pc' = [pc EXCEPT ![t] = "failed"]
  /\ UNCHANGED <<heads, queues, ail, tail, target, awake, shutdown, head,
                 round, oops>>

\* wake 1: straight to the check
GrantWake1(t) ==
  /\ pc[t] = "gsleep1" /\ t \in awake
  /\ awake' = awake \ {t}
  /\ GrantTry(t)
  /\ UNCHANGED <<ail, tail, shutdown, head, round, oops>>

\* wake 2: push the AIL outside the lock, then go to redo
GrantWake2(t) ==
  /\ pc[t] = "gsleep2" /\ t \in awake
  /\ awake' = awake \ {t}
  /\ \/ Shut /\ ErrorReturn("reserve", t)
     \/ /\ ~Shut
        /\ GrantPushAil(Need(t))
        /\ pc' = [pc EXCEPT ![t] = "gredo"]
        /\ UNCHANGED <<heads, curr, cnt, queues>>
  /\ UNCHANGED <<ail, tail, shutdown, head, round, oops>>

----------------------------------------------------------------------------
(* xlog_regrant_write_log_space *)

\* xfs_log_reserve with an existing (permanent) ticket
LogReserveAgain(t) ==
  /\ pc[t] = "rolled"
  /\ \/ Shut /\ pc' = [pc EXCEPT ![t] = "failed"] /\ UNCHANGED target
     \/ /\ ~Shut
        /\ GrantPushAil(Unit[t])
        /\ pc' = [pc EXCEPT ![t] = "regrant"]
  /\ UNCHANGED <<heads, curr, cnt, queues, ail, tail, awake, shutdown, head,
                 round, oops>>

\* From `redo' on.  Note that error_return deletes from the reserve queue.
RegrantTry(t) ==
  \/ Shut /\ ErrorReturn("reserve", t)
  \/ /\ ~Shut /\ SpaceLeft(tail, write) < Unit[t]
     /\ InsIfAbsent("write", t)
     /\ pc' = [pc EXCEPT ![t] = "wsleep2"]
     /\ UNCHANGED <<heads, curr, cnt, target>>
  \/ /\ ~Shut /\ SpaceLeft(tail, write) >= Unit[t]
     /\ DelIfQueued("write", t)
     /\ write' = AddSpace(write, Unit[t])
     /\ pc' = [pc EXCEPT ![t] = "held"]
     /\ UNCHANGED <<reserve, curr, cnt, target>>

\* Pre-reserved units are left: nothing to do
RegrantPrereserved(t) ==
  /\ pc[t] = "regrant" /\ cnt[t] > 0
  /\ curr' = [curr EXCEPT ![t] = Unit[t]]
  /\ pc' = [pc EXCEPT ![t] = "held"]
  /\ UNCHANGED <<heads, cnt, queues, ail, tail, target, awake, shutdown, head,
                 round, oops>>

\* Others wait already: wake the first of them, and unless all of them were
\* woken go to sleep behind them (sleep 1); else try at once.
RegrantWriteLogSpace(t) ==
  LET up == Signalled("write", SpaceLeft(tail, write), FALSE) IN
  /\ pc[t] = "regrant" /\ cnt[t] = 0
  /\ \/ /\ Shut \/ up = Waiters("write")
        /\ RegrantTry(t)
        /\ awake' = IF Shut THEN awake ELSE awake \cup (Sleeping \cap up)
     \/ /\ ~Shut /\ up # Waiters("write")
        /\ InsIfAbsent("write", t)
        /\ awake' = awake \cup (Sleeping \cap up)
        /\ pc' = [pc EXCEPT ![t] = "wsleep1"]
        /\ UNCHANGED <<heads, curr, cnt, target>>
  /\ UNCHANGED <<ail, tail, shutdown, head, round, oops>>

RegrantRedo(t) ==
  /\ pc[t] = "wredo"
  /\ RegrantTry(t)
  /\ UNCHANGED <<ail, tail, awake, shutdown, head, round, oops>>

\* wake 1 and wake 2 do the same: push the AIL, then check again
RegrantWake(t) ==
  /\ pc[t] \in {"wsleep1", "wsleep2"} /\ t \in awake
  /\ awake' = awake \ {t}
  /\ \/ Shut /\ ErrorReturn("reserve", t)
     \/ /\ ~Shut
        /\ GrantPushAil(Unit[t])
        /\ pc' = [pc EXCEPT ![t] = "wredo"]
        /\ UNCHANGED <<heads, curr, cnt, queues>>
  /\ UNCHANGED <<ail, tail, shutdown, head, round, oops>>

----------------------------------------------------------------------------
(* Using a reservation up and giving it back *)

\* xlog_write copies n bytes into the in-core log on behalf of t
LogWrite(t, n) ==
  /\ pc[t] = "held" /\ ~Shut
  /\ n <= curr[t] /\ head + n <= MaxHead
  /\ curr' = [curr EXCEPT ![t] = @ - n]
  /\ head' = head + n
  /\ UNCHANGED <<heads, pc, cnt, queues, ail, tail, target, awake, shutdown,
                 round, oops>>

\* xlog_sync pads the iclog out and moves both heads, without any check
LogRoundoff(n) ==
  /\ head + n <= MaxHead /\ round + n <= MaxRound
  /\ write' = AddSpace(write, n)
  /\ reserve' = AddSpace(reserve, n)
  /\ head' = head + n
  /\ round' = round + n
  /\ UNCHANGED <<tics, queues, ail, tail, target, awake, shutdown, oops>>

Minus1(n) == IF n > 0 THEN n - 1 ELSE n

MutRegrantReserveLogSpace(t) ==
  /\ pc[t] = "held" /\ t \in Perm /\ ~Shut
  /\ cnt' = [cnt EXCEPT ![t] = Minus1(cnt[t])]
  /\ curr' = [curr EXCEPT ![t] = Unit[t]]
  /\ write' = SubSpace(write, curr[t])
  /\ reserve' = SubSpace(reserve, curr[t])
  /\ pc' = [pc EXCEPT ![t] = "rolled"]
  /\ UNCHANGED <<queues, ail, tail, target, awake, shutdown, head, round, oops>>

\* xlog_regrant_reserve_log_space: xfs_log_done of a transaction that rolls
RegrantReserveLogSpace(t) ==
  LET c == Minus1(cnt[t])
      r == SubSpace(reserve, curr[t])
  IN
  /\ pc[t] = "held" /\ t \in Perm /\ ~Shut
  /\ cnt' = [cnt EXCEPT ![t] = c]
  /\ curr' = [curr EXCEPT ![t] = Unit[t]]
  /\ write' = SubSpace(write, curr[t])
  /\ reserve' = IF c > 0 THEN r ELSE AddSpace(r, Unit[t])
  /\ pc' = [pc EXCEPT ![t] = "rolled"]
  /\ UNCHANGED <<queues, ail, tail, target, awake, shutdown, head, round, oops>>

\* xlog_ungrant_log_space up to its unlock: xfs_log_done releasing the
\* reservation, which is also how a failed or cancelled transaction ends
UngrantLogSpace(t) ==
  LET c == Minus1(cnt[t])
      Give(h) == IF c > 0 THEN SubSpace(SubSpace(h, curr[t]), Unit[t] * c)
                          ELSE SubSpace(h, curr[t])
  IN
  /\ pc[t] = "held" \/ pc[t] = "failed"
  /\ write' = Give(write)
  /\ reserve' = Give(reserve)
  /\ cnt' = [cnt EXCEPT ![t] = c]
  /\ pc' = [pc EXCEPT ![t] = "ungranted"]
  /\ UNCHANGED <<curr, queues, ail, tail, target, awake, shutdown, head, round,
                 oops>>

MutUngrantWake(t) ==
  /\ pc[t] = "ungranted"
  /\ pc' = [pc EXCEPT ![t] = "idle"]
  /\ curr' = [curr EXCEPT ![t] = 0]
  /\ cnt' = [cnt EXCEPT ![t] = 0]
  /\ UNCHANGED <<heads, queues, ail, tail, target, awake, oops, shutdown, head, round>>

\* ... and the xfs_log_move_tail(mp, 1) and xfs_log_ticket_put that follow
UngrantWake(t) ==
  /\ pc[t] = "ungranted"
  /\ IF Shut THEN UNCHANGED <<awake, oops>> ELSE WakeAfterMove(tail, TRUE)
  /\ pc' = [pc EXCEPT ![t] = "idle"]
  /\ curr' = [curr EXCEPT ![t] = 0]
  /\ cnt' = [cnt EXCEPT ![t] = 0]
  /\ UNCHANGED <<heads, queues, ail, tail, target, shutdown, head, round>>

----------------------------------------------------------------------------
(* The rest of the log, as far as this component sees it *)

\* A log record that starts at l has reached the disk (xlog_state_do_callback)
SyncLog(l) ==
  /\ ~LsnLeq(l, lastSync) /\ Pos(l) <= head
  /\ lastSync' = l
  /\ UNCHANGED <<heads, tics, queues, ailMin, movers, tail, target, awake,
                 shutdown, head, round, oops>>

\* The first item of the AIL changes; xfs_log_move_tail is called only after
\* the AIL lock has been dropped (xfs_trans_ail_update, xfs_trans_ail_delete).
AilAdvance(l) ==
  /\ ~LsnLeq(l, ailMin) /\ LsnLeq(l, lastSync)
  /\ Cardinality(movers) < MaxMovers
  /\ ailMin' = l
  /\ movers' = movers \cup {l}
  /\ UNCHANGED <<heads, tics, queues, lastSync, tail, target, awake, shutdown,
                 head, round, oops>>

\* xfs_log_move_tail with an lsn from the AIL
MoveTail(l) ==
  /\ l \in movers
  /\ movers' = movers \ {l}
  /\ IF Shut THEN UNCHANGED <<tail, awake, oops>>
             ELSE tail' = l /\ WakeAfterMove(l, FALSE)
  /\ UNCHANGED <<heads, tics, queues, lastSync, ailMin, target, shutdown, head,
                 round>>

\* xlog_assign_tail_lsn: takes the tail from the AIL and wakes nobody
AssignTail ==
  /\ tail # ailMin
  /\ tail' = ailMin
  /\ UNCHANGED <<heads, tics, queues, ail, target, awake, shutdown, head,
                 round, oops>>

MutForceUmount ==
  /\ shutdown < MaxShutdowns
  /\ shutdown' = shutdown + 1
  /\ awake' = awake \cup (Sleeping \cap Waiters("reserve"))
  /\ oops' = (oops \/ WalkHitsNull("reserve"))
  /\ UNCHANGED <<heads, tics, queues, ail, tail, target, head, round>>

\* xfs_log_force_umount: raise the flag and wake every queued ticket, all
\* under the grant lock
ForceUmount ==
  /\ shutdown < MaxShutdowns
  /\ shutdown' = shutdown + 1
  /\ awake' = awake \cup (Sleeping \cap UNION {Waiters(q) : q \in Queues})
  /\ oops' = (oops \/ \E q \in Queues : WalkHitsNull(q))
  /\ UNCHANGED <<heads, tics, queues, ail, tail, target, head, round>>

----------------------------------------------------------------------------
Lsns == {At(n) : n \in Stops}

Thread(t) ==
  \/ LogReserve(t) \/ GrantLogSpace(t) \/ GrantQueueUp(t) \/ GrantQueueUpShut(t)
  \/ GrantWake1(t) \/ GrantWake2(t)
  \/ LogReserveAgain(t) \/ RegrantPrereserved(t) \/ RegrantWriteLogSpace(t)
  \/ RegrantRedo(t) \/ RegrantWake(t)
  \/ RegrantReserveLogSpace(t) \/ UngrantLogSpace(t) \/ UngrantWake(t)

Next ==
  \/ \E t \in Tickets : Thread(t)
  \/ \E t \in Tickets, n \in WriteSizes : LogWrite(t, n)
  \/ \E n \in RoundSizes : LogRoundoff(n)
  \/ \E l \in Lsns : SyncLog(l) \/ AilAdvance(l)
  \/ \E l \in movers : MoveTail(l)
  \/ AssignTail
  \/ ForceUmount

Spec == Init /\ [][Next]_vars
----------------------------------------------------------------------------
(* Properties *)

\* Every variable has the shape its C declaration gives it.
TypeOK ==
  /\ reserve \in Place /\ write \in Place
  /\ tail \in Place /\ lastSync \in Place /\ target \in Place /\ ailMin \in Place
  /\ pc \in [Tickets -> {"idle", "grant", "gsleep1", "gsleep2", "gredo", "held",
                         "rolled", "regrant", "wsleep1", "wsleep2", "wredo",
                         "failed", "ungranted"}]
  /\ curr \in [Tickets -> Nat] /\ cnt \in [Tickets -> Nat]
  /\ \A t \in Tickets : curr[t] <= Unit[t] /\ cnt[t] <= Ocnt[t]
  /\ next \in [Tickets -> Tickets \cup {Null}]
  /\ prev \in [Tickets -> Tickets \cup {Null}]
  /\ headq \in [Queues -> Tickets \cup {Null}]
  /\ inQ \subseteq Tickets /\ awake \subseteq Sleeping
  /\ movers \subseteq Lsns
  /\ shutdown \in 0 .. MaxShutdowns /\ head \in Nat /\ round \in 0 .. MaxRound
  /\ oops \in BOOLEAN

\* What a ticket still holds of each head: the unused rest of its current unit
\* and the pre-reserved units not yet started.  A rolled ticket without such
\* units holds its next unit of the reserve head only.
Rest(t) == curr[t] + Unit[t] * (IF cnt[t] > 0 /\ t \in Perm THEN cnt[t] - 1 ELSE 0)
Between == {"rolled", "regrant", "wsleep1", "wsleep2", "wredo"}
OfReserve(t) == CASE pc[t] = "held" -> Rest(t)
                  [] pc[t] \in Between -> Unit[t] * (IF cnt[t] > 0 THEN cnt[t] ELSE 1)
                  [] OTHER -> 0
OfWrite(t) == CASE pc[t] = "held" -> Rest(t)
                [] pc[t] \in Between -> Unit[t] * cnt[t]
                [] OTHER -> 0

\* No byte of log space leaks or is given back twice: until a shutdown, each
\* grant head is the log's head plus exactly what the tickets still hold
\* (xlog_grant_add_space, xlog_grant_sub_space and their callers).
SpaceIsConserved ==
  ~Shut => /\ Pos(write) = head + SumFunction([t \in Tickets |-> OfWrite(t)])
           /\ Pos(reserve) = head + SumFunction([t \in Tickets |-> OfReserve(t)])

\* The in-core log never runs over what the first AIL item still needs, except
\* by the roundoff that xlog_sync adds unasked: this is what the checks in
\* xlog_grant_log_space and xlog_regrant_write_log_space are for, and it holds
\* although xfs_log_move_tail may run late and out of order.
HeadNeverOverrunsTail ==
  ~Shut => Pos(write) <= Pos(ailMin) + LogSize + round

\* xlog_verify_grant_head: the reserve head is never behind the write head.
ReserveCoversWrite == ~Shut => Pos(write) <= Pos(reserve)

\* Each sleeping ticket is on the queue it sleeps on and on no other, the rings
\* are closed, and no signal is lost because its target was not reachable
\* (xlog_ins_ticketq, xlog_del_ticketq and the two grant routines).
WaitersAreQueued ==
  ~Shut =>
    /\ \A t \in inQ : next[t] \in inQ /\ prev[t] \in inQ /\ prev[next[t]] = t
    /\ Waiters("reserve") = {t \in inQ : pc[t] \in {"gsleep1", "gsleep2", "gredo"}}
    /\ Waiters("write") = {t \in inQ : pc[t] \in {"wsleep1", "wsleep2", "wredo"}}
    /\ Sleeping \subseteq inQ

\* The AIL is never asked to push past the last record that is known to be on
\* disk ("Don't pass in an lsn greater than ...", xlog_grant_push_ail).
TargetIsOnDisk == LsnLeq(target, lastSync)

\* xfs_log_force_umount: "we don't want anybody waiting for log reservations
\* after this": once the log is shut down every sleeper leaves, for good.
ShutdownReleasesSleepers == Shut ~> [](Sleeping = {})

\* No wake-up is lost: if the log tail keeps up, a thread sleeping for log
\* space does not sleep for ever (xfs_log_move_tail, xlog_ungrant_log_space).
NobodySleepsForever == \A t \in Tickets : t \in Sleeping ~> t \notin Sleeping

\* A walk of the queues never follows the NULL t_next of a ticket that has left:
\* "If we're shutting down, this tic is already off the queue"
\* (xlog_regrant_write_log_space), so no queue may point at one that is not on it.
WalkStaysOnQueue == ~oops

\* Every thread inside the log code gets to run; a transaction that holds a
\* reservation does not roll for ever; records reach the disk, items leave the
\* AIL and the tail follows (each of these can happen only finitely often, so
\* one condition for all of them is enough).
Fairness ==
  /\ \A t \in Tickets :
       /\ WF_vars(/\ pc[t] \notin {"idle", "held"}
                  /\ Thread(t))
       /\ SF_vars(UngrantLogSpace(t))
  /\ WF_vars(\/ \E l \in Lsns : Pos(l) <= head /\ (SyncLog(l) \/ AilAdvance(l))
             \/ \E l \in movers : MoveTail(l))
FairSpec == Spec /\ Fairness
=============================================================================
