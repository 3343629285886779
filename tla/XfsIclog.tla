------------------------------ MODULE XfsIclog ------------------------------
(***************************************************************************)
(* The ring of in-core logs (fs/xfs/xfs_log.c): transactions copy their    *)
(* regions into the current iclog, full or forced iclogs are written out,  *)
(* and the commit callbacks attached to an iclog run once it is on disk.   *)
(*                                                                         *)
(* One step is one critical section under l_icloglock (or, where the code  *)
(* takes it instead, ic_callback_lock or l_grant_lock).  LSNs are record   *)
(* numbers: the n-th iclog switched out becomes record n.  The space in an *)
(* iclog is counted in units of which Cap fit.                             *)
(***************************************************************************)
EXTENDS Integers, Sequences, FiniteSets, FiniteSetsExt

CONSTANTS
  N,          \* l_iclog_bufs
  Cap,        \* ic_size, in units
  Txs,        \* committing transactions
  DataLen,    \* [Txs -> units of log data the transaction writes]
  Forcers,    \* threads in _xfs_log_force
  Cpus,       \* xfslogd threads: one per CPU, they run xlog_iodone
  Killer,     \* a thread that shuts the filesystem down
  BWrites,    \* into how many buffer writes xlog_sync may split: of {1, 2}
  MayFail,    \* whether log I/O may fail
  MayShutdown,\* which shutdowns the killer may start: of {"log", "other"}
  None        \* no iclog

Iclogs == 0 .. N - 1
Syncers == Forcers \cup {Killer}     \* xfs_log_force_umount may force, too
Procs == Txs \cup Syncers \cup Cpus

ASSUME IclogAssumption ==
  /\ N \in Nat \ {0, 1}            \* XLOG_MIN_ICLOGS is 2
  /\ Cap \in Nat \ {0, 1}
  /\ None \notin Iclogs
  /\ DataLen \in [Txs -> Nat \ {0}]
  /\ BWrites \subseteq {1, 2} /\ BWrites # {}
  /\ MayFail \in BOOLEAN /\ MayShutdown \subseteq {"log", "other"}
  /\ Txs \cap Forcers = {} /\ Txs \cap Cpus = {} /\ Forcers \cap Cpus = {}
  /\ Killer \notin Txs \cup Forcers \cup Cpus
  /\ IsFiniteSet(Txs) /\ IsFiniteSet(Forcers) /\ IsFiniteSet(Cpus)

VARIABLES
  st,        \* ic_state
  lsn,       \* ic_header.h_lsn, 0 when the iclog has none
  off,       \* ic_offset
  ref,       \* ic_refcnt
  cbs,       \* ic_callback: the transactions waiting, in order
  bw,        \* ic_bwritecnt
  head,      \* l_iclog
  curr,      \* l_curr_cycle, l_curr_block: the number of the next record
  lastSync,  \* l_last_sync_lsn
  shut,      \* XLOG_IO_ERROR / XFS_MOUNT_FS_SHUTDOWN
  flying,    \* buffer writes of each iclog the disk has not answered yet
  torn,      \* iclogs one of whose buffer writes failed
  disk,      \* records that are completely on disk
  pc,        \* where each thread is
  awake,     \* the sleepers that have been signalled
  ic,        \* the iclog a thread holds, waits on or completes
  ctx,       \* a thread's locals in xlog_state_do_callback
  left,      \* units a transaction has still to copy
  phase,     \* which xlog_write a transaction is in
  clsn,      \* commit lsn: the record a transaction's commit record is in
  want,      \* the lsn a forcer wants on disk, 0 for all
  sync,      \* the forcer passes XFS_LOG_SYNC
  slept,     \* already_slept of xlog_state_sync
  seen,      \* the lsn xlog_state_sync_all remembers across its release
  goal,      \* history: the last record a force was asked for
  called     \* history: the callbacks run, in order

ring  == <<st, lsn, off, ref, bw, head, curr>>
io    == <<flying, torn, disk>>
txv   == <<left, phase, clsn>>
force == <<want, sync, slept, seen, goal>>
vars  == <<ring, cbs, lastSync, shut, io, pc, awake, ic, ctx, txv, force, called>>

Succ(i) == (i + 1) % N
Pred(i) == (i + N - 1) % N
NoCtx == [cur |-> None, left |-> 0, err |-> FALSE, ab |-> FALSE,
          ci |-> None, got |-> <<>>, then |-> "idle"]
Goto(p, l) == pc' = [pc EXCEPT ![p] = l]

Init ==
  /\ st = [i \in Iclogs |-> "ACTIVE"] /\ lsn = [i \in Iclogs |-> 0]
  /\ off = [i \in Iclogs |-> 0] /\ ref = [i \in Iclogs |-> 0]
  /\ cbs = [i \in Iclogs |-> <<>>] /\ bw = [i \in Iclogs |-> 0]
  /\ head = 0 /\ curr = 1 /\ lastSync = 0 /\ shut = FALSE
  /\ flying = [i \in Iclogs |-> 0] /\ torn = {} /\ disk = {}
  /\ pc = [p \in Procs |-> "idle"] /\ ic = [p \in Procs |-> None]
  /\ ctx = [p \in Procs |-> NoCtx]
  /\ left = [t \in Txs |-> 0] /\ phase = [t \in Txs |-> "none"]
  /\ clsn = [t \in Txs |-> 0]
  /\ want = [f \in Syncers |-> 0] /\ sync = [f \in Syncers |-> FALSE]
  /\ slept = [f \in Syncers |-> FALSE] /\ seen = [f \in Syncers |-> 0]
  /\ goal = [f \in Syncers |-> 0] /\ awake = {}
  /\ called = <<>>

----------------------------------------------------------------------------
(* xlog_state_switch_iclogs, xlog_state_ioerror, xlog_state_release_iclog *)

\* The current iclog becomes record number curr and the next one current.
SwitchIclogs ==
  /\ st' = [st EXCEPT ![head] = "WANT_SYNC"]
  /\ head' = Succ(head)
  /\ curr' = curr + 1

\* xlog_state_ioerror: all iclogs at once, unless it has happened already
AllIoerror == IF st[head] = "IOERROR" THEN UNCHANGED st
              ELSE st' = [i \in Iclogs |-> "IOERROR"]

\* atomic_dec_and_lock: whoever drops the last reference
LastRef(i) == ref[i] = 1

\* xlog_state_release_iclog of the iclog the thread holds: drop the reference;
\* the last one out of a WANT_SYNC iclog writes it (from pc "sync" on).
\* An IOERROR iclog is seen before or after the reference is dropped.
Release(p) ==
  LET i == ic[p] IN
  /\ pc[p] = "release"
  /\ \/ /\ st[i] # "IOERROR" /\ ~LastRef(i)
        /\ ref' = [ref EXCEPT ![i] = @ - 1]
        /\ UNCHANGED st
        /\ Goto(p, "released")
     \/ /\ st[i] # "IOERROR" /\ LastRef(i)
        /\ ref' = [ref EXCEPT ![i] = @ - 1]
        /\ IF st[i] = "WANT_SYNC"
             THEN st' = [st EXCEPT ![i] = "SYNCING"] /\ Goto(p, "sync")
             ELSE UNCHANGED st /\ Goto(p, "released")
     \/ /\ st[i] = "IOERROR"
        /\ \/ Goto(p, "eio") /\ UNCHANGED ref
           \/ /\ ref' = [ref EXCEPT ![i] = @ - 1]
              /\ Goto(p, IF LastRef(i) THEN "eio" ELSE "released")
        /\ UNCHANGED st
  /\ UNCHANGED <<lsn, off, bw, head, curr, cbs, lastSync, shut, io, awake, ic, ctx,
                 txv, force, called>>

\* xlog_sync and xlog_bdstrat_cb.  A write that is refused because the iclog is
\* IOERROR completes in this very thread, with an error.
Sync(p) ==
  LET i == ic[p] IN
  /\ pc[p] = "sync"
  /\ \E b \in BWrites :
       /\ bw' = [bw EXCEPT ![i] = b]
       /\ \/ /\ st[i] # "IOERROR"
             /\ flying' = [flying EXCEPT ![i] = b]
             /\ Goto(p, "released")
             /\ UNCHANGED <<ctx, torn>>
          \/ /\ st[i] = "IOERROR"
             /\ torn' = torn \cup {i}
             /\ ctx' = [ctx EXCEPT ![p] = [NoCtx EXCEPT !.ab = TRUE, !.ci = i,
                                                        !.then = "eio"]]
             /\ Goto(p, "donesync")
             /\ UNCHANGED flying
  /\ UNCHANGED <<st, lsn, off, ref, head, curr, cbs, lastSync, shut, disk, awake, ic,
                 txv, force, called>>

----------------------------------------------------------------------------
(* xlog_write, on behalf of a transaction *)

\* xfs_trans_commit reaches xfs_log_write
Start(t) ==
  /\ pc[t] = "idle" /\ phase[t] = "none"
  /\ ~shut
  /\ phase' = [phase EXCEPT ![t] = "data"]
  /\ left' = [left EXCEPT ![t] = DataLen[t]]
  /\ Goto(t, "space")
  /\ UNCHANGED <<ring, cbs, lastSync, shut, io, awake, ic, ctx, clsn, force, called>>

\* xlog_state_get_iclog_space
GetSpaceFails(t) ==
  /\ pc[t] = "space" /\ shut
  /\ Goto(t, "eio")
  /\ UNCHANGED <<ring, cbs, lastSync, shut, io, awake, ic, ctx, txv, force, called>>

\* the head of the ring is still busy: wait on l_flush_wait
GetSpaceWaits(t) ==
  /\ pc[t] = "space" /\ ~shut
  /\ st[head] # "ACTIVE"
  /\ Goto(t, "flushwait")
  /\ UNCHANGED <<ring, cbs, lastSync, shut, io, awake, ic, ctx, txv, force, called>>

\* no room for two op headers: switch, and if no other writer is left in that
\* iclog write it out; then start over
GetSpaceNoRoom(t) ==
  /\ pc[t] = "space" /\ ~shut
  /\ st[head] = "ACTIVE" /\ off[head] = Cap
  /\ SwitchIclogs
  /\ IF ref[head] > 0
       THEN UNCHANGED <<ref, ic, pc>>
       ELSE /\ ref' = [ref EXCEPT ![head] = 1]
            /\ ic' = [ic EXCEPT ![t] = head]
            /\ Goto(t, "release")
  /\ UNCHANGED <<lsn, off, bw, cbs, lastSync, shut, io, awake, ctx, txv, force, called>>

Fits(t, i) == left[t] <= Cap - off[i]

\* take what is needed, or all that is left and close the iclog
GetSpace(t) ==
  LET i == head IN
  /\ pc[t] = "space" /\ ~shut
  /\ st[i] = "ACTIVE" /\ off[i] < Cap
  /\ ref' = [ref EXCEPT ![i] = @ + 1]
  /\ lsn' = [lsn EXCEPT ![i] = IF off[i] = 0 THEN curr ELSE @]
  /\ clsn' = [clsn EXCEPT ![t] = IF phase[t] = "commit" THEN lsn'[i] ELSE @]
  /\ ic' = [ic EXCEPT ![t] = i]
  /\ \/ /\ Fits(t, i)
        /\ off' = [off EXCEPT ![i] = @ + left[t]]
        /\ left' = [left EXCEPT ![t] = 0]
        /\ UNCHANGED <<st, head, curr>>
        /\ Goto(t, CASE off[i] + left[t] = Cap -> "wantsync"
                     [] phase[t] = "commit" -> "notify"
                     [] OTHER -> "release")
     \/ /\ ~Fits(t, i)
        /\ SwitchIclogs
        /\ left' = [left EXCEPT ![t] = @ - (Cap - off[i])]
        /\ UNCHANGED off
        /\ Goto(t, "finish")
  /\ UNCHANGED <<bw, cbs, lastSync, shut, io, awake, ctx, phase, force, called>>

\* xlog_state_finish_copy after a partial copy
FinishCopy(t) ==
  /\ pc[t] = "finish"
  /\ off' = [off EXCEPT ![ic[t]] = Cap]
  /\ Goto(t, "release")
  /\ UNCHANGED <<st, lsn, ref, bw, head, curr, cbs, lastSync, shut, io, awake, ic, ctx,
                 txv, force, called>>

\* xlog_state_want_sync, when the copy has filled the iclog
WantSync(t) ==
  /\ pc[t] = "wantsync"
  /\ IF st[ic[t]] = "ACTIVE" THEN SwitchIclogs ELSE UNCHANGED <<st, head, curr>>
  /\ Goto(t, IF phase[t] = "commit" THEN "notify" ELSE "release")
  /\ UNCHANGED <<lsn, off, ref, bw, cbs, lastSync, shut, io, awake, ic, ctx, txv, force,
                 called>>

\* xfs_log_notify: attach the callback, or on a dead iclog run it at once
Notify(t) ==
  /\ pc[t] = "notify"
  /\ IF st[ic[t]] = "IOERROR"
       THEN /\ called' = Append(called, [tx |-> t, ab |-> TRUE])
            /\ UNCHANGED cbs
       ELSE /\ cbs' = [cbs EXCEPT ![ic[t]] = Append(@, t)]
            /\ UNCHANGED called
  /\ phase' = [phase EXCEPT ![t] = "notified"]
  /\ Goto(t, "release")
  /\ UNCHANGED <<ring, lastSync, shut, io, awake, ic, ctx, left, clsn, force>>

\* what follows a release: the rest of the data, the commit record, or the end
TxReleased(t) ==
  /\ pc[t] = "released"
  /\ ic' = [ic EXCEPT ![t] = None]
  /\ IF phase[t] = "notified"
       THEN Goto(t, "idle") /\ UNCHANGED <<left, phase>>
       ELSE /\ Goto(t, "space")
            /\ IF phase[t] = "data" /\ left[t] = 0
                 THEN /\ phase' = [phase EXCEPT ![t] = "commit"]
                      /\ left' = [left EXCEPT ![t] = 1]
                 ELSE UNCHANGED <<left, phase>>
  /\ UNCHANGED <<ring, cbs, lastSync, shut, io, awake, ctx, clsn, force, called>>

\* an error from xlog_write or xfs_log_release_iclog: xfs_force_shutdown with
\* SHUTDOWN_LOG_IO_ERROR, and xfs_trans_uncommit if nothing was attached
TxError(t) ==
  /\ pc[t] = "eio"
  /\ ic' = [ic EXCEPT ![t] = None]
  /\ phase' = [phase EXCEPT ![t] = IF @ = "notified" THEN @ ELSE "uncommitted"]
  /\ IF st[head] = "IOERROR"
       THEN Goto(t, "idle") /\ UNCHANGED <<st, shut, ctx>>
       ELSE /\ shut' = TRUE
            /\ AllIoerror
            /\ ctx' = [ctx EXCEPT ![t] = [NoCtx EXCEPT !.ab = TRUE]]
            /\ Goto(t, "cbstart")
  /\ UNCHANGED <<lsn, off, ref, bw, head, curr, cbs, lastSync, io, awake, left, clsn,
                 force, called>>

----------------------------------------------------------------------------
(* xlog_state_clean_log and the scan of xlog_state_do_callback, as functions *)
(* of the iclog states they start from.                                      *)

\* DIRTY iclogs from the head of the ring on become ACTIVE, up to the first one
\* that is neither.
Cleaned(s) ==
  {i \in Iclogs : /\ s[i] = "DIRTY"
                  /\ \A k \in 0 .. ((i - head + N) % N) :
                       s[(head + k) % N] \in {"DIRTY", "ACTIVE"}}

\* xlog_get_lowest_lsn
LowestLsn(s, l) == Min({l[i] : i \in {j \in Iclogs : s[j] \notin {"ACTIVE", "DIRTY"}}})

MutSkipped(s, l, i) == s[i] \notin {"DONE_SYNC", "DO_CALLBACK", "IOERROR"}

\* what the scan passes over: nothing to do, or not its turn yet
Skipped(s, l, i) ==
  \/ s[i] \in {"ACTIVE", "DIRTY"}
  \/ s[i] \in {"DONE_SYNC", "DO_CALLBACK"} /\ LowestLsn(s, l) < l[i]

\* One pass over n iclogs from c on: the offset of the first that is not skipped
Found(s, l, c, n) == {k \in 0 .. n - 1 : ~Skipped(s, l, (c + k) % N)}

MutAgain(did, err) == FALSE

\* "while (!ioerrors && loopdidcallbacks)"
Again(did, err) == did /\ ~err

MutFlushWaiters(s) == {}

\* who is waiting for a free iclog, if the ring in state s has one or is dead
FlushWaiters(s) ==
  {t \in Txs : pc[t] = "flushwait" /\ s[head] \in {"ACTIVE", "IOERROR"}}

\* The scan, under the lock, from iclog c with n iclogs of the pass to go, by a
\* thread that completes iclog ci: the iclog states it leaves behind, the iclog
\* whose callbacks are to be run (None if it ends without one) and how much of
\* the pass is left then.  A pass in which callbacks were run (and no IOERROR
\* iclog seen) is followed by another.
Scan(ci, s, l, c, n, did, err) ==
  LET Stop(F, b) == IF F = {} THEN None ELSE (b + Min(F)) % N
      j1 == Stop(Found(s, l, c, n), c)
      Ready(S, j) == j # None /\ S[j] \in {"DONE_SYNC", "DO_CALLBACK", "IOERROR"}
      \* breaking off marks the iclog this context came with DO_CALLBACK
      Mark(S, j) == IF j # None /\ ~Ready(S, j) /\ ci # None /\ S[ci] = "DONE_SYNC"
                      THEN [S EXCEPT ![ci] = "DO_CALLBACK"] ELSE S
      s1 == Mark(s, j1)
      again == ~Ready(s, j1) /\ Again(did, err)
      j == IF again THEN Stop(Found(s1, l, head, N), head) ELSE j1
      s2 == IF again THEN Mark(s1, j) ELSE s1
      k == IF again THEN Min(Found(s1, l, head, N)) ELSE Min(Found(s, l, c, n))
  IN IF Ready(s2, j)
       THEN [st |-> IF s2[j] = "IOERROR" THEN s2 ELSE [s2 EXCEPT ![j] = "CALLBACK"],
             at |-> j, left |-> (IF again THEN N ELSE n) - k - 1]
       ELSE [st |-> s2, at |-> None, left |-> 0]

\* Take the iclog scan r stopped at, or leave the function; who waits on
\* l_flush_wait is woken then if it is worth it.
Resume(p, r, err, up) ==
  LET dead == r.st[r.at] = "IOERROR" IN
  /\ st' = r.st
  /\ IF r.at # None
       THEN /\ pc' = [pc EXCEPT ![p] = IF dead THEN "cbgrab" ELSE "lastsync"]
            /\ ctx' = [ctx EXCEPT ![p].cur = r.at, ![p].left = r.left,
                                  ![p].err = err \/ dead]
            /\ awake' = awake \cup up
            /\ UNCHANGED ic
       ELSE /\ pc' = [pc EXCEPT ![p] = ctx[p].then]
            /\ ctx' = [ctx EXCEPT ![p] = [NoCtx EXCEPT !.ab = ctx[p].then = "donesync"]]
            /\ ic' = [ic EXCEPT ![p] = IF ctx[p].then = "idle" THEN None ELSE @]
            /\ awake' = awake \cup up \cup FlushWaiters(r.st)

\* xlog_state_do_callback: entry
CbStart(p) ==
  /\ pc[p] = "cbstart"
  /\ Resume(p, Scan(ctx[p].ci, st, lsn, head, N, FALSE, FALSE), FALSE, {})
  /\ UNCHANGED <<lsn, off, ref, bw, head, curr, cbs, lastSync, shut, io, txv, force,
                 called>>

\* l_last_sync_lsn, under the grant lock
CbLastSync(p) ==
  /\ pc[p] = "lastsync"
  /\ lastSync' = lsn[ctx[p].cur]
  /\ Goto(p, "cbgrab")
  /\ UNCHANGED <<ring, cbs, shut, io, awake, ic, ctx, txv, force, called>>

MutCbGrab(p) ==
  LET i == ctx[p].cur IN
  /\ pc[p] = "cbgrab" /\ cbs[i] # <<>>
  /\ ctx' = [ctx EXCEPT ![p].got = cbs[i]]
  /\ Goto(p, "cbrun")
  /\ UNCHANGED <<ring, cbs, lastSync, shut, io, awake, ic, txv, force, called>>

\* take the whole callback list
CbGrab(p) ==
  LET i == ctx[p].cur IN
  /\ pc[p] = "cbgrab" /\ cbs[i] # <<>>
  /\ ctx' = [ctx EXCEPT ![p].got = cbs[i]]
  /\ cbs' = [cbs EXCEPT ![i] = <<>>]
  /\ Goto(p, "cbrun")
  /\ UNCHANGED <<ring, lastSync, shut, io, awake, ic, txv, force, called>>

\* xfs_trans_committed of the next transaction on it
CbRun(p) ==
  LET g == ctx[p].got IN
  /\ pc[p] = "cbrun"
  /\ called' = Append(called, [tx |-> Head(g), ab |-> ctx[p].ab])
  /\ ctx' = [ctx EXCEPT ![p].got = Tail(g)]
  /\ Goto(p, IF Len(g) = 1 THEN "cbgrab" ELSE "cbrun")
  /\ UNCHANGED <<ring, cbs, lastSync, shut, io, awake, ic, txv, force>>

MutForceWaiters(i) == {}

\* who sleeps on ic_force_wait of iclog i
ForceWaiters(i) == {f \in Syncers : pc[f] = "forcewait" /\ ic[f] = i}

\* the list is empty: the iclog is DIRTY, clean the ring, wake the forcers
\* waiting for it and go on with the scan, all under the lock
CbFinish(p) ==
  LET i == ctx[p].cur
      s == IF st[i] = "IOERROR" THEN st ELSE [st EXCEPT ![i] = "DIRTY"]
      fresh == Cleaned(s)
      s1 == [j \in Iclogs |-> IF j \in fresh THEN "ACTIVE" ELSE s[j]]
  IN
  /\ pc[p] = "cbgrab" /\ cbs[i] = <<>>
  /\ off' = [j \in Iclogs |-> IF j \in fresh THEN 0 ELSE off[j]]
  /\ lsn' = [j \in Iclogs |-> IF j \in fresh THEN 0 ELSE lsn[j]]
  /\ Resume(p, Scan(ctx[p].ci, s1, lsn', Succ(i), ctx[p].left, TRUE, ctx[p].err),
            ctx[p].err, ForceWaiters(i))
  /\ UNCHANGED <<ref, bw, head, curr, cbs, lastSync, shut, io, txv, force, called>>

----------------------------------------------------------------------------
(* xlog_iodone, xlog_state_done_syncing *)

After(p) == IF p \in Cpus THEN "idle" ELSE "eio"

\* A buffer write has succeeded.  Whether the iclog is dead is looked up here,
\* without a lock, and used later.
IodoneOk(c, i) ==
  /\ pc[c] = "idle" /\ flying[i] > 0
  /\ flying' = [flying EXCEPT ![i] = @ - 1]
  /\ disk' = IF flying[i] = 1 /\ i \notin torn THEN disk \cup {lsn[i]} ELSE disk
  /\ ic' = [ic EXCEPT ![c] = i]
  /\ ctx' = [ctx EXCEPT ![c].ab = st[i] = "IOERROR"]
  /\ Goto(c, "donesync")
  /\ UNCHANGED <<ring, cbs, lastSync, shut, torn, awake, txv, force, called>>

\* A buffer write has failed: xfs_force_shutdown (which does nothing if all
\* iclogs are dead already), then the completion goes on with XFS_LI_ABORTED.
IodoneError(c, i) ==
  /\ pc[c] = "idle" /\ flying[i] > 0 /\ MayFail
  /\ flying' = [flying EXCEPT ![i] = @ - 1]
  /\ torn' = torn \cup {i}
  /\ ic' = [ic EXCEPT ![c] = i]
  /\ IF st[head] = "IOERROR"
       THEN /\ ctx' = [ctx EXCEPT ![c].ab = TRUE]
            /\ Goto(c, "donesync")
       ELSE /\ ctx' = [ctx EXCEPT ![c] = [NoCtx EXCEPT !.ab = TRUE, !.then = "donesync"]]
            /\ Goto(c, "cbstart")
  /\ AllIoerror
  /\ shut' = TRUE
  /\ UNCHANGED <<lsn, off, ref, bw, head, curr, cbs, lastSync, disk, awake, txv,
                 force, called>>

\* who sleeps on ic_write_wait of iclog i
WriteWaiters(i) == {f \in Syncers : pc[f] = "writewait" /\ ic[f] = i}

\* xlog_state_done_syncing
DoneSyncing(p) ==
  LET i == ic[p]
      dead == st[i] = "IOERROR"
  IN
  /\ pc[p] = "donesync"
  /\ bw' = IF dead THEN bw ELSE [bw EXCEPT ![i] = @ - 1]
  /\ IF ~dead /\ bw[i] = 2
       THEN /\ Goto(p, "idle")        \* the other half is still to come
            /\ ctx' = [ctx EXCEPT ![p] = NoCtx]
            /\ ic' = [ic EXCEPT ![p] = None]
            /\ UNCHANGED <<st, awake>>
       ELSE /\ st' = IF dead THEN st ELSE [st EXCEPT ![i] = "DONE_SYNC"]
            /\ awake' = awake \cup WriteWaiters(i)
            /\ ctx' = [ctx EXCEPT ![p].ci = i, ![p].then = After(p)]
            /\ Goto(p, "cbstart")
            /\ UNCHANGED ic
  /\ UNCHANGED <<lsn, off, ref, head, curr, cbs, lastSync, shut, io, txv, force,
                 called>>

----------------------------------------------------------------------------
(* _xfs_log_force, xlog_state_sync_all, xlog_state_sync *)

\* A transaction that waits on l_flush_wait starts over when it is woken.
FlushWake(t) ==
  /\ pc[t] = "flushwait" /\ t \in awake
  /\ awake' = awake \ {t}
  /\ Goto(t, "space")
  /\ UNCHANGED <<ring, cbs, lastSync, shut, io, ic, ctx, txv, force, called>>

Committed == {t \in Txs : phase[t] = "notified"}
Data == {clsn[t] : t \in Committed} \cup {0}

\* Force one committed transaction's record, or everything (l = 0)
LogForce(f, l, s) ==
  /\ pc[f] = "idle"
  /\ want' = [want EXCEPT ![f] = l]
  /\ sync' = [sync EXCEPT ![f] = s]
  /\ goal' = [goal EXCEPT ![f] = IF l = 0 THEN Max(Data) ELSE l]
  /\ Goto(f, CASE shut -> "eio" [] l = 0 -> "syncall" [] OTHER -> "syncone")
  /\ UNCHANGED <<ring, cbs, lastSync, shut, io, awake, ic, ctx, txv, slept, seen,
                 called>>

MutSleepOn(f, i) ==
  /\ ic' = [ic EXCEPT ![f] = IF sync[f] /\ st[i] # "IOERROR" THEN i ELSE None]
  /\ Goto(f, CASE ~sync[f] \/ st[i] = "DO_CALLBACK" -> "ok"
               [] sync[f] /\ st[i] = "IOERROR" -> "eio"
               [] OTHER -> "forcewait")

\* the end of both routines: go to sleep on iclog i's ic_force_wait, or return
SleepOn(f, i) ==
  /\ ic' = [ic EXCEPT ![f] = IF sync[f] /\ st[i] # "IOERROR" THEN i ELSE None]
  /\ Goto(f, CASE ~sync[f] -> "ok"
               [] sync[f] /\ st[i] = "IOERROR" -> "eio"
               [] OTHER -> "forcewait")

\* take a reference to the current iclog, close it and let it go
CloseAndRelease(f) ==
  /\ ref' = [ref EXCEPT ![head] = @ + 1]
  /\ SwitchIclogs
  /\ ic' = [ic EXCEPT ![f] = head]
  /\ Goto(f, "release")

Empty(i) == st[i] = "DIRTY" \/ (st[i] = "ACTIVE" /\ ref[i] = 0 /\ off[i] = 0)

\* xlog_state_sync_all
SyncAll(f) ==
  /\ pc[f] = "syncall"
  /\ \/ /\ st[head] = "IOERROR"
        /\ Goto(f, "eio")
        /\ UNCHANGED <<st, ref, head, curr, ic, seen>>
     \/ /\ Empty(head) /\ st[Pred(head)] \in {"ACTIVE", "DIRTY"}
        /\ Goto(f, "ok")
        /\ UNCHANGED <<st, ref, head, curr, ic, seen>>
     \/ /\ Empty(head) /\ st[Pred(head)] \notin {"ACTIVE", "DIRTY"}
        /\ SleepOn(f, Pred(head))
        /\ UNCHANGED <<st, ref, head, curr, seen>>
     \/ /\ st[head] = "ACTIVE" /\ ~Empty(head) /\ ref[head] = 0
        /\ seen' = [seen EXCEPT ![f] = lsn[head]]
        /\ CloseAndRelease(f)
     \/ /\ st[head] = "ACTIVE" /\ ref[head] > 0
        /\ SwitchIclogs
        /\ SleepOn(f, head)
        /\ UNCHANGED <<ref, seen>>
     \/ /\ st[head] \notin {"ACTIVE", "DIRTY", "IOERROR"}
        /\ SleepOn(f, head)
        /\ UNCHANGED <<st, ref, head, curr, seen>>
  /\ UNCHANGED <<lsn, off, bw, cbs, lastSync, shut, io, awake, ctx, txv, want,
                 sync, slept, goal, called>>

\* xlog_state_sync
SyncOne(f) ==
  LET at == {i \in Iclogs : lsn[i] = want[f]}
      Batch(i) == ~slept[f] /\ st[Pred(i)] \in {"WANT_SYNC", "SYNCING"}
  IN
  /\ pc[f] = "syncone"
  /\ \/ /\ st[head] = "IOERROR"
        /\ Goto(f, "eio")
        /\ UNCHANGED <<st, ref, head, curr, ic>>
     \/ /\ st[head] # "IOERROR" /\ \A i \in at : st[i] = "DIRTY"
        /\ Goto(f, "ok")
        /\ UNCHANGED <<st, ref, head, curr, ic>>
     \/ \E i \in at :
          /\ st[i] = "ACTIVE" /\ Batch(i)
          /\ ic' = [ic EXCEPT ![f] = Pred(i)]
          /\ Goto(f, "writewait")
          /\ UNCHANGED <<st, ref, head, curr>>
     \/ \E i \in at : st[i] = "ACTIVE" /\ ~Batch(i) /\ CloseAndRelease(f)
     \/ \E i \in at :
          /\ st[i] \notin {"ACTIVE", "DIRTY", "IOERROR"}
          /\ SleepOn(f, i)
          /\ UNCHANGED <<st, ref, head, curr>>
  /\ UNCHANGED <<lsn, off, bw, cbs, lastSync, shut, io, awake, ctx, txv, force,
                 called>>

\* either routine after its xlog_state_release_iclog succeeded
ForceReleased(f) ==
  LET i == ic[f] IN
  /\ pc[f] = "released"
  /\ IF IF want[f] = 0 THEN lsn[i] = seen[f] /\ st[i] # "DIRTY"
                       ELSE st[i] \notin {"ACTIVE", "DIRTY"}
       THEN SleepOn(f, i)
       ELSE Goto(f, "ok") /\ ic' = [ic EXCEPT ![f] = None]
  /\ UNCHANGED <<ring, cbs, lastSync, shut, io, awake, ctx, txv, force, called>>

WriteWake(f) ==
  /\ pc[f] = "writewait" /\ f \in awake
  /\ awake' = awake \ {f}
  /\ slept' = [slept EXCEPT ![f] = TRUE]
  /\ Goto(f, "syncone")
  /\ UNCHANGED <<ring, cbs, lastSync, shut, io, ic, ctx, txv, want, sync, seen,
                 goal, called>>

ForceWake(f) ==
  /\ pc[f] = "forcewait" /\ f \in awake
  /\ awake' = awake \ {f}
  /\ Goto(f, IF st[ic[f]] = "IOERROR" THEN "eio" ELSE "ok")
  /\ ic' = [ic EXCEPT ![f] = None]
  /\ UNCHANGED <<ring, cbs, lastSync, shut, io, ctx, txv, force, called>>

\* _xfs_log_force returns to its caller, which may force again
ForceReturns(f) ==
  /\ pc[f] \in {"ok", "eio"}
  /\ Goto(f, "idle")
  /\ ic' = [ic EXCEPT ![f] = None]
  /\ want' = [want EXCEPT ![f] = 0] /\ goal' = [goal EXCEPT ![f] = 0]
  /\ sync' = [sync EXCEPT ![f] = FALSE] /\ slept' = [slept EXCEPT ![f] = FALSE]
  /\ seen' = [seen EXCEPT ![f] = 0]
  /\ UNCHANGED <<ring, cbs, lastSync, shut, io, awake, ctx, txv, called>>

----------------------------------------------------------------------------
(* xfs_log_force_umount *)

\* A log error: everything is dead at once.
ForceUmountLogError ==
  /\ "log" \in MayShutdown /\ pc[Killer] = "idle" /\ st[head] # "IOERROR"
  /\ shut' = TRUE
  /\ AllIoerror
  /\ ctx' = [ctx EXCEPT ![Killer] = [NoCtx EXCEPT !.ab = TRUE, !.then = "dead"]]
  /\ Goto(Killer, "cbstart")
  /\ UNCHANGED <<lsn, off, ref, bw, head, curr, cbs, lastSync, io, awake, ic, txv,
                 force, called>>

\* Some other error: stop new transactions and force the log first ...
ForceUmount ==
  /\ "other" \in MayShutdown /\ pc[Killer] = "idle" /\ ~shut
  /\ shut' = TRUE
  /\ sync' = [sync EXCEPT ![Killer] = TRUE]
  /\ Goto(Killer, "syncall")
  /\ UNCHANGED <<ring, cbs, lastSync, io, awake, ic, ctx, txv, want, slept, seen,
                 goal, called>>

\* ... then seal the iclogs and run the callbacks that are left.
ForceUmountSeal ==
  /\ pc[Killer] \in {"ok", "eio"}
  /\ AllIoerror
  /\ ctx' = [ctx EXCEPT ![Killer] = [NoCtx EXCEPT !.ab = TRUE, !.then = "dead"]]
  /\ Goto(Killer, "cbstart")
  /\ UNCHANGED <<lsn, off, ref, bw, head, curr, cbs, lastSync, shut, io, awake,
                 ic, txv, force, called>>

----------------------------------------------------------------------------
TxStep(t) ==
  \/ GetSpaceFails(t) \/ GetSpaceWaits(t) \/ GetSpaceNoRoom(t) \/ GetSpace(t)
  \/ FinishCopy(t) \/ WantSync(t) \/ Notify(t) \/ TxReleased(t) \/ TxError(t)
  \/ FlushWake(t)
ForceStep(f) ==
  SyncAll(f) \/ SyncOne(f) \/ ForceReleased(f) \/ WriteWake(f) \/ ForceWake(f)
CallbackStep(p) ==
  \/ DoneSyncing(p)
  \/ CbStart(p) \/ CbLastSync(p) \/ CbGrab(p) \/ CbRun(p) \/ CbFinish(p)

Next ==
  \/ \E t \in Txs : Start(t) \/ TxStep(t)
  \/ \E p \in Txs \cup Syncers : Release(p) \/ Sync(p)
  \/ \E p \in Procs : CallbackStep(p)
  \/ \E c \in Cpus, i \in Iclogs : IodoneOk(c, i) \/ IodoneError(c, i)
  \/ \E f \in Forcers : ForceReturns(f) \/ \E l \in Data, s \in BOOLEAN : LogForce(f, l, s)
  \/ \E f \in Syncers : ForceStep(f)
  \/ ForceUmountLogError \/ ForceUmount \/ ForceUmountSeal

Spec == Init /\ [][Next]_vars

----------------------------------------------------------------------------
(* Properties *)

States == {"ACTIVE", "WANT_SYNC", "SYNCING", "DONE_SYNC", "DO_CALLBACK",
           "CALLBACK", "DIRTY", "IOERROR"}

\* Every variable has the shape its C declaration gives it; in particular
\* ic_refcnt and ic_bwritecnt never go negative.
TypeOK ==
  /\ st \in [Iclogs -> States] /\ lsn \in [Iclogs -> Nat]
  /\ off \in [Iclogs -> 0 .. Cap] /\ ref \in [Iclogs -> Nat]
  /\ cbs \in [Iclogs -> Seq(Txs)] /\ bw \in [Iclogs -> 0 .. 2]
  /\ head \in Iclogs /\ curr \in Nat /\ lastSync \in Nat /\ shut \in BOOLEAN
  /\ flying \in [Iclogs -> 0 .. 2] /\ torn \subseteq Iclogs /\ disk \subseteq Nat
  /\ ic \in [Procs -> Iclogs \cup {None}]
  /\ left \in [Txs -> Nat] /\ clsn \in [Txs -> Nat]
  /\ phase \in [Txs -> {"none", "data", "commit", "notified", "uncommitted"}]
  /\ want \in [Syncers -> Nat] /\ goal \in [Syncers -> Nat]
  /\ seen \in [Syncers -> Nat]
  /\ sync \in [Syncers -> BOOLEAN] /\ slept \in [Syncers -> BOOLEAN]
  /\ awake \subseteq Procs

Dead == st[head] = "IOERROR"
Durable(l) == 1 .. l \subseteq disk
CalledBack(t) == \E k \in DOMAIN called : called[k].tx = t

\* Each callback runs at most once, also when iodone, shutdown and a failing
\* writer run xlog_state_do_callback on the same dead iclog at the same time.
CallbackAtMostOnce ==
  \A j, k \in DOMAIN called : called[j].tx = called[k].tx => j = k

\* l_last_sync_lsn, from which the log tail is taken when the AIL is empty,
\* only ever names a record that is on disk with all its predecessors.
LastSyncIsDurable == Durable(lastSync)

\* A synchronous force of an lsn that returns success has that record and all
\* before it on disk, and every callback of theirs has been run (_xfs_log_force,
\* xlog_state_sync); this is what a synchronous commit and fsync rely on.
ForceIsDurable ==
  \A f \in Forcers : pc[f] = "ok" /\ sync[f] /\ want[f] # 0 =>
    /\ Durable(goal[f])
    /\ \A t \in Committed : clsn[t] <= goal[f] => CalledBack(t)

\* The iclogs implement the order the transaction layer relies on.
Order == INSTANCE XfsLogOrder WITH
           reg <- [t \in Txs |-> IF phase[t] = "notified" THEN clsn[t] ELSE 0],
           done <- {called[k].tx : k \in {j \in DOMAIN called : ~called[j].ab}},
           failed <- Dead
CallbacksFollowTheLog == Order!Spec

\* Every thread that can run eventually does, and the disk answers.
Fairness ==
  /\ \A t \in Txs : WF_vars(TxStep(t) \/ Release(t) \/ Sync(t) \/ CallbackStep(t))
  /\ \A f \in Forcers : WF_vars(ForceStep(f) \/ Release(f) \/ Sync(f) \/ CallbackStep(f))
  /\ WF_vars(\/ ForceStep(Killer) \/ Release(Killer) \/ Sync(Killer)
             \/ CallbackStep(Killer) \/ ForceUmountSeal)
  /\ \A c \in Cpus : WF_vars(CallbackStep(c) \/ \E i \in Iclogs : IodoneOk(c, i))
FairSpec == Spec /\ Fairness

\* A transaction that has started to commit always gets through, waiting for a
\* free iclog if it must (l_flush_wait): each commits once, so time and again,
\* and in the end for ever, none is under way.
CommitsFinish == []<>(\A t \in Txs : pc[t] = "idle")

\* The callback of a record that is on disk is eventually run: no completion is
\* forgotten in DO_CALLBACK.
WrittenIsCalledBack ==
  []<>(\A t \in Txs : phase[t] = "notified" /\ clsn[t] \in disk => CalledBack(t))

\* A force that sleeps is woken, and _xfs_log_force returns.
ForcesReturn == \A f \in Forcers : pc[f] \in {"writewait", "forcewait"} ~>
                                   pc[f] \in {"ok", "eio"}
=============================================================================
