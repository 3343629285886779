------------------------------- MODULE MCLog -------------------------------
(* Small instances of the log from its reservations to its recovery: the     *)
(* tail and the grant heads, as the constants say, the search for the head   *)
(* of the log at mount, and the replay of what lies between. A behaviour is  *)
(* one of instance `which'; tail and heads stay in an initial state in the   *)
(* others, and the rest are idle.                                            *)
EXTENDS XfsLogTail, XfsLogGrant

CONSTANTS t1, t2, t3, i1, i2, i3

VARIABLES
  which,
  acurr, ait, astart, acommit, acalled, ainPlace, ali, arec, agot, ahdr, alock, acb, alastSync, atail, amt,
  hdisk, hcore, flight, stale, truth, hcrashes,
  disk, core, log, onDisk, rtail, open, fs, clean, recov, before

anyVars == <<acurr, ait, astart, acommit, acalled, ainPlace, ali, arec, agot, ahdr, alock, acb, alastSync, atail, amt>>
headVars == <<hdisk, hcore, flight, stale, truth, hcrashes>>
recVars == <<disk, core, log, onDisk, rtail, open, fs, clean, recov, before>>

\* the same with transactions that span records and tail moves delayed past an empty AIL
Any == INSTANCE XfsLogTail WITH
  Txs <- 1 .. 2, Items <- {1, 2}, Old <- 1, CB <- 3, MaxRec <- 4, Bufs <- 3, MaySpan <- TRUE, MayDrain <- TRUE,
  filling <- acurr, it <- ait, start <- astart, commit <- acommit, called <- acalled, inPlace <- ainPlace, li <- ali,
  rec <- arec, got <- agot, hdr <- ahdr, lock <- alock, cb <- acb, syncLsn <- alastSync, tailLsn <- atail, mt <- amt

\* tickets 1 and 2 roll, 1 with a pre-reserved unit; 3 is an ordinary transaction that asks for no count
MCUnit == <<2, 2, 3>>
MCOcnt == <<2, 1, 0>>

\* logs that begin at the start of the disk and just before its end
Heads == INSTANCE XfsLogHead WITH
  LogBB <- 13, MaxRec <- 3, Bufs <- 2, Span <- 10, MaxCrashes <- 2, TailKept <- TRUE,
  Starts <- {[at |-> 0, recs |-> {2}], [at |-> 18, recs |-> {2, 3}]},
  disk <- hdisk, core <- hcore, crashes <- hcrashes

Replay == INSTANCE XfsRecover WITH
  MaxTrans <- 3, MaxOpen <- 1, MaxTouch <- 1, MaxCrashes <- 2, MaxFlush <- 8,
  Workloads <- {{"free", "freed", "modify", "meta", "data"}, {"inode", "free", "data"}, {"dquot", "quotaoff"}},
  tail <- rtail, rec <- recov

----------------------------------------------------------------------------
AnyIdle == /\ acurr = 0 /\ ait = 0 /\ astart = 0 /\ acommit = 0 /\ acalled = 0 /\ ainPlace = 0 /\ ali = 0 /\ arec = 0
           /\ agot = 0 /\ ahdr = 0 /\ alock = 0 /\ acb = 0 /\ alastSync = 0 /\ atail = 0 /\ amt = 0
HeadIdle == hdisk = 0 /\ hcore = 0 /\ flight = 0 /\ stale = 0 /\ truth = 0 /\ hcrashes = 0
RecIdle == /\ disk = 0 /\ core = 0 /\ log = 0 /\ onDisk = 0 /\ rtail = 0 /\ open = 0 /\ fs = 0 /\ clean = 0
           /\ recov = 0 /\ before = 0

LogInit ==
  /\ TailInit /\ Init
  /\ \/ which = "tail" /\ AnyIdle /\ HeadIdle /\ RecIdle
     \/ which = "any" /\ Any!TailInit /\ HeadIdle /\ RecIdle
     \/ which = "grant" /\ AnyIdle /\ HeadIdle /\ RecIdle
     \/ which = "head" /\ Heads!HeadInit /\ AnyIdle /\ RecIdle
     \/ which = "replay" /\ Replay!RecInit /\ AnyIdle /\ HeadIdle

LogNext ==
  /\ UNCHANGED which
  /\ \/ which = "tail" /\ TailNext /\ UNCHANGED <<vars, anyVars, headVars, recVars>>
     \/ which = "any" /\ Any!TailNext /\ UNCHANGED <<tailVars, vars, headVars, recVars>>
     \/ which = "grant" /\ Next /\ UNCHANGED <<tailVars, anyVars, headVars, recVars>>
     \/ which = "head" /\ Heads!HeadNext /\ UNCHANGED <<tailVars, vars, anyVars, recVars>>
     \/ which = "replay" /\ Replay!RecNext /\ UNCHANGED <<tailVars, vars, anyVars, headVars>>

LogSpec == LogInit /\ [][LogNext]_<<which, tailVars, vars, anyVars, headVars, recVars>>

----------------------------------------------------------------------------
\* The tail never names a record that is not on disk, whatever is delayed
\* (xlog_assign_tail_lsn, xfs_log_move_tail).
AnyTailIsOnDisk == which = "any" => Any!TailIsOnDisk

\* A mount finds the last record that was written with all before it, whatever
\* earlier crashes left on the disk (xlog_find_head, xlog_clear_stale_blocks).
HeadIsFound == which = "head" => Heads!HeadIsFound

\* Replay leaves on disk what the committed transactions say, and carries out every
\* extent-free intent once (xlog_recover_do_trans, xlog_recover_process_efis).
ReplayIsExact == which = "replay" => Replay!ReplayIsExact /\ Replay!IntentsAreCarriedOut
=============================================================================
