------------------------------ MODULE MCCaches ------------------------------
(* Small instances of the buffer and of the inode cache in one run. A        *)
(* behaviour is one of `which': three transactions on a buffer that starts   *)
(* unlogged, two transactions on one that may start logged while writes fail *)
(* and the filesystem may be shut down, or two lookups of an inode with two  *)
(* walkers. The part that does not run stays where it starts.                *)
EXTENDS XfsInodeCache, XfsBufItem

VARIABLE which

CachesInit ==
  /\ BufInit /\ CacheInit
  /\ \/ which = "long" /\ Unlogged /\ ondisk = "used"
     \/ which = "short" /\ ondisk = "used"
     \/ which = "cache" /\ Unlogged /\ kind = "other" /\ use.state = "meta"
CachesNext ==
  /\ UNCHANGED which
  /\ \/ which = "long" /\ BufNext /\ UNCHANGED <<shut, errors, cacheVars>>
     \/ which = "short" /\ BufNext /\ tx'[3] = tx[3] /\ UNCHANGED cacheVars
     \/ which = "cache" /\ CacheNext /\ UNCHANGED bufVars
CachesSpec == CachesInit /\ [][CachesNext]_<<which, bufVars, cacheVars>>
=============================================================================
