SPECIFICATION BufSpec
CONSTANTS
 Txs = {1,2}
 Starts = {"unlogged"}
 Kinds = {"inode","other"}
 MaxErrors = 1
 Shutdowns = {"early","late"}
INVARIANT WrittenIsLogged
CHECK_DEADLOCK FALSE
