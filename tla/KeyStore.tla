------------------------------ MODULE KeyStore ------------------------------
(***************************************************************************)
(* What efes promises to its clients, with no tables, disks or queues: a   *)
(* key reads as the contents that the last acknowledged write gave it,     *)
(* until it is overwritten or deleted.  Nothing else changes what a key    *)
(* reads as: not the cleaners, not a drain, not a late delete task.        *)
(* Contents are named by the upload that carried them, so they are stored  *)
(* under one key at most.                                                  *)
(***************************************************************************)
CONSTANTS
    Keys,
    Contents,
    Nothing     \* what a key without a file reads as

VARIABLES
    acknowledged,   \* what the clients were told that a key holds
    reads           \* what a client that reads the key gets

Stores == [Keys -> Contents \cup {Nothing}]

StoredOnce ==
    \A j, k \in Keys :
        acknowledged[j] = acknowledged[k] /\ acknowledged[j] # Nothing => j = k

StoreInit ==
    /\ acknowledged \in Stores
    /\ StoredOnce
    /\ reads = acknowledged

Set(k, c) ==
    /\ acknowledged' = [acknowledged EXCEPT ![k] = c]
    /\ reads' = acknowledged'

Write(k, c) == (\A j \in Keys : acknowledged[j] # c) /\ Set(k, c)

Remove(k) == Set(k, Nothing)

StoreNext == \E k \in Keys : Remove(k) \/ \E c \in Contents : Write(k, c)

StoreSpec == StoreInit /\ [][StoreNext]_<<acknowledged, reads>>
=============================================================================
