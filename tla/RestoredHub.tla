----------------------------- MODULE RestoredHub -----------------------------
(***************************************************************************)
(* ChangeLog when the operator restores the database from a backup         *)
(* (docs/v2.md:102: with the hub stopped).  The devices keep cursors into  *)
(* the history that was lost; sync_check starts a device over when its     *)
(* cursor lies beyond the head it reads (hub/src/api/sync.rs).             *)
(***************************************************************************)
EXTENDS ChangeLog

CONSTANT MaxRestores        \* bound: restores in one run

ASSUME RestoresOK == MaxRestores \in Nat

VARIABLES
    backup,         \* the store as it was backed up: heads, log, copy, sent
    restores,       \* restores so far
    since           \* how d came over the last restore: not yet, merged, or started over

rVars == <<vars, backup, restores, since>>

RInit ==
    /\ Init
    /\ backup = storeVars
    /\ restores = 0
    /\ since = [d \in Device |-> "started over"]

Quiet == UNCHANGED <<backup, restores, since>>

\* The hub stops, transactions roll back, its volumes are copied.
Backup ==
    /\ restores < MaxRestores
    /\ backup' = storeVars
    /\ UNCHANGED <<vars, restores, since>>

\* The hub is stopped, every call it had is cut off, and it comes back with
\* the backup's tables.
Restore ==
    /\ restores < MaxRestores
    /\ storeVars # backup
    /\ heads' = backup[1]
    /\ log' = backup[2]
    /\ copy' = backup[3]
    /\ sent' = backup[4]
    /\ edits' = [w \in Writer |-> {}]
    /\ erase' = [w \in Writer |-> FALSE]
    /\ headLock' = [a \in Address |-> NoWriter]
    /\ pending' = [a \in Address |-> NoEntries]
    /\ newHead' = [a \in Address |-> 0]
    /\ stage' = [d \in Device |-> "idle"]
    /\ at' = [d \in Device |-> 0]
    /\ atBase' = [d \in Device |-> NoBase]
    /\ from' = [d \in Device |-> 0]
    /\ reset' = [d \in Device |-> FALSE]
    /\ answer' = [d \in Device |-> NoAnswer]
    /\ UNCHANGED clientVars
    /\ restores' = restores + 1
    /\ since' = [d \in Device |-> IF cursor[d] = 0 /\ held[d] = NoEntries
                                THEN "started over" ELSE "not yet"]
    /\ backup' = IF restores' = MaxRestores THEN <<>> ELSE backup   \* no later restore needs it

RNext ==
    \/ Storing /\ Quiet
    \/ \E d \in Device :
         \/ Asking(d) /\ Quiet
         \/ /\ Deliver(d)
            /\ since' = [since EXCEPT ![d] = IF answer[d].reset THEN "started over"
                                            ELSE IF @ = "not yet" THEN "merged" ELSE @]
            /\ UNCHANGED <<backup, restores>>
         \/ /\ Reinstall(d)
            /\ since' = [since EXCEPT ![d] = "started over"]
            /\ UNCHANGED <<backup, restores>>
    \/ Backup
    \/ Restore

RSpec == RInit /\ [][RNext]_rVars

-----------------------------------------------------------------------------
(* A device that was started over after a restore is rebuilt, not merged:  *)
(* it holds, current, every copy between where it started and its cursor,  *)
(* and nothing of the history that was lost (Cursor::now and the default   *)
(* cursor in sync_check, "reset" in the answer).                           *)
ResetRebuilds ==
    \A d \in Device : since[d] = "started over" =>
        \A m \in Message : Mirrors(d, m) /\ (held[d][m] # Absent => m \in sent)
==============================================================================
