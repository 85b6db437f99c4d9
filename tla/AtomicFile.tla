------------------------------ MODULE AtomicFile ------------------------------
(***************************************************************************)
(* atomicfile.Write (src/internal/atomicfile/atomicfile.go): a temporary   *)
(* file is created, filled, synced and renamed over the path.  Any of the  *)
(* calls may fail, the process may die between any two, and the machine    *)
(* may lose power.  A caller has one Write under way at a time.            *)
(***************************************************************************)
EXTENDS Naturals, FiniteSets

CONSTANTS Procs,    \* the processes that write
          Paths,    \* the files they write
          NoFile,   \* what a path that does not exist holds
          Torn      \* what a file holds whose bytes did not all reach the disk

VARIABLES disk,     \* what each path holds
          settled,  \* what each path holds if the power fails now
          unsynced, \* paths whose bytes may be torn if the power fails now
          temp      \* the temporary file of each process

fileVars == <<disk, settled, unsynced, temp>>

NoTemp == [path |-> NoFile, data |-> NoFile, at |-> "none", synced |-> FALSE]

FileInit == /\ disk = [f \in Paths |-> NoFile]
            /\ settled = disk
            /\ unsynced = {}
            /\ temp = [p \in Procs |-> NoTemp]

CreateTemp(p, f, d) ==
  /\ temp[p] = NoTemp
  /\ temp' = [temp EXCEPT ![p] = [path |-> f, data |-> d, at |-> "created", synced |-> FALSE]]
  /\ UNCHANGED <<disk, settled, unsynced>>

\* Chmod and Write.
FillTemp(p) == /\ temp[p].at = "created"
               /\ temp' = [temp EXCEPT ![p].at = "filled"]
               /\ UNCHANGED <<disk, settled, unsynced>>

\* Mutant: closed and renamed without Sync.
CloseUnsynced(p) == /\ temp[p].at = "filled"
                    /\ temp' = [temp EXCEPT ![p].at = "closed"]
                    /\ UNCHANGED <<disk, settled, unsynced>>

\* Sync and Close.
CloseTemp(p) == /\ temp[p].at = "filled"
                /\ temp' = [temp EXCEPT ![p].at = "closed", ![p].synced = TRUE]
                /\ UNCHANGED <<disk, settled, unsynced>>

\* Rename; the deferred remove finds nothing under the old name.
Rename(p) == LET f == temp[p].path IN
  /\ temp[p].at = "closed"
  /\ disk' = [disk EXCEPT ![f] = temp[p].data]
  /\ unsynced' = IF temp[p].synced THEN unsynced \ {f} ELSE unsynced \cup {f}
  /\ temp' = [temp EXCEPT ![p] = NoTemp]
  /\ UNCHANGED settled

Begun(p) == temp[p].at \in {"created", "filled", "closed"}

\* Mutant: nothing removes the temporary file of a Write that failed.
GiveUpLeaving(p) == Begun(p) /\ UNCHANGED fileVars

\* A call fails: the path is as it was, and the temporary file is removed, or left when
\* that fails as well, which nobody is told.  No caller writes again after it.
GiveUp(p) == /\ Begun(p)
             /\ \/ temp' = [temp EXCEPT ![p] = NoTemp]
                \/ temp' = [temp EXCEPT ![p].at = "left"]
             /\ UNCHANGED <<disk, settled, unsynced>>

Writing(p) == FillTemp(p) \/ CloseTemp(p)

-----------------------------------------------------------------------------
(* The file system.                                                        *)

\* A rename reaches the disk some time after it was made.
Settle(f) == /\ settled[f] # disk[f]
             /\ settled' = [settled EXCEPT ![f] = disk[f]]
             /\ UNCHANGED <<disk, unsynced, temp>>

\* Power fails: a path is as it was settled, or as it was last renamed, whose
\* bytes are there only if they had been synced.
PowerLoss ==
  /\ \E kept \in SUBSET Paths :
       disk' = [f \in Paths |-> IF f \notin kept THEN settled[f]
                                ELSE IF f \in unsynced THEN Torn ELSE disk[f]]
  /\ settled' = disk'
  /\ unsynced' = {}
  /\ UNCHANGED temp

\* No reader ever finds half a file under the path, whenever it looks.
NeverTorn == \A f \in Paths : disk[f] # Torn
===============================================================================
