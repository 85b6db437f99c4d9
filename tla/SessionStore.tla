----------------------------- MODULE SessionStore -----------------------------
(***************************************************************************)
(* The JSON file of warmed sessions (saveSession and sessionFile in        *)
(* src/cmd/tls-forge/fetch.go, saveSessions in batch.go, File.Add in       *)
(* src/cookie/cookie.go).  Several runs of the program share one file; a   *)
(* run saves one session per proxy: it reads the file, adds the session    *)
(* under a free id and writes the file back.                               *)
(***************************************************************************)
EXTENDS AtomicFile, SequencesExt

CONSTANTS Stamps,      \* the seconds a session can be stamped with
          MaxSessions, \* how many sessions a run saves at most
          MaxLosses    \* bound on power failures

\* A session, by the second and the number its id is made of.
Session == [stamp : Stamps, n : Nat \ {0}, run : Procs, nth : Nat]

ASSUME SessionAssumption == /\ MaxSessions \in Nat /\ MaxLosses \in Nat
                            /\ Paths # {} /\ Torn # NoFile
                            /\ {NoFile, Torn} \cap Seq(Session) = {}

VARIABLES at,        \* where each run is
          read,      \* what it read from the file
          session,   \* the session it is writing
          reported,  \* the sessions it has said it saved
          losses     \* how often the power has failed

runVars == <<at, read, session, reported, losses>>
vars    == <<runVars, fileVars>>

File == CHOOSE f \in Paths : TRUE

Init == /\ FileInit
        /\ at = [r \in Procs |-> "run"]
        /\ read = [r \in Procs |-> NoFile]
        /\ session = [r \in Procs |-> NoFile]
        /\ reported = [r \in Procs |-> {}]
        /\ losses = 0

Contents(c) == IF c = NoFile THEN << >> ELSE c

\* Mutant of Add: the stamp is the id, taken or not.
AddStamped(sets, s) == Append(sets, [s EXCEPT !.n = 1])

Taken(sets, s, n) == \E i \in 1..Len(sets) : sets[i].stamp = s.stamp /\ sets[i].n = n

\* File.Add: the first of stamp, stamp-2, stamp-3 ... that nothing uses.
Add(sets, s) ==
  LET free == CHOOSE n \in 1..(Len(sets) + 1) :
                /\ ~Taken(sets, s, n)
                /\ \A m \in 1..(n - 1) : Taken(sets, s, m)
  IN Append(sets, [s EXCEPT !.n = free])

\* cookie.Load refuses a file that repeats an id.
Loadable(sets) == \A i, j \in 1..Len(sets) :
                    sets[i].stamp = sets[j].stamp /\ sets[i].n = sets[j].n => i = j

\* The jar holds cookies of the hosts that were asked: the file is read.
ReadSessions(r) ==
  /\ at[r] = "run"
  /\ Cardinality(reported[r]) < MaxSessions
  /\ IF Loadable(Contents(disk[File]))
     THEN at' = [at EXCEPT ![r] = "read"]
     ELSE at' = [at EXCEPT ![r] = "failed"]
  /\ read' = [read EXCEPT ![r] = disk[File]]
  /\ UNCHANGED <<session, reported, losses, fileVars>>

\* Mutant: what is written is the new session alone.
EncodedAlone(r, s) == <<s>>

Encoded(r, s) == Add(Contents(read[r]), s)

BeginWrite(r) ==
  /\ at[r] = "read"
  /\ \E t \in Stamps :
       LET file == Encoded(r, [stamp |-> t, n |-> 1, run |-> r, nth |-> Cardinality(reported[r]) + 1])
       IN /\ session' = [session EXCEPT ![r] = Last(file)]
          /\ CreateTemp(r, File, file)
  /\ at' = [at EXCEPT ![r] = "write"]
  /\ UNCHANGED <<read, reported, losses>>

WriteOn(r) == /\ at[r] = "write"
              /\ Writing(r)
              /\ UNCHANGED runVars

\* "saved %d cookies"; a batch goes on with the session of its next proxy.
Saved(r) == /\ at[r] = "write"
            /\ Rename(r)
            /\ reported' = [reported EXCEPT ![r] = @ \cup {session[r]}]
            /\ at' = [at EXCEPT ![r] = "run"]
            /\ UNCHANGED <<read, session, losses>>

SaveFails(r) == /\ at[r] \in {"read", "write"}
                /\ IF at[r] = "write" THEN GiveUp(r) ELSE UNCHANGED fileVars
                /\ at' = [at EXCEPT ![r] = "failed"]
                /\ UNCHANGED <<read, session, reported, losses>>

\* The run ends: it has nothing (more) to save, or it is killed at any point.
RunEnds(r) == /\ at[r] = "run"
              /\ at' = [at EXCEPT ![r] = "ended"]
              /\ UNCHANGED <<read, session, reported, losses, fileVars>>

Killed(r) == /\ at[r] \in {"read", "write"}
             /\ at' = [at EXCEPT ![r] = "killed"]
             /\ UNCHANGED <<read, session, reported, losses, fileVars>>

PowerFails == /\ losses < MaxLosses
              /\ losses' = losses + 1
              /\ PowerLoss
              /\ at' = [r \in Procs |-> IF at[r] \in {"run", "read", "write"} THEN "killed" ELSE at[r]]
              /\ UNCHANGED <<read, session, reported>>

\* A path is settled only if the power can still fail.
SettleFile == losses < MaxLosses /\ Settle(File) /\ UNCHANGED runVars

RunStep(r) == ReadSessions(r) \/ BeginWrite(r) \/ WriteOn(r) \/ Saved(r) \/ SaveFails(r) \/ RunEnds(r) \/ Killed(r)

Next == (\E r \in Procs : RunStep(r)) \/ PowerFails \/ SettleFile

Spec == Init /\ [][Next]_vars

-----------------------------------------------------------------------------
Held == ToSet(Contents(disk[File]))

\* Whatever runs overlap, fail or die, the file can be loaded: it is whole and
\* no two sessions in it answer to the same id.
AlwaysLoadable == /\ NeverTorn
                  /\ Loadable(Contents(disk[File]))

\* A copy of the sessions stays next to the file only when its run was killed or lost
\* power, or when it failed and its temporary file could not be removed either; never
\* after a run that saved what it had.
LeftOnlyByFailure == \A r \in Procs : temp[r] # NoTemp =>
              at[r] \in {"write", "killed"} \/ (at[r] = "failed" /\ temp[r].at = "left")

\* A session vanishes from the file only when the power fails, or when a run
\* writes the file from a reading older than the session.
KeptUnlessRaced ==
  [][\A s \in Held : s \notin Held' =>
       \/ losses' # losses
       \/ \E r \in Procs : at[r] = "write" /\ at'[r] = "run" /\ s \notin ToSet(Contents(read[r]))]_vars

\* What a run has said it saved stays in the file.
NothingSavedIsLost == \A r \in Procs : reported[r] \subseteq Held
===============================================================================
