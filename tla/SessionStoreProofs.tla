-------------------------- MODULE SessionStoreProofs --------------------------
(***************************************************************************)
(* However many runs of the program read and write the session file at the *)
(* same time, fail, die or lose power, the file can be loaded, a copy of   *)
(* it is left behind only by a run that was killed or could not remove it, *)
(* and a session leaves it only by the power or by a run that had not read *)
(* it.                                                                     *)
(***************************************************************************)
EXTENDS SessionStore, FiniteSetTheorems, WellFoundedInduction, SequenceTheorems, TLAPS

\* What a path can hold while nothing is torn.
Files == Seq(Session) \cup {NoFile}

Temp == [path : Paths \cup {NoFile}, data : Files,
         at : {"none", "created", "filled", "closed", "left"}, synced : BOOLEAN]

\* Every variable holds what the code can put there; a renamed file was synced.
TypeOK ==
  /\ disk \in [Paths -> Files]
  /\ settled \in [Paths -> Files]
  /\ unsynced = {}
  /\ temp \in [Procs -> Temp]
  /\ at \in [Procs -> {"run", "read", "write", "failed", "ended", "killed"}]
  /\ read \in [Procs -> Files]
  /\ session \in [Procs -> Session \cup {NoFile}]
  /\ reported \in [Procs -> SUBSET Session]
  /\ losses \in Nat

\* What can be counted is finite.
Counted == \A r \in Procs : IsFiniteSet(reported[r])

\* No file, on the disk or as it was read, repeats an id.
AllLoadable ==
  /\ \A f \in Paths : Loadable(Contents(disk[f])) /\ Loadable(Contents(settled[f]))
  /\ \A r \in Procs : Loadable(Contents(read[r]))

\* A run writes what it read and its own session, to the session file, ...
WritesItsOwn ==
  \A r \in Procs : at[r] = "write" =>
    /\ session[r] \in Session
    /\ temp[r].data = Append(Contents(read[r]), session[r])
    /\ Loadable(temp[r].data)
    /\ temp[r].path = File

\* ... and has it synced before it is closed.
SyncedFirst == \A r \in Procs : temp[r].at = "closed" => temp[r].synced

IInv == TypeOK /\ Counted /\ AllLoadable /\ WritesItsOwn /\ SyncedFirst /\ LeftOnlyByFailure

-----------------------------------------------------------------------------
(* File.Add. *)

\* A set of naturals that is not empty has a least element.
LEMMA LeastNat ==
  ASSUME NEW T \in SUBSET Nat, T # {}
  PROVE  \E x \in T : \A y \in T : x <= y
<1>1. PICK R : IsWellFoundedOn(R, Nat) /\ \A x, y \in Nat : y < x => <<y, x>> \in R
  <2>1. \A x, y \in Nat : y < x => <<y, x>> \in OpToRel(<, Nat)
    BY DEF OpToRel
  <2> QED BY <2>1, NatLessThanWellFounded, Zenon
<1>2. PICK x \in T : \A y \in T : ~ (<<y, x>> \in R)
  BY <1>1, WFMin, Zenon
<1>3. \A y \in T : y \in Nat
  OBVIOUS
<1>4. \A y \in T : x <= y
  <2> SUFFICES ASSUME NEW y \in T PROVE x <= y
    OBVIOUS
  <2>1. y < x => <<y, x>> \in R
    BY <1>1, <1>3
  <2>2. ~(y < x)
    BY <1>2, <2>1
  <2> QED BY <1>3, <2>2
<1> QED BY <1>4

\* Of one number more than there are sessions, some session has not got each, ...
LEMMA SomeIdFree ==
  ASSUME NEW sets \in Seq(Session), NEW s \in Session
  PROVE  \E n \in 1..(Len(sets) + 1) : ~Taken(sets, s, n)
<1> SUFFICES ASSUME \A n \in 1..(Len(sets) + 1) : Taken(sets, s, n) PROVE FALSE
  OBVIOUS
<1> DEFINE S == 1..(Len(sets) + 1)
           T == 1..Len(sets)
           f == [n \in S |-> CHOOSE i \in T : sets[i].stamp = s.stamp /\ sets[i].n = n]
<1>1. Len(sets) \in Nat
  BY LenProperties
<1>2. /\ IsFiniteSet(S) /\ IsFiniteSet(T)
      /\ Cardinality(S) = Len(sets) + 1 /\ Cardinality(T) = Len(sets)
  <2>1. \A k \in Nat : IsFiniteSet(1..k) /\ Cardinality(1..k) = IF 1 > k THEN 0 ELSE k - 1 + 1
    BY FS_Interval
  <2>2. Len(sets) + 1 \in Nat
    BY <1>1
  <2> QED BY <1>1, <2>1, <2>2
<1>3. \A n \in S : f[n] \in T /\ sets[f[n]].n = n
  BY DEF Taken
<1>4. f \in [S -> T]
  BY <1>3
<1> HIDE DEF S, T, f
<1>5. Cardinality(T) < Cardinality(S)
  BY <1>1, <1>2
<1>6. PICK x, y \in S : x # y /\ f[x] = f[y]
  BY <1>2, <1>4, <1>5, FS_PigeonHole
<1> QED BY <1>3, <1>6

\* ... so that there is a first one that is free.
LEMMA FirstIdFree ==
  ASSUME NEW sets \in Seq(Session), NEW s \in Session
  PROVE  \E n \in 1..(Len(sets) + 1) : /\ ~Taken(sets, s, n)
                                       /\ \A m \in 1..(n - 1) : Taken(sets, s, m)
<1> DEFINE T == {n \in 1..(Len(sets) + 1) : ~Taken(sets, s, n)}
<1>1. Len(sets) \in Nat
  BY LenProperties
<1>2. T \in SUBSET Nat /\ T # {}
  BY <1>1, SomeIdFree
<1>3. PICK n \in T : \A m \in T : n <= m
  <2> HIDE DEF T
  <2> QED BY <1>2, LeastNat
<1>4. \A m \in 1..(n - 1) : Taken(sets, s, m)
  <2> SUFFICES ASSUME NEW m \in 1..(n - 1) PROVE Taken(sets, s, m)
    OBVIOUS
  <2>1. n \in 1..(Len(sets) + 1)
    OBVIOUS
  <2>2. m \in 1..(Len(sets) + 1) /\ ~(n <= m)
    BY <1>1, <2>1
  <2> QED BY <1>3, <2>2
<1> QED BY <1>3, <1>4

\* Add appends the session under an id that repeats none.
LEMMA AddAppends ==
  ASSUME NEW sets \in Seq(Session), Loadable(sets), NEW s \in Session
  PROVE  \E x \in Session : /\ Add(sets, s) = Append(sets, x) /\ Loadable(Append(sets, x))
                            /\ Append(sets, x) \in Seq(Session) /\ Last(Append(sets, x)) = x
<1> DEFINE free == CHOOSE n \in 1..(Len(sets) + 1) :
                     ~Taken(sets, s, n) /\ \A m \in 1..(n - 1) : Taken(sets, s, m)
           x == [s EXCEPT !.n = free]
<1>1. Len(sets) \in Nat
  BY LenProperties
<1>2. free \in 1..(Len(sets) + 1) /\ ~Taken(sets, s, free)
  BY FirstIdFree
<1>3. Add(sets, s) = Append(sets, x)
  BY DEF Add
<1> HIDE DEF free
<1>4. x \in Session /\ x.stamp = s.stamp /\ x.n = free
  BY <1>1, <1>2 DEF Session
<1> HIDE DEF x
<1> DEFINE w == Append(sets, x)
<1>5. w \in Seq(Session) /\ Len(w) = Len(sets) + 1 /\ w[Len(sets) + 1] = x
      /\ \A i \in 1..Len(sets) : w[i] = sets[i]
  BY <1>4, AppendProperties
<1>6. Loadable(w)
  <2> SUFFICES ASSUME NEW i \in 1..Len(w), NEW j \in 1..Len(w),
                      w[i].stamp = w[j].stamp, w[i].n = w[j].n
               PROVE  i = j
    BY DEF Loadable
  <2> HIDE DEF w
  <2>1. (i \in 1..Len(sets) \/ i = Len(sets) + 1) /\ (j \in 1..Len(sets) \/ j = Len(sets) + 1)
    BY <1>1, <1>5
  <2>2. \A k \in 1..Len(sets) : ~(w[k].stamp = x.stamp /\ w[k].n = x.n)
    BY <1>2, <1>4, <1>5 DEF Taken
  <2>3. CASE i \in 1..Len(sets) /\ j \in 1..Len(sets)
    BY <1>5, <2>3 DEF Loadable
  <2> QED BY <1>5, <2>1, <2>2, <2>3
<1>7. Last(w) = x
  BY <1>5 DEF Last
<1> QED BY <1>3, <1>4, <1>5, <1>6, <1>7

-----------------------------------------------------------------------------
(* The steps. *)

\* There is no file, and nobody has read one.
LEMMA InitHolds == Init => IInv
<1> SUFFICES ASSUME Init PROVE IInv
  OBVIOUS
<1>1. NoTemp \in Temp /\ NoTemp.at = "none"
  BY DEF NoTemp, Temp, Files
<1>2. TypeOK
  BY <1>1, SessionAssumption DEF Init, FileInit, TypeOK, Files
<1>3. Counted
  BY FS_EmptySet DEF Init, Counted
<1>4. AllLoadable
  BY EmptySeq DEF Init, FileInit, AllLoadable, Loadable, Contents
<1>5. WritesItsOwn /\ SyncedFirst /\ LeftOnlyByFailure
  BY <1>1 DEF Init, FileInit, WritesItsOwn, SyncedFirst, LeftOnlyByFailure
<1> QED BY <1>2, <1>3, <1>4, <1>5 DEF IInv

\* A step of one run that renames nothing.
LEMMA Moved ==
  ASSUME IInv, NEW r \in Procs, NEW a \in {"run", "read", "write", "failed", "ended", "killed"},
         at' = [at EXCEPT ![r] = a], UNCHANGED <<disk, settled, unsynced, losses, reported>>,
         temp' \in [Procs -> Temp], read' \in [Procs -> Files],
         session' \in [Procs -> Session \cup {NoFile}],
         \A q \in Procs : q # r => temp'[q] = temp[q] /\ read'[q] = read[q] /\ session'[q] = session[q],
         temp'[r].at = "closed" => temp'[r].synced,
         temp'[r] # NoTemp => a \in {"write", "killed"} \/ (a = "failed" /\ temp'[r].at = "left"),
         Loadable(Contents(read'[r])),
         a = "write" => /\ session'[r] \in Session
                        /\ temp'[r].data = Append(Contents(read'[r]), session'[r])
                        /\ Loadable(temp'[r].data) /\ temp'[r].path = File
  PROVE  IInv'
<1>1. /\ at' \in [Procs -> {"run", "read", "write", "failed", "ended", "killed"}]
      /\ \A q \in Procs : at'[q] = IF q = r THEN a ELSE at[q]
  BY DEF IInv, TypeOK
<1>2. TypeOK'
  BY <1>1 DEF IInv, TypeOK, Temp, Files, Session
<1>3. Counted'
  BY DEF IInv, Counted
<1>4. AllLoadable'
  BY <1>1 DEF IInv, AllLoadable, Loadable, Contents
<1>5. WritesItsOwn'
  <2>1. File' = File
    BY DEF File
  <2>2. \A q \in Procs : q # r /\ at[q] = "write" => /\ session'[q] = session[q] /\ temp'[q] = temp[q]
                                                     /\ read'[q] = read[q]
    BY <1>1
  <2>3. ASSUME NEW q \in Procs, at'[q] = "write"
        PROVE  /\ session'[q] \in Session
               /\ temp'[q].data = Append(Contents(read'[q]), session'[q])
               /\ Loadable(temp'[q].data)
               /\ temp'[q].path = File
    <3>1. CASE q = r
      BY <1>1, <2>3, <3>1
    <3>2. CASE q # r
      BY <1>1, <2>2, <2>3, <3>2 DEF IInv, WritesItsOwn
    <3> QED BY <3>1, <3>2
  <2> QED BY <2>1, <2>3 DEF WritesItsOwn, Session, Loadable, Contents
<1>6. SyncedFirst' /\ LeftOnlyByFailure'
  BY <1>1 DEF IInv, SyncedFirst, LeftOnlyByFailure, NoTemp
<1> QED BY <1>2, <1>3, <1>4, <1>5, <1>6 DEF IInv

\* What the invariant says of one run.
LEMMA RunTypes ==
  ASSUME IInv, NEW r \in Procs
  PROVE  /\ temp \in [Procs -> Temp] /\ read \in [Procs -> Files]
         /\ session \in [Procs -> Session \cup {NoFile}]
         /\ Loadable(Contents(read[r])) /\ File \in Paths
         /\ temp[r].at = "closed" => temp[r].synced
         /\ temp[r] # NoTemp => at[r] \in {"write", "killed", "failed"}
         /\ disk[File] \in Files /\ Loadable(Contents(disk[File]))
<1>1. File \in Paths
  BY SessionAssumption DEF File
<1> QED BY <1>1 DEF IInv, TypeOK, AllLoadable, SyncedFirst, LeftOnlyByFailure

\* The run reads, ends, or is killed: the files and its own stay as they are.
LEMMA QuietDone ==
  ASSUME IInv, NEW r \in Procs, ReadSessions(r) \/ RunEnds(r) \/ Killed(r)
  PROVE  IInv' /\ disk' = disk
<1>1. CASE ReadSessions(r)
  <2>1. PICK a \in {"read", "failed"} : at' = [at EXCEPT ![r] = a]
    BY <1>1 DEF ReadSessions
  <2>2. /\ read' = [read EXCEPT ![r] = disk[File]] /\ at[r] = "run"
        /\ UNCHANGED <<session, reported, losses, disk, settled, unsynced, temp>>
    BY <1>1 DEF ReadSessions, fileVars
  <2>3. read' \in [Procs -> Files] /\ Loadable(Contents(read'[r]))
        /\ \A q \in Procs : q # r => read'[q] = read[q]
    BY <2>2, RunTypes
  <2> QED BY <2>1, <2>2, <2>3, RunTypes, Moved
<1>2. CASE RunEnds(r) \/ Killed(r)
  <2>1. PICK a \in {"ended", "killed"} : at' = [at EXCEPT ![r] = a] /\ (at[r] = "run" \/ a = "killed")
    BY <1>2 DEF RunEnds, Killed
  <2>2. UNCHANGED <<read, session, reported, losses, disk, settled, unsynced, temp>>
    BY <1>2 DEF RunEnds, Killed, fileVars
  <2> QED BY <2>1, <2>2, RunTypes, Moved
<1> QED BY <1>1, <1>2

\* The run encodes what it read and its session, in a temporary file.
LEMMA BeginWriteDone ==
  ASSUME IInv, NEW r \in Procs, BeginWrite(r)
  PROVE  IInv' /\ disk' = disk
<1>1. PICK u \in Stamps :
        LET file == Encoded(r, [stamp |-> u, n |-> 1, run |-> r, nth |-> Cardinality(reported[r]) + 1])
        IN  session' = [session EXCEPT ![r] = Last(file)] /\ CreateTemp(r, File, file)
  BY DEF BeginWrite
<1> DEFINE s == [stamp |-> u, n |-> 1, run |-> r, nth |-> Cardinality(reported[r]) + 1]
<1>2. s \in Session
  <2>1. Cardinality(reported[r]) \in Nat
    BY FS_CardinalityType DEF IInv, Counted
  <2> QED BY <2>1 DEF Session
<1> DEFINE c == Contents(read[r])
<1>3. c \in Seq(Session) /\ Loadable(c)
  BY RunTypes, EmptySeq DEF Contents, Files
<1>4. session' = [session EXCEPT ![r] = Last(Add(c, s))] /\ CreateTemp(r, File, Add(c, s))
  BY <1>1 DEF Encoded
<1> HIDE DEF s
<1>5. PICK x \in Session : /\ Add(c, s) = Append(c, x) /\ Loadable(Append(c, x))
                           /\ Append(c, x) \in Seq(Session) /\ Last(Append(c, x)) = x
  <2> HIDE DEF c
  <2> QED BY <1>2, <1>3, AddAppends
<1> DEFINE t == [path |-> File, data |-> Append(c, x), at |-> "created", synced |-> FALSE]
<1>6. t \in Temp /\ t.data = Append(c, x) /\ t.path = File /\ t.at = "created"
  <2> HIDE DEF c
  <2> QED BY <1>5, RunTypes DEF Temp, Files
<1>7. temp' = [temp EXCEPT ![r] = t] /\ session' = [session EXCEPT ![r] = x]
      /\ UNCHANGED <<disk, settled, unsynced, read, reported, losses>>
      /\ at' = [at EXCEPT ![r] = "write"]
  <2> HIDE DEF c
  <2> QED BY <1>4, <1>5 DEF BeginWrite, CreateTemp
<1> HIDE DEF t
<1>8. /\ temp' \in [Procs -> Temp] /\ temp'[r] = t
      /\ session' \in [Procs -> Session \cup {NoFile}] /\ session'[r] = x
      /\ \A q \in Procs : q # r => temp'[q] = temp[q] /\ session'[q] = session[q]
  BY <1>5, <1>6, <1>7, RunTypes
<1>9. /\ Loadable(Contents(read'[r])) /\ read' \in [Procs -> Files]
      /\ \A q \in Procs : q # r => temp'[q] = temp[q] /\ read'[q] = read[q] /\ session'[q] = session[q]
      /\ temp'[r].data = Append(Contents(read'[r]), session'[r])
      /\ Loadable(temp'[r].data) /\ temp'[r].path = File /\ temp'[r].at # "closed"
  BY <1>5, <1>6, <1>7, <1>8, RunTypes
<1> HIDE DEF c
<1> QED BY <1>5, <1>7, <1>8, <1>9, Moved

\* The temporary file is filled and synced.
LEMMA WriteOnDone ==
  ASSUME IInv, NEW r \in Procs, WriteOn(r)
  PROVE  IInv' /\ disk' = disk
<1>1. temp[r] \in Temp /\ temp \in [Procs -> Temp] /\ at[r] = "write" /\ at \in [Procs -> {"run", "read", "write", "failed", "ended", "killed"}]
  BY DEF IInv, TypeOK, WriteOn
<1>2. PICK t \in Temp : /\ temp' = [temp EXCEPT ![r] = t] /\ (t.at = "closed" => t.synced)
                        /\ t.path = temp[r].path /\ t.data = temp[r].data
  <2>1. CASE FillTemp(r)
    <3> DEFINE t == [temp[r] EXCEPT !.at = "filled"]
    <3>1. t \in Temp /\ t.path = temp[r].path /\ t.data = temp[r].data /\ t.at = "filled"
      BY <1>1 DEF Temp
    <3>2. temp' = [temp EXCEPT ![r] = t]
      BY <1>1, <2>1 DEF FillTemp
    <3> QED BY <3>1, <3>2
  <2>2. CASE CloseTemp(r)
    <3> DEFINE t == [[temp[r] EXCEPT !.at = "closed"] EXCEPT !.synced = TRUE]
    <3>1. t \in Temp /\ t.path = temp[r].path /\ t.data = temp[r].data /\ t.synced
      BY <1>1 DEF Temp
    <3>2. temp' = [temp EXCEPT ![r] = t]
      BY <1>1, <2>2 DEF CloseTemp
    <3> QED BY <3>1, <3>2
  <2> QED BY <2>1, <2>2 DEF WriteOn, Writing
<1>3. UNCHANGED <<at, read, session, reported, losses, disk, settled, unsynced>>
  BY DEF WriteOn, Writing, FillTemp, CloseTemp, runVars
<1>4. at' = [at EXCEPT ![r] = "write"]
  BY <1>1, <1>3
<1>5. /\ session[r] \in Session /\ Loadable(temp[r].data)
      /\ temp[r].data = Append(Contents(read[r]), session[r]) /\ temp[r].path = File
  BY <1>1 DEF IInv, WritesItsOwn
<1>6. temp' \in [Procs -> Temp] /\ temp'[r] = t /\ \A q \in Procs : q # r => temp'[q] = temp[q]
  BY <1>1, <1>2
<1> QED BY <1>2, <1>3, <1>4, <1>5, <1>6, RunTypes, Moved

\* A call fails: the run removes its temporary file, or cannot, and ends.
LEMMA SaveFailsDone ==
  ASSUME IInv, NEW r \in Procs, SaveFails(r)
  PROVE  IInv' /\ disk' = disk
<1>1. PICK t \in Temp : /\ temp' = [temp EXCEPT ![r] = t] /\ t.at # "closed"
                        /\ t # NoTemp => t.at = "left"
  <2>1. NoTemp \in Temp /\ NoTemp.at = "none" /\ temp[r] \in Temp
    BY RunTypes DEF NoTemp, Temp, Files
  <2>2. CASE at[r] = "write"
    <3> DEFINE t == [temp[r] EXCEPT !.at = "left"]
    <3>1. t \in Temp /\ t.at = "left"
      BY <2>1 DEF Temp
    <3>2. temp' = [temp EXCEPT ![r] = NoTemp] \/ temp' = [temp EXCEPT ![r] = t]
      BY <2>2 DEF SaveFails, GiveUp
    <3> QED BY <2>1, <3>1, <3>2
  <2>3. CASE at[r] = "read"
    <3>1. temp[r] = NoTemp /\ temp' = temp
      BY <2>3, RunTypes DEF SaveFails, fileVars
    <3> QED BY <2>1, <3>1, RunTypes
  <2> QED BY <2>2, <2>3 DEF SaveFails
<1>2. UNCHANGED <<read, session, reported, losses, disk, settled, unsynced>>
      /\ at' = [at EXCEPT ![r] = "failed"]
  BY DEF SaveFails, GiveUp, fileVars
<1>3. temp' \in [Procs -> Temp] /\ temp'[r] = t /\ \A q \in Procs : q # r => temp'[q] = temp[q]
  BY <1>1, RunTypes
<1> QED BY <1>1, <1>2, <1>3, RunTypes, Moved

\* What the rename puts in the place of the session file.
Replaced(r) == /\ at[r] = "write" /\ at'[r] = "run"
               /\ disk'[File] = Append(Contents(read[r]), session[r])
               /\ disk'[File] \in Seq(Session) /\ session[r] \in Session

\* The rename.
LEMMA SavedDone ==
  ASSUME IInv, NEW r \in Procs, Saved(r)
  PROVE  IInv' /\ Replaced(r)
<1>1. /\ at[r] = "write" /\ temp[r].at = "closed" /\ temp[r].synced /\ File \in Paths
      /\ session[r] \in Session /\ temp[r].path = File /\ Loadable(temp[r].data)
      /\ temp[r].data = Append(Contents(read[r]), session[r])
  BY RunTypes DEF Saved, Rename, IInv, WritesItsOwn
<1>2. Contents(read[r]) \in Seq(Session)
  BY RunTypes, EmptySeq DEF Contents, Files
<1>3. temp[r].data \in Seq(Session)
  BY <1>1, <1>2, AppendProperties
<1>4. /\ disk' = [disk EXCEPT ![File] = temp[r].data] /\ unsynced' = {}
      /\ temp' = [temp EXCEPT ![r] = NoTemp] /\ UNCHANGED <<settled, read, session, losses>>
      /\ at' = [at EXCEPT ![r] = "run"]
      /\ reported' = [reported EXCEPT ![r] = reported[r] \cup {session[r]}]
  BY <1>1 DEF Saved, Rename, IInv, TypeOK
<1>5. NoTemp \in Temp /\ NoTemp.at = "none"
  BY DEF NoTemp, Temp, Files
<1>6. temp[r].data # NoFile
  BY <1>3, SessionAssumption
<1>7. TypeOK'
  <2>1. temp[r].data \in Files
    BY <1>3 DEF Files
  <2>2. disk' \in [Paths -> Files] /\ settled' \in [Paths -> Files]
    BY <1>4, <2>1 DEF IInv, TypeOK
  <2>3. temp' \in [Procs -> Temp] /\ read' \in [Procs -> Files] /\ losses' \in Nat
    BY <1>4, <1>5 DEF IInv, TypeOK
  <2>4. at' \in [Procs -> {"run", "read", "write", "failed", "ended", "killed"}]
        /\ session' \in [Procs -> Session \cup {NoFile}] /\ reported' \in [Procs -> SUBSET Session]
    BY <1>1, <1>4 DEF IInv, TypeOK
  <2> QED BY <1>4, <2>2, <2>3, <2>4 DEF TypeOK, Temp, Files, Session
<1>8. Counted'
  <2>1. IsFiniteSet(reported[r] \cup {session[r]})
    BY FS_AddElement DEF IInv, Counted
  <2> QED BY <1>4, <2>1 DEF IInv, Counted, TypeOK
<1>9. AllLoadable'
  <2>1. \A f \in Paths : disk'[f] = temp[r].data \/ disk'[f] = disk[f]
    BY <1>4 DEF IInv, TypeOK
  <2>2. Contents(temp[r].data) = temp[r].data
    BY <1>6 DEF Contents
  <2>3. \A f \in Paths : Loadable(Contents(disk'[f]))
    BY <1>1, <2>1, <2>2 DEF IInv, AllLoadable
  <2> QED BY <1>4, <2>3 DEF IInv, AllLoadable, Loadable, Contents
<1>10. WritesItsOwn'
  <2>1. File' = File
    BY DEF File
  <2>2. \A q \in Procs : at'[q] = "write" => at[q] = "write" /\ temp'[q] = temp[q]
    BY <1>4 DEF IInv, TypeOK
  <2> QED BY <1>4, <2>1, <2>2 DEF IInv, WritesItsOwn, Loadable, Contents, Session
<1>11. SyncedFirst' /\ LeftOnlyByFailure'
  BY <1>4, <1>5 DEF IInv, TypeOK, SyncedFirst, LeftOnlyByFailure, NoTemp
<1>12. Replaced(r)
  <2>1. disk'[File] = temp[r].data
    BY <1>1, <1>4 DEF IInv, TypeOK
  <2>2. at'[r] = "run"
    BY <1>4 DEF IInv, TypeOK
  <2> QED BY <1>1, <1>3, <2>1, <2>2 DEF Replaced
<1> QED BY <1>7, <1>8, <1>9, <1>10, <1>11, <1>12 DEF IInv

\* When the power fails every run stops; a path that settles changes no file.
LEMMA MachineDone ==
  ASSUME IInv, PowerFails \/ SettleFile
  PROVE  IInv' /\ (disk' = disk \/ losses' # losses)
<1>1. disk \in [Paths -> Files] /\ settled \in [Paths -> Files] /\ unsynced = {} /\ losses \in Nat
  BY DEF IInv, TypeOK
<1>2. CASE PowerFails
  <2>1. /\ losses' = losses + 1 /\ UNCHANGED <<temp, read, session, reported>> /\ unsynced' = {}
        /\ settled' = disk'
        /\ at' = [r \in Procs |-> IF at[r] \in {"run", "read", "write"} THEN "killed" ELSE at[r]]
    BY <1>2 DEF PowerFails, PowerLoss
  <2>2. disk' \in [Paths -> Files] /\ \A f \in Paths : disk'[f] \in {disk[f], settled[f]}
    <3>1. PICK kept \in SUBSET Paths :
            disk' = [f \in Paths |-> IF f \notin kept THEN settled[f]
                                     ELSE IF f \in unsynced THEN Torn ELSE disk[f]]
      BY <1>2 DEF PowerFails, PowerLoss
    <3> QED BY <1>1, <3>1
  <2>3. at' \in [Procs -> {"run", "read", "write", "failed", "ended", "killed"}]
        /\ \A r \in Procs : at'[r] # "write" /\ (at[r] \in {"write", "killed"} => at'[r] = "killed")
    BY <2>1 DEF IInv, TypeOK
  <2>4. TypeOK' /\ Counted'
    <3>1. losses' \in Nat
      BY <1>1, <2>1
    <3>2. TypeOK'
      BY <2>1, <2>2, <2>3, <3>1 DEF IInv, TypeOK, Temp, Files, Session
    <3> QED BY <2>1, <3>2 DEF IInv, Counted
  <2>5. AllLoadable'
    <3>1. \A f \in Paths : Loadable(Contents(disk'[f]))
      BY <2>2 DEF IInv, AllLoadable
    <3> QED BY <2>1, <3>1 DEF IInv, AllLoadable, Loadable, Contents
  <2>6. WritesItsOwn' /\ SyncedFirst' /\ LeftOnlyByFailure'
    BY <2>1, <2>3 DEF IInv, WritesItsOwn, SyncedFirst, LeftOnlyByFailure, NoTemp
  <2>7. losses' # losses
    BY <1>1, <2>1
  <2> QED BY <2>4, <2>5, <2>6, <2>7 DEF IInv
<1>3. CASE SettleFile
  <2>1. UNCHANGED <<disk, unsynced, temp, at, read, session, reported, losses>>
        /\ settled' = [settled EXCEPT ![File] = disk[File]]
    BY <1>3 DEF SettleFile, Settle, runVars
  <2>2. settled' \in [Paths -> Files] /\ \A f \in Paths : settled'[f] \in {disk[f], settled[f]}
    BY <1>1, <2>1
  <2>3. TypeOK' /\ Counted'
    <3>1. TypeOK'
      BY <1>1, <2>1, <2>2 DEF IInv, TypeOK, Temp, Files, Session
    <3> QED BY <2>1, <3>1 DEF IInv, Counted
  <2>4. AllLoadable'
    <3>1. \A f \in Paths : Loadable(Contents(settled'[f]))
      BY <2>2 DEF IInv, AllLoadable
    <3> QED BY <2>1, <3>1 DEF IInv, AllLoadable, Loadable, Contents
  <2>5. File' = File
    BY DEF File
  <2>6. WritesItsOwn' /\ SyncedFirst' /\ LeftOnlyByFailure'
    BY <2>1, <2>5 DEF IInv, WritesItsOwn, SyncedFirst, LeftOnlyByFailure, NoTemp, Loadable, Contents, Session
  <2> QED BY <2>1, <2>3, <2>4, <2>6 DEF IInv
<1> QED BY <1>2, <1>3

\* Every step keeps the invariant; what changes the file is the power or a rename.
LEMMA Step ==
  IInv /\ [Next]_vars => IInv' /\ \/ disk' = disk \/ losses' # losses
                                  \/ \E r \in Procs : Replaced(r)
<1> SUFFICES ASSUME IInv, [Next]_vars
             PROVE  IInv' /\ (disk' = disk \/ losses' # losses \/ \E r \in Procs : Replaced(r))
  OBVIOUS
<1>1. ASSUME NEW r \in Procs, RunStep(r)
      PROVE  IInv' /\ (disk' = disk \/ Replaced(r))
  BY <1>1, QuietDone, BeginWriteDone, WriteOnDone, SavedDone, SaveFailsDone DEF RunStep
<1>2. CASE UNCHANGED vars
  <2>1. UNCHANGED <<disk, settled, unsynced, temp, at, read, session, reported, losses>>
    BY <1>2 DEF vars, runVars, fileVars
  <2>2. File' = File
    BY DEF File
  <2>3. TypeOK' /\ Counted'
    BY <2>1 DEF IInv, TypeOK, Counted, Temp, Files, Session
  <2>4. AllLoadable'
    BY <2>1 DEF IInv, AllLoadable, Loadable, Contents
  <2>5. WritesItsOwn'
    BY <2>1, <2>2 DEF IInv, WritesItsOwn, Loadable, Contents, Session
  <2>6. SyncedFirst' /\ LeftOnlyByFailure'
    BY <2>1 DEF IInv, SyncedFirst, LeftOnlyByFailure, NoTemp
  <2> QED BY <2>1, <2>3, <2>4, <2>5, <2>6 DEF IInv
<1> QED BY <1>1, <1>2, MachineDone DEF Next

-----------------------------------------------------------------------------
(* The theorems. *)

\* The invariant holds for any number of runs that overlap in any way.
THEOREM Inductive == Spec => []IInv
<1>1. Init => IInv
  BY InitHolds
<1>2. IInv /\ [Next]_vars => IInv'
  BY Step
<1> QED BY <1>1, <1>2, PTL DEF Spec

\* The file is whole and no two sessions in it answer to one id.
THEOREM FileLoads == Spec => []AlwaysLoadable
<1>1. IInv => AlwaysLoadable
  <2> SUFFICES ASSUME IInv PROVE AlwaysLoadable
    OBVIOUS
  <2>1. NeverTorn
    BY SessionAssumption DEF IInv, TypeOK, Files, NeverTorn
  <2>2. File \in Paths
    BY SessionAssumption DEF File
  <2> QED BY <2>1, <2>2 DEF IInv, AllLoadable, AlwaysLoadable
<1> QED BY <1>1, Inductive, PTL

\* A copy of the sessions stays only when its run was killed or lost power, or when it
\* failed and could not remove its temporary file either.
THEOREM CopiesExplained == Spec => []LeftOnlyByFailure
<1>1. IInv => LeftOnlyByFailure
  BY DEF IInv
<1> QED BY <1>1, Inductive, PTL

\* A session leaves the file only by a power failure or by a run that had not read it.
THEOREM LostOnlyToARace == Spec => KeptUnlessRaced
<1>1. IInv /\ [Next]_vars =>
        [\A s \in Held : s \notin Held' =>
           \/ losses' # losses
           \/ \E r \in Procs : at[r] = "write" /\ at'[r] = "run" /\ s \notin ToSet(Contents(read[r]))]_vars
  <2> SUFFICES ASSUME IInv, [Next]_vars, NEW s \in Held, s \notin Held', losses' = losses
               PROVE  \E r \in Procs : at[r] = "write" /\ at'[r] = "run" /\ s \notin ToSet(Contents(read[r]))
    OBVIOUS
  <2>1. disk' # disk
    BY DEF Held, Contents, File, ToSet
  <2>2. PICK r \in Procs : Replaced(r)
    BY <2>1, Step
  <2>3. s \notin ToSet(Contents(read[r]))
    <3> SUFFICES ASSUME s \in ToSet(Contents(read[r])) PROVE FALSE
      OBVIOUS
    <3> DEFINE c == Contents(read[r])
               w == Append(c, session[r])
    <3>1. c \in Seq(Session)
      BY RunTypes, EmptySeq DEF Contents, Files
    <3>2. PICK i \in 1..Len(c) : s = c[i]
      BY <3>1, LenProperties DEF ToSet
    <3>3. w \in Seq(Session) /\ disk'[File] = w /\ session[r] \in Session
      BY <2>2 DEF Replaced
    <3>4. i \in DOMAIN w /\ w[i] = s
      <4> HIDE DEF c
      <4> QED BY <3>1, <3>2, <3>3, AppendProperties, LenProperties
    <3>5. Contents(w) = w
      BY <3>3, SessionAssumption DEF Contents
    <3>6. Held' = ToSet(Contents(disk'[File]))
      BY DEF Held, File, Contents, ToSet
    <3> HIDE DEF w
    <3> QED BY <3>3, <3>4, <3>5, <3>6 DEF ToSet
  <2> QED BY <2>2, <2>3 DEF Replaced
<1> QED BY <1>1, Inductive, PTL DEF Spec, KeptUnlessRaced
===============================================================================
