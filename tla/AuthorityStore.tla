---------------------------- MODULE AuthorityStore ----------------------------
(***************************************************************************)
(* The proxy's certificate authority on disk (LoadOrCreateCA in            *)
(* src/proxy/ca.go): two files, read one after the other and, when neither *)
(* is there, written one after the other.  A process is one start of the   *)
(* proxy and makes, if it has to, the authority named after it; a file     *)
(* holds the name of the authority it belongs to.                          *)
(***************************************************************************)
EXTENDS AtomicFile

CONSTANTS Cert, Key,     \* the two files
          Mine, Other,   \* authorities of the user's, from before
          MaxLosses      \* bound on power failures

ASSUME AuthorityAssumption == /\ Paths = {Cert, Key} /\ Cert # Key
                              /\ Procs \cap {NoFile, Mine} = {}
                              /\ MaxLosses \in Nat

VARIABLES at,          \* where each start is
          found,       \* what it read from the files
          serves,      \* the authority it serves with
          overlapped,  \* for the properties: a start has begun while another was under way
          losses       \* how often the power has failed

startVars     == <<at, found, serves, overlapped, losses>>
authorityVars == <<startVars, fileVars>>

Starting == {"readCert", "readKey", "decide", "keyWrite", "certNext", "certWrite", "undo"}

\* Nothing yet, a pair of the user's, half of one, or two halves.
AuthorityInit ==
    /\ \E c \in {NoFile, Mine}, k \in {NoFile, Mine, Other} :
         disk = [f \in Paths |-> IF f = Cert THEN c ELSE k]
    /\ settled = disk
    /\ unsynced = {}
    /\ temp = [p \in Procs |-> NoTemp]
    /\ at = [p \in Procs |-> "new"]
    /\ found = [p \in Procs |-> [f \in Paths |-> NoFile]]
    /\ serves = [p \in Procs |-> NoFile]
    /\ overlapped = FALSE
    /\ losses = 0

MoveTo(p, a) == at' = [at EXCEPT ![p] = a]

\* Nothing keeps a proxy from starting while another does.
Start(p) == /\ at[p] = "new"
            /\ MoveTo(p, "readCert")
            /\ overlapped' = (overlapped \/ \E q \in Procs : at[q] \in Starting)
            /\ UNCHANGED <<found, serves, losses, fileVars>>

ReadCert(p) == /\ at[p] = "readCert"
               /\ found' = [found EXCEPT ![p][Cert] = disk[Cert]]
               /\ MoveTo(p, "readKey")
               /\ UNCHANGED <<serves, overlapped, losses, fileVars>>

ReadKey(p) == /\ at[p] = "readKey"
              /\ found' = [found EXCEPT ![p][Key] = disk[Key]]
              /\ MoveTo(p, "decide")
              /\ UNCHANGED <<serves, overlapped, losses, fileVars>>

Missing(p) == {f \in Paths : found[p][f] = NoFile}

\* Mutant: the certificate and the key need not belong together.
LoadUnmatched(p) == /\ at[p] = "decide"
                    /\ Missing(p) = {}
                    /\ serves' = [serves EXCEPT ![p] = found[p][Cert]]
                    /\ MoveTo(p, "serving")
                    /\ UNCHANGED <<found, overlapped, losses, fileVars>>

\* parseCA and chmod.
Load(p) == /\ at[p] = "decide"
           /\ Missing(p) = {}
           /\ found[p][Cert] = found[p][Key]
           /\ serves' = [serves EXCEPT ![p] = found[p][Cert]]
           /\ MoveTo(p, "serving")
           /\ UNCHANGED <<found, overlapped, losses, fileVars>>

\* Half a pair, two halves that do not match, one that is expired, damaged or
\* unreadable, or no new one could be generated: the files stay as they are.
Refuse(p) == /\ at[p] \in {"readCert", "readKey", "decide"}
             /\ MoveTo(p, "failed")
             /\ UNCHANGED <<found, serves, overlapped, losses, fileVars>>

\* Mutant: half a pair is replaced.
CreateMissing(p) == /\ at[p] = "decide"
                    /\ Missing(p) # {}
                    /\ CreateTemp(p, Key, p)
                    /\ MoveTo(p, "keyWrite")
                    /\ UNCHANGED <<found, serves, overlapped, losses>>

Create(p) == /\ at[p] = "decide"
             /\ Missing(p) = Paths
             /\ CreateTemp(p, Key, p)
             /\ MoveTo(p, "keyWrite")
             /\ UNCHANGED <<found, serves, overlapped, losses>>

WriteOn(p) == /\ at[p] \in {"keyWrite", "certWrite"}
              /\ Writing(p)
              /\ UNCHANGED startVars

KeyWritten(p) == /\ at[p] = "keyWrite"
                 /\ Rename(p)
                 /\ MoveTo(p, "certNext")
                 /\ UNCHANGED <<found, serves, overlapped, losses>>

KeyFails(p) == /\ at[p] = "keyWrite"
               /\ GiveUp(p)
               /\ MoveTo(p, "failed")
               /\ UNCHANGED <<found, serves, overlapped, losses>>

BeginCert(p) == /\ at[p] = "certNext"
                /\ CreateTemp(p, Cert, p)
                /\ MoveTo(p, "certWrite")
                /\ UNCHANGED <<found, serves, overlapped, losses>>

CertWritten(p) == /\ at[p] = "certWrite"
                  /\ Rename(p)
                  /\ serves' = [serves EXCEPT ![p] = p]
                  /\ MoveTo(p, "serving")
                  /\ UNCHANGED <<found, overlapped, losses>>

CertFails(p) == /\ at[p] \in {"certNext", "certWrite"}
                /\ IF at[p] = "certWrite" THEN GiveUp(p) ELSE UNCHANGED fileVars
                /\ MoveTo(p, "undo")
                /\ UNCHANGED <<found, serves, overlapped, losses>>

\* os.Remove(keyFile), whose own failure is ignored.
Undo(p) == /\ at[p] = "undo"
           /\ \/ disk' = [disk EXCEPT ![Key] = NoFile]
              \/ UNCHANGED disk
           /\ MoveTo(p, "failed")
           /\ UNCHANGED <<found, serves, overlapped, losses, settled, unsynced, temp>>

Killed(p) == /\ at[p] \in Starting \cup {"serving"}
             /\ MoveTo(p, "dead")
             /\ UNCHANGED <<found, serves, overlapped, losses, fileVars>>

PowerFails == /\ losses < MaxLosses
              /\ losses' = losses + 1
              /\ PowerLoss
              /\ at' = [p \in Procs |-> IF at[p] \in Starting \cup {"serving"} THEN "dead" ELSE at[p]]
              /\ UNCHANGED <<found, serves, overlapped>>

SettleFile == losses < MaxLosses /\ (\E f \in Paths : Settle(f)) /\ UNCHANGED startVars

StartStep(p) == \/ Start(p) \/ ReadCert(p) \/ ReadKey(p) \/ Load(p) \/ Refuse(p) \/ Create(p)
                \/ WriteOn(p) \/ KeyWritten(p) \/ KeyFails(p)
                \/ BeginCert(p) \/ CertWritten(p) \/ CertFails(p) \/ Undo(p) \/ Killed(p)

AuthorityNext == (\E p \in Procs : StartStep(p)) \/ PowerFails \/ SettleFile

AuthoritySpec == AuthorityInit /\ [][AuthorityNext]_authorityVars

-----------------------------------------------------------------------------
Agrees(p) == disk[Cert] = serves[p] /\ disk[Key] = serves[p]

\* Another start that read neither file.
Rival(p) == \E q \in Procs \ {p} : Missing(q) = Paths /\ at[q] \notin {"new", "readCert", "readKey"}

\* Every proxy that serves does so with the authority in the two files, so that all of them
\* serve with the one their users trust, unless starts overlapped and another one had read
\* neither file; and a start that dies leaves no certificate whose key is not there as
\* well, unless starts overlapped or the power failed.
OneAuthority ==
  /\ \A p \in Procs : at[p] = "serving" => Agrees(p) \/ (overlapped /\ Rival(p))
  /\ disk[Cert] \in Procs => disk[Key] = disk[Cert] \/ overlapped \/ losses # 0

\* Once there is a certificate, which somebody may already trust, either file changes
\* only when the power fails, or when a start that overlapped another and had read
\* neither file writes what it made, or removes the key of it.
TrustedStays ==
  [][disk[Cert] # NoFile /\ disk' # disk =>
       \/ losses' # losses
       \/ overlapped /\ \E p \in Procs :
            Missing(p) = Paths /\ at[p] \in {"keyWrite", "certWrite", "undo"} /\ at'[p] # at[p]]_authorityVars
===============================================================================
