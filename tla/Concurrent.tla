----------------------------- MODULE Concurrent -----------------------------
(***************************************************************************)
(* `lon backup` and `lon restore` in one terminal, the lifecycle commands  *)
(* in others, over the stores of one instance: the composition of          *)
(* BackupRestore and Lifecycle.  Nothing in the code excludes it; each     *)
(* command acts on files, row, container and volumes as the others leave   *)
(* them.  The instance exists from the start.                              *)
(***************************************************************************)
EXTENDS BackupRestore

CONSTANTS
    Terminals,          \* the processes that run beside a backup or a restore
    Verbs,              \* what they run
    MaxBeside,          \* bound: commands they run
    MaxFaults           \* bound: how many of those fail or are killed

VARIABLES proc, used, beside, faults    \* of Lifecycle

LC == INSTANCE Lifecycle WITH
    Asked <- {None}, AskedInit <- {None}, InitKinds <- {}, MaxCommands <- MaxBeside,
    commands <- beside

backupVars == <<storeVars, localVars, ghostVars, countVars, pc>>
besideVars == <<proc, used, beside, faults>>
allVars == <<worldVars, backupVars, besideVars>>

ASSUME ConcurrentAssumption ==
    /\ LocalKey # ForeignKey
    /\ InitKinds \subseteq {"running", "booting", "stopped", "down"}
    /\ Verbs \subseteq {"up", "down", "stop", "start", "restart", "status", "logs", "open"}
    /\ MaxBeside \in Nat /\ MaxFaults \in Nat

InitBoth ==
    /\ Init
    /\ proc = [p \in Terminals |-> LC!NoProcess]
    /\ used = {LocalKey, ForeignKey}
    /\ beside = 0 /\ faults = 0

\* A restore keeps the port of its bundle here; BackupRestore has --port.
StartOne ==
    \/ \E pass \in Passes : StartBackup(pass)
    \/ \E name \in BundleNames, secret \in Passes \cup shown :
          StartRestore(name, secret, TRUE, None)

BackupOrRestore ==
    /\ StartOne \/ Step \/ Abort
    /\ UNCHANGED besideVars

Beside ==
    /\ \E p \in Terminals : LC!Start(p) \/ LC!Step(p) \/ LC!Refused(p) \/ LC!Fault(p)
    /\ UNCHANGED backupVars

N8n == N8nStep /\ UNCHANGED <<backupVars, besideVars>>

NextBoth == BackupOrRestore \/ Beside \/ N8n

SpecBoth == InitBoth /\ [][NextBoth]_allVars
-----------------------------------------------------------------------------
(* Properties.                                                             *)

\* Whatever other commands do meanwhile, the key of every volume stays in .env or
\* in a bundle (backup.py:212-251), unless two commands that write bundles began
\* in one second (backup.py:804).
KeyStays == clock = commands => KeyNeverLost

\* The bundle a replace takes first holds what its rollback brings back, whatever
\* other commands start, stop or rewrite meanwhile, unless an `up` has changed the
\* row between the two readings restore makes of it (backup.py:203 and 84).
SafetyHolds == clock = commands /\ bk.rec = job.rec => SafetyNet

\* No step of anybody removes the volume that a rollback is to bring back, even
\* when a second restore in one second reuses its name (backup.py:486).
VolumeKept ==
    [][\A v \in Vols : vol[v] # None /\ vol'[v] = None => rb # None /\ v # rb.rec.vol]_allVars
=============================================================================
