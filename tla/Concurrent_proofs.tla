-------------------------- MODULE Concurrent_proofs --------------------------
(***************************************************************************)
(* A backup or a restore while other terminals run lifecycle commands:     *)
(* KeysStay (no key is lost), SafetyStays (the safety bundle of a replace  *)
(* holds what its rollback brings back) and NobodyRemoves (no step takes   *)
(* away the volume of a rollback).                                         *)
(*                                                                         *)
(* The invariants of the two components hold together, for what each needs *)
(* of the steps of the other: backup and restore need the .env and the row *)
(* to stay, and rows that are no younger than theirs; a lifecycle command  *)
(* leaves an .env that is there alone, only ever rewrites the row with a   *)
(* record it has read, and removes no volume.                              *)
(***************************************************************************)
EXTENDS Concurrent, BackupRestore_proofs

LCP == INSTANCE Lifecycle_proofs WITH
    Asked <- {None}, AskedInit <- {None}, InitKinds <- {}, MaxCommands <- MaxBeside,
    commands <- beside

AtEnv == {"open_env", "fill_env"}

BothInv ==
    /\ TypeInv
    /\ LCP!TypeInv
    /\ env # None /\ reg # None
    /\ \A p \in Terminals : proc[p].pc \notin AtEnv
    /\ clock = commands => KeyInv

-----------------------------------------------------------------------------
(* The two modules speak of one world.                                     *)

DockerStep ==
    \/ \E st \in {"running", "exited"} : ComposeUp(st)
    \/ ComposeDown \/ ComposeStop \/ ComposeStart
    \/ UNCHANGED dockerVars

LEMMA SameWorld ==
    /\ \A st : LC!ComposeUp(st) = ComposeUp(st)
    /\ LC!ComposeDown = ComposeDown
    /\ LC!ComposeStop = ComposeStop
    /\ LC!ComposeStart = ComposeStart
    /\ LC!fileVars = fileVars /\ LC!dockerVars = dockerVars /\ LC!worldVars = worldVars
BY DEF fileVars, LC!fileVars, dockerVars, LC!dockerVars, worldVars, LC!worldVars,
       ComposeUp, LC!ComposeUp, ComposeDown, LC!ComposeDown, ComposeStop, LC!ComposeStop,
       ComposeStart, LC!ComposeStart, CanUp, LC!CanUp, CanCompose, LC!CanCompose, Created,
       LC!Created, Mounted, LC!Mounted, ComposeFile, LC!ComposeFile, Vols, LC!Vols

LEMMA SameTypes == LCP!WorldTypeOK = WorldTypeOK /\ LCP!WorldTypeOK' = WorldTypeOK'
BY DEF WorldTypeOK, LCP!WorldTypeOK,
       EnvFile, LCP!EnvFile, ComposeFile, LCP!ComposeFile, InstanceRecord,
       LCP!InstanceRecord, Container, LCP!Container, Content, LCP!Content, Vols, LCP!Vols,
       Revs, LCP!Revs

LEMMA SameCommands ==
    ASSUME NEW p \in Terminals,
           LC!Start(p) \/ LC!Step(p) \/ LC!Refused(p) \/ LC!Fault(p)
    PROVE  LCP!Start(p) \/ LCP!Step(p) \/ LCP!Refused(p) \/ LCP!Fault(p)
<1> USE DEF
        LC!At, LCP!At, LC!Goto, LCP!Goto, LC!Ends, LCP!Ends, LC!PortOf, LCP!PortOf,
        LC!PortFound, LCP!PortFound, LC!NoProcess, LCP!NoProcess, LC!FirstStep,
        LCP!FirstStep, LC!ComposeUp, LCP!ComposeUp, LC!ComposeDown, LCP!ComposeDown,
        LC!ComposeStop, LCP!ComposeStop, LC!ComposeStart, LCP!ComposeStart, LC!CanUp,
        LCP!CanUp, LC!CanCompose, LCP!CanCompose, LC!Created, LCP!Created, LC!Mounted,
        LCP!Mounted, LC!Serving, LCP!Serving, LC!ContainerIsRunning, LCP!ContainerIsRunning,
        LC!fileVars, LCP!fileVars, LC!dockerVars, LCP!dockerVars, LC!worldVars,
        LCP!worldVars, LC!ComposeFile, LCP!ComposeFile, LC!Content, LCP!Content, LC!Vols,
        LCP!Vols, LC!Revs, LCP!Revs, LC!Blank, LCP!Blank
<1>1. LC!Plan(p) => LCP!Plan(p)
    BY DEF LC!Plan, LCP!Plan
<1>21. LC!PlanPort(p) => LCP!PlanPort(p)
    BY DEF LC!PlanPort, LCP!PlanPort
<1>2. LC!Lookup(p) => LCP!Lookup(p)
    BY DEF LC!Lookup, LCP!Lookup
<1>3. LC!ReadPort(p) => LCP!ReadPort(p)
    BY DEF LC!ReadPort, LCP!ReadPort
<1>4. LC!Adopt(p) => LCP!Adopt(p)
    BY DEF LC!Adopt, LCP!Adopt
<1>5. LC!OpenCompose(p) => LCP!OpenCompose(p)
    BY DEF LC!OpenCompose, LCP!OpenCompose
<1>6. LC!FillCompose(p) => LCP!FillCompose(p)
    BY DEF LC!FillCompose, LCP!FillCompose
<1>7. LC!CheckEnv(p) => LCP!CheckEnv(p)
    BY DEF LC!CheckEnv, LCP!CheckEnv
<1>8. LC!OpenEnv(p) => LCP!OpenEnv(p)
    BY DEF LC!OpenEnv, LCP!OpenEnv
<1>9. LC!FillEnv(p) => LCP!FillEnv(p)
    BY DEF LC!FillEnv, LCP!FillEnv
<1>10. LC!Upsert(p) => LCP!Upsert(p)
    BY DEF LC!Upsert, LCP!Upsert
<1>11. LC!Up(p) => LCP!Up(p)
    BY DEF LC!Up, LCP!Up
<1>12. LC!Down(p) => LCP!Down(p)
    BY DEF LC!Down, LCP!Down
<1>13. LC!Stop(p) => LCP!Stop(p)
    BY DEF LC!Stop, LCP!Stop
<1>14. LC!Ps(p) => LCP!Ps(p)
    BY DEF LC!Ps, LCP!Ps
<1>15. LC!StartOrRestart(p) => LCP!StartOrRestart(p)
    BY DEF LC!StartOrRestart, LCP!StartOrRestart
<1>16. LC!Wait(p) => LCP!Wait(p)
    BY DEF LC!Wait, LCP!Wait
<1>17. LC!Look(p) => LCP!Look(p)
    BY DEF LC!Look, LCP!Look
<1>18. LC!Refused(p) => LCP!Refused(p)
    BY DEF LC!Refused, LCP!Refused
<1>19. LC!Fault(p) => LCP!Fault(p)
    BY DEF LC!Fault, LCP!Fault
<1>20. LC!Start(p) => LCP!Start(p)
    BY DEF LC!Start, LCP!Start, LC!AskedBy, LCP!AskedBy
<1> QED
    BY <1>1, <1>2, <1>3, <1>4, <1>5, <1>6, <1>7, <1>8, <1>9, <1>10, <1>11, <1>12, <1>13, <1>14,
       <1>15, <1>16, <1>17, <1>18, <1>19, <1>20, <1>21
    DEF LC!Step, LCP!Step

LEMMA LifecycleConstants ==
    /\ {LocalKey, ForeignKey} \subseteq Keys /\ LocalKey # ForeignKey
    /\ LocalPort \in Ports
    /\ {None} \subseteq Ports \cup {None}
    /\ {} \subseteq {"none", "running", "stopped", "down", "adoptable", "restored"}
    /\ Verbs \subseteq LCP!AllVerbs
    /\ MaxBeside \in Nat /\ MaxFaults \in Nat
BY BackupAssumption, ConcurrentAssumption DEF LCP!AllVerbs

-----------------------------------------------------------------------------
(* What each component needs of a step of the other.                       *)

\* What a lifecycle command is at, and has read.
LEMMA ProcessFacts ==
    ASSUME BothInv, NEW p \in Terminals
    PROVE  /\ proc \in [Terminals -> LCP!Process] /\ proc[p] \in LCP!Process
           /\ proc[p].pc \notin AtEnv
           /\ LC!At(p, "adopt") \/ LC!At(p, "upsert") => proc[p].rec # None
           /\ LC!At(p, "adopt") => proc[p].verb \in DOMAIN LCP!FirstStep
           /\ LC!At(p, "ps") => proc[p].verb \in {"start", "restart"}
<1>1. proc \in [Terminals -> LCP!Process] /\ proc[p] \in LCP!Process
    BY DEF BothInv, LCP!TypeInv, LCP!TypeOK
<1>2. LC!At(p, "adopt") \/ LC!At(p, "upsert") => proc[p].rec # None
    BY DEF BothInv, LCP!TypeInv, LCP!RecordsOK, LCP!HasRecord, LCP!LifeSteps, LC!At
<1>3. LC!At(p, "ps") => proc[p].verb \in {"start", "restart"}
    BY DEF BothInv, LCP!TypeInv, LCP!RecordsOK, LC!At
<1>4. proc[p].verb \in LCP!AllVerbs
    BY <1>1 DEF LCP!Process
<1> QED BY <1>1, <1>2, <1>3, <1>4 DEF BothInv, LCP!AllVerbs, LCP!FirstStep

\* A lifecycle command leaves an .env alone, and rewrites the row or leaves it.
LEMMA BesideFiles ==
    ASSUME BothInv, NEW p \in Terminals,
           LC!Start(p) \/ LC!Step(p) \/ LC!Refused(p) \/ LC!Fault(p)
    PROVE  env' = env /\ reg' # None
<1> USE DEF LC!At, AtEnv, LC!fileVars, LC!worldVars
<1>0. /\ env # None /\ reg # None /\ proc[p].pc \notin AtEnv
    BY DEF BothInv
<1>1. CASE LC!Adopt(p)
    BY <1>1, ProcessFacts DEF LC!Adopt
<1>2. CASE LC!Upsert(p)
    <2>1. proc[p].rec # None
        BY <1>2, ProcessFacts DEF LC!Upsert
    <2>2. LCP!PortOf(p) \in Ports /\ proc[p].rec.vol \in Vols
        <3>1. proc[p].rec \in LCP!InstanceRecord
            BY <2>1, ProcessFacts DEF LCP!Process
        <3>2. proc[p].ask \in Ports \cup {None}
            BY ProcessFacts DEF LCP!Process
        <3> QED BY <3>1, <3>2 DEF LCP!InstanceRecord, LCP!PortOf, LCP!Vols, Vols
    <2>3. reg' = [vol |-> proc[p].rec.vol, port |-> LCP!PortOf(p)] /\ env' = env
        BY <1>2 DEF LC!Upsert, LC!PortOf, LCP!PortOf
    <2>4. reg' \in InstanceRecord
        BY <2>2, <2>3 DEF InstanceRecord
    <2> QED BY <2>3, <2>4, ConstantTypes
<1>3. CASE LC!OpenCompose(p) \/ LC!FillCompose(p)
    BY <1>0, <1>3 DEF LC!OpenCompose, LC!FillCompose
<1>4. CASE LC!OpenEnv(p) \/ LC!FillEnv(p)
    BY <1>0, <1>4 DEF LC!OpenEnv, LC!FillEnv
<1>5. CASE \/ LC!Start(p) \/ LC!Plan(p) \/ LC!PlanPort(p) \/ LC!Lookup(p)
           \/ LC!ReadPort(p) \/ LC!CheckEnv(p)
    BY <1>0, <1>5 DEF LC!Start, LC!Plan, LC!PlanPort, LC!Lookup, LC!ReadPort, LC!CheckEnv
<1>6. CASE \/ LC!Up(p) \/ LC!Down(p) \/ LC!Stop(p) \/ LC!Ps(p) \/ LC!StartOrRestart(p)
           \/ LC!Wait(p) \/ LC!Look(p) \/ LC!Refused(p) \/ LC!Fault(p)
    BY <1>0, <1>6
       DEF LC!Up, LC!Down, LC!Stop, LC!Ps, LC!StartOrRestart, LC!Wait, LC!Look, LC!Refused,
           LC!Fault
<1> QED BY <1>1, <1>2, <1>3, <1>4, <1>5, <1>6 DEF LC!Step

LEMMA BesideDocker ==
    ASSUME NEW p \in Terminals,
           LC!Start(p) \/ LC!Step(p) \/ LC!Refused(p) \/ LC!Fault(p)
    PROVE  DockerStep
<1> USE SameWorld DEF DockerStep, dockerVars, LC!worldVars, LC!dockerVars
<1>1. CASE LC!Up(p) \/ LC!Down(p) \/ LC!Stop(p) \/ LC!StartOrRestart(p)
    BY <1>1 DEF LC!Up, LC!Down, LC!Stop, LC!StartOrRestart
<1>2. CASE LC!Fault(p)
    BY <1>2 DEF LC!Fault
<1>3. CASE \/ LC!Start(p) \/ LC!Plan(p) \/ LC!PlanPort(p) \/ LC!Lookup(p)
           \/ LC!ReadPort(p) \/ LC!Adopt(p) \/ LC!Ps(p) \/ LC!Wait(p) \/ LC!Look(p) \/ LC!Refused(p)
    BY <1>3 DEF LC!Start, LC!Plan, LC!PlanPort, LC!Lookup, LC!ReadPort, LC!Adopt, LC!Ps,
                LC!Wait, LC!Look, LC!Refused
<1>4. CASE \/ LC!OpenCompose(p) \/ LC!FillCompose(p) \/ LC!CheckEnv(p) \/ LC!OpenEnv(p)
           \/ LC!FillEnv(p) \/ LC!Upsert(p)
    BY <1>4 DEF LC!OpenCompose, LC!FillCompose, LC!CheckEnv, LC!OpenEnv, LC!FillEnv, LC!Upsert
<1> QED BY <1>1, <1>2, <1>3, <1>4 DEF LC!Step

\* While there is an .env, no lifecycle command comes to the steps that write it.
LEMMA BesideProc ==
    ASSUME BothInv, NEW p \in Terminals,
           LC!Start(p) \/ LC!Step(p) \/ LC!Refused(p) \/ LC!Fault(p)
    PROVE  \A q \in Terminals : proc'[q].pc \notin AtEnv
<1> SUFFICES proc'[p].pc \notin AtEnv /\ \A q \in Terminals : q # p => proc'[q] = proc[q]
    BY DEF BothInv
<1> USE DEF LC!At, LC!Goto, LC!Ends, AtEnv
<1>0. /\ proc \in [Terminals -> LCP!Process] /\ proc[p] \in LCP!Process
      /\ proc[p].pc \notin AtEnv /\ env # None
    BY ProcessFacts DEF BothInv
<1>1. ASSUME NEW s, s \notin AtEnv, proc' = [proc EXCEPT ![p].pc = s]
      PROVE  proc'[p].pc \notin AtEnv /\ \A q \in Terminals : q # p => proc'[q] = proc[q]
    BY <1>0, <1>1 DEF LCP!Process
<1>2. ASSUME proc' = [proc EXCEPT ![p] = LC!NoProcess]
      PROVE  proc'[p].pc \notin AtEnv /\ \A q \in Terminals : q # p => proc'[q] = proc[q]
    BY <1>0, <1>2 DEF LC!NoProcess
<1>3. CASE LC!Start(p)
    BY <1>0, <1>3 DEF LC!Start, LC!NoProcess
<1>4. CASE LC!Plan(p) \/ LC!PlanPort(p)
    BY <1>0, <1>4 DEF LC!Plan, LC!PlanPort, LCP!Process
<1>5. CASE LC!Lookup(p)
    <2>1. LC!FirstStep[proc[p].verb] \notin AtEnv
        BY <1>0 DEF LC!FirstStep, LCP!Process, LCP!AllVerbs
    <2> QED BY <1>0, <1>5, <2>1 DEF LC!Lookup, LCP!Process
<1>6. CASE LC!ReadPort(p)
    BY <1>0, <1>6 DEF LC!ReadPort, LCP!Process
<1>7. CASE LC!Adopt(p)
    <2>1. LC!FirstStep[proc[p].verb] \notin AtEnv
        BY <1>0 DEF LC!FirstStep, LCP!Process, LCP!AllVerbs
    <2> QED BY <1>1, <1>7, <2>1 DEF LC!Adopt
<1>8. CASE \/ LC!OpenCompose(p) \/ LC!FillCompose(p) \/ LC!FillEnv(p) \/ LC!Upsert(p)
           \/ LC!Up(p) \/ LC!StartOrRestart(p)
    BY <1>1, <1>8
       DEF LC!OpenCompose, LC!FillCompose, LC!FillEnv, LC!Upsert, LC!Up, LC!StartOrRestart
<1>9. CASE LC!CheckEnv(p) \/ LC!OpenEnv(p)
    BY <1>0, <1>1, <1>9 DEF LC!CheckEnv, LC!OpenEnv
<1>10. CASE LC!Ps(p)
    BY <1>1, <1>10, ProcessFacts DEF LC!Ps
<1>11. CASE LC!Down(p) \/ LC!Stop(p) \/ LC!Wait(p) \/ LC!Look(p) \/ LC!Refused(p) \/ LC!Fault(p)
    BY <1>2, <1>11 DEF LC!Down, LC!Stop, LC!Wait, LC!Look, LC!Refused, LC!Fault
<1> QED BY <1>3, <1>4, <1>5, <1>6, <1>7, <1>8, <1>9, <1>10, <1>11 DEF LC!Step

\* Backup and restore replace the .env and the row, and remove neither.
LEMMA BackupFiles ==
    ASSUME TypeInv, env # None, reg # None, Start \/ Step \/ Abort
    PROVE  env' # None /\ reg' # None
<1> USE DEF fileVars, worldVars
<1>1. CASE Start \/ BackupStep
    BY <1>1 DEF Start, StartBackup, StartRestore, BackupStep, BCheck, BRecovery, BPs, BStop,
                BCapture, BWrite, BRecord, BStart, BWait
<1>2. CASE RestoreStep
    <2>1. pc \in RestoreSteps
        BY <1>2 DEF RestoreStep, RContext, RDown, REnv, RPort, RCompose, RVolume, RUntar,
                    RUpsert, RUp, RWait, RestoreSteps
    <2>2. job.src.env \in EnvFile
        BY <2>1, RestoreFacts
    <2>3. CASE REnv
        BY <2>2, <2>3, ConstantTypes DEF REnv
    <2>4. CASE RPort
        <3>1. env \in EnvFile
            BY DEF TypeInv, TypeOK, WorldTypeOK
        <3>2. env' \in EnvFile
            BY <2>1, <2>4, <3>1, RestoreFacts DEF RPort, EnvFile
        <3> QED BY <2>4, <3>2, ConstantTypes DEF RPort
    <2>5. CASE RUpsert
        <3>1. reg' \in InstanceRecord
            BY <2>1, <2>5, RestoreFacts DEF RUpsert, InstanceRecord, Named
        <3> QED BY <2>5, <3>1, ConstantTypes DEF RUpsert
    <2>6. CASE RContext \/ RDown \/ RCompose \/ RVolume \/ RUntar \/ RUp \/ RWait
        BY <2>6 DEF RContext, RDown, RCompose, RVolume, RUntar, RUp, RWait
    <2> QED BY <1>2, <2>3, <2>4, <2>5, <2>6 DEF RestoreStep
<1>3. CASE RollbackStep
    <2>1. pc \in RollbackSteps
        BY <1>3 DEF RollbackStep, XDown, XVolume, XCompose, XEnv, XUpsert, XUp, XWait,
                    RollbackSteps
    <2>2. rb.env # None /\ rb.rec # None
        BY <2>1, RollbackFacts, ConstantTypes
    <2> QED BY <1>3, <2>2
            DEF RollbackStep, XDown, XVolume, XCompose, XEnv, XUpsert, XUp, XWait
<1>4. CASE Leftover
    BY <1>4, BlankType, ConstantTypes DEF Leftover, LeavesTornFile, LeavesDockerEffect
<1> QED BY <1>1, <1>2, <1>3, <1>4 DEF Step, Raise, Abort

-----------------------------------------------------------------------------
(* The invariant of the composition.                                       *)

LEMMA BothInit == InitBoth => BothInv
<1> SUFFICES ASSUME InitBoth PROVE BothInv
    OBVIOUS
<1>1. Init
    BY DEF InitBoth
<1>2. TypeInv /\ KeyInv
    BY <1>1, TypeInit, KeyInit, ConcurrentAssumption
<1>3. env # None /\ reg # None
    <2>1. PICK kind \in InitKinds : InitInstance(kind)
        BY <1>1 DEF Init
    <2>2. kind # "none" /\ kind # "adoptable"
        BY ConcurrentAssumption
    <2>3. env \in EnvFile /\ reg \in InstanceRecord
        BY <2>1, <2>2, ConstantTypes DEF InitInstance, EnvFile, InstanceRecord
    <2> QED BY <2>3, ConstantTypes
<1>4. LC!NoProcess \in LCP!Process /\ LC!NoProcess.pc = "idle"
    BY DEF LC!NoProcess, LCP!Process, LCP!AllVerbs
<1>5. LCP!RecordsOK /\ \A p \in Terminals : proc[p].pc \notin AtEnv
    BY <1>4 DEF InitBoth, LCP!RecordsOK, LCP!HasRecord, LCP!LifeSteps, AtEnv
<1>6. LCP!WorldTypeOK
    BY <1>2, SameTypes DEF TypeInv, TypeOK
<1>7. LCP!TypeOK
    BY <1>4, <1>6, ConstantTypes, ConcurrentAssumption DEF InitBoth, LCP!TypeOK
<1> QED BY <1>2, <1>3, <1>5, <1>7 DEF BothInv, LCP!TypeInv

\* As long as the clock moves with every command, it moves with this one.
LEMMA ClockKeepsUp ==
    ASSUME TypeInv, Start \/ Step \/ Abort
    PROVE  clock' = commands' => clock = commands /\ (Start => clock' # clock)
<1>1. clock \in Nat /\ commands \in Nat /\ clock =< commands
    BY ConstantTypes, BackupAssumption DEF TypeInv, TypeOK
<1>2. CASE Start
    <2>1. BeginCommand
        BY <1>2 DEF Start, StartBackup, StartRestore
    <2> QED BY <1>1, <2>1 DEF BeginCommand
<1>3. CASE ~Start
    <2>1. Step => UNCHANGED countVars
        BY DEF Step, BackupStep, BCheck, BRecovery, BPs, BStop, BCapture, BWrite, BRecord, BStart,
               BWait, RestoreStep, RContext, RDown, REnv, RPort, RCompose, RVolume, RUntar,
               RUpsert, RUp, RWait, RollbackStep, XDown, XVolume, XCompose, XEnv, XUpsert, XUp,
               XWait, Raise, Goto, BackupReturns, countVars
    <2>2. Abort => UNCHANGED <<clock, commands>>
        BY DEF Abort
    <2> QED BY <1>3, <2>1, <2>2 DEF countVars
<1> QED BY <1>2, <1>3

LEMMA LifecycleTypes ==
    ASSUME LCP!TypeInv, NEW p \in Terminals,
           LC!Start(p) \/ LC!Step(p) \/ LC!Refused(p) \/ LC!Fault(p)
    PROVE  LCP!TypeInv'
<1>1. [LCP!Next]_(LCP!vars)
    BY SameCommands DEF LCP!Next
<1> QED BY <1>1, LifecycleConstants, WorldAssumption, LCP!TypeStep
        DEF LCP!Content, Content, LCP!EnvFile, EnvFile, LCP!ComposeFile, ComposeFile,
            LCP!InstanceRecord, InstanceRecord, LCP!Container, Container, LCP!Vols, Vols,
            LCP!Revs, Revs

LEMMA BackupStepKeeps ==
    ASSUME BothInv, BackupOrRestore
    PROVE  BothInv'
<1> USE DEF BackupOrRestore, besideVars
<1>1. Start \/ Step \/ Abort
    BY DEF StartOne, Start
<1>2. TypeInv'
    BY <1>1, TypeStep DEF BothInv, Next
<1>3. env' # None /\ reg' # None
    BY <1>1, BackupFiles DEF BothInv
<1>4. LCP!TypeInv'
    <2>1. LCP!WorldTypeOK'
        BY <1>2, SameTypes DEF TypeInv, TypeOK
    <2> QED BY <2>1 DEF BothInv, LCP!TypeInv, LCP!TypeOK, LCP!RecordsOK
<1>5. \A p \in Terminals : proc'[p].pc \notin AtEnv
    BY DEF BothInv
<1>6. clock' = commands' => KeyInv'
    <2> SUFFICES ASSUME clock' = commands' PROVE KeyInv'
        OBVIOUS
    <2>1. clock = commands /\ (Start => clock' # clock)
        BY <1>1, ClockKeepsUp DEF BothInv
    <2> QED BY <1>1, <2>1, KeyStep DEF BothInv, Next
<1> QED BY <1>2, <1>3, <1>4, <1>5, <1>6 DEF BothInv, AtEnv

\* A step beside a backup or a restore that keeps .env and gives no new key.
LEMMA OthersKeep ==
    ASSUME BothInv, UNCHANGED backupVars, VolCtrFrom, env' = env, reg' # None,
           LCP!TypeInv', \A p \in Terminals : proc'[p].pc \notin AtEnv
    PROVE  BothInv'
<1> USE DEF backupVars
<1>1. WorldTypeOK'
    BY SameTypes DEF LCP!TypeInv, LCP!TypeOK
<1>2. TypeInv'
    BY <1>1 DEF BothInv, TypeInv, TypeOK, LocalsOK, storeVars, localVars, ghostVars, countVars
<1>3. clock' = commands' => KeyInv'
    BY WorldKeys DEF BothInv, countVars
<1> QED BY <1>2, <1>3 DEF BothInv, AtEnv

LEMMA BothStep ==
    ASSUME BothInv, [NextBoth]_allVars
    PROVE  BothInv'
<1>1. CASE BackupOrRestore
    BY <1>1, BackupStepKeeps
<1>2. CASE Beside
    <2>1. PICK p \in Terminals : LC!Start(p) \/ LC!Step(p) \/ LC!Refused(p) \/ LC!Fault(p)
        BY <1>2 DEF Beside
    <2>2. env' = env /\ reg' # None
        BY <2>1, BesideFiles
    <2>3. VolCtrFrom
        <3>1. DockerStep
            BY <2>1, BesideDocker
        <3> QED BY <3>1, DockerKeys DEF DockerStep, BothInv
    <2>4. LCP!TypeInv'
        BY <2>1, LifecycleTypes DEF BothInv
    <2>5. \A q \in Terminals : proc'[q].pc \notin AtEnv
        BY <2>1, BesideProc
    <2> QED BY <1>2, <2>2, <2>3, <2>4, <2>5, OthersKeep DEF Beside
<1>3. CASE N8n
    <2>1. env' = env /\ reg' = reg
        BY <1>3 DEF N8n, N8nStep, N8nBoots, N8nWrites, N8nExits, DaemonRestarts, fileVars
    <2>2. VolCtrFrom
        BY <1>3, N8nKeys DEF N8n, BothInv
    <2>3. WorldTypeOK'
        BY <1>3, N8nTypes DEF N8n, BothInv, TypeInv, TypeOK
    <2>4. LCP!TypeInv'
        BY <1>3, <2>3, SameTypes DEF N8n, besideVars, BothInv, LCP!TypeInv,
           LCP!TypeOK, LCP!RecordsOK
    <2> QED BY <1>3, <2>1, <2>2, <2>4, OthersKeep DEF N8n, besideVars, BothInv
<1>4. CASE UNCHANGED allVars
    <2>1. UNCHANGED <<worldVars, backupVars, besideVars>>
        BY <1>4 DEF allVars
    <2>2. VolCtrFrom
        BY <2>1, DockerKeys DEF worldVars, dockerVars, BothInv
    <2>3. LCP!TypeInv'
        BY <2>1, SameTypes DEF worldVars, besideVars, BothInv, TypeInv, TypeOK, WorldTypeOK,
           LCP!TypeInv, LCP!TypeOK, LCP!RecordsOK
    <2> QED BY <2>1, <2>2, <2>3, OthersKeep DEF worldVars, besideVars, BothInv
<1> QED BY <1>1, <1>2, <1>3, <1>4 DEF NextBoth

\* However `up`, `down`, `stop`, `start`, `restart`, `status`, `logs` and `open` of
\* any number of terminals interleave with backups and restores, whatever is killed
\* and whichever docker command fails, the key of every volume that holds data stays
\* in .env or in a bundle (backup.py:75-517, instance.py:92-434), as long as no two
\* commands that write bundles began in one second.
THEOREM KeysStay == SpecBoth => []KeyStays
<1>1. BothInv => KeyStays
    BY KeysAvailable DEF BothInv, KeyStays
<1> QED BY <1>1, BothInit, BothStep, PTL DEF SpecBoth

-----------------------------------------------------------------------------
(* The safety bundle, while others run.                                    *)

\* The records that other commands hold, and may register, are no younger than the row.
RecordsDated == \A p \in Terminals : proc[p].rec # None => Dated(proc[p].rec.vol)

SafeInv == BothInv /\ (clock = commands => SafetyInv /\ RecordsDated)

\* A command writes a record it has read into the row, and reads the row's.
LEMMA BesideRows ==
    ASSUME BothInv, NEW p \in Terminals,
           LC!Start(p) \/ LC!Step(p) \/ LC!Refused(p) \/ LC!Fault(p)
    PROVE  /\ \/ reg' = reg
              \/ proc[p].rec # None /\ reg'.vol = proc[p].rec.vol
           /\ \A q \in Terminals : \/ proc'[q].rec = proc[q].rec
                                   \/ proc'[q].rec = None
                                   \/ proc'[q].rec = reg
                                   \/ proc'[q].rec.vol = 0
<1> USE DEF LC!At, LC!Goto, LC!Ends, LC!fileVars, LC!worldVars, AtEnv
<1>0. /\ proc \in [Terminals -> LCP!Process] /\ proc[p] \in LCP!Process /\ reg # None
    BY ProcessFacts DEF BothInv
<1>1. ASSUME NEW s, proc' = [proc EXCEPT ![p].pc = s]
      PROVE  \A q \in Terminals : proc'[q].rec = proc[q].rec
    BY <1>0, <1>1 DEF LCP!Process
<1>2. ASSUME proc' = [proc EXCEPT ![p] = LC!NoProcess]
      PROVE  \A q \in Terminals : proc'[q].rec = proc[q].rec \/ proc'[q].rec = None
    BY <1>0, <1>2 DEF LC!NoProcess
<1>3. CASE LC!Adopt(p)
    <2>1. proc[p].rec # None /\ reg' = proc[p].rec
        BY <1>3, ProcessFacts DEF LC!Adopt
    <2> QED BY <1>1, <1>3, <2>1 DEF LC!Adopt
<1>4. CASE LC!Upsert(p)
    BY <1>1, <1>4, ProcessFacts DEF LC!Upsert
<1>5. CASE LC!Lookup(p)
    <2>1. reg' = reg /\ \A q \in Terminals : proc'[q].rec = proc[q].rec \/ proc'[q].rec = reg
        BY <1>0, <1>5 DEF LC!Lookup, LCP!Process
    <2> QED BY <2>1
<1>6. CASE LC!Start(p)
    <2>1. reg' = reg
        BY <1>6 DEF LC!Start
    <2>2. PICK r : r.rec = None /\ proc' = [proc EXCEPT ![p] = r]
        BY <1>6 DEF LC!Start, LC!NoProcess
    <2> QED BY <1>0, <2>1, <2>2
<1>11. CASE LC!Plan(p) \/ LC!PlanPort(p)
    <2>1. reg' = reg
        BY <1>11 DEF LC!Plan, LC!PlanPort
    <2>2. \A q \in Terminals : proc'[q].rec = proc[q].rec
        BY <1>0, <1>11 DEF LC!Plan, LC!PlanPort, LCP!Process
    <2> QED BY <2>1, <2>2
<1>7. CASE LC!ReadPort(p)
    <2>1. reg' = reg
        BY <1>7 DEF LC!ReadPort
    <2>2. PICK r : r.vol = 0 /\ proc' = [proc EXCEPT ![p].rec = r, ![p].pc = "adopt"]
        <3>1. [vol |-> 0, port |-> LC!PortFound(p)].vol = 0
            OBVIOUS
        <3> QED BY <1>7, <3>1 DEF LC!ReadPort
    <2>3. proc'[p].rec = r /\ \A q \in Terminals : q # p => proc'[q] = proc[q]
        BY <1>0, <2>2 DEF LCP!Process
    <2> QED BY <2>1, <2>2, <2>3
<1>8. CASE LC!CheckEnv(p)
    BY <1>0, <1>1, <1>8 DEF LC!CheckEnv, BothInv
<1>9. CASE \/ LC!OpenCompose(p) \/ LC!FillCompose(p) \/ LC!OpenEnv(p) \/ LC!FillEnv(p)
           \/ LC!Up(p) \/ LC!Ps(p) \/ LC!StartOrRestart(p)
    BY <1>1, <1>9 DEF LC!OpenCompose, LC!FillCompose, LC!OpenEnv, LC!FillEnv, LC!Up, LC!Ps,
                      LC!StartOrRestart
<1>10. CASE LC!Down(p) \/ LC!Stop(p) \/ LC!Wait(p) \/ LC!Look(p) \/ LC!Refused(p) \/ LC!Fault(p)
    BY <1>2, <1>10 DEF LC!Down, LC!Stop, LC!Wait, LC!Look, LC!Refused, LC!Fault
<1> QED BY <1>3, <1>4, <1>5, <1>6, <1>7, <1>8, <1>9, <1>10, <1>11 DEF LC!Step

\* What another process, or n8n, leaves of SafetyInv: volumes that hold data are not
\* emptied, and a row it writes is a dated one.
LEMMA SafetyBeside ==
    ASSUME TypeInv, SafetyInv, UNCHANGED backupVars, env' = env, KeepsOlder \/ Grows,
           reg' # None => Dated(reg'.vol)
    PROVE  SafetyInv'
<1> USE DEF backupVars, storeVars, localVars, ghostVars, countVars
<1>1. Placed'
    BY DEF SafetyInv, Placed, Dated
<1>2. WrittenIsSealed' /\ SafetyCaptured' /\ RowsHaveBundles'
    BY DEF SafetyInv, WrittenIsSealed, Saved, Out, Sealed, SafetyCaptured, RowsHaveBundles
<1>3. CaptureKept'
    BY CaptureStays, ConstantTypes DEF SafetyInv, CaptureKept
<1> QED BY <1>1, <1>2, <1>3 DEF SafetyInv

LEMMA DockerStepKeeps ==
    ASSUME TypeInv, DockerStep
    PROVE  KeepsAll
BY DockerKeeps DEF DockerStep, dockerVars

LEMMA SafeBeside ==
    ASSUME SafeInv, Beside, clock = commands
    PROVE  SafetyInv' /\ RecordsDated'
<1> USE DEF backupVars, countVars
<1>0. TypeInv /\ SafetyInv /\ RecordsDated /\ BothInv /\ pc' = pc /\ clock' = clock
    BY DEF SafeInv, BothInv, Beside
<1>1. PICK p \in Terminals : LC!Start(p) \/ LC!Step(p) \/ LC!Refused(p) \/ LC!Fault(p)
    BY DEF Beside
<1>2. /\ reg # None /\ Dated(reg.vol) /\ Dated(0)
      /\ proc[p].rec # None => Dated(proc[p].rec.vol)
    <2>1. reg # None /\ Dated(reg.vol) /\ reg.vol \in Nat /\ clock \in Nat
        BY <1>0, PlacedTypes DEF BothInv, SafetyInv, Placed
    <2> QED BY <1>0, <2>1 DEF Dated, RecordsDated
<1>3. Dated(reg'.vol)
    BY <1>0, <1>1, <1>2, BesideRows
<1>4. KeepsOlder
    BY <1>0, <1>1, BesideDocker, DockerStepKeeps DEF KeepsAll, KeepsOlder
<1>5. env' = env
    BY <1>0, <1>1, BesideFiles
<1>6. SafetyInv'
    BY <1>0, <1>3, <1>4, <1>5, SafetyBeside DEF Beside
<1>7. RecordsDated'
    <2>1. ASSUME NEW q \in Terminals, proc'[q].rec # None
          PROVE  Dated(proc'[q].rec.vol)
        <3>1. \/ proc'[q].rec = proc[q].rec \/ proc'[q].rec = None
              \/ proc'[q].rec = reg \/ proc'[q].rec.vol = 0
            BY <1>0, <1>1, BesideRows
        <3> QED BY <1>0, <1>2, <2>1, <3>1 DEF RecordsDated
    <2> QED BY <1>0, <2>1 DEF RecordsDated, Dated
<1> QED BY <1>6, <1>7

\* Only the beginning of a command leads to the step that reads the row.
LEMMA ChecksOnce ==
    ASSUME [Next]_vars, pc' = "b_check"
    PROVE  Start \/ pc = "b_check"
<1>1. CASE BackupStep
    BY <1>1 DEF BackupStep, BCheck, BRecovery, BPs, BStop, BCapture, BWrite, BRecord, BStart,
       BWait, Goto, BackupReturns, EndCommand
<1>2. CASE RestoreStep
    BY <1>2 DEF RestoreStep, RContext, RDown, REnv, RPort, RCompose, RVolume, RUntar, RUpsert,
       RUp, RWait, Goto, EndCommand
<1>3. CASE RollbackStep
    BY <1>3 DEF RollbackStep, XDown, XVolume, XCompose, XEnv, XUpsert, XUp, XWait, Goto,
       EndCommand
<1>4. CASE Raise \/ Abort
    BY <1>4 DEF Raise, Abort, EndCommand, FirstRollbackStep
<1>5. CASE Environment \/ UNCHANGED vars
    BY <1>5 DEF Environment, vars
<1> QED BY <1>1, <1>2, <1>3, <1>4, <1>5 DEF Next, Step

LEMMA SafeBackup ==
    ASSUME SafeInv, BackupOrRestore, clock' = commands'
    PROVE  SafetyInv' /\ RecordsDated'
<1>1. Start \/ Step \/ Abort
    BY DEF BackupOrRestore, StartOne, Start
<1>2. clock = commands /\ (Start => clock' # clock)
    BY <1>1, ClockKeepsUp DEF SafeInv, BothInv
<1>3. TypeInv /\ KeyInv /\ SafetyInv /\ RecordsDated /\ [Next]_vars /\ proc' = proc
    BY <1>1, <1>2 DEF SafeInv, BothInv, Next, BackupOrRestore, besideVars
<1>4. SafetyInv'
    BY <1>2, <1>3, SafetyKept
<1>5. clock \in Nat
    BY <1>3, PlacedTypes
<1>6. \/ clock' = clock + 1
      \/ clock' = clock /\ (pc' = "b_check" => pc = "b_check")
    <2>1. Start => BeginCommand
        BY DEF Start, StartBackup, StartRestore
    <2>2. Start => clock' = clock + 1
        BY <1>2, <2>1 DEF BeginCommand
    <2> QED BY <1>3, <2>2, ClockStays, ChecksOnce
<1>7. ASSUME NEW p \in Terminals, proc[p].rec # None
      PROVE  /\ proc[p].rec.vol =< clock'
             /\ pc' = "b_check" => proc[p].rec.vol < clock'
    <2>1. proc[p].rec.vol \in Nat
        <3>1. proc[p] \in LCP!Process
            BY DEF SafeInv, BothInv, LCP!TypeInv, LCP!TypeOK
        <3>2. proc[p].rec \in LCP!InstanceRecord
            BY <1>7, <3>1 DEF LCP!Process
        <3> QED BY <3>2, ConstantTypes DEF LCP!InstanceRecord, LCP!Vols, Vols
    <2>2. Dated(proc[p].rec.vol)
        BY <1>3, <1>7 DEF RecordsDated
    <2> QED BY <1>5, <1>6, <2>1, <2>2 DEF Dated
<1> QED BY <1>3, <1>4, <1>7 DEF RecordsDated, Dated

LEMMA SafeN8n ==
    ASSUME SafeInv, N8n \/ UNCHANGED allVars, clock = commands
    PROVE  SafetyInv' /\ RecordsDated'
<1>1. TypeInv /\ SafetyInv /\ RecordsDated
    BY DEF SafeInv, BothInv
<1>2. UNCHANGED <<env, reg, backupVars, proc>>
    BY DEF N8n, N8nStep, N8nBoots, N8nWrites, N8nExits, DaemonRestarts, fileVars, allVars,
           worldVars, besideVars
<1>3. Grows
    <2>1. CASE UNCHANGED allVars
        BY <2>1 DEF allVars, worldVars, Grows, Continues
    <2> QED BY <1>1, <2>1, N8nGrows DEF N8n
<1>4. pc' = pc /\ clock' = clock
    BY <1>2 DEF backupVars, countVars
<1>5. reg' # None => Dated(reg'.vol)
    BY <1>1, <1>2 DEF SafetyInv, Placed
<1> QED BY <1>1, <1>2, <1>3, <1>4, <1>5, SafetyBeside DEF RecordsDated, Dated

LEMMA SafeInit == InitBoth => SafeInv
<1> SUFFICES ASSUME InitBoth PROVE SafetyInv /\ RecordsDated
    BY BothInit DEF SafeInv
<1>1. SafetyInv
    BY SafetyInit DEF InitBoth
<1>2. \A p \in Terminals : proc[p].rec = None
    BY DEF InitBoth, LC!NoProcess
<1> QED BY <1>1, <1>2 DEF RecordsDated

LEMMA SafeStep ==
    ASSUME SafeInv, [NextBoth]_allVars
    PROVE  SafeInv'
<1>1. BothInv'
    BY BothStep DEF SafeInv
<1>2. ASSUME clock' = commands' PROVE SafetyInv' /\ RecordsDated'
    <2>1. CASE BackupOrRestore
        BY <1>2, <2>1, SafeBackup
    <2>2. CASE Beside
        BY <1>2, <2>2, SafeBeside DEF Beside, backupVars, countVars
    <2>3. CASE N8n \/ UNCHANGED allVars
        BY <1>2, <2>3, SafeN8n DEF N8n, allVars, backupVars, countVars
    <2> QED BY <2>1, <2>2, <2>3 DEF NextBoth
<1> QED BY <1>1, <1>2 DEF SafeInv

\* Whatever other terminals start, stop or rewrite meanwhile, and whatever is killed,
\* the safety bundle of a replace opens with the secret typed for it, has the .env
\* its rollback puts back, and holds data that is still in the volume its rollback
\* puts back (backup.py:203-251), as long as no two commands that write bundles began
\* in one second, and unless an `up` has registered another volume between the two
\* readings of the row (203 and 84).
THEOREM SafetyStays == SpecBoth => []SafetyHolds
<1>1. SafeInv => SafetyHolds
    <2> SUFFICES ASSUME SafeInv, clock = commands, bk.rec = job.rec PROVE SafetyNet
        BY DEF SafetyHolds
    <2>1. TypeInv /\ SafetyInv
        BY DEF SafeInv, BothInv
    <2>2. rb # None => rb.rec = bk.rec
        BY <2>1 DEF SafetyInv, Placed
    <2> QED BY <2>1, <2>2, ConstantTypes
            DEF SafetyInv, SafetyCaptured, CaptureKept, Continues, SafetyNet
<1> QED BY <1>1, SafeInit, SafeStep, PTL DEF SpecBoth

-----------------------------------------------------------------------------
(* The old instance's volume, while others run.                            *)

Apart == pc = "x_volume" => rvol # rb.rec.vol

\* No volume goes; only the one that a rollback takes away, which this restore named.
KeepsThere == \A v \in Vols : vol[v] # None => vol'[v] # None
RemovesRestored == pc = "x_volume" /\ \A v \in Vols \ {rvol} : vol'[v] = vol[v]

LEMMA N8nThere ==
    ASSUME TypeInv, N8nStep
    PROVE  KeepsThere
<1>2. \A v \in Vols : vol[v] \in Content => vol'[v] \in Content
    BY N8nGrows DEF Grows, Continues
<1>3. CASE N8nBoots
    <2>1. [key |-> ctr.key, hist |-> {rev + 1}, whole |-> TRUE] \in Content
        <3>1. ctr.key \in Keys
            BY <1>3 DEF N8nBoots, ContainerIsRunning, TypeInv, TypeOK, WorldTypeOK, Container
        <3>2. rev + 1 \in Revs
            BY <1>3, WorldAssumption DEF N8nBoots, Revs, TypeInv, TypeOK, WorldTypeOK
        <3> QED BY <3>1, <3>2 DEF Content
    <2>2. PICK c \in Content : vol' = [vol EXCEPT ![ctr.vol] = c]
        BY <1>3, <2>1 DEF N8nBoots
    <2>3. vol \in [Vols -> Content \cup {None, Empty}]
        BY DEF TypeInv, TypeOK, WorldTypeOK
    <2> QED BY <2>2, <2>3, ConstantTypes DEF KeepsThere
<1>4. CASE N8nWrites
    <2>1. \A v \in Vols : v # ctr.vol => vol'[v] = vol[v]
        BY <1>4 DEF N8nWrites, TypeInv, TypeOK, WorldTypeOK
    <2>2. vol[ctr.vol] \in Content
        BY <1>4 DEF N8nWrites, Serving
    <2> QED BY <1>2, <2>1, <2>2, ConstantTypes DEF KeepsThere
<1>5. CASE N8nExits \/ DaemonRestarts
    BY <1>5 DEF N8nExits, DaemonRestarts, KeepsThere
<1> QED BY <1>3, <1>4, <1>5 DEF N8nStep

LEMMA UntarRemoves ==
    ASSUME TypeInv, pc = "r_untar",
           \/ vol' = [vol EXCEPT ![rvol] = Extracted(@, job.src.data)]
           \/ job.src.data # Empty /\ vol' = [vol EXCEPT ![rvol] =
                  [Extracted(@, job.src.data) EXCEPT !.whole = FALSE]]
    PROVE  KeepsThere
<1>1. rvol \in Vols /\ job.src.data \in Content \cup {Empty}
    BY RestoreFacts DEF RestoreSteps, Named
<1>2. vol \in [Vols -> Content \cup {None, Empty}]
    BY DEF TypeInv, TypeOK, WorldTypeOK
<1>3. \A v \in Vols : v # rvol => vol'[v] = vol[v]
    BY <1>1, <1>2
<1>4. CASE job.src.data = Empty
    <2>1. vol'[rvol] = vol[rvol]
        BY <1>1, <1>2, <1>4 DEF Extracted
    <2> QED BY <1>3, <2>1 DEF KeepsThere
<1>5. CASE job.src.data # Empty
    <2> DEFINE new == Extracted(vol[rvol], job.src.data)
    <2>1. vol'[rvol] = new \/ vol'[rvol] = [new EXCEPT !.whole = FALSE]
        BY <1>1, <1>2
    <2>2. job.src.data \in Content
        BY <1>1, <1>5
    <2>3. new \in Content
        <3>1. CASE vol[rvol] \in Content
            BY <1>5, <2>2, <3>1 DEF Extracted, Content
        <3>2. CASE vol[rvol] \notin Content
            BY <1>5, <2>2, <3>2 DEF Extracted
        <3> QED BY <3>1, <3>2
    <2>4. [new EXCEPT !.whole = FALSE] \in Content
        BY <2>3 DEF Content
    <2>5. vol'[rvol] # None
        BY <2>1, <2>3, <2>4, ConstantTypes
    <2> QED BY <1>3, <2>5 DEF KeepsThere
<1> QED BY <1>4, <1>5

LEMMA MountedThere ==
    ASSUME TypeInv
    PROVE  /\ \A st \in {"running", "exited"} : ComposeUp(st) => KeepsThere
           /\ ComposeDown \/ ComposeStop \/ ComposeStart => KeepsThere
           /\ \A v \in Vols : VolumeCreate(v) => KeepsThere
           /\ UNCHANGED vol => KeepsThere
BY DockerKeeps DEF KeepsAll, KeepsThere

LEMMA RollbackRemoves ==
    ASSUME TypeInv, pc = "x_volume", VolumeRemove(rvol)
    PROVE  RemovesRestored
BY DEF VolumeRemove, RemovesRestored, TypeInv, TypeOK, WorldTypeOK

LEMMA LeftoverRemoves ==
    ASSUME TypeInv, pc # "idle", Leftover
    PROVE  KeepsThere \/ RemovesRestored
<1> USE DEF worldVars, dockerVars
<1>1. CASE UNCHANGED vol
    BY <1>1, MountedThere
<1>2. CASE LeavesDockerEffect
    <2>1. CASE pc = "b_capture" /\ VolumeCreate(bk.rec.vol)
        <3>1. bk.rec.vol \in Vols
            BY <2>1 DEF TypeInv, TypeOK, LocalsOK, BackupLocals, InstanceRecord,
               BackupSteps, BackupTry
        <3> QED BY <2>1, <3>1, MountedThere
    <2>2. CASE pc = "r_volume" /\ VolumeCreate(rvol)
        <3>1. rvol \in Vols
            BY <2>2 DEF TypeInv, TypeOK, LocalsOK, Named
        <3> QED BY <2>2, <3>1, MountedThere
    <2>3. CASE pc = "r_untar" /\ job.src.data # Empty /\ vol' = [vol EXCEPT ![rvol] =
                        [Extracted(@, job.src.data) EXCEPT !.whole = FALSE]]
        BY <2>3, UntarRemoves
    <2>4. CASE \E st \in {"running", "exited"} : ComposeUp(st)
        BY <2>4, MountedThere
    <2>5. CASE ComposeDown \/ ComposeStop \/ ComposeStart
        BY <2>5, MountedThere
    <2>6. CASE pc = "x_volume" /\ VolumeRemove(rvol)
        BY <2>6, RollbackRemoves
    <2> QED BY <1>2, <2>1, <2>2, <2>3, <2>4, <2>5, <2>6 DEF LeavesDockerEffect
<1> QED BY <1>1, <1>2 DEF Leftover, LeavesTornFile

LEMMA StepRemoves ==
    ASSUME TypeInv, Start \/ Step \/ Abort
    PROVE  KeepsThere \/ RemovesRestored
<1> USE DEF worldVars, dockerVars
<1>1. CASE UNCHANGED vol
    BY <1>1, MountedThere
<1>2. CASE BackupStep
    <2>1. CASE BCapture
        <3>1. bk.rec.vol \in Vols
            BY <2>1 DEF BCapture, TypeInv, TypeOK, LocalsOK, BackupLocals, InstanceRecord,
               BackupSteps, BackupTry
        <3> QED BY <2>1, <3>1, ConstantTypes
                DEF BCapture, Mounted, KeepsThere, TypeInv, TypeOK, WorldTypeOK
    <2> QED BY <1>1, <1>2, <2>1
            DEF BackupStep, BCheck, BRecovery, BPs, BStop, BWrite, BRecord, BStart, BWait,
                ComposeStop, ComposeStart
<1>3. CASE RestoreStep
    <2>1. CASE RVolume
        <3>1. rvol \in Vols
            BY <2>1 DEF RVolume, TypeInv, TypeOK, LocalsOK, Named
        <3> QED BY <2>1, <3>1, MountedThere DEF RVolume
    <2>2. CASE RUntar
        BY <2>2, UntarRemoves DEF RUntar
    <2>3. CASE RUp
        BY <2>3, MountedThere DEF RUp
    <2> QED BY <1>1, <1>3, <2>1, <2>2, <2>3
            DEF RestoreStep, RContext, RDown, ComposeDown, REnv, RPort, RCompose, RUpsert, RWait
<1>4. CASE RollbackStep
    <2>1. CASE XVolume
        BY <2>1, RollbackRemoves DEF XVolume
    <2>2. CASE XUp
        BY <2>2, MountedThere DEF XUp
    <2> QED BY <1>1, <1>4, <2>1, <2>2
            DEF RollbackStep, XDown, ComposeDown, XCompose, XEnv, XUpsert, XWait
<1>5. CASE Raise \/ Abort
    BY <1>5, LeftoverRemoves
       DEF Raise, Abort, BackupTry, BackupSteps, RestoreSteps, RollbackSteps
<1>6. CASE Start
    BY <1>1, <1>6 DEF Start, StartBackup, StartRestore
<1> QED BY <1>2, <1>3, <1>4, <1>5, <1>6 DEF Step

LEMMA ApartKept ==
    ASSUME Apart, Start \/ Step \/ Abort
    PROVE  Apart'
<1> SUFFICES ASSUME pc' = "x_volume" PROVE rvol' # rb'.rec.vol
    BY DEF Apart
<1>1. XDown
    BY DEF Start, StartBackup, StartRestore, Step, BackupStep, BCheck, BRecovery, BPs, BStop,
           BCapture, BWrite, BRecord, BStart, BWait, RestoreStep, RContext, RDown, REnv, RPort,
           RCompose, RVolume, RUntar, RUpsert, RUp, RWait, RollbackStep, XVolume, XCompose,
           XEnv, XUpsert, XUp, XWait, Raise, Abort, Goto, BackupReturns, EndCommand,
           FirstRollbackStep
<1> QED BY <1>1 DEF XDown, Goto, localVars

\* No step of anybody removes the volume that a rollback is to bring back: `docker
\* volume rm` is reached only for another volume (backup.py:486), no lifecycle
\* command removes one, and this holds also when a second restore in one second
\* takes the name of the first one's volume (756).
THEOREM NobodyRemoves == SpecBoth => VolumeKept
<1> DEFINE Inv == BothInv /\ Apart
           Kept == \A v \in Vols : vol[v] # None /\ vol'[v] = None =>
                        rb # None /\ v # rb.rec.vol
<1>1. InitBoth => Inv
    BY BothInit DEF InitBoth, Init, Apart
<1>2. Inv /\ [NextBoth]_allVars => Inv'
    <2> SUFFICES ASSUME Inv, [NextBoth]_allVars PROVE Apart'
        BY BothStep
    <2>1. CASE BackupOrRestore
        BY <2>1, ApartKept DEF BackupOrRestore, StartOne, Start
    <2>2. CASE UNCHANGED backupVars
        BY <2>2 DEF backupVars, localVars, Apart
    <2> QED BY <2>1, <2>2 DEF NextBoth, Beside, N8n, allVars
<1>3. Inv /\ [NextBoth]_allVars => Kept
    <2> SUFFICES ASSUME Inv, [NextBoth]_allVars PROVE Kept
        OBVIOUS
    <2>0. TypeInv
        BY DEF BothInv
    <2>1. CASE KeepsThere
        BY <2>1 DEF KeepsThere
    <2>2. CASE RemovesRestored
        <3>1. pc = "x_volume" => rb # None /\ rvol # rb.rec.vol
            BY <2>0 DEF TypeInv, LocalsOK, RollbackSteps, Apart
        <3> QED BY <2>2, <3>1 DEF RemovesRestored
    <2>3. BackupOrRestore => KeepsThere \/ RemovesRestored
        BY <2>0, StepRemoves DEF BackupOrRestore, StartOne, Start
    <2>4. CASE Beside
        <3>1. DockerStep
            BY <2>4, BesideDocker DEF Beside
        <3> QED BY <2>0, <2>1, <3>1, DockerStepKeeps DEF KeepsAll, KeepsThere
    <2>5. CASE N8n
        BY <2>0, <2>5, <2>1, N8nThere DEF N8n
    <2>6. CASE UNCHANGED allVars
        BY <2>6 DEF allVars, worldVars
    <2> QED BY <2>1, <2>2, <2>3, <2>4, <2>5, <2>6 DEF NextBoth
<1>4. SpecBoth => [][Kept]_allVars
    BY <1>1, <1>2, <1>3, PTL DEF SpecBoth
<1> QED BY <1>4 DEF VolumeKept
=============================================================================
