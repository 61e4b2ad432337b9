------------------------ MODULE BackupRestore_proofs ------------------------
(***************************************************************************)
(* Proofs about `lon backup` and `lon restore` (core/backup.py:75-517), for *)
(* every value of the constants.                                           *)
(*                                                                         *)
(*   1. Types                                  TypeCorrect                 *)
(*   2. The key of a volume is never lost      KeysSafe                    *)
(*   3. The safety bundle of a replace         RowsName, SafetyNetThere    *)
(*   4. n8n while and after a backup           LeftAsFound,                *)
(*                                             CapturesAreQuiet            *)
(*   5. The four stores agree                  FourStores                  *)
(*   6. Every write has its own number                                     *)
(*   7. backup and restore are indivisible     Implements                  *)
(*                                                                         *)
(* Each part has an invariant of its own, and uses those before it: a step *)
(* preserves TypeInv (1), KeyInv (2), SafetyInv and SameRecord (3),        *)
(* RunsInv (4), FreshVolume, RestInv and AgreeInv (5).  Sections are       *)
(* independent of each other where they can be: 4 needs only 1.            *)
(***************************************************************************)
EXTENDS BackupRestore, InstanceWorld_proofs

(***************************************************************************)
(* 1. Types                                                                *)
(*                                                                         *)
(* TypeOK is not inductive: the locals of the code are read in later       *)
(* steps than the ones that set them.  LocalsOK says from which step on    *)
(* each of them is there.                                                  *)
(***************************************************************************)

Named == {"r_env", "r_port", "r_compose", "r_volume", "r_untar", "r_upsert", "r_up",
          "r_wait", "x_down", "x_volume"}

\* What the locals of a command hold at each of its steps.
LocalsOK ==
    /\ pc \in BackupSteps => job.cmd \in {"backup", "replace"} /\ rb = None
    /\ pc \in BackupSteps \ {"b_check"} => bk.rec # None
    /\ pc \in RestoreSteps => job.cmd \in {"restore", "replace"}
    /\ pc \in RollbackSteps => job.cmd = "replace" /\ rb # None
    /\ job.cmd \in {"restore", "replace"} => job.src # None
    /\ job.cmd = "replace" => job.rec # None
    /\ pc \in Named => rvol # None
    /\ pc = "r_context" => rb = None
    /\ pc = "r_down" => rb # None
    /\ pc = "idle" => rb = None /\ job.cmd = "none"
    /\ pc \in {"b_record", "r_port"} => env # None
    /\ pc = "b_record" => bk.bundle # None
    /\ rb # None \/ pc = "r_context" => job.cmd = "replace"

TypeInv == TypeOK /\ clock =< commands /\ LocalsOK

-----------------------------------------------------------------------------
(* The constants and the records the actions build.                        *)

LEMMA ConstantTypes ==
    /\ 0 \in Vols /\ 0 \in Revs /\ 1 \in Revs /\ 0 \in Codes
    /\ Vols \subseteq Nat /\ Revs \subseteq Nat
    /\ None \notin Vols /\ None \notin Keys /\ None \notin Ports
    /\ None \notin Content /\ Empty \notin Content /\ None # Empty /\ None # Torn
    /\ None \notin EnvFile /\ None \notin ComposeFile /\ Torn \notin ComposeFile
    /\ None \notin InstanceRecord /\ None \notin Container
    /\ None \notin Bundle /\ Torn \notin Bundle /\ None \notin Recovery
    /\ Torn \notin Recovery /\ None \notin Context
    /\ DefaultPort \in Ports /\ LocalPort \in Ports /\ ForeignPort \in Ports
    /\ LocalKey \in Keys /\ ForeignKey \in Keys /\ ForeignPass \in Secrets
    /\ Codes \subseteq Secrets /\ Passes \subseteq Secrets
BY WorldAssumption, BackupAssumption DEF Vols, Revs, Codes, Secrets

LEMMA NoJobType == NoJob \in Job
BY ConstantTypes DEF NoJob, Job, Commands

LEMMA NoBkType == NoBk \in BackupLocals
BY ConstantTypes DEF NoBk, BackupLocals

LEMMA ForeignType == ForeignBundle \in Bundle
BY ConstantTypes DEF ForeignBundle, Bundle, Content, EnvFile

LEMMA LocalType == LocalData \in Content
BY ConstantTypes DEF LocalData, Content

LEMMA TypeInit == Init => TypeInv
<1> SUFFICES ASSUME Init PROVE TypeInv
    OBVIOUS
<1> USE ConstantTypes
<1>1. PICK kind \in InitKinds : InitInstance(kind)
    BY DEF Init
<1>2. env \in EnvFile \cup {None}
    BY <1>1 DEF InitInstance, EnvFile
<1>3. compose \in ComposeFile \cup {None, Torn}
    BY <1>1 DEF InitInstance, ComposeFile
<1>4. reg \in InstanceRecord \cup {None}
    BY <1>1 DEF InitInstance, InstanceRecord
<1>5. ctr \in Container \cup {None}
    BY <1>1 DEF InitInstance, Container
<1>6. vol \in [Vols -> Content \cup {None, Empty}]
    BY <1>1, LocalType DEF InitInstance
<1>7. WorldTypeOK
    BY <1>2, <1>3, <1>4, <1>5, <1>6 DEF WorldTypeOK, Init
<1>8. bundles \in [BundleNames -> Bundle \cup {None, Torn}]
    BY ForeignType DEF Init
<1>9. last \in Outcome
    BY DEF Init, Outcome, Commands, Results
<1>10. commands \in 0..MaxCommands /\ aborts \in 0..MaxAborts
    BY BackupAssumption DEF Init
<1>11. TypeOK
    BY <1>7, <1>8, <1>9, <1>10, NoJobType, NoBkType DEF Init, TypeOK
<1>12. LocalsOK
    BY DEF Init, LocalsOK, NoJob, BackupSteps, BackupTry, RestoreSteps, RollbackSteps, Named
<1>13. clock =< commands
    BY DEF Init
<1> QED BY <1>11, <1>12, <1>13 DEF TypeInv

-----------------------------------------------------------------------------
(* Ends of commands and moves from step to step.                           *)

StoreOK == recov' \in Recovery \cup {None, Torn}
           /\ bundles' \in [BundleNames -> Bundle \cup {None, Torn}] /\ rows' \in SUBSET Row
CountOK == clock' \in Vols /\ commands' \in 0..MaxCommands /\ aborts' \in 0..MaxAborts
           /\ clock' =< commands'
GhostOK == shown' \in SUBSET Codes /\ last' \in Outcome /\ broken' \in BOOLEAN
LocalOK == pc' \in {"idle"} \cup BackupSteps \cup RestoreSteps \cup RollbackSteps
           /\ job' \in Job /\ bk' \in BackupLocals /\ rb' \in Context \cup {None}
           /\ rvol' \in Vols \cup {None}

LEMMA Assemble ==
    FilesOK /\ DockerOK /\ StoreOK /\ CountOK /\ GhostOK /\ LocalOK /\ LocalsOK' => TypeInv'
BY DEF FilesOK, DockerOK, StoreOK, CountOK, GhostOK, LocalOK, TypeInv, TypeOK, WorldTypeOK

LEMMA Unchanged ==
    ASSUME TypeInv
    PROVE  /\ UNCHANGED fileVars => FilesOK
           /\ UNCHANGED storeVars => StoreOK
           /\ UNCHANGED countVars => CountOK
           /\ UNCHANGED ghostVars => GhostOK
           /\ UNCHANGED dockerVars => DockerOK
BY DEF TypeInv, TypeOK, WorldTypeOK, FilesOK, StoreOK, CountOK, GhostOK, DockerOK, fileVars,
       storeVars, countVars, ghostVars, dockerVars

LEMMA EndLocals ==
    ASSUME TypeInv, NEW res \in Results, EndCommand(res)
    PROVE  LocalOK /\ LocalsOK' /\ last' \in Outcome
<1>1. LocalOK /\ LocalsOK'
    BY NoJobType, NoBkType
       DEF EndCommand, LocalOK, LocalsOK, NoJob, BackupSteps, BackupTry, RestoreSteps,
           RollbackSteps, Named
<1>2. job.cmd \in Commands /\ job.up \in BOOLEAN
    BY DEF TypeInv, TypeOK, Job
<1> QED BY <1>1, <1>2 DEF EndCommand, Outcome

LEMMA ReturnLocals ==
    ASSUME TypeInv, pc \in BackupSteps, BackupReturns
    PROVE  LocalOK /\ LocalsOK' /\ GhostOK /\ CountOK
<1>1. CountOK
    BY Unchanged DEF BackupReturns, countVars
<1>2. CASE job.cmd = "replace" /\ pc' = "r_context" /\ UNCHANGED <<localVars, shown, last>>
    BY <1>1, <1>2 DEF BackupReturns, LocalOK, LocalsOK, GhostOK, TypeInv, TypeOK, localVars,
       BackupSteps, BackupTry, RestoreSteps, RollbackSteps, Named
<1>3. CASE EndCommand("ok") /\ shown' = IF bk.fresh THEN shown \cup {bk.code} ELSE shown
    <2>1. bk.code \in Codes
        BY DEF TypeInv, TypeOK, BackupLocals
    <2>2. shown' \in SUBSET Codes /\ broken' \in BOOLEAN
        BY <1>3, <2>1 DEF BackupReturns, TypeInv, TypeOK
    <2> QED BY <1>1, <1>3, <2>2, EndLocals DEF GhostOK, Results
<1> QED BY <1>2, <1>3 DEF BackupReturns

\* Goto keeps the locals: only what LocalsOK says of the new step is left.
LEMMA GotoLocals ==
    ASSUME TypeInv, NEW step \in BackupSteps \cup RestoreSteps \cup RollbackSteps, Goto(step),
           step \in BackupSteps => pc \in BackupSteps \ {"b_check"},
           step \in RestoreSteps => pc \in RestoreSteps \cap Named,
           step \in RollbackSteps => pc \in RollbackSteps,
           step \in Named => rvol # None,
           step \notin {"b_record", "r_context", "r_down"},
           step = "r_port" => env' # None
    PROVE  LocalOK /\ LocalsOK' /\ GhostOK /\ CountOK
<1>1. GhostOK /\ CountOK
    BY Unchanged DEF Goto, ghostVars, countVars
<1>2. LocalOK
    BY DEF Goto, LocalOK, TypeInv, TypeOK, localVars
<1>3. LocalsOK'
    BY DEF Goto, TypeInv, LocalsOK, localVars, BackupSteps, BackupTry, RestoreSteps,
           RollbackSteps, Named
<1> QED BY <1>1, <1>2, <1>3

-----------------------------------------------------------------------------
(* Every action keeps TypeInv.                                             *)

LEMMA BackupNamesType ==
    ASSUME TypeInv
    PROVE  Out \in BundleNames
BY DEF TypeInv, TypeOK, Out, BundleNames

LEMMA BeginTypes ==
    ASSUME TypeInv, BeginCommand
    PROVE  CountOK /\ rb = None /\ commands' \in Codes /\ clock' \in Vols
<1>1. clock \in Nat /\ clock =< MaxTime /\ commands \in Nat /\ commands < MaxCommands
    BY BackupAssumption, WorldAssumption DEF TypeInv, TypeOK, BeginCommand, Vols
<1>2. commands' = commands + 1 /\ (clock' = clock + 1 \/ clock' = clock) /\ aborts' = aborts
    BY DEF BeginCommand
<1>3. clock =< commands /\ MaxCommands =< MaxTime /\ MaxCommands \in Nat /\ MaxTime \in Nat
    BY BackupAssumption, WorldAssumption DEF TypeInv
<1>4. CountOK
    BY <1>1, <1>2, <1>3 DEF CountOK, Vols, TypeInv, TypeOK
<1> QED BY <1>4 DEF CountOK, Codes, BeginCommand, TypeInv, LocalsOK

LEMMA StartType ==
    ASSUME TypeInv, Start
    PROVE  TypeInv'
<1>1. ASSUME NEW pass \in Passes, StartBackup(pass) PROVE TypeInv'
    <2>1. FilesOK /\ DockerOK /\ StoreOK /\ GhostOK /\ CountOK
        BY <1>1, Unchanged, BeginTypes
           DEF StartBackup, worldVars, fileVars, dockerVars, storeVars
    <2>2. job' \in Job
        BY <1>1, ConstantTypes
           DEF StartBackup, NoJob, Job, Commands, ContainerIsRunning
    <2>3. LocalOK /\ LocalsOK'
        BY <1>1, <2>2, BeginTypes
           DEF StartBackup, LocalOK, LocalsOK, TypeInv, TypeOK, BackupSteps, BackupTry,
               RestoreSteps, RollbackSteps, Named, NoJob
    <2> QED BY <2>1, <2>3, Assemble
<1>2. ASSUME NEW name \in BundleNames, NEW secret \in Passes \cup shown,
             NEW replace \in BOOLEAN, NEW port \in Ports \cup {None},
             StartRestore(name, secret, replace, port)
      PROVE  TypeInv'
    <2>1. FilesOK /\ DockerOK /\ StoreOK /\ GhostOK /\ CountOK
        BY <1>2, Unchanged, BeginTypes
           DEF StartRestore, worldVars, fileVars, dockerVars, storeVars
    <2>2. secret \in Secrets
        BY ConstantTypes DEF TypeInv, TypeOK
    <2>3. job' \in Job
        BY <1>2, <2>2
           DEF StartRestore, Job, Commands, ContainerIsRunning, TypeInv, TypeOK, WorldTypeOK
    <2>4. rvol' \in Vols \cup {None} /\ (pc' = "r_env" => rvol' # None)
        BY <1>2, BeginTypes, ConstantTypes DEF StartRestore
    <2>5. LocalOK /\ LocalsOK'
        BY <1>2, <2>3, <2>4, BeginTypes, ConstantTypes
           DEF StartRestore, LocalOK, LocalsOK, TypeInv, TypeOK, BackupSteps, BackupTry,
               RestoreSteps, RollbackSteps, Named
    <2> QED BY <2>1, <2>5, Assemble
<1> QED BY <1>1, <1>2 DEF Start

LEMMA SealedType ==
    ASSUME TypeInv, pc \in BackupSteps, env # None
    PROVE  Sealed \in Bundle
<1>1. job.secret \in Secrets /\ bk.code \in Codes
    BY DEF TypeInv, TypeOK, BackupLocals, Job
<1> QED BY <1>1 DEF Sealed, Bundle, BackupLocals, TypeInv, TypeOK, WorldTypeOK

\* BWrite keeps the locals, but for the bytes it writes.
LEMMA WriteLocals ==
    ASSUME TypeInv, BWrite
    PROVE  /\ bk' \in BackupLocals /\ bk'.bundle = Sealed
           /\ bk'.rec = bk.rec /\ bk'.wasRunning = bk.wasRunning /\ bk'.snap = bk.snap
           /\ bk'.clean = bk.clean /\ bk'.code = bk.code /\ bk'.fresh = bk.fresh
           /\ bk'.ok = bk.ok
<1>1. bk \in BackupLocals /\ bk' = [bk EXCEPT !.bundle = Sealed] /\ Sealed \in Bundle
    BY SealedType DEF BWrite, TypeInv, TypeOK, BackupSteps, BackupTry
<1> QED BY <1>1 DEF BackupLocals

LEMMA BackupStepType ==
    ASSUME TypeInv, BackupStep
    PROVE  TypeInv'
<1> USE DEF fileVars, dockerVars, worldVars, storeVars
<1>0. /\ pc \in BackupSteps \ {"b_check"} => bk.rec \in InstanceRecord /\ bk.rec.vol \in Vols
      /\ job.secret \in Secrets /\ bk.code \in Codes /\ commands \in Codes
    BY DEF TypeInv, TypeOK, LocalsOK, BackupLocals, InstanceRecord, Job, Codes
<1>1. CASE BCheck
    <2>1. bk' \in BackupLocals
        BY <1>1, ConstantTypes DEF BCheck, BackupLocals, TypeInv, TypeOK, WorldTypeOK
    <2>2. bk'.rec # None
        BY <1>1 DEF BCheck, BackupLocals, TypeInv, TypeOK
    <2>3. LocalOK /\ LocalsOK'
        BY <1>1, <2>1, <2>2 DEF BCheck, LocalOK, LocalsOK, TypeInv, TypeOK, BackupSteps, BackupTry,
           RestoreSteps, RollbackSteps, Named
    <2> QED BY <1>1, <2>3, Unchanged, Assemble DEF BCheck
<1>2. CASE BRecovery
    <2> DEFINE Done == recov' \in Recovery \cup {None, Torn} /\ bk' \in BackupLocals
                       /\ bk'.rec = bk.rec
    <2>0. ASSUME recov' = [pass |-> job.secret, code |-> commands],
                 bk' = [bk EXCEPT !.code = commands, !.fresh = TRUE]
          PROVE  Done
        <3>1. recov' \in Recovery
            BY <1>0, <2>0 DEF Recovery
        <3>2. bk' \in BackupLocals /\ bk'.rec = bk.rec
            BY <1>0, <2>0 DEF BackupLocals, TypeInv, TypeOK
        <3> QED BY <3>1, <3>2
    <2>00. ASSUME recov \in Recovery, recov' = recov, bk' = [bk EXCEPT !.code = recov.code]
           PROVE  Done
        BY <2>00 DEF BackupLocals, Recovery, TypeInv, TypeOK
    <2>1. Done
        BY <1>2, <2>0, <2>00 DEF BRecovery
    <2>2. LocalOK /\ LocalsOK' /\ StoreOK
        BY <1>2, <2>1 DEF BRecovery, LocalOK, LocalsOK, StoreOK, TypeInv, TypeOK,
           BackupSteps, BackupTry, RestoreSteps, RollbackSteps, Named
    <2> QED BY <1>2, <2>2, Unchanged, Assemble DEF BRecovery
<1>3. CASE BPs
    <2>1. bk' \in BackupLocals /\ bk'.rec = bk.rec
        BY <1>3 DEF BPs, BackupLocals, TypeInv, TypeOK, ContainerIsRunning
    <2>2. LocalOK /\ LocalsOK'
        BY <1>3, <2>1 DEF BPs, LocalOK, LocalsOK, TypeInv, TypeOK, BackupSteps, BackupTry,
           RestoreSteps, RollbackSteps, Named
    <2> QED BY <1>3, <2>2, Unchanged, Assemble DEF BPs
<1>4. CASE BStop
    <2>1. LocalOK /\ LocalsOK' /\ GhostOK /\ CountOK
        BY <1>4, GotoLocals DEF BStop, BackupSteps, BackupTry, RestoreSteps, RollbackSteps, Named
    <2> QED BY <1>4, <2>1, Unchanged, Assemble, DockerTypes DEF BStop, TypeInv, TypeOK
<1>5. CASE BCapture
    <2>1. pc \in BackupSteps \ {"b_check"}
        BY <1>5 DEF BCapture, BackupSteps, BackupTry
    <2>2. DockerOK /\ Mounted(bk.rec.vol)[bk.rec.vol] \in Content \cup {Empty}
        BY <1>0, <1>5, <2>1, MountedType
           DEF BCapture, DockerOK, TypeInv, TypeOK, WorldTypeOK
    <2>3. bk' \in BackupLocals /\ bk'.rec = bk.rec
        BY <1>5, <2>2 DEF BCapture, BackupLocals, TypeInv, TypeOK, ContainerIsRunning
    <2>4. LocalOK /\ LocalsOK'
        BY <1>5, <2>3 DEF BCapture, LocalOK, LocalsOK, TypeInv, TypeOK, BackupSteps, BackupTry,
           RestoreSteps, RollbackSteps, Named
    <2> QED BY <1>5, <2>2, <2>4, Unchanged, Assemble DEF BCapture
<1>7. CASE BWrite
    <2>1. bundles' \in [BundleNames -> Bundle \cup {None, Torn}]
        BY <1>7, SealedType, BackupNamesType DEF BWrite, TypeInv, TypeOK, BackupSteps, BackupTry
    <2>2. LocalOK /\ LocalsOK' /\ GhostOK /\ CountOK
        <3>1. Sealed \in Bundle
            BY <1>7, SealedType DEF BWrite, BackupSteps, BackupTry
        <3>2. bk' \in BackupLocals /\ bk'.bundle # None /\ bk'.rec = bk.rec
            BY <1>7, <3>1, WriteLocals, ConstantTypes
        <3> QED BY <1>7, <3>2, Unchanged
                DEF BWrite, LocalOK, LocalsOK, TypeInv, TypeOK, BackupSteps, BackupTry,
                    RestoreSteps, RollbackSteps, Named
    <2>3. StoreOK
        BY <1>7, <2>1 DEF BWrite, StoreOK, TypeInv, TypeOK
    <2> QED BY <1>7, <2>2, <2>3, Unchanged, Assemble DEF BWrite
<1>8. CASE BRecord
    <2>1. pc \in BackupSteps
        BY <1>8 DEF BRecord, BackupSteps, BackupTry
    <2>2. rows' \in SUBSET Row
        BY <1>8, BackupNamesType DEF BRecord, Row, TypeInv, TypeOK, LocalsOK, BackupLocals
    <2>3. StoreOK
        BY <1>8, <2>2 DEF BRecord, StoreOK, TypeInv, TypeOK
    <2>4. LocalOK /\ LocalsOK' /\ GhostOK /\ CountOK
        BY <1>8, <2>1, GotoLocals, ReturnLocals
           DEF BRecord, BackupSteps, BackupTry, RestoreSteps, RollbackSteps, Named
    <2> QED BY <1>8, <2>3, <2>4, Unchanged, Assemble DEF BRecord
<1>9. CASE BStart
    <2>1. LocalOK /\ LocalsOK' /\ GhostOK /\ CountOK
        BY <1>9, GotoLocals DEF BStart, BackupSteps, BackupTry, RestoreSteps, RollbackSteps, Named
    <2> QED BY <1>9, <2>1, Unchanged, Assemble, DockerTypes DEF BStart, TypeInv, TypeOK
<1>10. CASE BWait
    <2>1. pc \in BackupSteps
        BY <1>10 DEF BWait, BackupSteps
    <2>2. LocalOK /\ LocalsOK' /\ GhostOK /\ CountOK
        <3>1. CASE BackupReturns
            BY <2>1, <3>1, ReturnLocals
        <3>2. CASE EndCommand("failed") /\ UNCHANGED <<countVars, shown, broken>>
            BY <3>2, EndLocals, Unchanged DEF Results, GhostOK, TypeInv, TypeOK
        <3> QED BY <1>10, <3>1, <3>2 DEF BWait
    <2> QED BY <1>10, <2>2, Unchanged, Assemble DEF BWait
<1> QED BY <1>1, <1>2, <1>3, <1>4, <1>5, <1>7, <1>8, <1>9, <1>10 DEF BackupStep

LEMMA RestoreFacts ==
    ASSUME TypeInv, pc \in RestoreSteps
    PROVE  /\ job.src \in Bundle /\ job.src.env \in EnvFile
           /\ job.src.data \in Content \cup {Empty}
           /\ RestoredPort \in Ports
           /\ pc \in Named => rvol \in Vols
<1>1. job.src \in Bundle /\ job.port \in Ports \cup {None}
    BY DEF TypeInv, TypeOK, LocalsOK, Job
<1>2. job.src.env \in EnvFile /\ job.src.data \in Content \cup {Empty}
    BY <1>1 DEF Bundle
<1>3. RestoredPort \in Ports
    BY <1>1, <1>2, ConstantTypes DEF RestoredPort, EnvFile
<1>4. pc \in Named => rvol \in Vols
    BY DEF TypeInv, TypeOK, LocalsOK
<1> QED BY <1>1, <1>2, <1>3, <1>4

LEMMA RestoreStepType ==
    ASSUME TypeInv, RestoreStep
    PROVE  TypeInv'
<1> USE DEF fileVars, dockerVars, worldVars, storeVars
<1>0. pc \in RestoreSteps
    BY DEF RestoreStep, RContext, RDown, REnv, RPort, RCompose, RVolume, RUntar, RUpsert, RUp,
           RWait, RestoreSteps
<1> USE <1>0
<1>1. CASE RContext
    <2>0. job.rec \in InstanceRecord
        BY <1>1 DEF RContext, LocalsOK, TypeInv, TypeOK, Job
    <2>1. rb' \in Context
        BY <1>1, <2>0
           DEF RContext, Context, CanCompose, ContainerIsRunning, TypeInv, TypeOK, WorldTypeOK
    <2>2. LocalOK /\ LocalsOK'
        BY <1>1, <2>1, ConstantTypes
           DEF RContext, LocalOK, LocalsOK, TypeInv, TypeOK, BackupSteps, BackupTry,
               RestoreSteps, RollbackSteps, Named
    <2> QED BY <1>1, <2>2, Unchanged, Assemble DEF RContext
<1>2. CASE RDown
    <2>1. LocalOK /\ LocalsOK'
        BY <1>2, ConstantTypes
           DEF RDown, LocalOK, LocalsOK, TypeInv, TypeOK, BackupSteps, BackupTry,
               RestoreSteps, RollbackSteps, Named
    <2> QED BY <1>2, <2>1, Unchanged, Assemble, DockerTypes DEF RDown, TypeInv, TypeOK
<1>3. ASSUME NEW step \in {"r_port", "r_compose", "r_volume", "r_untar", "r_upsert", "r_up",
                          "r_wait"},
             Goto(step), pc \in Named, step = "r_port" => env' # None
      PROVE  LocalOK /\ LocalsOK' /\ GhostOK /\ CountOK
    BY <1>3, GotoLocals
       DEF BackupSteps, BackupTry, RestoreSteps, RollbackSteps, Named, TypeInv, LocalsOK
<1>4. CASE REnv
    <2>1. FilesOK
        BY <1>4, RestoreFacts DEF REnv, FilesOK, TypeInv, TypeOK, WorldTypeOK
    <2>2. env' # None
        BY <1>4, RestoreFacts, ConstantTypes DEF REnv
    <2> QED BY <1>3, <1>4, <2>1, <2>2, Unchanged, Assemble DEF REnv, Named
<1>5. CASE RPort
    <2>1. env \in EnvFile => [env EXCEPT !.port = RestoredPort] \in EnvFile
        BY RestoreFacts DEF EnvFile
    <2>2. FilesOK
        BY <1>5, <2>1 DEF RPort, FilesOK, TypeInv, TypeOK, WorldTypeOK, LocalsOK
    <2> QED BY <1>3, <1>5, <2>2, Unchanged, Assemble DEF RPort, Named
<1>6. CASE RCompose
    <2>1. compose' \in ComposeFile
        BY <1>6, RestoreFacts DEF RCompose, ComposeFile, Named
    <2>2. FilesOK
        BY <1>6, <2>1 DEF RCompose, FilesOK, TypeInv, TypeOK, WorldTypeOK
    <2> QED BY <1>3, <1>6, <2>2, Unchanged, Assemble DEF RCompose, Named
<1>7. CASE RVolume
    BY <1>3, <1>7, RestoreFacts, Unchanged, Assemble, DockerTypes
       DEF RVolume, Named, TypeInv, TypeOK
<1>8. CASE RUntar
    <2>1. vol' \in [Vols -> Content \cup {None, Empty}]
        BY <1>8, RestoreFacts, ExtractedType
           DEF RUntar, Named, TypeInv, TypeOK, WorldTypeOK
    <2>2. DockerOK
        BY <1>8, <2>1 DEF RUntar, DockerOK, TypeInv, TypeOK, WorldTypeOK
    <2> QED BY <1>3, <1>8, <2>2, Unchanged, Assemble DEF RUntar, Named
<1>9. CASE RUpsert
    <2>1. reg' \in InstanceRecord
        BY <1>9, RestoreFacts DEF RUpsert, InstanceRecord, Named
    <2>2. FilesOK
        BY <1>9, <2>1 DEF RUpsert, FilesOK, TypeInv, TypeOK, WorldTypeOK
    <2> QED BY <1>3, <1>9, <2>2, Unchanged, Assemble DEF RUpsert, Named
<1>10. CASE RUp
    BY <1>3, <1>10, Unchanged, Assemble, DockerTypes DEF RUp, Named, TypeInv, TypeOK
<1>11. CASE RWait
    BY <1>11, EndLocals, Unchanged, Assemble
       DEF RWait, Results, GhostOK, CountOK, TypeInv, TypeOK
<1> QED BY <1>1, <1>2, <1>4, <1>5, <1>6, <1>7, <1>8, <1>9, <1>10, <1>11 DEF RestoreStep

LEMMA RollbackFacts ==
    ASSUME TypeInv, pc \in RollbackSteps
    PROVE  /\ rb \in Context
           /\ rb.rec \in InstanceRecord /\ rb.compose \in ComposeFile /\ rb.env \in EnvFile
           /\ pc \in Named => rvol \in Vols
BY DEF TypeInv, TypeOK, LocalsOK, Context

LEMMA RollbackStepType ==
    ASSUME TypeInv, RollbackStep
    PROVE  TypeInv'
<1> USE DEF fileVars, dockerVars, worldVars, storeVars
<1>0. pc \in RollbackSteps
    BY DEF RollbackStep, XDown, XVolume, XCompose, XEnv, XUpsert, XUp, XWait, RollbackSteps
<1> USE <1>0
<1>1. ASSUME NEW step \in {"x_volume", "x_compose", "x_env", "x_upsert", "x_up", "x_wait"},
             Goto(step), step = "x_volume" => pc \in Named
      PROVE  LocalOK /\ LocalsOK' /\ GhostOK /\ CountOK
    BY <1>1, GotoLocals
       DEF BackupSteps, BackupTry, RestoreSteps, RollbackSteps, Named, TypeInv, LocalsOK
<1>2. ASSUME EndCommand("rolled_back"), UNCHANGED <<countVars, shown, broken>>
      PROVE  LocalOK /\ LocalsOK' /\ GhostOK /\ CountOK
    BY <1>2, EndLocals, Unchanged DEF Results, GhostOK, TypeInv, TypeOK
<1>3. CASE XDown
    BY <1>1, <1>3, Unchanged, Assemble, DockerTypes DEF XDown, Named, TypeInv, TypeOK
<1>4. CASE XVolume
    BY <1>1, <1>4, RollbackFacts, Unchanged, Assemble, DockerTypes
       DEF XVolume, Named, TypeInv, TypeOK
<1>5. CASE XCompose
    BY <1>1, <1>5, RollbackFacts, Unchanged, Assemble
       DEF XCompose, FilesOK, TypeInv, TypeOK, WorldTypeOK
<1>6. CASE XEnv
    BY <1>1, <1>6, RollbackFacts, Unchanged, Assemble
       DEF XEnv, FilesOK, TypeInv, TypeOK, WorldTypeOK
<1>7. CASE XUpsert
    <2>1. FilesOK
        BY <1>7, RollbackFacts DEF XUpsert, FilesOK, TypeInv, TypeOK, WorldTypeOK
    <2> QED BY <1>1, <1>2, <1>7, <2>1, Unchanged, Assemble DEF XUpsert
<1>8. CASE XUp
    BY <1>1, <1>8, Unchanged, Assemble, DockerTypes DEF XUp, TypeInv, TypeOK
<1>9. CASE XWait
    BY <1>2, <1>9, Unchanged, Assemble DEF XWait
<1> QED BY <1>3, <1>4, <1>5, <1>6, <1>7, <1>8, <1>9 DEF RollbackStep

LEMMA LeftoverType ==
    ASSUME TypeInv, pc # "idle", Leftover
    PROVE  FilesOK /\ DockerOK /\ StoreOK
<1> USE DEF fileVars, dockerVars, worldVars, storeVars
<1>1. CASE UNCHANGED <<worldVars, storeVars>>
    BY <1>1, Unchanged
<1>2. CASE LeavesTornFile
    <2>1. DockerOK
        BY <1>2, Unchanged DEF LeavesTornFile
    <2>2. bundles' \in [BundleNames -> Bundle \cup {None, Torn}]
        BY <1>2, BackupNamesType DEF LeavesTornFile, TypeInv, TypeOK
    <2> QED BY <1>2, <2>1, <2>2, BlankType
            DEF LeavesTornFile, FilesOK, StoreOK, TypeInv, TypeOK, WorldTypeOK
<1>3. CASE LeavesDockerEffect
    <2>1. FilesOK /\ StoreOK
        BY <1>3, Unchanged DEF LeavesDockerEffect
    <2>2. CASE pc = "b_capture" /\ VolumeCreate(bk.rec.vol)
        <3>1. bk.rec.vol \in Vols
            BY <2>2 DEF TypeInv, TypeOK, LocalsOK, BackupLocals, InstanceRecord, BackupSteps,
               BackupTry
        <3> QED BY <2>1, <2>2, <3>1, DockerTypes DEF TypeInv, TypeOK
    <2>3. CASE \/ pc = "r_volume" /\ VolumeCreate(rvol)
               \/ pc = "x_volume" /\ VolumeRemove(rvol)
        <3>1. rvol \in Vols
            BY <2>3 DEF TypeInv, TypeOK, LocalsOK, Named
        <3> QED BY <2>1, <2>3, <3>1, DockerTypes DEF TypeInv, TypeOK
    <2>4. CASE /\ pc = "r_untar" /\ job.src.data # Empty
               /\ vol' = [vol EXCEPT ![rvol] =
                             [Extracted(@, job.src.data) EXCEPT !.whole = FALSE]]
               /\ UNCHANGED <<ctr, rev>>
        <3>1. pc \in RestoreSteps /\ pc \in Named
            BY <2>4 DEF RestoreSteps, Named
        <3>2. [Extracted(vol[rvol], job.src.data) EXCEPT !.whole = FALSE] \in Content
            BY <2>4, <3>1, RestoreFacts, ExtractedType DEF TypeInv, TypeOK, WorldTypeOK
        <3> QED BY <2>1, <2>4, <3>2 DEF DockerOK, TypeInv, TypeOK, WorldTypeOK
    <2>5. CASE \E st \in {"running", "exited"} : ComposeUp(st)
        BY <2>1, <2>5, DockerTypes DEF TypeInv, TypeOK
    <2>6. CASE ComposeStop \/ ComposeStart \/ ComposeDown
        BY <2>1, <2>6, DockerTypes DEF TypeInv, TypeOK
    <2> QED BY <1>3, <2>2, <2>3, <2>4, <2>5, <2>6 DEF LeavesDockerEffect
<1> QED BY <1>1, <1>2, <1>3 DEF Leftover

LEMMA RaiseType ==
    ASSUME TypeInv, Raise
    PROVE  TypeInv'
<1>0. pc # "idle" /\ shown' \in SUBSET Codes
    BY DEF Raise, BackupTry, BackupSteps, RestoreSteps, RollbackSteps, TypeInv, TypeOK
<1>1. FilesOK /\ DockerOK /\ StoreOK /\ CountOK
    BY <1>0, LeftoverType, Unchanged DEF Raise
<1>2. CASE /\ pc \in BackupTry /\ bk.wasRunning
           /\ pc' = "b_start"
           /\ bk' = [bk EXCEPT !.ok = FALSE]
           /\ UNCHANGED <<job, rb, rvol, last, broken>>
    <2>1. bk' \in BackupLocals /\ bk'.rec = bk.rec
        BY <1>2 DEF BackupLocals, TypeInv, TypeOK
    <2>2. LocalOK /\ LocalsOK'
        BY <1>2, <2>1 DEF LocalOK, LocalsOK, TypeInv, TypeOK, BackupSteps, BackupTry,
           RestoreSteps, RollbackSteps, Named
    <2>3. GhostOK
        BY <1>0, <1>2 DEF GhostOK, TypeInv, TypeOK
    <2> QED BY <1>1, <2>2, <2>3, Assemble
<1>3. ASSUME NEW res \in Results, EndCommand(res), broken' \in BOOLEAN PROVE TypeInv'
    BY <1>0, <1>1, <1>3, EndLocals, Assemble DEF GhostOK
<1>4. CASE /\ pc \in RestoreSteps /\ rb # None
           /\ pc' = FirstRollbackStep
           /\ UNCHANGED <<localVars, last, broken>>
    <2>1. job.cmd = "replace"
        BY <1>4 DEF TypeInv, LocalsOK
    <2>2. LocalOK /\ LocalsOK'
        BY <1>4, <2>1 DEF LocalOK, LocalsOK, FirstRollbackStep, localVars, TypeInv, TypeOK,
           BackupSteps, BackupTry, RestoreSteps, RollbackSteps, Named
    <2>3. GhostOK
        BY <1>0, <1>4 DEF GhostOK, TypeInv, TypeOK
    <2> QED BY <1>1, <2>2, <2>3, Assemble
<1>5. ASSUME UNCHANGED broken PROVE broken' \in BOOLEAN
    BY <1>5 DEF TypeInv, TypeOK
<1> QED BY <1>2, <1>3, <1>4, <1>5 DEF Raise, Results

LEMMA AbortType ==
    ASSUME TypeInv, Abort
    PROVE  TypeInv'
<1>1. FilesOK /\ DockerOK /\ StoreOK
    BY LeftoverType DEF Abort
<1>2. CountOK
    BY BackupAssumption DEF Abort, CountOK, TypeInv, TypeOK
<1>3. LocalOK /\ LocalsOK' /\ last' \in Outcome
    BY EndLocals DEF Abort, Results
<1>4. GhostOK
    BY <1>3 DEF Abort, GhostOK, TypeInv, TypeOK
<1> QED BY <1>1, <1>2, <1>3, <1>4, Assemble

LEMMA TypeStep ==
    ASSUME TypeInv, [Next]_vars
    PROVE  TypeInv'
<1>1. CASE Environment
    <2>1. WorldTypeOK'
        BY <1>1, N8nTypes DEF Environment, TypeInv, TypeOK
    <2>2. env' = env
        BY <1>1 DEF Environment, N8nStep, N8nBoots, N8nWrites, N8nExits, DaemonRestarts, fileVars
    <2> QED BY <1>1, <2>1, <2>2 DEF Environment, TypeInv, TypeOK, LocalsOK, storeVars,
               localVars, ghostVars, countVars
<1>2. CASE UNCHANGED vars
    BY <1>2 DEF vars, TypeInv, TypeOK, WorldTypeOK, LocalsOK, worldVars, storeVars, localVars,
        ghostVars, countVars
<1> QED BY <1>1, <1>2, StartType, BackupStepType, RestoreStepType, RollbackStepType, RaiseType,
           AbortType DEF Next, Step

\* Every reachable state of backup and restore has the types the code gives its
\* locals and stores: no step of backup.py:75-517 is taken with a missing record,
\* bundle, volume name or rollback context.
THEOREM TypeCorrect == Spec => []TypeOK
<1>1. Init => TypeInv
    BY TypeInit
<1>2. TypeInv /\ [Next]_vars => TypeInv'
    BY TypeStep
<1>3. TypeInv => TypeOK
    BY DEF TypeInv
<1> QED BY <1>1, <1>2, <1>3, PTL DEF Spec

(***************************************************************************)
(* 2. The key of a volume is never lost                                    *)
(*                                                                         *)
(* KeyNeverLost is not inductive: it says nothing of the moments when the  *)
(* .env is about to be overwritten.  The invariant distinguishes them.     *)
(* The instance is Loose when it has no registry row or is being replaced; *)
(* then every key in use must be in a bundle, whatever .env holds.  That   *)
(* it is so when a replace begins is what the safety backup is for.        *)
(***************************************************************************)

BundleKey(k) == \E n \in BundleNames : bundles[n] \in Bundle /\ bundles[n].env.key = k
EnvKey(k) == env # None /\ env.key = k
VolKey(k) == \E v \in Vols : vol[v] \in Content /\ vol[v].key = k
CtrKey(k) == ctr # None /\ ctr.key = k
DataKey(k) == \E n \in BundleNames :
                 bundles[n] \in Bundle /\ bundles[n].data \in Content /\ bundles[n].data.key = k
SnapKey(k) == pc = "b_write" /\ bk.snap \in Content /\ bk.snap.key = k

\* k opens some data, or will once n8n starts or the running backup is written.
Held(k) == VolKey(k) \/ CtrKey(k) \/ DataKey(k) \/ SnapKey(k)

Loose == reg = None \/ rb # None

KeysOK ==
    /\ ~Loose => \A k \in Keys : Held(k) => EnvKey(k) \/ BundleKey(k)
    /\ Loose => \A k \in Keys : Held(k) \/ EnvKey(k) => BundleKey(k)

\* Bundle names are never used twice.
Unwritten == {"b_check", "b_recovery", "b_ps", "b_stop", "b_capture", "b_write"}
FreshNames ==
    /\ \A kind \in {"foreign", "backup", "safety"}, t \in Vols :
          t > clock => bundles[<<kind, t>>] = None
    /\ pc \in Unwritten => bundles[Out] = None

\* The bundle being restored still exists.
SourceThere == job.src # None => \E n \in BundleNames : bundles[n] = job.src

\* The safety bundle of a replace, once written, holds the .env that is still there.
Saved == \/ pc \in {"b_record", "r_context"}
         \/ pc \in {"b_start", "b_wait"} /\ bk.ok
SafetyWritten ==
    job.cmd = "replace" /\ Saved => bundles[Out] \in Bundle /\ bundles[Out].env = env

\* The .env a rollback brings back has its key in a bundle.
ContextSaved == rb # None => \A k \in Keys : rb.env.key = k => BundleKey(k)

\* The steps that overwrite .env, and those up to the new registry row.
Overwriting == {"r_env", "r_port", "r_compose", "r_volume", "r_untar", "r_upsert", "x_env"}
OnlyLoose == pc \in Overwriting => Loose

KeyInv == KeysOK /\ FreshNames /\ SourceThere /\ SafetyWritten /\ ContextSaved /\ OnlyLoose

\* What every step but RContext does to keys: bundles are only added, a key comes
\* into use only from where it was, and .env changes only while Loose.
BundlesGrow == \A n \in BundleNames : bundles[n] \in Bundle => bundles'[n] = bundles[n]
HeldFrom == \A k \in Keys : Held(k)' => Held(k) \/ EnvKey(k)
EnvSafe == \/ env' = env
           \/ Loose /\ \A k \in Keys : EnvKey(k)' => BundleKey(k)

LEMMA KeyInit ==
    ASSUME "adoptable" \notin InitKinds, Init
    PROVE  KeyInv
<1> USE ConstantTypes
<1>1. PICK kind \in InitKinds : InitInstance(kind)
    BY DEF Init
<1>2. /\ bundles[<<"foreign", 0>>] = ForeignBundle
      /\ \A n \in BundleNames : n # <<"foreign", 0>> => bundles[n] = None
      /\ <<"foreign", 0>> \in BundleNames
    BY DEF Init, BundleNames
<1>3. BundleKey(ForeignKey) /\ \A k \in Keys : DataKey(k) => k = ForeignKey
    BY <1>2, ForeignType DEF BundleKey, DataKey, ForeignBundle
<1>4. \A k \in Keys : ~SnapKey(k)
    BY DEF Init, SnapKey
<1>5. CASE kind = "none"
    <2>1. reg = None /\ env = None /\ ctr = None /\ \A v \in Vols : vol[v] = None
        BY <1>1, <1>5 DEF InitInstance
    <2> QED BY <1>2, <1>3, <1>4, <2>1
            DEF KeyInv, KeysOK, Loose, Held, VolKey, CtrKey, EnvKey, FreshNames, SourceThere,
                SafetyWritten, ContextSaved, OnlyLoose, Overwriting, Unwritten, Saved, Init,
                NoJob, BundleNames
<1>6. CASE kind # "none"
    <2>1. /\ reg # None
          /\ env = [key |-> LocalKey, port |-> LocalPort]
          /\ ctr = None \/ ctr.key = LocalKey
          /\ \A v \in Vols : vol[v] \in {LocalData, None, Empty}
        BY <1>1, <1>6 DEF InitInstance, InstanceRecord
    <2>2. EnvKey(LocalKey) /\ \A k \in Keys : VolKey(k) \/ CtrKey(k) => k = LocalKey
        BY <2>1 DEF EnvKey, VolKey, CtrKey, LocalData, EnvFile
    <2> QED BY <1>2, <1>3, <1>4, <2>1, <2>2
            DEF KeyInv, KeysOK, Loose, Held, FreshNames, SourceThere,
                SafetyWritten, ContextSaved, OnlyLoose, Overwriting, Unwritten, Saved, Init,
                NoJob, BundleNames
<1> QED BY <1>5, <1>6

LEMMA KeysKept ==
    ASSUME KeysOK, BundlesGrow, HeldFrom, EnvSafe, Loose' => Loose
    PROVE  KeysOK'
<1>1. \A k \in Keys : BundleKey(k) => BundleKey(k)'
    BY DEF BundleKey, BundlesGrow
<1>2. CASE Loose
    <2>1. \A k \in Keys : Held(k)' \/ EnvKey(k)' => BundleKey(k)'
        BY <1>1, <1>2 DEF KeysOK, HeldFrom, EnvSafe, EnvKey
    <2> QED BY <2>1 DEF KeysOK
<1>3. CASE ~Loose
    <2>1. \A k \in Keys : EnvKey(k) => EnvKey(k)'
        BY <1>3 DEF EnvSafe, EnvKey
    <2> QED BY <1>1, <1>3, <2>1 DEF KeysOK, HeldFrom
<1> QED BY <1>2, <1>3

-----------------------------------------------------------------------------
(* Where the keys of volumes and containers come from.                     *)

VolCtrFrom == \A k \in Keys : VolKey(k)' \/ CtrKey(k)' => Held(k) \/ EnvKey(k)

LEMMA MountedKeys ==
    ASSUME TypeInv, NEW v \in Vols, vol' = Mounted(v), NEW k \in Keys, VolKey(k)'
    PROVE  VolKey(k)
BY ConstantTypes DEF VolKey, Mounted, TypeInv, TypeOK, WorldTypeOK

LEMMA DockerKeys ==
    ASSUME TypeInv
    PROVE  /\ \A st \in {"running", "exited"} : ComposeUp(st) => VolCtrFrom
           /\ ComposeDown \/ ComposeStop \/ ComposeStart => VolCtrFrom
           /\ \A v \in Vols : VolumeCreate(v) \/ VolumeRemove(v) => VolCtrFrom
           /\ UNCHANGED dockerVars => VolCtrFrom
<1> USE DEF Held
<1>1. ASSUME NEW st \in {"running", "exited"}, ComposeUp(st) PROVE VolCtrFrom
    <2>1. compose.vol \in Vols
        BY <1>1, CreatedType DEF ComposeUp, TypeInv, TypeOK
    <2>2. \A k \in Keys : VolKey(k)' => VolKey(k)
        BY <1>1, <2>1, MountedKeys DEF ComposeUp
    <2>3. \A k \in Keys : CtrKey(k)' => EnvKey(k)
        BY <1>1 DEF ComposeUp, CanUp, Created, CtrKey, EnvKey
    <2> QED BY <2>2, <2>3 DEF VolCtrFrom
<1>2. ASSUME ComposeDown \/ ComposeStop \/ ComposeStart PROVE VolCtrFrom
    <2>1. \A k \in Keys : VolKey(k)' => VolKey(k)
        BY <1>2 DEF ComposeDown, ComposeStop, ComposeStart, VolKey
    <2>2. ctr # None => [ctr EXCEPT !.st = "exited"].key = ctr.key
                        /\ [ctr EXCEPT !.st = "running"].key = ctr.key
        BY DEF TypeInv, TypeOK, WorldTypeOK, Container
    <2>3. \A k \in Keys : CtrKey(k)' => CtrKey(k)
        BY <1>2, <2>2 DEF ComposeDown, ComposeStop, ComposeStart, CtrKey
    <2> QED BY <2>1, <2>3 DEF VolCtrFrom
<1>3. ASSUME NEW v \in Vols, VolumeCreate(v) \/ VolumeRemove(v) PROVE VolCtrFrom
    <2>1. \A k \in Keys : VolKey(k)' => VolKey(k)
        <3>1. CASE VolumeCreate(v)
            BY <3>1, MountedKeys DEF VolumeCreate
        <3>2. CASE VolumeRemove(v)
            BY <3>2, ConstantTypes DEF VolumeRemove, VolKey, TypeInv, TypeOK, WorldTypeOK
        <3> QED BY <1>3, <3>1, <3>2
    <2>2. ctr' = ctr
        BY <1>3 DEF VolumeCreate, VolumeRemove
    <2> QED BY <2>1, <2>2 DEF VolCtrFrom, CtrKey
<1>4. ASSUME UNCHANGED dockerVars PROVE VolCtrFrom
    BY <1>4 DEF dockerVars, VolCtrFrom, VolKey, CtrKey
<1> QED BY <1>1, <1>2, <1>3, <1>4

LEMMA N8nKeys ==
    ASSUME TypeInv, N8nStep
    PROVE  VolCtrFrom /\ env' = env /\ reg' = reg
<1> USE DEF Held, fileVars
<1>0. env' = env /\ reg' = reg
    BY DEF N8nStep, N8nBoots, N8nWrites, N8nExits, DaemonRestarts
<1>1. ctr # None => ctr.vol \in Vols
    BY DEF TypeInv, TypeOK, WorldTypeOK, Container
<1>2. CASE N8nBoots
    <2>1. ctr # None /\ ctr' = ctr /\ vol' = [vol EXCEPT ![ctr.vol] =
                  [key |-> ctr.key, hist |-> {rev + 1}, whole |-> TRUE]]
        BY <1>2 DEF N8nBoots, ContainerIsRunning
    <2>2. \A k \in Keys : VolKey(k)' => VolKey(k) \/ CtrKey(k)
        BY <1>1, <2>1 DEF VolKey, CtrKey, TypeInv, TypeOK, WorldTypeOK
    <2> QED BY <1>0, <2>1, <2>2 DEF VolCtrFrom, CtrKey
<1>3. CASE N8nWrites
    <2>1. /\ ctr # None /\ ctr' = ctr /\ vol[ctr.vol] \in Content
          /\ vol' = [vol EXCEPT ![ctr.vol] =
                        [vol[ctr.vol] EXCEPT !.hist = @ \cup {rev + 1}]]
        BY <1>3 DEF N8nWrites, Serving, ContainerIsRunning
    <2>2. [vol[ctr.vol] EXCEPT !.hist = @ \cup {rev + 1}].key = vol[ctr.vol].key
        BY <2>1 DEF Content
    <2>3. \A k \in Keys : VolKey(k)' => VolKey(k)
        BY <1>1, <2>1, <2>2 DEF VolKey, TypeInv, TypeOK, WorldTypeOK
    <2> QED BY <1>0, <2>1, <2>3 DEF VolCtrFrom, CtrKey
<1>4. CASE N8nExits \/ DaemonRestarts
    <2>1. vol' = vol /\ ctr # None
        BY <1>4 DEF N8nExits, DaemonRestarts, ContainerIsRunning
    <2>2. ctr'.key = ctr.key
        BY <1>4, <2>1 DEF N8nExits, DaemonRestarts, TypeInv, TypeOK, WorldTypeOK, Container
    <2> QED BY <1>0, <2>1, <2>2 DEF VolCtrFrom, VolKey, CtrKey
<1> QED BY <1>2, <1>3, <1>4 DEF N8nStep

\* Most steps write no bundle and are not the capture.
LEMMA HeldKept ==
    ASSUME VolCtrFrom, UNCHANGED bundles, pc' # "b_write"
    PROVE  HeldFrom /\ BundlesGrow
<1>1. \A k \in Keys : DataKey(k)' => DataKey(k)
    BY DEF DataKey
<1>2. \A k \in Keys : ~SnapKey(k)'
    BY DEF SnapKey
<1> QED BY <1>1, <1>2 DEF HeldFrom, BundlesGrow, VolCtrFrom, Held

-----------------------------------------------------------------------------
(* The inductive step.                                                     *)

OnlyOut == \A n \in BundleNames : n # Out => bundles'[n] = bundles[n]

LEMMA FreshKept ==
    ASSUME TypeInv, FreshNames, OnlyOut, clock' = clock
    PROVE  \A kind \in {"foreign", "backup", "safety"}, t \in Vols :
              t > clock' => bundles'[<<kind, t>>] = None
<1> SUFFICES ASSUME NEW kind \in {"foreign", "backup", "safety"}, NEW t \in Vols, t > clock
             PROVE  bundles'[<<kind, t>>] = None
    OBVIOUS
<1>1. clock \in Nat /\ t \in Nat
    BY ConstantTypes DEF TypeInv, TypeOK
<1>2. <<kind, t>> # Out /\ <<kind, t>> \in BundleNames
    BY <1>1 DEF Out, BundleNames
<1> QED BY <1>2 DEF OnlyOut, FreshNames

\* The end of a command.
LEMMA EndKeys ==
    ASSUME TypeInv, KeyInv, NEW res, EndCommand(res), clock' = clock, OnlyOut, BundlesGrow,
           HeldFrom, EnvSafe, reg' = None => reg = None
    PROVE  KeyInv'
<1>1. KeysOK'
    BY KeysKept DEF KeyInv, EndCommand, Loose
<1>2. FreshNames'
    BY FreshKept DEF KeyInv, EndCommand, FreshNames, Unwritten
<1> QED BY <1>1, <1>2 DEF KeyInv, EndCommand, SourceThere, NoJob, SafetyWritten, ContextSaved,
           OnlyLoose, Overwriting

\* A step of a command that goes on, after its backup if it makes one.
LEMMA MoveKeys ==
    ASSUME TypeInv, KeyInv, UNCHANGED <<bundles, clock, job, rb>>, HeldFrom, EnvSafe,
           reg' = None => reg = None, pc' \notin Unwritten,
           job.cmd = "replace" => ~Saved', OnlyLoose'
    PROVE  KeyInv'
<1>1. BundlesGrow /\ OnlyOut
    BY DEF BundlesGrow, OnlyOut
<1>2. KeysOK'
    BY <1>1, KeysKept DEF KeyInv, Loose
<1>3. FreshNames'
    BY <1>1, FreshKept DEF KeyInv, FreshNames
<1>4. SourceThere' /\ SafetyWritten' /\ ContextSaved'
    BY DEF KeyInv, SourceThere, SafetyWritten, ContextSaved, BundleKey
<1> QED BY <1>2, <1>3, <1>4 DEF KeyInv

\* A step of backup_instance that changes neither .env nor the bundles.
LEMMA BackupMoveKeys ==
    ASSUME TypeInv, KeyInv, UNCHANGED <<bundles, clock, job, rb, env, reg>>, HeldFrom,
           pc' \in Unwritten => pc \in Unwritten,
           job.cmd = "replace" /\ Saved' => Saved, pc' \notin Overwriting
    PROVE  KeyInv'
<1>1. BundlesGrow /\ OnlyOut /\ EnvSafe /\ Out' = Out
    BY DEF BundlesGrow, OnlyOut, EnvSafe, Out
<1>2. KeysOK'
    BY <1>1, KeysKept DEF KeyInv, Loose
<1>3. FreshNames'
    BY <1>1, FreshKept DEF KeyInv, FreshNames
<1>4. SourceThere' /\ SafetyWritten' /\ ContextSaved' /\ OnlyLoose'
    BY <1>1 DEF KeyInv, SourceThere, SafetyWritten, ContextSaved, BundleKey, OnlyLoose
<1> QED BY <1>2, <1>3, <1>4 DEF KeyInv

LEMMA StartKeys ==
    ASSUME clock' # clock, TypeInv, KeyInv, Start
    PROVE  KeyInv'
<1>1. /\ UNCHANGED <<env, reg, ctr, vol, bundles>> /\ BeginCommand
      /\ clock' = clock + 1 /\ clock \in Nat /\ clock' \in Vols /\ rb = None /\ rb' = None
    <2>1. BeginCommand /\ UNCHANGED <<env, reg, ctr, vol, bundles>> /\ rb' = rb
        BY DEF Start, StartBackup, StartRestore, worldVars, storeVars
    <2>2. clock \in Nat
        BY ConstantTypes DEF TypeInv, TypeOK
    <2> QED BY <2>1, <2>2, BeginTypes DEF BeginCommand
<1>2. pc' \in {"b_check", "r_env"} /\ (pc' = "r_env" => reg = None)
    BY DEF Start, StartBackup, StartRestore
<1>3. HeldFrom /\ BundlesGrow /\ EnvSafe
    BY <1>1, <1>2, HeldKept DEF VolCtrFrom, VolKey, CtrKey, Held, EnvSafe
<1>4. KeysOK'
    BY <1>1, <1>3, KeysKept DEF KeyInv, Loose
<1>5. FreshNames'
    <2>1. \A kind \in {"foreign", "backup", "safety"} : bundles[<<kind, clock'>>] = None
        BY <1>1 DEF KeyInv, FreshNames
    <2>2. \A t \in Vols : t > clock' => t > clock
        BY <1>1, ConstantTypes
    <2> QED BY <1>1, <2>1, <2>2 DEF KeyInv, FreshNames, Out
<1>6. job'.src = None \/ \E n \in BundleNames : bundles[n] = job'.src
    <2>1. ASSUME NEW pass, StartBackup(pass) PROVE job'.src = None
        BY <2>1 DEF StartBackup, NoJob
    <2>2. ASSUME NEW n \in BundleNames, NEW secret, NEW replace, NEW port,
                 StartRestore(n, secret, replace, port)
          PROVE  bundles[n] = job'.src
        BY <2>2 DEF StartRestore
    <2> QED BY <2>1, <2>2 DEF Start
<1>7. SourceThere'
    BY <1>1, <1>6 DEF SourceThere
<1> QED BY <1>1, <1>2, <1>4, <1>5, <1>7
        DEF KeyInv, SafetyWritten, Saved, ContextSaved, OnlyLoose, Overwriting, Loose

LEMMA BackupKeys ==
    ASSUME TypeInv, KeyInv, BackupStep
    PROVE  KeyInv'
<1> USE DEF worldVars, fileVars, storeVars, countVars, localVars
<1>0. /\ pc \in BackupSteps /\ rb = None
      /\ clock' = clock /\ reg' = reg /\ env' = env
    BY DEF BackupStep, BCheck, BRecovery, BPs, BStop, BCapture, BWrite, BRecord, BStart, BWait,
           Goto, BackupReturns, BackupSteps, BackupTry, TypeInv, LocalsOK
<1>1. CASE BCheck \/ BRecovery \/ BPs
    <2>1. /\ UNCHANGED <<ctr, vol, bundles, job, rb>>
          /\ pc \in Unwritten /\ pc' \in Unwritten \ {"b_check", "b_write"}
        BY <1>1 DEF BCheck, BRecovery, BPs, Unwritten
    <2>2. HeldFrom
        BY <2>1, HeldKept DEF VolCtrFrom, VolKey, CtrKey, Held
    <2> QED BY <1>0, <2>1, <2>2, BackupMoveKeys DEF Unwritten, Saved, Overwriting
<1>2. CASE BStop
    <2>1. HeldFrom
        BY <1>2, DockerKeys, HeldKept DEF BStop, Goto
    <2> QED BY <1>0, <1>2, <2>1, BackupMoveKeys DEF BStop, Goto, Unwritten, Saved, Overwriting
<1>3. CASE BCapture
    <2>1. bk.rec.vol \in Vols
        BY <1>3 DEF BCapture, TypeInv, TypeOK, LocalsOK, BackupLocals, InstanceRecord,
           BackupSteps, BackupTry
    <2>2. \A k \in Keys : VolKey(k)' => VolKey(k)
        BY <1>3, <2>1, MountedKeys DEF BCapture
    <2>3. bk'.snap = vol'[bk.rec.vol]
        BY <1>3 DEF BCapture, TypeInv, TypeOK, BackupLocals
    <2>4. \A k \in Keys : SnapKey(k)' => VolKey(k)'
        BY <2>1, <2>3 DEF SnapKey, VolKey
    <2>5. \A k \in Keys : (CtrKey(k)' => CtrKey(k)) /\ (DataKey(k)' => DataKey(k))
        BY <1>3 DEF BCapture, CtrKey, DataKey
    <2>6. HeldFrom
        BY <2>2, <2>4, <2>5 DEF HeldFrom, Held
    <2> QED BY <1>0, <1>3, <2>6, BackupMoveKeys DEF BCapture, Unwritten, Saved, Overwriting
<1>4. CASE BWrite
    <2>1. /\ pc = "b_write" /\ pc' = "b_record" /\ env # None /\ UNCHANGED <<ctr, vol, job, rb>>
          /\ bk'.snap = bk.snap
          /\ Out' = Out /\ Out \in BundleNames /\ bundles[Out] = None
          /\ bundles' = [bundles EXCEPT ![Out] = Sealed]
        BY <1>0, <1>4, BackupNamesType, WriteLocals DEF BWrite, Out, KeyInv, FreshNames, Unwritten
    <2>2. bundles'[Out] = Sealed /\ OnlyOut
        BY <2>1 DEF OnlyOut, TypeInv, TypeOK
    <2>3. BundlesGrow
        BY <2>1, <2>2, ConstantTypes DEF BundlesGrow, OnlyOut
    <2>4. Sealed.data = bk.snap /\ Sealed.env = env
        BY DEF Sealed
    <2>5. \A k \in Keys : DataKey(k)' => DataKey(k) \/ SnapKey(k)
        BY <2>1, <2>2, <2>4 DEF DataKey, SnapKey, OnlyOut
    <2>6. \A k \in Keys : ~SnapKey(k)' /\ (VolKey(k)' => VolKey(k)) /\ (CtrKey(k)' => CtrKey(k))
        BY <2>1 DEF SnapKey, VolKey, CtrKey
    <2>7. HeldFrom /\ EnvSafe
        BY <1>0, <2>5, <2>6 DEF HeldFrom, Held, EnvSafe
    <2>8. KeysOK'
        BY <1>0, <2>1, <2>3, <2>7, KeysKept DEF KeyInv, Loose
    <2>9. FreshNames'
        BY <1>0, <2>1, <2>2, FreshKept DEF KeyInv, FreshNames, Unwritten
    <2>10. SourceThere'
        BY <2>1, <2>3 DEF KeyInv, SourceThere, BundlesGrow, TypeInv, TypeOK, Job
    <2>11. SafetyWritten'
        <3>1. Sealed \in Bundle
            BY <2>1, SealedType DEF BackupSteps, BackupTry
        <3> QED BY <1>0, <2>1, <2>2, <2>4, <3>1 DEF SafetyWritten
    <2> QED BY <1>0, <2>1, <2>8, <2>9, <2>10, <2>11
            DEF KeyInv, ContextSaved, OnlyLoose, Overwriting
<1>5. ASSUME BackupReturns, UNCHANGED <<ctr, vol, bundles>>, Saved, pc # "r_context",
             pc \notin Unwritten
      PROVE  KeyInv'
    <2>1. HeldFrom /\ BundlesGrow /\ OnlyOut /\ EnvSafe
        <3>1. VolCtrFrom
            BY <1>5 DEF VolCtrFrom, VolKey, CtrKey, Held
        <3>2. pc' # "b_write"
            BY <1>5 DEF BackupReturns, EndCommand
        <3> QED BY <1>0, <1>5, <3>1, <3>2, HeldKept DEF OnlyOut, EnvSafe
    <2>2. CASE EndCommand("ok")
        BY <1>0, <2>1, <2>2, EndKeys
    <2>3. CASE job.cmd = "replace" /\ pc' = "r_context" /\ UNCHANGED <<localVars, shown, last>>
        BY <1>0, <1>5, <2>1, <2>3, BackupMoveKeys DEF Unwritten, Overwriting
    <2> QED BY <1>5, <2>2, <2>3 DEF BackupReturns
<1>6. CASE BRecord
    <2>1. CASE bk.wasRunning /\ Goto("b_start")
        <3>1. HeldFrom
            BY <1>6, <2>1, HeldKept DEF BRecord, Goto, VolCtrFrom, VolKey, CtrKey, Held
        <3> QED BY <1>0, <1>6, <2>1, <3>1, BackupMoveKeys
                DEF BRecord, Goto, Unwritten, Saved, Overwriting
    <2>2. CASE BackupReturns
        BY <1>5, <1>6, <2>2 DEF BRecord, Saved, Unwritten
    <2> QED BY <1>6, <2>1, <2>2 DEF BRecord
<1>7. CASE BStart
    <2>1. HeldFrom
        BY <1>7, DockerKeys, HeldKept DEF BStart, Goto
    <2> QED BY <1>0, <1>7, <2>1, BackupMoveKeys DEF BStart, Goto, Unwritten, Saved, Overwriting
<1>8. CASE BWait
    <2>1. CASE bk.ok /\ BackupReturns
        BY <1>5, <1>8, <2>1 DEF BWait, Saved, Unwritten
    <2>2. CASE EndCommand("failed")
        <3>1. HeldFrom /\ BundlesGrow /\ OnlyOut /\ EnvSafe
            BY <1>0, <1>8, <2>2, HeldKept
               DEF BWait, EndCommand, VolCtrFrom, VolKey, CtrKey, Held, OnlyOut, EnvSafe
        <3> QED BY <1>0, <2>2, <3>1, EndKeys
    <2> QED BY <1>8, <2>1, <2>2 DEF BWait
<1> QED BY <1>1, <1>2, <1>3, <1>4, <1>6, <1>7, <1>8 DEF BackupStep

\* The key and the data of the bundle being restored are in use or in a bundle.
LEMMA SourceKeys ==
    ASSUME TypeInv, KeyInv, pc \in RestoreSteps
    PROVE  /\ \A k \in Keys : job.src.env.key = k => BundleKey(k)
           /\ \A k \in Keys : job.src.data \in Content /\ job.src.data.key = k => DataKey(k)
<1>1. PICK n \in BundleNames : bundles[n] = job.src
    BY DEF KeyInv, SourceThere, TypeInv, LocalsOK
<1>2. job.src \in Bundle
    BY RestoreFacts
<1> QED BY <1>1, <1>2 DEF BundleKey, DataKey

LEMMA ExtractedKeys ==
    ASSUME TypeInv, KeyInv, pc = "r_untar", NEW new,
           new \in Content => new.key = job.src.data.key \/ new = vol[rvol],
           vol' = [vol EXCEPT ![rvol] = new],
           new \in Content => job.src.data \in Content \/ new = vol[rvol],
           ctr' = ctr
    PROVE  VolCtrFrom
<1>1. rvol \in Vols /\ pc \in RestoreSteps
    BY DEF TypeInv, TypeOK, LocalsOK, Named, RestoreSteps
<1>2. \A k \in Keys : VolKey(k)' => VolKey(k) \/ DataKey(k)
    BY <1>1, SourceKeys DEF VolKey, TypeInv, TypeOK, WorldTypeOK
<1> QED BY <1>2 DEF VolCtrFrom, Held, CtrKey

LEMMA RestoreKeys ==
    ASSUME TypeInv, KeyInv, RestoreStep
    PROVE  KeyInv'
<1> USE DEF worldVars, fileVars, dockerVars, storeVars, countVars, localVars
<1>0. pc \in RestoreSteps /\ UNCHANGED <<bundles, clock>>
    BY DEF RestoreStep, RContext, RDown, REnv, RPort, RCompose, RVolume, RUntar, RUpsert, RUp,
           RWait, Goto, RestoreSteps
<1>1. BundlesGrow /\ OnlyOut
    BY <1>0 DEF BundlesGrow, OnlyOut
<1>2. ASSUME UNCHANGED <<vol, ctr>> PROVE VolCtrFrom
    BY <1>2 DEF VolCtrFrom, VolKey, CtrKey, Held
<1>3. CASE RContext
    <2>1. /\ pc = "r_context" /\ pc' = "r_down" /\ UNCHANGED <<env, reg, vol, ctr, job>>
          /\ rb = None /\ rb'.env = env /\ env # None /\ job.cmd = "replace"
          /\ bundles[Out] \in Bundle /\ bundles[Out].env = env /\ Out \in BundleNames
        BY <1>3, BackupNamesType
           DEF RContext, KeyInv, SafetyWritten, Saved, TypeInv, LocalsOK
    <2>2. \A k \in Keys : EnvKey(k) => BundleKey(k)
        BY <2>1 DEF EnvKey, BundleKey
    <2>3. \A k \in Keys : (BundleKey(k) => BundleKey(k)') /\ (EnvKey(k)' => EnvKey(k))
        BY <1>0, <2>1 DEF BundleKey, EnvKey
    <2>4. HeldFrom
        BY <1>0, <1>2, <2>1, HeldKept
    <2>5. KeysOK'
        BY <2>1, <2>2, <2>3, <2>4 DEF KeyInv, KeysOK, Loose, HeldFrom
    <2>6. FreshNames'
        BY <1>0, <1>1, <2>1, FreshKept DEF KeyInv, FreshNames, Unwritten
    <2>7. ContextSaved'
        BY <2>1, <2>2, <2>3 DEF ContextSaved, EnvKey
    <2> QED BY <1>0, <2>1, <2>5, <2>6, <2>7
            DEF KeyInv, SourceThere, SafetyWritten, Saved, OnlyLoose, Overwriting
<1>4. CASE RDown
    <2>1. HeldFrom
        BY <1>0, <1>4, DockerKeys, HeldKept DEF RDown
    <2>2. Loose'
        BY <1>4 DEF RDown, TypeInv, LocalsOK, Loose
    <2> QED BY <1>0, <1>4, <2>1, <2>2, MoveKeys DEF RDown, EnvSafe, Saved, Unwritten, OnlyLoose
<1>5. CASE REnv \/ RPort
    <2>1. Loose /\ Loose' /\ UNCHANGED <<reg, rb, job, vol, ctr>>
          /\ pc' \in {"r_port", "r_compose"}
        BY <1>5 DEF REnv, RPort, Goto, KeyInv, OnlyLoose, Overwriting, Loose
    <2>2. \A k \in Keys : EnvKey(k)' => BundleKey(k)
        <3>1. CASE REnv
            BY <1>0, <3>1, SourceKeys DEF REnv, EnvKey
        <3>2. CASE RPort
            <4>1. env # None /\ env \in EnvFile
                BY <3>2 DEF RPort, TypeInv, TypeOK, WorldTypeOK, LocalsOK
            <4>2. env'.key = env.key
                BY <3>2, <4>1 DEF RPort, EnvFile
            <4> QED BY <2>1, <4>1, <4>2 DEF EnvKey, KeyInv, KeysOK
        <3> QED BY <1>5, <3>1, <3>2
    <2>3. HeldFrom
        BY <1>0, <1>2, <2>1, HeldKept
    <2> QED BY <1>0, <2>1, <2>2, <2>3, MoveKeys DEF EnvSafe, Saved, Unwritten, OnlyLoose
<1>6. CASE RCompose \/ RVolume \/ RUntar
    <2>1. Loose /\ Loose' /\ UNCHANGED <<reg, rb, job, env>>
          /\ pc' \in {"r_volume", "r_untar", "r_upsert"}
        BY <1>6 DEF RCompose, RVolume, RUntar, Goto, KeyInv, OnlyLoose, Overwriting, Loose
    <2>2. VolCtrFrom
        <3>1. CASE RCompose
            BY <1>2, <3>1 DEF RCompose
        <3>2. CASE RVolume
            BY <3>2, DockerKeys DEF RVolume, TypeInv, TypeOK, LocalsOK, Named
        <3>3. CASE RUntar
            <4> DEFINE new == Extracted(vol[rvol], job.src.data)
            <4>1. job.src.data \in Content \cup {Empty}
                BY <1>0, RestoreFacts
            <4>2. /\ new \in Content => new.key = job.src.data.key \/ new = vol[rvol]
                  /\ new \in Content => job.src.data \in Content \/ new = vol[rvol]
                BY <4>1 DEF Extracted
            <4> QED BY <3>3, <4>2, ExtractedKeys DEF RUntar
        <3> QED BY <1>6, <3>1, <3>2, <3>3
    <2>3. HeldFrom
        BY <1>0, <2>1, <2>2, HeldKept
    <2> QED BY <1>0, <2>1, <2>3, MoveKeys DEF EnvSafe, Saved, Unwritten, OnlyLoose
<1>7. CASE RUpsert
    <2>1. HeldFrom
        BY <1>0, <1>2, <1>7, HeldKept DEF RUpsert, Goto
    <2>2. reg' # None
        BY <1>0, <1>7, ConstantTypes, RestoreStepType, RestoreFacts
           DEF RUpsert, InstanceRecord, Named
    <2> QED BY <1>0, <1>7, <2>1, <2>2, MoveKeys
            DEF RUpsert, Goto, EnvSafe, Saved, Unwritten, OnlyLoose, Overwriting
<1>8. CASE RUp
    <2>1. HeldFrom
        BY <1>0, <1>8, DockerKeys, HeldKept DEF RUp, Goto
    <2> QED BY <1>0, <1>8, <2>1, MoveKeys
            DEF RUp, Goto, EnvSafe, Saved, Unwritten, OnlyLoose, Overwriting
<1>9. CASE RWait
    <2>1. HeldFrom
        BY <1>0, <1>2, <1>9, HeldKept DEF RWait, EndCommand
    <2> QED BY <1>0, <1>1, <1>9, <2>1, EndKeys DEF RWait, EnvSafe
<1> QED BY <1>3, <1>4, <1>5, <1>6, <1>7, <1>8, <1>9 DEF RestoreStep

LEMMA RollbackKeys ==
    ASSUME TypeInv, KeyInv, RollbackStep
    PROVE  KeyInv'
<1> USE DEF worldVars, fileVars, dockerVars, storeVars, countVars, localVars
<1>0. pc \in RollbackSteps /\ UNCHANGED <<bundles, clock>> /\ rb # None /\ Loose
    BY DEF RollbackStep, XDown, XVolume, XCompose, XEnv, XUpsert, XUp, XWait, Goto,
           RollbackSteps, TypeInv, LocalsOK, Loose
<1>1. BundlesGrow /\ OnlyOut
    BY <1>0 DEF BundlesGrow, OnlyOut
<1>2. pc' \in RollbackSteps \cup {"idle"}
    BY DEF RollbackStep, XDown, XVolume, XCompose, XEnv, XUpsert, XUp, XWait, Goto, EndCommand,
           RollbackSteps
<1>3. VolCtrFrom
    <2>1. CASE XCompose \/ XEnv \/ XUpsert \/ XWait
        BY <2>1 DEF XCompose, XEnv, XUpsert, XWait, VolCtrFrom, VolKey, CtrKey, Held
    <2>2. CASE XDown \/ XUp
        BY <2>2, DockerKeys DEF XDown, XUp
    <2>3. CASE XVolume
        BY <2>3, DockerKeys DEF XVolume, TypeInv, TypeOK, LocalsOK, Named
    <2> QED BY <2>1, <2>2, <2>3 DEF RollbackStep
<1>4. HeldFrom
    BY <1>0, <1>2, <1>3, HeldKept DEF RollbackSteps
<1>5. EnvSafe
    <2>1. CASE XEnv
        BY <1>0, <2>1 DEF XEnv, EnvSafe, EnvKey, KeyInv, ContextSaved
    <2>2. CASE XDown \/ XVolume \/ XCompose \/ XUpsert \/ XUp \/ XWait
        BY <2>2 DEF XDown, XVolume, XCompose, XUpsert, XUp, XWait, EnvSafe
    <2> QED BY <2>1, <2>2 DEF RollbackStep
<1>6. reg' = None => reg = None
    BY RollbackFacts, ConstantTypes
       DEF RollbackStep, XDown, XVolume, XCompose, XEnv, XUpsert, XUp, XWait, RollbackSteps
<1>7. CASE EndCommand("rolled_back")
    BY <1>0, <1>1, <1>4, <1>5, <1>6, <1>7, EndKeys
<1>8. CASE pc' \in RollbackSteps /\ UNCHANGED <<job, rb>>
    <2>1. OnlyLoose'
        BY <1>0, <1>8 DEF OnlyLoose, Loose
    <2> QED BY <1>0, <1>4, <1>5, <1>6, <1>8, <2>1, MoveKeys DEF RollbackSteps, Unwritten, Saved
<1>9. EndCommand("rolled_back") \/ (pc' \in RollbackSteps /\ UNCHANGED <<job, rb>>)
    BY DEF RollbackStep, XDown, XVolume, XCompose, XEnv, XUpsert, XUp, XWait, Goto, RollbackSteps
<1> QED BY <1>7, <1>8, <1>9

\* What a step that raises or is killed leaves behind it.
LEMMA LeftoverKeys ==
    ASSUME TypeInv, KeyInv, pc # "idle", Leftover
    PROVE  VolCtrFrom /\ EnvSafe /\ reg' = reg /\ OnlyOut /\ BundlesGrow
           /\ (bundles' = bundles \/ pc = "b_write")
           /\ \A k \in Keys : DataKey(k)' => DataKey(k)
<1> USE DEF worldVars, fileVars, dockerVars, storeVars
<1>1. CASE UNCHANGED <<worldVars, storeVars>>
    BY <1>1 DEF VolCtrFrom, VolKey, CtrKey, Held, EnvSafe, OnlyOut, BundlesGrow, DataKey
<1>2. CASE LeavesTornFile
    <2>1. VolCtrFrom /\ reg' = reg
        BY <1>2 DEF LeavesTornFile, VolCtrFrom, VolKey, CtrKey, Held
    <2>2. EnvSafe
        <3>1. CASE env' = Blank
            <4>1. \A k \in Keys : ~EnvKey(k)'
                BY <3>1, ConstantTypes DEF EnvKey, Blank
            <4>2. env' = env \/ pc \in {"r_env", "r_port", "x_env"}
                BY <1>2 DEF LeavesTornFile
            <4> QED BY <4>1, <4>2 DEF EnvSafe, KeyInv, OnlyLoose, Overwriting
        <3> QED BY <1>2, <3>1 DEF LeavesTornFile, EnvSafe
    <2>3. CASE pc = "b_write" /\ bundles' = [bundles EXCEPT ![Out] = Torn]
        <3>1. bundles[Out] = None /\ bundles'[Out] = Torn /\ Out \in BundleNames /\ OnlyOut
            BY <2>3, BackupNamesType
               DEF KeyInv, FreshNames, Unwritten, OnlyOut, TypeInv, TypeOK
        <3>2. BundlesGrow /\ \A k \in Keys : DataKey(k)' => DataKey(k)
            BY <3>1, ConstantTypes DEF BundlesGrow, DataKey, OnlyOut
        <3> QED BY <2>1, <2>2, <2>3, <3>1, <3>2
    <2>4. CASE bundles' = bundles
        BY <2>1, <2>2, <2>4 DEF OnlyOut, BundlesGrow, DataKey
    <2> QED BY <1>2, <2>3, <2>4 DEF LeavesTornFile
<1>3. CASE LeavesDockerEffect
    <2>1. EnvSafe /\ reg' = reg /\ OnlyOut /\ BundlesGrow /\ bundles' = bundles
          /\ \A k \in Keys : DataKey(k)' => DataKey(k)
        BY <1>3 DEF LeavesDockerEffect, EnvSafe, OnlyOut, BundlesGrow, DataKey
    <2>2. VolCtrFrom
        <3>1. CASE pc = "b_capture" /\ VolumeCreate(bk.rec.vol)
            <4>1. bk.rec.vol \in Vols
                BY <3>1 DEF TypeInv, TypeOK, LocalsOK, BackupLocals, InstanceRecord,
                   BackupSteps, BackupTry
            <4> QED BY <3>1, <4>1, DockerKeys
        <3>2. CASE \/ pc = "r_volume" /\ VolumeCreate(rvol)
                   \/ pc = "x_volume" /\ VolumeRemove(rvol)
            <4>1. rvol \in Vols
                BY <3>2 DEF TypeInv, TypeOK, LocalsOK, Named
            <4> QED BY <3>2, <4>1, DockerKeys
        <3>3. CASE /\ pc = "r_untar" /\ job.src.data # Empty
                   /\ vol' = [vol EXCEPT ![rvol] =
                                 [Extracted(@, job.src.data) EXCEPT !.whole = FALSE]]
                   /\ UNCHANGED <<ctr, rev>>
            <4> DEFINE new == [Extracted(vol[rvol], job.src.data) EXCEPT !.whole = FALSE]
            <4>1. job.src.data \in Content
                BY <3>3, RestoreFacts DEF RestoreSteps
            <4>2. new.key = job.src.data.key
                BY <3>3, <4>1 DEF Extracted, Content
            <4>3. vol' = [vol EXCEPT ![rvol] = new]
                BY <3>3
            <4> HIDE DEF new
            <4> QED BY <3>3, <4>1, <4>2, <4>3, ExtractedKeys
        <3>4. CASE \E st \in {"running", "exited"} : ComposeUp(st)
            BY <3>4, DockerKeys
        <3>5. CASE ComposeStop \/ ComposeStart \/ ComposeDown
            BY <3>5, DockerKeys
        <3> QED BY <1>3, <3>1, <3>2, <3>3, <3>4, <3>5 DEF LeavesDockerEffect
    <2> QED BY <2>1, <2>2
<1> QED BY <1>1, <1>2, <1>3 DEF Leftover

LEMMA RaiseKeys ==
    ASSUME TypeInv, KeyInv, Raise
    PROVE  KeyInv'
<1> USE DEF countVars, localVars
<1>0. pc # "idle" /\ clock' = clock /\ Leftover
    BY DEF Raise, BackupTry, BackupSteps, RestoreSteps, RollbackSteps
<1>1. VolCtrFrom /\ EnvSafe /\ reg' = reg /\ OnlyOut /\ BundlesGrow
      /\ (bundles' = bundles \/ pc = "b_write")
      /\ \A k \in Keys : DataKey(k)' => DataKey(k)
    BY <1>0, LeftoverKeys
<1>2. ASSUME pc' # "b_write" PROVE HeldFrom
    BY <1>1, <1>2 DEF HeldFrom, Held, VolCtrFrom, SnapKey
<1>3. CASE /\ pc \in BackupTry /\ bk.wasRunning
           /\ pc' = "b_start"
           /\ bk' = [bk EXCEPT !.ok = FALSE]
           /\ UNCHANGED <<job, rb, rvol, last, broken>>
    <2>1. ~bk'.ok
        BY <1>3 DEF TypeInv, TypeOK, BackupLocals
    <2>2. KeysOK'
        BY <1>1, <1>2, <1>3, KeysKept DEF KeyInv, Loose
    <2>3. FreshNames'
        BY <1>0, <1>1, <1>3, FreshKept DEF KeyInv, FreshNames, Unwritten
    <2>4. SourceThere'
        BY <1>1, <1>3 DEF KeyInv, SourceThere, BundlesGrow, TypeInv, TypeOK, Job
    <2>5. rb' = None
        BY <1>3 DEF TypeInv, LocalsOK, BackupSteps, BackupTry
    <2> QED BY <1>3, <2>1, <2>2, <2>3, <2>4, <2>5
            DEF KeyInv, SafetyWritten, Saved, ContextSaved, OnlyLoose, Overwriting
<1>4. ASSUME NEW res, EndCommand(res) PROVE KeyInv'
    BY <1>0, <1>1, <1>2, <1>4, EndKeys DEF EndCommand
<1>5. CASE /\ pc \in RestoreSteps /\ rb # None
           /\ pc' = FirstRollbackStep
           /\ UNCHANGED <<localVars, last, broken>>
    <2>1. pc' \in {"x_down", "x_compose"} /\ pc # "b_write"
        BY <1>5 DEF FirstRollbackStep, RestoreSteps
    <2>2. OnlyLoose'
        BY <1>5 DEF OnlyLoose, Loose
    <2> QED BY <1>0, <1>1, <1>2, <1>5, <2>1, <2>2, MoveKeys DEF Unwritten, Saved
<1> QED BY <1>3, <1>4, <1>5 DEF Raise

LEMMA AbortKeys ==
    ASSUME TypeInv, KeyInv, Abort
    PROVE  KeyInv'
<1>1. VolCtrFrom /\ EnvSafe /\ reg' = reg /\ OnlyOut /\ BundlesGrow
      /\ \A k \in Keys : DataKey(k)' => DataKey(k)
    BY LeftoverKeys DEF Abort
<1>2. HeldFrom
    BY <1>1 DEF HeldFrom, Held, VolCtrFrom, SnapKey, Abort, EndCommand
<1> QED BY <1>1, <1>2, EndKeys DEF Abort

\* A step of something else, which writes no .env and leaves a row if there is one.
LEMMA WorldKeys ==
    ASSUME TypeInv, KeyInv, VolCtrFrom, env' = env, reg' = None <=> reg = None,
           UNCHANGED <<storeVars, localVars, ghostVars, countVars, pc>>
    PROVE  KeyInv'
<1> USE DEF storeVars, localVars, ghostVars, countVars
<1>1. HeldFrom /\ BundlesGrow /\ EnvSafe
    BY DEF HeldFrom, Held, VolCtrFrom, DataKey, SnapKey, BundlesGrow, EnvSafe
<1>2. KeysOK'
    BY <1>1, KeysKept DEF KeyInv, Loose
<1>3. FreshNames' /\ SourceThere' /\ SafetyWritten' /\ ContextSaved' /\ OnlyLoose'
    BY DEF KeyInv, FreshNames, Out, SourceThere, SafetyWritten, Saved, ContextSaved,
       BundleKey, OnlyLoose, Loose
<1> QED BY <1>2, <1>3 DEF KeyInv

LEMMA KeyStep ==
    ASSUME Start => clock' # clock, TypeInv, KeyInv, [Next]_vars
    PROVE  KeyInv'
<1>2. CASE Environment
    BY <1>2, WorldKeys, N8nKeys DEF Environment
<1>3. CASE UNCHANGED vars
    BY <1>3, WorldKeys, DockerKeys DEF vars, worldVars, dockerVars
<1> QED BY <1>2, <1>3, StartKeys, BackupKeys, RestoreKeys, RollbackKeys, RaiseKeys, AbortKeys
        DEF Next, Step

LEMMA KeysAvailable == TypeInv /\ KeyInv => KeyNeverLost
<1> SUFFICES ASSUME TypeInv, KeyInv, NEW v \in Vols, vol[v] \in Content
             PROVE  KeyAvailable(vol[v].key)
    BY DEF KeyNeverLost
<1>1. vol[v].key \in Keys /\ Held(vol[v].key)
    BY DEF Content, Held, VolKey
<1> QED BY <1>1 DEF KeyInv, KeysOK, KeyAvailable, EnvKey, BundleKey

\* The key of every volume that holds data is in .env or in a bundle, in every
\* reachable state of backup.py:75-517: for any keys, ports, passphrases, number
\* of commands, kills and writes, whichever docker command or file write fails.
\* Assumed: two commands do not begin in the same second, and a registry row is
\* not lost (restore would then overwrite an instance it does not see).
THEOREM KeysSafe ==
    ASSUME SameSecond = FALSE, "adoptable" \notin InitKinds
    PROVE  Spec => []KeyNeverLost
<1>1. Init => TypeInv /\ KeyInv
    BY TypeInit, KeyInit
<1>2. TypeInv /\ KeyInv /\ [Next]_vars => (TypeInv /\ KeyInv)'
    <2> SUFFICES ASSUME TypeInv, KeyInv, [Next]_vars PROVE (TypeInv /\ KeyInv)'
        OBVIOUS
    <2>1. Start => clock' # clock
        <3>1. Start => BeginCommand
            BY DEF Start, StartBackup, StartRestore
        <3>2. clock \in Nat
            BY ConstantTypes DEF TypeInv, TypeOK
        <3> QED BY <3>1, <3>2 DEF BeginCommand
    <2> QED BY <2>1, TypeStep, KeyStep
<1> QED BY <1>1, <1>2, KeysAvailable, PTL DEF Spec

(***************************************************************************)
(* 3. The safety bundle of a replace                                       *)
(*                                                                         *)
(* What the safety bundle holds was written at b_write and is asked for    *)
(* until the replace is over.  Between the two the volume it was read from *)
(* must not be touched: the running command names only the volume of its   *)
(* own second (rvol = clock), every volume it has found is older (Placed), *)
(* and a step changes no older volume (StepKeepsOlder); n8n only adds.     *)
(***************************************************************************)

\* A volume named before this command began, or by its restore.
Dated(v) == v =< clock /\ (pc = "b_check" => v < clock)

\* The volumes the running command found are older than the one it makes.
Placed ==
    /\ reg # None => Dated(reg.vol)
    /\ job.rec # None => job.rec.vol < clock
    /\ bk.rec # None => bk.rec.vol < clock
    /\ rvol # None => rvol = clock
    /\ rb # None => rb.rec = job.rec
    /\ pc = "idle" => rvol = None
    /\ pc = "x_volume" => rvol # rb.rec.vol

\* The bundle written is the one the row will speak of, and would be written so again.
WrittenIsSealed == Saved => bundles[Out] = bk.bundle /\ bk.bundle = Sealed

\* The safety bundle of a replace holds what its backup captured.
SafetyCaptured ==
    rb # None =>
        LET b == bundles[<<"safety", clock>>]
        IN  b \in Bundle /\ b.data = bk.snap /\ b.pass = job.secret /\ b.env = rb.env

\* d is n8n's continuation of the data s.
Continues(d, s) == d \in Content /\ d.key = s.key /\ d.whole = s.whole /\ s.hist \subseteq d.hist

\* The volume captured still holds what was captured, and perhaps more.
CaptureKept ==
    /\ bk.snap \in Content => bk.rec # None /\ Continues(vol[bk.rec.vol], bk.snap)
    /\ pc \in {"idle", "b_check"} => bk.snap = Empty

SafetyInv == Placed /\ WrittenIsSealed /\ SafetyCaptured /\ CaptureKept /\ RowsHaveBundles

-----------------------------------------------------------------------------
(* What the steps do to volumes and bundles.                               *)

KeepsAll == \A v \in Vols : vol[v] # None => vol'[v] = vol[v]
KeepsOlder == \A v \in Vols : v # clock /\ vol[v] # None => vol'[v] = vol[v]
Grows == \A v \in Vols : vol[v] \in Content => Continues(vol'[v], vol[v])

LEMMA DockerKeeps ==
    ASSUME TypeInv
    PROVE  /\ \A st \in {"running", "exited"} : ComposeUp(st) => KeepsAll
           /\ ComposeDown \/ ComposeStop \/ ComposeStart => KeepsAll
           /\ \A v \in Vols : VolumeCreate(v) => KeepsAll
           /\ \A v \in Vols : \A w \in Vols : VolumeRemove(v) /\ w # v => vol'[w] = vol[w]
           /\ UNCHANGED vol => KeepsAll
<1>1. ASSUME NEW v \in Vols, vol' = Mounted(v) PROVE KeepsAll
    BY <1>1 DEF Mounted, KeepsAll, TypeInv, TypeOK, WorldTypeOK
<1>2. ASSUME NEW st \in {"running", "exited"}, ComposeUp(st) PROVE KeepsAll
    BY <1>1, <1>2, CreatedType DEF ComposeUp, TypeInv, TypeOK
<1>3. ComposeDown \/ ComposeStop \/ ComposeStart \/ UNCHANGED vol => KeepsAll
    BY DEF ComposeDown, ComposeStop, ComposeStart, KeepsAll
<1>4. ASSUME NEW v \in Vols, NEW w \in Vols, VolumeRemove(v), w # v PROVE vol'[w] = vol[w]
    BY <1>4 DEF VolumeRemove, TypeInv, TypeOK, WorldTypeOK
<1> QED BY <1>1, <1>2, <1>3, <1>4 DEF VolumeCreate

LEMMA N8nGrows ==
    ASSUME TypeInv, N8nStep
    PROVE  Grows
<1>1. ctr # None => ctr.vol \in Vols
    BY DEF TypeInv, TypeOK, WorldTypeOK, Container
<1>2. CASE N8nBoots
    BY <1>1, <1>2, ConstantTypes
       DEF N8nBoots, ContainerIsRunning, Grows, Continues, TypeInv, TypeOK, WorldTypeOK
<1>3. CASE N8nWrites
    <2>1. /\ ctr # None /\ vol[ctr.vol] \in Content
          /\ vol' = [vol EXCEPT ![ctr.vol] =
                        [vol[ctr.vol] EXCEPT !.hist = @ \cup {rev + 1}]]
        BY <1>3 DEF N8nWrites, Serving, ContainerIsRunning
    <2>2. rev + 1 \in Revs
        BY <1>3, WorldAssumption DEF N8nWrites, Revs, TypeInv, TypeOK, WorldTypeOK
    <2>3. Continues([vol[ctr.vol] EXCEPT !.hist = @ \cup {rev + 1}], vol[ctr.vol])
        BY <2>1, <2>2 DEF Content, Continues
    <2>4. \A v \in Vols : v # ctr.vol => vol'[v] = vol[v]
        BY <2>1 DEF TypeInv, TypeOK, WorldTypeOK
    <2>5. vol'[ctr.vol] = [vol[ctr.vol] EXCEPT !.hist = @ \cup {rev + 1}]
        BY <1>1, <2>1 DEF TypeInv, TypeOK, WorldTypeOK
    <2>6. \A v \in Vols : vol[v] \in Content => Continues(vol[v], vol[v])
        BY DEF Continues
    <2> QED BY <2>3, <2>4, <2>5, <2>6 DEF Grows
<1>4. CASE N8nExits \/ DaemonRestarts
    BY <1>4 DEF N8nExits, DaemonRestarts, Grows, Continues
<1> QED BY <1>2, <1>3, <1>4 DEF N8nStep

\* A command changes only the volume of its own second.
LEMMA LeftoverKeepsOlder ==
    ASSUME TypeInv, Placed, pc # "idle", Leftover
    PROVE  KeepsOlder
<1> USE DEF worldVars, dockerVars
<1>1. rvol \in Vols \cup {None} /\ (rvol # None => rvol = clock)
    BY DEF TypeInv, TypeOK, Placed
<1>2. CASE UNCHANGED vol
    BY <1>2 DEF KeepsOlder
<1>3. CASE LeavesDockerEffect
    <2>1. CASE pc = "b_capture" /\ VolumeCreate(bk.rec.vol)
        <3>1. bk.rec.vol \in Vols
            BY <2>1 DEF TypeInv, TypeOK, LocalsOK, BackupLocals, InstanceRecord,
               BackupSteps, BackupTry
        <3> QED BY <2>1, <3>1, DockerKeeps DEF KeepsAll, KeepsOlder
    <2>2. CASE pc \in Named /\ (VolumeCreate(rvol) \/ VolumeRemove(rvol))
        <3>1. rvol \in Vols /\ rvol = clock
            BY <1>1, <2>2 DEF TypeInv, LocalsOK
        <3> QED BY <2>2, <3>1, DockerKeeps DEF KeepsAll, KeepsOlder
    <2>3. CASE pc \in Named /\ \E d : vol' = [vol EXCEPT ![rvol] = d]
        <3>1. rvol \in Vols /\ rvol = clock
            BY <1>1, <2>3 DEF TypeInv, LocalsOK
        <3> QED BY <2>3, <3>1 DEF KeepsOlder, TypeInv, TypeOK, WorldTypeOK
    <2>4. CASE \E st \in {"running", "exited"} : ComposeUp(st)
        BY <2>4, DockerKeeps DEF KeepsAll, KeepsOlder
    <2>5. CASE ComposeStop \/ ComposeStart \/ ComposeDown
        BY <2>5, DockerKeeps DEF KeepsAll, KeepsOlder
    <2> QED BY <1>3, <2>1, <2>2, <2>3, <2>4, <2>5 DEF LeavesDockerEffect, Named
<1> QED BY <1>2, <1>3 DEF Leftover, LeavesTornFile

LEMMA StepKeepsOlder ==
    ASSUME TypeInv, Placed, Start \/ Step \/ Abort
    PROVE  KeepsOlder
<1> USE DEF worldVars, dockerVars
<1>1. rvol \in Vols \cup {None} /\ (rvol # None => rvol = clock)
    BY DEF TypeInv, TypeOK, Placed
<1>2. CASE UNCHANGED vol
    BY <1>2 DEF KeepsOlder
<1>3. CASE BackupStep
    <2>1. CASE BCapture
        <3>1. bk.rec.vol \in Vols
            BY <2>1 DEF BCapture, TypeInv, TypeOK, LocalsOK, BackupLocals, InstanceRecord,
               BackupSteps, BackupTry
        <3> QED BY <2>1, <3>1 DEF BCapture, Mounted, KeepsOlder, TypeInv, TypeOK, WorldTypeOK
    <2>2. CASE BStop \/ BStart
        BY <2>2, DockerKeeps DEF BStop, BStart, KeepsAll, KeepsOlder
    <2> QED BY <1>2, <1>3, <2>1, <2>2 DEF BackupStep, BCheck, BRecovery, BPs, BWrite, BRecord, BWait
<1>4. CASE RestoreStep
    <2>1. CASE RVolume \/ RUntar
        <3>1. rvol \in Vols /\ rvol = clock
            BY <1>1, <2>1 DEF RVolume, RUntar, TypeInv, LocalsOK, Named
        <3>2. CASE RVolume
            BY <3>1, <3>2, DockerKeeps DEF RVolume, KeepsAll, KeepsOlder
        <3>3. CASE RUntar
            BY <3>1, <3>3 DEF RUntar, KeepsOlder, TypeInv, TypeOK, WorldTypeOK
        <3> QED BY <2>1, <3>2, <3>3
    <2>2. CASE RDown \/ RUp
        BY <2>2, DockerKeeps DEF RDown, RUp, KeepsAll, KeepsOlder
    <2> QED BY <1>2, <1>4, <2>1, <2>2
            DEF RestoreStep, RContext, REnv, RPort, RCompose, RUpsert, RWait
<1>5. CASE RollbackStep
    <2>1. CASE XVolume
        <3>1. rvol \in Vols /\ rvol = clock
            BY <1>1, <2>1 DEF XVolume, TypeInv, LocalsOK, Named
        <3> QED BY <2>1, <3>1, DockerKeeps DEF XVolume, KeepsOlder
    <2>2. CASE XDown \/ XUp
        BY <2>2, DockerKeeps DEF XDown, XUp, KeepsAll, KeepsOlder
    <2> QED BY <1>2, <1>5, <2>1, <2>2 DEF RollbackStep, XCompose, XEnv, XUpsert, XWait
<1>6. CASE Raise \/ Abort
    BY <1>6, LeftoverKeepsOlder
       DEF Raise, Abort, BackupTry, BackupSteps, RestoreSteps, RollbackSteps
<1> QED BY <1>2, <1>3, <1>4, <1>5, <1>6 DEF Step, Start, StartBackup, StartRestore
-----------------------------------------------------------------------------
(* Each part of SafetyInv is kept.                                         *)

LEMMA PlacedTypes ==
    ASSUME TypeInv
    PROVE  /\ clock \in Nat
           /\ reg # None => reg \in InstanceRecord /\ reg.vol \in Nat
           /\ job.rec # None => job.rec.vol \in Nat
           /\ bk.rec # None => bk.rec.vol \in Nat
           /\ rb # None => rb \in Context /\ rb.rec \in InstanceRecord /\ job.rec # None
BY ConstantTypes
   DEF TypeInv, TypeOK, WorldTypeOK, LocalsOK, InstanceRecord, Job, BackupLocals, Context

LEMMA EndPlaced ==
    ASSUME TypeInv, NEW res, EndCommand(res), clock' = clock,
           reg' # None => reg'.vol =< clock
    PROVE  Placed'
BY DEF EndCommand, NoJob, NoBk, Placed, Dated

LEMMA StartPlaced ==
    ASSUME clock' # clock, TypeInv, Placed, Start
    PROVE  Placed'
<1>1. /\ UNCHANGED <<reg, bk, rb>> /\ rb = None /\ rvol = None
      /\ clock' = clock + 1 /\ pc' # "idle" /\ pc' # "x_volume"
    BY DEF Start, StartBackup, StartRestore, BeginCommand, worldVars, TypeInv, LocalsOK, Placed
<1>2. rvol' = None \/ rvol' = clock'
    BY <1>1 DEF Start, StartBackup, StartRestore
<1>3. job'.rec = None \/ job'.rec = reg
    <2>1. ASSUME NEW pass, StartBackup(pass) PROVE job'.rec = None
        BY <2>1 DEF StartBackup, NoJob
    <2>2. ASSUME NEW name, NEW secret, NEW replace, NEW port,
                 StartRestore(name, secret, replace, port)
          PROVE  job'.rec = reg
        BY <2>2 DEF StartRestore
    <2> QED BY <2>1, <2>2 DEF Start
<1> QED BY <1>1, <1>2, <1>3, PlacedTypes DEF Placed, Dated

LEMMA BackupPlaced ==
    ASSUME TypeInv, Placed, BackupStep
    PROVE  Placed'
<1> USE DEF worldVars, fileVars, countVars, localVars
<1>1. pc \in BackupSteps /\ UNCHANGED <<reg, clock>> /\ rb = None
    BY DEF BackupStep, BCheck, BRecovery, BPs, BStop, BCapture, BWrite, BRecord, BStart, BWait,
           Goto, BackupReturns, BackupSteps, BackupTry, TypeInv, LocalsOK
<1>2. CASE \E res : EndCommand(res)
    BY <1>1, <1>2, EndPlaced DEF Placed, Dated
<1>3. CASE UNCHANGED <<job, rvol, rb>> /\ pc' \notin {"idle", "b_check", "x_volume"}
    <2>1. bk'.rec = bk.rec \/ (pc = "b_check" /\ reg # None /\ bk'.rec = reg)
        BY <1>3 DEF BackupStep, BCheck, BRecovery, BPs, BStop, BCapture, BWrite, BRecord, BStart,
           BWait, Goto, BackupReturns, EndCommand, TypeInv, TypeOK, BackupLocals
    <2> QED BY <1>1, <1>3, <2>1 DEF Placed, Dated
<1>4. \/ \E res : EndCommand(res)
      \/ UNCHANGED <<job, rvol, rb>> /\ pc' \notin {"idle", "b_check", "x_volume"}
    BY DEF BackupStep, BCheck, BRecovery, BPs, BStop, BCapture, BWrite, BRecord, BStart, BWait,
           Goto, BackupReturns
<1> QED BY <1>2, <1>3, <1>4

LEMMA RestorePlaced ==
    ASSUME TypeInv, Placed, RestoreStep
    PROVE  Placed'
<1> USE DEF worldVars, fileVars, countVars, localVars
<1>1. CASE RContext
    BY <1>1, PlacedTypes, ConstantTypes DEF RContext, Placed, Dated
<1>2. CASE RDown
    BY <1>2, PlacedTypes, ConstantTypes DEF RDown, Placed, Dated
<1>3. CASE REnv \/ RPort \/ RCompose \/ RVolume \/ RUntar \/ RUp
    BY <1>3 DEF REnv, RPort, RCompose, RVolume, RUntar, RUp, Goto, Placed, Dated
<1>4. CASE RUpsert
    <2>1. reg'.vol = clock
        BY <1>4 DEF RUpsert, Placed, TypeInv, LocalsOK, Named
    <2> QED BY <1>4, <2>1, PlacedTypes DEF RUpsert, Goto, Placed, Dated
<1>5. CASE RWait
    BY <1>5, EndPlaced DEF RWait, Placed, Dated
<1> QED BY <1>1, <1>2, <1>3, <1>4, <1>5 DEF RestoreStep

LEMMA RollbackPlaced ==
    ASSUME TypeInv, Placed, RollbackStep
    PROVE  Placed'
<1> USE DEF worldVars, fileVars, countVars, localVars
<1>1. CASE XDown \/ XVolume \/ XCompose \/ XEnv \/ XUp
    BY <1>1 DEF XDown, XVolume, XCompose, XEnv, XUp, Goto, Placed, Dated
<1>2. CASE XUpsert
    <2>1. rb # None
        BY <1>2 DEF XUpsert, TypeInv, LocalsOK, RollbackSteps
    <2>2. reg' = rb.rec /\ rb.rec.vol \in Nat /\ rb.rec.vol < clock /\ clock' = clock
        BY <1>2, <2>1, PlacedTypes DEF XUpsert, Goto, Placed
    <2>3. reg'.vol =< clock
        BY <2>2, PlacedTypes
    <2>4. CASE Goto("x_up")
        BY <2>2, <2>3, <2>4 DEF Goto, Placed, Dated
    <2> QED BY <1>2, <2>2, <2>3, <2>4, EndPlaced DEF XUpsert
<1>3. CASE XWait
    BY <1>3, EndPlaced DEF XWait, Placed, Dated
<1> QED BY <1>1, <1>2, <1>3 DEF RollbackStep

LEMMA RaisePlaced ==
    ASSUME TypeInv, Placed, Raise \/ Abort
    PROVE  Placed'
<1> USE DEF worldVars, fileVars, countVars, localVars
<1>1. reg' = reg /\ clock' = clock
    BY DEF Raise, Abort, Leftover, LeavesTornFile, LeavesDockerEffect
<1>2. CASE \E res : EndCommand(res)
    BY <1>1, <1>2, EndPlaced DEF Placed, Dated
<1>3. CASE UNCHANGED <<job, rvol, rb>> /\ bk'.rec = bk.rec
           /\ pc' \notin {"idle", "b_check", "x_volume"}
    BY <1>1, <1>3 DEF Placed, Dated
<1>4. [bk EXCEPT !.ok = FALSE].rec = bk.rec
    BY DEF TypeInv, TypeOK, BackupLocals
<1> QED BY <1>2, <1>3, <1>4 DEF Raise, Abort, FirstRollbackStep

LEMMA PlacedKept ==
    ASSUME Start => clock' # clock, TypeInv, Placed, [Next]_vars
    PROVE  Placed'
<1>1. CASE Environment \/ UNCHANGED vars
    BY <1>1 DEF Environment, N8nStep, N8nBoots, N8nWrites, N8nExits, DaemonRestarts, vars,
       worldVars, fileVars, localVars, countVars, Placed, Dated
<1> QED BY <1>1, StartPlaced, BackupPlaced, RestorePlaced, RollbackPlaced, RaisePlaced
        DEF Next, Step

-----------------------------------------------------------------------------

\* Bundles are only added, and only under the name of the running backup.
LEMMA BundlesKept ==
    ASSUME TypeInv, KeyInv, [Next]_vars
    PROVE  BundlesGrow /\ OnlyOut
<1> USE DEF worldVars, fileVars, storeVars
<1>1. CASE bundles' = bundles
    BY <1>1 DEF BundlesGrow, OnlyOut
<1>2. CASE BWrite
    <2>1. bundles[Out] = None /\ Out \in BundleNames /\ OnlyOut
        BY <1>2, BackupNamesType DEF BWrite, KeyInv, FreshNames, Unwritten, OnlyOut, TypeInv, TypeOK
    <2>2. BundlesGrow
        BY <2>1, ConstantTypes DEF BundlesGrow, OnlyOut
    <2> QED BY <1>2, <2>1, <2>2 DEF BWrite
<1>3. CASE Raise \/ Abort
    BY <1>3, LeftoverKeys DEF Raise, Abort, BackupTry, BackupSteps, RestoreSteps, RollbackSteps
<1>4. bundles' = bundles \/ BWrite \/ Raise \/ Abort
    BY DEF Next, Start, Step, BackupStep, RestoreStep, RollbackStep, StartBackup, StartRestore,
           BCheck, BRecovery, BPs, BStop, BCapture, BRecord, BStart, BWait, RContext, RDown, REnv,
           RPort, RCompose, RVolume, RUntar, RUpsert, RUp, RWait, XDown, XVolume, XCompose, XEnv,
           XUpsert, XUp, XWait, Environment, vars
<1> QED BY <1>1, <1>2, <1>3, <1>4

\* Only BRecord adds a row, and it names the bundle that was just written.
LEMMA RowsKept ==
    ASSUME TypeInv, KeyInv, SafetyInv, [Next]_vars
    PROVE  RowsHaveBundles'
<1> USE DEF worldVars, fileVars, storeVars
<1>1. \A r \in rows : bundles'[r.loc] = r.sum
    <2> SUFFICES ASSUME NEW r \in rows PROVE bundles'[r.loc] = r.sum
        OBVIOUS
    <2>1. r.loc \in BundleNames /\ r.sum \in Bundle
        BY DEF TypeInv, TypeOK, Row
    <2> QED BY <2>1, BundlesKept DEF BundlesGrow, SafetyInv, RowsHaveBundles
<1>2. CASE rows' = rows
    BY <1>1, <1>2 DEF RowsHaveBundles
<1>3. CASE BRecord
    <2>1. bundles'[Out] = bk.bundle
        BY <1>3 DEF BRecord, SafetyInv, WrittenIsSealed, Saved
    <2>2. rows' = rows \cup {[loc |-> Out, sum |-> bk.bundle]}
        BY <1>3 DEF BRecord
    <2> QED BY <1>1, <2>1, <2>2 DEF RowsHaveBundles
<1>4. rows' = rows \/ BRecord
    BY DEF Next, Start, Step, BackupStep, RestoreStep, RollbackStep, StartBackup, StartRestore,
           BCheck, BRecovery, BPs, BStop, BCapture, BWrite, BStart, BWait, RContext, RDown, REnv,
           RPort, RCompose, RVolume, RUntar, RUpsert, RUp, RWait, XDown, XVolume, XCompose, XEnv,
           XUpsert, XUp, XWait, Environment, vars, Raise, Abort, Leftover, LeavesTornFile,
           LeavesDockerEffect
<1> QED BY <1>2, <1>3, <1>4

LEMMA WrittenKept ==
    ASSUME TypeInv, SafetyInv, [Next]_vars
    PROVE  WrittenIsSealed'
<1> USE DEF worldVars, fileVars, storeVars, countVars, localVars
<1>1. CASE BWrite
    <2>1. bundles'[Out] = Sealed /\ Out' = Out /\ Sealed' = Sealed /\ bk'.bundle = Sealed
        BY <1>1, BackupNamesType, WriteLocals DEF BWrite, Out, Sealed, TypeInv, TypeOK
    <2> QED BY <2>1 DEF WrittenIsSealed
<1>2. CASE Saved /\ UNCHANGED <<bundles, env, bk, job, clock>>
    BY <1>2 DEF SafetyInv, WrittenIsSealed, Out, Sealed
<1>3. Saved' => BWrite \/ (Saved /\ UNCHANGED <<bundles, env, bk, job, clock>>)
    <2>1. CASE Start
        BY <2>1 DEF Start, StartBackup, StartRestore, Saved
    <2>2. CASE BackupStep
        <3>1. CASE BCheck \/ BRecovery \/ BPs \/ BStop \/ BCapture
            BY <3>1 DEF BCheck, BRecovery, BPs, BStop, BCapture, Goto, Saved
        <3>2. CASE BRecord \/ BStart
            BY <3>2 DEF BRecord, BStart, Goto, BackupReturns, EndCommand, Saved
        <3>3. CASE BWait
            BY <3>3 DEF BWait, BackupReturns, EndCommand, Saved
        <3> QED BY <2>2, <3>1, <3>2, <3>3 DEF BackupStep
    <2>3. CASE RestoreStep
        BY <2>3 DEF RestoreStep, RContext, RDown, REnv, RPort, RCompose, RVolume, RUntar, RUpsert,
           RUp, RWait, Goto, EndCommand, Saved
    <2>4. CASE RollbackStep
        BY <2>4 DEF RollbackStep, XDown, XVolume, XCompose, XEnv, XUpsert, XUp, XWait, Goto,
           EndCommand, Saved
    <2>5. CASE Raise \/ Abort
        <3>1. ~[bk EXCEPT !.ok = FALSE].ok
            BY DEF TypeInv, TypeOK, BackupLocals
        <3> QED BY <2>5, <3>1 DEF Raise, Abort, EndCommand, FirstRollbackStep, Saved
    <2>6. CASE Environment \/ UNCHANGED vars
        BY <2>6 DEF Environment, N8nStep, N8nBoots, N8nWrites, N8nExits, DaemonRestarts, vars,
           Saved
    <2> QED BY <2>1, <2>2, <2>3, <2>4, <2>5, <2>6 DEF Next, Step
<1> QED BY <1>1, <1>2, <1>3 DEF WrittenIsSealed

\* The rollback context is made once, when the safety bundle has been written.
LEMMA ContextMade ==
    ASSUME TypeInv, [Next]_vars, rb' # None
    PROVE  RContext \/ UNCHANGED <<rb, bk, job, clock>>
<1> USE DEF localVars, countVars
<1>1. CASE Start
    BY <1>1 DEF Start, StartBackup, StartRestore, BeginCommand, TypeInv, LocalsOK
<1>2. CASE BackupStep
    BY <1>2 DEF BackupStep, BCheck, BRecovery, BPs, BStop, BCapture, BWrite, BRecord, BStart,
       BWait, Goto, BackupReturns, EndCommand, BackupSteps, BackupTry, TypeInv, LocalsOK
<1>3. CASE RestoreStep
    BY <1>3 DEF RestoreStep, RDown, REnv, RPort, RCompose, RVolume, RUntar, RUpsert, RUp, RWait,
       Goto, EndCommand
<1>4. CASE RollbackStep
    BY <1>4 DEF RollbackStep, XDown, XVolume, XCompose, XEnv, XUpsert, XUp, XWait, Goto, EndCommand
<1>5. CASE Raise \/ Abort
    BY <1>5 DEF Raise, Abort, EndCommand, BackupSteps, BackupTry, TypeInv, LocalsOK
<1>6. CASE Environment \/ UNCHANGED vars
    BY <1>6 DEF Environment, vars
<1> QED BY <1>1, <1>2, <1>3, <1>4, <1>5, <1>6 DEF Next, Step

LEMMA CapturedKept ==
    ASSUME TypeInv, KeyInv, SafetyInv, [Next]_vars
    PROVE  SafetyCaptured'
<1> SUFFICES ASSUME rb' # None PROVE SafetyCaptured'
    BY DEF SafetyCaptured
<1>1. CASE RContext
    <2>1. /\ bundles' = bundles /\ clock' = clock /\ job' = job /\ bk' = bk /\ rb'.env = env
          /\ job.cmd = "replace"
        BY <1>1 DEF RContext, storeVars, countVars, TypeInv, LocalsOK
    <2>2. bundles[Out] = Sealed /\ bundles[Out] \in Bundle /\ Out = <<"safety", clock>>
        BY <1>1, <2>1
           DEF RContext, SafetyInv, WrittenIsSealed, KeyInv, SafetyWritten, Saved, Out
    <2> QED BY <2>1, <2>2 DEF SafetyCaptured, Sealed
<1>2. CASE UNCHANGED <<rb, bk, job, clock>>
    <2>1. <<"safety", clock>> \in BundleNames
        BY DEF TypeInv, TypeOK, BundleNames
    <2> QED BY <1>2, <2>1, BundlesKept DEF SafetyInv, SafetyCaptured, BundlesGrow
<1> QED BY <1>1, <1>2, ContextMade

LEMMA CaptureStays ==
    ASSUME TypeInv, SafetyInv, KeepsOlder \/ Grows, bk'.snap = bk.snap,
           bk.snap \in Content => bk'.rec = bk.rec,
           pc' \in {"idle", "b_check"} => bk.snap = Empty
    PROVE  CaptureKept'
<1>1. CASE bk.snap \in Content
    <2>1. bk.rec # None /\ bk.rec.vol \in Vols /\ bk.rec.vol < clock /\ clock \in Nat
          /\ Continues(vol[bk.rec.vol], bk.snap)
        BY <1>1, PlacedTypes
           DEF SafetyInv, CaptureKept, Placed, TypeInv, TypeOK, BackupLocals, InstanceRecord
    <2>2. vol[bk.rec.vol] \in Content /\ vol[bk.rec.vol] # None
        BY <2>1, ConstantTypes DEF Continues
    <2>3. Continues(vol'[bk.rec.vol], bk.snap)
        <3>1. CASE KeepsOlder
            BY <2>1, <2>2, <3>1 DEF KeepsOlder
        <3>2. CASE Grows
            BY <2>1, <2>2, <3>2 DEF Grows, Continues
        <3> QED BY <3>1, <3>2
    <2> QED BY <1>1, <2>1, <2>3, ConstantTypes DEF CaptureKept
<1>2. CASE bk.snap \notin Content
    BY <1>2 DEF CaptureKept
<1> QED BY <1>1, <1>2

LEMMA CaptureKeptKept ==
    ASSUME TypeInv, SafetyInv, [Next]_vars
    PROVE  CaptureKept'
<1> USE DEF localVars
<1>1. CASE \E res : EndCommand(res)
    BY <1>1, ConstantTypes DEF EndCommand, NoBk, CaptureKept
<1>2. CASE BCapture
    <2>1. /\ bk.rec # None /\ bk.rec.vol \in Vols
          /\ vol' = Mounted(bk.rec.vol) /\ pc' = "b_write"
        BY <1>2 DEF BCapture, TypeInv, TypeOK, LocalsOK, BackupLocals, InstanceRecord,
           BackupSteps, BackupTry
    <2>2. bk'.snap = vol'[bk.rec.vol] /\ bk'.rec = bk.rec
        BY <1>2 DEF BCapture, TypeInv, TypeOK, BackupLocals
    <2> QED BY <2>1, <2>2 DEF CaptureKept, Continues
<1>3. KeepsOlder \/ Grows
    <2>1. CASE UNCHANGED vars
        BY <2>1 DEF vars, worldVars, KeepsOlder
    <2> QED BY <2>1, StepKeepsOlder, N8nGrows DEF Next, Environment, SafetyInv
<1>4. CASE UNCHANGED bk /\ (pc' \in {"idle", "b_check"} => pc = "idle" \/ pc' = pc)
    BY <1>3, <1>4, CaptureStays DEF SafetyInv, CaptureKept
<1>5. CASE BCheck \/ BRecovery \/ BPs
    <2>1. bk'.snap = bk.snap /\ pc' \notin {"idle", "b_check"}
        BY <1>5 DEF BCheck, BRecovery, BPs, TypeInv, TypeOK, BackupLocals
    <2>2. BRecovery \/ BPs => bk'.rec = bk.rec
        BY DEF BRecovery, BPs, TypeInv, TypeOK, BackupLocals
    <2>3. BCheck => bk.snap = Empty
        BY DEF BCheck, SafetyInv, CaptureKept
    <2> QED BY <1>3, <1>5, <2>1, <2>2, <2>3, ConstantTypes, CaptureStays
<1>6. CASE bk' = [bk EXCEPT !.ok = FALSE] /\ pc' = "b_start"
    <2>1. bk'.snap = bk.snap /\ bk'.rec = bk.rec
        BY <1>6 DEF TypeInv, TypeOK, BackupLocals
    <2> QED BY <1>3, <1>6, <2>1, CaptureStays
<1>13. CASE BWrite
    BY <1>3, <1>13, WriteLocals, CaptureStays DEF BWrite
<1>7. CASE Start
    BY <1>4, <1>7 DEF Start, StartBackup, StartRestore, BeginCommand
<1>8. CASE BackupStep
    BY <1>1, <1>2, <1>4, <1>5, <1>8, <1>13
       DEF BackupStep, BStop, BRecord, BStart, BWait, Goto, BackupReturns
<1>9. CASE RestoreStep
    BY <1>1, <1>4, <1>9 DEF RestoreStep, RContext, RDown, REnv, RPort, RCompose, RVolume, RUntar,
       RUpsert, RUp, RWait, Goto
<1>10. CASE RollbackStep
    BY <1>1, <1>4, <1>10
       DEF RollbackStep, XDown, XVolume, XCompose, XEnv, XUpsert, XUp, XWait, Goto
<1>11. CASE Raise \/ Abort
    BY <1>1, <1>4, <1>6, <1>11 DEF Raise, Abort, FirstRollbackStep
<1>12. CASE Environment \/ UNCHANGED vars
    BY <1>4, <1>12 DEF Environment, vars
<1> QED BY <1>7, <1>8, <1>9, <1>10, <1>11, <1>12 DEF Next, Step

LEMMA SafetyKept ==
    ASSUME Start => clock' # clock, TypeInv, KeyInv, SafetyInv, [Next]_vars
    PROVE  SafetyInv'
BY PlacedKept, WrittenKept, CapturedKept, CaptureKeptKept, RowsKept DEF SafetyInv

LEMMA SafetyInit == Init => SafetyInv
<1> SUFFICES ASSUME Init PROVE SafetyInv
    OBVIOUS
<1>1. PICK kind \in InitKinds : InitInstance(kind)
    BY DEF Init
<1>2. reg # None => reg.vol = 0
    BY <1>1 DEF InitInstance
<1> QED BY <1>2, ConstantTypes DEF Init, SafetyInv, Placed, Dated, WrittenIsSealed, Saved,
        SafetyCaptured, CaptureKept, RowsHaveBundles, NoJob, NoBk

-----------------------------------------------------------------------------
(* One registry row from the beginning of a replace to its rollback.       *)

Backing == BackupSteps \cup {"r_context"}
SameRecord ==
    /\ pc \in Backing \ {"b_check"} => bk.rec = reg
    /\ pc \in Backing /\ job.cmd = "replace" => job.rec = reg
    /\ rb # None => rb.rec = bk.rec

LEMMA SameRecordKept ==
    ASSUME TypeInv, Placed, SameRecord, [Next]_vars
    PROVE  SameRecord'
<1> USE DEF worldVars, fileVars, localVars, SameRecord, Backing
<1>1. CASE pc' \notin Backing /\ rb' = None
    BY <1>1
<1>2. CASE UNCHANGED <<pc, reg, bk, job, rb>>
    BY <1>2
<1>3. CASE Start
    <2>1. UNCHANGED <<reg, bk, rb>> /\ rb = None /\ pc' \in {"b_check", "r_env"}
        BY <1>3 DEF Start, StartBackup, StartRestore, BeginCommand, TypeInv, LocalsOK
    <2>2. ASSUME NEW pass, StartBackup(pass) PROVE job'.cmd = "backup"
        BY <2>2 DEF StartBackup, NoJob
    <2>3. ASSUME NEW name, NEW secret, NEW replace, NEW port,
                 StartRestore(name, secret, replace, port)
          PROVE  job'.rec = reg
        BY <2>3 DEF StartRestore
    <2> QED BY <1>3, <2>1, <2>2, <2>3 DEF Start, BackupSteps, BackupTry
<1>4. CASE BackupStep
    <2>1. UNCHANGED <<reg>> /\ rb = None /\ pc \in BackupSteps
        BY <1>4 DEF BackupStep, BCheck, BRecovery, BPs, BStop, BCapture, BWrite, BRecord, BStart,
           BWait, Goto, BackupReturns, BackupSteps, BackupTry, TypeInv, LocalsOK
    <2>2. CASE BCheck \/ BRecovery \/ BPs \/ BCapture
        <3>1. bk'.rec = reg
            BY <2>2 DEF BCheck, BRecovery, BPs, BCapture, TypeInv, TypeOK, BackupLocals,
               BackupSteps, BackupTry
        <3> QED BY <2>1, <2>2, <3>1 DEF BCheck, BRecovery, BPs, BCapture
    <2>4. CASE BWrite
        BY <2>1, <2>4, WriteLocals DEF BWrite
    <2>3. CASE BStop \/ BRecord \/ BStart \/ BWait
        <3>1. CASE EndCommand("ok") \/ EndCommand("failed")
            BY <1>1, <3>1 DEF EndCommand, BackupSteps, BackupTry
        <3>2. CASE UNCHANGED <<bk, job, rb>> /\ pc # "b_check"
            BY <2>1, <3>2
        <3> QED BY <2>3, <3>1, <3>2 DEF BStop, BRecord, BStart, BWait, Goto, BackupReturns
    <2> QED BY <1>4, <2>2, <2>3, <2>4 DEF BackupStep
<1>5. CASE RestoreStep
    <2>1. CASE RContext
        BY <2>1 DEF RContext, TypeInv, LocalsOK, BackupSteps, BackupTry
    <2>2. CASE RDown \/ REnv \/ RPort \/ RCompose \/ RVolume \/ RUntar \/ RUpsert \/ RUp
        BY <2>2 DEF RDown, REnv, RPort, RCompose, RVolume, RUntar, RUpsert, RUp, Goto,
           BackupSteps, BackupTry
    <2>3. CASE RWait
        BY <1>1, <2>3 DEF RWait, EndCommand, BackupSteps, BackupTry
    <2> QED BY <1>5, <2>1, <2>2, <2>3 DEF RestoreStep
<1>6. CASE RollbackStep
    BY <1>6 DEF RollbackStep, XDown, XVolume, XCompose, XEnv, XUpsert, XUp, XWait, Goto,
       EndCommand, BackupSteps, BackupTry
<1>7. CASE Raise \/ Abort
    <2>1. reg' = reg
        BY <1>7 DEF Raise, Abort, Leftover, LeavesTornFile, LeavesDockerEffect
    <2>2. [bk EXCEPT !.ok = FALSE].rec = bk.rec
        BY DEF TypeInv, TypeOK, BackupLocals
    <2> QED BY <1>1, <1>7, <2>1, <2>2 DEF Raise, Abort, EndCommand, FirstRollbackStep,
               BackupSteps, BackupTry, RestoreSteps
<1>8. CASE Environment \/ UNCHANGED vars
    BY <1>2, <1>8 DEF Environment, N8nStep, N8nBoots, N8nWrites, N8nExits, DaemonRestarts, vars
<1> QED BY <1>3, <1>4, <1>5, <1>6, <1>7, <1>8 DEF Next, Step

LEMMA SafetyNetHolds == TypeInv /\ SafetyInv /\ SameRecord => SafetyNet
BY ConstantTypes DEF SafetyInv, SafetyCaptured, CaptureKept, Continues, SameRecord, SafetyNet

\* Without two commands in one second the clock moves with every command.
LEMMA ClockMoves ==
    ASSUME SameSecond = FALSE, TypeInv
    PROVE  Start => clock' # clock
<1>1. Start => BeginCommand
    BY DEF Start, StartBackup, StartRestore
<1>2. clock \in Nat
    BY ConstantTypes DEF TypeInv, TypeOK
<1> QED BY <1>1, <1>2 DEF BeginCommand

\* Whatever fails or is killed, every row of the backups table names a bundle that
\* is there and has the recorded checksum: the row is written after the bundle
\* (backup.py:137-150), and no later command writes under that name (804).
THEOREM RowsName ==
    ASSUME SameSecond = FALSE, "adoptable" \notin InitKinds
    PROVE  Spec => []RowsHaveBundles
<1> DEFINE Inv == TypeInv /\ KeyInv /\ SafetyInv
<1>1. Init => Inv
    BY TypeInit, KeyInit, SafetyInit
<1>2. Inv /\ [Next]_vars => Inv'
    BY ClockMoves, TypeStep, KeyStep, SafetyKept
<1>3. Inv => RowsHaveBundles
    BY DEF SafetyInv
<1> QED BY <1>1, <1>2, <1>3, PTL DEF Spec

\* From `_replace_rollback_context` on (backup.py:230), through the restore and a
\* rollback that may fail, there is a bundle that opens with the secret typed for
\* this command, with the .env the rollback puts back, and its data is still all in
\* the volume the rollback puts back, with what n8n has added since.
THEOREM SafetyNetThere ==
    ASSUME SameSecond = FALSE, "adoptable" \notin InitKinds
    PROVE  Spec => []SafetyNet
<1> DEFINE Inv == TypeInv /\ KeyInv /\ SafetyInv /\ SameRecord
<1>1. Init => Inv
    BY TypeInit, KeyInit, SafetyInit DEF Init, SameRecord, Backing, BackupSteps, BackupTry
<1>2. Inv /\ [Next]_vars => Inv'
    BY ClockMoves, TypeStep, KeyStep, SafetyKept, SameRecordKept DEF SafetyInv
<1>3. Inv => SafetyNet
    BY SafetyNetHolds
<1> QED BY <1>1, <1>2, <1>3, PTL DEF Spec

(***************************************************************************)
(* 4. n8n while and after a backup                                         *)
(*                                                                         *)
(* The status of the container is followed from the `ps` at the beginning  *)
(* of the command to its end (RunsInv).  A container that restarts on its  *)
(* own is neither running nor stopped; see the run crash_loop.             *)
(***************************************************************************)

Unstarted == {"b_check", "b_recovery", "b_ps"}
Quiet == {"b_capture", "b_write", "b_record"}
RunsInv ==
    /\ ctr # None => ctr.st # "restarting"
    /\ pc \in Quiet => ~ContainerIsRunning
    /\ pc = "b_write" => bk.clean /\ bk.snap = vol[bk.rec.vol]
    /\ pc \in Unstarted \cup {"r_context"} => ContainerIsRunning = job.up
    /\ pc \in BackupSteps \ Unstarted => bk.wasRunning = job.up
    /\ pc \in {"b_stop", "b_start", "b_wait"} => bk.wasRunning
    /\ pc \in {"b_stop", "b_wait"} => ContainerIsRunning
    /\ rb # None => rb.up = job.up
    /\ pc \in {"r_down", "x_volume", "x_compose", "x_env", "x_upsert"} /\ ~rb.up =>
          ~ContainerIsRunning
    /\ pc \in {"x_up", "x_wait"} => rb.up
    /\ RunningRestored

LEMMA Statuses ==
    ASSUME TypeInv
    PROVE  /\ ComposeUp("running") => ctr'.st = "running" /\ ctr' # None
           /\ ComposeUp("exited") => ctr'.st = "exited" /\ ctr' # None
           /\ ComposeDown => ctr' = None
           /\ ComposeStop => ~ContainerIsRunning' /\ (ctr' # None => ctr'.st = "exited")
           /\ ComposeStart => ContainerIsRunning' /\ ctr' # None /\ ctr'.st = "running"
           /\ \A v \in Vols : VolumeCreate(v) \/ VolumeRemove(v) => ctr' = ctr
<1>1. ASSUME NEW st \in {"running", "exited"}, ComposeUp(st) PROVE ctr'.st = st /\ ctr' # None
    BY <1>1, CreatedType, ConstantTypes DEF ComposeUp, Created, TypeInv, TypeOK
<1>2. \A st \in {"running", "exited"} : ctr # None => [ctr EXCEPT !.st = st].st = st
                                               /\ [ctr EXCEPT !.st = st] # None
    BY StatusType, ConstantTypes DEF TypeInv, TypeOK, WorldTypeOK, Container
<1> QED BY <1>1, <1>2 DEF ComposeDown, ComposeStop, ComposeStart, VolumeCreate, VolumeRemove,
        ContainerIsRunning

LEMMA N8nStatus ==
    ASSUME CrashLoops = FALSE, RunsInv, N8nStep
    PROVE  ctr' = ctr /\ ContainerIsRunning /\ UNCHANGED fileVars
BY DEF N8nStep, N8nBoots, N8nWrites, N8nExits, DaemonRestarts, RunsInv, ContainerIsRunning

LEMMA LeftoverStatus ==
    ASSUME TypeInv, RunsInv, Leftover, pc # "idle"
    PROVE  /\ ctr' # None => ctr'.st # "restarting"
           /\ \/ ctr' = ctr
              \/ pc = "b_stop"
              \/ pc = "b_start"
              \/ pc \in {"r_down", "x_down"} /\ ctr' = None
              \/ pc \in {"r_up", "x_up"}
<1> USE DEF worldVars, dockerVars
<1>1. CASE ctr' = ctr
    BY <1>1 DEF RunsInv
<1>2. CASE LeavesDockerEffect
    <2>1. CASE pc = "b_capture" /\ VolumeCreate(bk.rec.vol)
        BY <1>1, <2>1 DEF VolumeCreate
    <2>2. CASE VolumeCreate(rvol) \/ VolumeRemove(rvol)
        BY <1>1, <2>2 DEF VolumeCreate, VolumeRemove
    <2> QED BY <1>1, <1>2, <2>1, <2>2, Statuses DEF LeavesDockerEffect
<1> QED BY <1>1, <1>2 DEF Leftover, LeavesTornFile

\* A backup that ends as RunningRestored says leaves n8n as it found it.
LEMMA EndRuns ==
    ASSUME TypeInv, NEW res, EndCommand(res), ctr' # None => ctr'.st # "restarting",
           \/ job.cmd = "backup" /\ res \in {"ok", "failed", "unreachable"}
           \/ res = "rolled_back"
           => ContainerIsRunning' = job.up
    PROVE  RunsInv'
<1>1. /\ last'.cmd = job.cmd /\ last'.res = res /\ last'.up = job.up
      /\ pc' = "idle" /\ rb' = None
    BY DEF EndCommand
<1> QED BY <1>1 DEF RunsInv, RunningRestored, Unstarted, Quiet, BackupSteps, BackupTry

LEMMA StartRuns ==
    ASSUME TypeInv, RunsInv, Start
    PROVE  RunsInv'
<1>1. /\ UNCHANGED <<ctr, bk, rb>> /\ rb = None /\ pc' \in {"b_check", "r_env"}
    BY DEF Start, StartBackup, StartRestore, BeginCommand, worldVars, TypeInv, LocalsOK
<1>2. job'.up = ContainerIsRunning
    <2>1. ASSUME NEW pass, StartBackup(pass) PROVE job'.up = ContainerIsRunning
        BY <2>1 DEF StartBackup, NoJob
    <2>2. ASSUME NEW name, NEW secret, NEW replace, NEW port,
                 StartRestore(name, secret, replace, port)
          PROVE  job'.up = ContainerIsRunning
        BY <2>2 DEF StartRestore
    <2> QED BY <2>1, <2>2 DEF Start
<1> QED BY <1>1, <1>2
        DEF RunsInv, RunningRestored, ContainerIsRunning, Unstarted, Quiet, BackupSteps, BackupTry

LEMMA BackupRuns ==
    ASSUME TypeInv, RunsInv, BackupStep
    PROVE  RunsInv'
<1> USE DEF worldVars, fileVars, storeVars, countVars, localVars, RunsInv, ContainerIsRunning,
            Unstarted, Quiet, BackupSteps, BackupTry, RunningRestored
<1>0. rb = None /\ pc \in BackupSteps
    BY DEF BackupStep, BCheck, BRecovery, BPs, BStop, BCapture, BWrite, BRecord, BStart, BWait,
           TypeInv, LocalsOK
<1>1. CASE BCheck \/ BRecovery
    BY <1>0, <1>1 DEF BCheck, BRecovery
<1>2. CASE BPs
    <2>1. bk'.wasRunning = ContainerIsRunning
        BY <1>2 DEF BPs, TypeInv, TypeOK, BackupLocals
    <2> QED BY <1>0, <1>2, <2>1 DEF BPs
<1>3. CASE BStop
    BY <1>0, <1>3, Statuses DEF BStop, Goto
<1>4. CASE BCapture
    <2>1. /\ bk'.clean = ~(ContainerIsRunning /\ ctr.vol = bk.rec.vol)
          /\ bk'.snap = vol'[bk.rec.vol] /\ bk'.rec = bk.rec /\ bk'.wasRunning = bk.wasRunning
        BY <1>4 DEF BCapture, TypeInv, TypeOK, BackupLocals
    <2> QED BY <1>0, <1>4, <2>1 DEF BCapture
<1>5. CASE BWrite
    BY <1>0, <1>5 DEF BWrite, Goto
<1>6. ASSUME BackupReturns, UNCHANGED ctr, pc \notin Unstarted, ContainerIsRunning = job.up
      PROVE  RunsInv'
    <2>1. CASE EndCommand("ok")
        BY <1>6, <2>1, EndRuns
    <2>2. CASE UNCHANGED localVars /\ pc' = "r_context"
        BY <1>0, <1>6, <2>2
    <2> QED BY <1>6, <2>1, <2>2 DEF BackupReturns
<1>7. CASE BRecord
    <2>1. CASE bk.wasRunning /\ Goto("b_start")
        BY <1>0, <1>7, <2>1 DEF BRecord, Goto
    <2>2. CASE ~bk.wasRunning /\ BackupReturns
        <3>1. ContainerIsRunning = job.up
            BY <1>7, <2>2 DEF BRecord, TypeInv, TypeOK, Job
        <3> QED BY <1>6, <1>7, <2>2, <3>1 DEF BRecord
    <2> QED BY <1>7, <2>1, <2>2 DEF BRecord
<1>8. CASE BStart
    BY <1>0, <1>8, Statuses DEF BStart, Goto
<1>9. CASE BWait
    <2>1. ContainerIsRunning = job.up /\ ctr' = ctr
        BY <1>0, <1>9 DEF BWait, TypeInv, TypeOK, Job, BackupLocals
    <2> QED BY <1>6, <1>9, <2>1, EndRuns DEF BWait
<1> QED BY <1>1, <1>2, <1>3, <1>4, <1>5, <1>7, <1>8, <1>9 DEF BackupStep

LEMMA RestoreRuns ==
    ASSUME TypeInv, RunsInv, RestoreStep
    PROVE  RunsInv'
<1> USE DEF worldVars, fileVars, dockerVars, storeVars, countVars, localVars, RunsInv,
            ContainerIsRunning, Unstarted, Quiet, BackupSteps, BackupTry, RunningRestored
<1>1. CASE RContext
    <2>1. ctr' = ctr /\ rb'.up = ContainerIsRunning /\ job' = job /\ bk' = bk /\ pc' = "r_down"
        BY <1>1 DEF RContext
    <2> QED BY <1>1, <2>1 DEF RContext
<1>2. CASE RDown
    BY <1>2 DEF RDown, ComposeDown
<1>3. CASE REnv \/ RPort \/ RCompose \/ RVolume \/ RUntar \/ RUpsert
    BY <1>3 DEF REnv, RPort, RCompose, RVolume, VolumeCreate, RUntar, RUpsert, Goto
<1>4. CASE RUp
    BY <1>4, Statuses DEF RUp, Goto
<1>5. CASE RWait
    <2>1. job.cmd # "backup"
        BY <1>5 DEF RWait, TypeInv, LocalsOK, RestoreSteps
    <2> QED BY <1>5, <2>1, EndRuns DEF RWait
<1> QED BY <1>1, <1>2, <1>3, <1>4, <1>5 DEF RestoreStep

LEMMA RollbackRuns ==
    ASSUME TypeInv, RunsInv, RollbackStep
    PROVE  RunsInv'
<1> USE DEF worldVars, fileVars, dockerVars, storeVars, countVars, localVars, RunsInv,
            ContainerIsRunning, Unstarted, Quiet, BackupSteps, BackupTry, RunningRestored
<1>0. rb # None /\ rb.up \in BOOLEAN
    BY DEF RollbackStep, XDown, XVolume, XCompose, XEnv, XUpsert, XUp, XWait, TypeInv, TypeOK,
           LocalsOK, RollbackSteps, Context
<1>1. CASE XDown
    BY <1>0, <1>1 DEF XDown, ComposeDown, Goto
<1>2. CASE XVolume \/ XCompose \/ XEnv
    BY <1>0, <1>2 DEF XVolume, VolumeRemove, XCompose, XEnv, Goto
<1>3. CASE XUpsert
    <2>1. CASE rb.up /\ Goto("x_up")
        BY <1>0, <1>3, <2>1 DEF XUpsert, Goto
    <2>2. CASE ~rb.up /\ EndCommand("rolled_back")
        <3>1. ContainerIsRunning' = job.up /\ ctr' = ctr
            BY <1>0, <1>3, <2>2 DEF XUpsert
        <3> QED BY <2>2, <3>1, EndRuns
    <2> QED BY <1>3, <2>1, <2>2 DEF XUpsert
<1>4. CASE XUp
    BY <1>0, <1>4, Statuses DEF XUp, Goto
<1>5. CASE XWait
    <2>1. ContainerIsRunning' = job.up /\ ctr' = ctr
        BY <1>0, <1>5 DEF XWait, Serving
    <2> QED BY <1>5, <2>1, EndRuns DEF XWait
<1> QED BY <1>1, <1>2, <1>3, <1>4, <1>5 DEF RollbackStep

\* A replace begins with a docker-compose.yml, and no step removes it.
HasCompose == rb # None => compose # None

LEMMA ComposeStays ==
    ASSUME TypeInv, HasCompose, [Next]_vars
    PROVE  HasCompose'
<1> USE DEF worldVars, fileVars, storeVars
<1>1. compose' = None => compose = None
    <2>1. CASE RestoreStep
        <3>1. CASE RCompose
            <4>1. [vol |-> rvol, ext |-> TRUE] \in ComposeFile
                BY <3>1 DEF RCompose, ComposeFile, TypeInv, TypeOK, LocalsOK, Named
            <4> QED BY <3>1, <4>1, ConstantTypes DEF RCompose
        <3> QED BY <2>1, <3>1 DEF RestoreStep, RContext, RDown, REnv, RPort, RVolume, RUntar,
                   RUpsert, RUp, RWait
    <2>2. CASE RollbackStep
        <3>1. CASE XCompose
            BY <3>1, RollbackFacts, ConstantTypes DEF XCompose, RollbackSteps
        <3> QED BY <2>2, <3>1 DEF RollbackStep, XDown, XVolume, XEnv, XUpsert, XUp, XWait
    <2>3. CASE Raise \/ Abort
        BY <2>3, ConstantTypes
           DEF Raise, Abort, Leftover, LeavesTornFile, LeavesDockerEffect
    <2>4. CASE Start \/ BackupStep \/ Environment \/ UNCHANGED vars
        BY <2>4 DEF Start, StartBackup, StartRestore, BackupStep, BCheck, BRecovery, BPs, BStop,
           BCapture, BWrite, BRecord, BStart, BWait, Environment, N8nStep, N8nBoots, N8nWrites,
           N8nExits, DaemonRestarts, vars
    <2> QED BY <2>1, <2>2, <2>3, <2>4 DEF Next, Step
<1>2. CASE RContext
    BY <1>2, ConstantTypes DEF RContext, CanCompose, HasCompose
<1>3. CASE rb' = None
    BY <1>3 DEF HasCompose
<1>4. CASE UNCHANGED <<rb, bk, job, clock>>
    BY <1>1, <1>4 DEF HasCompose
<1> QED BY <1>2, <1>3, <1>4, ContextMade

LEMMA RaiseRuns ==
    ASSUME TypeInv, RunsInv, HasCompose, [Next]_vars, Raise \/ Abort
    PROVE  RunsInv'
<1> USE DEF RunsInv, ContainerIsRunning, Unstarted, Quiet, RunningRestored
<1>0. pc # "idle" /\ Leftover
    BY DEF Raise, Abort, BackupTry, BackupSteps, RestoreSteps, RollbackSteps
<1>1. CASE /\ pc \in BackupTry /\ bk.wasRunning /\ pc' = "b_start"
           /\ bk' = [bk EXCEPT !.ok = FALSE]
           /\ UNCHANGED <<job, rb, rvol, last, broken>>
    <2>1. bk'.wasRunning = bk.wasRunning
        BY <1>1 DEF TypeInv, TypeOK, BackupLocals
    <2>2. rb = None
        BY <1>1 DEF TypeInv, LocalsOK, BackupSteps, BackupTry
    <2> QED BY <1>0, <1>1, <2>1, <2>2, LeftoverStatus DEF BackupTry, BackupSteps
<1>2. CASE /\ \/ pc \in BackupSteps /\ ~(pc \in BackupTry /\ bk.wasRunning)
              \/ pc \in RestoreSteps /\ rb = None
           /\ EndCommand(CASE pc = "b_start" -> "not_restarted"
                           [] pc = "b_wait" -> "unreachable"
                           [] OTHER -> "failed")
    <2>1. CASE pc \in RestoreSteps
        <3>1. job.cmd # "backup"
            BY <2>1 DEF TypeInv, LocalsOK
        <3> QED BY <1>0, <1>2, <2>1, <3>1, EndRuns, LeftoverStatus DEF RestoreSteps
    <2>2. CASE pc = "b_start"
        BY <1>0, <1>2, <2>2, EndRuns, LeftoverStatus
    <2>3. CASE pc \in BackupSteps \ {"b_start"} /\ ~(pc \in BackupTry /\ bk.wasRunning)
        <3>1. ctr' = ctr /\ pc # "b_stop"
            BY <1>0, <2>3, LeftoverStatus DEF BackupSteps, BackupTry
        <3>2. ContainerIsRunning' = job.up
            BY <2>3, <3>1 DEF BackupSteps, BackupTry, TypeInv, TypeOK, Job, BackupLocals
        <3> QED BY <1>0, <1>2, <3>1, <3>2, EndRuns
    <2> QED BY <1>2, <2>1, <2>2, <2>3
<1>3. CASE /\ pc \in RestoreSteps /\ rb # None
           /\ pc' = FirstRollbackStep
           /\ UNCHANGED <<localVars, last, broken>>
    <2>1. pc' = "x_down" \/ (pc' = "x_compose" /\ (rvol = None \/ compose' = None))
        BY <1>3 DEF FirstRollbackStep
    <2>2. CASE pc' = "x_down"
        BY <1>0, <1>3, <2>2, LeftoverStatus DEF localVars, BackupSteps, BackupTry
    <2>3. CASE pc' = "x_compose" /\ rvol = None
        <3>1. pc = "r_down"
            BY <1>3, <2>3 DEF RestoreSteps, TypeInv, LocalsOK, Named
        <3> QED BY <1>0, <1>3, <2>3, <3>1, LeftoverStatus DEF localVars, BackupSteps, BackupTry
    <2>4. compose' # None
        BY <1>3, ComposeStays DEF localVars, HasCompose
    <2> QED BY <2>1, <2>2, <2>3, <2>4
<1>4. ASSUME EndCommand("rollback_failed") \/ EndCommand("aborted") PROVE RunsInv'
    BY <1>0, <1>4, EndRuns, LeftoverStatus
<1> QED BY <1>1, <1>2, <1>3, <1>4 DEF Raise, Abort

LEMMA RunsKept ==
    ASSUME CrashLoops = FALSE, TypeInv, HasCompose, RunsInv, [Next]_vars
    PROVE  RunsInv'
<1>1. CASE Environment
    BY <1>1, N8nStatus DEF Environment, RunsInv, RunningRestored, ContainerIsRunning, Quiet,
       localVars, ghostVars
<1>2. CASE UNCHANGED vars
    BY <1>2 DEF vars, worldVars, localVars, ghostVars, RunsInv, RunningRestored,
       ContainerIsRunning
<1> QED BY <1>1, <1>2, StartRuns, BackupRuns, RestoreRuns, RollbackRuns, RaiseRuns DEF Next, Step

LEMMA RunsInit == Init => RunsInv /\ HasCompose
<1> SUFFICES ASSUME Init PROVE RunsInv /\ HasCompose
    OBVIOUS
<1>1. PICK kind \in InitKinds : InitInstance(kind)
    BY DEF Init
<1>2. ctr # None => ctr.st # "restarting"
    BY <1>1 DEF InitInstance
<1> QED BY <1>2 DEF Init, RunsInv, RunningRestored, HasCompose, Quiet, Unstarted, BackupSteps,
        BackupTry

\* Only BWrite makes a bundle, of a volume that no n8n was writing to.
LEMMA QuiescedKept ==
    ASSUME TypeInv, RunsInv, SnapshotQuiesced, [Next]_vars
    PROVE  SnapshotQuiesced'
<1> USE DEF worldVars, fileVars, storeVars
<1>1. CASE bundles' = bundles
    BY <1>1 DEF SnapshotQuiesced
<1>2. CASE BWrite
    BY <1>2 DEF BWrite, RunsInv, Sealed, SnapshotQuiesced, TypeInv, TypeOK
<1>3. CASE bundles' = [bundles EXCEPT ![Out] = Torn]
    BY <1>3, ConstantTypes DEF SnapshotQuiesced, TypeInv, TypeOK
<1>4. bundles' = bundles \/ BWrite \/ bundles' = [bundles EXCEPT ![Out] = Torn]
    BY DEF Next, Start, Step, BackupStep, RestoreStep, RollbackStep, StartBackup, StartRestore,
           BCheck, BRecovery, BPs, BStop, BCapture, BRecord, BStart, BWait, RContext, RDown, REnv,
           RPort, RCompose, RVolume, RUntar, RUpsert, RUp, RWait, XDown, XVolume, XCompose, XEnv,
           XUpsert, XUp, XWait, Environment, vars, Raise, Abort, Leftover, LeavesTornFile,
           LeavesDockerEffect
<1> QED BY <1>1, <1>2, <1>3, <1>4

LEMMA QuiescedInit == Init => SnapshotQuiesced
BY ConstantTypes DEF Init, SnapshotQuiesced, ForeignBundle

\* A backup that ends, also with an error, and a replace that was rolled back, leave
\* n8n running iff it was when the command began: `was_running` of backup.py:111 and
\* of the rollback context stay true until the `start` (154) or `up` (504) they decide.
\* Only a kill or a failed start is excepted.  Assumed: n8n does not exit on its own.
THEOREM LeftAsFound ==
    ASSUME CrashLoops = FALSE
    PROVE  Spec => []RunningRestored
<1> DEFINE Inv == TypeInv /\ RunsInv /\ HasCompose
<1>1. Init => Inv
    BY TypeInit, RunsInit
<1>2. Inv /\ [Next]_vars => Inv'
    BY TypeStep, RunsKept, ComposeStays
<1>3. Inv => RunningRestored
    BY DEF RunsInv
<1> QED BY <1>1, <1>2, <1>3, PTL DEF Spec

\* No bundle was read from a volume that a running n8n might have been writing to,
\* a container started by nobody else (backup.py:111-124).  Assumed: n8n does not
\* exit on its own; a container that restarts is not stopped (775).
THEOREM CapturesAreQuiet ==
    ASSUME CrashLoops = FALSE
    PROVE  Spec => []SnapshotQuiesced
<1> DEFINE Inv == TypeInv /\ RunsInv /\ HasCompose /\ SnapshotQuiesced
<1>1. Init => Inv
    BY TypeInit, RunsInit, QuiescedInit
<1>2. Inv /\ [Next]_vars => Inv'
    BY TypeStep, RunsKept, ComposeStays, QuiescedKept
<1> QED BY <1>1, <1>2, PTL DEF Spec

(***************************************************************************)
(* 5. The four stores agree                                                *)
(*                                                                         *)
(* Agree is broken on purpose while a restore rewrites the files one by    *)
(* one.  The invariant says what each step has put in place already, of    *)
(* the new instance (RestoredFiles, RestoredVolume) and of the one a       *)
(* rollback brings back (AgreeInv), and that the volume a restore creates  *)
(* did not exist before (FreshVolume), so that nothing is mixed in it.     *)
(***************************************************************************)

-----------------------------------------------------------------------------
(* The volume a restore creates did not exist before.                      *)

\* The steps before the restore of the running command has made its volume.
Unmade == BackupSteps \cup
          {"r_context", "r_down", "r_env", "r_port", "r_compose", "r_volume"}

FreshVolume ==
    /\ \A v \in Vols : v > clock => vol[v] = None
    /\ pc \in Unmade => vol[clock] = None
    /\ compose \in ComposeFile => compose.vol =< clock
    /\ rb # None => rb.compose.vol =< clock

\* The volume a step makes.
MayMake(v) ==
    \/ pc = "b_capture" /\ v = bk.rec.vol
    \/ pc \in {"r_up", "x_up"} /\ compose \in ComposeFile /\ v = compose.vol
    \/ pc \in {"r_volume", "r_untar"} /\ pc' \notin Unmade /\ v = rvol
OnlyMakes == \A v \in Vols : vol[v] = None /\ vol'[v] # None => MayMake(v)

LEMMA MountedMakes ==
    ASSUME TypeInv, NEW w \in Vols, vol' = Mounted(w), NEW v \in Vols, vol[v] = None,
           vol'[v] # None
    PROVE  v = w
BY DEF Mounted, TypeInv, TypeOK, WorldTypeOK

LEMMA UpMakes ==
    ASSUME TypeInv, NEW st \in {"running", "exited"}, ComposeUp(st), pc \in {"r_up", "x_up"}
    PROVE  OnlyMakes
<1>1. compose \in ComposeFile /\ compose.vol \in Vols
    BY CreatedType DEF ComposeUp, CanUp, CanCompose, TypeInv, TypeOK
<1> QED BY <1>1, MountedMakes DEF ComposeUp, OnlyMakes, MayMake

LEMMA NamedVolume ==
    ASSUME TypeInv, Placed, pc \in Named
    PROVE  rvol = clock /\ rvol \in Vols
BY DEF TypeInv, TypeOK, LocalsOK, Placed

LEMMA CapturedVolume ==
    ASSUME TypeInv, Placed, pc \in BackupSteps \ {"b_check"}
    PROVE  bk.rec # None /\ bk.rec.vol \in Vols /\ bk.rec.vol < clock
BY DEF TypeInv, TypeOK, LocalsOK, Placed, BackupLocals, InstanceRecord

LEMMA LeftoverMakes ==
    ASSUME TypeInv, Placed, pc # "idle", pc' \notin Unmade \/ pc \in BackupSteps, Leftover
    PROVE  OnlyMakes
<1> USE DEF worldVars, dockerVars
<1>1. CASE vol' = vol
    BY <1>1 DEF OnlyMakes
<1>2. CASE pc = "b_capture" /\ VolumeCreate(bk.rec.vol)
    <2>1. bk.rec.vol \in Vols
        BY <1>2, CapturedVolume DEF BackupSteps, BackupTry
    <2> QED BY <1>2, <2>1, MountedMakes DEF VolumeCreate, OnlyMakes, MayMake
<1>3. CASE pc = "r_volume" /\ VolumeCreate(rvol)
    <2>1. rvol \in Vols
        BY <1>3, NamedVolume DEF Named
    <2> QED BY <1>3, <2>1, MountedMakes DEF VolumeCreate, OnlyMakes, MayMake, BackupSteps, BackupTry
<1>4. CASE pc = "r_untar" /\ \E d : vol' = [vol EXCEPT ![rvol] = d]
    BY <1>4 DEF OnlyMakes, MayMake, TypeInv, TypeOK, WorldTypeOK, BackupSteps, BackupTry
<1>5. CASE pc \in {"r_up", "x_up"} /\ \E st \in {"running", "exited"} : ComposeUp(st)
    BY <1>5, UpMakes
<1>6. CASE pc = "x_volume" /\ VolumeRemove(rvol)
    BY <1>6 DEF VolumeRemove, OnlyMakes, TypeInv, TypeOK, WorldTypeOK
<1>7. CASE ComposeStop \/ ComposeStart \/ ComposeDown
    BY <1>1, <1>7 DEF ComposeStop, ComposeStart, ComposeDown
<1> QED BY <1>1, <1>2, <1>3, <1>4, <1>5, <1>6, <1>7
        DEF Leftover, LeavesTornFile, LeavesDockerEffect

LEMMA StepMakes ==
    ASSUME TypeInv, Placed, [Next]_vars
    PROVE  OnlyMakes
<1> USE DEF worldVars, dockerVars
<1>1. CASE vol' = vol
    BY <1>1 DEF OnlyMakes
<1>2. CASE BackupStep
    <2>1. CASE BCapture
        <3>1. bk.rec.vol \in Vols
            BY <2>1, CapturedVolume DEF BCapture, BackupSteps, BackupTry
        <3> QED BY <2>1, <3>1, MountedMakes DEF BCapture, OnlyMakes, MayMake
    <2> QED BY <1>1, <1>2, <2>1
            DEF BackupStep, BCheck, BRecovery, BPs, BStop, BWrite, BRecord, BStart, BWait,
                ComposeStop, ComposeStart
<1>3. CASE RestoreStep
    <2>1. CASE RVolume
        <3>1. rvol \in Vols
            BY <2>1, NamedVolume DEF RVolume, Named
        <3> QED BY <2>1, <3>1, MountedMakes
                DEF RVolume, VolumeCreate, Goto, OnlyMakes, MayMake, Unmade, BackupSteps, BackupTry
    <2>2. CASE RUntar
        BY <2>2 DEF RUntar, Goto, OnlyMakes, MayMake, Unmade, BackupSteps, BackupTry, TypeInv,
           TypeOK, WorldTypeOK
    <2>3. CASE RUp
        BY <2>3, UpMakes DEF RUp
    <2> QED BY <1>1, <1>3, <2>1, <2>2, <2>3
            DEF RestoreStep, RContext, RDown, ComposeDown, REnv, RPort, RCompose, RUpsert, RWait
<1>4. CASE RollbackStep
    <2>1. CASE XVolume
        BY <2>1 DEF XVolume, VolumeRemove, OnlyMakes, TypeInv, TypeOK, WorldTypeOK
    <2>2. CASE XUp
        BY <2>2, UpMakes DEF XUp
    <2> QED BY <1>1, <1>4, <2>1, <2>2
            DEF RollbackStep, XDown, ComposeDown, XCompose, XEnv, XUpsert, XWait
<1>5. CASE Raise \/ Abort
    <2>1. pc # "idle" /\ Leftover
        BY <1>5 DEF Raise, Abort, BackupTry, BackupSteps, RestoreSteps, RollbackSteps
    <2>2. pc' \notin Unmade \/ pc \in BackupSteps
        BY <1>5 DEF Raise, Abort, EndCommand, FirstRollbackStep, Unmade, BackupSteps, BackupTry
    <2> QED BY <2>1, <2>2, LeftoverMakes
<1>6. CASE Environment
    BY <1>6, ConstantTypes
       DEF Environment, N8nStep, N8nBoots, N8nWrites, N8nExits, DaemonRestarts, Serving,
           OnlyMakes, TypeInv, TypeOK, WorldTypeOK
<1>7. CASE Start \/ UNCHANGED vars
    BY <1>1, <1>7 DEF Start, StartBackup, StartRestore, vars
<1> QED BY <1>2, <1>3, <1>4, <1>5, <1>6, <1>7 DEF Next, Step

\* What a step does to docker-compose.yml.
LEMMA StepComposes ==
    ASSUME TypeInv, [Next]_vars
    PROVE  \/ compose' = compose
           \/ compose' = Torn
           \/ pc = "r_compose" /\ compose' = [vol |-> rvol, ext |-> TRUE]
           \/ pc = "x_compose" /\ compose' = rb.compose
<1> USE DEF worldVars, fileVars
<1>1. CASE BackupStep \/ Start \/ Environment \/ UNCHANGED vars
    BY <1>1 DEF Start, StartBackup, StartRestore, BackupStep, BCheck, BRecovery, BPs, BStop,
       BCapture, BWrite, BRecord, BStart, BWait, Environment, N8nStep, N8nBoots, N8nWrites,
       N8nExits, DaemonRestarts, vars
<1>2. CASE RestoreStep
    BY <1>2 DEF RestoreStep, RContext, RDown, REnv, RPort, RCompose, RVolume, RUntar, RUpsert,
       RUp, RWait
<1>3. CASE RollbackStep
    BY <1>3 DEF RollbackStep, XDown, XVolume, XCompose, XEnv, XUpsert, XUp, XWait
<1>4. CASE Raise \/ Abort
    BY <1>4 DEF Raise, Abort, Leftover, LeavesTornFile, LeavesDockerEffect
<1> QED BY <1>1, <1>2, <1>3, <1>4 DEF Next, Step

LEMMA StillUnmade ==
    ASSUME TypeInv, [Next]_vars, pc' \in Unmade
    PROVE  Start \/ (clock' = clock /\ pc \in Unmade)
<1> USE DEF Unmade, BackupSteps, BackupTry, countVars
<1>1. CASE BackupStep
    BY <1>1 DEF BackupStep, BCheck, BRecovery, BPs, BStop, BCapture, BWrite, BRecord, BStart,
       BWait, Goto, BackupReturns, EndCommand
<1>2. CASE RestoreStep
    BY <1>2 DEF RestoreStep, RContext, RDown, REnv, RPort, RCompose, RVolume, RUntar, RUpsert,
       RUp, RWait, Goto, EndCommand
<1>3. CASE RollbackStep
    BY <1>3 DEF RollbackStep, XDown, XVolume, XCompose, XEnv, XUpsert, XUp, XWait, Goto,
       EndCommand
<1>4. CASE Raise \/ Abort
    BY <1>4 DEF Raise, Abort, EndCommand, FirstRollbackStep
<1>5. CASE Environment \/ UNCHANGED vars
    BY <1>5 DEF Environment, vars
<1> QED BY <1>1, <1>2, <1>3, <1>4, <1>5 DEF Next, Step

LEMMA ClockStays ==
    ASSUME [Next]_vars
    PROVE  Start \/ clock' = clock
BY DEF Next, Step, BackupStep, RestoreStep, RollbackStep, BCheck, BRecovery, BPs, BStop, BCapture,
       BWrite, BRecord, BStart, BWait, RContext, RDown, REnv, RPort, RCompose, RVolume, RUntar,
       RUpsert, RUp, RWait, XDown, XVolume, XCompose, XEnv, XUpsert, XUp, XWait, Goto,
       BackupReturns, Raise, Abort, Environment, vars, countVars

LEMMA FreshVolumeKept ==
    ASSUME Start => clock' # clock, TypeInv, Placed, FreshVolume, [Next]_vars
    PROVE  FreshVolume'
<1>0. /\ clock \in Nat
      /\ Start => clock' = clock + 1 /\ vol' = vol /\ rb' = None
      /\ Start \/ clock' = clock
      /\ clock' \in Vols /\ Vols \subseteq Nat
    BY ClockStays, TypeStep, ConstantTypes
       DEF Start, StartBackup, StartRestore, BeginCommand, worldVars, TypeInv, TypeOK, LocalsOK
<1>1. ASSUME NEW v \in Vols, v > clock PROVE vol[v] = None /\ vol'[v] = None
    <2>1. vol[v] = None
        BY <1>1 DEF FreshVolume
    <2>2. ~MayMake(v)
        BY <1>0, <1>1, NamedVolume, CapturedVolume
           DEF MayMake, FreshVolume, Named, BackupSteps, BackupTry, ComposeFile
    <2> QED BY <2>1, <2>2, StepMakes DEF OnlyMakes
<1>2. \A v \in Vols : v > clock' => vol'[v] = None
    BY <1>0, <1>1
<1>3. ASSUME pc' \in Unmade PROVE vol'[clock'] = None
    <2>1. CASE Start
        BY <1>0, <1>1, <2>1
    <2>2. CASE clock' = clock /\ pc \in Unmade
        <3>1. vol[clock] = None /\ clock \in Vols
            BY <2>2 DEF FreshVolume, TypeInv, TypeOK
        <3>2. ~MayMake(clock)
            BY <1>0, <1>3, <2>2, CapturedVolume
               DEF MayMake, Unmade, BackupSteps, BackupTry
        <3> QED BY <2>2, <3>1, <3>2, StepMakes DEF OnlyMakes
    <2> QED BY <1>3, <2>1, <2>2, StillUnmade
<1>4. ASSUME compose' \in ComposeFile PROVE compose'.vol =< clock'
    <2>1. clock =< clock'
        BY <1>0
    <2>2. compose'.vol \in Nat
        BY <1>0, <1>4 DEF ComposeFile
    <2>3. compose'.vol =< clock
        <3>1. CASE pc = "r_compose" /\ compose' = [vol |-> rvol, ext |-> TRUE]
            BY <1>0, <3>1, NamedVolume DEF Named
        <3>2. CASE pc = "x_compose" /\ compose' = rb.compose
            BY <3>2, RollbackFacts DEF FreshVolume, RollbackSteps, TypeInv, LocalsOK
        <3>3. CASE compose' = compose
            BY <1>4, <3>3 DEF FreshVolume
        <3> QED BY <1>4, <3>1, <3>2, <3>3, StepComposes, ConstantTypes
    <2> QED BY <1>0, <2>1, <2>2, <2>3
<1>5. ASSUME rb' # None PROVE rb'.compose.vol =< clock'
    <2>1. CASE RContext
        BY <2>1 DEF RContext, CanCompose, countVars, FreshVolume
    <2>2. CASE UNCHANGED <<rb, bk, job, clock>>
        BY <1>5, <2>2 DEF FreshVolume
    <2> QED BY <1>5, <2>1, <2>2, ContextMade
<1> QED BY <1>2, <1>3, <1>4, <1>5 DEF FreshVolume

-----------------------------------------------------------------------------
(* What a restore has put in place at each of its steps.                   *)

AfterPort == {"r_compose", "r_volume", "r_untar", "r_upsert", "r_up", "r_wait"}
AfterCompose == AfterPort \ {"r_compose"}

RestoredFiles ==
    /\ pc = "r_port" => env = job.src.env
    /\ pc \in AfterPort => env = [job.src.env EXCEPT !.port = RestoredPort]
    /\ pc \in AfterCompose => compose = [vol |-> rvol, ext |-> TRUE]
    /\ pc \in {"r_up", "r_wait"} => reg = [vol |-> rvol, port |-> RestoredPort]

\* The container, if there is one, was created from this row and this .env.
Runs(rec, e) == ctr # None => ctr.vol = rec.vol /\ ctr.port = rec.port /\ ctr.key = e.key

\* The steps at which the container has been taken down, or there was none.
Containerless == {"r_env", "r_port", "r_compose", "r_volume", "r_untar", "r_upsert", "r_up",
                  "x_volume"}

RestoredVolume ==
    /\ reg = None \/ pc \in Containerless => ctr = None
    /\ job.cmd = "replace" => reg # None
    /\ pc \in Backing \cup {"r_down"} => rvol = None
    /\ pc = "r_untar" => vol[rvol] = Empty
    /\ pc \in {"r_upsert", "r_up"} => vol[rvol] = job.src.data
    /\ pc = "r_wait" => Runs(reg, env)
    /\ pc = "x_down" /\ ctr # None => ctr.vol = rvol

LEMMA RestoredFilesKept ==
    ASSUME TypeInv, RestoredFiles, [Next]_vars
    PROVE  RestoredFiles'
<1> USE DEF worldVars, fileVars, localVars, RestoredFiles, RestoredPort, AfterPort, AfterCompose
<1>1. CASE pc' \notin AfterPort \cup {"r_port"}
    BY <1>1
<1>2. CASE UNCHANGED <<env, compose, reg, job, rvol, pc>>
    BY <1>2
<1>3. CASE RestoreStep
    BY <1>1, <1>3 DEF RestoreStep, RContext, RDown, REnv, RPort, RCompose, RVolume, RUntar,
       RUpsert, RUp, RWait, Goto, EndCommand
<1>4. CASE Environment \/ UNCHANGED vars
    BY <1>2, <1>4 DEF Environment, N8nStep, N8nBoots, N8nWrites, N8nExits, DaemonRestarts, vars
<1>5. CASE Start \/ BackupStep \/ RollbackStep \/ Raise \/ Abort
    BY <1>1, <1>5 DEF Start, StartBackup, StartRestore, BackupStep, BCheck, BRecovery, BPs, BStop,
       BCapture, BWrite, BRecord, BStart, BWait, RollbackStep, XDown, XVolume, XCompose, XEnv,
       XUpsert, XUp, XWait, Raise, Abort, FirstRollbackStep, Goto, BackupReturns, EndCommand
<1> QED BY <1>3, <1>4, <1>5 DEF Next, Step

\* What a step does to the registry row.
LEMMA StepRows ==
    ASSUME TypeInv, [Next]_vars
    PROVE  /\ reg' = reg \/ RUpsert \/ XUpsert
           /\ reg # None => reg' # None
<1> USE DEF worldVars, fileVars
<1>1. CASE RUpsert
    BY <1>1, RestoreFacts, ConstantTypes DEF RUpsert, RestoreSteps, Named, InstanceRecord
<1>2. CASE XUpsert
    BY <1>2, RollbackFacts, ConstantTypes DEF XUpsert, RollbackSteps
<1>3. CASE Start \/ BackupStep \/ Environment \/ UNCHANGED vars
    BY <1>3 DEF Start, StartBackup, StartRestore, BackupStep, BCheck, BRecovery, BPs, BStop,
       BCapture, BWrite, BRecord, BStart, BWait, Environment, N8nStep, N8nBoots, N8nWrites,
       N8nExits, DaemonRestarts, vars
<1>4. CASE RestoreStep
    BY <1>1, <1>4 DEF RestoreStep, RContext, RDown, REnv, RPort, RCompose, RVolume, RUntar, RUp,
       RWait
<1>5. CASE RollbackStep
    BY <1>2, <1>5 DEF RollbackStep, XDown, XVolume, XCompose, XEnv, XUp, XWait
<1>6. CASE Raise \/ Abort
    BY <1>6 DEF Raise, Abort, Leftover, LeavesTornFile, LeavesDockerEffect
<1> QED BY <1>3, <1>4, <1>5, <1>6 DEF Next, Step

\* What a step does to the container: it may go, change its status, or be
\* created by `compose up` from the files as they are.
SameContainer ==
    ctr' # None => /\ ctr # None /\ ctr'.vol = ctr.vol
                   /\ ctr'.port = ctr.port /\ ctr'.key = ctr.key
MadeContainer ==
    /\ pc \in {"r_up", "x_up"} /\ pc' # pc
    /\ CanUp /\ ctr' # None
    /\ ctr'.vol = compose.vol /\ ctr'.port = env.port /\ ctr'.key = env.key

LEMMA UpContainer ==
    ASSUME TypeInv, NEW st \in {"running", "exited"}, ComposeUp(st), pc \in {"r_up", "x_up"},
           pc' # pc
    PROVE  MadeContainer
BY CreatedType, ConstantTypes DEF ComposeUp, Created, MadeContainer, TypeInv, TypeOK

LEMMA StatusContainer ==
    ASSUME TypeInv
    PROVE  /\ ComposeStop \/ ComposeStart \/ ComposeDown => SameContainer
           /\ \A v : VolumeCreate(v) \/ VolumeRemove(v) => SameContainer
           /\ N8nStep => SameContainer
<1>1. \A st \in {"running", "exited", "restarting"} :
         ctr # None /\ ctr' = [ctr EXCEPT !.st = st] => SameContainer
    BY DEF SameContainer, TypeInv, TypeOK, WorldTypeOK, Container
<1>2. ctr' = ctr \/ ctr' = None => SameContainer
    BY DEF SameContainer
<1> QED BY <1>1, <1>2 DEF ComposeStop, ComposeStart, ComposeDown, VolumeCreate, VolumeRemove,
        N8nStep, N8nBoots, N8nWrites, N8nExits, DaemonRestarts, ContainerIsRunning

LEMMA StepContainers ==
    ASSUME TypeInv, [Next]_vars
    PROVE  SameContainer \/ MadeContainer
<1> USE DEF worldVars, dockerVars
<1>0. ctr' = ctr => SameContainer
    BY DEF SameContainer
<1>1. CASE RUp \/ XUp
    BY <1>1, UpContainer DEF RUp, XUp, Goto
<1>2. CASE Start \/ BackupStep
    BY <1>0, <1>2, StatusContainer DEF Start, StartBackup, StartRestore, BackupStep, BCheck,
       BRecovery, BPs, BStop, BCapture, BWrite, BRecord, BStart, BWait
<1>3. CASE RestoreStep
    BY <1>0, <1>1, <1>3, StatusContainer DEF RestoreStep, RContext, RDown, REnv, RPort, RCompose,
       RVolume, RUntar, RUpsert, RWait
<1>4. CASE RollbackStep
    BY <1>0, <1>1, <1>4, StatusContainer DEF RollbackStep, XDown, XVolume, XCompose, XEnv,
       XUpsert, XWait
<1>5. CASE Raise \/ Abort
    <2>1. CASE pc \in {"r_up", "x_up"} /\ \E st \in {"running", "exited"} : ComposeUp(st)
        <3>1. pc' # pc
            BY <1>5, <2>1 DEF Raise, Abort, EndCommand, FirstRollbackStep, BackupTry
        <3> QED BY <2>1, <3>1, UpContainer
    <2>2. CASE \/ ComposeStop \/ ComposeStart \/ ComposeDown
               \/ \E v : VolumeCreate(v) \/ VolumeRemove(v)
        BY <2>2, StatusContainer
    <2> QED BY <1>0, <1>5, <2>1, <2>2 DEF Raise, Abort, Leftover, LeavesTornFile, LeavesDockerEffect
<1>6. CASE Environment \/ UNCHANGED vars
    BY <1>0, <1>6, StatusContainer DEF Environment, vars
<1> QED BY <1>2, <1>3, <1>4, <1>5, <1>6 DEF Next, Step

\* The steps of a replace before its volume has a name.
LEMMA Unnamed ==
    ASSUME TypeInv, Placed, RestoredVolume, [Next]_vars, pc' \in Backing \cup {"r_down"}
    PROVE  rvol' = None
<1> USE DEF Backing, BackupSteps, BackupTry, localVars, RestoredVolume
<1>1. ASSUME NEW pass, StartBackup(pass) PROVE rvol' = None
    BY <1>1 DEF StartBackup, BeginCommand, Placed
<1>2. ASSUME NEW name, NEW secret, NEW replace, NEW port,
             StartRestore(name, secret, replace, port)
      PROVE  rvol' = None
    BY <1>2 DEF StartRestore
<1>3. CASE BackupStep
    BY <1>3 DEF BackupStep, BCheck, BRecovery, BPs, BStop, BCapture, BWrite, BRecord, BStart,
       BWait, Goto, BackupReturns, EndCommand
<1>4. CASE RestoreStep
    BY <1>4 DEF RestoreStep, RContext, RDown, REnv, RPort, RCompose, RVolume, RUntar, RUpsert,
       RUp, RWait, Goto, EndCommand
<1>5. CASE RollbackStep
    BY <1>5 DEF RollbackStep, XDown, XVolume, XCompose, XEnv, XUpsert, XUp, XWait, Goto,
       EndCommand
<1>6. CASE Raise \/ Abort
    BY <1>6 DEF Raise, Abort, EndCommand, FirstRollbackStep
<1>7. CASE Environment \/ UNCHANGED vars
    BY <1>7 DEF Environment, vars
<1> QED BY <1>1, <1>2, <1>3, <1>4, <1>5, <1>6, <1>7 DEF Next, Step, Start

\* Steps of n8n, and none at all.
LEMMA IdleStep ==
    ASSUME TypeInv, Environment \/ UNCHANGED vars
    PROVE  /\ UNCHANGED <<env, compose, reg, bundles, rows, job, bk, rb, rvol, pc, clock, broken>>
           /\ SameContainer
           /\ ctr = None => ctr' = None /\ vol' = vol
BY StatusContainer
   DEF Environment, vars, worldVars, fileVars, storeVars, localVars, ghostVars, countVars,
       SameContainer, N8nStep, N8nBoots, N8nWrites, N8nExits, DaemonRestarts, ContainerIsRunning

\* Where a command may be after a step that is not one of n8n.
LEMMA Moves ==
    ASSUME TypeInv, [Next]_vars, pc' # "idle"
    PROVE  /\ pc' = "r_env" => RDown \/ (Start /\ reg = None) \/ Environment \/ UNCHANGED vars
           /\ pc' = "r_port" => REnv \/ Environment \/ UNCHANGED vars
           /\ pc' = "r_compose" => RPort \/ Environment \/ UNCHANGED vars
           /\ pc' = "r_volume" => RCompose \/ Environment \/ UNCHANGED vars
           /\ pc' = "r_untar" => RVolume \/ Environment \/ UNCHANGED vars
           /\ pc' = "r_upsert" => RUntar \/ Environment \/ UNCHANGED vars
           /\ pc' = "r_up" => RUpsert \/ Environment \/ UNCHANGED vars
           /\ pc' = "r_wait" => RUp \/ Environment \/ UNCHANGED vars
           /\ pc' = "x_down" => Raise \/ Environment \/ UNCHANGED vars
           /\ pc' = "x_volume" => XDown \/ Environment \/ UNCHANGED vars
           /\ pc' = "x_compose" => XDown \/ XVolume \/ Raise \/ Environment \/ UNCHANGED vars
           /\ pc' = "x_env" => XCompose \/ Environment \/ UNCHANGED vars
           /\ pc' = "x_upsert" => XEnv \/ Environment \/ UNCHANGED vars
           /\ pc' = "x_up" => XUpsert \/ Environment \/ UNCHANGED vars
           /\ pc' = "x_wait" => XUp \/ Environment \/ UNCHANGED vars
           /\ pc' = "r_down" => RContext \/ Environment \/ UNCHANGED vars
<1>1. CASE Start
    BY <1>1 DEF Start, StartBackup, StartRestore
<1>2. CASE BackupStep
    BY <1>2 DEF BackupStep, BCheck, BRecovery, BPs, BStop, BCapture, BWrite, BRecord, BStart,
       BWait, Goto, BackupReturns, EndCommand
<1>3. CASE RestoreStep
    BY <1>3 DEF RestoreStep, RContext, RDown, REnv, RPort, RCompose, RVolume, RUntar, RUpsert,
       RUp, RWait, Goto, EndCommand
<1>4. CASE RollbackStep
    BY <1>4 DEF RollbackStep, XDown, XVolume, XCompose, XEnv, XUpsert, XUp, XWait, Goto,
       EndCommand
<1>5. CASE Raise \/ Abort
    BY <1>5 DEF Raise, Abort, EndCommand, FirstRollbackStep
<1> QED BY <1>1, <1>2, <1>3, <1>4, <1>5 DEF Next, Step

LEMMA ContainerlessKept ==
    ASSUME TypeInv, RestoredFiles, RestoredVolume, [Next]_vars
    PROVE  reg' = None \/ pc' \in Containerless => ctr' = None
<1> USE DEF RestoredVolume
<1>1. ASSUME reg' = None PROVE ctr' = None
    <2>1. reg = None /\ ctr = None
        BY <1>1, StepRows
    <2>2. ~MadeContainer
        <3>1. pc # "r_up"
            BY <2>1, ConstantTypes, RestoreFacts
               DEF RestoredFiles, RestoreSteps, Named, InstanceRecord
        <3>2. pc # "x_up"
            BY <2>1 DEF TypeInv, LocalsOK, RollbackSteps
        <3> QED BY <3>1, <3>2 DEF MadeContainer
    <2> QED BY <2>1, <2>2, StepContainers DEF SameContainer
<1>2. ASSUME pc' \in Containerless PROVE ctr' = None
    <2>1. CASE Environment \/ UNCHANGED vars
        BY <1>2, <2>1, IdleStep
    <2>2. CASE RDown \/ XDown
        BY <2>2 DEF RDown, XDown, ComposeDown
    <2>3. CASE Start /\ reg = None
        BY <2>3 DEF Start, StartBackup, StartRestore, worldVars
    <2>4. CASE REnv \/ RPort \/ RCompose \/ RVolume \/ RUntar \/ RUpsert
        BY <2>4 DEF REnv, RPort, RCompose, RVolume, VolumeCreate, RUntar, RUpsert, dockerVars,
           Containerless
    <2> QED BY <1>2, <2>1, <2>2, <2>3, <2>4, Moves DEF Containerless
<1> QED BY <1>1, <1>2

LEMMA ContainerOfRestore ==
    ASSUME TypeInv, RestoredFiles, RestoredVolume, [Next]_vars
    PROVE  /\ (pc = "r_wait" => Runs(reg, env))'
           /\ pc' = "x_down" /\ ctr' # None => ctr'.vol = rvol'
<1> USE DEF RestoredVolume
<1>1. ASSUME pc' = "r_wait"
      PROVE  ctr' # None => /\ ctr'.vol = reg'.vol /\ ctr'.port = reg'.port
                            /\ ctr'.key = env'.key
    <2>1. CASE RUp
        <3>1. MadeContainer
            BY <2>1, UpContainer DEF RUp, Goto
        <3>2. UNCHANGED <<env, compose, reg>>
            BY <2>1 DEF RUp, fileVars
        <3>3. [job.src.env EXCEPT !.port = RestoredPort].port = RestoredPort
            BY <2>1, RestoreFacts DEF RUp, RestoreSteps, EnvFile
        <3>4. /\ env = [job.src.env EXCEPT !.port = RestoredPort]
              /\ compose = [vol |-> rvol, ext |-> TRUE]
              /\ reg = [vol |-> rvol, port |-> RestoredPort]
            BY <2>1 DEF RUp, RestoredFiles, AfterPort, AfterCompose
        <3>5. compose.vol = reg.vol /\ env.port = reg.port
            BY <3>3, <3>4
        <3> QED BY <3>1, <3>2, <3>5 DEF MadeContainer
    <2>2. CASE Environment \/ UNCHANGED vars
        BY <1>1, <2>2, IdleStep DEF Runs, SameContainer
    <2> QED BY <1>1, <2>1, <2>2, Moves
<1>2. ASSUME pc' = "x_down", ctr' # None PROVE ctr'.vol = rvol'
    <2>1. CASE Raise
        <3>1. pc \in RestoreSteps /\ rb # None /\ rvol # None /\ rvol' = rvol
            BY <1>2, <2>1 DEF Raise, EndCommand, FirstRollbackStep, localVars
        <3>2. pc \in Containerless \/ pc = "r_wait"
            BY <3>1 DEF TypeInv, LocalsOK, RestoreSteps, Containerless
        <3>3. CASE MadeContainer
            BY <3>1, <3>2, <3>3
               DEF MadeContainer, RestoredFiles, AfterPort, AfterCompose, Containerless
        <3>4. CASE SameContainer
            BY <1>2, <3>1, <3>2, <3>4 DEF SameContainer, RestoredFiles, Runs
        <3> QED BY <3>3, <3>4, StepContainers
    <2>2. CASE Environment \/ UNCHANGED vars
        BY <1>2, <2>2, IdleStep DEF SameContainer
    <2> QED BY <1>2, <2>1, <2>2, Moves
<1> QED BY <1>1, <1>2 DEF Runs

LEMMA VolumeOfRestore ==
    ASSUME TypeInv, Placed, FreshVolume, RestoredVolume, [Next]_vars
    PROVE  /\ pc' = "r_untar" => vol'[rvol'] = Empty
           /\ pc' \in {"r_upsert", "r_up"} => vol'[rvol'] = job'.src.data
<1> USE DEF RestoredVolume, localVars
<1>1. CASE Environment \/ UNCHANGED vars
    BY <1>1, IdleStep DEF Containerless
<1>2. CASE RVolume
    <2>1. rvol = clock /\ rvol \in Vols /\ vol[rvol] = None
        BY <1>2, NamedVolume DEF RVolume, Named, FreshVolume, Unmade
    <2> QED BY <1>2, <2>1, ConstantTypes
            DEF RVolume, VolumeCreate, Mounted, Goto, TypeInv, TypeOK, WorldTypeOK
<1>3. CASE RUntar
    <2>1. rvol \in Vols /\ vol[rvol] = Empty
        BY <1>3, NamedVolume DEF RUntar, Named
    <2>2. Extracted(Empty, job.src.data) = job.src.data
        BY ConstantTypes DEF Extracted
    <2> QED BY <1>3, <2>1, <2>2 DEF RUntar, Goto, TypeInv, TypeOK, WorldTypeOK
<1>4. CASE RUpsert
    BY <1>4 DEF RUpsert, Goto, dockerVars
<1> QED BY <1>1, <1>2, <1>3, <1>4, Moves

LEMMA ReplaceHasRow ==
    ASSUME TypeInv, RestoredVolume, [Next]_vars, job'.cmd = "replace"
    PROVE  reg' # None
<1>1. ASSUME NEW pass, StartBackup(pass) PROVE FALSE
    BY <1>1 DEF StartBackup, NoJob
<1>2. ASSUME NEW name, NEW secret, NEW replace, NEW port,
             StartRestore(name, secret, replace, port)
      PROVE  reg # None
    BY <1>2 DEF StartRestore
<1>3. CASE job' = job
    BY <1>3, StepRows DEF RestoredVolume
<1>4. job' = job \/ job' = NoJob \/ Start
    BY DEF Next, Step, BackupStep, RestoreStep, RollbackStep, BCheck, BRecovery, BPs, BStop,
       BCapture, BWrite, BRecord, BStart, BWait, RContext, RDown, REnv, RPort, RCompose, RVolume,
       RUntar, RUpsert, RUp, RWait, XDown, XVolume, XCompose, XEnv, XUpsert, XUp, XWait, Goto,
       BackupReturns, EndCommand, Raise, Abort, Environment, vars, localVars
<1> QED BY <1>1, <1>2, <1>3, <1>4, StepRows DEF Start, NoJob, RestoredVolume

LEMMA RestoredVolumeKept ==
    ASSUME TypeInv, Placed, FreshVolume, RestoredFiles, RestoredVolume, [Next]_vars
    PROVE  RestoredVolume'
BY ContainerlessKept, ContainerOfRestore, VolumeOfRestore, ReplaceHasRow, Unnamed
   DEF RestoredVolume, Runs

-----------------------------------------------------------------------------
(* The four places that describe an instance agree.                        *)

\* Data that the key of this .env opens, and that no half restore has mixed.
Opens(d, e) == d # None /\ (d \in Content => d.key = e.key /\ d.whole)

Coherent(rec, e, c) ==
    /\ c \in ComposeFile /\ e \in EnvFile
    /\ c.vol = rec.vol /\ e.port = rec.port /\ Opens(vol[rec.vol], e)

AgreeInv ==
    /\ reg # None /\ rb = None => Coherent(reg, env, compose) /\ Runs(reg, env)
    /\ rb # None => Coherent(rb.rec, rb.env, rb.compose)
    /\ pc \in {"r_down", "x_compose", "x_env", "x_upsert", "x_up", "x_wait"} =>
          Runs(rb.rec, rb.env)
    /\ pc \in {"x_env", "x_upsert", "x_up", "x_wait"} => compose = rb.compose
    /\ pc \in {"x_upsert", "x_up", "x_wait"} => env = rb.env
    /\ pc \in {"x_up", "x_wait"} => reg = rb.rec
    /\ pc \in {"r_up", "r_wait"} => Opens(vol[rvol], env)
    /\ \A n \in BundleNames : bundles[n] \in Bundle => Opens(bundles[n].data, bundles[n].env)

RestInv == FreshVolume /\ RestoredFiles /\ RestoredVolume
AllInv == TypeInv /\ KeyInv /\ SafetyInv /\ SameRecord /\ HasCompose /\ RestInv

LEMMA N8nOpens ==
    ASSUME TypeInv, N8nStep, NEW v \in Vols, NEW e, Opens(vol[v], e),
           ctr # None /\ ctr.vol = v => ctr.key = e.key
    PROVE  Opens(vol'[v], e)
<1>1. ctr # None => ctr.vol \in Vols
    BY DEF TypeInv, TypeOK, WorldTypeOK, Container
<1>2. CASE vol'[v] = vol[v]
    BY <1>2
<1>3. CASE N8nBoots /\ ctr.vol = v
    <2>1. vol'[v] = [key |-> ctr.key, hist |-> {rev + 1}, whole |-> TRUE]
        BY <1>1, <1>3 DEF N8nBoots, ContainerIsRunning, TypeInv, TypeOK, WorldTypeOK
    <2>2. vol'[v] \in Content
        BY <1>1, <1>3, <2>1, WorldAssumption
           DEF N8nBoots, ContainerIsRunning, Content, Container, Revs, TypeInv, TypeOK, WorldTypeOK
    <2>3. vol'[v].key = e.key /\ vol'[v].whole
        BY <1>3, <2>1 DEF N8nBoots, ContainerIsRunning
    <2> QED BY <2>2, <2>3, ConstantTypes DEF Opens
<1>4. CASE N8nWrites /\ ctr.vol = v
    <2>1. vol[v] \in Content /\ vol'[v] = [vol[v] EXCEPT !.hist = @ \cup {rev + 1}]
        BY <1>1, <1>4 DEF N8nWrites, Serving, TypeInv, TypeOK, WorldTypeOK
    <2>2. vol'[v].key = vol[v].key /\ vol'[v].whole = vol[v].whole
        BY <2>1 DEF Content
    <2>3. vol'[v] # None
        <3>1. vol'[v] \in Content
            BY <1>4, <2>1, WorldAssumption
               DEF N8nWrites, Content, Revs, TypeInv, TypeOK, WorldTypeOK
        <3> QED BY <3>1, ConstantTypes
    <2> QED BY <2>1, <2>2, <2>3 DEF Opens
<1> QED BY <1>1, <1>2, <1>3, <1>4
        DEF N8nStep, N8nBoots, N8nWrites, N8nExits, DaemonRestarts, ContainerIsRunning, Serving,
            TypeInv, TypeOK, WorldTypeOK

\* The instance a replace has put aside stays as it is, n8n's writes excepted.
LEMMA AsideOpens ==
    ASSUME AllInv, AgreeInv, rb # None, [Next]_vars
    PROVE  /\ Opens(vol'[rb.rec.vol], rb.env)
           /\ ~Environment => vol'[rb.rec.vol] = vol[rb.rec.vol]
<1>1. /\ rb.rec.vol \in Vols /\ rb.rec.vol < clock /\ clock \in Nat
      /\ Opens(vol[rb.rec.vol], rb.env)
    BY PlacedTypes
       DEF AllInv, SafetyInv, Placed, AgreeInv, Coherent, TypeInv, TypeOK, Context, InstanceRecord
<1>2. CASE Start \/ Step \/ Abort
    <2>1. KeepsOlder
        BY <1>2, StepKeepsOlder DEF AllInv, SafetyInv
    <2>2. vol'[rb.rec.vol] = vol[rb.rec.vol]
        BY <1>1, <2>1 DEF KeepsOlder, Opens
    <2> QED BY <1>1, <2>2
<1>3. CASE UNCHANGED vars
    BY <1>1, <1>3 DEF vars, worldVars
<1>4. CASE Environment
    <2>1. pc \in RestoreSteps \cup RollbackSteps /\ pc # "r_context"
        BY DEF AllInv, TypeInv, TypeOK, LocalsOK
    <2>2. ASSUME ctr # None, ctr.vol = rb.rec.vol PROVE ctr.key = rb.env.key
        <3>1. pc \notin Containerless
            BY <2>2 DEF AllInv, RestInv, RestoredVolume
        <3>2. CASE pc \in {"r_wait", "x_down"}
            <4>1. rvol = clock
                BY <3>2 DEF AllInv, SafetyInv, Placed, TypeInv, LocalsOK, Named
            <4>2. ctr.vol = rvol
                BY <2>2, <3>2 DEF AllInv, RestInv, RestoredVolume, RestoredFiles, Runs
            <4> QED BY <1>1, <2>2, <4>1, <4>2
        <3>3. CASE pc \notin {"r_wait", "x_down"}
            BY <2>1, <2>2, <3>1, <3>3
               DEF AgreeInv, Runs, Containerless, RestoreSteps, RollbackSteps
        <3> QED BY <3>2, <3>3
    <2> QED BY <1>1, <1>4, <2>2, N8nOpens DEF Environment, AllInv
<1> QED BY <1>2, <1>3, <1>4 DEF Next

\* An instance that no restore is rewriting: where the command is, what it leaves.
LEMMA AtRest ==
    ASSUME AllInv, rb = None, reg # None
    PROVE  pc \in {"idle", "r_up", "r_wait"} \cup Backing
BY DEF AllInv, TypeInv, TypeOK, LocalsOK, KeyInv, OnlyLoose, Overwriting, Loose, Backing,
       BackupSteps, BackupTry, RestoreSteps, RollbackSteps

LEMMA FilesStay ==
    ASSUME TypeInv, pc \in {"idle", "r_up", "r_wait"} \cup Backing, [Next]_vars
    PROVE  env' = env /\ compose' = compose /\ reg' = reg
<1> USE DEF worldVars, fileVars, Backing, BackupSteps, BackupTry
<1>1. CASE Start \/ BackupStep \/ Environment \/ UNCHANGED vars
    BY <1>1 DEF Start, StartBackup, StartRestore, BackupStep, BCheck, BRecovery, BPs, BStop,
       BCapture, BWrite, BRecord, BStart, BWait, Environment, N8nStep, N8nBoots, N8nWrites,
       N8nExits, DaemonRestarts, vars
<1>2. CASE RestoreStep
    BY <1>2 DEF RestoreStep, RContext, RDown, REnv, RPort, RCompose, RVolume, RUntar, RUpsert,
       RUp, RWait
<1>3. CASE RollbackStep
    BY <1>3 DEF RollbackStep, XDown, XVolume, XCompose, XEnv, XUpsert, XUp, XWait
<1>4. CASE Raise \/ Abort
    BY <1>4 DEF Raise, Abort, Leftover, LeavesTornFile, LeavesDockerEffect
<1> QED BY <1>1, <1>2, <1>3, <1>4 DEF Next, Step

LEMMA UpKeeps ==
    ASSUME TypeInv, pc \in {"r_up", "r_wait"}, Start \/ Step \/ Abort
    PROVE  KeepsAll
<1> USE DEF worldVars, dockerVars
<1>1. UNCHANGED vol \/ \E st \in {"running", "exited"} : ComposeUp(st)
    BY DEF Start, StartBackup, StartRestore, BeginCommand, Step, BackupStep, BCheck, BRecovery,
       BPs, BStop, BCapture, BWrite, BRecord, BStart, BWait, RestoreStep, RContext, RDown, REnv,
       RPort, RCompose, RVolume, RUntar, RUpsert, RUp, RWait, RollbackStep, XDown, XVolume,
       XCompose, XEnv, XUpsert, XUp, XWait, Raise, Abort, Leftover, LeavesTornFile,
       LeavesDockerEffect
<1> QED BY <1>1, DockerKeeps

LEMMA RestOpens ==
    ASSUME AllInv, AgreeInv, rb = None, reg # None, [Next]_vars
    PROVE  /\ Opens(vol'[reg.vol], env)
           /\ ~Environment => vol'[reg.vol] = vol[reg.vol]
<1>1. /\ reg.vol \in Vols /\ Opens(vol[reg.vol], env) /\ Runs(reg, env)
      /\ clock \in Nat /\ Vols \subseteq Nat
    BY ConstantTypes DEF AllInv, AgreeInv, Coherent, TypeInv, TypeOK, WorldTypeOK, InstanceRecord
<1>2. CASE Start \/ Step \/ Abort
    <2>1. CASE pc = "idle"
        <3>1. vol' = vol
            BY <1>2, <2>1 DEF Start, StartBackup, StartRestore, worldVars, Step, BackupStep, BCheck,
               BRecovery, BPs, BStop, BCapture, BWrite, BRecord, BStart, BWait, RestoreStep,
               RContext, RDown, REnv, RPort, RCompose, RVolume, RUntar, RUpsert, RUp, RWait,
               RollbackStep, XDown, XVolume, XCompose, XEnv, XUpsert, XUp, XWait, Raise, Abort,
               BackupTry, BackupSteps, RestoreSteps, RollbackSteps
        <3> QED BY <1>1, <3>1
    <2>2. CASE pc \in {"r_up", "r_wait"}
        BY <1>1, <1>2, <2>2, UpKeeps DEF KeepsAll, Opens, AllInv
    <2>3. CASE pc \in Backing
        <3>1. reg.vol < clock
            <4>1. CASE pc = "b_check"
                BY <4>1 DEF AllInv, SafetyInv, Placed, Dated
            <4>2. CASE pc # "b_check"
                BY <2>3, <4>2 DEF AllInv, SameRecord, SafetyInv, Placed
            <4> QED BY <4>1, <4>2
        <3>2. KeepsOlder
            BY <1>2, StepKeepsOlder DEF AllInv, SafetyInv
        <3>3. vol[reg.vol] # None /\ reg.vol # clock
            BY <1>1, <3>1 DEF Opens
        <3>4. vol'[reg.vol] = vol[reg.vol]
            BY <1>1, <3>2, <3>3 DEF KeepsOlder
        <3> QED BY <1>1, <3>4
    <2> QED BY <2>1, <2>2, <2>3, AtRest
<1>3. CASE UNCHANGED vars
    BY <1>1, <1>3 DEF vars, worldVars
<1>4. CASE Environment
    BY <1>1, <1>4, N8nOpens DEF Environment, AllInv, Runs
<1> QED BY <1>2, <1>3, <1>4 DEF Next

\* The bundle being restored opens with the key in its .env.
LEMMA SourceOpens ==
    ASSUME AllInv, AgreeInv, pc \in RestoreSteps, pc \in AfterPort
    PROVE  Opens(job.src.data, env) /\ env \in EnvFile /\ env.port = RestoredPort
<1>1. PICK n \in BundleNames : bundles[n] = job.src
    BY DEF AllInv, KeyInv, SourceThere, TypeInv, LocalsOK
<1>2. job.src \in Bundle /\ job.src.env \in EnvFile /\ RestoredPort \in Ports
    BY RestoreFacts DEF AllInv
<1>3. Opens(job.src.data, job.src.env)
    BY <1>1, <1>2 DEF AgreeInv
<1>4. env = [job.src.env EXCEPT !.port = RestoredPort]
    BY DEF AllInv, RestInv, RestoredFiles
<1>5. env \in EnvFile /\ env.key = job.src.env.key /\ env.port = RestoredPort
    BY <1>2, <1>4 DEF EnvFile
<1> QED BY <1>3, <1>5 DEF Opens

\* A replace ends well in three ways.
LEMMA ContextEnds ==
    ASSUME TypeInv, [Next]_vars, rb # None, rb' = None, ~broken'
    PROVE  RWait \/ (XUpsert /\ ~rb.up) \/ XWait
<1> USE DEF localVars
<1>1. CASE Start
    BY <1>1 DEF Start, StartBackup, StartRestore
<1>2. CASE BackupStep
    BY <1>2 DEF BackupStep, BCheck, BRecovery, BPs, BStop, BCapture, BWrite, BRecord, BStart,
       BWait, BackupSteps, BackupTry, TypeInv, LocalsOK
<1>3. CASE RestoreStep
    BY <1>3 DEF RestoreStep, RContext, RDown, REnv, RPort, RCompose, RVolume, RUntar, RUpsert,
       RUp, Goto, TypeInv, LocalsOK
<1>4. CASE RollbackStep
    BY <1>4 DEF RollbackStep, XDown, XVolume, XCompose, XEnv, XUpsert, XUp, Goto
<1>5. CASE Raise \/ Abort
    BY <1>5 DEF Raise, Abort, BackupSteps, BackupTry, RestoreSteps, RollbackSteps, TypeInv, LocalsOK
<1>6. CASE Environment \/ UNCHANGED vars
    BY <1>6 DEF Environment, vars
<1> QED BY <1>1, <1>2, <1>3, <1>4, <1>5, <1>6 DEF Next, Step

LEMMA CoherentKept ==
    ASSUME AllInv, AgreeInv, [Next]_vars, ~broken', reg' # None, rb' = None
    PROVE  Coherent(reg, env, compose)' /\ Runs(reg, env)'
<1> USE DEF worldVars, fileVars, dockerVars
<1>1. CASE rb = None /\ reg = None
    <2>1. reg' # reg /\ ~XUpsert
        BY <1>1 DEF XUpsert, AllInv, TypeInv, LocalsOK, RollbackSteps
    <2>2. RUpsert
        BY <2>1, StepRows DEF AllInv
    <2>3. pc = "r_upsert" /\ pc \in RestoreSteps /\ pc \in AfterPort /\ pc \in AfterCompose
          /\ pc \in Containerless /\ pc \in Named
        BY <2>2 DEF RUpsert, RestoreSteps, AfterPort, AfterCompose, Containerless, Named
    <2>4. /\ compose = [vol |-> rvol, ext |-> TRUE] /\ vol[rvol] = job.src.data /\ ctr = None
          /\ rvol \in Vols
        BY <2>3, NamedVolume
           DEF AllInv, SafetyInv, RestInv, RestoredFiles, RestoredVolume
    <2>5. /\ UNCHANGED <<env, compose, vol, ctr>>
          /\ reg' = [vol |-> rvol, port |-> RestoredPort]
        BY <2>2 DEF RUpsert
    <2>6. compose \in ComposeFile /\ compose.vol = rvol
        BY <2>4 DEF ComposeFile
    <2>7. Opens(job.src.data, env) /\ env \in EnvFile /\ env.port = RestoredPort
        BY <2>3, SourceOpens
    <2> QED BY <2>4, <2>5, <2>6, <2>7 DEF Coherent, Runs
<1>2. CASE rb = None /\ reg # None
    <2>1. UNCHANGED <<env, compose, reg>>
        BY <1>2, AtRest, FilesStay DEF AllInv
    <2>2. Opens(vol'[reg.vol], env)
        BY <1>2, RestOpens
    <2>3. Coherent(reg, env, compose) /\ Runs(reg, env)
        BY <1>2 DEF AgreeInv
    <2>4. Coherent(reg, env, compose)'
        BY <2>1, <2>2, <2>3 DEF Coherent
    <2>5. Runs(reg, env)'
        BY <2>1, <2>3, StepContainers DEF Runs, SameContainer, MadeContainer, Coherent, AllInv
    <2> QED BY <2>4, <2>5
<1>3. CASE rb # None
    <2>1. CASE RWait
        <3>1. pc = "r_wait" /\ pc \in RestoreSteps /\ pc \in AfterPort /\ pc \in AfterCompose
              /\ pc \in Named
            BY <2>1 DEF RWait, RestoreSteps, AfterPort, AfterCompose, Named
        <3>2. /\ compose = [vol |-> rvol, ext |-> TRUE]
              /\ reg = [vol |-> rvol, port |-> RestoredPort]
              /\ Opens(vol[rvol], env) /\ Runs(reg, env) /\ rvol \in Vols
            BY <3>1, NamedVolume
               DEF AllInv, SafetyInv, RestInv, RestoredFiles, RestoredVolume, AgreeInv
        <3>3. env \in EnvFile /\ env.port = RestoredPort
            BY <3>1, SourceOpens
        <3>4. compose \in ComposeFile /\ compose.vol = rvol
            BY <3>2 DEF ComposeFile
        <3>5. UNCHANGED <<env, compose, reg, vol, ctr>>
            BY <2>1 DEF RWait
        <3> QED BY <3>2, <3>3, <3>4, <3>5 DEF Coherent, Runs
    <2>2. CASE XUpsert
        <3>1. UNCHANGED <<env, compose, vol, ctr>> /\ reg' = rb.rec
              /\ env = rb.env /\ compose = rb.compose /\ Runs(rb.rec, rb.env)
              /\ Coherent(rb.rec, rb.env, rb.compose)
            BY <1>3, <2>2 DEF XUpsert, AgreeInv
        <3> QED BY <3>1 DEF Coherent, Runs
    <2>3. CASE XWait
        <3>1. UNCHANGED <<env, compose, reg, vol, ctr>> /\ reg = rb.rec
              /\ env = rb.env /\ compose = rb.compose /\ Runs(rb.rec, rb.env)
              /\ Coherent(rb.rec, rb.env, rb.compose)
            BY <1>3, <2>3 DEF XWait, AgreeInv
        <3> QED BY <3>1 DEF Coherent, Runs
    <2> QED BY <1>3, <2>1, <2>2, <2>3, ContextEnds DEF AllInv
<1> QED BY <1>1, <1>2, <1>3

LEMMA AsideKept ==
    ASSUME AllInv, AgreeInv, [Next]_vars, rb' # None
    PROVE  Coherent(rb.rec, rb.env, rb.compose)'
<1>1. CASE RContext
    <2>1. rb = None /\ reg # None /\ job.rec = reg
        BY <1>1 DEF RContext, AllInv, TypeInv, LocalsOK, SameRecord, Backing
    <2>2. rb'.rec = reg /\ rb'.env = env /\ rb'.compose = compose /\ vol' = vol
        BY <1>1, <2>1 DEF RContext, worldVars
    <2>3. Coherent(reg, env, compose)
        BY <2>1 DEF AgreeInv
    <2> QED BY <2>2, <2>3 DEF Coherent
<1>2. CASE rb' = rb
    <2>1. rb # None
        BY <1>2
    <2>2. Coherent(rb.rec, rb.env, rb.compose) /\ Opens(vol'[rb.rec.vol], rb.env)
        BY <2>1, AsideOpens DEF AgreeInv
    <2> QED BY <1>2, <2>2 DEF Coherent
<1> QED BY <1>1, <1>2, ContextMade DEF AllInv

\* From the new containerless world back to the old one.
LEMMA RollbackRunsOld ==
    ASSUME AllInv, AgreeInv, [Next]_vars,
           pc' \in {"r_down", "x_compose", "x_env", "x_upsert", "x_up", "x_wait"}
    PROVE  Runs(rb.rec, rb.env)'
<1> USE DEF worldVars, fileVars, dockerVars, localVars
<1>1. CASE Environment \/ UNCHANGED vars
    <2>1. pc' = pc /\ rb' = rb /\ SameContainer
        BY <1>1, IdleStep DEF AllInv
    <2> QED BY <2>1 DEF AgreeInv, Runs, SameContainer
<1>2. CASE RContext
    <2>1. rb = None /\ reg # None /\ job.rec = reg
        BY <1>2 DEF RContext, AllInv, TypeInv, LocalsOK, SameRecord, Backing
    <2>2. rb'.rec = reg /\ rb'.env = env /\ ctr' = ctr
        BY <1>2, <2>1 DEF RContext
    <2> QED BY <2>1, <2>2 DEF AgreeInv, Runs
<1>3. CASE XDown \/ XVolume
    <2>1. ctr' = None
        BY <1>3 DEF XDown, ComposeDown, XVolume, VolumeRemove, AllInv, RestInv, RestoredVolume,
           Containerless
    <2> QED BY <2>1 DEF Runs
<1>4. CASE Raise
    <2>1. /\ pc \in RestoreSteps /\ rb # None /\ UNCHANGED <<rb, rvol>>
          /\ rvol = None \/ compose' = None
        BY <1>4 DEF Raise, EndCommand, FirstRollbackStep
    <2>2. compose' # None
        BY <2>1, ComposeStays DEF AllInv, HasCompose
    <2>3. pc = "r_down"
        BY <2>1, <2>2 DEF AllInv, TypeInv, LocalsOK, RestoreSteps, Named
    <2>4. SameContainer
        BY <2>3, StepContainers DEF MadeContainer, AllInv
    <2> QED BY <2>1, <2>3, <2>4 DEF AgreeInv, Runs, SameContainer
<1>5. CASE XCompose \/ XEnv \/ XUpsert
    <2>1. ctr' = ctr /\ rb' = rb /\ pc \in {"x_compose", "x_env", "x_upsert"}
        BY <1>5 DEF XCompose, XEnv, XUpsert, Goto, EndCommand
    <2> QED BY <2>1 DEF AgreeInv, Runs
<1>6. CASE XUp
    <2>1. MadeContainer /\ rb' = rb /\ pc = "x_up"
        BY <1>6, UpContainer DEF XUp, Goto, AllInv
    <2>2. Coherent(rb.rec, rb.env, rb.compose) /\ env = rb.env /\ compose = rb.compose
        BY <2>1 DEF AgreeInv, AllInv, TypeInv, LocalsOK, RollbackSteps
    <2> QED BY <2>1, <2>2 DEF MadeContainer, Coherent, Runs
<1> QED BY <1>1, <1>2, <1>3, <1>4, <1>5, <1>6, Moves DEF AllInv

LEMMA RollbackFiles ==
    ASSUME AllInv, AgreeInv, [Next]_vars
    PROVE  /\ pc' \in {"x_env", "x_upsert", "x_up", "x_wait"} => compose' = rb'.compose
           /\ pc' \in {"x_upsert", "x_up", "x_wait"} => env' = rb'.env
           /\ pc' \in {"x_up", "x_wait"} => reg' = rb'.rec
<1> USE DEF localVars, fileVars, AgreeInv
<1>1. ASSUME pc' \in {"x_env", "x_upsert", "x_up", "x_wait"}
      PROVE  XCompose \/ XEnv \/ XUpsert \/ XUp \/ Environment \/ UNCHANGED vars
    BY <1>1, Moves DEF AllInv
<1>2. CASE Environment \/ UNCHANGED vars
    BY <1>2, IdleStep DEF AllInv
<1>3. CASE XCompose \/ XEnv \/ XUpsert \/ XUp
    BY <1>3 DEF XCompose, XEnv, XUpsert, XUp, Goto, EndCommand
<1> QED BY <1>1, <1>2, <1>3

LEMMA RestoredOpens ==
    ASSUME AllInv, AgreeInv, [Next]_vars, pc' \in {"r_up", "r_wait"}
    PROVE  Opens(vol'[rvol'], env')
<1> USE DEF localVars, fileVars, dockerVars
<1>1. CASE RUpsert
    <2>1. pc = "r_upsert" /\ pc \in RestoreSteps /\ pc \in AfterPort /\ UNCHANGED <<env, vol, rvol>>
        BY <1>1 DEF RUpsert, RestoreSteps, AfterPort, Goto
    <2>2. vol[rvol] = job.src.data
        BY <2>1 DEF AllInv, RestInv, RestoredVolume
    <2> QED BY <2>1, <2>2, SourceOpens
<1>2. CASE RUp
    <2>1. UNCHANGED <<env, rvol>> /\ pc = "r_up" /\ Opens(vol[rvol], env) /\ rvol \in Vols
        BY <1>2, NamedVolume DEF RUp, Goto, AgreeInv, AllInv, SafetyInv, Named
    <2>2. KeepsAll
        BY <1>2, <2>1, UpKeeps DEF AllInv, Step, RestoreStep
    <2> QED BY <2>1, <2>2 DEF KeepsAll, Opens
<1>3. CASE Environment \/ UNCHANGED vars
    <2>1. /\ UNCHANGED <<env, rvol, pc>> /\ rvol \in Vols /\ Opens(vol[rvol], env)
          /\ ctr = None => vol' = vol
        BY <1>3, IdleStep, NamedVolume DEF AllInv, SafetyInv, AgreeInv, Named
    <2>2. ctr # None => pc = "r_wait" /\ Runs(reg, env)
        BY <2>1 DEF AllInv, RestInv, RestoredVolume, Containerless
    <2>3. CASE UNCHANGED vars
        BY <2>1, <2>3 DEF vars, worldVars
    <2>4. CASE Environment /\ ctr # None
        BY <2>1, <2>2, <2>4, N8nOpens DEF Environment, Runs, AllInv
    <2> QED BY <1>3, <2>1, <2>3, <2>4
<1> QED BY <1>1, <1>2, <1>3, Moves DEF AllInv

\* A backup saves data that the .env beside it opens.
LEMMA CaptureOpens ==
    ASSUME AllInv, AgreeInv, pc = "b_write"
    PROVE  /\ rb = None /\ reg # None /\ bk.rec = reg
           /\ Opens(bk.snap, env)
<1>1. rb = None /\ reg # None /\ bk.rec = reg
    BY DEF AllInv, TypeInv, LocalsOK, SameRecord, Backing, BackupSteps, BackupTry
<1>2. Opens(vol[reg.vol], env)
    BY <1>1 DEF AgreeInv, Coherent
<1>3. bk.snap # None
    BY ConstantTypes DEF AllInv, TypeInv, TypeOK, BackupLocals
<1>4. bk.snap \in Content => Continues(vol[reg.vol], bk.snap)
    BY <1>1 DEF AllInv, SafetyInv, CaptureKept
<1> QED BY <1>1, <1>2, <1>3, <1>4 DEF Continues, Opens

\* Only b_write adds to the bundles that can be opened.
LEMMA StepBundles ==
    ASSUME TypeInv, [Next]_vars
    PROVE  \/ bundles' = bundles
           \/ BWrite
           \/ pc = "b_write" /\ bundles' = [bundles EXCEPT ![Out] = Torn]
<1> USE DEF worldVars, fileVars, storeVars
<1> QED BY DEF Next, Start, Step, BackupStep, RestoreStep, RollbackStep, StartBackup, StartRestore,
           BCheck, BRecovery, BPs, BStop, BCapture, BRecord, BStart, BWait, RContext, RDown, REnv,
           RPort, RCompose, RVolume, RUntar, RUpsert, RUp, RWait, XDown, XVolume, XCompose, XEnv,
           XUpsert, XUp, XWait, Environment, vars, Raise, Abort, Leftover, LeavesTornFile,
           LeavesDockerEffect

LEMMA BundlesOpen ==
    ASSUME AllInv, AgreeInv, [Next]_vars, NEW n \in BundleNames, bundles'[n] \in Bundle
    PROVE  Opens(bundles'[n].data, bundles'[n].env)
<1>1. CASE bundles' = bundles
    BY <1>1 DEF AgreeInv
<1>2. CASE BWrite
    <2>1. bundles' = [bundles EXCEPT ![Out] = Sealed] /\ pc = "b_write"
        BY <1>2 DEF BWrite
    <2>2. Opens(Sealed.data, Sealed.env)
        BY <2>1, CaptureOpens DEF Sealed
    <2> QED BY <2>1, <2>2 DEF AgreeInv, AllInv, TypeInv, TypeOK
<1>3. CASE bundles' = [bundles EXCEPT ![Out] = Torn]
    BY <1>3, ConstantTypes DEF AgreeInv, AllInv, TypeInv, TypeOK
<1> QED BY <1>1, <1>2, <1>3, StepBundles DEF AllInv

LEMMA AgreeKept ==
    ASSUME AllInv, AgreeInv, [Next]_vars, ~broken'
    PROVE  AgreeInv'
BY CoherentKept, AsideKept, RollbackRunsOld, RollbackFiles, RestoredOpens, BundlesOpen DEF AgreeInv

\* The promise once broken stays broken.
LEMMA BrokenStays ==
    ASSUME TypeInv, [Next]_vars
    PROVE  broken => broken'
BY DEF Next, Start, StartBackup, StartRestore, Step, BackupStep, RestoreStep, RollbackStep, BCheck,
       BRecovery, BPs, BStop, BCapture, BWrite, BRecord, BStart, BWait, RContext, RDown, REnv,
       RPort, RCompose, RVolume, RUntar, RUpsert, RUp, RWait, XDown, XVolume, XCompose, XEnv,
       XUpsert, XUp, XWait, Goto, BackupReturns, Raise, Abort, Environment, vars, ghostVars

LEMMA AllKept ==
    ASSUME Start => clock' # clock, AllInv, [Next]_vars
    PROVE  AllInv'
BY TypeStep, KeyStep, SafetyKept, SameRecordKept, ComposeStays, FreshVolumeKept, RestoredFilesKept,
   RestoredVolumeKept
   DEF AllInv, SafetyInv, RestInv

LEMMA AgreeInit ==
    ASSUME "adoptable" \notin InitKinds, Init
    PROVE  AllInv /\ AgreeInv
<1> USE ConstantTypes
<1>1. PICK kind \in InitKinds : InitInstance(kind)
    BY DEF Init
<1>2. TypeInv /\ KeyInv /\ SafetyInv /\ HasCompose /\ SameRecord
    BY TypeInit, KeyInit, SafetyInit, RunsInit
       DEF Init, SameRecord, Backing, BackupSteps, BackupTry
<1>3. FreshVolume
    BY <1>1 DEF Init, InitInstance, FreshVolume, Unmade, BackupSteps, BackupTry
<1>4. RestoredFiles /\ RestoredVolume
    <2>1. reg = None => ctr = None
        <3>1. [vol |-> 0, port |-> LocalPort] \in InstanceRecord
            BY DEF InstanceRecord
        <3> QED BY <1>1, <3>1 DEF InitInstance
    <2> QED BY <2>1 DEF Init, RestoredFiles, RestoredVolume, AfterPort, AfterCompose,
               Containerless, Backing, BackupSteps, BackupTry, NoJob
<1>5. ASSUME NEW n \in BundleNames, bundles[n] \in Bundle
      PROVE  Opens(bundles[n].data, bundles[n].env)
    <2>1. bundles[n] = ForeignBundle
        BY <1>5 DEF Init
    <2>2. bundles[n].data # None
        BY <2>1, ForeignType DEF Bundle
    <2>3. /\ bundles[n].env.key = ForeignKey /\ bundles[n].data.key = ForeignKey
          /\ bundles[n].data.whole
        BY <2>1 DEF ForeignBundle
    <2> QED BY <2>2, <2>3 DEF Opens
<1>6. ASSUME reg # None PROVE Coherent(reg, env, compose) /\ Runs(reg, env)
    <2>1. /\ env = [key |-> LocalKey, port |-> LocalPort] /\ compose = [vol |-> 0, ext |-> FALSE]
          /\ reg = [vol |-> 0, port |-> LocalPort]
          /\ vol[0] = Empty \/ vol[0] = LocalData
          /\ ctr # None => ctr.vol = 0 /\ ctr.port = LocalPort /\ ctr.key = LocalKey
        BY <1>1, <1>6 DEF InitInstance
    <2>2. Opens(vol[0], env)
        BY <2>1, LocalType DEF Opens, LocalData
    <2> QED BY <2>1, <2>2 DEF Coherent, Runs, EnvFile, ComposeFile
<1> QED BY <1>2, <1>3, <1>4, <1>5, <1>6 DEF Init, AllInv, RestInv, AgreeInv

\* When no command runs, and none has been killed or failed in its rollback while it
\* replaced an instance, row, .env, docker-compose.yml, volume and container
\* describe one instance, its key opens its data, and the data is whole; however the
\* commands before have ended (backup.py:212-306, 471-517).
THEOREM FourStores ==
    ASSUME SameSecond = FALSE, "adoptable" \notin InitKinds
    PROVE  Spec => []StoresAgree
<1> DEFINE Inv == AllInv /\ (~broken => AgreeInv)
<1>1. Init => Inv
    BY AgreeInit
<1>2. Inv /\ [Next]_vars => Inv'
    <2> SUFFICES ASSUME Inv, [Next]_vars PROVE Inv'
        OBVIOUS
    <2>1. AllInv'
        BY ClockMoves, AllKept DEF AllInv
    <2> QED BY <2>1, AgreeKept, BrokenStays DEF AllInv
<1>3. Inv => StoresAgree
    BY ConstantTypes
       DEF StoresAgree, Agree, AgreeInv, Coherent, Opens, Runs, AllInv, TypeInv, LocalsOK
<1> QED BY <1>1, <1>2, <1>3, PTL DEF Spec

(***************************************************************************)
(* 6. Every write has its own number                                       *)
(*                                                                         *)
(* No volume, bundle or snapshot holds a write that n8n has yet to make:   *)
(* with it, what n8n writes after a restore is none of the old instance.   *)
(***************************************************************************)

Written(d) == d \in Content => \A r \in d.hist : r =< rev
Numbered ==
    /\ \A v \in Vols : Written(vol[v])
    /\ \A n \in BundleNames : bundles[n] \in Bundle => Written(bundles[n].data)
    /\ Written(bk.snap)

\* What a step of a command does to the data in a volume.
UntarsInto(v) ==
    /\ pc = "r_untar" /\ job.src.data \in Content
    /\ \A r \in vol'[v].hist : (vol[v] \in Content /\ r \in vol[v].hist) \/ r \in job.src.data.hist
OnlyUntars == \A v \in Vols : vol'[v] \in Content => vol'[v] = vol[v] \/ UntarsInto(v)

LEMMA MountedSame ==
    ASSUME TypeInv, NEW w \in Vols, vol' = Mounted(w)
    PROVE  OnlyUntars
BY ConstantTypes DEF Mounted, OnlyUntars, TypeInv, TypeOK, WorldTypeOK

LEMMA UpSame ==
    ASSUME TypeInv, NEW st \in {"running", "exited"}, ComposeUp(st)
    PROVE  OnlyUntars
<1>1. compose.vol \in Vols
    BY CreatedType DEF ComposeUp, TypeInv, TypeOK
<1> QED BY <1>1, MountedSame DEF ComposeUp

LEMMA UntarSame ==
    ASSUME TypeInv, pc = "r_untar",
           \/ vol' = [vol EXCEPT ![rvol] = Extracted(@, job.src.data)]
           \/ job.src.data # Empty /\ vol' = [vol EXCEPT ![rvol] =
                  [Extracted(@, job.src.data) EXCEPT !.whole = FALSE]]
    PROVE  OnlyUntars
<1>1. rvol \in Vols /\ job.src.data \in Content \cup {Empty}
    BY RestoreFacts DEF RestoreSteps, Named
<1>2. \A v \in Vols : v # rvol => vol'[v] = vol[v]
    BY <1>1 DEF TypeInv, TypeOK, WorldTypeOK
<1>3. CASE job.src.data = Empty
    <2>1. vol'[rvol] = vol[rvol]
        BY <1>1, <1>3 DEF Extracted, TypeInv, TypeOK, WorldTypeOK
    <2> QED BY <1>2, <2>1 DEF OnlyUntars
<1>4. CASE job.src.data # Empty
    <2> DEFINE new == Extracted(vol[rvol], job.src.data)
    <2>1. vol'[rvol] = new \/ vol'[rvol] = [new EXCEPT !.whole = FALSE]
        BY <1>1 DEF TypeInv, TypeOK, WorldTypeOK
    <2>2. /\ job.src.data \in Content
          /\ new = job.src.data \/
             /\ vol[rvol] \in Content
             /\ new = [key |-> job.src.data.key, hist |-> vol[rvol].hist \cup job.src.data.hist,
                       whole |-> FALSE]
        BY <1>1, <1>4 DEF Extracted
    <2>3. [new EXCEPT !.whole = FALSE].hist = new.hist
        BY <2>2 DEF Content
    <2>4. UntarsInto(rvol)
        <3>1. \A r \in new.hist :
                 (vol[rvol] \in Content /\ r \in vol[rvol].hist) \/ r \in job.src.data.hist
            BY <2>2
        <3>2. vol'[rvol].hist = new.hist
            BY <2>1, <2>3
        <3> QED BY <2>2, <3>1, <3>2 DEF UntarsInto
    <2> QED BY <1>2, <2>4 DEF OnlyUntars
<1> QED BY <1>1, <1>3, <1>4

LEMMA RemovedSame ==
    ASSUME TypeInv, NEW w, VolumeRemove(w)
    PROVE  OnlyUntars
BY ConstantTypes DEF VolumeRemove, OnlyUntars, TypeInv, TypeOK, WorldTypeOK

LEMMA LeftoverData ==
    ASSUME TypeInv, Placed, pc # "idle", Leftover
    PROVE  OnlyUntars /\ rev' = rev
<1> USE DEF worldVars, dockerVars
<1>1. CASE UNCHANGED <<vol, rev>>
    BY <1>1 DEF OnlyUntars
<1>2. CASE LeavesDockerEffect
    <2>1. rev' = rev
        BY <1>2 DEF LeavesDockerEffect, ComposeUp, ComposeDown, ComposeStop, ComposeStart,
           VolumeCreate, VolumeRemove
    <2>2. CASE pc = "b_capture" /\ VolumeCreate(bk.rec.vol)
        BY <2>1, <2>2, CapturedVolume, MountedSame DEF VolumeCreate, BackupSteps, BackupTry
    <2>3. CASE pc = "r_volume" /\ VolumeCreate(rvol)
        BY <2>1, <2>3, NamedVolume, MountedSame DEF VolumeCreate, Named
    <2>4. CASE pc = "r_untar" /\ job.src.data # Empty /\ vol' = [vol EXCEPT ![rvol] =
                        [Extracted(@, job.src.data) EXCEPT !.whole = FALSE]]
        BY <2>1, <2>4, UntarSame
    <2>5. CASE \E st \in {"running", "exited"} : ComposeUp(st)
        BY <2>1, <2>5, UpSame
    <2>6. CASE VolumeRemove(rvol)
        BY <2>1, <2>6, RemovedSame
    <2>7. CASE ComposeDown \/ ComposeStop \/ ComposeStart
        BY <1>1, <2>7 DEF ComposeDown, ComposeStop, ComposeStart
    <2> QED BY <1>2, <2>2, <2>3, <2>4, <2>5, <2>6, <2>7 DEF LeavesDockerEffect
<1> QED BY <1>1, <1>2 DEF Leftover, LeavesTornFile

LEMMA StepData ==
    ASSUME TypeInv, Placed, Start \/ Step \/ Abort
    PROVE  OnlyUntars /\ rev' = rev
<1> USE DEF worldVars, dockerVars
<1>1. CASE UNCHANGED <<vol, rev>>
    BY <1>1 DEF OnlyUntars
<1>2. CASE BackupStep
    <2>1. CASE BCapture
        <3>1. bk.rec.vol \in Vols
            BY <2>1, CapturedVolume DEF BCapture, BackupSteps, BackupTry
        <3> QED BY <2>1, <3>1, MountedSame DEF BCapture
    <2> QED BY <1>1, <1>2, <2>1
            DEF BackupStep, BCheck, BRecovery, BPs, BStop, BWrite, BRecord, BStart, BWait,
                ComposeStop, ComposeStart
<1>3. CASE RestoreStep
    <2>1. CASE RVolume
        BY <2>1, NamedVolume, MountedSame DEF RVolume, VolumeCreate, Named
    <2>2. CASE RUntar
        BY <2>2, UntarSame DEF RUntar
    <2>3. CASE RUp
        BY <2>3, UpSame DEF RUp, ComposeUp
    <2> QED BY <1>1, <1>3, <2>1, <2>2, <2>3
            DEF RestoreStep, RContext, RDown, ComposeDown, REnv, RPort, RCompose, RUpsert, RWait
<1>4. CASE RollbackStep
    <2>1. CASE XVolume
        BY <2>1, RemovedSame DEF XVolume, VolumeRemove
    <2>2. CASE XUp
        BY <2>2, UpSame DEF XUp, ComposeUp
    <2> QED BY <1>1, <1>4, <2>1, <2>2
            DEF RollbackStep, XDown, ComposeDown, XCompose, XEnv, XUpsert, XWait
<1>5. CASE Raise \/ Abort
    BY <1>5, LeftoverData DEF Raise, Abort, BackupTry, BackupSteps, RestoreSteps, RollbackSteps
<1>6. CASE Start
    BY <1>1, <1>6 DEF Start, StartBackup, StartRestore
<1> QED BY <1>2, <1>3, <1>4, <1>5, <1>6 DEF Step

\* What a step of n8n does to the data in a volume.
LEMMA N8nData ==
    ASSUME TypeInv, N8nStep, NEW v \in Vols, vol'[v] # vol[v]
    PROVE  /\ rev' = rev + 1 /\ rev' \in Revs /\ ctr # None /\ v = ctr.vol
           /\ \/ /\ vol[v] = Empty
                 /\ vol'[v] = [key |-> ctr.key, hist |-> {rev + 1}, whole |-> TRUE]
                 /\ vol'[v] \in Content
              \/ /\ vol[v] \in Content
                 /\ vol'[v] = [vol[v] EXCEPT !.hist = @ \cup {rev + 1}]
                 /\ vol'[v] \in Content
<1>1. ctr # None => ctr.vol \in Vols
    BY DEF TypeInv, TypeOK, WorldTypeOK, Container
<1>2. rev < MaxRev => rev + 1 \in Revs
    BY WorldAssumption DEF Revs, TypeInv, TypeOK, WorldTypeOK
<1>3. CASE N8nBoots
    <2>1. v = ctr.vol /\ ctr # None
        BY <1>1, <1>3 DEF N8nBoots, ContainerIsRunning, TypeInv, TypeOK, WorldTypeOK
    <2>2. vol'[v] = [key |-> ctr.key, hist |-> {rev + 1}, whole |-> TRUE]
        BY <1>3, <2>1 DEF N8nBoots, TypeInv, TypeOK, WorldTypeOK
    <2>3. ctr.key \in Keys
        BY <1>3, <2>1 DEF N8nBoots, TypeInv, TypeOK, WorldTypeOK, Container
    <2>4. vol'[v] \in Content
        BY <1>2, <1>3, <2>2, <2>3 DEF N8nBoots, Content
    <2> QED BY <1>2, <1>3, <2>1, <2>2, <2>4 DEF N8nBoots
<1>4. CASE N8nWrites
    <2>1. v = ctr.vol /\ ctr # None /\ vol[v] \in Content
        BY <1>1, <1>4 DEF N8nWrites, Serving, ContainerIsRunning, TypeInv, TypeOK, WorldTypeOK
    <2>2. vol'[v] = [vol[v] EXCEPT !.hist = @ \cup {rev + 1}]
        BY <1>4, <2>1 DEF N8nWrites, TypeInv, TypeOK, WorldTypeOK
    <2>3. vol'[v] \in Content
        BY <1>2, <1>4, <2>1, <2>2 DEF N8nWrites, Content
    <2> QED BY <1>2, <1>4, <2>1, <2>2, <2>3 DEF N8nWrites
<1> QED BY <1>3, <1>4 DEF N8nStep, N8nExits, DaemonRestarts

LEMMA NumberedKept ==
    ASSUME AllInv, Numbered, [Next]_vars
    PROVE  Numbered'
<1> USE DEF AllInv
<1>0. rev \in Nat /\ (rev' = rev \/ rev' = rev + 1)
    BY StepData, ConstantTypes
       DEF Next, Environment, N8nStep, N8nBoots, N8nWrites, N8nExits, DaemonRestarts, vars,
           worldVars, TypeInv, TypeOK, WorldTypeOK, SafetyInv
<1>1. ASSUME NEW d, Written(d) PROVE d \in Content => \A r \in d.hist : r =< rev'
    <2>1. d \in Content => \A r \in d.hist : r \in Nat
        BY ConstantTypes DEF Content
    <2> QED BY <1>0, <1>1, <2>1 DEF Written
<1>2. ASSUME NEW v \in Vols, vol'[v] \in Content PROVE \A r \in vol'[v].hist : r =< rev'
    <2>1. CASE vol'[v] = vol[v]
        BY <1>1, <1>2, <2>1 DEF Numbered
    <2>2. CASE UntarsInto(v)
        <3>1. job.src # None /\ job.src \in Bundle
            BY <2>2, RestoreFacts, ConstantTypes DEF UntarsInto, RestoreSteps
        <3>2. Written(job.src.data)
            BY <3>1 DEF KeyInv, SourceThere, Numbered
        <3>3. /\ job.src.data \in Content => \A r \in job.src.data.hist : r =< rev'
              /\ vol[v] \in Content => \A r \in vol[v].hist : r =< rev'
            BY <1>1, <3>2 DEF Numbered
        <3> QED BY <2>2, <3>3 DEF UntarsInto
    <2>3. CASE Environment /\ vol'[v] # vol[v]
        <3>1. rev' = rev + 1 /\ (vol'[v].hist = {rev + 1} \/
                 (vol[v] \in Content /\ vol'[v].hist = vol[v].hist \cup {rev + 1}))
            <4>1. vol[v] \in Content => [vol[v] EXCEPT !.hist = @ \cup {rev + 1}].hist
                                         = vol[v].hist \cup {rev + 1}
                BY DEF Content
            <4>2. N8nStep
                BY <2>3 DEF Environment
            <4>3. /\ rev' = rev + 1
                  /\ \/ vol'[v] = [key |-> ctr.key, hist |-> {rev + 1}, whole |-> TRUE]
                     \/ /\ vol[v] \in Content
                        /\ vol'[v] = [vol[v] EXCEPT !.hist = @ \cup {rev + 1}]
                BY <2>3, <4>2, N8nData
            <4>4. CASE vol'[v] = [key |-> ctr.key, hist |-> {rev + 1}, whole |-> TRUE]
                BY <4>3, <4>4
            <4> QED BY <4>1, <4>3, <4>4
        <3>2. vol[v] \in Content => \A r \in vol[v].hist : r =< rev'
            BY <1>1 DEF Numbered
        <3> QED BY <1>0, <3>1, <3>2
    <2>4. CASE Start \/ Step \/ Abort
        BY <1>2, <2>1, <2>2, <2>4, StepData DEF OnlyUntars, SafetyInv
    <2>5. CASE UNCHANGED vars
        BY <2>1, <2>5 DEF vars, worldVars
    <2> QED BY <2>1, <2>3, <2>4, <2>5 DEF Next
<1>3. ASSUME NEW n \in BundleNames, bundles'[n] \in Bundle, bundles'[n].data \in Content
      PROVE  \A r \in bundles'[n].data.hist : r =< rev'
    <2>1. CASE bundles'[n] = bundles[n]
        BY <1>1, <1>3, <2>1 DEF Numbered
    <2>2. CASE bundles'[n] = Sealed
        BY <1>1, <1>3, <2>2 DEF Numbered, Sealed
    <2> QED BY <1>3, <2>1, <2>2, StepBundles, ConstantTypes DEF BWrite, TypeInv, TypeOK
<1>4. ASSUME bk'.snap \in Content PROVE \A r \in bk'.snap.hist : r =< rev'
    <2>1. CASE bk'.snap = bk.snap
        BY <1>1, <1>4, <2>1 DEF Numbered
    <2>2. CASE BCapture
        <3>1. bk.rec.vol \in Vols
            BY <2>2, CapturedVolume DEF BCapture, BackupSteps, BackupTry, SafetyInv
        <3>2. bk'.snap = vol'[bk.rec.vol]
            BY <2>2 DEF BCapture, TypeInv, TypeOK, BackupLocals
        <3> QED BY <1>2, <1>4, <3>1, <3>2
    <2>3. CASE bk' = NoBk
        BY <1>4, <2>3, ConstantTypes DEF NoBk
    <2>4. bk'.snap = bk.snap \/ BCapture \/ bk' = NoBk
        <3>1. \/ bk' = bk
              \/ BCapture
              \/ bk' = NoBk
              \/ BCheck \/ BRecovery \/ BPs \/ BWrite
              \/ bk' = [bk EXCEPT !.ok = FALSE]
            BY DEF Next, Start, StartBackup, StartRestore, Step, BackupStep, RestoreStep,
               RollbackStep, BStop, BRecord, BStart, BWait, RContext, RDown, REnv, RPort,
               RCompose, RVolume, RUntar, RUpsert, RUp, RWait, XDown, XVolume, XCompose, XEnv,
               XUpsert, XUp, XWait, Goto, BackupReturns, EndCommand, Raise, Abort, Environment,
               vars, localVars
        <3> QED BY <3>1, WriteLocals DEF BCheck, BRecovery, BPs, TypeInv, TypeOK, BackupLocals
    <2> QED BY <2>1, <2>2, <2>3, <2>4
<1> QED BY <1>2, <1>3, <1>4 DEF Numbered, Written

(***************************************************************************)
(* 7. backup and restore are indivisible                                   *)
(*                                                                         *)
(* The refinement mapping shows the instance a rollback would bring back   *)
(* as long as there is one.  So the steps of AtomicInstance are:           *)
(*   BWrite                             Save                               *)
(*   RUpsert of a plain restore         Restore                            *)
(*   RWait of a replace                 Restore                            *)
(*   n8n writes on the shown volume     Write                              *)
(*   a replace killed, a failed rollback    Break                          *)
(* and every other step leaves instance and archive as they were.          *)
(***************************************************************************)

\* What a replace has put in the new volume: the bundle's data, and what n8n
\* has written since, nothing of the instance put aside.
OldHistory == IF vol[rb.rec.vol] \in Content THEN vol[rb.rec.vol].hist ELSE {}
NewData ==
    rb # None /\ pc \in {"r_up", "r_wait"} =>
        Promise!Descends(vol[rvol], env.key, job.src.data, OldHistory)

LEMMA NewDataWritten ==
    ASSUME AllInv, AgreeInv, Numbered, NewData, rb # None, pc = "r_wait", N8nStep,
           vol'[rvol] # vol[rvol], rvol \in Vols
    PROVE  Promise!Descends(vol'[rvol], env.key, job.src.data, OldHistory)
<1> DEFINE d == vol[rvol]
           e == vol'[rvol]
           b == job.src.data
<1>1. /\ ctr # None /\ rvol = ctr.vol /\ ctr.key = env.key
      /\ rev \in Nat /\ Opens(d, env)
    BY N8nData, ConstantTypes
       DEF AllInv, RestInv, RestoredVolume, Runs, TypeInv, TypeOK, WorldTypeOK, AgreeInv
<1>2. rev + 1 \notin OldHistory
    <2>1. rb.rec.vol \in Vols
        BY DEF AllInv, TypeInv, TypeOK, Context, InstanceRecord
    <2>2. rev + 1 \in OldHistory => rev + 1 =< rev
        BY <2>1 DEF OldHistory, Numbered, Written
    <2> QED BY <1>1, <2>2
<1>3. Promise!Descends(d, env.key, b, OldHistory)
    BY DEF NewData
<1>4. CASE d = Empty /\ e = [key |-> ctr.key, hist |-> {rev + 1}, whole |-> TRUE] /\ e \in Content
    <2>1. b = Empty
        BY <1>3, <1>4, ConstantTypes DEF Promise!Descends
    <2>2. e.key = env.key /\ e.hist = {rev + 1}
        BY <1>1, <1>4
    <2>3. e.hist \cap OldHistory = {}
        BY <1>2, <2>2
    <2> QED BY <1>4, <2>1, <2>2, <2>3 DEF Promise!Descends
<1>5. CASE d \in Content /\ e = [d EXCEPT !.hist = @ \cup {rev + 1}] /\ e \in Content
    <2>1. e.key = d.key /\ e.whole = d.whole /\ e.hist = d.hist \cup {rev + 1} /\ d.key = env.key
        BY <1>1, <1>5 DEF Content, Opens
    <2>2. CASE b = Empty
        <3>1. d.hist \cap OldHistory = {}
            BY <1>3, <1>5, <2>2, ConstantTypes DEF Promise!Descends
        <3>2. e.hist \cap OldHistory = {}
            BY <1>2, <2>1, <3>1
        <3> QED BY <1>5, <2>1, <2>2, <3>2 DEF Promise!Descends
    <2>3. CASE b # Empty
        <3>1. /\ d.key = b.key /\ d.whole = b.whole /\ b.hist \subseteq d.hist
              /\ (d.hist \ b.hist) \cap OldHistory = {}
            BY <1>3, <1>5, <2>3 DEF Promise!Descends
        <3>2. (e.hist \ b.hist) \cap OldHistory = {} /\ b.hist \subseteq e.hist
            BY <1>2, <2>1, <3>1
        <3> QED BY <1>5, <2>1, <2>3, <3>1, <3>2 DEF Promise!Descends
    <2> QED BY <2>2, <2>3
<1> QED BY <1>4, <1>5, N8nData DEF AllInv

LEMMA NewDataKept ==
    ASSUME AllInv, AgreeInv, Numbered, NewData, [Next]_vars
    PROVE  NewData'
<1> USE DEF localVars, fileVars, dockerVars
<1> SUFFICES ASSUME rb' # None, pc' \in {"r_up", "r_wait"}
             PROVE  Promise!Descends(vol'[rvol'], env'.key, job'.src.data, OldHistory')
    BY DEF NewData, Promise!Descends
<1>1. CASE RUpsert
    <2>1. /\ UNCHANGED <<vol, rvol, job>> /\ vol[rvol] = job.src.data
        BY <1>1 DEF RUpsert, Goto, AllInv, RestInv, RestoredVolume
    <2> QED BY <2>1 DEF Promise!Descends
<1>2. CASE RUp
    <2>1. /\ UNCHANGED <<env, rvol, job, rb>> /\ pc = "r_up" /\ rb # None /\ rvol \in Vols
          /\ Opens(vol[rvol], env)
        BY <1>2, NamedVolume DEF RUp, Goto, AgreeInv, AllInv, SafetyInv, Named
    <2>2. KeepsAll
        BY <1>2, <2>1, UpKeeps DEF AllInv, Step, RestoreStep
    <2>3. vol'[rvol] = vol[rvol]
        BY <2>1, <2>2 DEF KeepsAll, Opens
    <2>4. vol'[rb.rec.vol] = vol[rb.rec.vol]
        <3>1. rb.rec.vol \in Vols /\ vol[rb.rec.vol] # None
            BY <2>1 DEF AllInv, TypeInv, TypeOK, Context, InstanceRecord, AgreeInv, Coherent, Opens
        <3> QED BY <2>2, <3>1 DEF KeepsAll
    <2>5. OldHistory' = OldHistory
        BY <2>1, <2>4 DEF OldHistory
    <2>6. Promise!Descends(vol[rvol], env.key, job.src.data, OldHistory)
        BY <2>1 DEF NewData
    <2> QED BY <2>1, <2>3, <2>5, <2>6
<1>3. CASE UNCHANGED vars
    BY <1>3 DEF vars, worldVars, NewData, OldHistory, Promise!Descends
<1>4. CASE Environment
    <2>1. /\ UNCHANGED <<env, rvol, job, rb, pc>> /\ rvol \in Vols /\ rvol = clock
          /\ ctr = None => vol' = vol
        BY <1>4, IdleStep, NamedVolume DEF AllInv, SafetyInv, Named
    <2>2. /\ rb.rec.vol \in Vols /\ rb.rec.vol # rvol
          /\ Promise!Descends(vol[rvol], env.key, job.src.data, OldHistory)
        BY <2>1, PlacedTypes
           DEF NewData, AllInv, SafetyInv, Placed, TypeInv, TypeOK, Context, InstanceRecord
    <2>3. vol'[rb.rec.vol] = vol[rb.rec.vol]
        <3>1. ctr # None => ctr.vol = rvol
            BY <2>1 DEF AllInv, RestInv, RestoredVolume, RestoredFiles, Runs, Containerless
        <3> QED BY <1>4, <2>1, <2>2, <3>1, N8nData DEF Environment, AllInv
    <2>4. OldHistory' = OldHistory
        BY <2>1, <2>3 DEF OldHistory
    <2>5. CASE vol'[rvol] = vol[rvol]
        BY <2>1, <2>2, <2>4, <2>5
    <2>6. CASE vol'[rvol] # vol[rvol]
        <3>1. pc = "r_wait"
            BY <2>1, <2>6 DEF AllInv, RestInv, RestoredVolume, Containerless
        <3>2. Promise!Descends(vol'[rvol], env.key, job.src.data, OldHistory)
            BY <1>4, <2>1, <2>6, <3>1, NewDataWritten DEF Environment
        <3> QED BY <2>1, <2>4, <3>2
    <2> QED BY <2>5, <2>6
<1> QED BY <1>1, <1>2, <1>3, <1>4, Moves DEF AllInv

\* The two state functions AtomicInstance is instantiated with.
Inst == IF rb # None THEN View(rb.rec, rb.env) ELSE View(reg, env)
Archive == {[key |-> bundles[n].env.key, data |-> bundles[n].data] :
               n \in {m \in BundleNames : bundles[m] \in Bundle}}

\* No instance is recorded as None.
LEMMA ViewThere ==
    ASSUME TypeInv, NEW rec \in InstanceRecord, NEW e \in EnvFile
    PROVE  View(rec, e) # None
<1>1. [key |-> e.key, port |-> rec.port, data |-> vol[rec.vol]]
          \in [key: Keys \cup {None}, port: Ports, data: Content \cup {None, Empty}]
    BY DEF InstanceRecord, EnvFile, TypeInv, TypeOK, WorldTypeOK
<1> QED BY <1>1, BackupAssumption, ConstantTypes DEF View

LEMMA InstThere ==
    ASSUME AllInv, AgreeInv
    PROVE  /\ rb # None => Inst = [key |-> rb.env.key, port |-> rb.rec.port,
                                    data |-> vol[rb.rec.vol]]
                            /\ Inst # None
           /\ rb = None /\ reg # None =>
                  Inst = [key |-> env.key, port |-> reg.port, data |-> vol[reg.vol]] /\ Inst # None
           /\ rb = None /\ reg = None => Inst = None
<1>1. ASSUME rb # None PROVE /\ rb.rec \in InstanceRecord /\ rb.env \in EnvFile /\ rb.rec # None
    BY <1>1, ConstantTypes DEF AllInv, TypeInv, TypeOK, Context
<1>2. ASSUME rb = None, reg # None PROVE reg \in InstanceRecord /\ env \in EnvFile
    BY <1>2 DEF AllInv, TypeInv, TypeOK, WorldTypeOK, AgreeInv, Coherent
<1> QED BY <1>1, <1>2, ViewThere DEF Inst, View, AllInv

HistoryOf(i) == IF i = None \/ i.data \notin Content THEN {} ELSE i.data.hist

\* The steps of AtomicInstance, said of Inst and Archive.
LEMMA AbstractSteps ==
    /\ (/\ Inst # None
        /\ \E r \in Revs \ HistoryOf(Inst) :
              Inst' = [Inst EXCEPT !.data =
                          [key |-> Inst.key, hist |-> HistoryOf(Inst) \cup {r}, whole |-> TRUE]]
        /\ Archive' = Archive /\ broken' = broken) => Promise!Write
    /\ (/\ Inst # None
        /\ Archive' = Archive \cup {[key |-> Inst.key, data |-> Inst.data]}
        /\ Inst' = Inst /\ broken' = broken) => Promise!Save
    /\ (/\ Inst' # None /\ Inst'.port \in Ports
        /\ \E b \in Archive : /\ Inst'.key = b.key
                              /\ Promise!Descends(Inst'.data, b.key, b.data, HistoryOf(Inst))
        /\ Archive' = Archive /\ broken' = broken) => Promise!Restore
    /\ Inst' = Inst /\ Archive' = Archive /\ broken' = broken => UNCHANGED Promise!absVars
<1>1. HistoryOf(Inst) = Promise!History(IF rb # None THEN View(rb.rec, rb.env) ELSE View(reg, env))
    BY DEF HistoryOf, Promise!History, Inst
<1> QED BY <1>1 DEF Promise!Write, Promise!Save, Promise!Restore, Promise!absVars, Inst, Archive

LEMMA RecordThere ==
    ASSUME NEW k \in Keys \cup {None}, NEW p \in Ports, NEW d \in Content \cup {None, Empty}
    PROVE  [key |-> k, port |-> p, data |-> d] # None
BY BackupAssumption

\* A command changes the instance in two steps only.
LEMMA InstStays ==
    ASSUME AllInv, AgreeInv, [Next]_vars, ~broken', ~Environment,
           RUpsert => rb # None, RWait => rb = None
    PROVE  Inst' = Inst
<1> USE DEF worldVars, fileVars, dockerVars
<1>1. CASE rb # None /\ rb' # None
    <2>1. rb' = rb
        BY <1>1, ContextMade DEF RContext, AllInv, TypeInv, LocalsOK
    <2>2. vol'[rb.rec.vol] = vol[rb.rec.vol]
        BY <1>1, AsideOpens
    <2> QED BY <1>1, <2>1, <2>2 DEF Inst, View
<1>2. CASE rb # None /\ rb' = None
    <2>1. XUpsert \/ XWait
        BY <1>2, ContextEnds DEF AllInv
    <2>2. vol'[rb.rec.vol] = vol[rb.rec.vol]
        BY <1>2, AsideOpens
    <2>3. reg' = rb.rec /\ env' = rb.env
        BY <2>1 DEF XUpsert, XWait, AgreeInv
    <2> QED BY <1>2, <2>2, <2>3 DEF Inst, View
<1>3. CASE rb = None /\ rb' # None
    <2>1. RContext
        BY <1>3, ContextMade DEF AllInv
    <2>2. job.rec = reg
        BY <2>1 DEF RContext, AllInv, TypeInv, LocalsOK, SameRecord, Backing
    <2>3. rb'.rec = reg /\ rb'.env = env /\ vol' = vol
        BY <2>1, <2>2 DEF RContext
    <2> QED BY <1>3, <2>3 DEF Inst, View
<1>4. CASE rb = None /\ rb' = None /\ reg # None
    <2>1. UNCHANGED <<env, reg>> /\ vol'[reg.vol] = vol[reg.vol]
        BY <1>4, AtRest, FilesStay, RestOpens DEF AllInv
    <2> QED BY <1>4, <2>1 DEF Inst, View
<1>5. CASE rb = None /\ rb' = None /\ reg = None
    <2>1. ~RUpsert /\ ~XUpsert
        BY <1>5 DEF XUpsert, AllInv, TypeInv, LocalsOK, RollbackSteps
    <2>2. reg' = None
        BY <1>5, <2>1, StepRows DEF AllInv
    <2> QED BY <1>5, <2>2 DEF Inst, View
<1> QED BY <1>1, <1>2, <1>3, <1>4, <1>5

LEMMA ArchiveSteps ==
    ASSUME AllInv, [Next]_vars
    PROVE  /\ BWrite => Archive' = Archive \cup {[key |-> env.key, data |-> bk.snap]}
           /\ ~BWrite => Archive' = Archive
<1>1. CASE bundles' = bundles /\ ~BWrite
    BY <1>1 DEF Archive
<1>2. ASSUME pc = "b_write" PROVE bundles[Out] = None /\ Out \in BundleNames
    BY <1>2, BackupNamesType DEF AllInv, KeyInv, FreshNames, Unwritten
<1>3. CASE pc = "b_write" /\ bundles' = [bundles EXCEPT ![Out] = Torn] /\ ~BWrite
    <2>1. \A n \in BundleNames : bundles'[n] = IF n = Out THEN Torn ELSE bundles[n]
        BY <1>2, <1>3 DEF AllInv, TypeInv, TypeOK
    <2>2. \A n \in BundleNames : /\ bundles'[n] \in Bundle <=> bundles[n] \in Bundle
                                 /\ bundles[n] \in Bundle => bundles'[n] = bundles[n]
        BY <1>2, <1>3, <2>1, ConstantTypes
    <2> QED BY <1>3, <2>2 DEF Archive
<1>4. CASE BWrite
    <2>1. pc = "b_write" /\ env # None /\ bundles' = [bundles EXCEPT ![Out] = Sealed]
        BY <1>4 DEF BWrite
    <2>2. Sealed \in Bundle /\ Sealed.env = env /\ Sealed.data = bk.snap
        BY <2>1, SealedType DEF Sealed, AllInv, BackupSteps, BackupTry
    <2>3. \A n \in BundleNames : bundles'[n] = IF n = Out THEN Sealed ELSE bundles[n]
        BY <1>2, <2>1 DEF AllInv, TypeInv, TypeOK
    <2>4. \A n \in BundleNames : /\ bundles'[n] \in Bundle <=> (n = Out \/ bundles[n] \in Bundle)
                                 /\ bundles[n] \in Bundle => bundles'[n] = bundles[n]
        BY <1>2, <2>1, <2>2, <2>3, ConstantTypes
    <2>5. bundles'[Out] = Sealed /\ Out \in BundleNames
        BY <1>2, <2>1, <2>3
    <2> QED BY <1>4, <2>2, <2>4, <2>5 DEF Archive
<1> QED BY <1>1, <1>3, <1>4, StepBundles DEF AllInv

\* What n8n does to the instance.
LEMMA InstWritten ==
    ASSUME AllInv, Numbered, N8nStep, NEW w \in Vols, NEW k, NEW p, Inst # None,
           Inst = [key |-> k, port |-> p, data |-> vol[w]],
           Inst' = [key |-> k, port |-> p, data |-> vol'[w]],
           vol'[w] # vol[w], vol'[w].key = k, vol'[w].whole,
           Archive' = Archive, broken' = broken
    PROVE  Promise!Write
<1>1. /\ rev + 1 \in Revs /\ rev \in Nat /\ vol'[w] \in Content
      /\ \/ vol[w] = Empty /\ vol'[w].hist = {rev + 1}
         \/ vol[w] \in Content /\ vol'[w].hist = vol[w].hist \cup {rev + 1}
    <2>1. vol[w] \in Content => [vol[w] EXCEPT !.hist = @ \cup {rev + 1}].hist
                                   = vol[w].hist \cup {rev + 1}
        BY DEF Content
    <2>2. rev \in Nat
        BY ConstantTypes DEF AllInv, TypeInv, TypeOK, WorldTypeOK
    <2>3. /\ rev' = rev + 1 /\ rev' \in Revs /\ vol'[w] \in Content
          /\ \/ vol[w] = Empty /\ vol'[w] = [key |-> ctr.key, hist |-> {rev + 1}, whole |-> TRUE]
             \/ vol[w] \in Content /\ vol'[w] = [vol[w] EXCEPT !.hist = @ \cup {rev + 1}]
        BY N8nData DEF AllInv
    <2>4. CASE vol'[w] = [key |-> ctr.key, hist |-> {rev + 1}, whole |-> TRUE] /\ vol[w] = Empty
        BY <2>2, <2>3, <2>4
    <2> QED BY <2>1, <2>2, <2>3, <2>4
<1>2. HistoryOf(Inst) = IF vol[w] \in Content THEN vol[w].hist ELSE {}
    BY DEF HistoryOf
<1>3. rev + 1 \notin HistoryOf(Inst) /\ vol'[w].hist = HistoryOf(Inst) \cup {rev + 1}
    <2>1. vol[w] \in Content => rev + 1 \notin vol[w].hist
        BY <1>1 DEF Numbered, Written
    <2> QED BY <1>1, <1>2, <2>1, ConstantTypes
<1>4. vol'[w] = [key |-> k, hist |-> HistoryOf(Inst) \cup {rev + 1}, whole |-> TRUE]
    BY <1>1, <1>3 DEF Content
<1>5. Inst' = [Inst EXCEPT !.data =
                  [key |-> Inst.key, hist |-> HistoryOf(Inst) \cup {rev + 1}, whole |-> TRUE]]
    <2> DEFINE H == HistoryOf(Inst) \cup {rev + 1}
               D == [key |-> k, hist |-> H, whole |-> TRUE]
    <2>1. Inst.key = k
        OBVIOUS
    <2>2. vol'[w] = D
        BY <1>4
    <2>3. [key |-> Inst.key, hist |-> H, whole |-> TRUE] = D
        BY <2>1
    <2> HIDE DEF D
    <2>4. Inst' = [key |-> k, port |-> p, data |-> D]
        BY <2>2
    <2>5. [Inst EXCEPT !.data = D] = [key |-> k, port |-> p, data |-> D]
        OBVIOUS
    <2> QED BY <2>3, <2>4, <2>5
<1> QED BY <1>1, <1>3, <1>5, AbstractSteps

LEMMA EnvironmentImplements ==
    ASSUME AllInv, AgreeInv, Numbered, Environment
    PROVE  Promise!Write \/ UNCHANGED Promise!absVars
<1> USE DEF storeVars, localVars, ghostVars
<1>1. UNCHANGED <<env, reg, rb>> /\ Archive' = Archive /\ broken' = broken /\ N8nStep
    BY IdleStep DEF Environment, Archive, AllInv
<1>2. CASE rb # None
    <2>1. /\ Inst = [key |-> rb.env.key, port |-> rb.rec.port, data |-> vol[rb.rec.vol]]
          /\ Inst # None /\ rb.rec.vol \in Vols /\ rb.rec # None
        BY <1>2, InstThere, ConstantTypes DEF AllInv, TypeInv, TypeOK, Context, InstanceRecord
    <2>2. Inst' = [key |-> rb.env.key, port |-> rb.rec.port, data |-> vol'[rb.rec.vol]]
        BY <1>1, <1>2, <2>1 DEF Inst, View
    <2>3. Opens(vol'[rb.rec.vol], rb.env)
        BY <1>2, AsideOpens DEF Next
    <2>4. CASE vol'[rb.rec.vol] = vol[rb.rec.vol]
        BY <1>1, <2>1, <2>2, <2>4, AbstractSteps
    <2>5. CASE vol'[rb.rec.vol] # vol[rb.rec.vol]
        <3>1. vol'[rb.rec.vol] \in Content
            BY <1>1, <2>1, <2>5, N8nData DEF AllInv
        <3>2. vol'[rb.rec.vol].key = rb.env.key /\ vol'[rb.rec.vol].whole
            BY <2>3, <3>1 DEF Opens
        <3> QED BY <1>1, <2>1, <2>2, <2>5, <3>2, InstWritten
    <2> QED BY <2>4, <2>5
<1>3. CASE rb = None /\ reg # None
    <2>1. /\ Inst = [key |-> env.key, port |-> reg.port, data |-> vol[reg.vol]]
          /\ Inst # None /\ reg.vol \in Vols
        BY <1>3, InstThere DEF AllInv, TypeInv, TypeOK, WorldTypeOK, InstanceRecord
    <2>2. Inst' = [key |-> env.key, port |-> reg.port, data |-> vol'[reg.vol]]
        BY <1>1, <1>3 DEF Inst, View
    <2>3. Opens(vol'[reg.vol], env)
        BY <1>3, RestOpens DEF Next
    <2>4. CASE vol'[reg.vol] = vol[reg.vol]
        BY <1>1, <2>1, <2>2, <2>4, AbstractSteps
    <2>5. CASE vol'[reg.vol] # vol[reg.vol]
        <3>1. vol'[reg.vol] \in Content
            BY <1>1, <2>1, <2>5, N8nData DEF AllInv
        <3>2. vol'[reg.vol].key = env.key /\ vol'[reg.vol].whole
            BY <2>3, <3>1 DEF Opens
        <3> QED BY <1>1, <2>1, <2>2, <2>5, <3>2, InstWritten
    <2> QED BY <2>4, <2>5
<1>4. CASE rb = None /\ reg = None
    <2>1. Inst' = Inst
        BY <1>1, <1>4 DEF Inst, View
    <2> QED BY <1>1, <2>1, AbstractSteps
<1> QED BY <1>2, <1>3, <1>4

LEMMA SaveImplements ==
    ASSUME AllInv, AgreeInv, RunsInv, BWrite, ~broken'
    PROVE  Promise!Save
<1>1. pc = "b_write" /\ broken' = broken
    BY DEF BWrite, Goto, ghostVars
<1>2. /\ rb = None /\ reg # None /\ bk.rec = reg /\ bk.snap = vol[reg.vol]
    BY <1>1, CaptureOpens DEF RunsInv
<1>3. Inst = [key |-> env.key, port |-> reg.port, data |-> vol[reg.vol]] /\ Inst # None
    BY <1>2, InstThere
<1>4. [Next]_vars /\ ~Environment /\ ~RUpsert /\ ~RWait
    BY <1>1 DEF Next, Step, BackupStep, BWrite, Goto, Environment, RUpsert, RWait
<1>5. Inst' = Inst
    BY <1>4, InstStays
<1>6. Archive' = Archive \cup {[key |-> env.key, data |-> bk.snap]}
    BY <1>4, ArchiveSteps
<1>7. Inst.key = env.key /\ Inst.data = bk.snap
    BY <1>2, <1>3
<1> QED BY <1>1, <1>3, <1>5, <1>6, <1>7, AbstractSteps

\* The bundle of a restore is in the archive.
LEMMA SourceArchived ==
    ASSUME AllInv, pc \in RestoreSteps
    PROVE  [key |-> job.src.env.key, data |-> job.src.data] \in Archive
<1>1. PICK n \in BundleNames : bundles[n] = job.src
    BY DEF AllInv, KeyInv, SourceThere, TypeInv, LocalsOK
<1>2. job.src \in Bundle
    BY RestoreFacts DEF AllInv
<1> QED BY <1>1, <1>2 DEF Archive

LEMMA PlainRestoreImplements ==
    ASSUME AllInv, AgreeInv, RUpsert, rb = None
    PROVE  Promise!Restore
<1>1. /\ pc \in RestoreSteps /\ pc \in AfterPort /\ pc \in Named /\ pc = "r_upsert"
      /\ UNCHANGED <<env, vol, rb, broken, bundles>>
      /\ reg' = [vol |-> rvol, port |-> RestoredPort]
    BY DEF RUpsert, Goto, RestoreSteps, AfterPort, Named, dockerVars, storeVars, localVars,
           ghostVars
<1>2. /\ vol[rvol] = job.src.data /\ env = [job.src.env EXCEPT !.port = RestoredPort]
      /\ job.src.env \in EnvFile /\ RestoredPort \in Ports /\ rvol \in Vols
      /\ job.src.data \in Content \cup {Empty}
    BY <1>1, RestoreFacts DEF AllInv, RestInv, RestoredFiles, RestoredVolume
<1>3. env.key = job.src.env.key /\ env.key \in Keys \cup {None}
    BY <1>2 DEF EnvFile
<1>4. Inst' = [key |-> env.key, port |-> RestoredPort, data |-> job.src.data]
    <2>1. reg' # None
        BY <1>1, <1>2, ConstantTypes DEF InstanceRecord
    <2> QED BY <1>1, <1>2, <2>1 DEF Inst, View
<1>5. Inst' # None
    BY <1>2, <1>3, <1>4, RecordThere
<1>6. Archive' = Archive
    BY <1>1 DEF Archive
<1>7. \E b \in Archive : /\ Inst'.key = b.key
                         /\ Promise!Descends(Inst'.data, b.key, b.data, HistoryOf(Inst))
    <2> DEFINE b == [key |-> job.src.env.key, data |-> job.src.data]
    <2>1. b \in Archive
        BY <1>1, SourceArchived
    <2>2. Inst'.key = b.key /\ Inst'.data = b.data
        BY <1>3, <1>4
    <2> QED BY <2>1, <2>2 DEF Promise!Descends
<1>8. Inst'.port \in Ports
    BY <1>2, <1>4
<1> QED BY <1>1, <1>5, <1>6, <1>7, <1>8, AbstractSteps

LEMMA ReplaceImplements ==
    ASSUME AllInv, AgreeInv, NewData, RWait, rb # None
    PROVE  Promise!Restore
<1>1. /\ pc \in RestoreSteps /\ pc \in AfterPort /\ pc \in AfterCompose /\ pc \in Named
      /\ pc = "r_wait" /\ rb' = None
      /\ UNCHANGED <<env, vol, reg, broken, bundles>>
    BY DEF RWait, EndCommand, RestoreSteps, AfterPort, AfterCompose, Named, worldVars, storeVars
<1>2. /\ reg = [vol |-> rvol, port |-> RestoredPort]
      /\ env = [job.src.env EXCEPT !.port = RestoredPort]
      /\ job.src.env \in EnvFile /\ RestoredPort \in Ports /\ rvol \in Vols
    BY <1>1, RestoreFacts DEF AllInv, RestInv, RestoredFiles
<1>3. env.key = job.src.env.key /\ env.key \in Keys \cup {None}
    BY <1>2 DEF EnvFile
<1>4. Inst' = [key |-> env.key, port |-> RestoredPort, data |-> vol[rvol]]
    <2>1. reg # None
        BY <1>2, ConstantTypes DEF InstanceRecord
    <2> QED BY <1>1, <1>2, <2>1 DEF Inst, View
<1>5. Inst' # None
    <2>1. vol[rvol] \in Content \cup {None, Empty}
        BY <1>2 DEF AllInv, TypeInv, TypeOK, WorldTypeOK
    <2> QED BY <1>2, <1>3, <1>4, <2>1, RecordThere
<1>6. Archive' = Archive
    BY <1>1 DEF Archive
<1>7. HistoryOf(Inst) = OldHistory
    <2>1. Inst # None /\ Inst = [key |-> rb.env.key, port |-> rb.rec.port, data |-> vol[rb.rec.vol]]
        BY InstThere
    <2>2. Inst.data = vol[rb.rec.vol]
        BY <2>1
    <2> QED BY <2>1, <2>2 DEF HistoryOf, OldHistory
<1>8. \E b \in Archive : /\ Inst'.key = b.key
                         /\ Promise!Descends(Inst'.data, b.key, b.data, HistoryOf(Inst))
    <2> DEFINE b == [key |-> job.src.env.key, data |-> job.src.data]
    <2>1. b \in Archive
        BY <1>1, SourceArchived
    <2>2. Inst'.key = b.key /\ Inst'.data = vol[rvol] /\ b.key = env.key /\ b.data = job.src.data
        BY <1>3, <1>4
    <2>3. Promise!Descends(vol[rvol], env.key, job.src.data, OldHistory)
        BY <1>1 DEF NewData
    <2>4. Promise!Descends(Inst'.data, b.key, b.data, HistoryOf(Inst))
        BY <1>7, <2>2, <2>3
    <2> HIDE DEF b
    <2> QED BY <2>1, <2>2, <2>4
<1>9. Inst'.port \in Ports
    BY <1>2, <1>4
<1> QED BY <1>1, <1>5, <1>6, <1>8, <1>9, AbstractSteps

LEMMA StepImplements ==
    ASSUME AllInv, RunsInv, ~broken => AgreeInv /\ Numbered /\ NewData, [Next]_vars
    PROVE  [Promise!Next]_(Promise!absVars)
<1>0. broken \in BOOLEAN /\ broken' \in BOOLEAN
    BY TypeStep DEF AllInv, TypeInv, TypeOK
<1>1. CASE broken
    BY <1>0, <1>1, BrokenStays DEF AllInv, Promise!Next
<1>2. CASE ~broken /\ broken'
    BY <1>2 DEF Promise!Next, Promise!Break
<1>3. CASE ~broken /\ ~broken'
    <2>0. AgreeInv /\ Numbered /\ NewData /\ broken' = broken
        BY <1>0, <1>3
    <2>1. CASE Environment
        BY <1>3, <2>0, <2>1, EnvironmentImplements DEF Promise!Next
    <2>2. CASE BWrite
        BY <1>3, <2>0, <2>2, SaveImplements DEF Promise!Next
    <2>3. CASE RUpsert /\ rb = None
        BY <1>3, <2>0, <2>3, PlainRestoreImplements DEF Promise!Next
    <2>4. CASE RWait /\ rb # None
        BY <1>3, <2>0, <2>4, ReplaceImplements DEF Promise!Next
    <2>5. CASE ~Environment /\ ~BWrite /\ (RUpsert => rb # None) /\ (RWait => rb = None)
        <3>1. Inst' = Inst
            BY <1>3, <2>0, <2>5, InstStays
        <3>2. Archive' = Archive
            BY <2>5, ArchiveSteps
        <3> QED BY <2>0, <3>1, <3>2, AbstractSteps
    <2> QED BY <2>1, <2>2, <2>3, <2>4, <2>5
<1> QED BY <1>0, <1>1, <1>2, <1>3

LEMMA InitImplements ==
    ASSUME "adoptable" \notin InitKinds, Init
    PROVE  Promise!Init
<1> USE ConstantTypes
<1>1. PICK kind \in InitKinds : InitInstance(kind)
    BY DEF Init
<1>2. Inst \in [key: Keys, port: Ports, data: Content \cup {Empty}] \cup {None}
    <2>1. CASE reg = None
        BY <2>1 DEF Init, Inst, View
    <2>2. CASE reg # None
        <3>1. /\ env = [key |-> LocalKey, port |-> LocalPort]
              /\ reg = [vol |-> 0, port |-> LocalPort]
              /\ vol[0] = Empty \/ vol[0] = LocalData
            BY <1>1, <2>2 DEF InitInstance
        <3> QED BY <2>2, <3>1, LocalType DEF Init, Inst, View
    <2> QED BY <2>1, <2>2
<1>3. Archive \subseteq [key: Keys, data: Content]
    <2> SUFFICES ASSUME NEW n \in BundleNames, bundles[n] \in Bundle
                 PROVE  [key |-> bundles[n].env.key, data |-> bundles[n].data]
                            \in [key: Keys, data: Content]
        BY DEF Archive
    <2>1. bundles[n] = ForeignBundle
        BY DEF Init
    <2>2. [key |-> ForeignKey, hist |-> {0}, whole |-> TRUE] \in Content
        BY DEF Content
    <2> QED BY <2>1, <2>2 DEF ForeignBundle
<1>4. broken = FALSE
    BY DEF Init
<1> QED BY <1>2, <1>3, <1>4 DEF Promise!Init, Inst, Archive

LEMMA NumberedInit == Init => Numbered /\ NewData
<1> SUFFICES ASSUME Init PROVE Numbered /\ NewData
    OBVIOUS
<1> USE ConstantTypes
<1>1. PICK kind \in InitKinds : InitInstance(kind)
    BY DEF Init
<1>2. rev = 1 /\ bk = NoBk /\ rb = None
    BY DEF Init
<1>3. ASSUME NEW v \in Vols PROVE Written(vol[v])
    <2>1. vol[v] \in {Empty, None, LocalData}
        BY <1>1 DEF InitInstance
    <2>2. LocalData.hist = {1}
        BY DEF LocalData
    <2> QED BY <1>2, <2>1, <2>2 DEF Written
<1>4. ASSUME NEW n \in BundleNames, bundles[n] \in Bundle PROVE Written(bundles[n].data)
    <2>1. bundles[n] = ForeignBundle
        BY <1>4 DEF Init
    <2>2. bundles[n].data.hist = {0}
        BY <2>1 DEF ForeignBundle
    <2> QED BY <1>2, <2>2 DEF Written
<1>5. Written(bk.snap)
    BY <1>2 DEF NoBk, Written
<1> QED BY <1>2, <1>3, <1>4, <1>5 DEF Numbered, NewData

\* backup and restore, with all their steps, failures and rollbacks, and n8n writing
\* meanwhile, implement the indivisible operations of AtomicInstance: a replace takes
\* effect as a whole at its end or not at all, a new instance is exactly its bundle, a
\* bundle exactly the instance at one moment (backup.py:75-517).  Assumed besides: n8n
\* does not exit on its own, or a snapshot may be of no moment at all.
THEOREM Implements ==
    ASSUME SameSecond = FALSE, "adoptable" \notin InitKinds, CrashLoops = FALSE
    PROVE  Spec => Atomic
<1> DEFINE Inv == AllInv /\ RunsInv /\ Numbered /\ (~broken => AgreeInv /\ NewData)
<1>1. Init => Inv
    BY AgreeInit, NumberedInit, RunsInit
<1>2. Inv /\ [Next]_vars => Inv'
    <2> SUFFICES ASSUME Inv, [Next]_vars PROVE Inv'
        OBVIOUS
    <2>1. AllInv'
        BY ClockMoves, AllKept DEF AllInv
    <2>2. RunsInv' /\ Numbered'
        BY RunsKept, NumberedKept DEF AllInv
    <2> QED BY <2>1, <2>2, AgreeKept, NewDataKept, BrokenStays DEF AllInv
<1>3. Init => Promise!Init
    BY InitImplements
<1>4. Inv /\ [Next]_vars => [Promise!Next]_(Promise!absVars)
    BY StepImplements
<1> QED BY <1>1, <1>2, <1>3, <1>4, PTL DEF Spec, Atomic, Promise!Spec
=============================================================================
