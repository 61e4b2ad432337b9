---------------------------- MODULE BackupRestore ----------------------------
(***************************************************************************)
(* `lon backup` and `lon restore` (core/backup.py): one command at a time, *)
(* step by step, while n8n keeps writing, any step may raise, and the      *)
(* process may be killed between or in the middle of two steps.            *)
(*                                                                         *)
(* pc is the next statement of the running command that has an effect:     *)
(* b_* in backup_instance, r_* in restore_instance, x_* in                 *)
(* _rollback_replace_restore.  A check the code makes before a step is a   *)
(* guard of the action; when it fails only Raise is left.                  *)
(***************************************************************************)
EXTENDS InstanceWorld

CONSTANTS
    Passes,         \* the backup passphrases the user may type
    LocalKey, ForeignKey, ForeignPass,   \* of the instance, of a bundle made elsewhere
    LocalPort, ForeignPort,
    InitKinds,      \* the states the instance may be in before the first command
    MaxCommands,    \* bound: commands the user runs
    MaxAborts,      \* bound: how many of them are killed
    SameSecond      \* TRUE: a command may start in the second the last one did

Codes == 0..MaxCommands      \* recovery codes; 0 is the foreign bundle's
Secrets == Passes \cup Codes
Recovery == [pass: Secrets, code: Codes]
BundleNames == {"foreign", "backup", "safety"} \X Vols
Bundle == [data: Content \cup {Empty}, env: EnvFile, pass: Secrets, code: Codes,
           clean: BOOLEAN]

VARIABLES
    clock,      \* utc_now(), in seconds
    commands, aborts,   \* how many commands ran, how many were killed
    recov,      \* the instance's recovery.wrapped
    bundles,    \* the bundle files
    rows,       \* the backups table: location and checksum
    shown,      \* the recovery codes the user has been shown
    pc,
    job,        \* what was asked, and the opened bundle of a restore
    bk,         \* locals of backup_instance
    rb,         \* _ReplaceRollbackContext, once restore has made one
    rvol,       \* restored_volume, once restore has named it
    last,       \* how the last command ended
    broken      \* a replace was cut short, or its rollback failed

storeVars == <<recov, bundles, rows>>
localVars == <<job, bk, rb, rvol>>
ghostVars == <<shown, last, broken>>
countVars == <<clock, commands, aborts>>
vars == <<worldVars, storeVars, localVars, ghostVars, countVars, pc>>

\* Fault: no finally block.
BackupTryUnguarded == {}

BackupTry == {"b_stop", "b_capture", "b_write", "b_record"}

\* Fault: the wait for the web UI after a backup has no deadline.
BackupStepsUntimed == {"b_check", "b_recovery", "b_ps", "b_stop", "b_capture", "b_write",
                       "b_record", "b_start"}

BackupSteps == {"b_check", "b_recovery", "b_ps", "b_stop", "b_capture", "b_write",
                "b_record", "b_start", "b_wait"}
RestoreSteps == {"r_context", "r_down", "r_env", "r_port", "r_compose", "r_volume",
                 "r_untar", "r_upsert", "r_up", "r_wait"}

RollbackSteps == {"x_down", "x_volume", "x_compose", "x_env", "x_upsert", "x_up", "x_wait"}

Commands == {"none", "backup", "restore", "replace"}
Results == {"none", "ok", "failed", "not_restarted", "unreachable", "rolled_back",
            "rollback_failed", "aborted"}

\* The arguments of the running command; src is the bundle a restore has opened,
\* rec the existing record it has found, up whether n8n was running.
Job == [cmd: Commands, secret: Secrets, port: Ports \cup {None}, replace: BOOLEAN,
        src: Bundle \cup {None}, rec: InstanceRecord \cup {None}, up: BOOLEAN]
NoJob == [cmd |-> "none", secret |-> 0, port |-> None, replace |-> FALSE, src |-> None,
          rec |-> None, up |-> FALSE]

\* The locals of backup_instance; ok turns FALSE when the try block raises.
BackupLocals ==
    [rec: InstanceRecord \cup {None}, wasRunning: BOOLEAN, snap: Content \cup {Empty},
     clean: BOOLEAN, code: Codes, fresh: BOOLEAN, bundle: Bundle \cup {None}, ok: BOOLEAN]
NoBk == [rec |-> None, wasRunning |-> FALSE, snap |-> Empty, clean |-> FALSE,
         code |-> 0, fresh |-> FALSE, bundle |-> None, ok |-> TRUE]

\* _ReplaceRollbackContext
Context == [rec: InstanceRecord, compose: ComposeFile, env: EnvFile, up: BOOLEAN]

Row == [loc: BundleNames, sum: Bundle]
Outcome == [cmd: Commands, res: Results, up: BOOLEAN]

ASSUME BackupAssumption ==
    /\ {LocalKey, ForeignKey} \subseteq Keys
    /\ {LocalPort, ForeignPort} \subseteq Ports
    /\ ForeignPass \in Passes
    /\ InitKinds \subseteq {"none", "running", "booting", "stopped", "down", "adoptable"}
    /\ MaxCommands \in Nat /\ MaxAborts \in Nat /\ MaxCommands =< MaxTime
    /\ SameSecond \in BOOLEAN
    /\ \A x \in {None, Torn, Empty} : x \notin Bundle \cup Recovery \cup Context
    /\ None \notin [key: Keys \cup {None}, port: Ports, data: Content \cup {None, Empty}]

TypeOK ==
    /\ WorldTypeOK
    /\ clock \in Vols /\ commands \in 0..MaxCommands /\ aborts \in 0..MaxAborts
    /\ recov \in Recovery \cup {None, Torn}
    /\ bundles \in [BundleNames -> Bundle \cup {None, Torn}]
    /\ rows \in SUBSET Row
    /\ shown \in SUBSET Codes
    /\ pc \in {"idle"} \cup BackupSteps \cup RestoreSteps \cup RollbackSteps
    /\ job \in Job
    /\ bk \in BackupLocals
    /\ rb \in Context \cup {None}
    /\ rvol \in Vols \cup {None}
    /\ last \in Outcome
    /\ broken \in BOOLEAN

-----------------------------------------------------------------------------
LocalData == [key |-> LocalKey, hist |-> {1}, whole |-> TRUE]
ForeignBundle ==
    [data |-> [key |-> ForeignKey, hist |-> {0}, whole |-> TRUE],
     env |-> [key |-> ForeignKey, port |-> ForeignPort],
     pass |-> ForeignPass, code |-> 0, clean |-> TRUE]

\* What `lon up`, `lon stop`, `lon down` and a lost state.db may have left.
InitInstance(kind) ==
    LET some == kind # "none"
        st == IF kind = "stopped" THEN "exited" ELSE "running"
        data == IF kind = "booting" THEN Empty ELSE LocalData
    IN  /\ env = IF some THEN [key |-> LocalKey, port |-> LocalPort] ELSE None
        /\ compose = IF some THEN [vol |-> 0, ext |-> FALSE] ELSE None
        /\ reg = IF some /\ kind # "adoptable"
                 THEN [vol |-> 0, port |-> LocalPort] ELSE None
        /\ ctr = IF some /\ kind # "down"
                 THEN [st |-> st, vol |-> 0, key |-> LocalKey, port |-> LocalPort]
                 ELSE None
        /\ vol = [v \in Vols |-> IF v = 0 /\ some THEN data ELSE None]

Init ==
    /\ \E kind \in InitKinds : InitInstance(kind)
    /\ rev = 1
    /\ clock = 0 /\ commands = 0 /\ aborts = 0
    /\ recov = None
    /\ bundles = [n \in BundleNames |-> IF n = <<"foreign", 0>> THEN ForeignBundle ELSE None]
    /\ rows = {}
    /\ shown = {0}
    /\ pc = "idle" /\ job = NoJob /\ bk = NoBk /\ rb = None /\ rvol = None
    /\ last = [cmd |-> "none", res |-> "none", up |-> FALSE]
    /\ broken = FALSE

-----------------------------------------------------------------------------
(* The beginning and the end of a command.                                 *)

\* A command takes seconds: the next one starts in a later one, unless
\* SameSecond allows a clock that has not moved.
BeginCommand ==
    /\ pc = "idle"
    /\ commands < MaxCommands
    /\ commands' = commands + 1
    /\ \/ clock' = clock + 1
       \/ SameSecond /\ clock > 0 /\ clock' = clock
    /\ UNCHANGED aborts

\* Fault: bundle names without a timestamp.
OutUntimed == <<IF job.cmd = "backup" THEN "backup" ELSE "safety", 0>>

\* The bundle this backup writes: the default path, or the pre-restore one.
Out == <<IF job.cmd = "backup" THEN "backup" ELSE "safety", clock>>

EndCommand(res) ==
    /\ pc' = "idle"
    /\ last' = [cmd |-> job.cmd, res |-> res, up |-> job.up]
    /\ job' = NoJob /\ bk' = NoBk /\ rb' = None /\ rvol' = None

Goto(step) == pc' = step /\ UNCHANGED <<localVars, ghostVars, countVars>>

\* backup_instance has returned: to the shell, which prints a new recovery
\* code, or to restore_instance, which ignores it.
BackupReturns ==
    /\ UNCHANGED <<countVars, broken>>
    /\ \/ /\ job.cmd = "replace"
          /\ pc' = "r_context"
          /\ UNCHANGED <<localVars, shown, last>>
       \/ /\ job.cmd = "backup"
          /\ EndCommand("ok")
          /\ shown' = IF bk.fresh THEN shown \cup {bk.code} ELSE shown

-----------------------------------------------------------------------------
(* backup_instance.                                                        *)

StartBackup(pass) ==
    /\ BeginCommand
    /\ pc' = "b_check"
    /\ job' = [NoJob EXCEPT !.cmd = "backup", !.secret = pass, !.up = ContainerIsRunning]
    /\ UNCHANGED <<worldVars, storeVars, ghostVars, bk, rb, rvol>>

BCheck ==
    /\ pc = "b_check"
    /\ reg # None /\ compose # None /\ env # None
    /\ pc' = "b_recovery"
    /\ bk' = [bk EXCEPT !.rec = reg]
    /\ UNCHANGED <<worldVars, storeVars, ghostVars, countVars, job, rb, rvol>>

\* _load_or_create_recovery_code.
BRecovery ==
    /\ pc = "b_recovery"
    /\ \/ /\ recov = None
          /\ recov' = [pass |-> job.secret, code |-> commands]
          /\ bk' = [bk EXCEPT !.code = commands, !.fresh = TRUE]
       \/ /\ recov \in Recovery /\ recov.pass = job.secret
          /\ bk' = [bk EXCEPT !.code = recov.code]
          /\ UNCHANGED recov
    /\ pc' = "b_ps"
    /\ UNCHANGED <<worldVars, bundles, rows, ghostVars, countVars, job, rb, rvol>>

BPs ==
    /\ pc = "b_ps"
    /\ CanCompose
    /\ bk' = [bk EXCEPT !.wasRunning = ContainerIsRunning]
    /\ pc' = IF ContainerIsRunning THEN "b_stop" ELSE "b_capture"
    /\ UNCHANGED <<worldVars, storeVars, ghostVars, countVars, job, rb, rvol>>

\* Fault: the volume is captured under a running n8n.
BStopSkipped == pc = "b_stop" /\ Goto("b_capture") /\ UNCHANGED <<worldVars, storeVars>>

BStop ==
    /\ pc = "b_stop"
    /\ ComposeStop
    /\ Goto("b_capture")
    /\ UNCHANGED <<fileVars, storeVars>>

\* _capture_volume; clean: n8n is not writing to the volume tar reads.
BCapture ==
    /\ pc = "b_capture"
    /\ vol' = Mounted(bk.rec.vol)
    /\ bk' = [bk EXCEPT !.snap = Mounted(bk.rec.vol)[bk.rec.vol],
                        !.clean = ~(ContainerIsRunning /\ ctr.vol = bk.rec.vol)]
    /\ pc' = "b_write"
    /\ UNCHANGED <<fileVars, ctr, rev, storeVars, ghostVars, countVars, job, rb, rvol>>

\* The payload holds the files as they are now; seal_bundle adds both slots.
Sealed == [data |-> bk.snap, env |-> env, pass |-> job.secret, code |-> bk.code,
           clean |-> bk.clean]

BWrite ==
    /\ pc = "b_write"
    /\ env # None
    /\ bundles' = [bundles EXCEPT ![Out] = Sealed]
    /\ bk' = [bk EXCEPT !.bundle = Sealed]
    /\ pc' = "b_record"
    /\ UNCHANGED <<worldVars, recov, rows, ghostVars, countVars, job, rb, rvol>>

\* The row has the checksum of the bytes that were written, not of the file.
BRecord ==
    /\ pc = "b_record"
    /\ rows' = rows \cup {[loc |-> Out, sum |-> bk.bundle]}
    /\ \/ bk.wasRunning /\ Goto("b_start")
       \/ ~bk.wasRunning /\ BackupReturns
    /\ UNCHANGED <<worldVars, recov, bundles>>

\* The finally block.
BStart ==
    /\ pc = "b_start"
    /\ ComposeStart
    /\ Goto("b_wait")
    /\ UNCHANGED <<fileVars, storeVars>>

\* Fault: the finally block returns, and swallows the exception of the body.
BWaitSwallows ==
    /\ pc = "b_wait"
    /\ Serving(bk.rec.port)
    /\ BackupReturns
    /\ UNCHANGED <<worldVars, storeVars>>

BWait ==
    /\ pc = "b_wait"
    /\ Serving(bk.rec.port)
    /\ \/ bk.ok /\ BackupReturns
       \/ ~bk.ok /\ EndCommand("failed") /\ UNCHANGED <<countVars, shown, broken>>
    /\ UNCHANGED <<worldVars, storeVars>>

BackupStep ==
    BCheck \/ BRecovery \/ BPs \/ BStop \/ BCapture \/ BWrite \/ BRecord \/ BStart \/ BWait

-----------------------------------------------------------------------------
(* restore_instance.                                                       *)

\* The bundle opens with either secret and names this instance; a registered
\* instance needs --replace, and is backed up first.
StartRestore(name, secret, replace, port) ==
    /\ BeginCommand
    /\ bundles[name] \in Bundle
    /\ secret \in {bundles[name].pass, bundles[name].code}
    /\ reg # None => replace
    /\ job' = [cmd |-> IF reg = None THEN "restore" ELSE "replace", secret |-> secret,
               port |-> port, replace |-> replace, src |-> bundles[name], rec |-> reg,
               up |-> ContainerIsRunning]
    /\ pc' = IF reg = None THEN "r_env" ELSE "b_check"
    /\ rvol' = IF reg = None THEN clock' ELSE None
    /\ UNCHANGED <<worldVars, storeVars, ghostVars, bk, rb>>

\* _replace_rollback_context
RContext ==
    /\ pc = "r_context"
    /\ env # None /\ CanCompose
    /\ rb' = [rec |-> job.rec, compose |-> compose, env |-> env, up |-> ContainerIsRunning]
    /\ pc' = "r_down"
    /\ UNCHANGED <<worldVars, storeVars, ghostVars, countVars, job, bk, rvol>>

\* Fault: the new volume is not named before it is used.
RDownUnnamed ==
    /\ pc = "r_down"
    /\ ComposeDown
    /\ pc' = "r_env"
    /\ UNCHANGED <<fileVars, storeVars, ghostVars, countVars, localVars>>

RDown ==
    /\ pc = "r_down"
    /\ ComposeDown
    /\ rvol' = clock
    /\ pc' = "r_env"
    /\ UNCHANGED <<fileVars, storeVars, ghostVars, countVars, job, bk, rb>>

RestoredPort ==
    IF job.port # None THEN job.port
    ELSE IF job.src.env.port # None THEN job.src.env.port ELSE DefaultPort

REnv ==
    /\ pc = "r_env"
    /\ env' = job.src.env
    /\ Goto("r_port")
    /\ UNCHANGED <<compose, reg, dockerVars, storeVars>>

\* Fault: --port reaches the registry and not .env.
RPortSkipped == pc = "r_port" /\ Goto("r_compose") /\ UNCHANGED <<worldVars, storeVars>>

\* _set_env_port
RPort ==
    /\ pc = "r_port"
    /\ env' = [env EXCEPT !.port = RestoredPort]
    /\ Goto("r_compose")
    /\ UNCHANGED <<compose, reg, dockerVars, storeVars>>

RCompose ==
    /\ pc = "r_compose"
    /\ compose' = [vol |-> rvol, ext |-> TRUE]
    /\ Goto("r_volume")
    /\ UNCHANGED <<env, reg, dockerVars, storeVars>>

RVolume ==
    /\ pc = "r_volume"
    /\ VolumeCreate(rvol)
    /\ Goto("r_untar")
    /\ UNCHANGED <<fileVars, storeVars>>

RUntar ==
    /\ pc = "r_untar"
    /\ vol' = [vol EXCEPT ![rvol] = Extracted(@, job.src.data)]
    /\ Goto("r_upsert")
    /\ UNCHANGED <<fileVars, ctr, rev, storeVars>>

RUpsert ==
    /\ pc = "r_upsert"
    /\ reg' = [vol |-> rvol, port |-> RestoredPort]
    /\ Goto("r_up")
    /\ UNCHANGED <<env, compose, dockerVars, storeVars>>

RUp ==
    /\ pc = "r_up"
    /\ ComposeUp("running")
    /\ Goto("r_wait")
    /\ UNCHANGED <<fileVars, storeVars>>

RWait ==
    /\ pc = "r_wait"
    /\ Serving(RestoredPort)
    /\ EndCommand("ok")
    /\ UNCHANGED <<worldVars, storeVars, countVars, shown, broken>>

RestoreStep ==
    \/ RContext \/ RDown \/ REnv \/ RPort \/ RCompose
    \/ RVolume \/ RUntar \/ RUpsert \/ RUp \/ RWait

-----------------------------------------------------------------------------
(* _rollback_replace_restore.                                              *)

\* Nothing to take down when the exception came before the restored names.
FirstRollbackStep == IF rvol # None /\ compose' # None THEN "x_down" ELSE "x_compose"

\* Fault: the rollback removes the new volume whatever its name.
XDownUnguarded ==
    /\ pc = "x_down"
    /\ ComposeDown
    /\ Goto("x_volume")
    /\ UNCHANGED <<fileVars, storeVars>>

XDown ==
    /\ pc = "x_down"
    /\ ComposeDown
    /\ Goto(IF rvol # rb.rec.vol THEN "x_volume" ELSE "x_compose")
    /\ UNCHANGED <<fileVars, storeVars>>

XVolume ==
    /\ pc = "x_volume"
    /\ VolumeRemove(rvol)
    /\ Goto("x_compose")
    /\ UNCHANGED <<fileVars, storeVars>>

XCompose ==
    /\ pc = "x_compose"
    /\ compose' = rb.compose
    /\ Goto("x_env")
    /\ UNCHANGED <<env, reg, dockerVars, storeVars>>

\* Fault: the rollback forgets the old .env.
XEnvForgotten == pc = "x_env" /\ Goto("x_upsert") /\ UNCHANGED <<worldVars, storeVars>>

XEnv ==
    /\ pc = "x_env"
    /\ env' = rb.env
    /\ Goto("x_upsert")
    /\ UNCHANGED <<compose, reg, dockerVars, storeVars>>

XUpsert ==
    /\ pc = "x_upsert"
    /\ reg' = rb.rec
    /\ \/ rb.up /\ Goto("x_up")
       \/ ~rb.up /\ EndCommand("rolled_back") /\ UNCHANGED <<countVars, shown, broken>>
    /\ UNCHANGED <<env, compose, dockerVars, storeVars>>

XUp ==
    /\ pc = "x_up"
    /\ ComposeUp("running")
    /\ Goto("x_wait")
    /\ UNCHANGED <<fileVars, storeVars>>

XWait ==
    /\ pc = "x_wait"
    /\ Serving(rb.rec.port)
    /\ EndCommand("rolled_back")
    /\ UNCHANGED <<worldVars, storeVars, countVars, shown, broken>>

RollbackStep == XDown \/ XVolume \/ XCompose \/ XEnv \/ XUpsert \/ XUp \/ XWait

-----------------------------------------------------------------------------
(* Exceptions and kills.                                                   *)

\* What a step that does not complete leaves: a truncated file, a half
\* extracted archive, or all that the docker command did before it failed.
LeavesTornFile ==
    /\ UNCHANGED <<reg, dockerVars, rows>>
    /\ \/ /\ pc = "b_recovery" /\ recov = None /\ recov' = Torn
          /\ UNCHANGED <<env, compose, bundles>>
       \/ /\ pc = "b_write" /\ bundles' = [bundles EXCEPT ![Out] = Torn]
          /\ UNCHANGED <<env, compose, recov>>
       \/ /\ pc \in {"r_env", "r_port", "x_env"} /\ env' = Blank
          /\ UNCHANGED <<compose, recov, bundles>>
       \/ /\ pc \in {"r_compose", "x_compose"} /\ compose' = Torn
          /\ UNCHANGED <<env, recov, bundles>>

LeavesDockerEffect ==
    /\ UNCHANGED <<fileVars, storeVars>>
    /\ \/ pc = "b_stop" /\ ComposeStop
       \/ pc = "b_capture" /\ VolumeCreate(bk.rec.vol)
       \/ pc = "b_start" /\ ComposeStart
       \/ pc \in {"r_down", "x_down"} /\ ComposeDown
       \/ pc = "r_volume" /\ VolumeCreate(rvol)
       \/ /\ pc = "r_untar" /\ job.src.data # Empty
          /\ vol' = [vol EXCEPT ![rvol] =
                        [Extracted(@, job.src.data) EXCEPT !.whole = FALSE]]
          /\ UNCHANGED <<ctr, rev>>
       \/ pc \in {"r_up", "x_up"} /\ \E st \in {"running", "exited"} : ComposeUp(st)
       \/ pc = "x_volume" /\ VolumeRemove(rvol)

Leftover ==
    \/ UNCHANGED <<worldVars, storeVars>>
    \/ LeavesTornFile
    \/ LeavesDockerEffect

\* The step raises: an exception in the try block of a backup runs its finally
\* block, one after the rollback context was made runs the rollback.
Raise ==
    /\ Leftover
    /\ UNCHANGED <<countVars, shown>>
    /\ \/ /\ pc \in BackupTry /\ bk.wasRunning
          /\ pc' = "b_start"
          /\ bk' = [bk EXCEPT !.ok = FALSE]
          /\ UNCHANGED <<job, rb, rvol, last, broken>>
       \/ /\ \/ pc \in BackupSteps /\ ~(pc \in BackupTry /\ bk.wasRunning)
             \/ pc \in RestoreSteps /\ rb = None
          /\ EndCommand(CASE pc = "b_start" -> "not_restarted"
                          [] pc = "b_wait" -> "unreachable"
                          [] OTHER -> "failed")
          /\ UNCHANGED broken
       \/ /\ pc \in RestoreSteps /\ rb # None
          /\ pc' = FirstRollbackStep
          /\ UNCHANGED <<localVars, last, broken>>
       \/ /\ pc \in RollbackSteps
          /\ EndCommand("rollback_failed")
          /\ broken' = TRUE

\* SIGKILL, a power cut, or Ctrl-C where the code does not catch it.
Abort ==
    /\ pc # "idle"
    /\ aborts < MaxAborts
    /\ aborts' = aborts + 1
    /\ Leftover
    /\ EndCommand("aborted")
    /\ broken' = (broken \/ rb # None)
    /\ UNCHANGED <<clock, commands, shown>>

-----------------------------------------------------------------------------
Step == BackupStep \/ RestoreStep \/ RollbackStep \/ Raise

Start ==
    \/ \E pass \in Passes : StartBackup(pass)
    \/ \E name \in BundleNames, secret \in Passes \cup shown, replace \in BOOLEAN,
          port \in Ports \cup {None} : StartRestore(name, secret, replace, port)

Environment ==
    /\ N8nStep
    /\ UNCHANGED <<storeVars, localVars, ghostVars, countVars, pc>>

Next == Start \/ Step \/ Abort \/ Environment

Spec == Init /\ [][Next]_vars

\* The process is scheduled, and each docker command it runs returns.
FairSpec == Spec /\ WF_vars(Step)
-----------------------------------------------------------------------------
(* Properties.                                                             *)

\* The four places that describe an instance.
Agree ==
    reg # None =>
        /\ env # None /\ compose # None
        /\ compose.vol = reg.vol
        /\ env.port = reg.port
        /\ vol[reg.vol] \in Content => vol[reg.vol].key = env.key
        /\ vol[reg.vol] # None
        /\ ctr # None => ctr.vol = reg.vol /\ ctr.port = reg.port /\ ctr.key = env.key

\* Between commands the registry, .env, docker-compose.yml, the volume and the
\* container describe the same instance, however the commands before ended,
\* unless a replace was killed or its rollback failed (backup.py:212-291).
StoresAgree == pc = "idle" /\ ~broken => Agree

\* The key that opens a volume's data is never lost: at every moment, after a
\* kill or a failed rollback too, it is in .env or in a bundle that can be
\* opened (backup.py:212-222 saves the old .env before 251 overwrites it).
KeyAvailable(k) ==
    \/ env # None /\ env.key = k
    \/ \E n \in BundleNames : bundles[n] \in Bundle /\ bundles[n].env.key = k
KeyNeverLost == \A v \in Vols : vol[v] \in Content => KeyAvailable(vol[v].key)

\* From the moment the old instance is taken down until the command is over,
\* the safety bundle exists, opens with the secret the user has just typed,
\* and holds the old .env and nothing but the old instance's data.
SafetyNet ==
    rb # None =>
        LET b == bundles[<<"safety", clock>>]
            old == vol[rb.rec.vol]
        IN  /\ b \in Bundle
            /\ b.pass = job.secret
            /\ b.env = rb.env
            /\ b.data \in Content =>
                  /\ old \in Content
                  /\ old.key = b.data.key /\ b.data.hist \subseteq old.hist

\* A backup, failed or not, and a rolled back replace leave n8n running iff it
\* was running before; only a failed `start` or a kill does not (backup.py:151).
RunningRestored ==
    /\ pc = "idle"
    /\ \/ last.cmd = "backup" /\ last.res \in {"ok", "failed", "unreachable"}
       \/ last.res = "rolled_back"
    => ContainerIsRunning = last.up

\* Every bundle was captured while no n8n was writing to the volume.
SnapshotQuiesced ==
    \A n \in BundleNames : bundles[n] \in Bundle => bundles[n].clean

\* Every row of the backups table names a bundle with the recorded checksum.
RowsHaveBundles == \A r \in rows : bundles[r.loc] = r.sum

\* backup and restore implement the promise of AtomicInstance: a replace takes
\* effect at its end or not at all, a backup is a snapshot of one moment.
View(rec, e) ==
    IF rec = None THEN None
    ELSE [key |-> e.key, port |-> rec.port, data |-> vol[rec.vol]]
Promise == INSTANCE AtomicInstance WITH
    inst <- IF rb # None THEN View(rb.rec, rb.env) ELSE View(reg, env),
    archive <- {[key |-> bundles[n].env.key, data |-> bundles[n].data] :
                    n \in {m \in BundleNames : bundles[m] \in Bundle}}
Atomic == Promise!Spec

\* Every command ends: each wait has a deadline, each exception leads out.
CommandEnds == pc # "idle" ~> pc = "idle"

-----------------------------------------------------------------------------
(* What the documentation says, and the code does not do.                  *)

\* docs/commands.md:179: "restore refuses to overwrite an existing instance".
RefusesExisting ==
    [][~(/\ job.cmd = "restore" /\ ~job.replace
         /\ pc = "r_env" /\ env # None /\ env' # env)]_vars
=============================================================================
