# A verification development for local-n8n

`lon` (src/src/local_n8n) runs n8n in Docker on one machine: it writes a `.env`
and a `docker-compose.yml`, starts a container, keeps a registry in `state.db`,
and backs an instance up into, and restores it from, an encrypted bundle.  What it
must never lose is the pair that makes an n8n installation: the data volume and
the encryption key in `.env` that opens it.  This directory models the parts that
handle the two, checks them with TLC and proves theorems about them with TLAPS.

Paths below are relative to `src/src/local_n8n`.

## 1. Inventory

Every `lon` command is one operating-system process that runs to its end and
keeps nothing in memory afterwards.  No lock is taken across commands; two
terminals may run two of them.  All state is in five places:

| state | written by | in the models |
|---|---|---|
| `instances/<name>/.env`: `N8N_ENCRYPTION_KEY`, `N8N_PORT` | up (once), restore, rollback | `env` |
| `instances/<name>/docker-compose.yml`: image, volume name, `external` | up, restore, rollback | `compose` |
| `state.db`: one row per instance, one row per backup | up, adoption, restore, rollback, backup | `reg`, `rows` |
| Docker: the container of the compose project, the volumes | docker commands, n8n, the daemon | `ctr`, `vol` |
| `instances/<name>/recovery.wrapped`, bundle files | backup, rotate, change, reset | `recov`, `bundles` |

| component | source | operations | what is hard | what makes it correct |
|---|---|---|---|---|
| backup and restore | `core/backup.py` | backup, restore, restore `--replace`, rollback | many steps, each may fail; a `finally`, a rollback that may fail too; kills; names with a resolution of one second; n8n writes meanwhile | key never lost; stores agree afterwards; all or nothing; the snapshot is quiescent; every command ends |
| recovery material | `core/backup.py` 309-452 | reveal, rotate, change, reset | read, derive, write in place; lost update, torn file | a bundle opens with secrets that were active together; rotate and change replace their own secret only; reset repairs a torn file |
| instance lifecycle | `core/instance.py` | up, down, stop, start, restart, adopt; status, logs, list, open | registry and files read, then written, with no lock; the port is kept twice | one key for one volume; the port waited for is the port published |
| instance files | `compose/template.py` | render, ensure, read a value | check-then-write of `.env` | `.env` is created once |
| registry | `core/state.py` | get, list, upsert, record | one sqlite transaction each | rows name existing files and volumes |
| bundle format | `core/crypto.py` | seal, open | two key slots, length prefixes | opens with either secret, with nothing else |
| readiness | `core/readiness.py` | wait | the deadline is tested between polls; n8n comes and goes | TRUE only for an answer asked for in time, FALSE only when n8n was away at the end |
| development wipe | `core/dev.py` | plan, wipe | plan made before a prompt, used after it | key and row are deleted after the data; an interrupted wipe can be repeated |
| init, doctor, docker bootstrap | `core/init.py`, `core/doctor.py`, `bootstrap/docker.py` | plans and reports | built apart from what they describe | the preview tells what the command touches; a fix is planned iff one is needed |
| process runner | `core/runner.py` | run, run_streaming | processes docker leaves behind hold the pipe; a full pipe; output in chunks | ends, with all the output, and leaves no process |
| command line, errors, config | `app.py`, `core/errors.py`, `core/config.py` | every verb: dry run, prompt, steps, document, exit code | many ways out of a command | one document, at the end, that agrees with the exit code; nothing is changed that nobody agreed to |
| diagnostics | `core/diagnostics.py` | log files | - | - |

How they interact: `app.py` asks for arguments and secrets and calls one function
of `core`.  That function reads the registry, reads or writes the instance's
files, runs docker through the runner and polls the web UI through readiness.
`restore --replace` calls `backup_instance`; `init` calls `up`.

The hazards of this code, each at its line with the properties that watch it, are
in PROJECT.json.

## 2. Plan

In the order of what can hurt most; all but item 8 is done.

1. `InstanceWorld`, `BackupRestore`, `AtomicInstance`.
2. `Lifecycle`: up, down, stop, start, restart, adoption and init in any number
   of terminals.
3. `Recovery`: the recovery.wrapped commands in any number of terminals.
4. `DevWipe`: plan and removal against what exists by then.
5. `Bundle`: the bundle file, from the files read into it to the restore that
   reads it back, with damage in between.
6. `Concurrent`: BackupRestore beside Lifecycle in other terminals.
7. `Readiness`, `Streaming`, and `Invocation`, which composes them into one run of
   any verb.
8. A restored instance whose row is lost, and its adoption: no command loses a row
   alone, so this needs a fault of the registry.
9. A theorem for every invariant and every action property that a run checks, and
   the step simulation of `AtomicInstance`.

Abstract specification: `AtomicInstance` (backup and restore are indivisible), of
which BackupRestore is the refinement.  What Bundle promises, a box that opens with
one of two keys, is stated as the invariant `OpensFaithfully` instead, against the
history of what was sealed.

## 3. Modules

| module | contents |
|---|---|
| `InstanceWorld` | the stores of one instance, the effects of the docker commands, n8n and the daemon |
| `BackupRestore` | `lon backup`, `lon restore`, the rollback: one action per statement that has an effect |
| `AtomicInstance` | what they promise: write, save, restore, each indivisible |
| `MCBackupRestore` | the module the configurations run |
| `Lifecycle` | `lon init`, `up`, `down`, `stop`, `start`, `restart`, `status`, `logs`, `open`, in several terminals |
| `MCLifecycle` | the module the configurations run |
| `Recovery` | `lon backup`, `recovery show` and `rotate`, `passphrase change` and `reset` over recovery.wrapped |
| `DevWipe` | `lon dev wipe`, other commands before it and meanwhile |
| `Bundle` | the bundle file: built, sealed, damaged, opened, validated |
| `Concurrent` | BackupRestore and, as an instance, Lifecycle over the same stores |
| `Readiness` | the loop that waits for n8n's web page |
| `Streaming` | a docker command whose output is read from a pipe or a terminal |
| `Invocation` | one run of `lon`, any verb; extends Readiness and Streaming |
| `MCRecovery`, `MCDevWipe`, `MCBundle`, `MCConcurrent`, `MCInvocation` | the modules the configurations run |
| `InstanceWorld_proofs` | the types of the stores under every docker command, for both proofs of type correctness |
| `BackupRestore_proofs` | types, the safety of keys, bundles and rollbacks, the agreement of the stores, and that BackupRestore implements AtomicInstance, proved |
| `Lifecycle_proofs` | type correctness, and one key, one volume and one port, proved |
| `Recovery_proofs` | types, every bundle opens with secrets active together, and each command replaces its own part, proved |
| `Concurrent_proofs` | keys, safety bundles and volumes beside lifecycle commands in any number of terminals, proved |
| `DevWipe_proofs` | types, and data goes before files and rows, proved |
| `Bundle_proofs` | types, and both properties of Bundle, proved |
| `Invocation_proofs` | types, the wait, the end of docker commands, the one document, what may be touched, previews and exit codes, proved |

### InstanceWorld

A volume is `None`, `Empty`, or the key n8n sealed it with and the set of writes
it holds.  Each write n8n makes has a number of its own (`rev`), so that an old
volume, a snapshot and a mixture of two can be told apart; `whole` is FALSE after
an extraction that stopped half way or went over other data.  A `.env` is its key
and its port; a truncated one has neither (`Blank`).  A compose file is the
volume it names, external or not; a truncated one is `Torn`.  The image reference,
the time zone and the other settings are left out.

`docker compose`, `docker volume` and n8n are not in the repository; they are
modelled from how the code uses them and marked external.  What matters: compose
needs a parsable file; `up` needs a port in `.env` and, for an external volume, the
volume; a container keeps the `.env` it was created with; `docker run -v` creates a
missing volume; a volume in use cannot be removed; n8n stores its key in the
volume at its first start and does not serve under another one.

`Serving` stands for `is_web_ui_ready` through `wait_for_web_ui_ready`: a wait
succeeds when n8n serves on the port that is polled, and may always time out.

### BackupRestore

`pc` is the next statement with an effect.  `b_*` is `backup_instance` (lines
75-171), `r_*` is `restore_instance` (174-306), `x_*` is
`_rollback_replace_restore` (471-517).  A check before a step is a guard of the
action; when it does not hold the only way on is `Raise`.

- `StartBackup`, `BCheck`, `BRecovery`, `BPs`, `BStop`, `BCapture`, `BWrite`,
  `BRecord`, then the `finally` block `BStart`, `BWait`.
- `StartRestore`; for a registered instance the whole of a backup under the name
  of a safety bundle, `RContext`, `RDown`; then `REnv`, `RPort`, `RCompose`,
  `RVolume`, `RUntar`, `RUpsert`, `RUp`, `RWait`.
- `XDown`, `XVolume`, `XCompose`, `XEnv`, `XUpsert`, `XUp`, `XWait`.
- `Raise` is an exception in the current step.  `Leftover` says what the step
  leaves behind: nothing, a truncated file, or the effect of a docker command
  that failed late (a volume created and not filled, an archive half extracted, a
  container created and not started).  In the `try` of a backup it leads to the
  `finally` block, after the rollback context was made to the rollback, and
  elsewhere out of the command.
- `Abort` is SIGKILL, a power cut or Ctrl-C; `except Exception` does not see them.
- `Environment` is n8n and the daemon, between any two steps.

A file write is one step, or leaves a truncated file.  A sqlite transaction is one
step or none.  `restore` with a wrong secret, or of a bundle that does not
validate, changes nothing and is not an action; Bundle has what it finds.  The option
`-o` of backup is not modelled: bundles go to their default path.  A recovery code is the number of the
command that generated it; 0 is the code of the foreign bundle.  The user types
passphrases, and codes that were shown.

The clock is `utc_now`, in seconds: it names bundles and volumes.  A command takes
longer than a second (it runs docker), so each starts in a later one, unless
`SameSecond` lets a command start in the second of the one before.

### AtomicInstance

Its state is what a user knows: the instance (key, port, data), the archive of
bundles, and whether the promise was broken by a kill or a failed rollback during
a replace.  Three things happen to it: n8n writes, a bundle with exactly the
instance's data appears, or the instance becomes one of the archive with nothing of
what was there before.  The refinement mapping reads the instance from the
rollback context while there is one, and from the registry otherwise: a replace
takes effect when its last step succeeds, and a rollback puts back what the
mapping has shown all along, with the writes n8n made in between.

### Lifecycle

`proc[p]` is the process in terminal `p`: its next step, its verb, the port after
`--port`, the record it works with and the key it has generated.  Between any two
steps of one terminal another one, n8n or the daemon may act.

- `Start`; `Plan` and `PlanPort` are `plan_init` (core/init.py:110-168), which reads the
  row and, when there is none, `.env`: init calls up with the port it planned, which is that of
  the row whatever it was asked.
- `Lookup`, `ReadPort`, `Adopt` are `_get_or_adopt_instance`
  (core/instance.py:402-434): every verb begins with it, and adopts an instance
  older than the registry with the default volume and the port of its `.env`.
- `OpenCompose`, `FillCompose`, `CheckEnv`, `OpenEnv`, `FillEnv` are
  `ensure_instance_files` (compose/template.py:81-100); `Upsert`, `Up`, `Wait` the
  rest of `up_instance`.  `write_text` truncates and then fills: another process, or
  a kill, may come between, so a write is two steps here.
- `Down`, `Stop`; `Ps` and `StartOrRestart`, then `Wait`; `Look` for the verbs that
  change nothing after the lookup.
- `Refused` is a failure the model can tell: no instance to adopt, no parsable
  compose file, no container, a web UI that is not up in time.  `Fault` is every
  other failure, and a kill; nothing in this code undoes anything or handles an
  exception, so they are the same.  A docker command that fails has done nothing, all,
  or part of it (a container created and not started; one stopped and not removed).

`Found` lists what commands may find: nothing, an instance as `up`, `stop` or
`down` left it, one without a row, and one that a restore put on a volume of its
own, under a foreign key.  Keys are fresh (`used`).  The update of a legacy image
reference is left out with the image.  `record_started` sets a column nobody reads.

### Recovery

The file is `None`, `Torn`, or the pair of the two secrets it is sealed with; a
bundle is such a pair too.  Codes are numbered as they are generated.  `Load` is
`_load_or_create_recovery_code`; `Show`, `RotateUnlock` and `ChangeUnlock` open the
file with the passphrase typed; `ResetCheck` asks whether n8n runs and answers
instead.  `Open` and `Fill` are the `write_bytes` all of them end in, after the slow
derivation of keys.  `Seal` stands for the rest of a backup, `Return` for what the
command line prints.  BackupRestore has the same file under one command at a time;
here several run at once.  `active` and `last` are history, what the file has held;
`alone` is the command that no other has run beside.

### DevWipe

For each instance: its row's volume, its compose file, its container, and the
volumes that exist, with and without a compose label.  `Plan`, `Ask`, then per
target `Down`, `RmContainers`, `RmLabelled`; then `RmVolume` for each planned volume,
`DeleteInstances`, `DeleteDb`.  Targets and volumes are taken in any order (the code
sorts them by name).  `Refused` is a docker command that cannot succeed, `WipeFault` any
other failure and a kill.  The other commands are `up` in its three effects, which a
kill may separate, and a restore as one step; they run before a wipe and during it.
`touched` is history: the instances they acted on since the plan.

### Bundle

Cryptography is symbolic.  What the code computes with a key is the record of what
went into it: a wrapped data key is `[kek, nonce, dek]`, and `Unwraps` holds only for
the key derived from the same secret, salt and parameters and for the same nonce;
a ciphertext also records the header it was sealed with (the associated data), and
`Decrypts` compares it with the header found.  Seal number `n` draws the data key,
salts and nonces `n`: what `secrets.token_bytes` returns never repeats.

`Begin`, `Hash`, `Add`, `WriteBundle` are a backup after its capture: the manifest
reads `.env` and then `docker-compose.yml` (core/backup.py:593-600), the archive reads
compose and then `.env` again (577-578), and `Rewrite` may come between any two of
these.  It skews the bundle only when it comes `Between` the two readings of the very file it
writes.  `Damage` replaces a field of a bundle file by something unreadable, by any other
value, or by that of another bundle; slots may be lost, doubled or exchanged.
`OpenBundle` is `open_bundle`: everything `_parse_frame` and `_validate_header` demand
(`Parses`), then the slots in order, each passed over when its type is not asked for, it
is not well formed, or its secret does not fit.  `Restores` adds `_validate_manifest`.

### Concurrent

`BackupRestore` as it is, and an instance of `Lifecycle` over the same `env`, `compose`,
`reg`, `ctr` and `vol`: a step of either leaves the locals of the other alone.  The
instance exists from the start, and a restore keeps the port of its bundle.

### Readiness

`wait` is the loop: `check`, `poll`, `sleep`, and the verdict `yes`, `no` or `broken` (an
exception that is not caught: an answer that is no HTTP).  A poll lasts between no time
and `PollMax`, and is unanswered only if n8n was away at some moment of it; `timeout=5`
bounds one operation on the socket, so `PollMax` is a constant of its own.  `Tick` lets
time pass only in a poll or a sleep; `N8nTurns` brings n8n or takes it away.

### Streaming

`child` is the docker command, with the chunks it has yet to write; `holds` says that it,
or a process it has started, has the pipe open, which may outlast it or end before it.
`lonHolds` is the child's end of the pseudo terminal in lon itself, until `LetGo` (the
`finally` of core/runner.py:103).  `Read` takes any number of chunks; `Eof` is an empty
read, or EIO from the terminal; then the child is waited for.

### Invocation

One run, with any of the global options, and a switch that stands for the verb's own
(`--open`, `--replace`, `--fix`, `--follow`, `--images`).  `inst` is what there is of the
instance named, `host` is what is wrong with Docker; neither changes, except that the
run adds what it makes (`touched`, the kinds of things changed).  `Body` is the list of
steps of each verb; the steps that other modules have in full (`Archive`, `PutBack`,
`Rewrap`, `Wipe`) touch their kinds of things in their order and may fail after each.
`Works` is said of `docker compose`, `PlainWorks` of every other docker command: without the
compose plugin a restore has its volume and row before it fails, and a wipe finds nothing
to do for compose in an instance without files (core/dev.py:67), and succeeds.  Compose wants its
file before it asks the daemon (`Fileless`).
`Says` is what docker says, with half of a message also where it means nothing; `Cause` is the
search of `_run_compose` for these messages in what was collected.  `Interrupt` is whatever
ends a run without `_handle_error`: Ctrl-C, a traceback.

## 4. Runs

| run | question | bounds |
|---|---|---|
| `core` | do the four stores agree between commands, is n8n running again, is the snapshot quiescent, are key, safety bundle and recorded bundles there, is a replace atomic, does every command end | every initial state, two commands, one kill, two writes |
| `one_terminal` | is `.env` written once, and does the next `up` repair what was left | every kind of instance and none, three commands of any verb, two faults |
| `two_terminals` | one key, one volume, one port under every interleaving | every kind of instance, two terminals, four commands of any verb, init also with another port than the registered one, two faults, restart loops |
| `concurrent` | do key, safety bundle and old volume survive other commands during a backup or restore | an instance n8n is booting in, two backups or restores also in one second, each step of them failing, one up or down beside them, which may fail or be killed |
| `admins` | do bundles open with secrets active together, does each command replace its secret only, does reset repair | two terminals, two passphrases, three commands, one fault |
| `wipe` | are key and row deleted after the data, does a wipe finish after failed commands and wipes | two instances, one restore of each, three other commands, also during the wipe, two faults |
| `bundle` | does nothing open that was not sealed, does what is intact restore | two bundles, two secrets, two texts of a file, two rewrites, one damage |
| `invocation` | do document, exit code, preview and prompts agree with what a run does; does it end, with all the output, in time | every verb, option, kind of instance and trouble with Docker; a pipe of two chunks, messages of up to three; a wait of four, sleeps of two, polls of up to three |
| `env_race`, `port_asked` | violations, see section 6 | two `up`s |
| `crash_loop`, `adoptable` | violations, see section 6 | one or two commands |

Why the bounds are enough.  A command reads only the stores, and what earlier
commands left in them; one command with all failures and a kill produces each
combination of stores a second one can find.  What needs a longer history, the key
after any number of kills, is proved (section 5).  Two keys, two passphrases and two
ports make the local and the foreign instance differ in each.  Two writes of n8n allow
one before a snapshot and one after it.  More of either only repeats.

In Lifecycle three commands are one that leaves something, one that finds it, and
one to repair it; four in two terminals let each terminal run one command through
all of another's and start over.  Where there may be no
`.env`, `Keys` has one for each command besides the two of the instances found, so
that the generation of a key never fails.  `two_terminals`
starts with an instance that exists: without one, `env_race` shows that the
properties fail.  Nobody passes `--port` to `up` there, or
to the `init` of an instance that is not registered, for the reason `port_asked` shows; the `init`
of a registered instance is to ignore it (`AskedInit`).  `core` has no restart loops of n8n, with
which `SnapshotQuiesced` fails (`crash_loop`).
In `concurrent` one command beside is enough for each of its steps to fall between any two
of a replace; up is the verb that writes, down the one that removes.  Kills of the backup
or restore itself are in `core` and in the theorem `KeysStay`.

In Recovery one command creates the file, one leaves it torn and one repairs it; or
one creates it and two work on it at once.  In DevWipe two
instances let one be touched, or fail, while the other is wiped; one restore makes
the row's volume differ from the default one.  In Bundle two bundles are what a mixture
takes; two texts are an old and a new one, so that a file may change and change back.
In Invocation three chunks do not fit the pipe, so that the child
blocks on it; the wait has a whole number of polls and sleeps before its deadline, and one across it.

`CHECK_DEADLOCK FALSE` is set where the user stops after `MaxCommands` commands, or the run
has ended.

Fairness.  `FairSpec` of BackupRestore is `WF_vars(Step)`: the operating system schedules the
process, a docker command returns with success or failure, and a wait ends at its
deadline (readiness.py:21-34; `VerdictInTime` is why).  Nothing is
assumed of n8n or the daemon.  For `UpHeals`, whose end is that n8n serves, the
`FairSpec` of Lifecycle adds that n8n finishes its start and that the daemon
restarts a container that exited (`restart: unless-stopped`, template.py:51).  Recovery
and DevWipe assume only that the process is scheduled and docker returns.  Invocation
assumes that lon is scheduled and prompts are answered (`LonStep`), that docker and whatever it has started
write what they have to write and end (`Docker`), and that time passes (`Clock`).  The
runner has no timeout of its own (runner.py), so a docker command that hangs is outside
the models; so is `logs --follow`, which is to run until docker ends.

## 5. Proofs

Every theorem holds for every value of the constants that satisfies the assumptions
the modules name (`WorldAssumption`, `BackupAssumption`, `LifecycleAssumption`,
`RecoveryAssumption`, `ConcurrentAssumption`, `WipeAssumption`, `BundleAssumption`,
`ReadinessAssumption`, `StreamingAssumption`): any keys, ports, passphrases, terminals,
instances, and any number of commands, kills and writes.  TLC evaluates the assumptions
in every run.  Most of them say that the bounds are numbers and that `None`, `Torn`
and `Empty` are told apart from what they stand in for; the last conjunct of
`BackupAssumption` does so for the instance that `AtomicInstance` shows.  What a single
theorem assumes besides is in its `ASSUME`:

| hypothesis | theorems | why it is needed |
|---|---|---|
| `SameSecond = FALSE` | `KeysSafe`, `RowsName`, `SafetyNetThere`, `FourStores`, `Implements` | two commands of one second share a bundle or volume name, and the second one writes over what the first one saved (core/backup.py:756, 804) |
| `"adoptable" \notin InitKinds` | the same | with the registry lost restore overwrites an instance it does not see; the run `adoptable` is the counterexample.  `RowsName` has it from the invariant of the others |
| `CrashLoops = FALSE` | `LeftAsFound`, `CapturesAreQuiet`, `Implements` | a container in state `restarting` is not stopped; the run `crash_loop` is the counterexample |
| `"none" \notin InitKinds` | all of Lifecycle but the types | two first `up`s write two keys; the run `env_race` |
| `Asked \subseteq {None}` | `AlwaysPollsPublished` | `up --port` moves the registry and not the container; the run `port_asked`.  What is asked of the init of a registered instance, `AskedInit`, may be any port |

### BackupRestore

`BackupRestore_proofs` is in seven parts, each with an invariant that uses those before.

1. `TypeCorrect`.  `TypeOK` is not inductive: the locals of the code are read in
   later steps (`bk.rec` after `b_check`, `rvol` from `r_env` on, `rb` in the
   rollback), and `LocalsOK` says at which `pc` each has been set.  Volume names need
   `clock =< commands`.
2. `KeysSafe`.  `KeyInv` distinguishes when the instance is *Loose*: not registered,
   or being replaced.  While it is not, `.env` or a bundle has the key of everything
   that holds data, the container and the snapshot in progress included.  While it
   is Loose, every such key is in a bundle, whatever `.env` contains, so `.env` may be
   overwritten; and only then is it overwritten (`OnlyLoose`).  That the invariant
   survives the step to Loose is the safety backup (`SafetyWritten`); that bundles
   are not overwritten is the clock (`FreshNames`).
3. `RowsName` and `SafetyNetThere`.  `SafetyInv` says that the volumes the running
   command found are older than the one it makes (`Placed`), so that no step of a restore
   or rollback touches them; that the bundle written is what was sealed, and what `BRecord` takes the checksum
   of (`WrittenIsSealed`); that the safety
   bundle holds what was captured; and that the captured volume still holds it.
4. `LeftAsFound` and `CapturesAreQuiet`.  `RunsInv` follows the one reading of "was n8n
   running" from the start of the command to the step that acts on it.  Only the daemon could
   come in between, and without crash loops it does not start what was stopped.
5. `FourStores`.  `FreshVolume` says that the volume a restore creates did not exist;
   `RestInv`, what a restore has put in place at each of its steps; `AgreeInv`, that outside
   of a replace the four stores agree, and that in one the rollback context (record, `.env`,
   compose file) agrees with the old volume, which is there.  A rollback that succeeds thus puts
   back an instance that agrees; `AgreeInv` says after which of its steps which store has been
   put back.
6. `Numbered`: nothing holds a write that n8n has yet to make.
7. `Implements == Spec => Atomic`, the refinement.  The mapping shows the instance a
   rollback would bring back as long as there is one, and so `BWrite` is `Save`; the registry
   row of a plain restore, and the end of a replace, are `Restore`; a write of n8n on the volume
   shown is `Write`; a killed replace and a failed rollback are `Break`; and every other step,
   failures and the steps of the rollback included, is a stutter.  `Restore` allows that n8n has written to
   the new volume before the wait ends; that those writes are none of the old instance is
   `NewData`, which needs `Numbered`.

### Lifecycle, and both together

`Lifecycle_proofs` proves four invariants and an action property for any number of
terminals, commands and faults.  `DataOpens` and `OneVolume` follow from
`Settled`: there is a volume `Home` (the row's, else the default one), and the
row, every readable compose file, the container and the record of every command
past its lookup name it; no process is between `CheckEnv` and `FillEnv`; the
container and the data in `Home` have the key in `.env`.  It is inductive because
each writer copies the volume of a record that was read while it held, and
because `CheckEnv` finds an `.env`; the latter is `EnvNeverRewritten`.
`AlwaysPollsPublished` adds `PortsOK`, the same for the port, and that the plan of an init
has it from the row.

`Concurrent_proofs` proves `KeysStay`, `SafetyStays` and `NobodyRemoves`, beside lifecycle
commands in any number of terminals.  `BothInv` conjoins the type invariants of both
components and `KeyInv`, and adds what each needs of the other: `.env` and the row exist
throughout, so that no lifecycle command is ever between `CheckEnv` and `FillEnv`.  Each step
of a backup or restore preserves `KeyInv` by the lemmas of `BackupRestore_proofs`; a lifecycle
command does because it writes no bundle and no `.env`, and a container it creates gets the
key in `.env`.  For `SafetyStays`, `SafeInv` adds `SafetyInv` and that the record any other command
holds, and may yet write into the row, names a volume that is no younger than the row's
(`RecordsDated`).  `KeysStay` and `SafetyStays` speak of the time until two commands that write
bundles have begun in one second; `NobodyRemoves` needs no such exception, only that a
rollback which is about to remove a volume has another one to bring back (`Apart`), which
the code tests (core/backup.py:486).

### The other components

`Recovery_proofs` proves `RecoveryTypes`, `AlwaysSealedWithActive` and `OnlyItsPart` for any
number of terminals.  `SealedWithActive` is not inductive: `AdminInv` adds that a backup
that has read or written the file holds, until it seals, a pair that is active, and
that it seals with the passphrase it was given (`LocalsOK`).  For `OnlyItsPart`, `PartInv` says
that the file is what was last written, or torn, or not there, and that beside a command that is alone
every terminal is idle; so what the command has opened is still what it is to keep.

`DevWipe_proofs` proves `TypeCorrect` and `DataGoesFirst`, for any number of instances.  `WipeInv`
says, of every instance the home still knows and nobody has touched since the plan: until
the volumes are removed, its data is in the plan or gone; while containers are removed,
its own is gone or the instance is still to be visited; and while directories and `state.db` are
deleted, both are gone.

`Bundle_proofs` proves `TypeCorrect`, `DamageNeverOpens` and `KeptBundlesRestore` for any number of
bundles, secrets and damages.  `BundleInv` says that damage makes no ciphertext: the body of
every file is destroyed or that of some sealed bundle (`BodiesSealed`).  A payload comes
out only if the header found is the one that body was sealed with, whole, and so each slot
of it opens with the secret it was sealed for.  `JobOK` follows the two readings of a file:
until a rewrite between the two marks the backup as skewed, what was hashed is what is on the
disk, or what has been archived.

`Invocation_proofs` proves every invariant of a run, for every pipe size, deadline, interval and length
of a poll.

- `VerdictAlwaysInTime` needs what each step of the loop knows of the clock (`WaitInv`): when it
  sleeps, n8n was away since the poll began, and when it checks, at most a poll and a sleep ago.
- `NothingIsLeft` rests on `said = out \o pipe \o child.says`: what is shown, in the pipe and yet to
  be said is always all there is (`StreamInv`); `Eof` needs an empty pipe that nobody holds, and a
  child lets go only when it has said everything.
- `AlwaysOneDocument` sorts every step by its outcome (`DocInv`): the run goes on and writes nothing,
  succeeds with one document and code 0, fails with one and another code, or breaks off with none.
- `OnlyWhatIsMeant` and `PreviewsTell` rest on `RunInv`: the steps still to do are the last ones of
  the verb (`Left`), what was touched was announced, and
  of a registered instance nothing before its prompt is answered.
- `ExitsAlwaysTell` adds what docker says on this host while a command is read (`Answering`), and that docker
  is touched only where compose works, or without the plugin by the wipe of an instance without
  files (`ExitInv`).
- `Types` follows from these and the bounds of the pipe (`PipeInv`).

`InstanceWorld_proofs` states once what each docker command does to the types of the
stores; both proofs of type correctness cite it.

### What is only model-checked

Every invariant and every action property that a passing run checks, and the
refinement, are proved.  The liveness properties `CommandEnds`, `UpHeals`, `ResetRepairs`,
`WipeFinishes` and `InvocationEnds` hold under fairness; `ENABLED` is beyond the prover, so
they stay with TLC.

## 6. Where code and documentation disagree

- `crash_loop`: README.md:101 says n8n is stopped for a consistent snapshot; a
  container in state `restarting` is not stopped (core/backup.py:775).
- `adoptable`: docs/commands.md:179 says restore refuses to overwrite an existing
  instance; with `state.db` lost it overwrites `.env` of one that `lon up` would adopt.
- `env_race`: docs/quickstart.md:45 says `.env` is created once and preserved; two
  first `up`s both find none, and the slower one replaces the key of the other
  (compose/template.py:86).
- `port_asked`: docs/troubleshooting.md:66 says to choose another port when one is
  taken; `.env` keeps the taken one, and `up --port` puts the other only into the
  registry and the URL it polls (core/instance.py:108).

What the code does besides, read in it and excepted by the premises of properties:

- The recovery code of a first backup that fails after core/backup.py:106, or that is
  the safety backup of a replace, is not printed (docs/commands.md:154 has the first
  backup print it); `recovery show` reveals it.
- The message of the `finally` block (core/backup.py:160) says the backup finished
  also when the body raised before there was a bundle.
- Of two commands that replace recovery.wrapped at once one is lost, and a code that
  rotate has printed may be used by no bundle (core/backup.py:323, 342).  `EachItsPart`
  speaks of commands that run alone.
- A restore while `dev wipe` waits at its prompt keeps its volume, which is not in the
  plan, and loses its `.env` (app.py:809).  `FilesAfterData` speaks of the instances
  that are not touched meanwhile.
- Volumes of earlier restores have neither row nor label, and a wipe leaves them
  (core/dev.py:45).
- A registered instance whose directory is gone, as a wipe killed before it reached
  `state.db` leaves it, is reported as "Docker was not found" with code 10 by every verb
  that runs compose there: `run` raises FileNotFoundError for the directory too
  (core/instance.py:544).  `ExitTells` excepts it.  Where the daemon is down, backup,
  restore and dev wipe exit with 1 and the lifecycle verbs with 10; but with 1 when the
  directory is there and the compose file is not, which compose notices first.
- Without the compose plugin `dev wipe` of an instance that has lost its files runs plain docker
  commands only, and succeeds (core/dev.py:67).
- `recovery show`, `rotate`, `passphrase change` and `reset` build their dry run outside
  the `try` (app.py:675, 703, 733, 767): a name that is not valid ends in a traceback, and
  `--json` gets no document (`OneDocument`).
- `status` and `logs` ignore `--dry-run` and may adopt an instance; previews leave out an
  adoption, the files `init` rewrites, and the recovery code a safety backup makes
  (`ChangesAreMeant`, `PreviewTells`).
- An `up` between the two readings of the row by a restore (core/backup.py:203, 84) makes the
  safety bundle hold another volume than the rollback brings back (`SafetyHolds`).
- A file rewritten between its hash and its archiving makes a bundle, recorded and reported as
  good, that no restore accepts (core/backup.py:562, 574).  `IntactRestores` excepts it.
- Two backups that start in one second write one file and two rows; the older row has the
  checksum of a bundle that is gone (core/backup.py:804; `SameSecond` is FALSE in `core`).
- KDF parameters that argon2 refuses end `open_bundle` with an error of argon2's
  (core/crypto.py:233), which no caller handles.
- When stderr cannot be written the streaming loop is left with docker running
  (core/runner.py:143).  `logs --follow` captures the output (core/instance.py:385), and so shows nothing
  until docker ends.

`UpHeals` makes one exception: an `.env` that a kill has left empty exists, so no
`up` writes it again, and compose has no port to publish.  `WipeFinishes` excepts a
truncated compose file, on which `compose down`, and so every wipe, fails.

## 7. Not modelled

- `core/diagnostics.py`: log files, read by nobody but the user.
- The text of prompts, logs, tables and progress; the parsing of a line of `.env`, of
  compose's JSON and of n8n's page: only their outcomes.
- The schema migration of `state.db`, and its failures other than an exception at the step
  that uses it.
- Networks, images and image references, except as a kind of thing a run touches.
- `backup -o`; what n8n does with its data; two instances, except in DevWipe (they share
  only `state.db` and the ports of the machine); a lost registry next to a restored volume.
- The strength of AES-GCM and Argon2id, and the randomness of `secrets`.
