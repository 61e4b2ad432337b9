----------------------------- MODULE Invocation -----------------------------
(***************************************************************************)
(* One run of `lon` (app.py) from its arguments to its exit code: the dry  *)
(* run, the prompts, the steps of the verb, the docker commands it streams *)
(* or captures (core/runner.py), the wait for n8n (core/readiness.py), the *)
(* prerequisite checks (core/doctor.py), the errors and the JSON document. *)
(*                                                                         *)
(* What the steps do to an instance is in BackupRestore, Lifecycle,        *)
(* Recovery and DevWipe; here a step only has the kinds of things it       *)
(* touches, and how it ends.                                               *)
(***************************************************************************)
EXTENDS FiniteSets, Streaming, Readiness

VARIABLES
    options,    \* --json, --dry-run, --yes, and the verb's own switch
    verb,
    inst,       \* what there is of the instance it names
    host,       \* what is wrong with Docker, if anything
    pc, todo,   \* where the run is; the steps left
    consent,    \* what the user said to the prompt
    touched,    \* kinds of things changed so far
    docs,       \* the documents on stdout
    exit, broke \* exit code; the run ended by something that is no LonError

lonVars == <<options, verb, inst, host, pc, todo, consent, touched, docs, exit, broke>>
vars == <<lonVars, streamVars, waitVars>>

Insts == {"unnamed",    \* its name is not valid
          "none", "adoptable",                  \* no row, with or without files
          "gone", "bare",       \* a row, but no directory; a directory, but no files
          "legacy", "known", "coded"}   \* a row and files; with the image of old
                                        \* releases; with recovery.wrapped too
Hosts == {"ok", "no_cli", "no_daemon", "no_plugin", "port_taken"}
Kinds == {"compose", "env", "row", "docker", "volume", "recovery", "bundle", "browser", "image"}

Registered == inst \in {"gone", "bare", "legacy", "known", "coded"}
Works == host \in {"ok", "port_taken"}               \* docker compose
PlainWorks == Works \/ host = "no_plugin"            \* any other docker command
FilesLost == inst \in {"gone", "bare"}
HasFiles == inst \in {"adoptable", "legacy", "known", "coded"}

-----------------------------------------------------------------------------
(* The verbs.                                                              *)

UpSteps == <<"adopt", "image", "files", "upsert", "compose", "wait">>

Body == [
    init |-> <<"plan", "prerequisites">> \o UpSteps \o
             (IF options.flag THEN <<"lookup", "browser">> ELSE <<>>),
    up |-> UpSteps,
    down |-> <<"lookup", "compose">>,
    stop |-> <<"lookup", "compose">>,
    start |-> <<"lookup", "ps", "compose", "wait">>,
    restart |-> <<"lookup", "ps", "compose", "wait">>,
    status |-> <<"lookup", "ps">>,
    list |-> <<"ps">>,
    logs |-> <<"lookup", "ps">>,
    open |-> <<"lookup", "browser">>,
    doctor |-> <<"report">>,
    backup |-> <<"type", "registered", "archive", "wait">>,
    restore |-> <<"type", "put_back", "wait">>,
    recovery_show |-> <<"type", "unlock">>,
    recovery_rotate |-> <<"type", "unlock", "rewrap">>,
    passphrase_change |-> <<"type", "unlock", "rewrap">>,
    passphrase_reset |-> <<"type", "registered", "alive", "wait", "rewrap">>,
    dev_wipe |-> <<"wipe">>]

Verbs == DOMAIN Body
Material == {"recovery_show", "recovery_rotate", "passphrase_change", "passphrase_reset"}

\* Fault: one more verb carries on.
PreviewedFewer == Verbs \ {"status", "list", "logs", "doctor", "passphrase_reset"}

\* The verbs that test options.dry_run; the others carry on.
Previewed == Verbs \ {"status", "list", "logs", "doctor"}

\* What the dry run of the verb lists.  The switch is --replace of restore,
\* --open of init, --images of dev wipe.
Preview ==
    CASE verb = "init" ->
            {"docker"} \cup (IF HasFiles THEN {} ELSE {"compose", "env"})
            \cup (IF Registered THEN {} ELSE {"row"})
            \cup (IF options.flag THEN {"browser"} ELSE {})
      [] verb = "up" -> {"compose", "env", "row", "docker"}
      [] verb \in {"down", "stop", "start", "restart"} -> {"docker"}
      [] verb = "open" -> {"browser"}
      [] verb = "backup" -> {"recovery", "bundle", "row", "docker"}
      [] verb = "restore" -> {"volume", "compose", "env", "row", "docker"}
                             \cup (IF options.flag THEN {"bundle"} ELSE {})
      [] verb \in Material \ {"recovery_show"} -> {"recovery"}
      [] verb = "dev_wipe" -> {"docker", "volume", "compose", "env", "row", "recovery"}
                              \cup (IF options.flag THEN {"image"} ELSE {})
      [] OTHER -> {}

-----------------------------------------------------------------------------
(* Ends.                                                                   *)

At(step) == pc = "body" /\ todo # <<>> /\ Head(todo) = step
Idle == UNCHANGED <<streamVars, waitVars>>

\* _emit_json, _maybe_emit_json
Emitted(ok, fixes) == IF options.json THEN Append(docs, [ok |-> ok, fixes |-> fixes]) ELSE docs

Ends(ok, fixes, code) ==
    /\ pc' = "end" /\ exit' = code /\ docs' = Emitted(ok, fixes)
    /\ UNCHANGED <<options, verb, inst, host, todo, consent, broke>>

ExitCode == [failed |-> 1, usage |-> 2, prerequisite |-> 10, port |-> 11, not_found |-> 13]

\* _handle_error
HandleError(cause) == Ends(FALSE, {}, ExitCode[cause])
Raise(cause) == HandleError(cause) /\ UNCHANGED touched

\* A traceback: click's, Python's or rich's; Ctrl-C.  No document.
Break ==
    /\ pc' = "end" /\ exit' = 1 /\ broke' = TRUE
    /\ UNCHANGED <<options, verb, inst, host, todo, consent, touched, docs>>

Goes(kinds) ==
    /\ todo' = Tail(todo) /\ touched' = touched \cup kinds
    /\ UNCHANGED <<options, verb, inst, host, pc, consent, docs, exit, broke>>

-----------------------------------------------------------------------------
(* The dry run and the prompts.                                            *)

Fresh == pc = "begin" /\ Idle

DryRun ==
    /\ Fresh /\ options.dry /\ verb \in Previewed
    /\ IF inst = "unnamed" /\ verb \notin {"restore", "dev_wipe"}
       THEN IF verb \in Material   \* built outside the try of the command
            THEN Break
            ELSE Raise("usage")
       ELSE Ends(TRUE, {}, 0) /\ UNCHANGED touched

Asks == verb \in {"backup", "passphrase_reset", "dev_wipe"} /\ ~options.yes

Begins == Fresh /\ ~(options.dry /\ verb \in Previewed)
Starts(says) ==
    /\ pc' = "body" /\ todo' = Body[verb] /\ consent' = says
    /\ UNCHANGED <<options, verb, inst, host, touched, docs, exit, broke>>

RefuseFollow == Begins /\ verb = "logs" /\ options.json /\ options.flag /\ Raise("usage")

Begin ==
    /\ Begins
    /\ ~(verb = "logs" /\ options.json /\ options.flag)
    /\ ~Asks /\ Starts("none")

Agree == Begins /\ Asks /\ Starts("yes")

\* Fault: the answer is handled as an error, and the command goes on.
DeclineGoesOn ==
    /\ Begins /\ Asks
    /\ pc' = "body" /\ todo' = Body[verb] /\ consent' = "no"
    /\ docs' = Emitted(FALSE, {})
    /\ UNCHANGED <<options, verb, inst, host, touched, exit, broke>>

Refused ==
    /\ pc' = "end" /\ consent' = "no" /\ exit' = ExitCode["failed"]
    /\ docs' = Emitted(FALSE, {})
    /\ UNCHANGED <<options, verb, inst, host, todo, touched, broke>>

\* Any other answer, and the end of stdin.
Decline == Begins /\ Asks /\ Refused

Entry == DryRun \/ RefuseFollow \/ Begin \/ Agree \/ Decline

-----------------------------------------------------------------------------
(* Docker commands.                                                        *)

Restores == verb \in {"init", "up"}    \* files that are missing

Fileless == FilesLost /\ ~Restores

\* What `docker compose` says, and its return code.  It wants its file before it asks
\* the daemon.  "daemon ... not running" and "port ... already allocated" each arrive
\* in two chunks; a compose file that cannot be used may hold half of such a text.
Says(binds) ==
    CASE host = "no_plugin" \/ Fileless -> {[text |-> <<"noise">>, rc |-> 1]}
      [] host = "no_daemon" /\ ~Fileless -> {[text |-> <<"dae", "mon">>, rc |-> 1]}
      [] host = "port_taken" /\ binds /\ ~Fileless ->
            {[text |-> <<"noise", "tak", "en">>, rc |-> 1]}
      [] OTHER -> {[text |-> <<"noise", "tak", "noise">>, rc |-> 1],
                   [text |-> <<"noise", "noise">>, rc |-> 0]}

Holds(text, a, b) == \E i \in 1..(Len(text) - 1) : text[i] = a /\ text[i + 1] = b

\* _run_compose: which exception the output of a failed command becomes.
Cause(text) ==
    IF Holds(text, "dae", "mon") THEN "prerequisite"
    ELSE IF Holds(text, "tak", "en") THEN "port"
    ELSE "failed"

\* `list` asks Docker about every row.
ListsNothing == verb = "list" /\ ~Registered
Asking == At("compose") \/ (At("ps") /\ ~ListsNothing)

\* FileNotFoundError: there is no docker, or no directory to run it in.
Unrunnable == host = "no_cli" \/ (inst = "gone" /\ ~Restores)
NoCli == Asking /\ Unrunnable /\ Raise("prerequisite") /\ Idle

\* run: the output is captured and judged at once.  `logs` shows it, `start` and
\* `restart` want a container.
Capture ==
    /\ At("ps") /\ Idle
    /\ \/ ListsNothing /\ Goes({})
       \/ /\ Asking /\ ~Unrunnable
          /\ \E answer \in Says(FALSE) :
                IF answer.rc # 0 THEN Raise(Cause(answer.text))
                ELSE \/ Goes({})
                     \/ verb \in {"start", "restart"} /\ Raise("failed")

ComposeStreams ==
    /\ At("compose") /\ reader = "off" /\ ~Unrunnable
    /\ \E answer \in Says(verb \in {"init", "up", "start", "restart"}) :
          Launch(answer.text, answer.rc)
    /\ touched' = touched \cup {"docker"}
    /\ UNCHANGED <<options, verb, inst, host, pc, todo, consent, docs, exit, broke, waitVars>>

Streams == StreamStep /\ pc = "body" /\ UNCHANGED <<lonVars, waitVars>>

\* The result of run_streaming, once the child is reaped.
ComposeReturns ==
    /\ At("compose") /\ Reaped
    /\ IF child.rc = 0 THEN Goes({}) ELSE Raise(Cause(out))
    /\ reader' = "off"
    /\ UNCHANGED <<child, pipe, lonHolds, said, out, waitVars>>

-----------------------------------------------------------------------------
(* Waiting for n8n.                                                        *)

BeginsWait == At("wait") /\ (verb = "backup" => "docker" \in touched) /\ BeginWait /\ UNCHANGED <<lonVars, streamVars>>
Waits == pc = "body" /\ WaitStep /\ UNCHANGED <<lonVars, streamVars>>

\* A backup waits only for what it has stopped.
NoWait == At("wait") /\ Idle /\ verb = "backup" /\ "docker" \notin touched /\ Goes({})

\* `reset` goes on to write; `up` has the row already.
WaitReturns ==
    /\ At("wait") /\ UNCHANGED streamVars
    /\ \/ WaitAt("yes") /\ Goes({})
       \/ WaitAt("no") /\ Raise("failed")
       \/ WaitAt("broken") /\ Break
    /\ UNCHANGED waitVars

-----------------------------------------------------------------------------
(* The steps of the verbs.                                                 *)

Quiet(step) == At(step) /\ Idle

\* _get_or_adopt_instance.  The instance `init` opens is the one it has brought up.
Lookup ==
    /\ Quiet("lookup")
    /\ IF Registered \/ "row" \in touched THEN Goes({})
       ELSE IF inst = "unnamed" THEN Raise("usage")
       ELSE IF HasFiles THEN Goes({"row"})
       ELSE Raise("not_found")

Adopt ==
    /\ Quiet("adopt")
    /\ IF inst = "unnamed" THEN Raise("usage")
       ELSE Goes(IF Registered THEN {} ELSE {"row"})

\* _migrate_legacy_default_image and its prompt.
Image ==
    /\ Quiet("image")
    /\ IF inst # "legacy" THEN Goes({})
       ELSE \/ /\ todo' = Tail(todo) /\ consent' = "yes"
               /\ UNCHANGED <<options, verb, inst, host, pc, touched, docs, exit, broke>>
            \/ ~options.yes /\ Refused

\* Steps that touch several things in this order, and may fail after any of them.
Part(kinds, n) == {kinds[i] : i \in 1..n}
FailsAmong(kinds) ==
    \E n \in 0..Len(kinds) : HandleError("failed") /\ touched' = touched \cup Part(kinds, n)
Touches(kinds) == Goes(Part(kinds, Len(kinds))) \/ FailsAmong(kinds)

\* Fault: .env is written whether it is there or not.
FilesAlways == Quiet("files") /\ Touches(<<"compose", "env">>)

\* ensure_instance_files: the compose file always, .env when there is none.
Files ==
    /\ Quiet("files")
    /\ Touches(<<"compose">> \o (IF inst = "legacy" THEN <<"image">> ELSE <<>>)
               \o (IF HasFiles THEN <<>> ELSE <<"env">>))

Upsert == Quiet("upsert") /\ Goes({"row"})

\* plan_init
PlanInit == Quiet("plan") /\ IF inst = "unnamed" THEN Raise("usage") ELSE Goes({})

\* run_doctor.  A port is not checked for `init`.
FailedChecks(port) ==
    {check \in {"cli", "daemon", "compose", "port"} :
        \/ host = "no_cli" /\ check \in {"cli", "daemon", "compose"}
        \/ host = "no_daemon" /\ check = "daemon"
        \/ host = "no_plugin" /\ check = "compose"
        \/ host = "port_taken" /\ check = "port" /\ port}

\* Fault: the exit code counts the failed checks.
ReportCodeCounts(failed) == Cardinality(failed)

\* The first failed check; the port is the last.
ReportCode(failed) == IF failed = {} THEN 0
                      ELSE ExitCode[IF failed = {"port"} THEN "port" ELSE "prerequisite"]

Prerequisites ==
    /\ Quiet("prerequisites")
    /\ IF FailedChecks(FALSE) = {} THEN Goes({}) ELSE Raise("prerequisite")

\* plan_docker_bootstrap
Fixes(failed) ==
    IF "cli" \in failed THEN {"install-docker"}
    ELSE {fix \in {"start-docker", "install-compose-plugin"} :
             \/ fix = "start-docker" /\ "daemon" \in failed
             \/ fix = "install-compose-plugin" /\ "compose" \in failed}

\* doctor; its switch is --fix, of which there is only the preview.
Report ==
    /\ verb = "doctor" /\ Quiet("report")
    /\ LET failed == FailedChecks(TRUE)
       IN  IF ~options.flag THEN Ends(failed = {}, {}, ReportCode(failed)) /\ UNCHANGED touched
           ELSE IF ~options.dry THEN Raise("usage")
           ELSE Ends(failed = {}, Fixes(failed), 0) /\ UNCHANGED touched

\* The prompts for secrets: empty, or not the same twice.
Type == Quiet("type") /\ (Goes({}) \/ Raise("usage"))

\* open_instance: the openers in turn, until one works.
Browser == Quiet("browser") /\ (Goes({"browser"}) \/ Goes({}))

-----------------------------------------------------------------------------
(* The steps BackupRestore, Recovery and DevWipe have in full.             *)

\* _run_docker of backup.py, _run of dev.py: they do not read what docker says.
DockerCause == IF host = "no_cli" THEN "prerequisite" ELSE "failed"

\* Steps of which the later ones want a docker command that works.
TouchesWhere(works, before, kinds) ==
    IF works THEN Touches(before \o kinds)
    ELSE \/ FailsAmong(before)
         \/ HandleError(DockerCause) /\ touched' = touched \cup Part(before, Len(before))

CodeIfNone == IF inst = "coded" THEN <<>> ELSE <<"recovery">>

\* The row, and both files.
KnownInstance ==
    /\ Quiet("registered")
    /\ IF ~Registered THEN Raise("not_found")
       ELSE IF FilesLost THEN Raise("failed") ELSE Goes({})

\* backup_instance after its checks.
Archive ==
    /\ Quiet("archive")
    /\ \E stops \in {<<>>, <<"docker">>} :
          TouchesWhere(Works, CodeIfNone, stops \o <<"bundle", "row">>)

\* restore_instance up to its wait.  A restore of no registered instance has the volume
\* and the row before its first compose command.
PutBack ==
    /\ Quiet("put_back")
    /\ \/ Raise("failed")                   \* no bundle, or it does not open
       \/ inst = "unnamed" /\ Raise("usage")
       \/ /\ Registered /\ options.flag /\ ~FilesLost
          /\ TouchesWhere(Works, CodeIfNone,
                          <<"docker", "bundle", "row", "env", "compose", "volume">>)
       \/ /\ inst \in {"none", "adoptable"}
          /\ TouchesWhere(Works, <<"env", "compose">>
                                 \o (IF PlainWorks THEN <<"volume", "row">> ELSE <<>>),
                          <<"docker">>)

\* _recovery_material_path, _open_recovery_material
Unlock ==
    /\ Quiet("unlock")
    /\ \/ ~Registered /\ Raise("not_found")
       \/ Registered /\ Raise("failed")
       \/ inst = "coded" /\ Goes({})

\* reset wants a running container.
Alive ==
    /\ Quiet("alive")
    /\ \/ Raise(IF Works THEN "failed" ELSE DockerCause)
       \/ Works /\ Goes({})

Rewrap == Quiet("rewrap") /\ Touches(<<"recovery">>)

\* wipe_dev.  `compose down` only where there is a compose file; the directory, and the
\* registry even if it has no row, last.
Wipe ==
    /\ Quiet("wipe")
    /\ \E registry \in {<<>>, <<"row">>} :
          LET images == IF options.flag THEN <<"image">> ELSE <<>>
              files == (IF HasFiles THEN <<"compose", "env">> ELSE <<>>)
                       \o (IF inst = "coded" THEN <<"recovery">> ELSE <<>>) \o registry
          IN  /\ Registered => registry # <<>>
              /\ IF inst \in {"none", "unnamed"}
                 THEN TouchesWhere(options.flag => PlainWorks, <<>>, images \o registry)
                 ELSE TouchesWhere(PlainWorks /\ (HasFiles => Works), <<>>,
                                   <<"docker", "volume">> \o images \o files)

-----------------------------------------------------------------------------
Finish == pc = "body" /\ todo = <<>> /\ Idle /\ Ends(TRUE, {}, 0) /\ UNCHANGED touched

\* Ctrl-C, a closed pipe behind stderr, markup of rich in a message, a registry that
\* cannot be opened, output of compose that is no JSON: at any step.
Interrupt == pc # "end" /\ Break /\ Idle

LonStep ==
    \/ Entry \/ Finish
    \/ NoCli \/ Capture \/ ComposeStreams \/ Streams \/ ComposeReturns
    \/ BeginsWait \/ Waits \/ NoWait \/ WaitReturns
    \/ Lookup \/ Adopt \/ Image \/ Files \/ Upsert \/ PlanInit \/ Prerequisites
    \/ Report \/ Type \/ Browser
    \/ KnownInstance \/ Archive \/ PutBack \/ Unlock \/ Alive \/ Rewrap \/ Wipe

Docker == pc = "body" /\ ChildStep /\ UNCHANGED <<lonVars, waitVars>>
Clock == pc = "body" /\ Tick /\ UNCHANGED <<lonVars, streamVars>>
N8n == pc = "body" /\ N8nTurns /\ UNCHANGED <<lonVars, streamVars>>

Next == LonStep \/ Interrupt \/ Docker \/ Clock \/ N8n

Init ==
    /\ options \in [json: BOOLEAN, dry: BOOLEAN, yes: BOOLEAN, flag: BOOLEAN]
    /\ verb \in Verbs /\ inst \in Insts /\ host \in Hosts
    /\ pc = "begin" /\ todo = <<>> /\ consent = "none" /\ touched = {} /\ docs = <<>>
    /\ exit = 0 /\ broke = FALSE
    /\ StreamInit /\ WaitInit

\* The prompts are answered; docker, and what it has started, ends; time passes.
Fairness == WF_vars(LonStep) /\ WF_vars(Docker) /\ WF_vars(Clock)

Spec == Init /\ [][Next]_vars /\ Fairness
-----------------------------------------------------------------------------
(* Properties.                                                             *)

\* Every variable has its type; a step that has begun is one of the verb's.
TypeOK ==
    /\ options \in [json: BOOLEAN, dry: BOOLEAN, yes: BOOLEAN, flag: BOOLEAN]
    /\ verb \in Verbs /\ inst \in Insts /\ host \in Hosts
    /\ pc \in {"begin", "body", "end"} /\ consent \in {"none", "yes", "no"}
    /\ touched \subseteq Kinds
    /\ \E n \in 0..Len(Body[verb]) : todo = SubSeq(Body[verb], n + 1, Len(Body[verb]))
    /\ docs \in Seq([ok: BOOLEAN, fixes: SUBSET {"install-docker", "start-docker",
                                                 "install-compose-plugin"}])
    /\ exit \in {0, 1, 2, 10, 11, 13} /\ broke \in BOOLEAN
    /\ StreamTypeOK /\ WaitTypeOK

Ended == pc = "end"

\* README.md:155: --json writes one object to stdout.  Exactly one when the run ends
\* by its own doing, none before, and it agrees with the exit code; only the preview
\* of `doctor --fix` reports a failed check and exits with 0.
OneDocument ==
    /\ ~options.json \/ ~Ended \/ broke => docs = <<>>
    /\ options.json /\ Ended /\ ~broke =>
          /\ Len(docs) = 1
          /\ (docs[1].ok <=> exit = 0) \/ (verb = "doctor" /\ options.dry /\ exit = 0)

\* A run nobody agreed to changes nothing: no dry run of a verb that has one (of the
\* others only the row that status, logs and no other adopt), and no command whose
\* prompt was not answered with yes, or was answered by --yes.
ChangesAreMeant ==
    /\ options.dry => touched \subseteq IF verb \in {"status", "logs"} THEN {"row"} ELSE {}
    /\ consent = "no" => touched = {}
    /\ Asks /\ touched # {} => consent = "yes"

\* The dry run tells what the command will do: whatever a run touches is in what its
\* dry run lists (app.py:138-330, 443).  What it leaves out: the row adopted by verbs
\* that only look it up, the compose file and row `init` rewrites, a new image agreed
\* to at the prompt, the recovery code the safety backup makes.
PreviewTells ==
    ~options.dry /\ verb \in Previewed =>
        touched \subseteq Preview
            \cup (IF verb \in {"down", "stop", "start", "restart", "open"} THEN {"row"} ELSE {})
            \cup (IF verb = "init" THEN {"row", "compose"} ELSE {})
            \cup (IF verb \in {"init", "up"} /\ consent = "yes" THEN {"image"} ELSE {})
            \cup (IF verb = "restore" /\ options.flag THEN {"recovery"} ELSE {})

\* The exit code tells a script what is wrong (core/errors.py), through docker's own
\* words where a command was run: 10, 11 and 13 each have their reason, and Docker
\* missing or down is 10 at the prerequisites and at every compose command, except that
\* compose misses the file of a file-less instance first (1).  A registered instance
\* whose directory is gone also gives 10, as if Docker were missing.  A run that touched
\* docker succeeds only where compose works, or as the wipe of a file-less instance,
\* which does without it.  The fixes doctor previews are those the host needs.
ExitTells ==
    Ended /\ ~broke =>
        /\ exit = 10 => ~Works \/ (inst = "gone" /\ ~Restores)
        /\ exit = 11 => host = "port_taken"
        /\ exit = 13 => ~Registered
        /\ exit = 1 /\ todo # <<>> /\ host \in {"no_cli", "no_daemon"} =>
              \/ Head(todo) \notin {"prerequisites", "compose", "ps"}
              \/ host = "no_daemon" /\ inst = "bare" /\ ~Restores
        /\ exit = 1 /\ todo # <<>> /\ host = "port_taken" =>
              verb \notin {"up", "init"} \/ Head(todo) # "compose"
        /\ exit = 0 /\ "docker" \in touched =>
              Works \/ (host = "no_plugin" /\ verb = "dev_wipe" /\ FilesLost)
        /\ \A i \in 1..Len(docs) : verb = "doctor" /\ options.flag /\ exit = 0 =>
              (docs[i].fixes = {} <=> Works)

\* A run that ends by its own doing leaves no docker command behind, and has shown
\* and judged all that it said (runner.py:54-130).
NothingLeftRunning ==
    Ended /\ ~broke => child.st # "running" /\ (child.st = "exited" => out = said)

\* Every run ends: streams are drained whoever holds the pipe, waits have deadlines.
\* `logs --follow` is to run until docker ends.
InvocationEnds == ~(verb = "logs" /\ options.flag) ~> Ended
=============================================================================
