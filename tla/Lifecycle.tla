----------------------------- MODULE Lifecycle -----------------------------
(***************************************************************************)
(* `lon init`, `up`, `down`, `stop`, `start`, `restart`, `status`, `logs`  *)
(* and `open` (core/instance.py, core/init.py), run from several terminals *)
(* at once over the stores of one instance.  No command takes a lock,      *)
(* undoes anything or handles an exception, so a failure and a kill are    *)
(* the same: the command ends where it is.  A file is written in two       *)
(* steps, truncated and then filled, for another process may look between. *)
(***************************************************************************)
EXTENDS InstanceWorld, FiniteSets

CONSTANTS
    Terminals,      \* the processes that run `lon`
    LocalKey, ForeignKey, LocalPort,
    Asked,          \* what may follow --port; None when it is not given
    AskedInit,      \* the same for init of an instance that is registered
    InitKinds,      \* what the commands may find
    Verbs,          \* the commands the user runs
    MaxCommands,    \* bound: commands
    MaxFaults       \* bound: commands that fail for no reason of their own, or are killed

VARIABLES
    proc,       \* each terminal's process and its locals
    used,       \* the encryption keys generated so far, or found
    commands, faults

lifeVars == <<proc, used, commands, faults>>
vars == <<worldVars, lifeVars>>

AllVerbs == {"init", "up", "down", "stop", "start", "restart", "status", "logs", "open"}

\* The steps of a command after it has its record: where it begins, by verb.
FirstStep == [init |-> "open_compose", up |-> "open_compose", down |-> "down",
              stop |-> "stop", start |-> "ps", restart |-> "ps",
              status |-> "look", logs |-> "look", open |-> "look"]
LifeSteps == {"plan", "plan_port", "lookup", "read_port", "adopt", "open_compose", "fill_compose",
              "check_env", "open_env", "fill_env", "upsert", "up", "down", "stop", "ps",
              "start", "restart", "wait", "look"}

\* A process: its next step, arguments, record, and the key it has generated.
Process == [pc: LifeSteps \cup {"idle"}, verb: AllVerbs, ask: Ports \cup {None},
            rec: InstanceRecord \cup {None}, key: Keys \cup {None}]
NoProcess == [pc |-> "idle", verb |-> "status", ask |-> None, rec |-> None, key |-> None]

ASSUME LifecycleAssumption ==
    /\ {LocalKey, ForeignKey} \subseteq Keys /\ LocalKey # ForeignKey
    /\ LocalPort \in Ports
    /\ Asked \subseteq Ports \cup {None} /\ AskedInit \subseteq Ports \cup {None}
    /\ InitKinds \subseteq {"none", "running", "stopped", "down", "adoptable", "restored"}
    /\ Verbs \subseteq AllVerbs
    /\ MaxCommands \in Nat /\ MaxFaults \in Nat

TypeOK ==
    /\ WorldTypeOK
    /\ proc \in [Terminals -> Process]
    /\ used \subseteq Keys
    /\ commands \in 0..MaxCommands /\ faults \in 0..MaxFaults

-----------------------------------------------------------------------------
Data(key) == [key |-> key, hist |-> {1}, whole |-> TRUE]

\* Nothing; an instance as `up`, `stop` or `down` left it; one older than the
\* registry; one that a restore has put on a volume of its own.
Found(kind) ==
    LET some == kind # "none"
        v == IF kind = "restored" THEN 1 ELSE 0
        key == IF kind = "restored" THEN ForeignKey ELSE LocalKey
        st == IF kind = "stopped" THEN "exited" ELSE "running"
    IN  /\ env = IF some THEN [key |-> key, port |-> LocalPort] ELSE None
        /\ compose = IF some THEN [vol |-> v, ext |-> kind = "restored"] ELSE None
        /\ reg = IF some /\ kind # "adoptable" THEN [vol |-> v, port |-> LocalPort] ELSE None
        /\ ctr = IF some /\ kind # "down"
                 THEN [st |-> st, vol |-> v, key |-> key, port |-> LocalPort]
                 ELSE None
        /\ vol = [w \in Vols |-> IF some /\ w = v THEN Data(key)
                                 ELSE IF some /\ w = 0 THEN Data(LocalKey) ELSE None]

Init ==
    /\ \E kind \in InitKinds : Found(kind)
    /\ rev = 1
    /\ proc = [p \in Terminals |-> NoProcess]
    /\ used = {LocalKey, ForeignKey}
    /\ commands = 0 /\ faults = 0

-----------------------------------------------------------------------------
At(p, step) == proc[p].pc = step
Goto(p, step) == proc' = [proc EXCEPT ![p].pc = step]
Ends(p) == proc' = [proc EXCEPT ![p] = NoProcess]

\* The port a command works with: `port or record.port`; only up is given one.
PortOf(p) == IF proc[p].ask # None THEN proc[p].ask ELSE proc[p].rec.port

AskedBy(verb) == IF verb = "init" /\ reg # None THEN AskedInit ELSE Asked

Start(p) ==
    /\ At(p, "idle")
    /\ commands < MaxCommands
    /\ commands' = commands + 1
    /\ \E verb \in Verbs : \E ask \in AskedBy(verb) :
          /\ ask # None => verb \in {"init", "up"}
          /\ proc' = [proc EXCEPT ![p] = [NoProcess EXCEPT
                         !.pc = IF verb = "init" THEN "plan" ELSE "lookup",
                         !.verb = verb, !.ask = ask]]
    /\ UNCHANGED <<worldVars, used, faults>>

\* `requested_port or env_port or 5678`, of plan_init and of adoption alike.
PortFound(p) ==
    IF proc[p].ask # None THEN proc[p].ask
    ELSE IF env # None /\ env.port # None THEN env.port
    ELSE DefaultPort

\* Fault: init hands the requested port to up, registered instance or not.
PlanAsked(p) ==
    /\ At(p, "plan")
    /\ Goto(p, IF reg # None THEN "lookup" ELSE "plan_port")
    /\ UNCHANGED <<worldVars, used, commands, faults>>

\* init plans, and calls up with the port of its plan: the one of the row it reads ...
Plan(p) ==
    /\ At(p, "plan")
    /\ proc' = [proc EXCEPT ![p].ask = IF reg # None THEN reg.port ELSE proc[p].ask,
                            ![p].pc = IF reg # None THEN "lookup" ELSE "plan_port"]
    /\ UNCHANGED <<worldVars, used, commands, faults>>

\* ... or, when there was no row, the one of the .env it reads then.
PlanPort(p) ==
    /\ At(p, "plan_port")
    /\ proc' = [proc EXCEPT ![p].ask = PortFound(p), ![p].pc = "lookup"]
    /\ UNCHANGED <<worldVars, used, commands, faults>>

\* _get_or_adopt_instance: the row, or one made from the files that are there.
Lookup(p) ==
    /\ At(p, "lookup")
    /\ proc' = [proc EXCEPT ![p].rec = reg,
                            ![p].pc = IF reg # None THEN FirstStep[proc[p].verb]
                                      ELSE "read_port"]
    /\ UNCHANGED <<worldVars, used, commands, faults>>

\* Fault: adoption does not look into the .env it finds.
ReadPortDefault(p) ==
    /\ At(p, "read_port")
    /\ proc[p].verb \in {"init", "up"} \/ compose # None \/ env # None
    /\ proc' = [proc EXCEPT ![p].rec = [vol |-> 0, port |->
                                IF proc[p].ask # None THEN proc[p].ask ELSE DefaultPort],
                            ![p].pc = "adopt"]
    /\ UNCHANGED <<worldVars, used, commands, faults>>

ReadPort(p) ==
    /\ At(p, "read_port")
    /\ proc[p].verb \in {"init", "up"} \/ compose # None \/ env # None
    /\ proc' = [proc EXCEPT ![p].rec = [vol |-> 0, port |-> PortFound(p)],
                            ![p].pc = "adopt"]
    /\ UNCHANGED <<worldVars, used, commands, faults>>

Adopt(p) ==
    /\ At(p, "adopt")
    /\ reg' = proc[p].rec
    /\ Goto(p, FirstStep[proc[p].verb])
    /\ UNCHANGED <<env, compose, dockerVars, used, commands, faults>>

-----------------------------------------------------------------------------
(* up: ensure_instance_files, the row, the container.                      *)

OpenCompose(p) ==
    /\ At(p, "open_compose")
    /\ compose' = Torn
    /\ Goto(p, "fill_compose")
    /\ UNCHANGED <<env, reg, dockerVars, used, commands, faults>>

\* Fault: the compose file names the default volume, not the record's.
FillComposeDefault(p) ==
    /\ At(p, "fill_compose")
    /\ compose' = [vol |-> 0, ext |-> FALSE]
    /\ Goto(p, "check_env")
    /\ UNCHANGED <<env, reg, dockerVars, used, commands, faults>>

FillCompose(p) ==
    /\ At(p, "fill_compose")
    /\ compose' = [vol |-> proc[p].rec.vol, ext |-> FALSE]
    /\ Goto(p, "check_env")
    /\ UNCHANGED <<env, reg, dockerVars, used, commands, faults>>

\* Fault: .env is written on every `up`.
CheckEnvAlways(p) ==
    /\ At(p, "check_env")
    /\ \E k \in Keys \ used :
          /\ used' = used \cup {k}
          /\ proc' = [proc EXCEPT ![p].pc = "open_env", ![p].key = k]
    /\ UNCHANGED <<worldVars, commands, faults>>

\* `if not env_path.exists()`; the text to write has a key of its own.
CheckEnv(p) ==
    /\ At(p, "check_env")
    /\ \/ /\ env # None
          /\ Goto(p, "upsert")
          /\ UNCHANGED used
       \/ /\ env = None
          /\ \E k \in Keys \ used :
                /\ used' = used \cup {k}
                /\ proc' = [proc EXCEPT ![p].pc = "open_env", ![p].key = k]
    /\ UNCHANGED <<worldVars, commands, faults>>

OpenEnv(p) ==
    /\ At(p, "open_env")
    /\ env' = Blank
    /\ Goto(p, "fill_env")
    /\ UNCHANGED <<compose, reg, dockerVars, used, commands, faults>>

FillEnv(p) ==
    /\ At(p, "fill_env")
    /\ env' = [key |-> proc[p].key, port |-> PortOf(p)]
    /\ Goto(p, "upsert")
    /\ UNCHANGED <<compose, reg, dockerVars, used, commands, faults>>

\* Fault: the row gets the argument, not the port in effect.
UpsertAsked(p) ==
    /\ At(p, "upsert")
    /\ reg' = [vol |-> proc[p].rec.vol, port |-> proc[p].ask]
    /\ Goto(p, "up")
    /\ UNCHANGED <<env, compose, dockerVars, used, commands, faults>>

Upsert(p) ==
    /\ At(p, "upsert")
    /\ reg' = [vol |-> proc[p].rec.vol, port |-> PortOf(p)]
    /\ Goto(p, "up")
    /\ UNCHANGED <<env, compose, dockerVars, used, commands, faults>>

Up(p) ==
    /\ At(p, "up")
    /\ ComposeUp("running")
    /\ Goto(p, "wait")
    /\ UNCHANGED <<fileVars, used, commands, faults>>

-----------------------------------------------------------------------------
(* The other commands.                                                     *)

Down(p) ==
    /\ At(p, "down")
    /\ ComposeDown
    /\ Ends(p)
    /\ UNCHANGED <<fileVars, used, commands, faults>>

Stop(p) ==
    /\ At(p, "stop")
    /\ ComposeStop
    /\ Ends(p)
    /\ UNCHANGED <<fileVars, used, commands, faults>>

\* _compose_container_status; start and restart refuse when there is no container.
Ps(p) ==
    /\ At(p, "ps")
    /\ CanCompose
    /\ ctr # None
    /\ Goto(p, proc[p].verb)
    /\ UNCHANGED <<worldVars, used, commands, faults>>

\* `docker compose restart` also starts a container that is stopped.
StartOrRestart(p) ==
    /\ proc[p].pc \in {"start", "restart"}
    /\ ComposeStart
    /\ Goto(p, "wait")
    /\ UNCHANGED <<fileVars, used, commands, faults>>

\* Ready: the command succeeds.  up also sets last_started_at, which nothing reads.
Wait(p) ==
    /\ At(p, "wait")
    /\ Serving(PortOf(p))
    /\ Ends(p)
    /\ UNCHANGED <<worldVars, used, commands, faults>>

\* status, logs and open only look, once the lookup has adopted the instance;
\* so does the opening of the browser at the end of init.
Look(p) ==
    /\ At(p, "look")
    /\ proc[p].verb # "open" => CanCompose
    /\ Ends(p)
    /\ UNCHANGED <<worldVars, used, commands, faults>>

Step(p) ==
    \/ Plan(p) \/ PlanPort(p) \/ Lookup(p) \/ ReadPort(p) \/ Adopt(p)
    \/ OpenCompose(p) \/ FillCompose(p) \/ CheckEnv(p) \/ OpenEnv(p) \/ FillEnv(p)
    \/ Upsert(p) \/ Up(p)
    \/ Down(p) \/ Stop(p) \/ Ps(p) \/ StartOrRestart(p) \/ Wait(p)
    \/ Look(p)

-----------------------------------------------------------------------------
(* Failures.                                                               *)

\* What the step needs is not there, or the web UI does not answer in time.
Refused(p) ==
    /\ \/ /\ At(p, "read_port") /\ compose = None /\ env = None
          /\ proc[p].verb \notin {"init", "up"}
       \/ At(p, "up") /\ ~CanUp
       \/ proc[p].pc \in {"down", "stop", "ps", "start", "restart"} /\ ~CanCompose
       \/ proc[p].pc \in {"ps", "start", "restart"} /\ ctr = None
       \/ At(p, "look") /\ proc[p].verb # "open" /\ ~CanCompose
       \/ At(p, "wait") /\ ~Serving(PortOf(p))
    /\ Ends(p)
    /\ UNCHANGED <<worldVars, used, commands, faults>>

\* An exception or a kill, with the docker command not run, or run to some point: a
\* port another program holds leaves a container that is created and not started,
\* a `down` that is killed one that is stopped and not removed.
Fault(p) ==
    /\ ~At(p, "idle")
    /\ faults < MaxFaults
    /\ faults' = faults + 1
    /\ \/ UNCHANGED worldVars
       \/ /\ UNCHANGED fileVars
          /\ \/ At(p, "up") /\ \E st \in {"running", "exited"} : ComposeUp(st)
             \/ At(p, "down") /\ (ComposeDown \/ ComposeStop)
             \/ At(p, "stop") /\ ComposeStop
             \/ proc[p].pc \in {"start", "restart"} /\ ComposeStart
    /\ Ends(p)
    /\ UNCHANGED <<used, commands>>

Environment == N8nStep /\ UNCHANGED lifeVars

Next ==
    \/ \E p \in Terminals : Start(p) \/ Step(p) \/ Refused(p) \/ Fault(p)
    \/ Environment

Spec == Init /\ [][Next]_vars

\* Each process is scheduled, the docker commands return; n8n finishes its start.
FairSpec ==
    /\ Spec
    /\ \A p \in Terminals : WF_vars(Step(p) \/ Refused(p))
    /\ WF_vars(N8nBoots /\ UNCHANGED lifeVars)
    /\ WF_vars(DaemonRestarts /\ UNCHANGED lifeVars)
-----------------------------------------------------------------------------
(* Properties.                                                             *)

Mounts == {v \in Vols : \/ reg # None /\ v = reg.vol
                        \/ compose \in ComposeFile /\ v = compose.vol
                        \/ ctr # None /\ v = ctr.vol}

\* The data that is registered, mounted or about to be mounted opens with the
\* key in .env, at every moment: ensure_instance_files (template.py:81-97) never
\* lets a second key in.
DataOpens ==
    \A v \in Mounts : vol[v] \in Content => env # None /\ env.key = vol[v].key

\* Whoever writes the compose file or the row last, and whatever was killed
\* between the two, row, file, container and every running command mean one
\* volume, that of a restore included (instance.py:110-134).
OneVolume ==
    reg # None =>
        /\ compose \in ComposeFile => compose.vol = reg.vol
        /\ ctr # None => ctr.vol = reg.vol
        /\ \A p \in Terminals : proc[p].rec # None => proc[p].rec.vol = reg.vol

\* A command that waits polls the port its container is published on, so that it
\* can tell a slow start from a wrong port (instance.py:135, 244, 286); also when init
\* is given another port for an instance that is registered (init.py:72, 118).
PollsPublished ==
    \A p \in Terminals : At(p, "wait") /\ ctr # None => ctr.port = PortOf(p)

\* docs/quickstart.md:45: ".env is created once and preserved on later runs".
EnvKept == [][env \notin {None, Blank} => env' = env]_vars

\* Whatever an earlier command left when it failed or was killed, the next `up`
\* or `init` that is not disturbed brings n8n up, unless .env was truncated.
UpHeals ==
    \A p \in Terminals : \A n \in 1..MaxCommands :
        At(p, "lookup") /\ proc[p].verb \in {"init", "up"} /\ commands = n /\ faults = MaxFaults
            ~> commands > n \/ env = Blank \/ (reg # None /\ Serving(reg.port))

\* docs/troubleshooting.md:66-74: when the port is taken, "choose another port"
\* with `lon up --port 5683`, "then open" that port.
AskedPortPublished ==
    \A p \in Terminals :
        At(p, "wait") /\ proc[p].ask # None /\ ctr # None => ctr.port = proc[p].ask
=============================================================================
