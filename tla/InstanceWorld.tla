---------------------------- MODULE InstanceWorld ----------------------------
(***************************************************************************)
(* What one local n8n instance is made of, outside any `lon` process: its  *)
(* .env and docker-compose.yml files, its row in state.db, its container   *)
(* and the Docker volumes that may hold its data.  The `lon` commands are  *)
(* modelled in the modules that extend this one; here are only the effects *)
(* of the docker commands they run and what n8n itself does meanwhile.     *)
(*                                                                         *)
(* A volume's content is the encryption key n8n sealed it with and the set *)
(* of writes it contains, so that two volumes can be told apart, one can   *)
(* descend from another, and a mixture of two shows.                       *)
(***************************************************************************)
EXTENDS Integers

CONSTANTS
    Keys,           \* n8n encryption keys
    Ports,          \* ports n8n can be published on
    DefaultPort,    \* 5678
    MaxTime,        \* bound: the number of seconds the clock can show
    MaxRev,         \* bound: the number of writes n8n makes
    CrashLoops,     \* TRUE: n8n may exit, and Docker then restarts it
    None,           \* no file, no row, no container, no volume
    Torn,           \* a file truncated by a write that did not finish
    Empty           \* a volume that exists and has no data yet

\* Volume 0 is n8n_<name>_data; volume t is the one restore creates at second t.
Vols == 0..MaxTime
Revs == 0..MaxRev

Content == [key: Keys, hist: SUBSET Revs, whole: BOOLEAN]
\* A truncated .env has neither an encryption key nor a port.
EnvFile == [key: Keys \cup {None}, port: Ports \cup {None}]
ComposeFile == [vol: Vols, ext: BOOLEAN]
InstanceRecord == [vol: Vols, port: Ports]
Container == [st: {"running", "restarting", "exited"}, vol: Vols,
              key: Keys \cup {None}, port: Ports]

ASSUME WorldAssumption ==
    /\ MaxTime \in Nat \ {0} /\ MaxRev \in Nat \ {0}
    /\ DefaultPort \in Ports
    /\ CrashLoops \in BOOLEAN
    /\ None # Torn /\ None # Empty /\ Torn # Empty
    /\ {None, Torn, Empty} \cap (Keys \cup Ports) = {}
    /\ \A x \in {None, Torn, Empty} :
          /\ x \notin Content /\ x \notin EnvFile /\ x \notin ComposeFile
          /\ x \notin InstanceRecord /\ x \notin Container /\ x \notin Vols

VARIABLES
    env,        \* the instance's .env
    compose,    \* the instance's docker-compose.yml: the volume it mounts
    reg,        \* the instance's row in state.db
    ctr,        \* the n8n container of the compose project
    vol,        \* the Docker volumes
    rev         \* the last write n8n made: each write has its own number

worldVars == <<env, compose, reg, ctr, vol, rev>>
dockerVars == <<ctr, vol, rev>>
fileVars == <<env, compose, reg>>

WorldTypeOK ==
    /\ env \in EnvFile \cup {None}
    /\ compose \in ComposeFile \cup {None, Torn}
    /\ reg \in InstanceRecord \cup {None}
    /\ ctr \in Container \cup {None}
    /\ vol \in [Vols -> Content \cup {None, Empty}]
    /\ rev \in Revs

Blank == [key |-> None, port |-> None]

-----------------------------------------------------------------------------
(* The docker commands.  Each is its effect when it succeeds; the module   *)
(* that runs it says what a failure may leave behind.                      *)

\* `docker run -v v:...` and `docker compose up` create a missing volume.
Mounted(v) == [vol EXCEPT ![v] = IF @ = None THEN Empty ELSE @]

\* The container `docker compose up` creates from the files as they are now.
Created(st) == [st |-> st, vol |-> compose.vol, key |-> env.key, port |-> env.port]

\* compose needs a parsable file and ${N8N_PORT}; an external volume must exist.
CanCompose == compose \in ComposeFile
CanUp ==
    /\ CanCompose
    /\ env # None /\ env.port # None
    /\ compose.ext => vol[compose.vol] # None

ComposeUp(st) ==
    /\ CanUp
    /\ ctr' = Created(st)
    /\ vol' = Mounted(compose.vol)
    /\ UNCHANGED rev

ComposeDown ==
    /\ CanCompose
    /\ ctr' = None
    /\ UNCHANGED <<vol, rev>>

ComposeStop ==
    /\ CanCompose
    /\ ctr' = IF ctr = None THEN None ELSE [ctr EXCEPT !.st = "exited"]
    /\ UNCHANGED <<vol, rev>>

ComposeStart ==
    /\ CanCompose
    /\ ctr # None
    /\ ctr' = [ctr EXCEPT !.st = "running"]
    /\ UNCHANGED <<vol, rev>>

VolumeCreate(v) ==
    /\ vol' = Mounted(v)
    /\ UNCHANGED <<ctr, rev>>

\* `docker volume rm --force`: refused while a container, even stopped, uses it.
VolumeRemove(v) ==
    /\ ctr # None => ctr.vol # v
    /\ vol' = [vol EXCEPT ![v] = None]
    /\ UNCHANGED <<ctr, rev>>

\* `tar -x` into a volume: the archive's files replace those of the same name,
\* the others stay.
Extracted(old, data) ==
    IF data = Empty THEN old
    ELSE IF old \in Content
         THEN [key |-> data.key, hist |-> old.hist \cup data.hist, whole |-> FALSE]
         ELSE data

-----------------------------------------------------------------------------
(* n8n and the Docker daemon.                                              *)

\* _container_is_running (backup.py:765): some row of `compose ps` says running.
ContainerIsRunning == ctr # None /\ ctr.st = "running"

\* n8n serves its UI on the container's port once its key opens the volume.
\* Without a key in the environment it uses the one stored in the volume.
Serving(port) ==
    /\ ContainerIsRunning
    /\ ctr.port = port
    /\ vol[ctr.vol] \in Content
    /\ ctr.key \in {None, vol[ctr.vol].key}

\* First start on an empty volume: n8n stores the key it was given.
N8nBoots ==
    /\ ContainerIsRunning
    /\ vol[ctr.vol] = Empty
    /\ ctr.key # None
    /\ rev < MaxRev
    /\ rev' = rev + 1
    /\ vol' = [vol EXCEPT ![ctr.vol] =
                  [key |-> ctr.key, hist |-> {rev + 1}, whole |-> TRUE]]
    /\ UNCHANGED <<ctr, fileVars>>

\* n8n saves a workflow, a credential, an execution.
N8nWrites ==
    /\ ContainerIsRunning
    /\ Serving(ctr.port)
    /\ rev < MaxRev
    /\ rev' = rev + 1
    /\ vol' = [vol EXCEPT ![ctr.vol].hist = @ \cup {rev + 1}]
    /\ UNCHANGED <<ctr, fileVars>>

\* n8n exits on its own; `restart: unless-stopped` brings it back later.
N8nExits ==
    /\ CrashLoops
    /\ ContainerIsRunning
    /\ ctr' = [ctr EXCEPT !.st = "restarting"]
    /\ UNCHANGED <<vol, rev, fileVars>>

DaemonRestarts ==
    /\ ctr # None /\ ctr.st = "restarting"
    /\ ctr' = [ctr EXCEPT !.st = "running"]
    /\ UNCHANGED <<vol, rev, fileVars>>

N8nStep == N8nBoots \/ N8nWrites \/ N8nExits \/ DaemonRestarts
=============================================================================
