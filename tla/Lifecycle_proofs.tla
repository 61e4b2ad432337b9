-------------------------- MODULE Lifecycle_proofs --------------------------
(***************************************************************************)
(* Proofs about Lifecycle, for any number of terminals and commands.       *)
(*                                                                         *)
(* Once there is an .env, no command writes it, and every command that has *)
(* a record, every file, row and container means the same volume: Home.    *)
(***************************************************************************)
EXTENDS Lifecycle, InstanceWorld_proofs

HasRecord == LifeSteps \ {"plan", "plan_port", "lookup", "read_port"}

\* A command that is past the lookup has its record, and is at a step of its own.
RecordsOK ==
    \A p \in Terminals :
        /\ proc[p].pc \in HasRecord => proc[p].rec # None
        /\ proc[p].pc = "ps" => proc[p].verb \in {"start", "restart"}
TypeInv == TypeOK /\ RecordsOK

ProcOK == proc' \in [Terminals -> Process] /\ RecordsOK'
CountOK == used' \subseteq Keys /\ commands' \in 0..MaxCommands /\ faults' \in 0..MaxFaults

-----------------------------------------------------------------------------
(* Types.                                                                  *)

LEMMA Assemble == FilesOK /\ DockerOK /\ ProcOK /\ CountOK => TypeInv'
BY DEF FilesOK, DockerOK, ProcOK, CountOK, TypeInv, TypeOK, WorldTypeOK

LEMMA Unchanged ==
    ASSUME TypeInv
    PROVE  /\ UNCHANGED fileVars => FilesOK
           /\ UNCHANGED dockerVars => DockerOK
           /\ UNCHANGED proc => ProcOK
           /\ UNCHANGED <<used, commands, faults>> => CountOK
BY DEF TypeInv, TypeOK, WorldTypeOK, FilesOK, DockerOK, ProcOK, RecordsOK, CountOK, fileVars,
       dockerVars

LEMMA NoProcessType == NoProcess \in Process
BY WorldTypes DEF NoProcess, Process, AllVerbs

LEMMA FirstStepType ==
    ASSUME NEW verb \in AllVerbs
    PROVE  /\ FirstStep[verb] \in HasRecord
           /\ FirstStep[verb] = "ps" => verb \in {"start", "restart"}
BY DEF FirstStep, AllVerbs, HasRecord, LifeSteps

LEMMA ProcMoves ==
    ASSUME TypeInv, NEW p \in Terminals
    PROVE  /\ Ends(p) => ProcOK
           /\ \A step \in HasRecord :
                 /\ proc[p].rec # None /\ Goto(p, step)
                 /\ step = "ps" => proc[p].verb \in {"start", "restart"}
                 => ProcOK
<1>1. proc[p] \in Process
    BY DEF TypeInv, TypeOK
<1>2. ASSUME Ends(p) PROVE ProcOK
    BY <1>2, NoProcessType
       DEF Ends, ProcOK, RecordsOK, TypeInv, TypeOK, NoProcess, HasRecord, LifeSteps
<1>3. ASSUME NEW step \in HasRecord, proc[p].rec # None, Goto(p, step),
             step = "ps" => proc[p].verb \in {"start", "restart"}
      PROVE  ProcOK
    <2>1. [proc[p] EXCEPT !.pc = step] \in Process
        BY <1>1, <1>3 DEF Process, HasRecord
    <2> QED BY <1>1, <1>3, <2>1 DEF Goto, ProcOK, RecordsOK, TypeInv, TypeOK, Process
<1> QED BY <1>2, <1>3

LEMMA TypeInit == Init => TypeInv
<1> SUFFICES ASSUME Init PROVE TypeInv
    OBVIOUS
<1>1. PICK kind \in InitKinds : Found(kind)
    BY DEF Init
<1>2. Data(LocalKey) \in Content /\ Data(ForeignKey) \in Content
    BY WorldTypes, LifecycleAssumption DEF Data, Content
<1>3. env \in EnvFile \cup {None}
    BY <1>1, LifecycleAssumption DEF Found, EnvFile
<1>4. compose \in ComposeFile \cup {None, Torn}
    BY <1>1, WorldTypes DEF Found, ComposeFile
<1>5. reg \in InstanceRecord \cup {None}
    BY <1>1, WorldTypes, LifecycleAssumption DEF Found, InstanceRecord
<1>6. ctr \in Container \cup {None}
    BY <1>1, WorldTypes, LifecycleAssumption DEF Found, Container
<1>7. vol \in [Vols -> Content \cup {None, Empty}]
    BY <1>1, <1>2 DEF Found
<1>8. WorldTypeOK
    BY <1>3, <1>4, <1>5, <1>6, <1>7, WorldTypes DEF WorldTypeOK, Init
<1>9. proc \in [Terminals -> Process] /\ RecordsOK
    BY NoProcessType DEF Init, RecordsOK, NoProcess, HasRecord, LifeSteps
<1> QED BY <1>8, <1>9, LifecycleAssumption DEF Init, TypeInv, TypeOK

LEMMA PortType ==
    ASSUME TypeInv, NEW p \in Terminals, proc[p].rec # None
    PROVE  PortOf(p) \in Ports /\ proc[p].rec \in InstanceRecord /\ proc[p].rec.vol \in Vols
<1>1. proc[p] \in Process
    BY DEF TypeInv, TypeOK
<1> QED BY <1>1 DEF Process, PortOf, InstanceRecord

LEMMA PortFoundType ==
    ASSUME TypeInv, NEW p \in Terminals
    PROVE  PortFound(p) \in Ports
<1>1. proc[p] \in Process
    BY DEF TypeInv, TypeOK
<1> QED BY <1>1, WorldTypes DEF PortFound, TypeInv, TypeOK, WorldTypeOK, EnvFile, Process

\* The process a command begins with.
Started(verb, ask) ==
    [NoProcess EXCEPT !.pc = IF verb = "init" THEN "plan" ELSE "lookup",
                      !.verb = verb, !.ask = ask]

LEMMA LookupType ==
    ASSUME TypeInv, NEW p \in Terminals,
           \/ Start(p) \/ Plan(p) \/ PlanPort(p) \/ Lookup(p) \/ ReadPort(p)
           \/ Adopt(p)
    PROVE  TypeInv'
<1> USE DEF fileVars, dockerVars, worldVars
<1>0. proc[p] \in Process /\ proc \in [Terminals -> Process]
    BY DEF TypeInv, TypeOK
<1>1. CASE Start(p)
    <2>0. used \subseteq Keys /\ commands \in 0..MaxCommands /\ faults \in 0..MaxFaults
        BY DEF TypeInv, TypeOK
    <2>5. /\ commands < MaxCommands /\ commands' = commands + 1
          /\ used' = used /\ faults' = faults
        BY <1>1 DEF Start
    <2>1. CountOK
        BY <2>0, <2>5, LifecycleAssumption DEF CountOK
    <2>2. PICK verb \in Verbs, ask \in Asked \cup AskedInit :
             proc' = [proc EXCEPT ![p] = Started(verb, ask)]
        BY <1>1 DEF Start, AskedBy, Started
    <2>3. Started(verb, ask) \in Process
          /\ Started(verb, ask).pc \notin HasRecord \cup {"ps"}
        BY WorldTypes, LifecycleAssumption
           DEF Started, NoProcess, Process, LifeSteps, HasRecord
    <2>4. ProcOK
        BY <1>0, <2>2, <2>3 DEF ProcOK, RecordsOK, TypeInv
    <2> QED BY <1>1, <2>1, <2>4, Unchanged, Assemble DEF Start
<1>2. CASE Lookup(p)
    <2>1. FirstStep[proc[p].verb] \in LifeSteps /\ FirstStep[proc[p].verb] \in HasRecord
        BY <1>0, FirstStepType DEF Process, HasRecord
    <2>2. reg \in InstanceRecord \cup {None}
        BY DEF TypeInv, TypeOK, WorldTypeOK
    <2> DEFINE next == IF reg # None THEN FirstStep[proc[p].verb] ELSE "read_port"
    <2>3. /\ next \in LifeSteps
          /\ next \in HasRecord => reg # None
          /\ next = "ps" => proc[p].verb \in {"start", "restart"}
        BY <1>0, <2>1, FirstStepType DEF LifeSteps, HasRecord, Process
    <2>4. proc' = [proc EXCEPT ![p].rec = reg, ![p].pc = next]
        BY <1>2 DEF Lookup
    <2> HIDE DEF next
    <2>5. [proc[p] EXCEPT !.rec = reg, !.pc = next] \in Process
        BY <1>0, <2>2, <2>3 DEF Process
    <2>6. ProcOK
        BY <1>0, <2>3, <2>4, <2>5 DEF ProcOK, RecordsOK, TypeInv, Process
    <2> QED BY <1>2, <2>6, Unchanged, Assemble DEF Lookup
<1>3. CASE ReadPort(p)
    <2> DEFINE rec == [vol |-> 0, port |-> PortFound(p)]
    <2>2. rec \in InstanceRecord
        BY PortFoundType, WorldTypes DEF InstanceRecord
    <2>3. proc' = [proc EXCEPT ![p].rec = rec, ![p].pc = "adopt"]
        BY <1>3 DEF ReadPort
    <2>4. [proc[p] EXCEPT !.rec = rec, !.pc = "adopt"] \in Process /\ rec # None
        BY <1>0, <2>2, WorldTypes DEF Process, LifeSteps
    <2> HIDE DEF rec
    <2>5. ProcOK
        BY <1>0, <2>3, <2>4 DEF ProcOK, RecordsOK, TypeInv, Process
    <2> QED BY <1>3, <2>5, Unchanged, Assemble DEF ReadPort
<1>4. CASE Adopt(p)
    <2>1. /\ proc[p].rec # None /\ FirstStep[proc[p].verb] \in HasRecord
          /\ FirstStep[proc[p].verb] = "ps" => proc[p].verb \in {"start", "restart"}
        BY <1>0, <1>4, FirstStepType
           DEF Adopt, At, TypeInv, RecordsOK, HasRecord, LifeSteps, Process
    <2>2. ProcOK
        BY <1>4, <2>1, ProcMoves DEF Adopt
    <2>3. FilesOK
        BY <1>4, <2>1, PortType DEF Adopt, FilesOK, TypeInv, TypeOK, WorldTypeOK
    <2> QED BY <1>4, <2>2, <2>3, Unchanged, Assemble DEF Adopt
<1>5. CASE Plan(p)
    <2> DEFINE port == IF reg # None THEN reg.port ELSE proc[p].ask
               next == IF reg # None THEN "lookup" ELSE "plan_port"
    <2>1. port \in Ports \cup {None} /\ next \in LifeSteps \ (HasRecord \cup {"ps"})
        BY <1>0 DEF TypeInv, TypeOK, WorldTypeOK, InstanceRecord, Process, LifeSteps, HasRecord
    <2>2. proc' = [proc EXCEPT ![p].ask = port, ![p].pc = next]
        BY <1>5 DEF Plan
    <2> HIDE DEF port, next
    <2>3. [proc[p] EXCEPT !.ask = port, !.pc = next] \in Process
        BY <1>0, <2>1 DEF Process
    <2>4. ProcOK
        BY <1>0, <2>1, <2>2, <2>3 DEF ProcOK, RecordsOK, TypeInv, Process
    <2> QED BY <1>5, <2>4, Unchanged, Assemble DEF Plan
<1>6. CASE PlanPort(p)
    <2> DEFINE port == PortFound(p)
    <2>1. port \in Ports
        BY PortFoundType
    <2>2. proc' = [proc EXCEPT ![p].ask = port, ![p].pc = "lookup"]
        BY <1>6 DEF PlanPort
    <2> HIDE DEF port
    <2>3. [proc[p] EXCEPT !.ask = port, !.pc = "lookup"] \in Process
        BY <1>0, <2>1 DEF Process, LifeSteps
    <2>4. ProcOK
        BY <1>0, <2>2, <2>3 DEF ProcOK, RecordsOK, TypeInv, Process, HasRecord
    <2> QED BY <1>6, <2>4, Unchanged, Assemble DEF PlanPort
<1> QED BY <1>1, <1>2, <1>3, <1>4, <1>5, <1>6

LEMMA UpType ==
    ASSUME TypeInv, NEW p \in Terminals,
           \/ OpenCompose(p) \/ FillCompose(p) \/ CheckEnv(p) \/ OpenEnv(p) \/ FillEnv(p)
           \/ Upsert(p) \/ Up(p)
    PROVE  TypeInv'
<1> USE DEF fileVars, dockerVars, worldVars
<1>0. proc[p] \in Process /\ proc \in [Terminals -> Process] /\ WorldTypeOK
    BY DEF TypeInv, TypeOK
<1>1. proc[p].rec # None
    BY DEF OpenCompose, FillCompose, CheckEnv, OpenEnv, FillEnv, Upsert, Up, At, TypeInv,
           RecordsOK, HasRecord, LifeSteps
<1>2. /\ proc[p].rec.vol \in Vols /\ PortOf(p) \in Ports
      /\ {"fill_compose", "check_env", "upsert", "fill_env", "up", "wait"} \subseteq HasRecord
    BY <1>1, PortType DEF HasRecord, LifeSteps
<1>3. CASE OpenCompose(p) \/ FillCompose(p)
    <2>0. [vol |-> proc[p].rec.vol, ext |-> FALSE] \in ComposeFile
        BY <1>2 DEF ComposeFile
    <2>1. FilesOK
        BY <1>0, <1>3, <2>0 DEF OpenCompose, FillCompose, FilesOK, WorldTypeOK
    <2>2. ProcOK
        BY <1>1, <1>2, <1>3, ProcMoves DEF OpenCompose, FillCompose
    <2> QED BY <1>3, <2>1, <2>2, Unchanged, Assemble DEF OpenCompose, FillCompose
<1>4. CASE CheckEnv(p)
    <2>1. CASE Goto(p, "upsert") /\ UNCHANGED used
        BY <1>1, <1>2, <1>4, <2>1, ProcMoves, Unchanged, Assemble DEF CheckEnv
    <2>2. ASSUME NEW k \in Keys \ used, used' = used \cup {k},
                 proc' = [proc EXCEPT ![p].pc = "open_env", ![p].key = k]
          PROVE  TypeInv'
        <3>1. [proc[p] EXCEPT !.pc = "open_env", !.key = k] \in Process
            BY <1>0 DEF Process, LifeSteps
        <3>2. ProcOK
            BY <1>0, <1>1, <2>2, <3>1 DEF ProcOK, RecordsOK, TypeInv, Process
        <3>3. CountOK
            BY <1>4, <2>2 DEF CheckEnv, CountOK, TypeInv, TypeOK
        <3> QED BY <1>4, <3>2, <3>3, Unchanged, Assemble DEF CheckEnv
    <2> QED BY <1>4, <2>1, <2>2 DEF CheckEnv
<1>5. CASE OpenEnv(p) \/ FillEnv(p)
    <2>1. FilesOK
        BY <1>0, <1>2, <1>5, BlankType
           DEF OpenEnv, FillEnv, FilesOK, WorldTypeOK, EnvFile, Process
    <2>2. ProcOK
        BY <1>1, <1>2, <1>5, ProcMoves DEF OpenEnv, FillEnv
    <2> QED BY <1>5, <2>1, <2>2, Unchanged, Assemble DEF OpenEnv, FillEnv
<1>6. CASE Upsert(p)
    <2>1. FilesOK
        BY <1>0, <1>2, <1>6 DEF Upsert, FilesOK, WorldTypeOK, InstanceRecord
    <2> QED BY <1>1, <1>2, <1>6, <2>1, ProcMoves, Unchanged, Assemble DEF Upsert
<1>7. CASE Up(p)
    <2>1. DockerOK
        BY <1>0, <1>7, DockerTypes DEF Up
    <2> QED BY <1>1, <1>2, <1>7, <2>1, ProcMoves, Unchanged, Assemble DEF Up
<1> QED BY <1>3, <1>4, <1>5, <1>6, <1>7

LEMMA OtherType ==
    ASSUME TypeInv, NEW p \in Terminals,
           \/ Down(p) \/ Stop(p) \/ Ps(p) \/ StartOrRestart(p) \/ Wait(p) \/ Look(p)
           \/ Refused(p) \/ Fault(p)
    PROVE  TypeInv'
<1> USE DEF fileVars, dockerVars, worldVars
<1>0. WorldTypeOK /\ proc[p] \in Process
    BY DEF TypeInv, TypeOK
<1>1. CASE Down(p) \/ Stop(p) \/ Wait(p) \/ Look(p) \/ Refused(p)
    <2>1. DockerOK
        BY <1>0, <1>1, DockerTypes DEF Down, Stop, Wait, Look, Refused
    <2> QED BY <1>1, <2>1, ProcMoves, Unchanged, Assemble DEF Down, Stop, Wait, Look, Refused
<1>2. CASE Ps(p)
    <2>1. proc[p].rec # None
        BY <1>2 DEF Ps, At, TypeInv, RecordsOK, HasRecord, LifeSteps
    <2>2. proc[p].verb \in {"start", "restart"}
        BY <1>0, <1>2 DEF Ps, At, TypeInv, RecordsOK
    <2>3. proc[p].verb \in HasRecord /\ proc[p].verb # "ps"
        BY <2>2 DEF HasRecord, LifeSteps
    <2>4. ProcOK
        BY <1>2, <2>1, <2>3, ProcMoves DEF Ps
    <2> QED BY <1>2, <2>4, Unchanged, Assemble DEF Ps
<1>3. CASE StartOrRestart(p)
    <2>1. proc[p].rec # None /\ "wait" \in HasRecord
        BY <1>3 DEF StartOrRestart, TypeInv, RecordsOK, HasRecord, LifeSteps
    <2>2. DockerOK
        BY <1>0, <1>3, DockerTypes DEF StartOrRestart
    <2> QED BY <1>3, <2>1, <2>2, ProcMoves, Unchanged, Assemble DEF StartOrRestart
<1>4. CASE Fault(p)
    <2>1. FilesOK /\ DockerOK
        BY <1>0, <1>4, DockerTypes, Unchanged DEF Fault
    <2>2. CountOK
        BY <1>4, LifecycleAssumption DEF Fault, CountOK, TypeInv, TypeOK
    <2> QED BY <1>4, <2>1, <2>2, ProcMoves, Assemble DEF Fault
<1> QED BY <1>1, <1>2, <1>3, <1>4

LEMMA TypeStep == TypeInv /\ [Next]_vars => TypeInv'
<1> SUFFICES ASSUME TypeInv, [Next]_vars PROVE TypeInv'
    OBVIOUS
<1>1. CASE UNCHANGED vars
    BY <1>1, Unchanged, Assemble DEF vars, lifeVars, worldVars, fileVars, dockerVars
<1>2. CASE Environment
    <2>1. WorldTypeOK'
        BY <1>2, N8nTypes DEF Environment, TypeInv, TypeOK
    <2> QED BY <1>2, <2>1 DEF Environment, lifeVars, TypeInv, TypeOK, RecordsOK
<1>3. ASSUME NEW p \in Terminals, Start(p) \/ Step(p) \/ Refused(p) \/ Fault(p) PROVE TypeInv'
    BY <1>3, LookupType, UpType, OtherType DEF Step
<1> QED BY <1>1, <1>2, <1>3 DEF Next

\* Every store and every process keeps its type, from whatever the commands find,
\* with any number of terminals.
THEOREM LifecycleTypes == Spec => []TypeOK
<1>1. TypeInv => TypeOK
    BY DEF TypeInv
<1> QED BY <1>1, TypeInit, TypeStep, PTL DEF Spec

-----------------------------------------------------------------------------
(* One key and one volume.                                                 *)

\* The volume the registry names, or the one adoption will name.
Home == IF reg = None THEN 0 ELSE reg.vol

ComposeHome == compose \in ComposeFile => compose.vol = Home
DockerHome ==
    /\ ctr # None => ctr.vol = Home /\ ctr.key = env.key
    /\ vol[Home] \in Content => vol[Home].key = env.key
ProcHome ==
    \A p \in Terminals :
        /\ proc[p].pc \notin {"open_env", "fill_env"}
        /\ proc[p].rec # None => proc[p].rec.vol = Home
        /\ proc[p].pc = "read_port" => Home = 0

Settled ==
    /\ env # None /\ env.key # None
    /\ ComposeHome /\ DockerHome /\ ProcHome

LEMMA HomeType == TypeInv => Home \in Vols
BY WorldTypes DEF TypeInv, TypeOK, WorldTypeOK, Home, InstanceRecord

LEMMA SettledInit ==
    ASSUME "none" \notin InitKinds, Init
    PROVE  Settled
<1>1. PICK kind \in InitKinds : Found(kind)
    BY DEF Init
<1>2. kind # "none"
    BY <1>1
<1>3. LocalKey # None /\ ForeignKey # None
    BY WorldTypes, LifecycleAssumption
<1>4. env # None /\ env.key # None
    <2>1. env = [key |-> IF kind = "restored" THEN ForeignKey ELSE LocalKey,
                 port |-> LocalPort]
        BY <1>1, <1>2 DEF Found
    <2>2. env \in EnvFile
        BY <2>1, LifecycleAssumption DEF EnvFile
    <2> QED BY <1>3, <2>1, <2>2, WorldTypes
<1>5. reg # None => reg.vol = IF kind = "restored" THEN 1 ELSE 0
    BY <1>1, <1>2 DEF Found
<1>6. reg = None => kind # "restored"
    <2>1. ASSUME kind = "restored" PROVE reg \in InstanceRecord
        BY <1>1, <2>1, WorldTypes, LifecycleAssumption DEF Found, InstanceRecord
    <2> QED BY <2>1, WorldTypes
<1>7. Home = IF kind = "restored" THEN 1 ELSE 0
    BY <1>5, <1>6 DEF Home
<1>8. ComposeHome /\ DockerHome
    BY <1>1, <1>2, <1>7, WorldTypes DEF Found, ComposeHome, DockerHome, Data
<1>9. ProcHome
    BY DEF Init, ProcHome, NoProcess
<1> QED BY <1>4, <1>8, <1>9 DEF Settled

\* The docker commands and n8n stay with Home and the key in .env.
LEMMA DockerSettled ==
    ASSUME TypeInv, Settled, UNCHANGED <<env, reg>>,
           \/ \E st \in {"running", "exited"} : ComposeUp(st)
           \/ ComposeDown \/ ComposeStop \/ ComposeStart
           \/ N8nStep
           \/ UNCHANGED dockerVars
    PROVE  /\ DockerHome'
           /\ ctr' # None => (ctr'.port = env.port \/ (ctr # None /\ ctr'.port = ctr.port))
<1>0. WorldTypeOK /\ Home \in Vols /\ Home' = Home /\ env \in EnvFile
    BY HomeType DEF TypeInv, TypeOK, WorldTypeOK, Settled, Home
<1>1. ctr # None => ctr \in Container
    BY <1>0 DEF WorldTypeOK
<1>2. CASE \E st \in {"running", "exited"} : ComposeUp(st)
    <2>1. compose.vol = Home /\ vol' = Mounted(Home)
        BY <1>2 DEF ComposeUp, CanUp, CanCompose, Settled, ComposeHome
    <2>2. vol'[Home] \in Content => vol'[Home] = vol[Home]
        BY <1>0, <2>1, WorldTypes DEF Mounted, WorldTypeOK
    <2>3. ctr'.vol = Home /\ ctr'.key = env.key /\ ctr'.port = env.port
        BY <1>2, <2>1 DEF ComposeUp, Created
    <2>4. vol[Home] \in Content => vol[Home].key = env.key
        BY DEF Settled, DockerHome
    <2>5. vol'[Home] \in Content => vol'[Home].key = env'.key
        BY <2>2, <2>4
    <2>6. DockerHome'
        BY <1>0, <2>3, <2>5 DEF DockerHome
    <2> QED BY <2>3, <2>6
<1>3. CASE ComposeDown \/ ComposeStop \/ ComposeStart
    BY <1>0, <1>1, <1>3
       DEF ComposeDown, ComposeStop, ComposeStart, Settled, DockerHome, Container
<1>4. CASE N8nBoots \/ N8nWrites
    <2>1. ctr # None /\ ctr.vol = Home /\ ctr.key = env.key /\ UNCHANGED ctr
        BY <1>4 DEF N8nBoots, N8nWrites, ContainerIsRunning, Settled, DockerHome
    <2>2. CASE N8nBoots
        <3>1. vol'[Home].key = ctr.key
            BY <1>0, <2>1, <2>2 DEF N8nBoots, WorldTypeOK
        <3> QED BY <1>0, <2>1, <3>1 DEF DockerHome
    <2>3. CASE N8nWrites
        <3>1. vol[Home] \in Content
            BY <2>1, <2>3 DEF N8nWrites, Serving
        <3>2. vol'[Home].key = vol[Home].key
            BY <1>0, <2>1, <2>3, <3>1 DEF N8nWrites, WorldTypeOK, Content
        <3> QED BY <1>0, <2>1, <3>1, <3>2 DEF DockerHome, Settled
    <2> QED BY <1>4, <2>2, <2>3
<1>5. CASE N8nExits \/ DaemonRestarts
    BY <1>0, <1>1, <1>5
       DEF N8nExits, DaemonRestarts, ContainerIsRunning, Settled, DockerHome, Container
<1>6. CASE UNCHANGED dockerVars
    BY <1>0, <1>6 DEF dockerVars, Settled, DockerHome
<1> QED BY <1>2, <1>3, <1>4, <1>5, <1>6 DEF N8nStep

\* A process that goes on or ends keeps to Home as long as Home stays.
LEMMA ProcSettled ==
    ASSUME TypeInv, Settled, NEW p \in Terminals, Home' = Home
    PROVE  /\ Ends(p) \/ UNCHANGED proc => ProcHome'
           /\ \A step \in LifeSteps \ {"open_env", "fill_env", "read_port"} :
                 Goto(p, step) => ProcHome'
<1>1. proc \in [Terminals -> Process] /\ ProcHome
    BY DEF TypeInv, TypeOK, Settled
<1>2. ASSUME Ends(p) \/ UNCHANGED proc PROVE ProcHome'
    BY <1>1, <1>2 DEF Ends, NoProcess, ProcHome
<1>3. ASSUME NEW step \in LifeSteps \ {"open_env", "fill_env", "read_port"}, Goto(p, step)
      PROVE  ProcHome'
    BY <1>1, <1>3 DEF Goto, ProcHome, Process
<1> QED BY <1>2, <1>3

LEMMA SettledStep ==
    ASSUME TypeInv, Settled, [Next]_vars
    PROVE  Settled' /\ UNCHANGED env
<1> USE DEF worldVars, fileVars
<1>0. /\ proc \in [Terminals -> Process] /\ ProcHome /\ ComposeHome /\ env # None
      /\ reg \in InstanceRecord \cup {None}
    BY DEF TypeInv, TypeOK, WorldTypeOK, Settled
<1>1. ASSUME UNCHANGED env, Home' = Home, ComposeHome', DockerHome', ProcHome'
      PROVE  Settled' /\ UNCHANGED env
    BY <1>1 DEF Settled
<1>2. ASSUME UNCHANGED <<compose, reg>> PROVE Home' = Home /\ ComposeHome'
    BY <1>0, <1>2 DEF Home, ComposeHome
<1>3. ASSUME UNCHANGED dockerVars, UNCHANGED env, Home' = Home PROVE DockerHome'
    BY <1>3 DEF dockerVars, DockerHome, Settled
<1>4. CASE UNCHANGED vars
    <2>1. UNCHANGED <<env, compose, reg, proc>> /\ UNCHANGED dockerVars
        BY <1>4 DEF vars, lifeVars, dockerVars
    <2>2. ProcHome'
        BY <1>0, <1>2, <2>1 DEF ProcHome
    <2> QED BY <1>1, <1>2, <1>3, <2>1, <2>2
<1>5. CASE Environment
    <2>1. UNCHANGED <<env, compose, reg, proc>>
        BY <1>5 DEF Environment, lifeVars, N8nStep, N8nBoots, N8nWrites, N8nExits,
           DaemonRestarts
    <2>2. ProcHome'
        BY <1>0, <1>2, <2>1 DEF ProcHome
    <2>3. DockerHome'
        BY <1>5, <2>1, DockerSettled DEF Environment
    <2> QED BY <1>1, <1>2, <2>1, <2>2, <2>3
<1>6. ASSUME NEW p \in Terminals, Start(p) \/ Step(p) \/ Refused(p) \/ Fault(p)
      PROVE  Settled' /\ UNCHANGED env
    <2>0. proc[p] \in Process
        BY <1>0
    <2>1. CASE Start(p)
        <3>1. PICK verb \in Verbs, ask \in Asked \cup AskedInit :
                 proc' = [proc EXCEPT ![p] = Started(verb, ask)]
            BY <2>1 DEF Start, AskedBy, Started
        <3>2. ProcHome'
            BY <1>0, <1>2, <2>1, <3>1 DEF Start, ProcHome, Started, NoProcess
        <3> QED BY <1>1, <1>2, <1>3, <2>1, <3>2 DEF Start, dockerVars
    <2>2. CASE Lookup(p)
        <3>1. UNCHANGED <<env, compose, reg>> /\ UNCHANGED dockerVars
            BY <2>2 DEF Lookup, dockerVars
        <3>2. FirstStep[proc[p].verb] \notin {"open_env", "fill_env", "read_port"}
            BY <2>0 DEF FirstStep, Process, AllVerbs
        <3>3. ProcHome'
            BY <1>0, <1>2, <2>0, <2>2, <3>1, <3>2 DEF Lookup, ProcHome, Home, Process
        <3> QED BY <1>1, <1>2, <1>3, <3>1, <3>3
    <2>3. CASE ReadPort(p)
        <3>1. UNCHANGED <<env, compose, reg>> /\ UNCHANGED dockerVars
            BY <2>3 DEF ReadPort, dockerVars
        <3>2. ProcHome'
            BY <1>0, <1>2, <2>0, <2>3, <3>1 DEF ReadPort, At, ProcHome, Process
        <3> QED BY <1>1, <1>2, <1>3, <3>1, <3>2
    <2>4. CASE Adopt(p)
        <3>1. proc[p].rec # None /\ proc[p].rec.vol = Home
            BY <1>0, <2>4 DEF Adopt, At, TypeInv, RecordsOK, HasRecord, LifeSteps, ProcHome
        <3>2. Home' = Home /\ ComposeHome'
            BY <1>0, <2>4, <3>1 DEF Adopt, Home, ComposeHome
        <3>3. FirstStep[proc[p].verb] \in LifeSteps \ {"open_env", "fill_env", "read_port"}
            BY <2>0 DEF FirstStep, Process, AllVerbs, LifeSteps
        <3> QED BY <1>1, <1>3, <2>4, <3>2, <3>3, ProcSettled DEF Adopt
    <2>5. CASE OpenCompose(p) \/ FillCompose(p)
        <3>1. Home' = Home /\ proc[p].pc \in {"open_compose", "fill_compose"}
            BY <2>5 DEF OpenCompose, FillCompose, At, Home
        <3>2. proc[p].rec # None /\ proc[p].rec.vol = Home
            BY <1>0, <3>1 DEF TypeInv, RecordsOK, HasRecord, LifeSteps, ProcHome
        <3>3. ComposeHome'
            BY <2>5, <3>1, <3>2, WorldTypes DEF OpenCompose, FillCompose, ComposeHome
        <3> QED BY <1>1, <1>3, <2>5, <3>1, <3>3, ProcSettled
                DEF OpenCompose, FillCompose, LifeSteps
    <2>6. CASE CheckEnv(p)
        <3>1. Goto(p, "upsert") /\ UNCHANGED <<env, compose, reg>> /\ UNCHANGED dockerVars
            BY <1>0, <2>6 DEF CheckEnv, dockerVars
        <3> QED BY <1>1, <1>2, <1>3, <3>1, ProcSettled DEF LifeSteps
    <2>7. ~OpenEnv(p) /\ ~FillEnv(p)
        BY <1>0 DEF OpenEnv, FillEnv, At, ProcHome
    <2>8. CASE Upsert(p)
        <3>1. proc[p].rec # None /\ proc[p].rec.vol = Home
            BY <1>0, <2>8 DEF Upsert, At, TypeInv, RecordsOK, HasRecord, LifeSteps, ProcHome
        <3>2. reg' = [vol |-> Home, port |-> PortOf(p)] /\ Home \in Vols /\ PortOf(p) \in Ports
            BY <2>8, <3>1, HomeType, PortType DEF Upsert
        <3>3. reg' # None
            BY <3>2, WorldTypes DEF InstanceRecord
        <3>4. Home' = Home /\ ComposeHome'
            BY <1>0, <2>8, <3>2, <3>3 DEF Upsert, Home, ComposeHome
        <3> QED BY <1>1, <1>3, <2>8, <3>4, ProcSettled DEF Upsert, LifeSteps
    <2>9. CASE Up(p) \/ Down(p) \/ Stop(p) \/ Ps(p) \/ StartOrRestart(p) \/ Wait(p)
               \/ Look(p) \/ Refused(p) \/ Fault(p)
        <3>1. UNCHANGED <<env, compose, reg>>
            BY <2>9 DEF Up, Down, Stop, Ps, StartOrRestart, Wait, Look, Refused, Fault
        <3>2. DockerHome'
            BY <2>9, <3>1, DockerSettled
               DEF Up, Down, Stop, Ps, StartOrRestart, Wait, Look, Refused, Fault, dockerVars
        <3>3. Ps(p) => proc[p].verb \in {"start", "restart"}
            BY DEF Ps, At, TypeInv, RecordsOK
        <3>4. ProcHome'
            BY <1>2, <2>9, <3>1, <3>3, ProcSettled
               DEF Up, Down, Stop, Ps, StartOrRestart, Wait, Look, Refused, Fault, LifeSteps
        <3> QED BY <1>1, <1>2, <3>1, <3>2, <3>4
    <2>10. CASE Plan(p) \/ PlanPort(p)
        <3>1. UNCHANGED <<env, compose, reg>> /\ UNCHANGED dockerVars
            BY <2>10 DEF Plan, PlanPort, dockerVars
        <3>2. ProcHome'
            BY <1>0, <1>2, <2>0, <2>10, <3>1 DEF Plan, PlanPort, ProcHome, Process
        <3> QED BY <1>1, <1>2, <1>3, <3>1, <3>2
    <2> QED BY <1>6, <2>1, <2>2, <2>3, <2>4, <2>5, <2>6, <2>7, <2>8, <2>9, <2>10 DEF Step
<1> QED BY <1>4, <1>5, <1>6 DEF Next

LEMMA SettledHolds ==
    ASSUME "none" \notin InitKinds
    PROVE  Spec => [](TypeInv /\ Settled)
<1>1. Init => TypeInv /\ Settled
    BY TypeInit, SettledInit
<1>2. TypeInv /\ Settled /\ [Next]_vars => (TypeInv /\ Settled)'
    BY TypeStep, SettledStep
<1> QED BY <1>1, <1>2, PTL DEF Spec

\* With any number of terminals at work on an instance that has its .env, the data
\* that is registered or mounted opens with the key in .env.
THEOREM DataAlwaysOpens ==
    ASSUME "none" \notin InitKinds
    PROVE  Spec => []DataOpens
<1>1. ASSUME TypeInv, Settled PROVE DataOpens
    <2>1. \A v \in Mounts : v = Home
        BY <1>1 DEF Mounts, Settled, ComposeHome, DockerHome, Home
    <2> QED BY <1>1, <2>1 DEF DataOpens, Settled, DockerHome
<1> QED BY <1>1, SettledHolds, PTL

\* ... and the row, the files, the container and the commands mean one volume.
THEOREM AlwaysOneVolume ==
    ASSUME "none" \notin InitKinds
    PROVE  Spec => []OneVolume
<1>1. ASSUME TypeInv, Settled PROVE OneVolume
    BY <1>1 DEF OneVolume, Settled, ComposeHome, DockerHome, ProcHome, Home
<1> QED BY <1>1, SettledHolds, PTL

\* ... and no command rewrites the .env.
THEOREM EnvNeverRewritten ==
    ASSUME "none" \notin InitKinds
    PROVE  Spec => EnvKept
<1>1. ASSUME TypeInv, Settled, [Next]_vars PROVE [env \notin {None, Blank} => env' = env]_vars
    BY <1>1, SettledStep
<1> QED BY <1>1, SettledHolds, PTL DEF Spec, EnvKept

-----------------------------------------------------------------------------
(* One port, as long as nobody asks for another one, or asks only init and *)
(* for an instance that has its row.                                       *)

\* An init that has not planned yet still has what was asked for, if there is a row.
ProcPort(p) ==
    /\ proc[p].ask # None =>
          proc[p].ask = env.port \/ (proc[p].pc = "plan" /\ reg # None)
    /\ proc[p].rec # None => proc[p].rec.port = env.port

PortsOK ==
    /\ env.port # None
    /\ reg # None => reg.port = env.port
    /\ ctr # None => ctr.port = env.port
    /\ Asked \subseteq {None}
    /\ \A p \in Terminals : ProcPort(p)

LEMMA PortsInit ==
    ASSUME "none" \notin InitKinds, Asked \subseteq {None}, Init
    PROVE  PortsOK
<1>1. PICK kind \in InitKinds : Found(kind)
    BY DEF Init
<1>2. kind # "none"
    BY <1>1
<1>3. env.port = LocalPort /\ LocalPort # None
    BY <1>1, <1>2, WorldTypes, LifecycleAssumption DEF Found
<1>4. (reg # None => reg.port = LocalPort) /\ (ctr # None => ctr.port = LocalPort)
    BY <1>1, <1>2 DEF Found
<1> QED BY <1>3, <1>4 DEF PortsOK, ProcPort, Init, NoProcess

\* Every port a command computes is the one in .env.
LEMMA PortsComputed ==
    ASSUME TypeInv, Settled, PortsOK, NEW p \in Terminals
    PROVE  /\ ~At(p, "plan") => PortFound(p) = env.port
           /\ ~At(p, "plan") /\ proc[p].rec # None => PortOf(p) = env.port
BY DEF PortFound, PortOf, PortsOK, ProcPort, Settled, At

LEMMA ProcPorts ==
    ASSUME TypeInv, PortsOK, UNCHANGED env, reg # None => reg' # None, NEW p \in Terminals,
           ~At(p, "plan") \/ Ends(p),
           \/ Ends(p) \/ UNCHANGED proc
           \/ \E step \in LifeSteps : Goto(p, step)
           \/ \E step \in LifeSteps, k \in Keys :
                 proc' = [proc EXCEPT ![p].pc = step, ![p].key = k]
    PROVE  \A q \in Terminals : ProcPort(q)'
<1>1. proc \in [Terminals -> Process]
    BY DEF TypeInv, TypeOK
<1>2. ASSUME NEW q \in Terminals
      PROVE  /\ proc'[q].ask \in {proc[q].ask, None}
             /\ proc'[q].rec \in {proc[q].rec, None}
             /\ proc'[q].ask = None \/ proc'[q].pc = proc[q].pc \/ ~At(q, "plan")
    <2>0. proc[p] \in Process
        BY <1>1
    <2>1. CASE Ends(p)
        <3>1. proc'[q] = IF q = p THEN NoProcess ELSE proc[q]
            BY <1>1, <1>2, <2>1 DEF Ends
        <3>2. NoProcess.ask = None /\ NoProcess.rec = None
            BY DEF NoProcess
        <3> QED BY <3>1, <3>2
    <2>2. CASE UNCHANGED proc
        BY <2>2
    <2>5. ~Ends(p) => ~At(p, "plan")
        OBVIOUS
    <2>3. CASE \E step \in LifeSteps : Goto(p, step)
        <3>1. PICK step \in LifeSteps : Goto(p, step)
            BY <2>3
        <3>2. proc'[q] = IF q = p THEN [proc[p] EXCEPT !.pc = step] ELSE proc[q]
            BY <1>1, <1>2, <3>1 DEF Goto
        <3> QED BY <2>0, <2>1, <2>5, <3>2 DEF Process, At
    <2>4. CASE \E step \in LifeSteps, k \in Keys :
                   proc' = [proc EXCEPT ![p].pc = step, ![p].key = k]
        <3>1. PICK step \in LifeSteps, k \in Keys :
                  proc' = [proc EXCEPT ![p].pc = step, ![p].key = k]
            BY <2>4
        <3>2. proc'[q] = IF q = p THEN [proc[p] EXCEPT !.pc = step, !.key = k]
                                  ELSE proc[q]
            BY <1>1, <1>2, <3>1
        <3> QED BY <2>0, <2>1, <2>5, <3>2 DEF Process, At
    <2> QED BY <2>1, <2>2, <2>3, <2>4
<1> QED BY <1>2 DEF PortsOK, ProcPort, At

\* What is asked is asked of init, for an instance that is registered.
LEMMA StartAsks ==
    ASSUME TypeInv, PortsOK, NEW p \in Terminals, Start(p)
    PROVE  \E verb \in Verbs, ask \in Asked \cup AskedInit :
              /\ proc' = [proc EXCEPT ![p] = Started(verb, ask)]
              /\ ask # None => verb = "init" /\ reg # None
BY DEF Start, AskedBy, Started, PortsOK

LEMMA PortsStep ==
    ASSUME TypeInv, Settled, PortsOK, [Next]_vars
    PROVE  PortsOK'
<1> USE DEF worldVars, fileVars
<1>0. UNCHANGED env /\ proc \in [Terminals -> Process]
    BY SettledStep DEF TypeInv, TypeOK
<1>4. ASSUME NEW p \in Terminals, UNCHANGED <<proc, reg>> PROVE ProcPort(p)'
    BY <1>0, <1>4 DEF PortsOK, ProcPort
<1>1. ASSUME UNCHANGED <<reg, proc>>,
             \/ \E st \in {"running", "exited"} : ComposeUp(st)
             \/ ComposeDown \/ ComposeStop \/ ComposeStart \/ N8nStep \/ UNCHANGED dockerVars
      PROVE  PortsOK'
    <2>1. ctr' # None => (ctr'.port = env.port \/ (ctr # None /\ ctr'.port = ctr.port))
        BY <1>0, <1>1, DockerSettled
    <2> QED BY <1>0, <1>1, <1>4, <2>1 DEF PortsOK
<1>2. CASE UNCHANGED vars \/ Environment
    BY <1>1, <1>2 DEF vars, lifeVars, dockerVars, Environment, N8nStep, N8nBoots, N8nWrites,
       N8nExits, DaemonRestarts
<1>3. ASSUME NEW p \in Terminals, Start(p) \/ Step(p) \/ Refused(p) \/ Fault(p)
      PROVE  PortsOK'
    <2> DEFINE Procs == \A q \in Terminals : ProcPort(q)'
    <2>0. proc[p] \in Process
        BY <1>0
    <2>1. ASSUME Procs, UNCHANGED <<reg, ctr>> PROVE PortsOK'
        BY <1>0, <2>1 DEF PortsOK
    <2>2. CASE Start(p)
        <3>1. PICK verb \in Verbs, ask \in Asked \cup AskedInit :
                 /\ proc' = [proc EXCEPT ![p] = Started(verb, ask)]
                 /\ ask # None => verb = "init" /\ reg # None
            BY <2>2, StartAsks
        <3>2. /\ Started(verb, ask).rec = None /\ UNCHANGED reg
              /\ Started(verb, ask).ask # None => Started(verb, ask).pc = "plan" /\ reg # None
            BY <2>2, <3>1 DEF Start, Started, NoProcess
        <3>3. Procs
            BY <1>0, <3>1, <3>2 DEF PortsOK, ProcPort
        <3> QED BY <2>1, <2>2, <3>3 DEF Start
    <2>3. CASE Plan(p)
        <3>1. Procs
            BY <1>0, <2>0, <2>3 DEF Plan, PortsOK, ProcPort, Process
        <3> QED BY <2>1, <2>3, <3>1 DEF Plan
    <2>9. CASE PlanPort(p)
        <3>1. Procs
            BY <1>0, <2>0, <2>9, PortsComputed DEF PlanPort, At, PortsOK, ProcPort, Process
        <3> QED BY <2>1, <2>9, <3>1 DEF PlanPort
    <2>4. CASE Lookup(p)
        <3>1. Procs
            BY <1>0, <2>0, <2>4 DEF Lookup, At, PortsOK, ProcPort, Process
        <3> QED BY <2>1, <2>4, <3>1 DEF Lookup
    <2>5. CASE ReadPort(p)
        <3>1. Procs
            BY <1>0, <2>0, <2>5, PortsComputed DEF ReadPort, At, PortsOK, ProcPort, Process
        <3> QED BY <2>1, <2>5, <3>1 DEF ReadPort
    <2>6. CASE Adopt(p) \/ Upsert(p)
        <3>1. proc[p].rec # None
            BY <2>6 DEF Adopt, Upsert, At, TypeInv, RecordsOK, HasRecord, LifeSteps
        <3>5. proc[p].rec.port = env.port
            BY <2>6, <3>1 DEF PortsOK, ProcPort
        <3>2. reg'.port = env.port /\ reg' # None /\ UNCHANGED ctr
            BY <2>6, <3>1, <3>5, PortsComputed, PortType, WorldTypes
               DEF Adopt, Upsert, At, dockerVars, InstanceRecord
        <3>3. FirstStep[proc[p].verb] \in LifeSteps
            BY <2>0 DEF FirstStep, Process, AllVerbs, LifeSteps
        <3>4. Procs
            BY <1>0, <2>6, <3>2, <3>3, ProcPorts DEF Adopt, Upsert, At, LifeSteps
        <3> QED BY <1>0, <3>2, <3>4 DEF PortsOK
    <2>7. CASE OpenCompose(p) \/ FillCompose(p) \/ CheckEnv(p) \/ Ps(p) \/ Wait(p) \/ Look(p)
               \/ Refused(p) \/ OpenEnv(p) \/ FillEnv(p)
        <3>1. Ps(p) => proc[p].verb \in LifeSteps
            BY DEF Ps, At, TypeInv, RecordsOK, LifeSteps
        <3>3. UNCHANGED reg
            BY <2>7 DEF OpenCompose, FillCompose, CheckEnv, Ps, Wait, Look, Refused, OpenEnv,
                        FillEnv
        <3>2. Procs
            BY <1>0, <2>7, <3>1, <3>3, ProcPorts
               DEF OpenCompose, FillCompose, CheckEnv, Ps, Wait, Look, Refused, OpenEnv,
                   FillEnv, At, LifeSteps
        <3> QED BY <2>1, <2>7, <3>2
                DEF OpenCompose, FillCompose, CheckEnv, Ps, Wait, Look, Refused, OpenEnv,
                    FillEnv, dockerVars
    <2>8. CASE Up(p) \/ Down(p) \/ Stop(p) \/ StartOrRestart(p) \/ Fault(p)
        <3>1. Procs /\ UNCHANGED reg
            BY <1>0, <2>8, ProcPorts DEF Up, Down, Stop, StartOrRestart, Fault, At, LifeSteps
        <3>2. ctr' # None => (ctr'.port = env.port \/ (ctr # None /\ ctr'.port = ctr.port))
            BY <1>0, <2>8, <3>1, DockerSettled
               DEF Up, Down, Stop, StartOrRestart, Fault, dockerVars
        <3> QED BY <1>0, <3>1, <3>2 DEF PortsOK
    <2> QED BY <1>3, <2>2, <2>3, <2>4, <2>5, <2>6, <2>7, <2>8, <2>9 DEF Step
<1> QED BY <1>2, <1>3 DEF Next

\* As long as nobody passes --port, or only to the init of a registered instance, a
\* command that waits polls the port its container is published on, with any number
\* of terminals.
THEOREM AlwaysPollsPublished ==
    ASSUME "none" \notin InitKinds, Asked \subseteq {None}
    PROVE  Spec => []PollsPublished
<1>1. Init => TypeInv /\ Settled /\ PortsOK
    BY TypeInit, SettledInit, PortsInit
<1>2. TypeInv /\ Settled /\ PortsOK /\ [Next]_vars => (TypeInv /\ Settled /\ PortsOK)'
    BY TypeStep, SettledStep, PortsStep
<1>3. TypeInv /\ Settled /\ PortsOK => PollsPublished
    <2> SUFFICES ASSUME TypeInv, Settled, PortsOK, NEW p \in Terminals, At(p, "wait"),
                        ctr # None
                 PROVE  ctr.port = PortOf(p)
        BY DEF PollsPublished
    <2>1. proc[p].rec # None
        BY DEF At, TypeInv, RecordsOK, HasRecord, LifeSteps
    <2> QED BY <2>1, PortsComputed DEF PortsOK, At
<1> QED BY <1>1, <1>2, <1>3, PTL DEF Spec
=============================================================================
