------------------------- MODULE InstanceWorld_proofs -------------------------
(***************************************************************************)
(* Facts about InstanceWorld that the proofs of the modules above it cite: *)
(* the docker commands and n8n keep every store of its type.               *)
(***************************************************************************)
EXTENDS InstanceWorld, TLAPS

LEMMA WorldTypes ==
    /\ 0 \in Vols /\ 1 \in Vols /\ 0 \in Revs /\ 1 \in Revs
    /\ Vols \subseteq Nat /\ Revs \subseteq Nat
    /\ None \notin Vols /\ None \notin Keys /\ None \notin Ports
    /\ None \notin Content /\ Empty \notin Content /\ None # Empty /\ None # Torn
    /\ None \notin EnvFile /\ None \notin ComposeFile /\ Torn \notin ComposeFile
    /\ None \notin InstanceRecord /\ None \notin Container
    /\ DefaultPort \in Ports
BY WorldAssumption DEF Vols, Revs

LEMMA BlankType == Blank \in EnvFile
BY DEF Blank, EnvFile

-----------------------------------------------------------------------------
(* What the docker commands and n8n do keeps its type.                     *)

LEMMA MountedType ==
    ASSUME WorldTypeOK, NEW v \in Vols
    PROVE  /\ Mounted(v) \in [Vols -> Content \cup {None, Empty}]
           /\ Mounted(v)[v] \in Content \cup {Empty}
BY WorldTypes DEF WorldTypeOK, Mounted

LEMMA CreatedType ==
    ASSUME WorldTypeOK, CanUp, NEW st \in {"running", "exited"}
    PROVE  Created(st) \in Container /\ compose.vol \in Vols
<1>1. compose \in ComposeFile /\ env \in EnvFile /\ env.port # None
    BY DEF WorldTypeOK, CanUp, CanCompose
<1>2. compose.vol \in Vols
    BY <1>1 DEF ComposeFile
<1>3. env.key \in Keys \cup {None} /\ env.port \in Ports
    BY <1>1 DEF EnvFile
<1> QED BY <1>2, <1>3 DEF Created, Container

LEMMA StatusType ==
    ASSUME NEW c \in Container, NEW st \in {"running", "restarting", "exited"}
    PROVE  [c EXCEPT !.st = st] \in Container
BY DEF Container

FilesOK == env' \in EnvFile \cup {None} /\ compose' \in ComposeFile \cup {None, Torn}
           /\ reg' \in InstanceRecord \cup {None}
DockerOK == ctr' \in Container \cup {None} /\ vol' \in [Vols -> Content \cup {None, Empty}]
            /\ rev' \in Revs

LEMMA DockerTypes ==
    ASSUME WorldTypeOK
    PROVE  /\ \A st \in {"running", "exited"} : ComposeUp(st) => DockerOK
           /\ ComposeDown \/ ComposeStop \/ ComposeStart => DockerOK
           /\ \A v \in Vols : VolumeCreate(v) \/ VolumeRemove(v) => DockerOK
           /\ UNCHANGED dockerVars => DockerOK
<1> USE DEF DockerOK
<1>1. ASSUME NEW st \in {"running", "exited"}, ComposeUp(st) PROVE DockerOK
    BY <1>1, CreatedType, MountedType DEF ComposeUp, WorldTypeOK
<1>2. ASSUME ComposeDown \/ ComposeStop \/ ComposeStart PROVE DockerOK
    BY <1>2, StatusType DEF ComposeDown, ComposeStop, ComposeStart, WorldTypeOK
<1>3. ASSUME NEW v \in Vols, VolumeCreate(v) \/ VolumeRemove(v) PROVE DockerOK
    BY <1>3, MountedType DEF VolumeCreate, VolumeRemove, WorldTypeOK
<1>4. UNCHANGED dockerVars => DockerOK
    BY DEF dockerVars, WorldTypeOK
<1> QED BY <1>1, <1>2, <1>3, <1>4

LEMMA ExtractedType ==
    ASSUME NEW old \in Content \cup {None, Empty}, NEW data \in Content \cup {Empty}
    PROVE  /\ Extracted(old, data) \in Content \cup {None, Empty}
           /\ data # Empty => [Extracted(old, data) EXCEPT !.whole = FALSE] \in Content
BY DEF Extracted, Content

LEMMA N8nTypes ==
    ASSUME WorldTypeOK, N8nStep
    PROVE  WorldTypeOK'
<1> USE DEF WorldTypeOK, fileVars
<1>1. ASSUME rev < MaxRev PROVE rev + 1 \in Revs
    BY <1>1, WorldAssumption DEF Revs
<1>2. ASSUME ctr # None PROVE ctr \in Container /\ ctr.vol \in Vols /\ ctr.key \in Keys \cup {None}
    BY <1>2 DEF Container
<1>3. CASE N8nBoots
    <2>1. [key |-> ctr.key, hist |-> {rev + 1}, whole |-> TRUE] \in Content
        BY <1>1, <1>2, <1>3 DEF N8nBoots, ContainerIsRunning, Content
    <2> QED BY <1>1, <1>2, <1>3, <2>1 DEF N8nBoots, ContainerIsRunning
<1>4. CASE N8nWrites
    <2>1. vol[ctr.vol] \in Content
        BY <1>4 DEF N8nWrites, Serving
    <2>2. [vol[ctr.vol] EXCEPT !.hist = @ \cup {rev + 1}] \in Content
        BY <1>1, <1>4, <2>1 DEF N8nWrites, Content
    <2> QED BY <1>1, <1>2, <1>4, <2>2 DEF N8nWrites, ContainerIsRunning
<1>5. CASE N8nExits
    BY <1>2, <1>5, StatusType DEF N8nExits, ContainerIsRunning
<1>6. CASE DaemonRestarts
    BY <1>2, <1>6, StatusType DEF DaemonRestarts
<1> QED BY <1>3, <1>4, <1>5, <1>6 DEF N8nStep
=============================================================================
