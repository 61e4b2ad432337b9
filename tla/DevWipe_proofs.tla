---------------------------- MODULE DevWipe_proofs ----------------------------
(***************************************************************************)
(* What `lon dev wipe` deletes last, proved for every set of instances and *)
(* for every bound: the types, and that no instance loses its files or its *)
(* row while its container or its data is still there.                     *)
(*                                                                         *)
(* The second needs to know, of an instance that no other command has      *)
(* touched since the plan, how far the wipe has come with it: what is left *)
(* of its container is still to be visited (CtrInv), what is left of its   *)
(* data is still in the plan (DataInv).                                    *)
(***************************************************************************)
EXTENDS DevWipe, TLAPS

LEMMA ConstantTypes ==
    /\ 0 \in Idx /\ \A i \in Idx : i \in Nat
    /\ None \notin Names /\ None \notin Idx /\ None \notin ComposeFile
    /\ NoWipe \in Wipe /\ NoUp \in [pc: {"idle", "files", "ctr"}, vol: Idx]
BY WipeAssumption DEF Idx, NoWipe, Wipe, NoUp

LEMMA TypeInit == Init => TypeOK
<1> SUFFICES ASSUME Init PROVE TypeOK
    OBVIOUS
<1>1. others \in 0..MaxOthers /\ faults \in 0..MaxFaults
    BY WipeAssumption DEF Init
<1> QED BY <1>1, ConstantTypes DEF Init, TypeOK

\* The commands that run beside the wipe.
LEMMA OtherTypes ==
    ASSUME TypeOK, NEW n \in Names, Other(n)
    PROVE  TypeOK'
<1> USE DEF TypeOK, Acts, fileVars, dockerVars
<1>1. touched' \subseteq Names
    BY DEF Other, UpStarts, UpFiles, UpContainer, Restore, UpFault
<1>2. CASE UpStarts(n)
    <2>1. rows' \in [Names -> Idx \cup {None}] /\ rows'[n] \in Idx
        BY <1>2, ConstantTypes DEF UpStarts
    <2>2. up' \in [Names -> [pc: {"idle", "files", "ctr"}, vol: Idx]]
        BY <1>2, <2>1 DEF UpStarts
    <2>3. others' \in 0..MaxOthers
        BY <1>2, WipeAssumption DEF UpStarts
    <2> QED BY <1>1, <1>2, <2>1, <2>2, <2>3 DEF UpStarts
<1>3. CASE UpFiles(n)
    <2>1. dirs' \in [Names -> ComposeFile \cup {None, Torn}]
        BY <1>3 DEF UpFiles, ComposeFile
    <2>2. up' \in [Names -> [pc: {"idle", "files", "ctr"}, vol: Idx]]
        BY <1>3 DEF UpFiles
    <2> QED BY <1>1, <1>3, <2>1, <2>2 DEF UpFiles
<1>4. CASE UpContainer(n)
    <2>1. up' \in [Names -> [pc: {"idle", "files", "ctr"}, vol: Idx]]
        BY <1>4, ConstantTypes DEF UpContainer
    <2>2. ctr' \in [Names -> Idx \cup {None}] /\ vols' \subseteq Volumes /\ labels' \subseteq vols'
        BY <1>4 DEF UpContainer, Volumes, ComposeFile
    <2> QED BY <1>1, <1>4, <2>1, <2>2 DEF UpContainer
<1>5. CASE Restore(n)
    <2> DEFINE i == restored[n] + 1
    <2>1. i \in Idx
        BY <1>5, WipeAssumption DEF Restore, Idx
    <2>2. /\ restored' = [restored EXCEPT ![n] = i] /\ rows' = [rows EXCEPT ![n] = i]
          /\ dirs' = [dirs EXCEPT ![n] = [vol |-> i, ext |-> TRUE]]
          /\ ctr' = [ctr EXCEPT ![n] = i] /\ vols' = vols \cup {<<n, i>>}
        BY <1>5 DEF Restore
    <2> HIDE DEF i
    <2>3. /\ restored' \in [Names -> Idx] /\ rows' \in [Names -> Idx \cup {None}]
          /\ ctr' \in [Names -> Idx \cup {None}] /\ vols' \subseteq Volumes
        BY <2>1, <2>2 DEF Volumes
    <2>4. dirs' \in [Names -> ComposeFile \cup {None, Torn}]
        BY <2>1, <2>2 DEF ComposeFile
    <2>5. others' \in 0..MaxOthers
        BY <1>5, WipeAssumption DEF Restore
    <2> QED BY <1>1, <1>5, <2>2, <2>3, <2>4, <2>5 DEF Restore
<1>6. CASE UpFault(n)
    <2>1. dirs' \in [Names -> ComposeFile \cup {None, Torn}]
        BY <1>6 DEF UpFault
    <2>2. up' \in [Names -> [pc: {"idle", "files", "ctr"}, vol: Idx]]
        BY <1>6, ConstantTypes DEF UpFault
    <2>3. faults' \in 0..MaxFaults
        BY <1>6, WipeAssumption DEF UpFault
    <2> QED BY <1>1, <1>6, <2>1, <2>2, <2>3 DEF UpFault
<1> QED BY <1>2, <1>3, <1>4, <1>5, <1>6 DEF Other

LEMMA WipeTypes ==
    ASSUME TypeOK, Plan \/ Ask \/ WipeStep \/ Refused \/ WipeFault
    PROVE  TypeOK'
<1> USE DEF TypeOK, Goto, fileVars, dockerVars, otherVars
<1>1. CASE Plan
    <2> DEFINE planned == {v \in Volumes : \/ v[1] \in Known /\ v[2] = 0
                                           \/ rows[v[1]] = v[2]}
               found == \E n \in Names : dirs[n] # None
    <2>1. wipe' = [pc |-> "ask", name |-> None, targets |-> Known, volumes |-> planned,
                   instances |-> found, db |-> db]
        BY <1>1 DEF Plan
    <2>2. Known \in SUBSET Names /\ planned \in SUBSET Volumes
        BY DEF Known
    <2>3. found \in BOOLEAN
        OBVIOUS
    <2> HIDE DEF planned, found
    <2>4. wipe' \in Wipe
        BY <2>1, <2>2, <2>3 DEF Wipe
    <2> QED BY <1>1, <2>4 DEF Plan
<1>2. CASE Ask \/ Targeted \/ Done \/ Refused
    <2>1. CASE wipe' = NoWipe
        BY <1>2, <2>1, ConstantTypes DEF Ask, Targeted, Done, Refused
    <2>2. ASSUME NEW pc \in {"down", "volumes"}, wipe' = [wipe EXCEPT !.pc = pc]
          PROVE  wipe' \in Wipe
        BY <2>2 DEF Wipe
    <2> QED BY <1>2, <2>1, <2>2 DEF Ask, Targeted, Done, Refused
<1>3. CASE Down
    <2>1. wipe' \in Wipe
        <3>1. PICK n \in wipe.targets :
                 wipe' = [wipe EXCEPT !.pc = "rm_ctr", !.name = n, !.targets = @ \ {n}]
            BY <1>3 DEF Down
        <3>2. n \in Names /\ wipe.targets \ {n} \in SUBSET Names
            BY <3>1 DEF Wipe
        <3> QED BY <3>1, <3>2 DEF Wipe
    <2>2. ctr' \in [Names -> Idx \cup {None}] /\ vols' \subseteq Volumes /\ labels' \subseteq vols'
        BY <1>3 DEF Down
    <2> QED BY <1>3, <2>1, <2>2 DEF Down
<1>4. CASE RmContainers
    <2>1. wipe' \in Wipe
        BY <1>4 DEF RmContainers, Wipe
    <2>2. ctr' \in [Names -> Idx \cup {None}]
        BY <1>4 DEF RmContainers
    <2> QED BY <1>4, <2>1, <2>2 DEF RmContainers
<1>5. CASE RmLabelled
    <2>1. wipe' \in Wipe
        BY <1>5 DEF RmLabelled, Wipe
    <2>2. vols' \subseteq Volumes /\ labels' \subseteq vols'
        BY <1>5 DEF RmLabelled
    <2> QED BY <1>5, <2>1, <2>2 DEF RmLabelled
<1>6. CASE RmVolume
    <2>1. wipe' \in Wipe
        BY <1>6 DEF RmVolume, Wipe
    <2>2. vols' \subseteq Volumes /\ labels' \subseteq vols'
        BY <1>6 DEF RmVolume
    <2> QED BY <1>6, <2>1, <2>2 DEF RmVolume
<1>7. CASE DeleteInstances
    <2>1. wipe' \in Wipe
        BY <1>7 DEF DeleteInstances, Wipe
    <2> QED BY <1>7, <2>1 DEF DeleteInstances
<1>8. CASE DeleteDb
    <2>1. wipe' \in Wipe
        BY <1>8 DEF DeleteDb, Wipe
    <2>2. db' \in BOOLEAN
        BY <1>8 DEF DeleteDb
    <2> QED BY <1>8, <2>1, <2>2 DEF DeleteDb
<1>9. CASE WipeFault
    <2>1. wipe' \in Wipe
        BY <1>9, ConstantTypes DEF WipeFault
    <2>2. dirs' \in [Names -> ComposeFile \cup {None, Torn}]
        BY <1>9 DEF WipeFault
    <2>3. faults' \in 0..MaxFaults
        BY <1>9, WipeAssumption DEF WipeFault
    <2> QED BY <1>9, <2>1, <2>2, <2>3 DEF WipeFault
<1> QED BY <1>1, <1>2, <1>3, <1>4, <1>5, <1>6, <1>7, <1>8, <1>9 DEF WipeStep

LEMMA TypeStep == TypeOK /\ [Next]_vars => TypeOK'
<1>1. TypeOK /\ UNCHANGED vars => TypeOK'
    BY DEF TypeOK, vars
<1> QED BY <1>1, OtherTypes, WipeTypes DEF Next

\* The state of a wipe, of the home and of docker's objects has its types, however
\* other commands interleave with the wipe (dev.py:22-102).
THEOREM TypeCorrect == Spec => []TypeOK
BY TypeInit, TypeStep, PTL DEF Spec

-----------------------------------------------------------------------------
(* How far the wipe has come with an instance nobody else has touched.     *)

Visiting == {"ask", "down", "rm_ctr", "rm_labelled"}
Removing == Visiting \cup {"volumes"}
Deleting == {"instances", "db"}

\* Its container is gone, or the instance is still to be visited.
CtrInv(n) ==
    /\ wipe.pc \in Visiting =>
          n \in wipe.targets \/ (wipe.pc = "rm_ctr" /\ wipe.name = n) \/ ctr[n] = None
    /\ wipe.pc \in {"volumes"} \cup Deleting => ctr[n] = None

\* The data its name and its row refer to is in the plan as long as it is there.
DataInv(n) ==
    /\ wipe.pc \in Removing => Referenced(n) \cap vols \subseteq wipe.volumes
    /\ wipe.pc \in Deleting => Referenced(n) \cap vols = {}

WipeInv ==
    /\ TypeOK
    /\ \A n \in Known \ touched : CtrInv(n) /\ DataInv(n)

LEMMA WipeInit == Init => WipeInv
BY TypeInit DEF Init, NoWipe, WipeInv, CtrInv, DataInv, Visiting, Removing, Deleting

\* Another command on n leaves the instances that are not n alone.
LEMMA OtherLeaves ==
    ASSUME TypeOK, NEW n \in Names, Other(n)
    PROVE  /\ n \in touched' /\ touched \subseteq touched' /\ wipe' = wipe
           /\ \A m \in Names : m # n =>
                 /\ rows'[m] = rows[m] /\ dirs'[m] = dirs[m] /\ ctr'[m] = ctr[m]
                 /\ \A i \in Idx : <<m, i>> \in vols' => <<m, i>> \in vols
           /\ \A m \in Names : (rows[m] # None => rows'[m] # None)
                               /\ (dirs[m] # None => dirs'[m] # None)
<1> USE DEF Acts, fileVars, dockerVars
<1>1. n \in touched' /\ touched \subseteq touched' /\ wipe' = wipe
    BY DEF Other, UpStarts, UpFiles, UpContainer, Restore, UpFault
<1>2. CASE UpStarts(n)
    BY <1>1, <1>2, ConstantTypes DEF UpStarts, TypeOK
<1>3. CASE UpFiles(n)
    <2>1. dirs'[n] \in ComposeFile /\ \A m \in Names : m # n => dirs'[m] = dirs[m]
        BY <1>3 DEF UpFiles, TypeOK, ComposeFile
    <2> QED BY <1>1, <1>3, <2>1, ConstantTypes DEF UpFiles
<1>4. CASE UpContainer(n)
    BY <1>1, <1>4 DEF UpContainer, TypeOK
<1>5. CASE Restore(n)
    <2>1. PICK i \in Idx :
             /\ rows' = [rows EXCEPT ![n] = i] /\ ctr' = [ctr EXCEPT ![n] = i]
             /\ dirs' = [dirs EXCEPT ![n] = [vol |-> i, ext |-> TRUE]]
             /\ vols' = vols \cup {<<n, i>>}
        <3>1. restored[n] + 1 \in Idx
            BY <1>5, WipeAssumption DEF Restore, Idx, TypeOK
        <3> QED BY <1>5, <3>1 DEF Restore
    <2>2. [vol |-> i, ext |-> TRUE] \in ComposeFile
        BY DEF ComposeFile
    <2> QED BY <1>1, <2>1, <2>2, ConstantTypes DEF TypeOK
<1>6. CASE UpFault(n)
    BY <1>1, <1>6, WipeAssumption DEF UpFault, TypeOK
<1> QED BY <1>2, <1>3, <1>4, <1>5, <1>6 DEF Other

\* A step that leaves an instance's row and files, and adds no volume.
LEMMA Refers ==
    ASSUME NEW n \in Names, rows'[n] = rows[n]
    PROVE  Referenced(n)' = Referenced(n)
BY DEF Referenced

LEMMA OtherKeeps ==
    ASSUME WipeInv, NEW n \in Names, Other(n)
    PROVE  \A m \in Known' \ touched' : CtrInv(m)' /\ DataInv(m)'
<1> TAKE m \in Known' \ touched'
<1>1. m \in Names /\ m # n /\ m \notin touched
    BY OtherLeaves DEF Known, WipeInv
<1>2. rows'[m] = rows[m] /\ dirs'[m] = dirs[m] /\ ctr'[m] = ctr[m] /\ wipe' = wipe
    BY <1>1, OtherLeaves DEF WipeInv
<1>3. m \in Known \ touched
    BY <1>1, <1>2 DEF Known
<1>4. Referenced(m)' \cap vols' \subseteq Referenced(m) \cap vols
    <2>1. Referenced(m)' = Referenced(m)
        BY <1>1, <1>2, Refers
    <2>2. \A v \in Referenced(m) : \E i \in Idx : v = <<m, i>>
        BY ConstantTypes DEF Referenced, Volumes
    <2>3. \A i \in Idx : <<m, i>> \in vols' => <<m, i>> \in vols
        BY <1>1, OtherLeaves DEF WipeInv
    <2> QED BY <2>1, <2>2, <2>3
<1>5. CtrInv(m) /\ DataInv(m)
    BY <1>3 DEF WipeInv
<1> QED BY <1>2, <1>4, <1>5 DEF CtrInv, DataInv

\* The plan names every instance that is known, and all its data.
LEMMA PlanKnows ==
    ASSUME TypeOK, Plan
    PROVE  \A m \in Known' : CtrInv(m)' /\ DataInv(m)'
<1> TAKE m \in Known'
<1>1. Known' = Known /\ UNCHANGED <<rows, vols, ctr>>
    BY DEF Plan, Known, fileVars, dockerVars
<1>2. /\ wipe'.pc = "ask" /\ wipe'.targets = Known
      /\ wipe'.volumes = {v \in Volumes : \/ v[1] \in Known /\ v[2] = 0
                                          \/ rows[v[1]] = v[2]}
    BY DEF Plan
<1>3. Referenced(m) \subseteq wipe'.volumes
    <2>1. <<m, 0>> \in wipe'.volumes
        BY <1>1, <1>2, ConstantTypes DEF Volumes, Known
    <2> QED BY <1>2, <2>1 DEF Referenced
<1> QED BY <1>1, <1>2, <1>3
        DEF CtrInv, DataInv, Referenced, Visiting, Removing, Deleting

\* A step of the wipe keeps the row and the files, and only takes away.
Takes ==
    /\ UNCHANGED <<rows, dirs, touched>>
    /\ vols' \subseteq vols
    /\ \A m \in Names : ctr'[m] = ctr[m] \/ ctr'[m] = None

LEMMA TakesKnown ==
    ASSUME WipeInv, Takes, NEW m \in Known' \ touched'
    PROVE  /\ m \in Names /\ m \in Known \ touched /\ CtrInv(m) /\ DataInv(m)
           /\ Referenced(m)' \cap vols' \subseteq Referenced(m) \cap vols
           /\ ctr[m] = None => ctr'[m] = None
BY DEF Takes, Known, Referenced, WipeInv

LEMMA RemovalKeeps ==
    ASSUME WipeInv, Ask \/ Down \/ RmContainers \/ RmLabelled \/ Targeted \/ RmVolume
    PROVE  \A m \in Known' \ touched' : CtrInv(m)' /\ DataInv(m)'
<1> USE DEF Goto, fileVars, dockerVars, otherVars
<1>0. wipe \in Wipe /\ ctr \in [Names -> Idx \cup {None}]
    BY DEF WipeInv, TypeOK
<1>1. Takes
    BY <1>0 DEF Ask, Down, RmContainers, RmLabelled, Targeted, RmVolume, Takes
<1> TAKE m \in Known' \ touched'
<1>2. /\ m \in Names /\ CtrInv(m) /\ DataInv(m)
      /\ Referenced(m)' \cap vols' \subseteq Referenced(m) \cap vols
      /\ ctr[m] = None => ctr'[m] = None
    BY <1>1, TakesKnown
<1> USE DEF CtrInv, DataInv, Visiting, Removing, Deleting
<1>3. CASE Ask
    BY <1>0, <1>2, <1>3 DEF Ask, NoWipe, Wipe
<1>4. CASE Down
    <2>1. PICK n \in wipe.targets :
             wipe' = [wipe EXCEPT !.pc = "rm_ctr", !.name = n, !.targets = @ \ {n}]
        BY <1>4 DEF Down
    <2>2. /\ wipe'.pc = "rm_ctr" /\ wipe'.name = n /\ wipe'.targets = wipe.targets \ {n}
          /\ wipe'.volumes = wipe.volumes
        BY <1>0, <2>1 DEF Wipe
    <2>3. wipe.pc = "down"
        BY <1>4 DEF Down
    <2>4. CtrInv(m)'
        BY <1>2, <2>2, <2>3
    <2> QED BY <1>2, <2>2, <2>3, <2>4
<1>5. CASE RmContainers
    <2>1. m = wipe.name => ctr'[m] = None
        BY <1>0, <1>2, <1>5 DEF RmContainers
    <2> QED BY <1>0, <1>2, <1>5, <2>1 DEF RmContainers, Wipe
<1>6. CASE RmLabelled
    BY <1>0, <1>2, <1>6 DEF RmLabelled, Wipe
<1>7. CASE Targeted
    BY <1>0, <1>2, <1>7 DEF Targeted, Wipe
<1>8. CASE RmVolume
    <2>1. ctr[m] = None /\ ctr'[m] = None
        BY <1>2, <1>8 DEF RmVolume
    <2>2. CASE wipe.volumes = {} /\ wipe' = [wipe EXCEPT !.pc = "instances"]
        BY <1>0, <1>2, <1>8, <2>1, <2>2 DEF RmVolume, Wipe
    <2>3. ASSUME NEW v \in wipe.volumes, vols' = vols \ {v},
                 wipe' = [wipe EXCEPT !.volumes = @ \ {v}]
          PROVE  CtrInv(m)' /\ DataInv(m)'
        BY <1>0, <1>2, <1>8, <2>1, <2>3 DEF RmVolume, Wipe
    <2> QED BY <1>8, <2>2, <2>3 DEF RmVolume
<1> QED BY <1>3, <1>4, <1>5, <1>6, <1>7, <1>8

\* The files go, and with them some instances; those still known keep their row.
LEMMA DeletionKeeps ==
    ASSUME WipeInv, DeleteInstances
    PROVE  \A m \in Known' \ touched' : CtrInv(m)' /\ DataInv(m)'
<1> TAKE m \in Known' \ touched'
<1>1. UNCHANGED <<rows, ctr, vols, touched>> /\ wipe.pc = "instances"
    BY DEF DeleteInstances, dockerVars, otherVars
<1>2. m \in Known \ touched
    BY <1>1 DEF DeleteInstances, Known
<1>3. CtrInv(m) /\ DataInv(m)
    BY <1>2 DEF WipeInv
<1>4. wipe'.pc = "db"
    BY DEF DeleteInstances, Goto, WipeInv, TypeOK, Wipe
<1> QED BY <1>1, <1>3, <1>4 DEF CtrInv, DataInv, Referenced, Visiting, Removing, Deleting

LEMMA WipeStays ==
    ASSUME WipeInv, [Next]_vars
    PROVE  WipeInv'
<1>1. TypeOK'
    BY TypeStep DEF WipeInv
<1>2. \A m \in Known' \ touched' : CtrInv(m)' /\ DataInv(m)'
    <2>1. CASE \E n \in Names : Other(n)
        BY <2>1, OtherKeeps
    <2>2. CASE Plan
        BY <2>2, PlanKnows DEF WipeInv
    <2>3. CASE Ask \/ Down \/ RmContainers \/ RmLabelled \/ Targeted \/ RmVolume
        BY <2>3, RemovalKeeps
    <2>4. CASE DeleteInstances
        BY <2>4, DeletionKeeps
    <2>5. CASE DeleteDb \/ Done \/ Refused \/ WipeFault
        <3>1. wipe'.pc \in {"done", "idle"}
            BY <2>5 DEF DeleteDb, Done, Refused, WipeFault, NoWipe, Goto, WipeInv, TypeOK, Wipe
        <3> QED BY <3>1 DEF CtrInv, DataInv, Visiting, Removing, Deleting
    <2>6. CASE UNCHANGED vars
        BY <2>6 DEF vars, WipeInv, Known, CtrInv, DataInv, Referenced
    <2> QED BY <2>1, <2>2, <2>3, <2>4, <2>5, <2>6 DEF Next, WipeStep
<1> QED BY <1>1, <1>2 DEF WipeInv

\* Files and row of an instance go only at the steps that come after the data.
LEMMA ForgetsLast ==
    ASSUME TypeOK, [Next]_vars, NEW n \in Names, Forgotten(n)
    PROVE  wipe.pc \in Deleting /\ n \in Known
<1> USE DEF fileVars, dockerVars, otherVars
<1>1. n \in Known
    BY DEF Forgotten, Known
<1>2. ~ (rows'[n] = rows[n] /\ dirs'[n] = dirs[n])
    BY DEF Forgotten
<1>3. ~ \E m \in Names : Other(m)
    BY OtherLeaves DEF Forgotten
<1>4. CASE \/ Plan \/ Ask \/ Refused \/ Down \/ RmContainers \/ RmLabelled \/ Targeted
           \/ RmVolume \/ Done \/ UNCHANGED vars
    BY <1>2, <1>4 DEF Plan, Ask, Refused, Down, RmContainers, RmLabelled, Targeted, RmVolume,
                      Done, vars
<1>5. CASE DeleteInstances \/ DeleteDb \/ WipeFault
    BY <1>1, <1>2, <1>5 DEF DeleteInstances, DeleteDb, WipeFault, Deleting
<1> QED BY <1>3, <1>4, <1>5 DEF Next, WipeStep

\* A wipe, also one that fails or is killed half way, deletes an instance's files,
\* its encryption key among them, and its row only when its container and the data
\* its name and its row refer to are gone (dev.py:65-102), whatever other commands
\* do meanwhile to other instances.
THEOREM DataGoesFirst == Spec => FilesAfterData
<1> DEFINE Last == \A n \in Names \ touched : Forgotten(n) => Gone(n)
<1>1. WipeInv /\ [Next]_vars => Last
    <2> SUFFICES ASSUME WipeInv, [Next]_vars, NEW n \in Names \ touched, Forgotten(n)
                 PROVE  Gone(n)
        OBVIOUS
    <2>1. wipe.pc \in Deleting /\ n \in Known
        BY ForgetsLast DEF WipeInv
    <2>2. CtrInv(n) /\ DataInv(n)
        BY <2>1 DEF WipeInv
    <2> QED BY <2>1, <2>2 DEF CtrInv, DataInv, Gone
<1>2. Spec => [][Last]_vars
    BY <1>1, WipeInit, WipeStays, PTL DEF Spec
<1> QED BY <1>2 DEF FilesAfterData
=============================================================================
