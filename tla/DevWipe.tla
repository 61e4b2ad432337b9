------------------------------- MODULE DevWipe -------------------------------
(***************************************************************************)
(* `lon dev wipe` (core/dev.py, app.py:798-831) over the instances of one  *)
(* home: it plans, asks, and then removes what it has planned, docker's    *)
(* objects first and the files and the registry last.                      *)
(*                                                                         *)
(* Other commands run before it, or in another terminal while it asks and  *)
(* removes.  Their details are in Lifecycle and BackupRestore; here `up`   *)
(* is its three effects and a restore is one step.                         *)
(***************************************************************************)
EXTENDS Naturals

CONSTANTS
    Names,          \* of instances
    None, Torn,     \* nothing; a compose file that was truncated
    MaxRestored,    \* bound: restores of an instance
    MaxOthers,      \* bound: other commands
    MaxFaults       \* bound: failures and kills, of any command

VARIABLES
    db, rows,       \* state.db; the volume each row names
    dirs,           \* each instance's directory: its compose file
    ctr,            \* each compose project's container: the volume it mounts
    vols, labels,   \* the volumes there are; those with a compose project label
    restored,       \* how many restores each instance has seen
    up,             \* an `up` under way: its next effect and its record's volume
    wipe,           \* the wipe: its next step, and what is left of its plan
    touched,        \* history: the instances other commands acted on since the plan
    others, faults

fileVars == <<db, rows, dirs>>
dockerVars == <<ctr, vols, labels>>
otherVars == <<restored, up, others, touched>>
vars == <<db, rows, dirs, ctr, vols, labels, restored, up, others, touched, wipe, faults>>

\* Volume 0 is the one the instance's name gives, i the one its i-th restore made.
Idx == 0..MaxRestored
Volumes == Names \X Idx
ComposeFile == [vol: Idx, ext: BOOLEAN]
Wipe == [pc: {"idle", "ask", "down", "rm_ctr", "rm_labelled", "volumes", "instances",
              "db", "done"},
         name: Names \cup {None},       \* the target in hand
         targets: SUBSET Names, volumes: SUBSET Volumes,
         instances: BOOLEAN, db: BOOLEAN]
NoWipe == [pc |-> "idle", name |-> None, targets |-> {}, volumes |-> {},
           instances |-> FALSE, db |-> FALSE]
NoUp == [pc |-> "idle", vol |-> 0]

ASSUME WipeAssumption ==
    /\ None \notin Names \cup Idx \cup ComposeFile
    /\ Torn \notin ComposeFile \cup {None}
    /\ MaxRestored \in Nat /\ MaxOthers \in Nat /\ MaxFaults \in Nat

TypeOK ==
    /\ db \in BOOLEAN
    /\ rows \in [Names -> Idx \cup {None}]
    /\ dirs \in [Names -> ComposeFile \cup {None, Torn}]
    /\ ctr \in [Names -> Idx \cup {None}]
    /\ vols \subseteq Volumes /\ labels \subseteq vols
    /\ restored \in [Names -> Idx]
    /\ up \in [Names -> [pc: {"idle", "files", "ctr"}, vol: Idx]]
    /\ wipe \in Wipe /\ touched \subseteq Names
    /\ others \in 0..MaxOthers /\ faults \in 0..MaxFaults

Init ==
    /\ db = FALSE /\ rows = [n \in Names |-> None] /\ dirs = [n \in Names |-> None]
    /\ ctr = [n \in Names |-> None] /\ vols = {} /\ labels = {}
    /\ restored = [n \in Names |-> 0] /\ up = [n \in Names |-> NoUp]
    /\ wipe = NoWipe /\ touched = {}
    /\ others = 0 /\ faults = 0

-----------------------------------------------------------------------------
(* The other commands.                                                     *)

Acts(n) == touched' = touched \cup {n}

\* Fault: `up` goes on with what it has looked up, not with what it has registered.
UpStartsUnregistered(n) ==
    /\ Acts(n)
    /\ up[n].pc = "idle"
    /\ others < MaxOthers
    /\ others' = others + 1
    /\ rows' = [rows EXCEPT ![n] = IF @ = None THEN 0 ELSE @]
    /\ db' = TRUE
    /\ up' = [up EXCEPT ![n] = [pc |-> "files", vol |-> rows[n]]]
    /\ UNCHANGED <<dirs, dockerVars, restored, wipe, faults>>

\* `up` finds its record or registers one with the default volume.
UpStarts(n) ==
    /\ Acts(n)
    /\ up[n].pc = "idle"
    /\ others < MaxOthers
    /\ others' = others + 1
    /\ rows' = [rows EXCEPT ![n] = IF @ = None THEN 0 ELSE @]
    /\ db' = TRUE
    /\ up' = [up EXCEPT ![n] = [pc |-> "files", vol |-> rows'[n]]]
    /\ UNCHANGED <<dirs, dockerVars, restored, wipe, faults>>

UpFiles(n) ==
    /\ Acts(n)
    /\ up[n].pc = "files"
    /\ dirs' = [dirs EXCEPT ![n] = [vol |-> up[n].vol, ext |-> FALSE]]
    /\ up' = [up EXCEPT ![n].pc = "ctr"]
    /\ UNCHANGED <<db, rows, dockerVars, restored, others, wipe, faults>>

\* compose creates a missing volume, with its label.
UpContainer(n) ==
    /\ Acts(n)
    /\ up[n].pc = "ctr"
    /\ \/ /\ dirs[n] \in ComposeFile
          /\ ctr' = [ctr EXCEPT ![n] = dirs[n].vol]
          /\ vols' = vols \cup {<<n, dirs[n].vol>>}
          /\ labels' = labels \cup ({<<n, dirs[n].vol>>} \ vols)
       \/ /\ dirs[n] \notin ComposeFile
          /\ UNCHANGED dockerVars
    /\ up' = [up EXCEPT ![n] = NoUp]
    /\ UNCHANGED <<fileVars, restored, others, wipe, faults>>

\* A restore, with --replace or to a new instance: a volume of its own, without a
\* label; an earlier volume stays.
Restore(n) ==
    /\ Acts(n)
    /\ up[n].pc = "idle"
    /\ others < MaxOthers /\ restored[n] < MaxRestored
    /\ others' = others + 1
    /\ LET i == restored[n] + 1
       IN  /\ restored' = [restored EXCEPT ![n] = i]
           /\ rows' = [rows EXCEPT ![n] = i]
           /\ dirs' = [dirs EXCEPT ![n] = [vol |-> i, ext |-> TRUE]]
           /\ ctr' = [ctr EXCEPT ![n] = i]
           /\ vols' = vols \cup {<<n, i>>}
    /\ db' = TRUE
    /\ UNCHANGED <<labels, up, wipe, faults>>

\* `up` fails or is killed, perhaps with the compose file half written.
UpFault(n) ==
    /\ Acts(n)
    /\ up[n].pc # "idle"
    /\ faults < MaxFaults
    /\ faults' = faults + 1
    /\ \/ UNCHANGED dirs
       \/ up[n].pc = "files" /\ dirs' = [dirs EXCEPT ![n] = Torn]
    /\ up' = [up EXCEPT ![n] = NoUp]
    /\ UNCHANGED <<db, rows, dockerVars, restored, others, wipe>>

Other(n) == UpStarts(n) \/ UpFiles(n) \/ UpContainer(n) \/ Restore(n) \/ UpFault(n)

-----------------------------------------------------------------------------
(* The wipe.                                                               *)

Goto(pc) == wipe' = [wipe EXCEPT !.pc = pc]

\* _instance_names: the registered ones and the directories.
Known == {n \in Names : rows[n] # None \/ dirs[n] # None}

\* Fault: only the volumes the names give are planned, not those of the rows.
PlanNamed ==
    /\ wipe.pc = "idle"
    /\ wipe' = [pc |-> "ask", name |-> None, targets |-> Known,
                volumes |-> {v \in Volumes : v[1] \in Known /\ v[2] = 0},
                instances |-> \E n \in Names : dirs[n] # None, db |-> db]
    /\ touched' = {}
    /\ UNCHANGED <<fileVars, dockerVars, restored, up, others, faults>>

\* plan_dev_wipe; what _target_for_name names is the default volume.  An instances
\* directory that is empty is taken for none.
Plan ==
    /\ wipe.pc = "idle"
    /\ wipe' = [pc |-> "ask", name |-> None, targets |-> Known,
                volumes |-> {v \in Volumes : \/ v[1] \in Known /\ v[2] = 0
                                             \/ rows[v[1]] = v[2]},
                instances |-> \E n \in Names : dirs[n] # None, db |-> db]
    /\ touched' = {}
    /\ UNCHANGED <<fileVars, dockerVars, restored, up, others, faults>>

\* The answer to the prompt.
Ask ==
    /\ wipe.pc = "ask"
    /\ \/ Goto("down")
       \/ wipe' = NoWipe
    /\ UNCHANGED <<fileVars, dockerVars, otherVars, faults>>

\* Fault: a target without a compose file is not passed over.
DownNeedsFile ==
    /\ wipe.pc = "down"
    /\ \E n \in wipe.targets :
          /\ dirs[n] \in ComposeFile
          /\ ctr' = [ctr EXCEPT ![n] = None]
          /\ LET gone == IF dirs[n].ext THEN {} ELSE {<<n, dirs[n].vol>>}
             IN  vols' = vols \ gone /\ labels' = labels \ gone
          /\ wipe' = [wipe EXCEPT !.pc = "rm_ctr", !.name = n, !.targets = @ \ {n}]
    /\ UNCHANGED <<fileVars, otherVars, faults>>

\* `compose down -v` of the next target, when it has a compose file.
Down ==
    /\ wipe.pc = "down"
    /\ \E n \in wipe.targets :
          /\ \/ /\ dirs[n] = None
                /\ UNCHANGED dockerVars
             \/ /\ dirs[n] \in ComposeFile
                /\ ctr' = [ctr EXCEPT ![n] = None]
                /\ LET gone == IF dirs[n].ext THEN {} ELSE {<<n, dirs[n].vol>>}
                   IN  vols' = vols \ gone /\ labels' = labels \ gone
          /\ wipe' = [wipe EXCEPT !.pc = "rm_ctr", !.name = n, !.targets = @ \ {n}]
    /\ UNCHANGED <<fileVars, otherVars, faults>>

\* _remove_labeled_docker_objects: the containers ...
RmContainers ==
    /\ wipe.pc = "rm_ctr"
    /\ ctr' = [ctr EXCEPT ![wipe.name] = None]
    /\ Goto("rm_labelled")
    /\ UNCHANGED <<fileVars, vols, labels, otherVars, faults>>

\* ... and the volumes with the project's label; one in use cannot be removed.
RmLabelled ==
    /\ wipe.pc = "rm_labelled"
    /\ LET gone == {v \in labels : v[1] = wipe.name}
       IN  /\ \A v \in gone : ctr[v[1]] # v[2]
           /\ vols' = vols \ gone /\ labels' = labels \ gone
    /\ wipe' = [wipe EXCEPT !.name = None,
                            !.pc = IF wipe.targets = {} THEN "volumes" ELSE "down"]
    /\ UNCHANGED <<fileVars, ctr, otherVars, faults>>

\* No target is left, or there was none.
Targeted ==
    /\ wipe.pc = "down" /\ wipe.targets = {}
    /\ Goto("volumes")
    /\ UNCHANGED <<fileVars, dockerVars, otherVars, faults>>

\* `docker volume rm --force` of each planned volume; a missing one is ignored.
RmVolume ==
    /\ wipe.pc = "volumes"
    /\ \/ \E v \in wipe.volumes :
             /\ ctr[v[1]] # v[2]
             /\ vols' = vols \ {v} /\ labels' = labels \ {v}
             /\ wipe' = [wipe EXCEPT !.volumes = @ \ {v}]
       \/ /\ wipe.volumes = {}
          /\ Goto("instances")
          /\ UNCHANGED <<vols, labels>>
    /\ UNCHANGED <<fileVars, ctr, otherVars, faults>>

\* The whole directory, with what came into it since the plan.
DeleteInstances ==
    /\ wipe.pc = "instances"
    /\ dirs' = IF wipe.instances THEN [n \in Names |-> None] ELSE dirs
    /\ Goto("db")
    /\ UNCHANGED <<db, rows, dockerVars, otherVars, faults>>

DeleteDb ==
    /\ wipe.pc = "db"
    /\ db' = (db /\ ~wipe.db)
    /\ rows' = IF wipe.db THEN [n \in Names |-> None] ELSE rows
    /\ Goto("done")
    /\ UNCHANGED <<dirs, dockerVars, otherVars, faults>>

Done ==
    /\ wipe.pc = "done"
    /\ wipe' = NoWipe
    /\ UNCHANGED <<fileVars, dockerVars, otherVars, faults>>

WipeStep == Down \/ RmContainers \/ RmLabelled \/ Targeted \/ RmVolume
            \/ DeleteInstances \/ DeleteDb \/ Done

\* docker refuses: the compose file cannot be parsed, a volume is in use.
Refused ==
    /\ \/ wipe.pc = "down" /\ \E n \in wipe.targets : dirs[n] = Torn
       \/ wipe.pc = "rm_labelled"
             /\ \E v \in labels : v[1] = wipe.name /\ ctr[v[1]] = v[2]
       \/ wipe.pc = "volumes" /\ \E v \in wipe.volumes : ctr[v[1]] = v[2]
    /\ wipe' = NoWipe
    /\ UNCHANGED <<fileVars, dockerVars, otherVars, faults>>

\* An exception or a kill; of a directory tree some instances may be gone.
WipeFault ==
    /\ wipe.pc \notin {"idle", "ask", "done"}
    /\ faults < MaxFaults
    /\ faults' = faults + 1
    /\ \/ UNCHANGED dirs
       \/ /\ wipe.pc = "instances" /\ wipe.instances
          /\ \E some \in SUBSET Names :
                dirs' = [n \in Names |-> IF n \in some THEN None ELSE dirs[n]]
    /\ wipe' = NoWipe
    /\ UNCHANGED <<db, rows, dockerVars, otherVars>>

Next ==
    \/ \E n \in Names : Other(n)
    \/ Plan \/ Ask \/ WipeStep \/ Refused \/ WipeFault

Spec == Init /\ [][Next]_vars

\* The process is scheduled, and docker returns.
FairSpec == Spec /\ WF_vars(WipeStep \/ Refused)

-----------------------------------------------------------------------------
(* Properties.                                                             *)

\* What the state and the names refer to (docs/commands.md:389).
Referenced(n) == {<<n, 0>>} \cup {v \in Volumes : v[1] = n /\ rows[n] = v[2]}
Gone(n) == ctr[n] = None /\ Referenced(n) \cap vols = {}

\* The files of an instance, its encryption key among them, or its row.
Forgotten(n) ==
    \/ dirs[n] # None /\ dirs'[n] = None
    \/ rows[n] # None /\ rows'[n] = None

\* Files and row are deleted after the container and the data, also by a wipe that
\* fails or is killed half way: a later wipe finds what is left, and no data is
\* without its key (dev.py:65-102).  What other commands do to one instance while
\* the wipe runs does not change that for another.
FilesAfterData == [][\A n \in Names \ touched : Forgotten(n) => Gone(n)]_vars

\* A confirmed wipe that nothing disturbs ends with nothing left to find, whatever
\* earlier commands and wipes left, unless a compose file cannot be parsed.
WipeFinishes ==
    (/\ wipe.pc = "down" /\ touched = {}
     /\ others = MaxOthers /\ faults = MaxFaults
     /\ \A n \in Names : up[n].pc = "idle" /\ dirs[n] # Torn)
        ~> Known = {} /\ ~db
=============================================================================
