---------------------------- MODULE AtomicInstance ----------------------------
(***************************************************************************)
(* What backup and restore promise: seen from outside a command, an        *)
(* instance and its archive of bundles change in three indivisible ways.   *)
(* n8n writes; a backup saves exactly the instance as it is; a restore     *)
(* makes the instance a bundle's, all of it and nothing of what was there. *)
(* A replace that is killed, or whose rollback fails, breaks the promise.  *)
(***************************************************************************)
CONSTANTS Keys, Ports, Revs, None, Empty, Content

VARIABLES
    inst,       \* None, or [key, port, data]: the .env key, the port, the volume
    archive,    \* the [key, data] of every bundle that can be opened
    broken

absVars == <<inst, archive, broken>>

\* d is b's data and what n8n did with it since; nothing of old is mixed in.
Descends(d, key, b, old) ==
    \/ d = b
    \/ /\ d \in Content /\ d.key = key
       /\ IF b = Empty
          THEN d.hist \cap old = {}
          ELSE /\ d.key = b.key /\ d.whole = b.whole /\ b.hist \subseteq d.hist
               /\ (d.hist \ b.hist) \cap old = {}

History(i) == IF i = None \/ i.data \notin Content THEN {} ELSE i.data.hist

Init ==
    /\ inst \in [key: Keys, port: Ports, data: Content \cup {Empty}] \cup {None}
    /\ archive \subseteq [key: Keys, data: Content]
    /\ broken = FALSE

Write ==
    /\ inst # None
    /\ \E r \in Revs \ History(inst) :
          inst' = [inst EXCEPT !.data =
                      [key |-> inst.key, hist |-> History(inst) \cup {r}, whole |-> TRUE]]
    /\ UNCHANGED <<archive, broken>>

Save ==
    /\ inst # None
    /\ archive' = archive \cup {[key |-> inst.key, data |-> inst.data]}
    /\ UNCHANGED <<inst, broken>>

Restore ==
    /\ inst' # None
    /\ \E b \in archive :
          /\ inst'.key = b.key
          /\ Descends(inst'.data, b.key, b.data, History(inst))
    /\ inst'.port \in Ports
    /\ UNCHANGED <<archive, broken>>

Break == broken' = TRUE

Next == \/ ~broken /\ (Write \/ Save \/ Restore \/ Break)
        \/ broken /\ UNCHANGED broken

Spec == Init /\ [][Next]_absVars
=============================================================================
