------------------------------ MODULE Recovery ------------------------------
(***************************************************************************)
(* recovery.wrapped, the file that holds the recovery code of an instance, *)
(* sealed with the backup passphrase and with the code itself: `lon        *)
(* backup` creates or opens it, `lon recovery show` and `rotate` and `lon  *)
(* passphrase change` and `reset` open or replace it (core/backup.py:      *)
(* 309-452, 520-550), from several terminals at once.                      *)
(*                                                                         *)
(* What is sealed is the pair of its secrets.  Every file sealed has the   *)
(* same length (a code has 43 characters), so of two processes that write  *)
(* at once the later one leaves its own text and nothing of the other's.   *)
(***************************************************************************)
EXTENDS Naturals

CONSTANTS
    Terminals,
    Passes,         \* the passphrases a user may type
    Verbs,          \* the commands the user runs
    None, Torn,     \* no file; a file truncated and not yet filled
    MaxCommands,    \* bound: commands
    MaxFaults       \* bound: commands that fail for no reason of their own, or are killed

VARIABLES
    wrapped,        \* the file
    bundles,        \* the secrets of the bundles written
    shown,          \* the codes the user has seen
    live,           \* the container runs and the web UI answers
    proc,           \* each terminal's process and its locals
    codes,          \* how many codes were generated
    active,         \* history: what the file has held, readable
    last,           \* history: what it held last
    alone,          \* history: the command no other has run beside since it started
    commands, faults

stores == <<wrapped, bundles>>
history == <<active, last, alone>>
bounds == <<commands, faults>>
vars == <<wrapped, bundles, shown, live, proc, codes, active, last, alone, commands,
          faults>>

Codes == Nat
Sealed == [pass: Passes, code: Codes]
AllVerbs == {"backup", "show", "rotate", "change", "reset"}

\* A process: its step, the passphrase typed, the one to seal with, the code it
\* has opened or generated, and whether it is to print that code.
Process == [pc: {"idle", "load", "unlock", "check", "open", "fill", "seal", "return"},
            verb: AllVerbs, typed: Passes \cup {None}, with: Passes \cup {None},
            code: Codes \cup {None}, fresh: BOOLEAN]
NoProcess == [pc |-> "idle", verb |-> "show", typed |-> None, with |-> None,
              code |-> None, fresh |-> FALSE]

ASSUME RecoveryAssumption ==
    /\ Verbs \subseteq AllVerbs
    /\ MaxCommands \in Nat /\ MaxFaults \in Nat
    /\ None \notin Passes \cup Codes \cup Sealed
    /\ Torn \notin Sealed \cup {None}

TypeOK ==
    /\ wrapped \in Sealed \cup {None, Torn}
    /\ bundles \subseteq Sealed
    /\ shown \subseteq Codes
    /\ live \in BOOLEAN
    /\ proc \in [Terminals -> Process]
    /\ codes \in Nat
    /\ active \subseteq Sealed
    /\ last \in Sealed \cup {None}
    /\ alone \subseteq Terminals
    /\ commands \in 0..MaxCommands /\ faults \in 0..MaxFaults

\* Where a command begins.
FirstStep == [backup |-> "load", show |-> "unlock", rotate |-> "unlock",
              change |-> "unlock", reset |-> "check"]

-----------------------------------------------------------------------------
At(p, step) == proc[p].pc = step
Goto(p, step) == proc' = [proc EXCEPT ![p].pc = step]

Ends(p) == proc' = [proc EXCEPT ![p] = NoProcess]

\* open_bundle with slot_type="passphrase", of the file as it is now.
Unlocks(pass) == wrapped \in Sealed /\ wrapped.pass = pass

Init ==
    /\ wrapped = None /\ bundles = {} /\ shown = {}
    /\ live \in BOOLEAN
    /\ proc = [p \in Terminals |-> NoProcess]
    /\ codes = 0
    /\ active = {} /\ last = None /\ alone = {}
    /\ commands = 0 /\ faults = 0

\* The prompts come first; only change and reset ask for a new passphrase.
Start(p) ==
    /\ At(p, "idle")
    /\ commands < MaxCommands
    /\ commands' = commands + 1
    /\ \E verb \in Verbs, typed \in Passes, with \in Passes :
          /\ verb \in {"backup", "show", "rotate"} => with = typed
          /\ proc' = [proc EXCEPT ![p] = [NoProcess EXCEPT !.pc = FirstStep[verb],
                         !.verb = verb, !.typed = typed, !.with = with]]
    /\ alone' = {q \in {p} : \A other \in Terminals \ {p} : At(other, "idle")}
    /\ UNCHANGED <<stores, shown, live, codes, active, last, faults>>

\* _generate_recovery_code, and on to the write.
Generates(p) ==
    /\ codes' = codes + 1
    /\ proc' = [proc EXCEPT ![p] = [@ EXCEPT !.pc = "open", !.code = codes + 1,
                                            !.fresh = TRUE]]

\* Fault: backup reads the code from whatever the file is sealed with.
LoadUnchecked(p) ==
    /\ At(p, "load")
    /\ \/ /\ wrapped = None
          /\ Generates(p)
       \/ /\ wrapped \in Sealed
          /\ proc' = [proc EXCEPT ![p].pc = "seal", ![p].code = wrapped.code]
          /\ UNCHANGED codes
    /\ UNCHANGED <<stores, shown, live, history, bounds>>

\* _load_or_create_recovery_code, up to the write.
Load(p) ==
    /\ At(p, "load")
    /\ \/ /\ wrapped = None
          /\ Generates(p)
       \/ /\ Unlocks(proc[p].typed)
          /\ proc' = [proc EXCEPT ![p].pc = "seal", ![p].code = wrapped.code]
          /\ UNCHANGED codes
    /\ UNCHANGED <<stores, shown, live, history, bounds>>

Show(p) ==
    /\ At(p, "unlock") /\ proc[p].verb = "show"
    /\ Unlocks(proc[p].typed)
    /\ shown' = shown \cup {wrapped.code}
    /\ Ends(p)
    /\ UNCHANGED <<stores, live, codes, history, bounds>>

\* Fault: rotate goes on to write before it has a code.
RotateUnlockCodeless(p) ==
    /\ At(p, "unlock") /\ proc[p].verb = "rotate"
    /\ Unlocks(proc[p].typed)
    /\ codes' = codes + 1
    /\ Goto(p, "open")
    /\ UNCHANGED <<stores, shown, live, history, bounds>>

RotateUnlock(p) ==
    /\ At(p, "unlock") /\ proc[p].verb = "rotate"
    /\ Unlocks(proc[p].typed)
    /\ Generates(p)
    /\ UNCHANGED <<stores, shown, live, history, bounds>>

\* Fault: change makes a new code, as rotate does.
ChangeUnlockFresh(p) ==
    /\ At(p, "unlock") /\ proc[p].verb = "change"
    /\ Unlocks(proc[p].typed)
    /\ Generates(p)
    /\ UNCHANGED <<stores, shown, live, history, bounds>>

ChangeUnlock(p) ==
    /\ At(p, "unlock") /\ proc[p].verb = "change"
    /\ Unlocks(proc[p].typed)
    /\ proc' = [proc EXCEPT ![p].pc = "open", ![p].code = wrapped.code]
    /\ UNCHANGED <<stores, shown, live, codes, history, bounds>>

\* Fault: reset opens the file before it replaces it, as the others do.
ResetCheckUnlocks(p) ==
    /\ At(p, "check") /\ live
    /\ wrapped # Torn
    /\ Generates(p)
    /\ UNCHANGED <<stores, shown, live, history, bounds>>

\* reset does not read the file: n8n must run and answer instead.
ResetCheck(p) ==
    /\ At(p, "check") /\ live
    /\ Generates(p)
    /\ UNCHANGED <<stores, shown, live, history, bounds>>

\* write_bytes, in two steps; what is written was sealed before the first.
Open(p) ==
    /\ At(p, "open")
    /\ wrapped' = Torn
    /\ Goto(p, "fill")
    /\ UNCHANGED <<bundles, shown, live, codes, history, bounds>>

Fill(p) ==
    /\ At(p, "fill")
    /\ wrapped' = [pass |-> proc[p].with, code |-> proc[p].code]
    /\ active' = active \cup {wrapped'} /\ last' = wrapped'
    /\ Goto(p, IF proc[p].verb = "backup" THEN "seal" ELSE "return")
    /\ UNCHANGED <<bundles, shown, live, codes, alone, bounds>>

\* The capture of the volume, and the bundle.
Seal(p) ==
    /\ At(p, "seal")
    /\ bundles' = bundles \cup {[pass |-> proc[p].typed, code |-> proc[p].code]}
    /\ Goto(p, "return")
    /\ UNCHANGED <<wrapped, shown, live, codes, history, bounds>>

Return(p) ==
    /\ At(p, "return")
    /\ shown' = IF proc[p].fresh THEN shown \cup {proc[p].code} ELSE shown
    /\ Ends(p)
    /\ UNCHANGED <<stores, live, codes, history, bounds>>

Step(p) ==
    \/ Load(p) \/ Show(p) \/ RotateUnlock(p) \/ ChangeUnlock(p) \/ ResetCheck(p)
    \/ Open(p) \/ Fill(p) \/ Seal(p) \/ Return(p)

-----------------------------------------------------------------------------
\* The file is missing or cannot be opened with what was typed; n8n is not up.
Refused(p) ==
    /\ \/ At(p, "load") /\ wrapped # None /\ ~Unlocks(proc[p].typed)
       \/ At(p, "unlock") /\ ~Unlocks(proc[p].typed)
       \/ At(p, "check") /\ ~live
    /\ Ends(p)
    /\ UNCHANGED <<stores, shown, live, codes, history, bounds>>

\* An exception or a kill, at any step: docker fails, the disk is full, Ctrl-C.
\* No command here undoes anything; the finally block of backup prints no code.
Fault(p) ==
    /\ ~At(p, "idle")
    /\ faults < MaxFaults
    /\ faults' = faults + 1
    /\ Ends(p)
    /\ UNCHANGED <<stores, shown, live, codes, history, commands>>

\* n8n stops for good.
N8nStops ==
    /\ live
    /\ live' = FALSE
    /\ UNCHANGED <<stores, shown, proc, codes, history, bounds>>

Next ==
    \/ \E p \in Terminals : Start(p) \/ Step(p) \/ Refused(p) \/ Fault(p)
    \/ N8nStops

Spec == Init /\ [][Next]_vars

\* Each process is scheduled, and what it waits for returns or fails.
FairSpec == Spec /\ \A p \in Terminals : WF_vars(Step(p) \/ Refused(p))

-----------------------------------------------------------------------------
(* Properties.                                                             *)

\* docs/commands.md:216, 234, 254: a bundle opens with the passphrase and the code
\* that were active together, in one recovery.wrapped, when it was made, whoever
\* else replaces the file meanwhile.
SealedWithActive == bundles \subseteq active

\* A change of the passphrase keeps the code; a rotation and a backup keep the
\* passphrase; only reset replaces both (docs/commands.md:203, 221, 239) -- unless
\* another command runs beside them, and whatever was interrupted before.
EachItsPart ==
    [][\A p \in alone : At(p, "fill") /\ proc'[p] # proc[p] /\ wrapped' # wrapped
           /\ last # None /\ wrapped' \in Sealed =>
             \/ proc[p].verb = "reset"
             \/ proc[p].verb = "change" /\ wrapped'.code = last.code
             \/ wrapped'.pass = last.pass]_vars

\* docs/commands.md:251: reset is the escape hatch.  Whatever earlier commands left,
\* interrupted or beside each other, a reset that is not disturbed leaves a file
\* that opens with the new passphrase and holds a code the user has seen.
ResetRepairs ==
    \A p \in Terminals, pass \in Passes :
        At(p, "check") /\ p \in alone /\ proc[p].with = pass
                /\ commands = MaxCommands /\ faults = MaxFaults
            ~> ~live \/ (Unlocks(pass) /\ wrapped.code \in shown)
=============================================================================
