--------------------------- MODULE Recovery_proofs ---------------------------
(***************************************************************************)
(* Proofs about Recovery, for any number of terminals, passphrases and     *)
(* commands: types, that a bundle is sealed with two secrets that were     *)
(* active together, and that a command which runs alone replaces only the  *)
(* secret it is for.                                                       *)
(***************************************************************************)
EXTENDS Recovery, TLAPS

Secrets(p) == [pass |-> proc[p].with, code |-> proc[p].code]

\* What each step may rely on: the locals it reads are set, a backup seals with
\* what was typed, and from the moment a code was opened or written it is active.
LocalsOK ==
    \A p \in Terminals :
        /\ proc[p].pc \notin {"idle"} => proc[p].typed \in Passes /\ proc[p].with \in Passes
        /\ proc[p].pc \in {"open", "fill", "seal", "return"} => proc[p].code \in Codes
        /\ proc[p].verb = "backup" => proc[p].with = proc[p].typed
        /\ proc[p].pc \in {"load", "seal"} => proc[p].verb = "backup"
        /\ proc[p].pc = "seal" => Secrets(p) \in active

AdminInv ==
    /\ TypeOK
    /\ LocalsOK
    /\ wrapped \in Sealed => wrapped \in active
    /\ bundles \subseteq active

LEMMA InitOK == Init => AdminInv
BY RecoveryAssumption
   DEF Init, AdminInv, TypeOK, LocalsOK, NoProcess, Process, AllVerbs, Sealed, Codes

\* One process moves to a state that is in order, and nothing that is active
\* ceases to be: the locals of all are in order.
LEMMA OneMoves ==
    ASSUME AdminInv, NEW p \in Terminals, NEW q \in Process,
           proc' = [proc EXCEPT ![p] = q], active \subseteq active',
           q.pc \notin {"idle"} => q.typed \in Passes /\ q.with \in Passes,
           q.pc \in {"open", "fill", "seal", "return"} => q.code \in Codes,
           q.verb = "backup" => q.with = q.typed,
           q.pc \in {"load", "seal"} => q.verb = "backup",
           q.pc = "seal" => [pass |-> q.with, code |-> q.code] \in active'
    PROVE  LocalsOK' /\ proc' \in [Terminals -> Process]
<1>1. proc \in [Terminals -> Process] /\ LocalsOK
    BY DEF AdminInv, TypeOK
<1>2. ASSUME NEW r \in Terminals PROVE proc'[r] = IF r = p THEN q ELSE proc[r]
    BY <1>1
<1> QED BY <1>1, <1>2 DEF LocalsOK, Secrets

LEMMA StepOK == AdminInv /\ [Next]_vars => AdminInv'
<1> SUFFICES ASSUME AdminInv, [Next]_vars PROVE AdminInv'
    OBVIOUS
<1> USE DEF stores, history, bounds
<1>0. TypeOK /\ LocalsOK /\ proc \in [Terminals -> Process]
    BY DEF AdminInv, TypeOK
<1>1. CASE UNCHANGED vars \/ N8nStops
    BY <1>1 DEF vars, N8nStops, AdminInv, TypeOK, LocalsOK, Secrets
<1>2. ASSUME NEW p \in Terminals, Start(p) \/ Step(p) \/ Refused(p) \/ Fault(p)
      PROVE  AdminInv'
    <2> DEFINE o == proc[p]
    <2>0. /\ o \in Process
          /\ o.pc \notin {"idle"} => o.typed \in Passes /\ o.with \in Passes
          /\ o.pc \in {"open", "fill", "seal", "return"} => o.code \in Codes
          /\ o.verb = "backup" => o.with = o.typed
          /\ o.pc \in {"load", "seal"} => o.verb = "backup"
          /\ o.pc = "seal" => Secrets(p) \in active
        BY <1>0 DEF LocalsOK
    <2>1. ASSUME Ends(p), UNCHANGED <<wrapped, bundles, active>>
          PROVE  LocalsOK' /\ proc' \in [Terminals -> Process]
        <3>1. NoProcess \in Process
            BY DEF NoProcess, Process, AllVerbs
        <3> QED BY <2>1, <3>1, OneMoves DEF Ends, NoProcess
    <2>2. CASE Start(p)
        <3>1. PICK verb \in Verbs, typed \in Passes, with \in Passes :
                  /\ verb \in {"backup", "show", "rotate"} => with = typed
                  /\ proc' = [proc EXCEPT ![p] = [NoProcess EXCEPT !.pc = FirstStep[verb],
                                 !.verb = verb, !.typed = typed, !.with = with]]
            BY <2>2 DEF Start
        <3> DEFINE q == [NoProcess EXCEPT !.pc = FirstStep[verb],
                            !.verb = verb, !.typed = typed, !.with = with]
        <3>2. verb \in AllVerbs
            BY RecoveryAssumption
        <3>3. q \in Process /\ q.pc \in {"load", "unlock", "check"} /\ q.verb = verb
              /\ q.typed = typed /\ q.with = with /\ (q.pc = "load" => verb = "backup")
            <4>1. FirstStep[verb] \in {"load", "unlock", "check"}
                  /\ (FirstStep[verb] = "load" => verb = "backup")
                BY <3>2 DEF AllVerbs, FirstStep
            <4> QED BY <3>2, <4>1 DEF NoProcess, Process
        <3> HIDE DEF q
        <3>4. LocalsOK' /\ proc' \in [Terminals -> Process]
            BY <2>2, <3>1, <3>3, OneMoves DEF Start, q
        <3> QED BY <1>0, <2>2, <3>4, RecoveryAssumption DEF Start, AdminInv, TypeOK
    <2>3. CASE Load(p)
        <3>1. wrapped \in Sealed => wrapped \in active
            BY DEF AdminInv
        <3>2. LocalsOK' /\ proc' \in [Terminals -> Process] /\ codes' \in Nat
            <4>1. CASE Generates(p) /\ wrapped = None
                <5> DEFINE q == [o EXCEPT !.pc = "open", !.code = codes + 1, !.fresh = TRUE]
                <5>0. codes + 1 \in Codes
                    BY <1>0 DEF TypeOK, Codes
                <5>1. q \in Process
                    BY <2>0, <5>0 DEF Process
                <5>2. proc' = [proc EXCEPT ![p] = q]
                    BY <1>0, <4>1 DEF Generates
                <5>3. /\ q.typed = o.typed /\ q.with = o.with /\ q.verb = o.verb
                      /\ q.pc = "open" /\ q.code \in Codes
                    BY <1>0, <2>0 DEF Process, TypeOK, Codes
                <5>4. o.typed \in Passes /\ o.with \in Passes
                    BY <2>0, <2>3 DEF Load, At
                <5>5. active \subseteq active' /\ codes' \in Nat
                    BY <1>0, <2>3, <4>1 DEF Load, Generates, TypeOK
                <5> HIDE DEF q
                <5> QED BY <2>0, <5>1, <5>2, <5>3, <5>4, <5>5, OneMoves
            <4>2. CASE Unlocks(o.typed) /\ UNCHANGED codes
                       /\ proc' = [proc EXCEPT ![p].pc = "seal", ![p].code = wrapped.code]
                <5> DEFINE q == [o EXCEPT !.pc = "seal", !.code = wrapped.code]
                <5>1. q \in Process /\ proc' = [proc EXCEPT ![p] = q]
                    BY <1>0, <2>0, <4>2 DEF Unlocks, Process, Sealed
                <5>2. o.verb = "backup" /\ o.with = o.typed
                    BY <2>0, <2>3 DEF Load, At
                <5>3. [pass |-> q.with, code |-> q.code] = wrapped
                    BY <2>0, <4>2, <5>2 DEF Unlocks, Sealed, Process
                <5>4. q.typed \in Passes /\ q.with \in Passes /\ q.code \in Codes
                      /\ q.pc = "seal" /\ q.verb = "backup" /\ q.with = q.typed
                    BY <2>0, <2>3, <4>2, <5>2 DEF Unlocks, Sealed, Process, Load, At
                <5>5. [pass |-> q.with, code |-> q.code] \in active'
                    BY <2>3, <3>1, <4>2, <5>3 DEF Load, Unlocks
                <5> HIDE DEF q
                <5>6. active \subseteq active'
                    BY <2>3 DEF Load
                <5>7. LocalsOK' /\ proc' \in [Terminals -> Process]
                    BY <5>1, <5>4, <5>5, <5>6, OneMoves
                <5> QED BY <1>0, <4>2, <5>7 DEF TypeOK
            <4> QED BY <2>3, <4>1, <4>2 DEF Load
        <3> QED BY <1>0, <2>3, <3>2 DEF Load, AdminInv, TypeOK
    <2>4. CASE RotateUnlock(p) \/ ResetCheck(p)
        <3> DEFINE q == [o EXCEPT !.pc = "open", !.code = codes + 1, !.fresh = TRUE]
        <3>0. codes + 1 \in Codes
            BY <1>0 DEF TypeOK, Codes
        <3>1. q \in Process
            BY <2>0, <3>0 DEF Process
        <3>2. proc' = [proc EXCEPT ![p] = q] /\ codes' \in Nat
            BY <1>0, <2>4 DEF RotateUnlock, ResetCheck, Generates, TypeOK
        <3>3. /\ q.typed = o.typed /\ q.with = o.with /\ q.verb = o.verb
              /\ q.pc = "open" /\ q.code \in Codes
            BY <1>0, <2>0 DEF Process, TypeOK, Codes
        <3>4. o.typed \in Passes /\ o.with \in Passes
            BY <2>0, <2>4 DEF RotateUnlock, ResetCheck, At
        <3>5. UNCHANGED <<wrapped, bundles, shown, live, active, last, alone, commands, faults>>
            BY <2>4 DEF RotateUnlock, ResetCheck
        <3> HIDE DEF q
        <3>6. LocalsOK' /\ proc' \in [Terminals -> Process]
            BY <2>0, <3>1, <3>2, <3>3, <3>4, <3>5, OneMoves
        <3> QED BY <1>0, <3>2, <3>5, <3>6 DEF AdminInv, TypeOK
    <2>5. CASE ChangeUnlock(p)
        <3> DEFINE q == [o EXCEPT !.pc = "open", !.code = wrapped.code]
        <3>1. q \in Process /\ proc' = [proc EXCEPT ![p] = q] /\ wrapped.code \in Codes
            BY <1>0, <2>0, <2>5 DEF ChangeUnlock, Unlocks, Sealed, Process
        <3>2. LocalsOK' /\ proc' \in [Terminals -> Process]
            BY <2>0, <2>5, <3>1, OneMoves DEF ChangeUnlock, At, Process
        <3> QED BY <1>0, <2>5, <3>2 DEF ChangeUnlock, AdminInv, TypeOK
    <2>6. CASE Open(p)
        <3> DEFINE q == [o EXCEPT !.pc = "fill"]
        <3>1. q \in Process /\ proc' = [proc EXCEPT ![p] = q]
            BY <1>0, <2>0, <2>6 DEF Open, Goto, Process
        <3>2. LocalsOK' /\ proc' \in [Terminals -> Process]
            BY <2>0, <2>6, <3>1, OneMoves DEF Open, At, Process
        <3> QED BY <1>0, <2>6, <3>2, RecoveryAssumption DEF Open, AdminInv, TypeOK
    <2>7. CASE Fill(p)
        <3> DEFINE q == [o EXCEPT !.pc = IF o.verb = "backup" THEN "seal" ELSE "return"]
        <3>1. q \in Process /\ proc' = [proc EXCEPT ![p] = q]
            BY <1>0, <2>0, <2>7 DEF Fill, Goto, Process
        <3>2. wrapped' = Secrets(p) /\ wrapped' \in Sealed /\ active' = active \cup {wrapped'}
              /\ last' = wrapped'
            BY <2>0, <2>7 DEF Fill, At, Secrets, Sealed
        <3>3. /\ q.typed = o.typed /\ q.with = o.with /\ q.code = o.code /\ q.verb = o.verb
              /\ q.pc \in {"seal", "return"} /\ (q.pc = "seal" => o.verb = "backup")
            BY <2>0 DEF Process
        <3>4. o.typed \in Passes /\ o.with \in Passes /\ o.code \in Codes
            BY <2>0, <2>7 DEF Fill, At
        <3>5. [pass |-> q.with, code |-> q.code] \in active'
            BY <3>2, <3>3 DEF Secrets
        <3> HIDE DEF q
        <3>6. LocalsOK' /\ proc' \in [Terminals -> Process]
            BY <2>0, <3>1, <3>2, <3>3, <3>4, <3>5, OneMoves
        <3> QED BY <1>0, <2>7, <3>2, <3>6 DEF Fill, AdminInv, TypeOK
    <2>8. CASE Seal(p)
        <3> DEFINE q == [o EXCEPT !.pc = "return"]
        <3>1. q \in Process /\ proc' = [proc EXCEPT ![p] = q]
            BY <1>0, <2>0, <2>8 DEF Seal, Goto, Process
        <3>2. LocalsOK' /\ proc' \in [Terminals -> Process]
            BY <2>0, <2>8, <3>1, OneMoves DEF Seal, At, Process
        <3>3. [pass |-> o.typed, code |-> o.code] \in active
            BY <2>0, <2>8 DEF Seal, At, Secrets
        <3> QED BY <1>0, <2>8, <3>2, <3>3 DEF Seal, AdminInv, TypeOK
    <2>9. CASE Show(p)
        <3>1. wrapped.code \in Codes
            BY <2>9 DEF Show, Unlocks, Sealed
        <3> QED BY <1>0, <2>1, <2>9, <3>1 DEF Show, AdminInv, TypeOK
    <2>10. CASE Return(p)
        <3>1. o.code \in Codes
            BY <2>0, <2>10 DEF Return, At
        <3> QED BY <1>0, <2>1, <2>10, <3>1 DEF Return, AdminInv, TypeOK
    <2>11. CASE Refused(p) \/ Fault(p)
        BY <1>0, <2>1, <2>11, RecoveryAssumption DEF Refused, Fault, AdminInv, TypeOK
    <2> QED BY <1>2, <2>2, <2>3, <2>4, <2>5, <2>6, <2>7, <2>8, <2>9, <2>10, <2>11 DEF Step
<1> QED BY <1>1, <1>2 DEF Next

LEMMA AdminInvHolds == Spec => []AdminInv
BY InitOK, StepOK, PTL DEF Spec

\* In every state the file, the bundles and the locals have their types.
THEOREM RecoveryTypes == Spec => []TypeOK
<1>1. AdminInv => TypeOK
    BY DEF AdminInv
<1> QED BY <1>1, AdminInvHolds, PTL

\* Every bundle opens with a passphrase and a code that recovery.wrapped held
\* together, however the commands of any number of terminals interleave or fail.
THEOREM AlwaysSealedWithActive == Spec => []SealedWithActive
<1>1. AdminInv => SealedWithActive
    BY DEF AdminInv, SealedWithActive
<1> QED BY <1>1, AdminInvHolds, PTL
-----------------------------------------------------------------------------
(* Each command replaces its own part of the file.                         *)

\* What p is about to write keeps what a command of its kind has to keep.
Keeps(p) ==
    \/ proc[p].verb = "reset"
    \/ proc[p].verb = "change" /\ proc[p].code = last.code
    \/ proc[p].with = last.pass

\* The file is as it was last written, or is being written; beside a command that is
\* alone every terminal is idle, so what it has opened stays what is in the file.
PartInv ==
    /\ wrapped = None => last = None
    /\ wrapped \in Sealed => last = wrapped
    /\ \A p \in Terminals : /\ proc[p].verb = "rotate" => proc[p].with = proc[p].typed
                            /\ proc[p].pc = "check" => proc[p].verb = "reset"
    /\ \A p \in alone : \A q \in Terminals : q # p => At(q, "idle")
    /\ \A p \in alone : proc[p].pc \in {"open", "fill"} /\ last # None => Keeps(p)

LEMMA PartInit == Init => PartInv
BY RecoveryAssumption DEF Init, PartInv, NoProcess

\* A step of a command that runs: nobody else is alone, and the others stay.
LEMMA StepAlone ==
    ASSUME AdminInv, PartInv, NEW p \in Terminals, Step(p) \/ Refused(p) \/ Fault(p)
    PROVE  alone' = alone /\ alone \subseteq {p} /\ proc[p].pc # "idle"
<1>1. proc[p].pc # "idle"
    BY DEF Step, Refused, Fault, Load, Show, RotateUnlock, ChangeUnlock, ResetCheck, Open, Fill,
           Seal, Return, At
<1>2. alone' = alone
    BY DEF Step, Refused, Fault, Load, Show, RotateUnlock, ChangeUnlock, ResetCheck, Open, Fill,
           Seal, Return, history
<1>3. alone \subseteq {p}
    BY <1>1 DEF AdminInv, TypeOK, PartInv, At
<1> QED BY <1>1, <1>2, <1>3

\* One process moves and the file stays.
LEMMA PartMoves ==
    ASSUME AdminInv, PartInv, NEW p \in Terminals, NEW q \in Process,
           alone' = alone, alone \subseteq {p}, proc' = [proc EXCEPT ![p] = q],
           UNCHANGED <<wrapped, last>>,
           q.verb = "rotate" => q.with = q.typed, q.pc # "check",
           q.pc \in {"open", "fill"} /\ last # None =>
               \/ q.verb = "reset"
               \/ q.verb = "change" /\ q.code = last.code
               \/ q.with = last.pass
    PROVE  PartInv'
<1>1. proc'[p] = q /\ \A r \in Terminals : r # p => proc'[r] = proc[r]
    BY DEF AdminInv, TypeOK
<1> QED BY <1>1 DEF PartInv, Keeps, At

LEMMA PartEnds ==
    ASSUME AdminInv, PartInv, NEW p \in Terminals, alone' = alone, alone \subseteq {p},
           Ends(p), UNCHANGED <<wrapped, last>>
    PROVE  PartInv'
<1>1. /\ NoProcess \in Process /\ NoProcess.pc = "idle" /\ NoProcess.verb = "show"
    BY DEF NoProcess, Process, AllVerbs
<1> QED BY <1>1, PartMoves DEF Ends

LEMMA PartStarts ==
    ASSUME AdminInv, PartInv, NEW p \in Terminals, Start(p)
    PROVE  PartInv'
<1>1. PICK verb \in Verbs, typed \in Passes, with \in Passes :
          /\ verb \in {"backup", "show", "rotate"} => with = typed
          /\ proc' = [proc EXCEPT ![p] = [NoProcess EXCEPT !.pc = FirstStep[verb],
                         !.verb = verb, !.typed = typed, !.with = with]]
    BY DEF Start
<1> DEFINE q == [NoProcess EXCEPT !.pc = FirstStep[verb],
                    !.verb = verb, !.typed = typed, !.with = with]
<1>2. q.pc = FirstStep[verb] /\ q.verb = verb /\ q.typed = typed /\ q.with = with
    BY DEF NoProcess
<1>3. q.pc \notin {"open", "fill"} /\ (q.pc = "check" => verb = "reset")
    BY <1>2, RecoveryAssumption DEF AllVerbs, FirstStep
<1> HIDE DEF q
<1>4. proc'[p] = q /\ \A r \in Terminals : r # p => proc'[r] = proc[r]
    BY <1>1 DEF AdminInv, TypeOK, q
<1>5. alone' \subseteq {p} /\ \A r \in alone', s \in Terminals : s # r => At(s, "idle")
    BY DEF Start
<1>6. UNCHANGED <<wrapped, last>>
    BY DEF Start, stores
<1> QED BY <1>1, <1>2, <1>3, <1>4, <1>5, <1>6 DEF PartInv, At

LEMMA PartSteps ==
    ASSUME AdminInv, PartInv, NEW p \in Terminals, Step(p)
    PROVE  PartInv'
<1> USE DEF stores, history
<1> DEFINE o == proc[p]
<1>0. /\ proc \in [Terminals -> Process] /\ o \in Process
      /\ o.verb = "rotate" => o.with = o.typed
      /\ o.pc \in {"load", "seal"} => o.verb = "backup"
      /\ o.pc = "check" => o.verb = "reset"
    BY DEF AdminInv, TypeOK, LocalsOK, PartInv
<1>1. alone' = alone /\ alone \subseteq {p}
    BY StepAlone
<1> DEFINE g == [o EXCEPT !.pc = "open", !.code = codes + 1, !.fresh = TRUE]
<1>2. codes + 1 \in Codes
    BY DEF AdminInv, TypeOK, Codes
<1>3. /\ g \in Process /\ g.pc = "open"
      /\ g.verb = o.verb /\ g.with = o.with /\ g.typed = o.typed
      /\ Generates(p) => proc' = [proc EXCEPT ![p] = g]
    BY <1>0, <1>2 DEF Process, Generates
<1> HIDE DEF g
<1>4. CASE Load(p)
    <2>1. CASE Generates(p) /\ wrapped = None
        <3>1. last = None
            BY <2>1 DEF PartInv
        <3> QED BY <1>0, <1>1, <1>3, <1>4, <2>1, <3>1, PartMoves DEF Load
    <2>2. CASE /\ wrapped \in Sealed
               /\ proc' = [proc EXCEPT ![p].pc = "seal", ![p].code = wrapped.code]
        <3> DEFINE q == [o EXCEPT !.pc = "seal", !.code = wrapped.code]
        <3>1. q \in Process /\ q.pc = "seal" /\ q.verb = o.verb
            BY <1>0, <2>2 DEF Process, Sealed
        <3>2. proc' = [proc EXCEPT ![p] = q]
            BY <1>0, <2>2
        <3>3. o.verb = "backup"
            BY <1>0, <1>4 DEF Load, At
        <3> HIDE DEF q
        <3> QED BY <1>1, <1>4, <3>1, <3>2, <3>3, PartMoves DEF Load
    <2> QED BY <1>4, <2>1, <2>2 DEF Load, Unlocks
<1>5. CASE RotateUnlock(p) \/ ResetCheck(p)
    <2>1. Generates(p) /\ UNCHANGED <<wrapped, last>>
        BY <1>5 DEF RotateUnlock, ResetCheck
    <2>2. o.verb = "reset" \/ (last # None => o.with = last.pass)
        BY <1>0, <1>5 DEF RotateUnlock, ResetCheck, Unlocks, At, PartInv
    <2> QED BY <1>0, <1>1, <1>3, <2>1, <2>2, PartMoves
<1>6. CASE ChangeUnlock(p)
    <2> DEFINE q == [o EXCEPT !.pc = "open", !.code = wrapped.code]
    <2>1. wrapped \in Sealed /\ wrapped = last /\ o.verb = "change"
        BY <1>6 DEF ChangeUnlock, Unlocks, PartInv
    <2>2. /\ q \in Process /\ q.code = last.code /\ q.pc = "open"
          /\ q.verb = o.verb /\ q.with = o.with /\ q.typed = o.typed
        BY <1>0, <2>1 DEF Process, Sealed
    <2>3. proc' = [proc EXCEPT ![p] = q]
        BY <1>0, <1>6 DEF ChangeUnlock
    <2> HIDE DEF q
    <2> QED BY <1>1, <1>6, <2>1, <2>2, <2>3, PartMoves DEF ChangeUnlock
<1>7. CASE Open(p)
    <2> DEFINE q == [o EXCEPT !.pc = "fill"]
    <2>1. proc' = [proc EXCEPT ![p] = q] /\ proc'[p] = q
        BY <1>0, <1>7 DEF Open, Goto
    <2>2. q.code = o.code /\ q.verb = o.verb /\ q.with = o.with /\ q.typed = o.typed
        BY <1>0 DEF Process
    <2>3. \A r \in Terminals : r # p => proc'[r] = proc[r]
        BY <1>0, <2>1
    <2>4. wrapped' = Torn /\ last' = last /\ o.pc = "open"
        BY <1>7 DEF Open, At
    <2> HIDE DEF q
    <2>5. \A m \in alone : m = p
        BY <1>1
    <2>6. last # None /\ p \in alone => Keeps(p)
        BY <2>4 DEF PartInv
    <2>7. last # None /\ p \in alone => Keeps(p)'
        BY <2>1, <2>2, <2>4, <2>6 DEF Keeps
    <2>8. q.pc = "fill"
        BY <1>0 DEF Process, q
    <2>9. wrapped' # None /\ wrapped' \notin Sealed
        BY <2>4, RecoveryAssumption
    <2>10. \A r \in Terminals : /\ proc'[r].verb = "rotate" => proc'[r].with = proc'[r].typed
                                /\ proc'[r].pc = "check" => proc'[r].verb = "reset"
        BY <1>0, <2>1, <2>2, <2>3, <2>8 DEF PartInv
    <2>11. \A m \in alone' : \A r \in Terminals : r # m => At(r, "idle")'
        BY <1>1, <2>3, <2>5 DEF PartInv, At
    <2>12. \A m \in alone' : proc'[m].pc \in {"open", "fill"} /\ last' # None => Keeps(m)'
        <3>1. \A m \in alone' : m = p /\ m \in alone
            BY <1>1, <2>5
        <3> QED BY <2>4, <2>7, <3>1
    <2> QED BY <2>9, <2>10, <2>11, <2>12 DEF PartInv, Keeps, At
<1>8. CASE Fill(p)
    <2> DEFINE q == [o EXCEPT !.pc = IF o.verb = "backup" THEN "seal" ELSE "return"]
    <2>1. proc' = [proc EXCEPT ![p] = q] /\ proc'[p] = q
        BY <1>0, <1>8 DEF Fill, Goto
    <2>2. /\ q.pc \in {"seal", "return"}
          /\ q.verb = o.verb /\ q.with = o.with /\ q.typed = o.typed
        BY <1>0 DEF Process
    <2>3. \A r \in Terminals : r # p => proc'[r] = proc[r]
        BY <1>0, <2>1
    <2>4. wrapped' = last' /\ wrapped' \in Sealed
        BY <1>8 DEF Fill, At, AdminInv, LocalsOK, Sealed
    <2> HIDE DEF q
    <2> QED BY <1>1, <2>1, <2>2, <2>3, <2>4, RecoveryAssumption DEF PartInv, Keeps, At
<1>9. CASE Seal(p)
    <2> DEFINE q == [o EXCEPT !.pc = "return"]
    <2>1. proc' = [proc EXCEPT ![p] = q]
        BY <1>0, <1>9 DEF Seal, Goto
    <2>2. /\ q \in Process /\ q.pc = "return"
          /\ q.verb = o.verb /\ q.with = o.with /\ q.typed = o.typed
        BY <1>0 DEF Process
    <2> HIDE DEF q
    <2> QED BY <1>0, <1>1, <1>9, <2>1, <2>2, PartMoves DEF Seal
<1>10. CASE Show(p) \/ Return(p)
    BY <1>1, <1>10, PartEnds DEF Show, Return
<1> QED BY <1>4, <1>5, <1>6, <1>7, <1>8, <1>9, <1>10 DEF Step

LEMMA PartKept == AdminInv /\ PartInv /\ [Next]_vars => PartInv'
<1> SUFFICES ASSUME AdminInv, PartInv, [Next]_vars PROVE PartInv'
    OBVIOUS
<1>1. CASE UNCHANGED vars \/ N8nStops
    BY <1>1 DEF vars, N8nStops, stores, history, PartInv, Keeps, At
<1>2. ASSUME NEW p \in Terminals, Refused(p) \/ Fault(p) PROVE PartInv'
    BY <1>2, StepAlone, PartEnds DEF Refused, Fault, stores, history
<1> QED BY <1>1, <1>2, PartStarts, PartSteps DEF Next

\* Of the two secrets in recovery.wrapped a change of the passphrase keeps the code, a
\* rotation and the first backup's file the passphrase (backup.py:309-386, 520-550),
\* whatever was interrupted before: for any number of terminals, when no other
\* command runs beside.
THEOREM OnlyItsPart == Spec => EachItsPart
<1> DEFINE Part == \A p \in alone : At(p, "fill") /\ proc'[p] # proc[p] /\ wrapped' # wrapped
                       /\ last # None /\ wrapped' \in Sealed =>
                         \/ proc[p].verb = "reset"
                         \/ proc[p].verb = "change" /\ wrapped'.code = last.code
                         \/ wrapped'.pass = last.pass
<1>1. AdminInv /\ PartInv /\ [Next]_vars => Part
    <2> SUFFICES ASSUME AdminInv, PartInv, [Next]_vars, NEW p \in alone, At(p, "fill"),
                        wrapped' # wrapped, last # None
                 PROVE  \/ proc[p].verb = "reset"
                        \/ proc[p].verb = "change" /\ wrapped'.code = last.code
                        \/ wrapped'.pass = last.pass
        OBVIOUS
    <2>1. p \in Terminals /\ \A q \in Terminals : q # p => At(q, "idle")
        BY DEF AdminInv, TypeOK, PartInv
    <2>2. PICK q \in Terminals : Open(q) \/ Fill(q)
        BY DEF Next, Step, Start, Refused, Fault, Load, Show, RotateUnlock, ChangeUnlock,
               ResetCheck, Seal, Return, N8nStops, vars, stores
    <2>3. q = p /\ Fill(p)
        BY <2>1, <2>2 DEF Open, Fill, At
    <2>4. wrapped'.pass = proc[p].with /\ wrapped'.code = proc[p].code
        BY <2>3 DEF Fill
    <2>5. Keeps(p)
        BY DEF PartInv, At
    <2> QED BY <2>4, <2>5 DEF Keeps
<1>2. Spec => [][Part]_vars
    BY <1>1, InitOK, StepOK, PartInit, PartKept, PTL DEF Spec
<1> QED BY <1>2 DEF EachItsPart
=============================================================================
