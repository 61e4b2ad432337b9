------------------------------ MODULE Readiness ------------------------------
(***************************************************************************)
(* wait_for_web_ui_ready (core/readiness.py): the loop that asks n8n's page *)
(* until it shows the UI or the deadline has passed.  The deadline is      *)
(* tested only between polls, and n8n comes and goes meanwhile.            *)
(***************************************************************************)
EXTENDS Integers

CONSTANTS
    Timeout, Interval,  \* of the loop: 90 and 2 seconds
    PollMax             \* bound: the longest poll; urlopen's timeout=5 bounds one
                        \* socket operation, not the poll

VARIABLES
    now,        \* time.monotonic()
    ready,      \* asked now, n8n would answer with its UI
    lastDown,   \* the last moment at which it would not
    wait        \* locals of the loop: step, deadline, when the poll or sleep began

waitVars == <<now, ready, lastDown, wait>>

ASSUME ReadinessAssumption ==
    Timeout \in Nat \ {0} /\ Interval \in Nat /\ PollMax \in Nat

WaitSteps == {"off", "check", "poll", "sleep", "yes", "no", "broken"}
NotWaiting == [pc |-> "off", deadline |-> 0, since |-> 0]

WaitTypeOK ==
    /\ now \in Nat /\ lastDown \in 0..now
    /\ ready \in BOOLEAN
    /\ wait \in [pc: WaitSteps, deadline: Nat, since: 0..now]

WaitInit == now = 0 /\ ready = FALSE /\ lastDown = 0 /\ wait = NotWaiting

-----------------------------------------------------------------------------
WaitAt(step) == wait.pc = step
WaitGoes(step) == wait' = [wait EXCEPT !.pc = step] /\ UNCHANGED <<now, ready, lastDown>>
Turns(step) == wait' = [wait EXCEPT !.pc = step, !.since = now]
               /\ UNCHANGED <<now, ready, lastDown>>

BeginWait ==
    /\ WaitAt("off")
    /\ wait' = [pc |-> "check", deadline |-> now + Timeout, since |-> now]
    /\ UNCHANGED <<now, ready, lastDown>>

\* Fault: the loop gives up when the deadline would pass during its sleep.
CheckBeforeSleep ==
    /\ WaitAt("check")
    /\ IF now + Interval < wait.deadline THEN Turns("poll") ELSE WaitGoes("no")

Check ==
    /\ WaitAt("check")
    /\ IF now < wait.deadline THEN Turns("poll") ELSE WaitGoes("no")

\* is_web_ui_ready: an answer that does not look like the UI, an HTTP error, a
\* refused or broken connection and a timeout are all "not ready".
Answered == WaitAt("poll") /\ ready /\ WaitGoes("yes")
Unanswered == WaitAt("poll") /\ lastDown >= wait.since /\ Turns("sleep")

\* An answer that is no HTTP raises http.client's exceptions, which are not caught.
PollBreaks == WaitAt("poll") /\ ~ready /\ WaitGoes("broken")

Slept == WaitAt("sleep") /\ now = wait.since + Interval /\ WaitGoes("check")

WaitStep == Check \/ Answered \/ Unanswered \/ PollBreaks \/ Slept

\* A poll takes up to PollMax, the sleep Interval, everything else no time.
Tick ==
    /\ \/ WaitAt("poll") /\ now < wait.since + PollMax
       \/ WaitAt("sleep") /\ now < wait.since + Interval
    /\ now' = now + 1
    /\ lastDown' = IF ready THEN lastDown ELSE now + 1
    /\ UNCHANGED <<ready, wait>>

\* n8n finishes its start, or goes away again.
N8nTurns ==
    /\ WaitAt("poll") \/ WaitAt("sleep")
    /\ ready' = ~ready
    /\ lastDown' = now
    /\ UNCHANGED <<now, wait>>

WaitNext == BeginWait \/ WaitStep \/ Tick \/ N8nTurns

WaitSpec == WaitInit /\ [][WaitNext]_waitVars
-----------------------------------------------------------------------------
(* Properties.                                                             *)

\* What the verdict of the loop tells (readiness.py:21-34).  TRUE: n8n answered in
\* a poll begun before the deadline, and at most PollMax after it.  FALSE: the
\* deadline has passed, by less than a poll and a sleep, and n8n was away at some
\* moment of the last Interval + PollMax before it: who is there that long is found.
VerdictInTime ==
    /\ WaitAt("yes") => wait.since < wait.deadline /\ now =< wait.deadline + PollMax
    /\ WaitAt("no") =>
          /\ wait.deadline =< now /\ now =< wait.deadline + PollMax + Interval
          /\ wait.deadline =< lastDown + PollMax + Interval
=============================================================================
