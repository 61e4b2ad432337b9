-------------------------- MODULE Invocation_proofs --------------------------
(***************************************************************************)
(* Proofs about one run of lon, for every pipe size, deadline, interval and *)
(* length of a poll.  The invariants are built up in this order: the wait   *)
(* (WaitInv), the stream (StreamInv, PipeInv), the document (DocInv), what  *)
(* the run has touched and was allowed to (RunInv), its exit code           *)
(* (ExitInv); each uses those before it.                                    *)
(***************************************************************************)
EXTENDS Invocation, SequenceTheorems, TLAPS

-----------------------------------------------------------------------------
(* The wait for n8n, by itself.                                            *)

\* Where the clock and n8n's last absence can be at each step of the loop.
WaitBounds ==
    /\ WaitAt("poll") => wait.since < wait.deadline /\ now =< wait.since + PollMax
    /\ WaitAt("sleep") => /\ now =< wait.since + Interval
                          /\ wait.since =< wait.deadline + PollMax
                          /\ wait.since =< lastDown + PollMax
    /\ WaitAt("check") => \/ now < wait.deadline
                          \/ /\ now =< wait.deadline + PollMax + Interval
                             /\ now =< lastDown + PollMax + Interval

WaitInv == WaitTypeOK /\ WaitBounds /\ VerdictInTime

\* Before the wait all bounds hold.
LEMMA WaitInitially == WaitInit => WaitInv
<1> SUFFICES ASSUME WaitInit PROVE WaitInv
  OBVIOUS
<1>1. now = 0 /\ lastDown = 0 /\ ready \in BOOLEAN
      /\ wait = [pc |-> "off", deadline |-> 0, since |-> 0]
  BY DEF WaitInit, NotWaiting
<1>2. 0 \in 0..0 /\ 0 \in Nat /\ "off" \in WaitSteps
  BY DEF WaitSteps
<1>3. WaitTypeOK
  BY <1>1, <1>2 DEF WaitTypeOK
<1>4. wait.pc = "off"
  BY <1>1
<1> QED BY <1>3, <1>4 DEF WaitInv, WaitBounds, VerdictInTime, WaitAt

\* Every step of the loop, of the clock and of n8n keeps the bounds.
LEMMA WaitKept ==
  ASSUME WaitInv, WaitNext
  PROVE  WaitInv'
<1> USE ReadinessAssumption
<1>1. CASE BeginWait
  BY <1>1 DEF WaitInv, WaitTypeOK, WaitBounds, VerdictInTime, BeginWait, WaitAt, WaitSteps
<1>2. CASE Check
  <2>1. CASE now < wait.deadline
    <3>1. wait.deadline \in Nat /\ now \in 0..now
      BY DEF WaitInv, WaitTypeOK
    <3>2. /\ wait' = [pc |-> "poll", deadline |-> wait.deadline, since |-> now]
          /\ UNCHANGED <<now, ready, lastDown>>
      BY <1>2, <2>1 DEF WaitInv, WaitTypeOK, Check, Turns
    <3>3. wait' \in [pc: WaitSteps, deadline: Nat, since: 0..now]
      BY <3>1, <3>2 DEF WaitSteps
    <3>4. WaitTypeOK'
      BY <3>2, <3>3 DEF WaitInv, WaitTypeOK
    <3>5. wait'.pc = "poll" /\ wait'.since = now /\ wait'.deadline = wait.deadline
      BY <3>2
    <3>6. now \in Nat /\ now' = now
      BY <3>2 DEF WaitInv, WaitTypeOK
    <3> QED BY <2>1, <3>4, <3>5, <3>6 DEF WaitInv, WaitBounds, VerdictInTime, WaitAt
  <2>2. CASE ~(now < wait.deadline)
    BY <1>2, <2>2 DEF WaitInv, WaitTypeOK, WaitBounds, VerdictInTime, Check, Turns, WaitGoes, WaitAt, WaitSteps
  <2> QED BY <2>1, <2>2
<1>3. CASE Answered
  BY <1>3 DEF WaitInv, WaitTypeOK, WaitBounds, VerdictInTime, Answered, WaitGoes, WaitAt, WaitSteps
<1>4. CASE Unanswered
  <2>1. /\ wait' = [pc |-> "sleep", deadline |-> wait.deadline, since |-> now]
        /\ UNCHANGED <<now, ready, lastDown>> /\ wait.pc = "poll" /\ lastDown >= wait.since
    BY <1>4 DEF WaitInv, WaitTypeOK, Unanswered, Turns, WaitAt
  <2>2. /\ wait.deadline \in Nat /\ now \in Nat /\ lastDown \in Int /\ wait.since \in Int
        /\ now \in 0..now
    BY DEF WaitInv, WaitTypeOK
  <2>3. wait' \in [pc: WaitSteps, deadline: Nat, since: 0..now]
    BY <2>1, <2>2 DEF WaitSteps
  <2>4. WaitTypeOK'
    BY <2>1, <2>3 DEF WaitInv, WaitTypeOK
  <2>5. wait.since < wait.deadline /\ now =< wait.since + PollMax
    BY <2>1 DEF WaitInv, WaitBounds, WaitAt
  <2>6. now =< now + Interval /\ now =< wait.deadline + PollMax /\ now =< lastDown + PollMax
    BY <2>1, <2>2, <2>5
  <2>7. /\ wait'.pc = "sleep" /\ wait'.deadline = wait.deadline /\ wait'.since = now
        /\ now' = now /\ lastDown' = lastDown
    BY <2>1
  <2> QED BY <2>4, <2>6, <2>7 DEF WaitInv, WaitBounds, VerdictInTime, WaitAt
<1>5. CASE PollBreaks
  BY <1>5 DEF WaitInv, WaitTypeOK, WaitBounds, VerdictInTime, PollBreaks, WaitGoes, WaitAt, WaitSteps
<1>6. CASE Slept
  BY <1>6 DEF WaitInv, WaitTypeOK, WaitBounds, VerdictInTime, Slept, WaitGoes, WaitAt, WaitSteps
<1>7. CASE Tick
  <2>1. wait' = wait /\ now' = now + 1 /\ lastDown' \in {lastDown, now + 1} /\ ready' = ready
    BY <1>7 DEF Tick
  <2>2. now \in Nat /\ lastDown \in 0..now /\ wait.since \in 0..now
    BY DEF WaitInv, WaitTypeOK
  <2>3. lastDown' \in 0..now' /\ now' \in Nat /\ lastDown' >= lastDown
    BY <2>1, <2>2
  <2>4. 0..now \subseteq 0..now'
    BY <2>1, <2>2
  <2>5. wait' \in [pc: WaitSteps, deadline: Nat, since: 0..now']
    BY <2>1, <2>4 DEF WaitInv, WaitTypeOK
  <2>6. WaitTypeOK'
    BY <2>1, <2>3, <2>5 DEF WaitInv, WaitTypeOK
  <2>7. wait.deadline \in Nat
    BY DEF WaitInv, WaitTypeOK
  <2>8. \/ wait.pc = "poll" /\ now < wait.since + PollMax
        \/ wait.pc = "sleep" /\ now < wait.since + Interval
    BY <1>7 DEF Tick, WaitAt
  <2>9. WaitBounds'
    <3>1. now' \in Int /\ lastDown \in Int /\ lastDown' \in Int /\ wait.since \in Int /\ now \in Int
      BY <2>2, <2>3
    <3>2. CASE wait.pc = "poll"
      BY <2>1, <2>7, <2>8, <3>1, <3>2 DEF WaitInv, WaitBounds, WaitAt
    <3>3. CASE wait.pc = "sleep"
      <4>1. wait.since =< wait.deadline + PollMax /\ wait.since =< lastDown + PollMax
        BY <3>3 DEF WaitInv, WaitBounds, WaitAt
      <4>2. wait.since =< lastDown' + PollMax
        BY <4>1, <2>3, <3>1
      <4>3. now' =< wait.since + Interval
        BY <2>1, <2>8, <3>1, <3>3
      <4> QED BY <2>1, <3>3, <4>1, <4>2, <4>3 DEF WaitBounds, WaitAt
    <3> QED BY <2>8, <3>2, <3>3
  <2> QED BY <2>1, <2>6, <2>8, <2>9 DEF WaitInv, VerdictInTime, WaitAt
<1>8. CASE N8nTurns
  BY <1>8 DEF WaitInv, WaitTypeOK, WaitBounds, VerdictInTime, N8nTurns, WaitAt, WaitSteps
<1> QED BY <1>1, <1>2, <1>3, <1>4, <1>5, <1>6, <1>7, <1>8 DEF WaitNext, WaitStep

\* So does a step of anything else.
LEMMA WaitStutters ==
  ASSUME WaitInv, UNCHANGED waitVars
  PROVE  WaitInv'
  BY DEF WaitInv, WaitTypeOK, WaitBounds, VerdictInTime, WaitAt, waitVars

-----------------------------------------------------------------------------
(* The steps of a run, by what they move.                                  *)

\* Entry, verbs and ends leave the stream and the wait alone.
OwnSteps ==
    \/ Entry \/ Finish \/ NoCli \/ Capture \/ NoWait
    \/ Lookup \/ Adopt \/ Image \/ Files \/ Upsert \/ PlanInit \/ Prerequisites
    \/ Report \/ Type \/ Browser
    \/ KnownInstance \/ Archive \/ PutBack \/ Unlock \/ Alive \/ Rewrap \/ Wipe

StreamSteps == ComposeStreams \/ Streams \/ ComposeReturns \/ Docker
WaitMoves == BeginsWait \/ Waits \/ Clock \/ N8n

\* The steps of the verbs are quiet.
LEMMA OwnStepsIdle == OwnSteps => Idle
<1>1. Entry \/ Finish \/ NoCli \/ Capture \/ NoWait => Idle
  BY DEF Entry, DryRun, RefuseFollow, Begin, Agree, Decline, Begins, Fresh, Finish, NoCli,
         Capture, NoWait
<1>2. Lookup \/ Adopt \/ Image \/ Files \/ Upsert \/ PlanInit \/ Prerequisites \/ Report
      \/ Type \/ Browser => Idle
  BY DEF Lookup, Adopt, Image, Files, Upsert, PlanInit, Prerequisites, Report, Type,
         Browser, Quiet
<1>3. KnownInstance \/ Archive \/ PutBack \/ Unlock \/ Alive \/ Rewrap \/ Wipe => Idle
  BY DEF KnownInstance, Archive, PutBack, Unlock, Alive, Rewrap, Wipe, Quiet
<1> QED BY <1>1, <1>2, <1>3 DEF OwnSteps

\* Every step is one of these.
LEMMA StepsOfNext == Next <=> OwnSteps \/ StreamSteps \/ WaitMoves \/ WaitReturns \/ Interrupt
  BY DEF Next, LonStep, OwnSteps, StreamSteps, WaitMoves

\* A run waits as wait_for_web_ui_ready does, whatever else it does.
LEMMA RunWaits == [Next]_vars => [WaitNext]_waitVars
<1>1. OwnSteps => UNCHANGED waitVars
  BY OwnStepsIdle DEF Idle
<1>2. StreamSteps => UNCHANGED waitVars
  BY DEF StreamSteps, ComposeStreams, Streams, ComposeReturns, Docker
<1>3. WaitReturns \/ Interrupt => UNCHANGED waitVars
  BY DEF WaitReturns, Interrupt, Idle
<1>4. WaitMoves => WaitNext
  BY DEF WaitMoves, BeginsWait, Waits, Clock, N8n, WaitNext
<1>5. UNCHANGED vars => UNCHANGED waitVars
  BY DEF vars
<1> QED BY <1>1, <1>2, <1>3, <1>4, <1>5, StepsOfNext

\* Readiness (readiness.py:21-34): whatever the timeout, the interval and the length
\* of a poll, a TRUE comes from a poll begun in time, and a FALSE only when n8n was
\* away at some moment of the last poll and sleep before the deadline.
THEOREM VerdictAlwaysInTime == Spec => []VerdictInTime
<1>1. Init => WaitInv
  BY WaitInitially DEF Init
<1>2. WaitInv /\ [Next]_vars => WaitInv'
  BY RunWaits, WaitKept, WaitStutters
<1>3. WaitInv => VerdictInTime
  BY DEF WaitInv
<1> QED BY <1>1, <1>2, <1>3, PTL DEF Spec

-----------------------------------------------------------------------------
(* The docker command, and what becomes of its output.                     *)

StreamTypes ==
    /\ child.st \in {"none", "running", "exited"}
    /\ child.says \in Seq(Chunks) /\ child.holds \in BOOLEAN
    /\ child = [st |-> child.st, says |-> child.says, holds |-> child.holds, rc |-> child.rc]
    /\ pipe \in Seq(Chunks) /\ said \in Seq(Chunks) /\ out \in Seq(Chunks)

\* Nothing is lost on the way, and the loop ends with nothing left on it.
Conserved ==
    /\ said = out \o (pipe \o child.says)
    /\ ~child.holds => child.says = <<>>
    /\ reader = "waiting" => pipe = <<>> /\ ~child.holds

StreamInv ==
    /\ StreamTypes
    /\ broke => pc = "end"
    /\ reader = "off" => child.st # "running" /\ ~child.holds
                         /\ (child.st = "exited" => out = said)
    /\ reader # "off" => Conserved
    /\ reader # "off" /\ ~broke => At("compose") /\ ~Unrunnable

\* Concatenation of what was said is associative.
LEMMA ChunksAssociate ==
  \A s \in Seq(Chunks) : \A t \in Seq(Chunks) : \A u \in Seq(Chunks) :
      (s \o t) \o u = s \o (t \o u)
<1> SUFFICES ASSUME NEW s \in Seq(Chunks), NEW t \in Seq(Chunks), NEW u \in Seq(Chunks)
             PROVE  (s \o t) \o u = s \o (t \o u)
  OBVIOUS
<1> QED BY ConcatAssociative

\* Reading from the left moves chunks over without loss.
LEMMA ReadConserves ==
  ASSUME NEW p \in Seq(Chunks), NEW o \in Seq(Chunks), NEW r \in Seq(Chunks), NEW n \in 1..Len(p)
  PROVE  /\ SubSeq(p, 1, n) \in Seq(Chunks) /\ SubSeq(p, n + 1, Len(p)) \in Seq(Chunks)
         /\ o \o (p \o r) = (o \o SubSeq(p, 1, n)) \o (SubSeq(p, n + 1, Len(p)) \o r)
<1> DEFINE got == SubSeq(p, 1, n)
           left == SubSeq(p, n + 1, Len(p))
<1>1. Len(p) \in Nat /\ n \in 1..Len(p) /\ \A i \in 1..Len(p) : p[i] \in Chunks
  BY LenProperties, ElementOfSeq
<1>2. got \in Seq(Chunks)
  <2>1. \A i \in 1..n : p[i] \in Chunks
    BY <1>1
  <2> QED BY <1>1, <2>1, SubSeqProperties
<1>3. left \in Seq(Chunks)
  <2>1. \A i \in (n + 1)..Len(p) : p[i] \in Chunks
    BY <1>1
  <2> QED BY <1>1, <2>1, SubSeqProperties
<1>4. got \o left = p
  <2>1. 1 \in 1..(Len(p) + 1) /\ n \in (1 - 1)..Len(p) /\ Len(p) \in n..Len(p)
    BY <1>1
  <2>2. got \o left = SubSeq(p, 1, Len(p))
    BY <2>1, ConcatAdjacentSubSeq
  <2> QED BY <2>2, SubSeqFull
<1> HIDE DEF got, left
<1>5. left \o r \in Seq(Chunks) /\ o \o got \in Seq(Chunks)
  BY <1>2, <1>3, ConcatProperties
<1>6. p \o r = got \o (left \o r)
  BY <1>2, <1>3, <1>4, ChunksAssociate
<1>7. o \o (got \o (left \o r)) = (o \o got) \o (left \o r)
  BY <1>2, <1>5, ChunksAssociate
<1> QED BY <1>2, <1>3, <1>6, <1>7 DEF got, left

\* Saying a chunk moves it into the pipe.
LEMMA SayConserves ==
  \A p \in Seq(Chunks) : \A o \in Seq(Chunks) : \A r \in Seq(Chunks) \ {<<>>} :
      /\ Append(p, Head(r)) \in Seq(Chunks) /\ Tail(r) \in Seq(Chunks)
      /\ o \o (p \o r) = o \o (Append(p, Head(r)) \o Tail(r))
<1> SUFFICES ASSUME NEW p \in Seq(Chunks), NEW o \in Seq(Chunks), NEW r \in Seq(Chunks),
                    r # <<>>
             PROVE  /\ Append(p, Head(r)) \in Seq(Chunks) /\ Tail(r) \in Seq(Chunks)
                    /\ o \o (p \o r) = o \o (Append(p, Head(r)) \o Tail(r))
  OBVIOUS
<1>1. Head(r) \in Chunks /\ Tail(r) \in Seq(Chunks) /\ Len(Tail(r)) = Len(r) - 1
      /\ \A i \in 1..Len(Tail(r)) : Tail(r)[i] = r[i + 1]
  BY HeadTailProperties
<1> DEFINE h == <<Head(r)>>
<1>2. h \in Seq(Chunks) /\ Len(h) = 1 /\ h[1] = Head(r)
  BY <1>1
<1>3. Append(p, Head(r)) = p \o h /\ Append(p, Head(r)) \in Seq(Chunks)
  BY <1>1, AppendIsConcat, AppendProperties
<1>4. h \o Tail(r) = r
  <2>1. Len(r) \in Nat /\ Len(r) # 0 /\ Head(r) = r[1]
    BY LenProperties, EmptySeq
  <2>2. /\ h \o Tail(r) \in Seq(Chunks)
        /\ Len(h \o Tail(r)) = Len(h) + Len(Tail(r))
        /\ \A i \in 1..(Len(h) + Len(Tail(r))) : (h \o Tail(r))[i] =
              IF i <= Len(h) THEN h[i] ELSE Tail(r)[i - Len(h)]
    BY <1>1, <1>2, ConcatProperties
  <2>3. Len(h \o Tail(r)) = Len(r)
    BY <1>1, <1>2, <2>1, <2>2
  <2>4. ASSUME NEW i \in 1..Len(r)
        PROVE  (h \o Tail(r))[i] = r[i]
    BY <1>1, <1>2, <2>1, <2>2
  <2> QED BY <2>2, <2>3, <2>4, SeqEqual
<1> HIDE DEF h
<1>5. (p \o h) \o Tail(r) = p \o (h \o Tail(r))
  BY <1>1, <1>2, ChunksAssociate
<1> QED BY <1>1, <1>3, <1>4, <1>5

\* Nothing runs before the run begins.
LEMMA StreamInitially == Init => StreamInv
  BY EmptySeq DEF Init, StreamInit, NoChild, StreamInv, StreamTypes, Conserved

\* The loop, and the child, conserve what is said.
LEMMA StreamStepKeeps ==
  ASSUME StreamInv, StreamStep \/ ChildStep, pc = "body", UNCHANGED <<lonVars, waitVars>>
  PROVE  StreamInv'
<1>1. CASE LetGo
  BY <1>1 DEF StreamInv, StreamTypes, Conserved, LetGo, lonVars, At, Unrunnable, Restores
<1>2. CASE Read
  <2>1. PICK n \in 1..Len(pipe) : /\ out' = out \o SubSeq(pipe, 1, n)
                                  /\ pipe' = SubSeq(pipe, n + 1, Len(pipe))
    BY <1>2 DEF Read
  <2>2. UNCHANGED <<child, lonHolds, reader, said>> /\ reader = "reading"
    BY <1>2 DEF Read
  <2>3. pipe \in Seq(Chunks) /\ out \in Seq(Chunks) /\ child.says \in Seq(Chunks)
    BY DEF StreamInv, StreamTypes
  <2>4. /\ SubSeq(pipe, 1, n) \in Seq(Chunks) /\ pipe' \in Seq(Chunks)
        /\ out \o (pipe \o child.says) = out' \o (pipe' \o child.says)
    BY <2>1, <2>3, ReadConserves
  <2>5. out' \in Seq(Chunks)
    BY <2>1, <2>3, <2>4, ConcatProperties
  <2> QED BY <2>2, <2>4, <2>5
          DEF StreamInv, StreamTypes, Conserved, lonVars, At, Unrunnable, Restores
<1>3. CASE Eof
  BY <1>3 DEF StreamInv, StreamTypes, Conserved, Eof, lonVars, At, Unrunnable, Restores
<1>4. CASE ChildSays
  <2>1. /\ child.holds /\ child.says # <<>> /\ pipe' = Append(pipe, Head(child.says))
        /\ child' = [child EXCEPT !.says = Tail(child.says)]
        /\ UNCHANGED <<lonHolds, reader, said, out>>
    BY <1>4 DEF ChildSays
  <2>2. pipe \in Seq(Chunks) /\ out \in Seq(Chunks) /\ child.says \in Seq(Chunks)
    BY DEF StreamInv, StreamTypes
  <2>3. /\ pipe' \in Seq(Chunks) /\ Tail(child.says) \in Seq(Chunks)
        /\ out \o (pipe \o child.says) = out \o (pipe' \o Tail(child.says))
    <3>1. PICK r \in Seq(Chunks) \ {<<>>} : r = child.says
      BY <2>1, <2>2
    <3>3. /\ Append(pipe, Head(r)) \in Seq(Chunks) /\ Tail(r) \in Seq(Chunks)
          /\ out \o (pipe \o r) = out \o (Append(pipe, Head(r)) \o Tail(r))
      BY <2>2, SayConserves, Zenon
    <3> QED BY <2>1, <3>1, <3>3
  <2>4. child' = [st |-> child.st, says |-> Tail(child.says), holds |-> child.holds, rc |-> child.rc]
    BY <2>1 DEF StreamInv, StreamTypes
  <2> QED BY <2>1, <2>3, <2>4
          DEF StreamInv, StreamTypes, Conserved, lonVars, At, Unrunnable, Restores
<1>5. CASE ChildCloses
  <2>1. child' = [st |-> child.st, says |-> child.says, holds |-> FALSE, rc |-> child.rc]
    BY <1>5 DEF ChildCloses, StreamInv, StreamTypes
  <2> QED BY <1>5, <2>1
          DEF ChildCloses, StreamInv, StreamTypes, Conserved, lonVars, At, Unrunnable, Restores
<1>6. CASE ChildExits
  <2>1. child' = [st |-> "exited", says |-> child.says, holds |-> child.holds, rc |-> child.rc]
    BY <1>6 DEF ChildExits, StreamInv, StreamTypes
  <2> QED BY <1>6, <2>1
          DEF ChildExits, StreamInv, StreamTypes, Conserved, lonVars, At, Unrunnable, Restores
<1> QED BY <1>1, <1>2, <1>3, <1>4, <1>5, <1>6 DEF StreamStep, ChildStep

\* A run that has broken off takes no more steps of its own, and breaking off ends it.
LEMMA EndsOnce ==
  ASSUME broke => pc = "end", LonStep
  PROVE  ~broke /\ (broke' => pc' = "end")
<1>1. Entry => ~broke /\ (broke' => pc' = "end")
  <2>1. DryRun => ~broke /\ (broke' => pc' = "end")
    BY DEF DryRun, Fresh, Raise, HandleError, Ends, Break
  <2>2. RefuseFollow \/ Decline => ~broke /\ (broke' => pc' = "end")
    BY DEF RefuseFollow, Decline, Begins, Fresh, Refused, Raise, HandleError, Ends
  <2>3. Begin \/ Agree => ~broke /\ (broke' => pc' = "end")
    BY DEF Begin, Agree, Begins, Fresh, Starts
  <2> QED BY <2>1, <2>2, <2>3 DEF Entry
<1>2. Finish \/ NoCli \/ NoWait \/ ComposeStreams \/ Streams \/ BeginsWait \/ Waits \/ Upsert
      => ~broke /\ (broke' => pc' = "end")
  <2>1. Finish => ~broke /\ (broke' => pc' = "end")
    BY DEF Finish, Ends
  <2>a. NoCli => ~broke /\ (broke' => pc' = "end")
    BY DEF NoCli, Asking, At, Raise, HandleError, Ends
  <2>b. NoWait => ~broke /\ (broke' => pc' = "end")
    BY DEF NoWait, At, Goes
  <2>2. ComposeStreams \/ Upsert => ~broke /\ (broke' => pc' = "end")
    BY DEF ComposeStreams, Upsert, Quiet, At, Goes
  <2>3. Streams \/ BeginsWait \/ Waits => ~broke /\ (broke' => pc' = "end")
    BY DEF Streams, BeginsWait, Waits, At, lonVars
  <2> QED BY <2>1, <2>a, <2>b, <2>2, <2>3
<1>3. Capture \/ ComposeReturns \/ WaitReturns \/ Lookup \/ Adopt \/ Image
      => ~broke /\ (broke' => pc' = "end")
  BY DEF Capture, Asking, ComposeReturns, WaitReturns, Lookup, Adopt, Image, Quiet, At, Raise,
         HandleError, Ends, Goes, Break, Refused
<1>4. Files \/ PlanInit \/ Prerequisites \/ Report \/ Type \/ Browser
      => ~broke /\ (broke' => pc' = "end")
  <2>1. Files \/ PlanInit \/ Prerequisites => ~broke /\ (broke' => pc' = "end")
    BY DEF Files, Touches, FailsAmong, PlanInit, Prerequisites, Quiet, At, Raise, HandleError, Ends, Goes
  <2>2. Report => ~broke /\ (broke' => pc' = "end")
    BY DEF Report, Quiet, At, Raise, HandleError, Ends
  <2>3. Type => ~broke /\ (broke' => pc' = "end")
    <3>1. Goes({}) \/ Raise("usage") => broke' = broke
      BY DEF Raise, HandleError, Ends, Goes
    <3> QED BY <3>1 DEF Type, Quiet, At
  <2>4. Browser => ~broke /\ (broke' => pc' = "end")
    BY DEF Browser, Quiet, At, Goes
  <2> QED BY <2>1, <2>2, <2>3, <2>4
<1>5. KnownInstance \/ Archive \/ PutBack \/ Unlock \/ Alive \/ Rewrap \/ Wipe
      => ~broke /\ (broke' => pc' = "end")
  BY DEF KnownInstance, Archive, PutBack, Unlock, Alive, Rewrap, Wipe, TouchesWhere,
         Touches, FailsAmong, Quiet, At, Raise, HandleError, Ends, Goes
<1> QED BY <1>1, <1>2, <1>3, <1>4, <1>5 DEF LonStep

\* While docker's output is read, no other step of the verb is taken.
LEMMA StreamsAlone ==
  ASSUME At("compose"), ~Unrunnable
  PROVE  ~OwnSteps /\ ~WaitReturns
<1>1. ~Entry
  BY DEF At, Entry, DryRun, RefuseFollow, Begin, Agree, Decline, Begins, Fresh
<1>2. ~Finish /\ ~NoCli /\ ~Capture /\ ~NoWait /\ ~WaitReturns
  BY DEF At, Finish, NoCli, Capture, NoWait, WaitReturns
<1>3. ~(Lookup \/ Adopt \/ Image \/ Files \/ Upsert \/ PlanInit \/ Prerequisites \/ Report
        \/ Type \/ Browser)
  BY DEF At, Quiet, Lookup, Adopt, Image, Files, Upsert, PlanInit, Prerequisites, Report,
         Type, Browser
<1>4. ~(KnownInstance \/ Archive \/ PutBack \/ Unlock \/ Alive \/ Rewrap \/ Wipe)
  BY DEF At, Quiet, KnownInstance, Archive, PutBack, Unlock, Alive, Rewrap, Wipe
<1> QED BY <1>1, <1>2, <1>3, <1>4 DEF OwnSteps

\* What docker says is made of chunks.
LEMMA SaysChunks == \A binds : \A answer \in Says(binds) : answer.text \in Seq(Chunks)
<1>1. /\ <<"dae", "mon">> \in Seq(Chunks) /\ <<"noise">> \in Seq(Chunks)
      /\ <<"noise", "tak", "en">> \in Seq(Chunks) /\ <<"noise", "tak", "noise">> \in Seq(Chunks)
      /\ <<"noise", "noise">> \in Seq(Chunks)
  BY DEF Chunks
<1>2. ASSUME NEW binds, NEW answer \in Says(binds)
      PROVE  \E t \in {<<"dae", "mon">>, <<"noise">>, <<"noise", "tak", "en">>,
                       <<"noise", "tak", "noise">>, <<"noise", "noise">>} :
                \E n \in {0, 1} : answer = [text |-> t, rc |-> n]
  BY DEF Says
<1> SUFFICES ASSUME NEW binds, NEW answer \in Says(binds)
             PROVE  answer.text \in Seq(Chunks)
  OBVIOUS
<1>3. PICK t \in {<<"dae", "mon">>, <<"noise">>, <<"noise", "tak", "en">>,
                  <<"noise", "tak", "noise">>, <<"noise", "noise">>}, n \in {0, 1} :
         answer = [text |-> t, rc |-> n]
  BY <1>2
<1>4. answer.text = t
  BY <1>3
<1> QED BY <1>1, <1>3, <1>4

\* Every step of a run conserves what docker says.
LEMMA StreamKept == StreamInv /\ [Next]_vars => StreamInv'
<1> SUFFICES ASSUME StreamInv, [Next]_vars
             PROVE  StreamInv'
  OBVIOUS
<1>1. CASE OwnSteps \/ WaitReturns
  <2>1. UNCHANGED streamVars
    BY <1>1, OwnStepsIdle DEF Idle, WaitReturns
  <2>2. ~broke /\ (broke' => pc' = "end")
    BY <1>1, EndsOnce DEF StreamInv, OwnSteps, LonStep
  <2>3. reader = "off"
    BY <1>1, <2>2, StreamsAlone DEF StreamInv
  <2> QED BY <2>1, <2>2, <2>3 DEF StreamInv, StreamTypes, Conserved, streamVars
<1>2. CASE ComposeStreams
  <2>1. PICK answer \in Says(verb \in {"init", "up", "start", "restart"}) :
           Launch(answer.text, answer.rc)
    BY <1>2 DEF ComposeStreams
  <2>2. answer.text \in Seq(Chunks)
    BY <2>1, SaysChunks
  <2>3. PICK t \in Seq(Chunks) : t = answer.text
    BY <2>2
  <2>4. /\ child' = [st |-> "running", says |-> t, holds |-> TRUE, rc |-> answer.rc]
        /\ reader' = "opened" /\ said' = t /\ out' = <<>> /\ pipe' = <<>>
    BY <2>1, <2>3 DEF Launch
  <2>5. <<>> \in Seq(Chunks) /\ t = <<>> \o (<<>> \o t)
    BY ConcatEmptySeq, EmptySeq
  <2>6. StreamTypes'
    BY <2>4, <2>5 DEF StreamTypes
  <2>7. Conserved'
    BY <2>4, <2>5 DEF Conserved
  <2>8. (At("compose") /\ ~Unrunnable)' /\ broke' = broke /\ pc' = pc
    BY <1>2 DEF ComposeStreams, At, Unrunnable, Restores
  <2> QED BY <2>4, <2>6, <2>7, <2>8 DEF StreamInv
<1>3. CASE Streams \/ Docker
  BY <1>3, StreamStepKeeps DEF Streams, Docker
<1>4. CASE ComposeReturns
  <2>1. /\ reader = "waiting" /\ child.st = "exited" /\ reader' = "off"
        /\ UNCHANGED <<child, pipe, lonHolds, said, out>>
    BY <1>4 DEF ComposeReturns, Reaped
  <2>2. ~broke /\ (broke' => pc' = "end")
    BY <1>4, EndsOnce DEF StreamInv, LonStep
  <2>3. pipe = <<>> /\ child.says = <<>> /\ ~child.holds /\ said = out \o (pipe \o child.says)
    BY <2>1 DEF StreamInv, Conserved
  <2>4. out = said
    <3>1. out \in Seq(Chunks) /\ <<>> \in Seq(Chunks)
      BY EmptySeq DEF StreamInv, StreamTypes
    <3> QED BY <2>3, <3>1, ConcatEmptySeq
  <2> QED BY <2>1, <2>2, <2>3, <2>4 DEF StreamInv, StreamTypes
<1>5. CASE WaitMoves \/ UNCHANGED vars
  <2>1. UNCHANGED <<lonVars, streamVars>>
    BY <1>5 DEF WaitMoves, BeginsWait, Waits, Clock, N8n, vars
  <2> QED BY <2>1 DEF lonVars, streamVars, StreamInv, StreamTypes, Conserved, At, Unrunnable, Restores
<1>6. CASE Interrupt
  <2>1. UNCHANGED streamVars /\ broke' /\ pc' = "end"
    BY <1>6 DEF Interrupt, Break, Idle
  <2> QED BY <2>1 DEF streamVars, StreamInv, StreamTypes, Conserved
<1> QED BY <1>1, <1>2, <1>3, <1>4, <1>5, <1>6, StepsOfNext DEF StreamSteps

\* run_streaming (runner.py:54-130): whatever the size of the pipe and the order in
\* which docker, its children and lon let go of it, a run that is not broken off has
\* waited for its docker command, and has collected all it said before judging it.
THEOREM NothingIsLeft == Spec => []NothingLeftRunning
<1>1. StreamInv => NothingLeftRunning
  BY DEF StreamInv, NothingLeftRunning, Ended, At
<1> QED BY <1>1, StreamInitially, StreamKept, PTL DEF Spec

-----------------------------------------------------------------------------
(* The document on stdout.                                                 *)

\* How a step may move on or end: without a document, broken off, with the document
\* of its exit code, or as the preview of `doctor --fix`.
FixNames == {"install-docker", "start-docker", "install-compose-plugin"}
GoesOn == pc' = "body" /\ docs' = docs /\ broke' = broke /\ exit' = exit
Succeeds == pc' = "end" /\ exit' = 0 /\ docs' = Emitted(TRUE, {}) /\ broke' = broke
Fails == pc' = "end" /\ exit' \in {1, 2, 10, 11, 13} /\ docs' = Emitted(FALSE, {}) /\ broke' = broke
Breaks == pc' = "end" /\ docs' = docs /\ broke' = TRUE /\ exit' = 1
Previews == /\ verb = "doctor" /\ options.dry
            /\ pc' = "end" /\ exit' = 0 /\ broke' = broke
            /\ \E ok \in BOOLEAN, fixes \in SUBSET FixNames : docs' = Emitted(ok, fixes)
Outcome == GoesOn \/ Succeeds \/ Fails \/ Breaks \/ Previews

\* An error ends the run with its document and an exit code that is not 0.
LEMMA ErrorsFail == \A cause \in DOMAIN ExitCode : HandleError(cause) => Fails
  BY DEF HandleError, Ends, ExitCode, Fails

\* So does a refusal, and a step that fails half way.
LEMMA RefusalsFail == Refused => Fails
  BY DEF Refused, ExitCode, Fails

LEMMA GoingOn == pc = "body" => \A kinds : Goes(kinds) => GoesOn
  BY DEF Goes, GoesOn

LEMMA TouchingEnds == pc = "body" => \A kinds : Touches(kinds) => GoesOn \/ Fails
<1>1. "failed" \in DOMAIN ExitCode
  BY DEF ExitCode
<1> QED BY <1>1, ErrorsFail, GoingOn DEF Touches, FailsAmong

LEMMA TouchingWhereEnds ==
  pc = "body" => \A works, before, kinds : TouchesWhere(works, before, kinds) => GoesOn \/ Fails
<1>1. DockerCause \in DOMAIN ExitCode
  BY DEF ExitCode, DockerCause
<1>2. \A before : pc = "body" /\ FailsAmong(before) => Fails
  <2>1. "failed" \in DOMAIN ExitCode
    BY DEF ExitCode
  <2> QED BY <2>1, ErrorsFail DEF FailsAmong
<1> QED BY <1>1, <1>2, ErrorsFail, TouchingEnds DEF TouchesWhere

\* Every step of a run has one of these outcomes.
LEMMA Outcomes == LonStep => Outcome /\ pc # "end" /\ UNCHANGED <<options, verb>>
<1> SUFFICES ASSUME LonStep PROVE Outcome /\ pc # "end" /\ UNCHANGED <<options, verb>>
  OBVIOUS
<1> DEFINE Causes == {"failed", "usage", "prerequisite", "port", "not_found"}
<1>0. Causes = DOMAIN ExitCode
  BY DEF ExitCode
<1>a. \A cause \in Causes : Raise(cause) => Fails /\ UNCHANGED <<options, verb>>
  BY <1>0, ErrorsFail DEF Raise, HandleError, Ends
<1>b. \A kinds : Goes(kinds) => UNCHANGED <<options, verb>>
  BY DEF Goes
<1>c. \A kinds : Touches(kinds) => UNCHANGED <<options, verb>>
  BY DEF Touches, FailsAmong, Goes, HandleError, Ends
<1>d. \A works, before, kinds : TouchesWhere(works, before, kinds) => UNCHANGED <<options, verb>>
  BY <1>c DEF TouchesWhere, Touches, HandleError, Ends
<1>e. \A text : Cause(text) \in Causes
  BY DEF Cause
<1>f. "failed" \in Causes /\ "usage" \in Causes /\ "prerequisite" \in Causes
      /\ "not_found" \in Causes /\ DockerCause \in Causes
  BY DEF DockerCause
<1> HIDE DEF Causes
<1> USE DEF Outcome
<1>1. CASE NoCli
  BY <1>1, <1>a, <1>f DEF NoCli, Asking, At
<1>2. CASE NoWait
  BY <1>2, <1>b, GoingOn DEF NoWait, At
<1>3. CASE Lookup
  BY <1>3, <1>a, <1>b, <1>f, GoingOn DEF Lookup, Quiet, At
<1>4. CASE Adopt
  BY <1>4, <1>a, <1>b, <1>f, GoingOn DEF Adopt, Quiet, At
<1>5. CASE Files
  BY <1>5, <1>c, TouchingEnds DEF Files, Quiet, At
<1>6. CASE Upsert
  BY <1>6, <1>b, GoingOn DEF Upsert, Quiet, At
<1>7. CASE PlanInit
  BY <1>7, <1>a, <1>b, <1>f, GoingOn DEF PlanInit, Quiet, At
<1>8. CASE Prerequisites
  BY <1>8, <1>a, <1>b, <1>f, GoingOn DEF Prerequisites, Quiet, At
<1>9. CASE Type
  BY <1>9, <1>a, <1>b, <1>f, GoingOn DEF Type, Quiet, At
<1>10. CASE Browser
  BY <1>10, <1>b, GoingOn DEF Browser, Quiet, At
<1>11. CASE KnownInstance
  BY <1>11, <1>a, <1>b, <1>f, GoingOn DEF KnownInstance, Quiet, At
<1>12. CASE Archive
  BY <1>12, <1>d, TouchingWhereEnds DEF Archive, Quiet, At
<1>13. CASE PutBack
  BY <1>13, <1>a, <1>d, <1>f, TouchingWhereEnds DEF PutBack, Quiet, At
<1>14. CASE Unlock
  BY <1>14, <1>a, <1>b, <1>f, GoingOn DEF Unlock, Quiet, At
<1>15. CASE Alive
  BY <1>15, <1>a, <1>b, <1>f, GoingOn DEF Alive, Quiet, At
<1>16. CASE Rewrap
  BY <1>16, <1>c, TouchingEnds DEF Rewrap, Quiet, At
<1>17. CASE Wipe
  BY <1>17, <1>b, <1>d, GoingOn, TouchingWhereEnds DEF Wipe, Quiet, At
<1>18. CASE Capture
  BY <1>18, <1>a, <1>b, <1>e, <1>f, GoingOn DEF Capture, Asking, At
<1>19. CASE ComposeReturns
  BY <1>19, <1>a, <1>b, <1>e, GoingOn DEF ComposeReturns, At
<1>20. CASE ComposeStreams
  BY <1>20 DEF ComposeStreams, At, GoesOn
<1>21. CASE Streams
  BY <1>21 DEF Streams, lonVars, GoesOn
<1>22. CASE BeginsWait
  BY <1>22 DEF BeginsWait, At, lonVars, GoesOn
<1>23. CASE Waits
  BY <1>23 DEF Waits, lonVars, GoesOn
<1>24. CASE WaitReturns
  BY <1>24, <1>a, <1>b, <1>f, GoingOn DEF WaitReturns, At, Break, Breaks
<1>25. CASE Image
  BY <1>25, <1>b, GoingOn, RefusalsFail DEF Image, Quiet, At, Refused, GoesOn
<1>26. CASE Finish
  BY <1>26 DEF Finish, Ends, Succeeds
<1>27. CASE RefuseFollow
  BY <1>27, <1>a, <1>f DEF RefuseFollow, Begins, Fresh
<1>28. CASE Decline
  BY <1>28, RefusalsFail DEF Decline, Begins, Fresh, Refused
<1>29. CASE Begin
  BY <1>29 DEF Begin, Begins, Fresh, Starts, GoesOn
<1>30. CASE Agree
  BY <1>30 DEF Agree, Begins, Fresh, Starts, GoesOn
<1>31. CASE DryRun
  <2>1. pc = "begin"
    BY <1>31 DEF DryRun, Fresh
  <2>2. Break \/ Raise("usage") \/ Ends(TRUE, {}, 0)
    BY <1>31 DEF DryRun
  <2>3. Break => Breaks /\ UNCHANGED <<options, verb>>
    BY DEF Break, Breaks
  <2>4. Ends(TRUE, {}, 0) => Succeeds /\ UNCHANGED <<options, verb>>
    BY DEF Ends, Succeeds
  <2> QED BY <2>1, <2>2, <2>3, <2>4, <1>a, <1>f
<1>32. CASE Report
  <2>1. pc = "body" /\ verb = "doctor"
    BY <1>32 DEF Report, Quiet, At
  <2> DEFINE failed == FailedChecks(TRUE)
  <2>2. CASE ~options.flag
    <3>1. Ends(failed = {}, {}, ReportCode(failed))
      BY <1>32, <2>2 DEF Report
    <3>2. UNCHANGED <<options, verb>>
      BY <3>1 DEF Ends
    <3>3. CASE failed = {}
      <4>1. ReportCode(failed) = 0
        BY <3>3 DEF ReportCode
      <4>2. Ends(TRUE, {}, 0)
        BY <3>1, <3>3, <4>1
      <4> QED BY <2>1, <3>2, <4>2 DEF Ends, Succeeds
    <3>4. CASE failed # {}
      <4>1. PICK code \in {10, 11} : code = ReportCode(failed)
        <5>1. ExitCode["port"] = 11 /\ ExitCode["prerequisite"] = 10
          BY DEF ExitCode
        <5>2. ReportCode(failed) = ExitCode["port"] \/ ReportCode(failed) = ExitCode["prerequisite"]
          BY <3>4 DEF ReportCode
        <5> QED BY <5>1, <5>2
      <4>2. Ends(FALSE, {}, code)
        BY <3>1, <3>4, <4>1
      <4>3. code # 0
        <5> HIDE DEF failed
        <5> QED OBVIOUS
      <4>4. exit' = code /\ pc' = "end" /\ docs' = Emitted(FALSE, {}) /\ broke' = broke
        BY <4>2 DEF Ends
      <4>5. Fails
        BY <4>3, <4>4 DEF Fails
      <4> QED BY <2>1, <3>2, <4>5
    <3> QED BY <3>3, <3>4
  <2>3. CASE options.flag /\ ~options.dry
    BY <1>32, <2>1, <2>3, <1>a, <1>f DEF Report
  <2>4. CASE options.flag /\ options.dry
    <3>1. (failed = {}) \in BOOLEAN /\ Fixes(failed) \in SUBSET FixNames
      BY DEF Fixes, FixNames
    <3>2. Ends(failed = {}, Fixes(failed), 0)
      BY <1>32, <2>1, <2>4 DEF Report
    <3> QED BY <2>1, <2>4, <3>1, <3>2 DEF Ends, Previews
  <2> QED BY <2>2, <2>3, <2>4
<1> QED BY <1>1, <1>2, <1>3, <1>4, <1>5, <1>6, <1>7, <1>8, <1>9, <1>10, <1>11, <1>12, <1>13, <1>14, <1>15, <1>16, <1>17, <1>18, <1>19, <1>20, <1>21, <1>22, <1>23, <1>24, <1>25, <1>26, <1>27, <1>28, <1>29, <1>30, <1>31, <1>32 DEF LonStep, Entry

\* One document, of the run's own making, and only at its end.
DocInv ==
    /\ pc # "end" => docs = <<>> /\ ~broke
    /\ broke \/ ~options.json => docs = <<>>
    /\ pc = "end" /\ ~broke /\ options.json =>
          /\ docs # <<>> /\ Len(docs) = 1
          /\ (docs[1].ok <=> exit = 0) \/ (verb = "doctor" /\ options.dry /\ exit = 0)

\* One document is one element.
LEMMA EmittedOne ==
  ASSUME docs = <<>>, NEW ok, NEW fixes
  PROVE  /\ options.json => /\ Emitted(ok, fixes) = <<[ok |-> ok, fixes |-> fixes]>>
                            /\ Len(Emitted(ok, fixes)) = 1 /\ Emitted(ok, fixes)[1].ok = ok
         /\ ~options.json => Emitted(ok, fixes) = <<>>
  BY DEF Emitted

LEMMA DocKept == DocInv /\ [Next]_vars => DocInv'
<1> SUFFICES ASSUME DocInv, [Next]_vars PROVE DocInv'
  OBVIOUS
<1>1. CASE LonStep
  <2>1. Outcome /\ pc # "end" /\ UNCHANGED <<options, verb>> /\ docs = <<>> /\ ~broke
    BY <1>1, Outcomes DEF DocInv
  <2>2. CASE GoesOn
    BY <2>1, <2>2 DEF GoesOn, DocInv
  <2>3. CASE Breaks
    BY <2>1, <2>3 DEF Breaks, DocInv
  <2>4. CASE Succeeds
    <3>1. docs' = Emitted(TRUE, {}) /\ pc' = "end" /\ ~broke'
          /\ exit' = 0 /\ UNCHANGED options
      BY <2>1, <2>4 DEF Succeeds
    <3>2. CASE options.json
      <4>1. docs' = <<[ok |-> TRUE, fixes |-> {}]>>
        BY <2>1, <3>1, <3>2, EmittedOne
      <4>2. Len(docs') = 1 /\ docs'[1] = [ok |-> TRUE, fixes |-> {}] /\ docs' # <<>>
        BY <4>1
      <4>3. docs'[1].ok <=> TRUE
        BY <4>2
      <4> QED BY <3>1, <3>2, <4>2, <4>3 DEF DocInv
    <3>3. CASE ~options.json
      <4>1. docs' = <<>>
        BY <2>1, <3>1, <3>3, EmittedOne
      <4> QED BY <3>1, <3>3, <4>1 DEF DocInv
    <3> QED BY <3>2, <3>3
  <2>5. CASE Fails
    <3>1. docs' = Emitted(FALSE, {}) /\ pc' = "end" /\ ~broke'
          /\ exit' # 0 /\ UNCHANGED options
      BY <2>1, <2>5 DEF Fails
    <3>2. CASE options.json
      <4>1. docs' = <<[ok |-> FALSE, fixes |-> {}]>>
        BY <2>1, <3>1, <3>2, EmittedOne
      <4>2. Len(docs') = 1 /\ docs'[1] = [ok |-> FALSE, fixes |-> {}] /\ docs' # <<>>
        BY <4>1
      <4>3. docs'[1].ok <=> FALSE
        BY <4>2
      <4> QED BY <3>1, <3>2, <4>2, <4>3 DEF DocInv
    <3>3. CASE ~options.json
      <4>1. docs' = <<>>
        BY <2>1, <3>1, <3>3, EmittedOne
      <4> QED BY <3>1, <3>3, <4>1 DEF DocInv
    <3> QED BY <3>2, <3>3
  <2>6. CASE Previews
    BY <2>1, <2>6, EmittedOne DEF Previews, DocInv
  <2> QED BY <2>1, <2>2, <2>3, <2>4, <2>5, <2>6 DEF Outcome
<1>2. CASE Interrupt
  BY <1>2 DEF Interrupt, Break, DocInv
<1>3. CASE Docker \/ Clock \/ N8n \/ UNCHANGED vars
  BY <1>3 DEF Docker, Clock, N8n, vars, lonVars, DocInv
<1> QED BY <1>1, <1>2, <1>3 DEF Next

\* The contract of --json (README.md:155; app.py:97-126): a run that is not broken off
\* writes one document, at its end, that agrees with its exit code; others none.
THEOREM AlwaysOneDocument == Spec => []OneDocument
<1>1. Init => DocInv
  BY DEF Init, DocInv
<1>2. DocInv => OneDocument
  BY DEF DocInv, OneDocument, Ended
<1> QED BY <1>1, <1>2, DocKept, PTL DEF Spec
-----------------------------------------------------------------------------
(* The steps of the verbs, and their order.                                *)

StepsOf == [v \in Verbs |->
    CASE v = "init" -> {"plan", "prerequisites", "adopt", "image", "files", "upsert", "compose",
                        "wait"} \cup (IF options.flag THEN {"lookup", "browser"} ELSE {})
      [] v = "up" -> {"adopt", "image", "files", "upsert", "compose", "wait"}
      [] v \in {"down", "stop"} -> {"lookup", "compose"}
      [] v \in {"start", "restart"} -> {"lookup", "ps", "compose", "wait"}
      [] v \in {"status", "logs"} -> {"lookup", "ps"}
      [] v = "list" -> {"ps"}
      [] v = "open" -> {"lookup", "browser"}
      [] v = "doctor" -> {"report"}
      [] v = "backup" -> {"type", "registered", "archive", "wait"}
      [] v = "restore" -> {"type", "put_back", "wait"}
      [] v = "recovery_show" -> {"type", "unlock"}
      [] v \in {"recovery_rotate", "passphrase_change"} -> {"type", "unlock", "rewrap"}
      [] v = "passphrase_reset" -> {"type", "registered", "alive", "wait", "rewrap"}
      [] v = "dev_wipe" -> {"wipe"}]

\* Until one of these is done, `init` and `up` have not touched what is there.
Early == {"plan", "prerequisites", "adopt", "image"}

InOrder(body, S) ==
    /\ body \in Seq(S) /\ body # <<>> /\ body[1] # "files"
    /\ \A n \in 2..Len(body) : /\ body[n] \in Early => body[n - 1] \in Early
                               /\ body[n] = "files" => body[n - 1] = "image"

\* `init` is two steps, those of `up`, and with --open two more.
LEMMA InitBody ==
  Body["init"] =
      IF options.flag
      THEN <<"plan", "prerequisites", "adopt", "image", "files", "upsert", "compose", "wait",
             "lookup", "browser">>
      ELSE <<"plan", "prerequisites", "adopt", "image", "files", "upsert", "compose", "wait">>
<1> DEFINE S == {"plan", "prerequisites", "adopt", "image", "files", "upsert", "compose", "wait",
                 "lookup", "browser"}
           a == <<"plan", "prerequisites">>
           b == <<"adopt", "image", "files", "upsert", "compose", "wait">>
           c == <<"lookup", "browser">>
           ab == <<"plan", "prerequisites", "adopt", "image", "files", "upsert", "compose", "wait">>
           abc == <<"plan", "prerequisites", "adopt", "image", "files", "upsert", "compose", "wait",
                    "lookup", "browser">>
<1>1. a \in Seq(S) /\ b \in Seq(S) /\ c \in Seq(S) /\ ab \in Seq(S) /\ abc \in Seq(S)
  OBVIOUS
<1>2. Len(a) = 2 /\ Len(b) = 6 /\ Len(c) = 2 /\ Len(ab) = 8 /\ Len(abc) = 10
  OBVIOUS
<1>3. a \o b = ab
  <2>1. \A i \in 1..8 : (a \o b)[i] = IF i =< 2 THEN a[i] ELSE b[i - 2]
    BY <1>1, <1>2, ConcatProperties
  <2>2. \A i \in 1..8 : ab[i] = IF i =< 2 THEN a[i] ELSE b[i - 2]
    OBVIOUS
  <2>3. a \o b \in Seq(S) /\ Len(a \o b) = 8
    BY <1>1, <1>2, ConcatProperties
  <2> HIDE DEF a, b, ab, S
  <2>4. \A i \in 1..8 : (a \o b)[i] = ab[i]
    BY <2>1, <2>2
  <2> QED BY <1>1, <1>2, <2>3, <2>4, SeqEqual
<1>4. ab \o c = abc
  <2>1. \A i \in 1..10 : (ab \o c)[i] = IF i =< 8 THEN ab[i] ELSE c[i - 8]
    BY <1>1, <1>2, ConcatProperties
  <2>2. \A i \in 1..10 : abc[i] = IF i =< 8 THEN ab[i] ELSE c[i - 8]
    OBVIOUS
  <2>3. ab \o c \in Seq(S) /\ Len(ab \o c) = 10
    BY <1>1, <1>2, ConcatProperties
  <2> HIDE DEF a, b, c, abc, ab, S
  <2>4. \A i \in 1..10 : (ab \o c)[i] = abc[i]
    BY <2>1, <2>2
  <2> QED BY <1>1, <1>2, <2>3, <2>4, SeqEqual
<1>5. Body["init"] = (a \o b) \o (IF options.flag THEN c ELSE <<>>)
  BY DEF Body, UpSteps
<1>6. ab \o <<>> = ab
  <2> HIDE DEF ab, S
  <2> QED BY <1>1, ConcatEmptySeq
<1> QED BY <1>3, <1>4, <1>5, <1>6

\* The files are written after the question about the image, and what comes before
\* them comes first.
LEMMA Order ==
  ASSUME NEW v \in Verbs
  PROVE  InOrder(Body[v], StepsOf[v])
<1>0. v \in {"init", "up", "down", "stop", "start", "restart", "status", "list", "logs", "open",
            "doctor", "backup", "restore", "recovery_show", "recovery_rotate",
            "passphrase_change", "passphrase_reset", "dev_wipe"}
  BY DEF Verbs, Body
<1> USE DEF InOrder, Early
<1>1. CASE v = "init"
  <2>0. StepsOf[v] = {"plan", "prerequisites", "adopt", "image", "files", "upsert", "compose",
                      "wait"} \cup (IF options.flag THEN {"lookup", "browser"} ELSE {})
    BY <1>1 DEF StepsOf, Verbs, Body
  <2>1. CASE options.flag
    <3>1. Body[v] = <<"plan", "prerequisites", "adopt", "image", "files", "upsert", "compose",
                      "wait", "lookup", "browser">>
      BY <1>1, <2>1, InitBody
    <3>2. StepsOf[v] = {"plan", "prerequisites", "adopt", "image", "files", "upsert", "compose",
                        "wait", "lookup", "browser"}
      BY <2>0, <2>1
    <3> QED BY <3>1, <3>2
  <2>2. CASE ~options.flag
    <3>1. Body[v] = <<"plan", "prerequisites", "adopt", "image", "files", "upsert", "compose",
                      "wait">>
      BY <1>1, <2>2, InitBody
    <3>2. StepsOf[v] = {"plan", "prerequisites", "adopt", "image", "files", "upsert", "compose",
                        "wait"}
      BY <2>0, <2>2
    <3> QED BY <3>1, <3>2
  <2> QED BY <2>1, <2>2
<1>2. CASE v = "up"
  <2>1. Body[v] = <<"adopt", "image", "files", "upsert", "compose", "wait">>
    BY <1>2 DEF Body, UpSteps
  <2>2. StepsOf[v] = {"adopt", "image", "files", "upsert", "compose", "wait"}
    BY <1>2 DEF StepsOf, Verbs, Body
  <2> QED BY <2>1, <2>2
<1>3. CASE v \in {"down", "stop"}
  <2>1. Body[v] = <<"lookup", "compose">>
    BY <1>3 DEF Body, UpSteps
  <2>2. StepsOf[v] = {"lookup", "compose"}
    BY <1>3 DEF StepsOf, Verbs, Body
  <2> QED BY <2>1, <2>2
<1>4. CASE v \in {"start", "restart"}
  <2>1. Body[v] = <<"lookup", "ps", "compose", "wait">>
    BY <1>4 DEF Body, UpSteps
  <2>2. StepsOf[v] = {"lookup", "ps", "compose", "wait"}
    BY <1>4 DEF StepsOf, Verbs, Body
  <2> QED BY <2>1, <2>2
<1>5. CASE v \in {"status", "logs"}
  <2>1. Body[v] = <<"lookup", "ps">>
    BY <1>5 DEF Body, UpSteps
  <2>2. StepsOf[v] = {"lookup", "ps"}
    BY <1>5 DEF StepsOf, Verbs, Body
  <2> QED BY <2>1, <2>2
<1>6. CASE v = "list"
  <2>1. Body[v] = <<"ps">>
    BY <1>6 DEF Body, UpSteps
  <2>2. StepsOf[v] = {"ps"}
    BY <1>6 DEF StepsOf, Verbs, Body
  <2> QED BY <2>1, <2>2
<1>7. CASE v = "open"
  <2>1. Body[v] = <<"lookup", "browser">>
    BY <1>7 DEF Body, UpSteps
  <2>2. StepsOf[v] = {"lookup", "browser"}
    BY <1>7 DEF StepsOf, Verbs, Body
  <2> QED BY <2>1, <2>2
<1>8. CASE v = "doctor"
  <2>1. Body[v] = <<"report">>
    BY <1>8 DEF Body, UpSteps
  <2>2. StepsOf[v] = {"report"}
    BY <1>8 DEF StepsOf, Verbs, Body
  <2> QED BY <2>1, <2>2
<1>9. CASE v = "backup"
  <2>1. Body[v] = <<"type", "registered", "archive", "wait">>
    BY <1>9 DEF Body, UpSteps
  <2>2. StepsOf[v] = {"type", "registered", "archive", "wait"}
    BY <1>9 DEF StepsOf, Verbs, Body
  <2> QED BY <2>1, <2>2
<1>10. CASE v = "restore"
  <2>1. Body[v] = <<"type", "put_back", "wait">>
    BY <1>10 DEF Body, UpSteps
  <2>2. StepsOf[v] = {"type", "put_back", "wait"}
    BY <1>10 DEF StepsOf, Verbs, Body
  <2> QED BY <2>1, <2>2
<1>11. CASE v = "recovery_show"
  <2>1. Body[v] = <<"type", "unlock">>
    BY <1>11 DEF Body, UpSteps
  <2>2. StepsOf[v] = {"type", "unlock"}
    BY <1>11 DEF StepsOf, Verbs, Body
  <2> QED BY <2>1, <2>2
<1>12. CASE v \in {"recovery_rotate", "passphrase_change"}
  <2>1. Body[v] = <<"type", "unlock", "rewrap">>
    BY <1>12 DEF Body, UpSteps
  <2>2. StepsOf[v] = {"type", "unlock", "rewrap"}
    BY <1>12 DEF StepsOf, Verbs, Body
  <2> QED BY <2>1, <2>2
<1>13. CASE v = "passphrase_reset"
  <2>1. Body[v] = <<"type", "registered", "alive", "wait", "rewrap">>
    BY <1>13 DEF Body, UpSteps
  <2>2. StepsOf[v] = {"type", "registered", "alive", "wait", "rewrap"}
    BY <1>13 DEF StepsOf, Verbs, Body
  <2> QED BY <2>1, <2>2
<1>14. CASE v = "dev_wipe"
  <2>1. Body[v] = <<"wipe">>
    BY <1>14 DEF Body, UpSteps
  <2>2. StepsOf[v] = {"wipe"}
    BY <1>14 DEF StepsOf, Verbs, Body
  <2> QED BY <2>1, <2>2
<1> QED BY <1>0, <1>1, <1>2, <1>3, <1>4, <1>5, <1>6, <1>7, <1>8, <1>9, <1>10, <1>11, <1>12, <1>13, <1>14

\* The steps left are the last ones of the verb.
Left == \E n \in 0..Len(Body[verb]) : todo = SubSeq(Body[verb], n + 1, Len(Body[verb]))

\* The next step is one of the verb's, and the steps after it keep the order.
LEMMA NextLeft ==
  ASSUME verb \in Verbs, Left, todo # <<>>
  PROVE  /\ Head(todo) \in StepsOf[verb]
         /\ \E n \in 0..Len(Body[verb]) : Tail(todo) = SubSeq(Body[verb], n + 1, Len(Body[verb]))
         /\ Tail(todo) # <<>> =>
               /\ Head(Tail(todo)) \in Early => Head(todo) \in Early
               /\ Head(Tail(todo)) = "files" => Head(todo) = "image"
<1> DEFINE b == Body[verb]
           S == StepsOf[verb]
<1>0. InOrder(b, S)
  BY Order
<1> HIDE DEF b, S
<1>1. b \in Seq(S) /\ Len(b) \in Nat
  BY <1>0, LenProperties DEF InOrder
<1>2. PICK n \in 0..Len(b) : todo = SubSeq(b, n + 1, Len(b))
  BY DEF Left, b
<1>3. n < Len(b)
  <2> SUFFICES ASSUME n = Len(b) PROVE FALSE
    BY <1>1, <1>2
  <2> QED BY <1>1, <1>2, SubSeqEmpty
<1>4. n \in Nat /\ n + 1 \in 1..Len(b) /\ b[n + 1] \in S
  BY <1>1, <1>3, ElementOfSeq
<1>5. Head(todo) = b[n + 1] /\ Tail(todo) = SubSeq(b, n + 2, Len(b))
  <2>1. n + 1 \in 1..Len(b) /\ Len(b) \in (n + 1)..Len(b) /\ n + 1 + 1 = n + 2
    BY <1>1, <1>3, <1>4
  <2> QED BY <1>1, <1>2, <2>1, HeadTailOfSubSeq
<1>6. n + 1 \in 0..Len(b) /\ n + 2 = (n + 1) + 1
  BY <1>1, <1>3, <1>4
<1>7. ASSUME Tail(todo) # <<>>
      PROVE  Head(Tail(todo)) = b[n + 2] /\ n + 2 \in 2..Len(b)
  <2>1. n + 2 =< Len(b)
    <3> SUFFICES ASSUME n + 2 > Len(b) PROVE FALSE
      BY <1>1, <1>4
    <3> QED BY <1>1, <1>4, <1>5, <1>7, SubSeqEmpty
  <2>2. n + 2 \in 1..Len(b) /\ Len(b) \in (n + 2)..Len(b)
    BY <1>1, <1>4, <2>1
  <2> QED BY <1>1, <1>4, <1>5, <2>1, <2>2, HeadTailOfSubSeq
<1>8. n + 2 \in 2..Len(b) => /\ b[n + 2] \in Early => b[n + 1] \in Early
                             /\ b[n + 2] = "files" => b[n + 1] = "image"
  <2>1. (n + 2) - 1 = n + 1
    BY <1>4
  <2> QED BY <1>0, <2>1 DEF InOrder
<1>9. Tail(todo) # <<>> =>
          /\ Head(Tail(todo)) \in Early => Head(todo) \in Early
          /\ Head(Tail(todo)) = "files" => Head(todo) = "image"
  <2> SUFFICES ASSUME Tail(todo) # <<>>
               PROVE  /\ Head(Tail(todo)) \in Early => Head(todo) \in Early
                      /\ Head(Tail(todo)) = "files" => Head(todo) = "image"
    OBVIOUS
  <2>1. Head(todo) = b[n + 1]
    BY <1>5
  <2>2. Head(Tail(todo)) = b[n + 2] /\ n + 2 \in 2..Len(b)
    BY <1>7
  <2> QED BY <1>8, <2>1, <2>2
<1> QED BY <1>4, <1>5, <1>6, <1>9 DEF b, S

\* All of them are, when the run begins.
LEMMA AllLeft ==
  ASSUME verb \in Verbs
  PROVE  /\ \E n \in 0..Len(Body[verb]) : Body[verb] = SubSeq(Body[verb], n + 1, Len(Body[verb]))
         /\ \E n \in 0..Len(Body[verb]) : <<>> = SubSeq(Body[verb], n + 1, Len(Body[verb]))
         /\ Body[verb] # <<>> /\ Head(Body[verb]) # "files"
<1> DEFINE b == Body[verb]
           S == StepsOf[verb]
<1>0. InOrder(b, S)
  BY Order
<1> HIDE DEF b, S
<1>1. b \in Seq(S) /\ Len(b) \in Nat /\ b # <<>>
  BY <1>0, LenProperties DEF InOrder
<1>2. b = SubSeq(b, 0 + 1, Len(b))
  BY <1>1, SubSeqFull
<1>3. <<>> = SubSeq(b, Len(b) + 1, Len(b))
  BY <1>1, SubSeqEmpty
<1>4. Head(b) = b[1]
  OBVIOUS
<1> QED BY <1>0, <1>1, <1>2, <1>3, <1>4 DEF InOrder, b

-----------------------------------------------------------------------------
(* What the steps of a run touch, and where they lead.                     *)

\* Where a wipe may touch docker: all its commands work.
WipeWorks == PlainWorks /\ (HasFiles => Works)

\* What a step may touch.  Steps that want docker to run touch docker only if it does.
MayTouch(step) ==
    CASE step = "adopt" -> IF Registered THEN {} ELSE {"row"}
      [] step = "files" -> {"compose"} \cup (IF inst = "legacy" THEN {"image"} ELSE {})
                           \cup (IF HasFiles THEN {} ELSE {"env"})
      [] step \in {"upsert", "lookup"} -> {"row"}
      [] step = "compose" -> {"docker"}
      [] step = "browser" -> {"browser"}
      [] step = "archive" -> {"recovery"} \cup (IF Works THEN {"docker", "bundle", "row"} ELSE {})
      [] step = "put_back" ->
            (IF options.flag THEN {"recovery"} ELSE {}) \cup {"env", "compose"}
            \cup (IF PlainWorks THEN {"volume", "row"} ELSE {})
            \cup (IF Works THEN {"docker"} ELSE {})
            \cup (IF Works /\ options.flag THEN {"bundle"} ELSE {})
      [] step = "rewrap" -> {"recovery"}
      [] step = "wipe" ->
            {"volume", "compose", "env", "recovery", "row"}
            \cup (IF options.flag THEN {"image"} ELSE {})
            \cup (IF WipeWorks /\ inst \notin {"none", "unnamed"} THEN {"docker"} ELSE {})
      [] OTHER -> {}

Touched == \/ touched' = touched
           \/ todo # <<>> /\ touched' \subseteq touched \cup MayTouch(Head(todo))

\* The beginning: the run ends, or the verb begins.
NotEntered == /\ pc = "begin" /\ pc' = "end" /\ todo' = todo /\ touched' = touched
              /\ consent' = consent \/ (Asks /\ consent' = "no")
Entered == /\ pc = "begin" /\ pc' = "body" /\ todo' = Body[verb] /\ touched' = touched
           /\ ~(options.dry /\ verb \in Previewed)
           /\ consent' = IF Asks THEN "yes" ELSE "none"

\* The body: a step is done, or goes on, or ends the run.  Only the question about the
\* image is answered here.
Done == /\ pc = "body" /\ pc' = "body" /\ todo # <<>> /\ todo' = Tail(todo) /\ Touched
        /\ \/ consent' = consent /\ ~(Head(todo) = "image" /\ inst = "legacy")
           \/ Head(todo) = "image" /\ inst = "legacy" /\ consent' = "yes" /\ touched' = touched
GoingOnWith == pc = "body" /\ pc' = "body" /\ todo' = todo /\ Touched /\ consent' = consent
Stopped == pc = "body" /\ pc' = "end" /\ todo' = todo /\ Touched /\ consent' = consent
Denied == /\ pc = "body" /\ pc' = "end" /\ todo' = todo /\ touched' = touched /\ todo # <<>>
          /\ Head(todo) = "image" /\ inst = "legacy" /\ consent' = "no"
Effect == NotEntered \/ Entered \/ Done \/ GoingOnWith \/ Stopped \/ Denied

\* Steps that touch several things touch no others, however far they come.
LEMMA TouchingOnly ==
  ASSUME NEW S, NEW kinds \in Seq(S), Touches(kinds)
  PROVE  /\ touched' \subseteq touched \cup S /\ consent' = consent
         /\ UNCHANGED <<options, verb, inst, host>>
         /\ \/ pc' = pc /\ todo' = Tail(todo)
            \/ pc' = "end" /\ todo' = todo
<1>1. Len(kinds) \in Nat /\ \A n \in 0..Len(kinds) : Part(kinds, n) \subseteq S
  BY LenProperties, ElementOfSeq DEF Part
<1>2. \E n \in 0..Len(kinds) : touched' = touched \cup Part(kinds, n)
  BY <1>1 DEF Touches, FailsAmong, Goes
<1>3. CASE Goes(Part(kinds, Len(kinds)))
  BY <1>1, <1>3 DEF Goes
<1>4. CASE HandleError("failed")
  BY <1>1, <1>2, <1>4 DEF HandleError, Ends
<1> QED BY <1>3, <1>4 DEF Touches, FailsAmong

LEMMA TouchingWhereOnly ==
  ASSUME NEW works, NEW M, NEW T, NEW before \in Seq(M), NEW kinds \in Seq(T),
         T \subseteq M \/ ~works, TouchesWhere(works, before, kinds)
  PROVE  /\ touched' \subseteq touched \cup M /\ consent' = consent
         /\ UNCHANGED <<options, verb, inst, host>>
         /\ \/ pc' = pc /\ todo' = Tail(todo)
            \/ pc' = "end" /\ todo' = todo
<1>1. CASE works
  <2>1. kinds \in Seq(M)
    BY <1>1, SeqMonotonic
  <2>2. before \o kinds \in Seq(M)
    BY <2>1, ConcatProperties
  <2>3. Touches(before \o kinds)
    BY <1>1 DEF TouchesWhere
  <2> QED BY <2>2, <2>3, TouchingOnly
<1>2. CASE ~works
  <2>1. Len(before) \in Nat /\ Part(before, Len(before)) \subseteq M
    BY LenProperties, ElementOfSeq DEF Part
  <2>2. CASE FailsAmong(before)
    <3>1. Touches(before)
      BY <2>2 DEF Touches
    <3> QED BY <3>1, TouchingOnly
  <2>3. CASE HandleError(DockerCause) /\ touched' = touched \cup Part(before, Len(before))
    BY <1>2, <2>1, <2>3 DEF HandleError, Ends
  <2> QED BY <1>2, <2>2, <2>3 DEF TouchesWhere
<1> QED BY <1>1, <1>2

LEMMA CodeType == CodeIfNone \in Seq({"recovery"})
<1>1. <<>> \in Seq({"recovery"}) /\ <<"recovery">> \in Seq({"recovery"})
  OBVIOUS
<1> QED BY <1>1 DEF CodeIfNone

LEMMA Effects == LonStep => Effect /\ UNCHANGED <<options, verb, inst, host>>
<1> SUFFICES ASSUME LonStep PROVE Effect /\ UNCHANGED <<options, verb, inst, host>>
  OBVIOUS
<1> DEFINE Conclusion == Effect /\ UNCHANGED <<options, verb, inst, host>>
<1>a. ASSUME NEW cause, Raise(cause), pc = "body" \/ pc = "begin" PROVE Conclusion
  BY <1>a DEF Raise, HandleError, Ends, Effect, NotEntered, Stopped, Touched
<1>b. ASSUME NEW kinds, Goes(kinds), pc = "body", todo # <<>>, kinds \subseteq MayTouch(Head(todo)),
             ~(Head(todo) = "image" /\ inst = "legacy")
      PROVE  Conclusion
  BY <1>b DEF Goes, Effect, Done, Touched
<1>c. ASSUME NEW step, At(step), step # "image", UNCHANGED <<options, verb, inst, host>>,
             touched' \subseteq touched \cup MayTouch(step), consent' = consent,
             \/ pc' = pc /\ todo' = Tail(todo)
             \/ pc' = "end" /\ todo' = todo
      PROVE  Conclusion
  <2>1. pc = "body" /\ todo # <<>> /\ Head(todo) = step /\ Touched
    BY <1>c DEF At, Touched
  <2>2. CASE pc' = pc /\ todo' = Tail(todo)
    BY <1>c, <2>1, <2>2 DEF Effect, Done
  <2>3. CASE pc' = "end" /\ todo' = todo
    BY <1>c, <2>1, <2>3 DEF Effect, Stopped
  <2> QED BY <1>c, <2>2, <2>3
<1>1. CASE NoCli
  BY <1>1, <1>a DEF NoCli, Asking, At
<1>2. CASE Capture
  <2>1. At("ps") /\ pc = "body" /\ todo # <<>> /\ Head(todo) # "image"
    BY <1>2 DEF Capture, At
  <2>2. Goes({}) \/ \E cause : Raise(cause)
    BY <1>2 DEF Capture
  <2> QED BY <2>1, <2>2, <1>a, <1>b
<1>3. CASE ComposeReturns
  BY <1>3, <1>a, <1>b DEF ComposeReturns, At
<1>4. CASE ComposeStreams
  <2>1. MayTouch("compose") = {"docker"}
    BY DEF MayTouch
  <2> QED BY <1>4, <2>1 DEF ComposeStreams, At, Effect, GoingOnWith, Touched
<1>5. CASE Streams \/ BeginsWait \/ Waits
  BY <1>5 DEF Streams, BeginsWait, Waits, At, lonVars, Effect, GoingOnWith, Touched
<1>6. CASE NoWait
  BY <1>6, <1>b DEF NoWait, At
<1>7. CASE WaitReturns
  <2>1. CASE Break
    BY <1>7, <2>1 DEF WaitReturns, Break, At, Effect, Stopped, Touched
  <2> QED BY <1>7, <2>1, <1>a, <1>b DEF WaitReturns, At
<1>8. CASE Lookup
  <2>1. MayTouch("lookup") = {"row"}
    BY DEF MayTouch
  <2> QED BY <1>8, <2>1, <1>a, <1>b DEF Lookup, Quiet, At
<1>9. CASE Adopt
  <2>1. MayTouch("adopt") = IF Registered THEN {} ELSE {"row"}
    BY DEF MayTouch
  <2> QED BY <1>9, <2>1, <1>a, <1>b DEF Adopt, Quiet, At
<1>10. CASE Image
  <2>1. pc = "body" /\ todo # <<>> /\ Head(todo) = "image"
    BY <1>10 DEF Image, Quiet, At
  <2>2. CASE inst # "legacy"
    BY <1>10, <2>1, <2>2, <1>b DEF Image
  <2>3. CASE inst = "legacy"
    BY <1>10, <2>1, <2>3 DEF Image, Refused, Effect, Done, Denied, Touched
  <2> QED BY <2>2, <2>3
<1>11. CASE Files
  <2> DEFINE S == MayTouch("files")
             kinds == <<"compose">> \o (IF inst = "legacy" THEN <<"image">> ELSE <<>>)
                      \o (IF HasFiles THEN <<>> ELSE <<"env">>)
  <2>1. S = {"compose"} \cup (IF inst = "legacy" THEN {"image"} ELSE {})
            \cup (IF HasFiles THEN {} ELSE {"env"})
    BY DEF MayTouch
  <2>2. /\ <<"compose">> \in Seq(S)
        /\ (IF inst = "legacy" THEN <<"image">> ELSE <<>>) \in Seq(S)
        /\ (IF HasFiles THEN <<>> ELSE <<"env">>) \in Seq(S)
    BY <2>1
  <2>3. kinds \in Seq(S)
    <3> HIDE DEF S
    <3> QED BY <2>2, ConcatProperties
  <2>4. Touches(kinds) /\ At("files")
    BY <1>11 DEF Files, Quiet
  <2> HIDE DEF S, kinds
  <2>5. touched' \subseteq touched \cup S /\ consent' = consent
        /\ UNCHANGED <<options, verb, inst, host>>
        /\ (\/ pc' = pc /\ todo' = Tail(todo)
            \/ pc' = "end" /\ todo' = todo)
    BY <2>3, <2>4, TouchingOnly
  <2> QED BY <2>4, <2>5, <1>c DEF S
<1>12. CASE Upsert
  <2>1. MayTouch("upsert") = {"row"}
    BY DEF MayTouch
  <2> QED BY <1>12, <2>1, <1>b DEF Upsert, Quiet, At
<1>13. CASE PlanInit \/ Prerequisites \/ Type \/ KnownInstance \/ Unlock \/ Alive
  BY <1>13, <1>a, <1>b
     DEF PlanInit, Prerequisites, Type, KnownInstance, Unlock, Alive, Quiet, At
<1>14. CASE Browser
  <2>1. MayTouch("browser") = {"browser"}
    BY DEF MayTouch
  <2> QED BY <1>14, <2>1, <1>b DEF Browser, Quiet, At
<1>15. CASE Report
  <2>1. pc = "body"
    BY <1>15 DEF Report, Quiet, At
  <2>2. Raise("usage") \/ (touched' = touched /\ \E ok, fixes, code : Ends(ok, fixes, code))
    BY <1>15 DEF Report
  <2> QED BY <2>1, <2>2, <1>a DEF Ends, Effect, Stopped, Touched
<1>16. CASE Archive
  <2> DEFINE T == {"docker", "bundle", "row"}
  <2>1. PICK stops \in {<<>>, <<"docker">>} :
            TouchesWhere(Works, CodeIfNone, stops \o <<"bundle", "row">>)
    BY <1>16 DEF Archive
  <2>2. stops \in Seq(T) /\ <<"bundle", "row">> \in Seq(T) /\ CodeIfNone \in Seq({"recovery"})
    <3>1. <<>> \in Seq(T) /\ <<"docker">> \in Seq(T) /\ <<"bundle", "row">> \in Seq(T)
      OBVIOUS
    <3> HIDE DEF T
    <3> QED BY <2>1, <3>1, CodeType
  <2>3. stops \o <<"bundle", "row">> \in Seq(T)
    <3> HIDE DEF T
    <3> QED BY <2>2, ConcatProperties
  <2>4. MayTouch("archive") = {"recovery"} \cup (IF Works THEN T ELSE {})
    BY DEF MayTouch
  <2>5. At("archive")
    BY <1>16 DEF Archive, Quiet
  <2> HIDE DEF T
  <2>6. CodeIfNone \in Seq(MayTouch("archive")) /\ (T \subseteq MayTouch("archive") \/ ~Works)
    <3>1. {"recovery"} \subseteq MayTouch("archive")
      BY <2>4
    <3>2. CodeIfNone \in Seq(MayTouch("archive"))
      BY <2>2, <3>1, SeqMonotonic
    <3> QED BY <2>4, <3>2
  <2>7. touched' \subseteq touched \cup MayTouch("archive") /\ consent' = consent
        /\ UNCHANGED <<options, verb, inst, host>>
        /\ (\/ pc' = pc /\ todo' = Tail(todo)
            \/ pc' = "end" /\ todo' = todo)
    BY <2>1, <2>3, <2>6, TouchingWhereOnly
  <2> QED BY <1>c, <2>5, <2>7
<1>17. CASE PutBack
  <2>0. At("put_back") /\ pc = "body"
    BY <1>17 DEF PutBack, Quiet, At
  <2>1. CASE \E cause : Raise(cause)
    BY <2>0, <2>1, <1>a
  <2> DEFINE M == MayTouch("put_back")
  <2>m. M = (IF options.flag THEN {"recovery"} ELSE {}) \cup {"env", "compose"}
            \cup (IF PlainWorks THEN {"volume", "row"} ELSE {})
            \cup (IF Works THEN {"docker"} ELSE {})
            \cup (IF Works /\ options.flag THEN {"bundle"} ELSE {})
    BY DEF MayTouch
  <2>w. Works => PlainWorks
    BY DEF PlainWorks
  <2>t. ASSUME NEW T, NEW before \in Seq(M), NEW kinds \in Seq(T), T \subseteq M \/ ~Works,
               TouchesWhere(Works, before, kinds)
        PROVE  Conclusion
    <3>1. touched' \subseteq touched \cup M /\ consent' = consent
          /\ UNCHANGED <<options, verb, inst, host>>
          /\ (\/ pc' = pc /\ todo' = Tail(todo)
              \/ pc' = "end" /\ todo' = todo)
      <4> HIDE DEF M
      <4> QED BY <2>t, TouchingWhereOnly
    <3> QED BY <1>c, <2>0, <3>1
  <2> HIDE DEF M
  <2>2. CASE options.flag /\ TouchesWhere(Works, CodeIfNone,
                    <<"docker", "bundle", "row", "env", "compose", "volume">>)
    <3> DEFINE T == {"docker", "bundle", "row", "env", "compose", "volume"}
    <3>1. <<"docker", "bundle", "row", "env", "compose", "volume">> \in Seq(T)
      OBVIOUS
    <3>2. T \subseteq M \/ ~Works
      BY <2>2, <2>m, <2>w
    <3> HIDE DEF T
    <3>3. {"recovery"} \subseteq M
      BY <2>2, <2>m
    <3>4. CodeIfNone \in Seq(M)
      BY <3>3, CodeType, SeqMonotonic
    <3> QED BY <2>2, <2>t, <3>1, <3>2, <3>4
  <2>3. CASE TouchesWhere(Works, <<"env", "compose">>
                                 \o (IF PlainWorks THEN <<"volume", "row">> ELSE <<>>),
                          <<"docker">>)
    <3> DEFINE plain == IF PlainWorks THEN <<"volume", "row">> ELSE <<>>
    <3>1. {"env", "compose"} \subseteq M /\ (PlainWorks => {"volume", "row"} \subseteq M)
      BY <2>m
    <3>2. <<"env", "compose">> \in Seq(M) /\ (PlainWorks => <<"volume", "row">> \in Seq(M))
      BY <3>1
    <3>3. plain \in Seq(M)
      BY <3>2, EmptySeq
    <3>4. TouchesWhere(Works, <<"env", "compose">> \o plain, <<"docker">>)
      BY <2>3
    <3>5. <<"docker">> \in Seq({"docker"}) /\ ({"docker"} \subseteq M \/ ~Works)
      BY <2>m
    <3> HIDE DEF plain
    <3>6. <<"env", "compose">> \o plain \in Seq(M)
      BY <3>2, <3>3, ConcatProperties
    <3> QED BY <2>t, <3>4, <3>5, <3>6
  <2> QED BY <1>17, <2>1, <2>2, <2>3 DEF PutBack
<1>18. CASE Rewrap
  <2>1. MayTouch("rewrap") = {"recovery"}
    BY DEF MayTouch
  <2>2. Touches(<<"recovery">>) /\ At("rewrap") /\ <<"recovery">> \in Seq({"recovery"})
    BY <1>18 DEF Rewrap, Quiet
  <2> QED BY <1>c, <2>1, <2>2, TouchingOnly
<1>19. CASE Wipe
  <2>0. At("wipe") /\ pc = "body" /\ todo # <<>> /\ Head(todo) # "image"
    BY <1>19 DEF Wipe, Quiet, At
  <2> DEFINE M == MayTouch("wipe")
             images == IF options.flag THEN <<"image">> ELSE <<>>
             pair == IF HasFiles THEN <<"compose", "env">> ELSE <<>>
             code == IF inst = "coded" THEN <<"recovery">> ELSE <<>>
  <2>1. PICK registry \in {<<>>, <<"row">>} :
           IF inst \in {"none", "unnamed"}
           THEN TouchesWhere(options.flag => PlainWorks, <<>>, images \o registry)
           ELSE TouchesWhere(WipeWorks, <<>>,
                             <<"docker", "volume">> \o images \o (pair \o code \o registry))
    BY <1>19 DEF Wipe, WipeWorks
  <2>2. M = {"volume", "compose", "env", "recovery", "row"}
            \cup (IF options.flag THEN {"image"} ELSE {})
            \cup (IF WipeWorks /\ inst \notin {"none", "unnamed"} THEN {"docker"} ELSE {})
    BY DEF MayTouch
  <2> HIDE DEF M
  <2>3. /\ {"volume", "compose", "env", "recovery", "row"} \subseteq M
        /\ options.flag => "image" \in M
        /\ WipeWorks /\ inst \notin {"none", "unnamed"} => "docker" \in M
    BY <2>2
  <2>4. /\ <<>> \in Seq(M) /\ <<"row">> \in Seq(M) /\ <<"compose", "env">> \in Seq(M)
        /\ <<"recovery">> \in Seq(M) /\ (options.flag => <<"image">> \in Seq(M))
    BY <2>3
  <2>5. images \in Seq(M) /\ pair \in Seq(M) /\ code \in Seq(M) /\ registry \in Seq(M)
    BY <2>1, <2>4
  <2> HIDE DEF images, pair, code
  <2>7. ASSUME NEW works, NEW T, T \subseteq M \/ ~works, NEW kinds \in Seq(T),
               TouchesWhere(works, <<>>, kinds)
        PROVE  Conclusion
    <3>1. touched' \subseteq touched \cup M /\ consent' = consent
          /\ UNCHANGED <<options, verb, inst, host>>
          /\ (\/ pc' = pc /\ todo' = Tail(todo)
              \/ pc' = "end" /\ todo' = todo)
      BY <2>4, <2>7, TouchingWhereOnly
    <3>2. touched' \subseteq touched \cup MayTouch("wipe")
      BY <3>1 DEF M
    <3> QED BY <1>c, <2>0, <3>1, <3>2
  <2>8. CASE inst \in {"none", "unnamed"}
    <3>1. images \o registry \in Seq(M)
      BY <2>5, ConcatProperties
    <3>2. TouchesWhere(options.flag => PlainWorks, <<>>, images \o registry)
      BY <2>1, <2>8
    <3> QED BY <2>7, <3>1, <3>2
  <2>9. CASE inst \notin {"none", "unnamed"}
    <3> DEFINE T == M \cup {"docker"}
    <3>1. <<"docker", "volume">> \in Seq(T)
      BY <2>3
    <3>2. images \in Seq(T) /\ pair \in Seq(T) /\ code \in Seq(T) /\ registry \in Seq(T)
      BY <2>5, SeqMonotonic
    <3>3. T \subseteq M \/ ~WipeWorks
      BY <2>3, <2>9
    <3> HIDE DEF T
    <3>4. <<"docker", "volume">> \o images \o (pair \o code \o registry) \in Seq(T)
      BY <3>1, <3>2, ConcatProperties
    <3>5. TouchesWhere(WipeWorks, <<>>,
                       <<"docker", "volume">> \o images \o (pair \o code \o registry))
      BY <2>1, <2>9
    <3> QED BY <2>7, <3>3, <3>4, <3>5
  <2> QED BY <2>8, <2>9
<1>20. CASE Finish
  BY <1>20 DEF Finish, Ends, Effect, Stopped, Touched
<1>21. CASE DryRun
  <2>1. pc = "begin"
    BY <1>21 DEF DryRun, Fresh
  <2>2. Break \/ Raise("usage") \/ (Ends(TRUE, {}, 0) /\ UNCHANGED touched)
    BY <1>21 DEF DryRun
  <2>3. Break \/ (Ends(TRUE, {}, 0) /\ UNCHANGED touched) => Conclusion
    BY <2>1 DEF Break, Ends, Effect, NotEntered
  <2> QED BY <2>1, <2>2, <2>3, <1>a
<1>22. CASE RefuseFollow
  BY <1>22, <1>a DEF RefuseFollow, Begins, Fresh
<1>23. CASE Decline
  BY <1>23 DEF Decline, Begins, Fresh, Refused, Effect, NotEntered
<1>24. CASE Begin \/ Agree
  BY <1>24 DEF Begin, Agree, Begins, Fresh, Starts, Effect, Entered
<1> QED BY <1>1, <1>2, <1>3, <1>4, <1>5, <1>6, <1>7, <1>8, <1>9, <1>10, <1>11, <1>12, <1>13,
           <1>14, <1>15, <1>16, <1>17, <1>18, <1>19, <1>20, <1>21, <1>22, <1>23, <1>24
        DEF LonStep, Entry

-----------------------------------------------------------------------------
(* Types, consent and what was announced.                                  *)

DocType == [ok: BOOLEAN, fixes: SUBSET FixNames]

RunTypes ==
    /\ options \in [json: BOOLEAN, dry: BOOLEAN, yes: BOOLEAN, flag: BOOLEAN]
    /\ verb \in Verbs /\ inst \in Insts /\ host \in Hosts
    /\ pc \in {"begin", "body", "end"} /\ consent \in {"none", "yes", "no"}
    /\ touched \subseteq Kinds
    /\ Left
    /\ docs \in Seq(DocType)
    /\ exit \in {0, 1, 2, 10, 11, 13} /\ broke \in BOOLEAN

\* All a run of the verb may touch.
Announced ==
    IF verb \in Previewed
    THEN IF options.dry THEN {}
         ELSE Preview
              \cup (IF verb \in {"down", "stop", "start", "restart", "open"} THEN {"row"} ELSE {})
              \cup (IF verb = "init" THEN {"row", "compose"} ELSE {})
              \cup (IF verb \in {"init", "up"} /\ consent = "yes" THEN {"image"} ELSE {})
              \cup (IF verb = "restore" /\ options.flag THEN {"recovery"} ELSE {})
    ELSE IF verb \in {"status", "logs"} THEN {"row"} ELSE {}

\* Nothing is touched before the answer, nor by a dry run of a verb that has one.
Consented ==
    /\ pc = "begin" => touched = {} /\ consent = "none"
    /\ pc = "body" => ~(options.dry /\ verb \in Previewed) /\ (Asks => consent = "yes")
    /\ consent = "no" => pc = "end" /\ touched = {}
    /\ Asks /\ touched # {} => consent = "yes"

\* Of a registered instance nothing is touched before the question about its image.
AskedInTime ==
    pc = "body" /\ todo # <<>> =>
        /\ Head(todo) \in Early /\ Registered => touched = {}
        /\ Head(todo) = "files" /\ inst = "legacy" => consent = "yes"

MeantInv == Consented /\ AskedInTime /\ touched \subseteq Announced

RunInv == RunTypes /\ MeantInv

LEMMA RunInitially == Init => RunInv
<1> SUFFICES ASSUME Init PROVE RunInv
  OBVIOUS
<1>1. Left
  BY AllLeft DEF Init, Left
<1>2. docs \in Seq(DocType)
  BY DEF Init
<1> QED BY <1>1, <1>2 DEF Init, RunInv, RunTypes, MeantInv, Consented, AskedInTime

\* What a step touches was announced; a new image only after the question.
LEMMA TouchesAnnounced ==
  ASSUME RunInv, pc = "body", todo # <<>>
  PROVE  MayTouch(Head(todo)) \subseteq Announced
<1> DEFINE step == Head(todo)
<1>1. step \in StepsOf[verb] /\ verb \in Verbs
  BY NextLeft DEF RunInv, RunTypes
<1>2. ~(options.dry /\ verb \in Previewed)
      /\ (step = "files" /\ inst = "legacy" => consent = "yes")
  BY DEF RunInv, MeantInv, Consented, AskedInTime
<1>3. inst = "legacy" => HasFiles /\ Registered
  BY DEF HasFiles, Registered
<1> HIDE DEF step
<1>4. verb \in {"init", "up", "down", "stop", "start", "restart", "status", "list", "logs", "open",
                "doctor", "backup", "restore", "recovery_show", "recovery_rotate",
                "passphrase_change", "passphrase_reset", "dev_wipe"}
  BY <1>1 DEF Verbs, Body
<1> SUFFICES MayTouch(step) \subseteq Announced
  BY DEF step
<1> USE DEF MayTouch
<1>5. verb \in Previewed <=> verb \notin {"status", "list", "logs", "doctor"}
  BY <1>1 DEF Previewed
<1>6. CASE verb = "init"
  <2>1. step \in {"plan", "prerequisites", "adopt", "image", "files", "upsert", "compose", "wait"}
                 \cup (IF options.flag THEN {"lookup", "browser"} ELSE {})
    BY <1>1, <1>6 DEF StepsOf, Verbs, Body
  <2>2. Announced = {"docker"} \cup (IF HasFiles THEN {} ELSE {"compose", "env"})
                    \cup (IF Registered THEN {} ELSE {"row"})
                    \cup (IF options.flag THEN {"browser"} ELSE {})
                    \cup {"row", "compose"} \cup (IF consent = "yes" THEN {"image"} ELSE {})
    <3>1. Preview = {"docker"} \cup (IF HasFiles THEN {} ELSE {"compose", "env"})
                    \cup (IF Registered THEN {} ELSE {"row"})
                    \cup (IF options.flag THEN {"browser"} ELSE {})
      BY <1>6 DEF Preview, Material
    <3> QED BY <1>2, <1>5, <1>6, <3>1 DEF Announced
  <2> QED BY <1>2, <2>1, <2>2
<1>10. CASE verb = "up"
  <2>1. step \in {"adopt", "image", "files", "upsert", "compose", "wait"}
    BY <1>1, <1>10 DEF StepsOf, Verbs, Body
  <2>2. Announced = {"compose", "env", "row", "docker"}
                    \cup (IF consent = "yes" THEN {"image"} ELSE {})
    <3>1. Preview = {"compose", "env", "row", "docker"}
      BY <1>10 DEF Preview, Material
    <3> QED BY <1>2, <1>5, <1>10, <3>1 DEF Announced
  <2> QED BY <1>2, <2>1, <2>2
<1>7. CASE verb \in {"down", "stop", "start", "restart"}
  <2>1. step \in {"lookup", "ps", "compose", "wait"}
    BY <1>1, <1>7 DEF StepsOf, Verbs, Body
  <2>2. Announced = {"docker", "row"}
    <3>1. Preview = {"docker"}
      BY <1>7 DEF Preview, Material
    <3> QED BY <1>2, <1>5, <1>7, <3>1 DEF Announced
  <2> QED BY <2>1, <2>2
<1>11. CASE verb \in {"status", "list", "logs", "open", "doctor"}
  <2>1. /\ step \in {"lookup", "ps", "browser", "report"}
        /\ step = "browser" => verb = "open"
        /\ step = "lookup" => verb \in {"status", "logs", "open"}
    BY <1>1, <1>11 DEF StepsOf, Verbs, Body
  <2>2. /\ verb = "open" => Announced = {"browser", "row"}
        /\ verb \in {"status", "logs"} => Announced = {"row"}
    <3>1. verb = "open" => Preview = {"browser"}
      BY DEF Preview, Material
    <3> QED BY <1>2, <1>5, <1>11, <3>1 DEF Announced
  <2>3. MayTouch(step) = {} \/ step \in {"lookup", "browser"}
    BY <2>1
  <2>4. MayTouch("lookup") = {"row"} /\ MayTouch("browser") = {"browser"}
    OBVIOUS
  <2> HIDE DEF MayTouch
  <2> QED BY <2>1, <2>2, <2>3, <2>4
<1>8. CASE verb \in {"backup", "restore", "dev_wipe"}
  <2>1. /\ step \in {"type", "registered", "archive", "wait", "put_back", "wipe"}
        /\ step = "archive" => verb = "backup"
        /\ step = "put_back" => verb = "restore"
        /\ step = "wipe" => verb = "dev_wipe"
    BY <1>1, <1>8 DEF StepsOf, Verbs, Body
  <2> QED BY <1>2, <1>5, <1>8, <2>1 DEF Announced, Preview, Material
<1>9. CASE verb \in {"recovery_show", "recovery_rotate", "passphrase_change", "passphrase_reset"}
  <2>1. /\ step \in {"type", "registered", "alive", "wait", "unlock", "rewrap"}
        /\ step = "rewrap" => verb # "recovery_show"
    BY <1>1, <1>9 DEF StepsOf, Verbs, Body
  <2> QED BY <1>2, <1>5, <1>9, <2>1 DEF Announced, Preview, Material
<1> QED BY <1>4, <1>6, <1>7, <1>8, <1>9, <1>10, <1>11

\* The exit code and the document of a step.
LEMMA EndTypes ==
  ASSUME RunTypes, Outcome
  PROVE  /\ docs' \in Seq(DocType) /\ exit' \in {0, 1, 2, 10, 11, 13} /\ broke' \in BOOLEAN
         /\ pc' \in {"body", "end"}
<1>1. ASSUME NEW ok \in BOOLEAN, NEW fixes \in SUBSET FixNames PROVE Emitted(ok, fixes) \in Seq(DocType)
  <2>1. [ok |-> ok, fixes |-> fixes] \in DocType
    BY DEF DocType
  <2> QED BY <2>1, AppendProperties DEF Emitted, RunTypes
<1>2. Emitted(TRUE, {}) \in Seq(DocType) /\ Emitted(FALSE, {}) \in Seq(DocType)
  BY <1>1
<1> QED BY <1>1, <1>2 DEF Outcome, GoesOn, Succeeds, Fails, Breaks, Previews, RunTypes

LEMMA MayTouchKinds == \A step : MayTouch(step) \subseteq Kinds
  BY DEF MayTouch, Kinds

\* What a run is about does not change.
LEMMA SameRun ==
  ASSUME UNCHANGED <<options, verb, inst, host>>
  PROVE  /\ Body' = Body /\ (Asks' <=> Asks) /\ (Registered' <=> Registered)
         /\ Verbs' = Verbs /\ Previewed' = Previewed
         /\ consent' = consent => Announced' = Announced
         /\ consent' = "yes" => Announced \subseteq Announced'
<1>1. Body' = Body
  BY DEF Body
<1>2. (Asks' <=> Asks) /\ (Registered' <=> Registered) /\ (HasFiles' <=> HasFiles)
  BY DEF Asks, Registered, HasFiles
<1>3. Preview' = Preview
  BY <1>2 DEF Preview
<1>4. Verbs' = Verbs /\ Previewed' = Previewed
  BY <1>1 DEF Previewed, Verbs
<1>5. consent' = consent => Announced' = Announced
  BY <1>3, <1>4 DEF Announced
<1>6. consent' = "yes" => Announced \subseteq Announced'
  BY <1>3, <1>4 DEF Announced
<1> QED BY <1>1, <1>2, <1>4, <1>5, <1>6

LEMMA RunKept == RunInv /\ [Next]_vars => RunInv'
<1> SUFFICES ASSUME RunInv, [Next]_vars PROVE RunInv'
  OBVIOUS
<1>1. CASE LonStep
  <2>1. Effect /\ UNCHANGED <<options, verb, inst, host>> /\ Outcome /\ pc # "end"
    BY <1>1, Effects, Outcomes
  <2>2. /\ docs' \in Seq(DocType) /\ exit' \in {0, 1, 2, 10, 11, 13} /\ broke' \in BOOLEAN
        /\ pc' \in {"body", "end"}
    BY <2>1, EndTypes DEF RunInv
  <2>3. /\ Body' = Body /\ (Asks' <=> Asks) /\ (Registered' <=> Registered)
        /\ Verbs' = Verbs /\ Previewed' = Previewed
        /\ consent' = consent => Announced' = Announced
        /\ consent' = "yes" => Announced \subseteq Announced'
    BY <2>1, SameRun
  <2>4. Left'
    <3>0. verb \in Verbs /\ verb' = verb /\ Left
      BY <2>1 DEF RunInv, RunTypes
    <3>1. CASE todo' = todo
      BY <2>3, <3>0, <3>1 DEF Left
    <3>2. CASE todo' = Tail(todo) /\ todo # <<>>
      <4>1. \E n \in 0..Len(Body[verb]) : Tail(todo) = SubSeq(Body[verb], n + 1, Len(Body[verb]))
        BY <3>0, <3>2, NextLeft
      <4> QED BY <2>3, <3>0, <3>2, <4>1 DEF Left
    <3>3. CASE todo' = Body[verb]
      <4>1. \E n \in 0..Len(Body[verb]) : Body[verb] = SubSeq(Body[verb], n + 1, Len(Body[verb]))
        BY <3>0, AllLeft
      <4> QED BY <2>3, <3>0, <3>3, <4>1 DEF Left
    <3> QED BY <2>1, <3>1, <3>2, <3>3 DEF Effect, NotEntered, Entered, Done, GoingOnWith, Stopped, Denied
  <2>5. touched' \subseteq Kinds
    BY <2>1, MayTouchKinds
       DEF Effect, NotEntered, Entered, Done, GoingOnWith, Stopped, Denied, Touched, RunInv, RunTypes
  <2>6. consent' \in {"none", "yes", "no"}
    BY <2>1 DEF Effect, NotEntered, Entered, Done, GoingOnWith, Stopped, Denied, RunInv, RunTypes
  <2>7. RunTypes'
    BY <2>1, <2>2, <2>3, <2>4, <2>5, <2>6 DEF RunInv, RunTypes
  <2>8. Consented /\ AskedInTime /\ touched \subseteq Announced
    BY DEF RunInv, MeantInv
  <2>9. Consented' /\ AskedInTime' /\ (touched \subseteq Announced)'
    <3>1. CASE NotEntered
      <4>1. touched' = {} /\ pc' = "end"
        BY <2>8, <3>1 DEF NotEntered, Consented
      <4> QED BY <4>1 DEF Consented, AskedInTime
    <3>2. CASE Entered
      <4>1. todo' # <<>> /\ Head(todo') # "files"
        BY <3>2, AllLeft DEF Entered, RunInv, RunTypes
      <4>2. touched' = {} /\ pc' = "body" /\ consent' = (IF Asks THEN "yes" ELSE "none")
            /\ ~(options.dry /\ verb \in Previewed)
        BY <2>8, <3>2 DEF Entered, Consented
      <4>3. AskedInTime'
        BY <4>1, <4>2 DEF AskedInTime
      <4>4. Consented'
        BY <2>1, <2>3, <4>2 DEF Consented
      <4> QED BY <4>2, <4>3, <4>4
    <3>3. CASE Done
      <4>1. pc = "body" /\ todo # <<>> /\ pc' = "body" /\ todo' = Tail(todo)
        BY <3>3 DEF Done
      <4>2. touched' \subseteq Announced
        BY <2>8, <3>3, <4>1, TouchesAnnounced DEF Done, Touched
      <4>3. consent' = consent \/ consent' = "yes"
        BY <3>3 DEF Done
      <4>4. Announced \subseteq Announced'
        BY <2>3, <4>3
      <4>5. todo' # <<>> /\ Head(todo') \in Early /\ Registered => touched' = {}
        <5> SUFFICES ASSUME todo' # <<>>, Head(todo') \in Early, Registered PROVE touched' = {}
          OBVIOUS
        <5>1. Head(todo) \in Early
          BY <4>1, NextLeft DEF RunInv, RunTypes
        <5>2. MayTouch(Head(todo)) = {}
          BY <5>1 DEF MayTouch, Early
        <5>3. touched = {}
          BY <2>8, <4>1, <5>1 DEF AskedInTime
        <5> QED BY <3>3, <5>2, <5>3 DEF Done, Touched
      <4>6. todo' # <<>> /\ Head(todo') = "files" /\ inst = "legacy" => consent' = "yes"
        <5>1. todo' # <<>> /\ Head(todo') = "files" => Head(todo) = "image"
          BY <4>1, NextLeft DEF RunInv, RunTypes
        <5> QED BY <3>3, <5>1 DEF Done
      <4>7. AskedInTime'
        BY <2>1, <2>3, <4>5, <4>6 DEF AskedInTime
      <4>8. Consented'
        BY <2>1, <2>3, <2>8, <4>1, <4>3 DEF Consented
      <4> QED BY <4>2, <4>4, <4>7, <4>8
    <3>4. CASE GoingOnWith \/ Stopped
      <4>1. pc = "body" /\ todo' = todo /\ consent' = consent /\ Touched
        BY <3>4 DEF GoingOnWith, Stopped
      <4>2. touched' \subseteq Announced /\ Announced' = Announced
        BY <2>3, <2>8, <4>1, TouchesAnnounced DEF Touched
      <4>3. todo # <<>> /\ Head(todo) \in Early /\ Registered => touched' = {}
        <5> SUFFICES ASSUME todo # <<>>, Head(todo) \in Early, Registered PROVE touched' = {}
          OBVIOUS
        <5>1. MayTouch(Head(todo)) = {}
          BY DEF MayTouch, Early
        <5> QED BY <2>8, <4>1, <5>1 DEF Touched, AskedInTime
      <4>4. AskedInTime'
        BY <2>1, <2>3, <2>8, <4>1, <4>3 DEF AskedInTime
      <4>5. Consented'
        BY <2>1, <2>2, <2>3, <2>8, <4>1 DEF Consented
      <4> QED BY <4>2, <4>4, <4>5
    <3>5. CASE Denied
      <4>1. Head(todo) \in Early /\ Registered /\ pc = "body" /\ todo # <<>>
        BY <3>5 DEF Denied, Early, Registered
      <4>2. touched' = {} /\ pc' = "end"
        BY <2>8, <3>5, <4>1 DEF Denied, AskedInTime
      <4> QED BY <4>2 DEF Consented, AskedInTime
    <3> QED BY <2>1, <3>1, <3>2, <3>3, <3>4, <3>5 DEF Effect
  <2> QED BY <2>7, <2>9 DEF RunInv, MeantInv
<1>2. CASE Interrupt
  <2>1. /\ pc' = "end" /\ exit' = 1 /\ broke' = TRUE
        /\ UNCHANGED <<options, verb, inst, host, todo, consent, touched, docs>>
    BY <1>2 DEF Interrupt, Break
  <2>2. Body' = Body /\ (Asks' <=> Asks) /\ Announced' = Announced /\ Verbs' = Verbs
    BY <2>1, SameRun
  <2>3. Left' <=> Left
    BY <2>1, <2>2 DEF Left
  <2>4. RunTypes'
    BY <2>1, <2>2, <2>3 DEF RunInv, RunTypes
  <2> QED BY <2>1, <2>2, <2>4 DEF RunInv, MeantInv, Consented, AskedInTime
<1>3. CASE Docker \/ Clock \/ N8n \/ UNCHANGED vars
  <2>1. UNCHANGED <<options, verb, inst, host, pc, todo, consent, touched, docs, exit, broke>>
    BY <1>3 DEF Docker, Clock, N8n, vars, lonVars
  <2>2. Body' = Body /\ (Asks' <=> Asks) /\ (Registered' <=> Registered) /\ Announced' = Announced
        /\ Verbs' = Verbs /\ Previewed' = Previewed
    BY <2>1, SameRun
  <2>3. Left' <=> Left
    BY <2>1, <2>2 DEF Left
  <2>4. RunTypes'
    BY <2>1, <2>2, <2>3 DEF RunInv, RunTypes
  <2>5. (Consented' <=> Consented) /\ (AskedInTime' <=> AskedInTime)
    BY <2>1, <2>2 DEF Consented, AskedInTime
  <2> QED BY <2>1, <2>2, <2>4, <2>5 DEF RunInv, MeantInv
<1> QED BY <1>1, <1>2, <1>3 DEF Next

\* Dry runs and prompts (app.py:138-330, 443; backup.py, dev wipe and reset ask first):
\* whatever the verb, the instance and the host, a dry run changes nothing but the row
\* that `status` and `logs` adopt, and a run that asks touches nothing until it is told
\* yes.
THEOREM OnlyWhatIsMeant == Spec => []ChangesAreMeant
<1>1. RunInv => ChangesAreMeant
  BY DEF RunInv, MeantInv, Consented, Announced, ChangesAreMeant
<1> QED BY <1>1, RunInitially, RunKept, PTL DEF Spec

\* The previews (app.py:138-330, 443): all that a run of a verb with a preview touches
\* is in the preview, or in the short list of what previews leave out.
THEOREM PreviewsTell == Spec => []PreviewTells
<1>1. RunInv => PreviewTells
  BY DEF RunInv, MeantInv, Announced, PreviewTells
<1> QED BY <1>1, RunInitially, RunKept, PTL DEF Spec

-----------------------------------------------------------------------------
(* The types of every variable.                                            *)

\* The loop's own bounds: the pipe never holds more than it can, and what docker
\* returns is a return code.
PipeInv ==
    /\ child.rc \in {0, 1} /\ Len(pipe) =< PipeSize /\ lonHolds \in BOOLEAN
    /\ reader \in {"off", "opened", "reading", "waiting"}

LEMMA PipeInitially == Init => PipeInv
<1> SUFFICES ASSUME Init PROVE PipeInv
  OBVIOUS
<1>1. child = [st |-> "none", says |-> <<>>, holds |-> FALSE, rc |-> 0] /\ pipe = <<>>
      /\ lonHolds = FALSE /\ reader = "off"
  BY DEF Init, StreamInit, NoChild
<1>2. child.rc = 0
  BY <1>1
<1>3. Len(pipe) = 0
  BY <1>1
<1>4. Len(pipe) =< PipeSize
  BY <1>3, StreamingAssumption
<1>5. child.rc \in {0, 1} /\ lonHolds \in BOOLEAN /\ reader \in {"off", "opened", "reading", "waiting"}
  BY <1>1, <1>2
<1> QED BY <1>4, <1>5 DEF PipeInv

\* What docker returns with what it says.
LEMMA SaysCode == \A binds : \A answer \in Says(binds) : answer.rc \in {0, 1}
  BY DEF Says

LEMMA PipeKept == StreamInv /\ PipeInv /\ [Next]_vars => PipeInv'
<1> SUFFICES ASSUME StreamInv, PipeInv, [Next]_vars PROVE PipeInv'
  OBVIOUS
<1> USE StreamingAssumption
<1>0. pipe \in Seq(Chunks) /\ Len(pipe) \in Nat
      /\ child = [st |-> child.st, says |-> child.says, holds |-> child.holds, rc |-> child.rc]
  BY LenProperties DEF StreamInv, StreamTypes
<1>1. CASE ComposeStreams
  <2>1. PICK answer \in Says(verb \in {"init", "up", "start", "restart"}) :
           Launch(answer.text, answer.rc)
    BY <1>1 DEF ComposeStreams
  <2>2. child'.rc = answer.rc /\ pipe' = <<>> /\ reader' = "opened" /\ lonHolds' \in BOOLEAN
    BY <2>1 DEF Launch
  <2>3. Len(<<>>) = 0
    BY EmptySeq
  <2> QED BY <2>1, <2>2, <2>3, SaysCode DEF PipeInv
<1>2. CASE LetGo \/ Eof
  BY <1>2 DEF LetGo, Eof, PipeInv
<1>3. CASE Read
  <2>1. PICK n \in 1..Len(pipe) : pipe' = SubSeq(pipe, n + 1, Len(pipe))
    BY <1>3 DEF Read
  <2>2. Len(pipe') =< Len(pipe)
    <3>1. \A i \in (n + 1)..Len(pipe) : pipe[i] \in Chunks
      BY <1>0, ElementOfSeq
    <3> QED BY <1>0, <2>1, <3>1, SubSeqProperties
  <2>3. UNCHANGED <<child, lonHolds, reader>>
    BY <1>3 DEF Read
  <2>4. Len(pipe') \in Nat
    <3>1. \A i \in (n + 1)..Len(pipe) : pipe[i] \in Chunks
      BY <1>0, ElementOfSeq
    <3> QED BY <1>0, <2>1, <3>1, SubSeqProperties
  <2> QED BY <1>0, <2>2, <2>3, <2>4 DEF PipeInv
<1>4. CASE ChildSays
  <2>1. Len(pipe) < PipeSize /\ pipe' = Append(pipe, Head(child.says))
        /\ child.says # <<>> /\ child' = [child EXCEPT !.says = Tail(@)]
        /\ UNCHANGED <<lonHolds, reader>>
    BY <1>4 DEF ChildSays
  <2>2. Head(child.says) \in Chunks
    <3>1. child.says \in Seq(Chunks)
      BY DEF StreamInv, StreamTypes
    <3> QED BY <2>1, <3>1, HeadTailProperties
  <2>3. Len(pipe') = Len(pipe) + 1
    BY <1>0, <2>1, <2>2, AppendProperties
  <2>4. child'.rc = child.rc
    BY <1>0, <2>1
  <2> QED BY <1>0, <2>1, <2>3, <2>4 DEF PipeInv
<1>5. CASE ChildCloses \/ ChildExits
  <2>1. child'.rc = child.rc
    BY <1>0, <1>5 DEF ChildCloses, ChildExits
  <2> QED BY <1>5, <2>1 DEF ChildCloses, ChildExits, PipeInv
<1>6. CASE ComposeReturns
  BY <1>6 DEF ComposeReturns, PipeInv
<1>7. CASE OwnSteps \/ WaitReturns \/ WaitMoves \/ Interrupt \/ UNCHANGED vars
  <2>1. UNCHANGED streamVars
    BY <1>7, OwnStepsIdle
       DEF Idle, WaitReturns, WaitMoves, BeginsWait, Waits, Clock, N8n, Interrupt, vars
  <2> QED BY <2>1 DEF streamVars, PipeInv
<1> QED BY <1>1, <1>2, <1>3, <1>4, <1>5, <1>6, <1>7, StepsOfNext
        DEF StreamSteps, Streams, StreamStep, Docker, ChildStep

\* Every variable keeps its type, for every pipe size, deadline, interval and length of
\* a poll; the steps left are always the last ones of the verb, in the verb's order.
THEOREM Types == Spec => []TypeOK
<1>1. RunInv /\ StreamInv /\ PipeInv /\ WaitInv => TypeOK
  <2> SUFFICES ASSUME RunInv, StreamInv, PipeInv, WaitInv PROVE TypeOK
    OBVIOUS
  <2>1. StreamTypeOK
    <3>1. child = [st |-> child.st, says |-> child.says, holds |-> child.holds, rc |-> child.rc]
          /\ child.st \in {"none", "running", "exited"} /\ child.says \in Seq(Chunks)
          /\ child.holds \in BOOLEAN /\ child.rc \in {0, 1}
      BY DEF StreamInv, StreamTypes, PipeInv
    <3>2. child \in [st: {"none", "running", "exited"}, says: Seq(Chunks), holds: BOOLEAN,
                     rc: {0, 1}]
      BY <3>1
    <3> QED BY <3>2 DEF StreamInv, StreamTypes, PipeInv, StreamTypeOK
  <2>2. DocType = [ok: BOOLEAN, fixes: SUBSET {"install-docker", "start-docker",
                                               "install-compose-plugin"}]
    BY DEF DocType, FixNames
  <2>3. WaitTypeOK
    BY DEF WaitInv
  <2> QED BY <2>1, <2>2, <2>3 DEF RunInv, RunTypes, Left, TypeOK
<1>2. Init => WaitInv
  BY WaitInitially DEF Init
<1>3. WaitInv /\ [Next]_vars => WaitInv'
  BY RunWaits, WaitKept, WaitStutters
<1> QED BY <1>1, <1>2, <1>3, RunInitially, RunKept, StreamInitially, StreamKept,
           PipeInitially, PipeKept, PTL DEF Spec

-----------------------------------------------------------------------------
(* The exit code.                                                          *)

\* When an error may be raised under this name.
Justified(cause) ==
    /\ cause = "prerequisite" => ~Works \/ (inst = "gone" /\ ~Restores)
    /\ cause = "port" => host = "port_taken"
    /\ cause = "not_found" => ~Registered
    /\ cause = "failed" /\ todo # <<>> =>
          /\ host \in {"no_cli", "no_daemon"} =>
                \/ Head(todo) \notin {"prerequisites", "compose", "ps"}
                \/ host = "no_daemon" /\ inst = "bare" /\ ~Restores
          /\ host = "port_taken" => verb \notin {"up", "init"} \/ Head(todo) # "compose"

\* What is being read is what docker says on this host.
Answering ==
    reader # "off" /\ ~broke =>
        [text |-> said, rc |-> child.rc] \in Says(verb \in {"init", "up", "start", "restart"})

\* A wipe that needs no compose.
WipesWithout == host = "no_plugin" /\ verb = "dev_wipe" /\ FilesLost

ExitInv ==
    /\ ExitTells /\ Answering
    /\ pc = "begin" => todo = <<>>
    /\ pc = "body" /\ verb = "doctor" => todo = <<"report">>
    /\ pc = "body" /\ "docker" \in touched => Works \/ WipesWithout \/ reader # "off"

\* An error with a reason ends the run with the code of that reason.
LEMMA FailsTelling ==
  ASSUME NEW cause \in DOMAIN ExitCode, HandleError(cause), Justified(cause)
  PROVE  ExitTells'
<1>0. cause \in {"failed", "usage", "prerequisite", "port", "not_found"}
  BY DEF ExitCode
<1>1. exit' = ExitCode[cause] /\ UNCHANGED <<verb, inst, host, todo>>
  BY DEF HandleError, Ends
<1>2. /\ cause = "failed" => exit' = 1
      /\ cause = "usage" => exit' = 2
      /\ cause = "prerequisite" => exit' = 10
      /\ cause = "port" => exit' = 11
      /\ cause = "not_found" => exit' = 13
  BY <1>1 DEF ExitCode
<1>3. exit' # 0 /\ (exit' = 10 => cause = "prerequisite") /\ (exit' = 11 => cause = "port")
      /\ (exit' = 13 => cause = "not_found") /\ (exit' = 1 => cause = "failed")
  BY <1>0, <1>2
<1>4. (Works' <=> Works) /\ (Restores' <=> Restores) /\ (Registered' <=> Registered)
      /\ (FilesLost' <=> FilesLost)
  BY <1>1 DEF Works, Restores, Registered, FilesLost
<1> QED BY <1>1, <1>3, <1>4 DEF Justified, ExitTells

\* What docker says of a command it could be asked is judged rightly, and it succeeds
\* only where it works (_run_compose).
LEMMA CauseTells ==
  ASSUME NEW binds \in BOOLEAN, NEW answer \in Says(binds), ~Unrunnable, host \in Hosts,
         todo # <<>> /\ Head(todo) = "compose" /\ verb \in {"init", "up"} => binds
  PROVE  /\ answer.rc # 0 =>
               Justified(Cause(answer.text)) /\ Cause(answer.text) \in DOMAIN ExitCode
         /\ answer.rc = 0 => Works
<1> DEFINE text == answer.text
           rc == answer.rc
<1>0. host \in {"ok", "no_daemon", "no_plugin", "port_taken"} /\ host # "no_cli"
  BY DEF Hosts, Unrunnable
<1>1. DOMAIN ExitCode = {"failed", "usage", "prerequisite", "port", "not_found"}
  BY DEF ExitCode
<1>2. /\ Cause(<<"dae", "mon">>) = "prerequisite" /\ Cause(<<"noise">>) = "failed"
      /\ Cause(<<"noise", "tak", "en">>) = "port" /\ Cause(<<"noise", "tak", "noise">>) = "failed"
  <2>1. Holds(<<"dae", "mon">>, "dae", "mon")
    BY DEF Holds
  <2>2. ~Holds(<<"noise">>, "dae", "mon") /\ ~Holds(<<"noise">>, "tak", "en")
    BY DEF Holds
  <2>3. ~Holds(<<"noise", "tak", "en">>, "dae", "mon") /\ ~Holds(<<"noise", "tak", "noise">>, "dae", "mon")
    BY DEF Holds
  <2>4. Holds(<<"noise", "tak", "en">>, "tak", "en")
    <3>1. 2 \in 1..2 /\ <<"noise", "tak", "en">>[2] = "tak" /\ <<"noise", "tak", "en">>[3] = "en"
          /\ Len(<<"noise", "tak", "en">>) - 1 = 2 /\ 2 + 1 = 3
      OBVIOUS
    <3> QED BY <3>1 DEF Holds
  <2>5. ~Holds(<<"noise", "tak", "noise">>, "tak", "en")
    BY DEF Holds
  <2> QED BY <2>1, <2>2, <2>3, <2>4, <2>5 DEF Cause
<1>3. CASE host = "no_plugin" \/ Fileless
  <2>1. text = <<"noise">> /\ rc = 1
    BY <1>3 DEF Says
  <2>2. Fileless => inst = "bare" /\ verb \notin {"init", "up"} /\ ~Restores
    BY DEF Fileless, FilesLost, Unrunnable, Restores
  <2>3. Justified("failed")
    BY <1>0, <1>3, <2>2 DEF Justified
  <2> QED BY <1>1, <1>2, <2>1, <2>3
<1>4. CASE host = "no_daemon" /\ ~Fileless
  <2>1. text = <<"dae", "mon">> /\ rc = 1
    BY <1>4 DEF Says
  <2>2. ~Works
    BY <1>4 DEF Works
  <2> QED BY <1>1, <1>2, <2>1, <2>2 DEF Justified
<1>5. CASE host = "port_taken" /\ binds /\ ~Fileless
  <2>1. text = <<"noise", "tak", "en">> /\ rc = 1
    BY <1>5 DEF Says
  <2> QED BY <1>1, <1>2, <1>5, <2>1 DEF Justified
<1>6. CASE ~Fileless /\ (host = "ok" \/ (host = "port_taken" /\ ~binds))
  <2>1. (text = <<"noise", "tak", "noise">> /\ rc = 1) \/ rc = 0
    BY <1>6 DEF Says
  <2>2. Works
    BY <1>6 DEF Works
  <2> QED BY <1>1, <1>2, <1>6, <2>1, <2>2 DEF Justified
<1> QED BY <1>0, <1>3, <1>4, <1>5, <1>6

\* A run that neither ends nor has ended tells nothing yet; nor does one broken off.
LEMMA NotYet == pc' = "body" \/ broke' => ExitTells'
  BY DEF ExitTells, Ended

\* The steps of the verbs, each at its own step, end with the code of their reason.
LEMMA TouchingTells ==
  ASSUME pc = "body", todo # <<>>, Head(todo) \notin {"prerequisites", "compose", "ps"}
  PROVE  /\ HandleError("failed") => ExitTells'
         /\ HandleError(DockerCause) => ExitTells'
         /\ HandleError("usage") => ExitTells'
         /\ \A kinds : Goes(kinds) => ExitTells'
         /\ \A kinds : Touches(kinds) => ExitTells'
         /\ \A works, before, kinds : TouchesWhere(works, before, kinds) => ExitTells'
<1>1. Justified("failed") /\ Justified("usage") /\ Justified(DockerCause)
  BY DEF Justified, DockerCause, Works
<1>2. {"failed", "usage", DockerCause} \subseteq DOMAIN ExitCode
  BY DEF ExitCode, DockerCause
<1>3. /\ HandleError("failed") => ExitTells'
      /\ HandleError("usage") => ExitTells'
      /\ HandleError(DockerCause) => ExitTells'
  BY <1>1, <1>2, FailsTelling
<1>4. \A kinds : Goes(kinds) => ExitTells'
  BY NotYet DEF Goes
<1>5. \A kinds : Touches(kinds) => ExitTells'
  BY <1>3, <1>4 DEF Touches, FailsAmong
<1>6. \A works, before, kinds : TouchesWhere(works, before, kinds) => ExitTells'
  BY <1>3, <1>5 DEF TouchesWhere, Touches
<1> QED BY <1>3, <1>4, <1>5, <1>6

\* Every step that ends a run ends it with the right code.
LEMMA ExitsTell ==
  ASSUME RunInv, StreamInv, DocInv, ExitInv, LonStep
  PROVE  ExitTells'
<1>a. pc \in {"begin", "body"} /\ docs = <<>> /\ ~broke
  <2>1. pc # "end"
    BY Outcomes
  <2> QED BY <2>1 DEF DocInv, RunInv, RunTypes
<1>b. DOMAIN ExitCode = {"failed", "usage", "prerequisite", "port", "not_found"}
  BY DEF ExitCode
<1>c. HandleError("usage") => ExitTells'
  BY <1>b, FailsTelling DEF Justified
<1>d. \A kinds : pc = "body" /\ Goes(kinds) => ExitTells'
  BY NotYet DEF Goes
<1>e. verb \in Verbs /\ host \in Hosts /\ inst \in Insts
  BY DEF RunInv, RunTypes
<1>1. CASE DryRun
  <2>1. CASE Break
    BY <2>1, NotYet DEF Break
  <2>2. CASE Raise("usage")
    BY <2>2, <1>c DEF Raise
  <2>3. CASE Ends(TRUE, {}, 0) /\ UNCHANGED touched
    <3>1. touched' = {} /\ exit' = 0 /\ verb' = verb /\ verb # "doctor"
      BY <1>1, <2>3 DEF DryRun, Fresh, Ends, RunInv, MeantInv, Consented, Previewed
    <3> QED BY <3>1 DEF ExitTells
  <2> QED BY <1>1, <2>1, <2>2, <2>3 DEF DryRun
<1>2. CASE RefuseFollow
  BY <1>2, <1>c DEF RefuseFollow, Raise
<1>3. CASE Decline
  <2>1. todo' = <<>> /\ exit' = 1
    BY <1>3 DEF Decline, Begins, Fresh, Refused, ExitInv, ExitCode
  <2> QED BY <2>1 DEF ExitTells
<1>4. CASE Begin \/ Agree \/ Streams \/ BeginsWait \/ Waits \/ ComposeStreams \/ NoWait \/ Upsert
           \/ Browser
  <2>1. pc' = "body"
    BY <1>4 DEF Begin, Agree, Starts, Streams, BeginsWait, Waits, ComposeStreams, NoWait, Upsert,
                Browser, Quiet, At, Goes, lonVars
  <2> QED BY <2>1, NotYet
<1>5. CASE Finish
  <2>1. pc = "body" /\ todo = <<>> /\ exit' = 0 /\ UNCHANGED <<verb, host, inst, touched>>
    BY <1>5 DEF Finish, Ends
  <2>2. reader = "off"
    BY <1>a, <2>1 DEF StreamInv, At
  <2>3. "docker" \in touched => Works \/ WipesWithout
    BY <2>1, <2>2 DEF ExitInv
  <2>4. verb # "doctor"
    BY <2>1 DEF ExitInv
  <2> QED BY <2>1, <2>3, <2>4 DEF ExitTells, WipesWithout, Works, FilesLost
<1>6. CASE NoCli
  <2>1. Justified("prerequisite")
    BY <1>6 DEF NoCli, Unrunnable, Justified, Works
  <2> QED BY <1>6, <1>b, <2>1, FailsTelling DEF NoCli, Raise
<1>7. CASE Capture
  <2>1. pc = "body" /\ todo # <<>> /\ Head(todo) = "ps"
    BY <1>7 DEF Capture, At
  <2>2. CASE Goes({})
    BY <1>d, <2>1, <2>2
  <2>3. CASE ~Goes({})
    <3>1. PICK answer \in Says(FALSE) :
             /\ ~Unrunnable
             /\ IF answer.rc # 0 THEN Raise(Cause(answer.text))
                ELSE verb \in {"start", "restart"} /\ Raise("failed")
      BY <1>7, <2>3 DEF Capture
    <3>3. /\ answer.rc # 0 => Justified(Cause(answer.text)) /\ Cause(answer.text) \in DOMAIN ExitCode
          /\ answer.rc = 0 => Works
      <4>1. todo # <<>> /\ Head(todo) = "compose" /\ verb \in {"init", "up"} => FALSE
        BY <2>1
      <4>2. host \in Hosts /\ ~Unrunnable /\ FALSE \in BOOLEAN
        BY <1>e, <3>1
      <4> QED BY <4>1, <4>2, CauseTells
    <3>4. CASE answer.rc # 0
      BY <3>1, <3>3, <3>4, FailsTelling DEF Raise
    <3>5. CASE answer.rc = 0
      <4>1. Justified("failed")
        BY <3>1, <3>3, <3>5 DEF Justified, Works
      <4> QED BY <1>b, <3>1, <3>5, <4>1, FailsTelling DEF Raise
    <3> QED BY <3>4, <3>5
  <2> QED BY <2>2, <2>3
<1>8. CASE ComposeReturns
  <2>1. pc = "body" /\ todo # <<>> /\ Head(todo) = "compose" /\ reader = "waiting"
        /\ child.st = "exited"
    BY <1>8 DEF ComposeReturns, At, Reaped
  <2>2. ~Unrunnable /\ [text |-> said, rc |-> child.rc] \in Says(verb \in {"init", "up", "start", "restart"})
    BY <1>a, <2>1 DEF StreamInv, ExitInv, Answering
  <2>3. out = said
    <3>1. pipe = <<>> /\ child.says = <<>> /\ said = out \o (pipe \o child.says)
      BY <2>1 DEF StreamInv, Conserved
    <3>2. out \in Seq(Chunks) /\ <<>> \in Seq(Chunks)
      BY EmptySeq DEF StreamInv, StreamTypes
    <3> QED BY <3>1, <3>2, ConcatEmptySeq
  <2>4. child.rc # 0 => Justified(Cause(out)) /\ Cause(out) \in DOMAIN ExitCode
    <3> DEFINE binds == verb \in {"init", "up", "start", "restart"}
    <3>1. todo # <<>> /\ Head(todo) = "compose" /\ verb \in {"init", "up"} => binds
      OBVIOUS
    <3>2. PICK answer \in Says(binds) : answer = [text |-> out, rc |-> child.rc]
      BY <2>2, <2>3
    <3>3. ~Unrunnable /\ binds \in BOOLEAN /\ host \in Hosts
      BY <1>e, <2>2
    <3> HIDE DEF binds
    <3>4. answer.rc # 0 =>
              Justified(Cause(answer.text)) /\ Cause(answer.text) \in DOMAIN ExitCode
      BY <3>1, <3>3, CauseTells
    <3>5. answer.rc = child.rc /\ answer.text = out
      BY <3>2
    <3> QED BY <3>4, <3>5
  <2>5. CASE child.rc = 0
    BY <1>8, <1>d, <2>1, <2>5 DEF ComposeReturns
  <2>6. CASE child.rc # 0
    BY <1>8, <2>4, <2>6, FailsTelling DEF ComposeReturns, Raise
  <2> QED BY <2>5, <2>6
<1>9. CASE WaitReturns
  <2>1. pc = "body" /\ todo # <<>> /\ Head(todo) = "wait"
    BY <1>9 DEF WaitReturns, At
  <2>2. Break => ExitTells'
    BY NotYet DEF Break
  <2> QED BY <1>9, <1>d, <2>1, <2>2, TouchingTells DEF WaitReturns, Raise
<1>10. CASE Lookup \/ Adopt \/ KnownInstance \/ Unlock \/ Type \/ PlanInit \/ Alive
  <2>1. pc = "body" /\ todo # <<>> /\ Head(todo) \notin {"prerequisites", "compose", "ps"}
    BY <1>10 DEF Lookup, Adopt, KnownInstance, Unlock, Type, PlanInit, Alive, Quiet, At
  <2>2. ~Registered /\ HandleError("not_found") => ExitTells'
    BY <1>b, FailsTelling DEF Justified
  <2>3. /\ HandleError("failed") => ExitTells'
        /\ HandleError("usage") => ExitTells'
        /\ HandleError(DockerCause) => ExitTells'
    BY <2>1, TouchingTells
  <2>4. Lookup \/ KnownInstance \/ Unlock => ExitTells'
    BY <1>d, <2>1, <2>2, <2>3 DEF Lookup, KnownInstance, Unlock, Raise
  <2>5. Adopt \/ Type \/ PlanInit => ExitTells'
    BY <1>d, <2>1, <2>3 DEF Adopt, Type, PlanInit, Raise
  <2>6. Alive => ExitTells'
    BY <1>d, <2>1, <2>3 DEF Alive, Raise
  <2> QED BY <1>10, <2>4, <2>5, <2>6
<1>11. CASE Image
  <2>1. pc = "body" /\ todo # <<>> /\ Head(todo) = "image"
    BY <1>11 DEF Image, Quiet, At
  <2>2. CASE Refused
    <3>1. exit' = 1 /\ todo' = todo
      BY <2>2 DEF Refused, ExitCode
    <3> QED BY <2>1, <3>1 DEF ExitTells
  <2>3. CASE ~Refused
    <3>1. pc' = "body"
      BY <1>11, <2>1, <2>3 DEF Image, Goes
    <3> QED BY <3>1, NotYet
  <2> QED BY <2>2, <2>3
<1>12. CASE Files \/ Archive \/ PutBack \/ Rewrap \/ Wipe
  <2>1. pc = "body" /\ todo # <<>> /\ Head(todo) \notin {"prerequisites", "compose", "ps"}
    BY <1>12 DEF Files, Archive, PutBack, Rewrap, Wipe, Quiet, At
  <2>2. Files \/ Rewrap => ExitTells'
    BY <2>1, TouchingTells DEF Files, Rewrap
  <2>3. Archive => ExitTells'
    BY <2>1, TouchingTells DEF Archive
  <2>4. PutBack => ExitTells'
    BY <2>1, TouchingTells DEF PutBack, Raise
  <2>5. Wipe => ExitTells'
    BY <2>1, TouchingTells DEF Wipe
  <2> QED BY <1>12, <2>2, <2>3, <2>4, <2>5
<1>13. CASE Prerequisites
  <2>1. pc = "body"
    BY <1>13 DEF Prerequisites, Quiet, At
  <2>2. FailedChecks(FALSE) # {} => Justified("prerequisite")
    BY DEF FailedChecks, Justified, Works
  <2> QED BY <1>b, <1>d, <1>13, <2>1, <2>2, FailsTelling DEF Prerequisites, Raise
<1>14. CASE Report
  <2> DEFINE failed == FailedChecks(TRUE)
  <2>1. pc = "body" /\ verb = "doctor" /\ todo # <<>>
    BY <1>14 DEF Report, Quiet, At
  <2>2. touched = {}
    <3>1. Announced = {}
      BY <2>1 DEF Announced, Previewed
    <3> QED BY <3>1 DEF RunInv, MeantInv
  <2>3. /\ failed = {} => host = "ok"
        /\ failed = {"port"} => host = "port_taken"
        /\ failed # {} /\ failed # {"port"} => ~Works
        /\ Works <=> failed \in {{}, {"port"}}
    BY <1>e DEF FailedChecks, Hosts, Works
  <2>4. CASE ~options.flag
    <3>1. Ends(failed = {}, {}, ReportCode(failed)) /\ UNCHANGED touched
      BY <1>14, <2>4 DEF Report
    <3>2. exit' = ReportCode(failed) /\ UNCHANGED <<options, verb, host, inst, touched>>
      BY <3>1 DEF Ends
    <3>3. ExitCode["port"] = 11 /\ ExitCode["prerequisite"] = 10
      BY DEF ExitCode
    <3>4. CASE failed = {}
      <4>1. exit' = 0
        BY <3>2, <3>4 DEF ReportCode
      <4>2. touched' = {} /\ ~options'.flag
        BY <2>2, <2>4, <3>2
      <4> QED BY <4>1, <4>2 DEF ExitTells
    <3>5. CASE failed = {"port"}
      <4>1. exit' = 11
        BY <3>2, <3>3, <3>5 DEF ReportCode
      <4>2. host' = "port_taken"
        BY <2>3, <3>2, <3>5
      <4> QED BY <4>1, <4>2 DEF ExitTells
    <3>6. CASE failed # {} /\ failed # {"port"}
      <4>1. exit' = 10
        BY <3>2, <3>3, <3>6 DEF ReportCode
      <4>2. ~Works'
        BY <2>3, <3>2, <3>6 DEF Works
      <4> QED BY <4>1, <4>2 DEF ExitTells
    <3> QED BY <3>4, <3>5, <3>6
  <2>5. CASE options.flag /\ ~options.dry
    BY <1>14, <1>c, <2>5 DEF Report, Raise
  <2>6. CASE options.flag /\ options.dry
    <3>1. Ends(failed = {}, Fixes(failed), 0) /\ UNCHANGED touched
      BY <1>14, <2>6 DEF Report
    <3>2. exit' = 0 /\ UNCHANGED <<options, verb, host, inst, touched>>
          /\ docs' = Emitted(failed = {}, Fixes(failed))
      BY <3>1 DEF Ends
    <3>3. Fixes(failed) = {} <=> Works
      <4>1. host \in {"ok", "no_cli", "no_daemon", "no_plugin", "port_taken"}
        BY <1>e DEF Hosts
      <4>2. /\ "cli" \in failed <=> host = "no_cli"
            /\ "daemon" \in failed <=> host \in {"no_cli", "no_daemon"}
            /\ "compose" \in failed <=> host \in {"no_cli", "no_plugin"}
        BY DEF FailedChecks
      <4> HIDE DEF failed
      <4> QED BY <4>1, <4>2 DEF Fixes, Works
    <3>4. \A i \in 1..Len(docs') : docs'[i].fixes = Fixes(failed)
      <4> HIDE DEF failed
      <4>1. docs' = <<[ok |-> failed = {}, fixes |-> Fixes(failed)]>> \/ docs' = <<>>
        BY <1>a, <3>2, EmittedOne
      <4>2. CASE docs' = <<>>
        <5>1. Len(docs') = 0
          BY <4>2
        <5> QED BY <5>1
      <4>3. CASE docs' = <<[ok |-> failed = {}, fixes |-> Fixes(failed)]>>
        <5>1. Len(docs') = 1 /\ docs'[1] = [ok |-> failed = {}, fixes |-> Fixes(failed)]
          BY <4>3
        <5>2. docs'[1].fixes = Fixes(failed)
          BY <5>1
        <5> QED BY <5>1, <5>2
      <4> QED BY <4>1, <4>2, <4>3
    <3>5. Works' <=> Works
      BY <3>2 DEF Works
    <3> HIDE DEF failed
    <3> QED BY <2>2, <3>2, <3>3, <3>4, <3>5 DEF ExitTells
  <2> QED BY <2>4, <2>5, <2>6
<1> QED BY <1>1, <1>2, <1>3, <1>4, <1>5, <1>6, <1>7, <1>8, <1>9, <1>10, <1>11, <1>12, <1>13,
           <1>14
        DEF LonStep, Entry

\* The report is the only step of doctor, and ends it.
LEMMA DoctorReports ==
  ASSUME LonStep, pc = "body", todo = <<"report">>, verb = "doctor"
  PROVE  pc' = "end" \/ todo' = todo
<1>1. todo # <<>> /\ Head(todo) = "report"
  OBVIOUS
<1>2. ~Entry /\ ~Finish
  BY <1>1 DEF Entry, DryRun, RefuseFollow, Begin, Agree, Decline, Begins, Fresh, Finish
<1>3. ~(NoCli \/ Capture \/ ComposeStreams \/ ComposeReturns \/ BeginsWait \/ NoWait \/ WaitReturns
        \/ Lookup \/ Adopt \/ Image \/ Files \/ Upsert \/ PlanInit \/ Prerequisites)
  BY <1>1 DEF At, Asking, Quiet, NoCli, Capture, ComposeStreams, ComposeReturns, BeginsWait, NoWait,
              WaitReturns, Lookup, Adopt, Image, Files, Upsert, PlanInit, Prerequisites
<1>4. ~(Type \/ Browser \/ KnownInstance \/ Archive \/ PutBack \/ Unlock \/ Alive \/ Rewrap \/ Wipe)
  BY <1>1 DEF At, Quiet, Type, Browser, KnownInstance, Archive, PutBack, Unlock, Alive, Rewrap, Wipe
<1>5. Streams \/ Waits => todo' = todo
  BY DEF Streams, Waits, lonVars
<1>6. Report => pc' = "end"
  BY DEF Report, Raise, HandleError, Ends
<1> QED BY <1>2, <1>3, <1>4, <1>5, <1>6 DEF LonStep

\* Only dev_wipe has the step of that name.
LEMMA OnlyWipeWipes ==
  ASSUME verb \in Verbs, Left, todo # <<>>, Head(todo) = "wipe"
  PROVE  verb = "dev_wipe"
<1>1. "wipe" \in StepsOf[verb]
  BY NextLeft
<1>2. verb \in {"init", "up", "down", "stop", "start", "restart", "status", "list", "logs", "open",
                "doctor", "backup", "restore", "recovery_show", "recovery_rotate",
                "passphrase_change", "passphrase_reset", "dev_wipe"}
  BY DEF Verbs, Body
<1> QED BY <1>1, <1>2 DEF StepsOf

\* Where docker does not work, what touches it is still being read, or has failed.
LEMMA TouchesDocker ==
  ASSUME RunInv, StreamInv, DocInv, ExitInv, LonStep, ~Works, ~WipesWithout, pc' = "body", "docker" \in touched'
  PROVE  reader' # "off"
<1>0. Effect /\ ~broke
  <2>1. pc # "end"
    BY Outcomes
  <2> QED BY <2>1, Effects DEF DocInv
<1>1. pc = "body"
  <2> SUFFICES ASSUME pc # "body" PROVE FALSE
    OBVIOUS
  <2>1. Entered
    BY <1>0 DEF Effect, NotEntered, Done, GoingOnWith, Stopped, Denied
  <2> QED BY <2>1 DEF Entered, RunInv, MeantInv, Consented
<1>2. CASE OwnSteps \/ WaitReturns
  <2>1. ~At("compose")
    <3> SUFFICES ASSUME At("compose") PROVE FALSE
      OBVIOUS
    <3>1. ~Finish /\ ~Capture /\ ~NoWait /\ ~WaitReturns /\ ~Entry
      BY DEF At, Finish, Capture, NoWait, WaitReturns, Entry, DryRun, RefuseFollow, Begin, Agree,
             Decline, Begins, Fresh
    <3>2. ~NoCli
      BY DEF NoCli, Raise, HandleError, Ends
    <3>3. ~(Lookup \/ Adopt \/ Image \/ Files \/ Upsert \/ PlanInit \/ Prerequisites \/ Report
            \/ Type \/ Browser)
      BY DEF At, Quiet, Lookup, Adopt, Image, Files, Upsert, PlanInit, Prerequisites, Report,
             Type, Browser
    <3>4. ~(KnownInstance \/ Archive \/ PutBack \/ Unlock \/ Alive \/ Rewrap \/ Wipe)
      BY DEF At, Quiet, KnownInstance, Archive, PutBack, Unlock, Alive, Rewrap, Wipe
    <3> QED BY <1>2, <3>1, <3>2, <3>3, <3>4 DEF OwnSteps
  <2>2. "docker" \notin touched
    BY <1>0, <1>1, <2>1 DEF StreamInv, ExitInv
  <2>3. todo # <<>> /\ "docker" \in MayTouch(Head(todo))
    BY <1>0, <1>1, <2>2 DEF Effect, NotEntered, Entered, Done, GoingOnWith, Stopped, Denied, Touched
  <2>4. Head(todo) = "compose"
    <3>1. Head(todo) \in {"compose", "wipe"}
      BY <2>3 DEF MayTouch
    <3>2. CASE Head(todo) = "wipe"
      <4>1. verb = "dev_wipe"
        BY <2>3, <3>2, OnlyWipeWipes DEF RunInv, RunTypes
      <4>2. WipeWorks /\ inst \notin {"none", "unnamed"}
        BY <2>3, <3>2 DEF MayTouch
      <4>3. inst \in Insts
        BY DEF RunInv, RunTypes
      <4> QED BY <4>1, <4>2, <4>3 DEF WipeWorks, WipesWithout, PlainWorks, HasFiles, FilesLost, Insts
    <3> QED BY <3>1, <3>2
  <2> QED BY <1>1, <2>1, <2>3, <2>4 DEF At
<1>3. CASE ComposeStreams
  BY <1>3 DEF ComposeStreams, Launch
<1>4. CASE BeginsWait \/ Waits
  <2>1. touched' = touched /\ reader' = reader
    BY <1>4 DEF BeginsWait, Waits, lonVars, streamVars
  <2> QED BY <1>1, <2>1 DEF ExitInv
<1>5. CASE Streams
  <2>1. touched' = touched /\ (reader' # "off" \/ reader' = reader)
    BY <1>5 DEF Streams, StreamStep, LetGo, Read, Eof, lonVars
  <2> QED BY <1>1, <2>1 DEF ExitInv
<1>6. CASE ComposeReturns
  <2>1. pc = "body" /\ todo # <<>> /\ Head(todo) = "compose" /\ reader = "waiting"
    BY <1>6 DEF ComposeReturns, At, Reaped
  <2>2. child.rc = 0
    BY <1>6 DEF ComposeReturns, Raise, HandleError, Ends
  <2> DEFINE binds == verb \in {"init", "up", "start", "restart"}
  <2>3. PICK answer \in Says(binds) : answer = [text |-> said, rc |-> child.rc]
    BY <1>0, <2>1 DEF ExitInv, Answering
  <2>4. ~Unrunnable /\ binds \in BOOLEAN /\ host \in Hosts
    BY <1>0, <2>1 DEF StreamInv, RunInv, RunTypes
  <2>5. todo # <<>> /\ Head(todo) = "compose" /\ verb \in {"init", "up"} => binds
    OBVIOUS
  <2> HIDE DEF binds
  <2>6. answer.rc = 0 => Works
    BY <2>4, <2>5, CauseTells
  <2> QED BY <2>2, <2>3, <2>6
<1> QED BY <1>2, <1>3, <1>4, <1>5, <1>6 DEF LonStep, OwnSteps

LEMMA AnswerKept ==
  ASSUME RunInv, StreamInv, ExitInv, [Next]_vars
  PROVE  Answering'
<1>1. UNCHANGED <<verb, inst, host>> => \A binds : Says(binds)' = Says(binds)
  BY DEF Says, Fileless, FilesLost, Restores
<1>a. child = [st |-> child.st, says |-> child.says, holds |-> child.holds, rc |-> child.rc]
  BY DEF StreamInv, StreamTypes
<1>2. CASE ComposeStreams
  <2>1. PICK answer \in Says(verb \in {"init", "up", "start", "restart"}) :
           Launch(answer.text, answer.rc)
    BY <1>2 DEF ComposeStreams
  <2>2. said' = answer.text /\ child'.rc = answer.rc
    BY <2>1 DEF Launch
  <2>3. answer = [text |-> answer.text, rc |-> answer.rc]
    BY <2>1 DEF Says
  <2>4. UNCHANGED <<verb, inst, host>>
    BY <1>2 DEF ComposeStreams
  <2> QED BY <1>1, <2>1, <2>2, <2>3, <2>4 DEF Answering
<1>3. CASE Streams \/ Docker
  <2>1. UNCHANGED lonVars /\ said' = said /\ (reader # "off" \/ reader' = "off")
    BY <1>3 DEF Streams, Docker, StreamStep, ChildStep, LetGo, Read, Eof, ChildSays, ChildCloses,
                ChildExits
  <2>2. child'.rc = child.rc
    BY <1>3, <1>a DEF Streams, Docker, StreamStep, ChildStep, LetGo, Read, Eof, ChildSays,
                     ChildCloses, ChildExits
  <2> QED BY <1>1, <2>1, <2>2 DEF lonVars, ExitInv, Answering
<1>4. CASE ComposeReturns
  BY <1>4 DEF ComposeReturns, Answering
<1>5. CASE Interrupt
  BY <1>5 DEF Interrupt, Break, Answering
<1>6. CASE OwnSteps \/ WaitReturns \/ WaitMoves \/ UNCHANGED vars
  <2>1. UNCHANGED <<verb, inst, host>> /\ (broke => broke')
    <3>1. OwnSteps \/ WaitReturns => UNCHANGED <<verb, inst, host>> /\ (broke => broke')
      BY Effects, EndsOnce DEF OwnSteps, LonStep, StreamInv
    <3>2. WaitMoves \/ UNCHANGED vars => UNCHANGED <<verb, inst, host, broke>>
      BY DEF WaitMoves, BeginsWait, Waits, Clock, N8n, vars, lonVars
    <3> QED BY <1>6, <3>1, <3>2
  <2>2. UNCHANGED streamVars
    BY <1>6, OwnStepsIdle
       DEF Idle, WaitReturns, WaitMoves, BeginsWait, Waits, Clock, N8n, vars
  <2> QED BY <1>1, <2>1, <2>2 DEF streamVars, ExitInv, Answering
<1> QED BY <1>2, <1>3, <1>4, <1>5, <1>6, StepsOfNext DEF StreamSteps

LEMMA ExitKept == RunInv /\ StreamInv /\ DocInv /\ ExitInv /\ [Next]_vars => ExitInv'
<1> SUFFICES ASSUME RunInv, StreamInv, DocInv, ExitInv, [Next]_vars PROVE ExitInv'
  OBVIOUS
<1>0. Answering'
  BY AnswerKept
<1>1. CASE LonStep
  <2>1. Effect /\ UNCHANGED <<options, verb, inst, host>> /\ ExitTells'
    BY <1>1, Effects, ExitsTell
  <2>2. pc' \in {"body", "end"}
    BY <2>1 DEF Effect, NotEntered, Entered, Done, GoingOnWith, Stopped, Denied
  <2>3. pc' = "body" /\ verb' = "doctor" => todo' = <<"report">>
    <3> SUFFICES ASSUME pc' = "body", verb = "doctor" PROVE todo' = <<"report">>
      BY <2>1
    <3>1. Body["doctor"] = <<"report">>
      BY DEF Body
    <3>2. pc = "begin" => todo' = Body[verb]
      BY <2>1 DEF Effect, NotEntered, Entered, Done, GoingOnWith, Stopped, Denied
    <3>3. pc = "body" => todo' = <<"report">>
      BY <1>1, DoctorReports DEF ExitInv
    <3>4. pc \in {"begin", "body"}
      BY <2>1 DEF Effect, NotEntered, Entered, Done, GoingOnWith, Stopped, Denied
    <3> QED BY <3>1, <3>2, <3>3, <3>4
  <2>4. pc' = "body" /\ "docker" \in touched' => Works' \/ WipesWithout' \/ reader' # "off"
    <3>1. (Works' <=> Works) /\ (WipesWithout' <=> WipesWithout)
      BY <2>1 DEF Works, WipesWithout, FilesLost
    <3> QED BY <1>1, <3>1, TouchesDocker
  <2> QED BY <1>0, <2>1, <2>2, <2>3, <2>4 DEF ExitInv
<1>2. CASE Interrupt
  <2>1. pc' = "end" /\ broke'
    BY <1>2 DEF Interrupt, Break
  <2> QED BY <1>0, <2>1, NotYet DEF ExitInv
<1>3. CASE Docker \/ Clock \/ N8n \/ UNCHANGED vars
  <2>1. UNCHANGED <<options, verb, inst, host, pc, todo, consent, touched, docs, exit, broke>>
    BY <1>3 DEF Docker, Clock, N8n, vars, lonVars
  <2>2. reader' = reader
    BY <1>3 DEF Docker, Clock, N8n, vars, streamVars, ChildStep, ChildSays, ChildCloses, ChildExits
  <2>3. (Works' <=> Works) /\ (Restores' <=> Restores) /\ (Registered' <=> Registered)
        /\ (FilesLost' <=> FilesLost) /\ (WipesWithout' <=> WipesWithout)
    BY <2>1 DEF Works, Restores, Registered, FilesLost, WipesWithout
  <2>4. ExitTells'
    BY <2>1, <2>3 DEF ExitInv, ExitTells, Ended
  <2> QED BY <1>0, <2>1, <2>2, <2>3, <2>4 DEF ExitInv
<1> QED BY <1>1, <1>2, <1>3 DEF Next

\* The exit codes (core/errors.py; _run_compose, core/instance.py:540; core/doctor.py):
\* a run that is not broken off ends with 10, 11 or 13 only for its reason.  With Docker
\* missing or down, the prerequisites and the compose commands of a verb fail with 10
\* and never with 1, but for an instance without files, whose compose file is missed
\* first.  A run that has touched docker succeeds only where compose works, or as the
\* wipe of an instance without files.
THEOREM ExitsAlwaysTell == Spec => []ExitTells
<1>1. Init => ExitInv
  BY DEF Init, StreamInit, ExitInv, ExitTells, Ended, Answering
<1>2. Init => DocInv
  BY DEF Init, DocInv
<1>3. ExitInv => ExitTells
  BY DEF ExitInv
<1> QED BY <1>1, <1>2, <1>3, RunInitially, RunKept, StreamInitially, StreamKept, DocKept,
           ExitKept, PTL DEF Spec
=============================================================================
