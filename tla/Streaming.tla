------------------------------ MODULE Streaming ------------------------------
(***************************************************************************)
(* run_streaming (core/runner.py): a docker command whose output is read   *)
(* from a pipe, or from a pseudo terminal, shown and collected, until every *)
(* process that holds the other end has let go of it; then the child is    *)
(* waited for.                                                             *)
(***************************************************************************)
EXTENDS Integers, Sequences

CONSTANT PipeSize           \* bound: the chunks that pipe or terminal can hold

VARIABLES
    child,      \* the docker command: state, what it has yet to say, whether it or a
                \* process it has started holds the pipe, and its return code
    pipe,       \* chunks said and not yet read
    lonHolds,   \* lon holds the child's end of the terminal itself
    reader,     \* the step of the loop
    said, out   \* all that the child will say; what has been collected

streamVars == <<child, pipe, lonHolds, reader, said, out>>

ASSUME StreamingAssumption == PipeSize \in Nat \ {0}

Chunks == {"noise", "dae", "mon", "tak", "en"}
NoChild == [st |-> "none", says |-> <<>>, holds |-> FALSE, rc |-> 0]

StreamTypeOK ==
    /\ child \in [st: {"none", "running", "exited"}, says: Seq(Chunks), holds: BOOLEAN,
                  rc: {0, 1}]
    /\ pipe \in Seq(Chunks) /\ Len(pipe) =< PipeSize
    /\ lonHolds \in BOOLEAN
    /\ reader \in {"off", "opened", "reading", "waiting"}
    /\ said \in Seq(Chunks) /\ out \in Seq(Chunks)

StreamInit ==
    /\ child = NoChild /\ pipe = <<>> /\ lonHolds = FALSE /\ reader = "off"
    /\ said = <<>> /\ out = <<>>

-----------------------------------------------------------------------------
(* The loop.                                                               *)

\* Popen.  With a terminal, lon has opened the child's end itself; where there is
\* no terminal to be had, the plain pipe is used.
Launch(text, rc) ==
    /\ child' = [st |-> "running", says |-> text, holds |-> TRUE, rc |-> rc]
    /\ lonHolds' \in BOOLEAN
    /\ reader' = "opened"
    /\ said' = text /\ out' = <<>> /\ pipe' = <<>>

\* Fault: lon keeps the child's end of the terminal open.
LetGoNever == reader = "opened" /\ reader' = "reading"
              /\ UNCHANGED <<child, pipe, lonHolds, said, out>>

\* os.close(slave_fd)
LetGo ==
    /\ reader = "opened"
    /\ lonHolds' = FALSE
    /\ reader' = "reading"
    /\ UNCHANGED <<child, pipe, said, out>>

\* Fault: only the last chunk is kept.
ReadLast ==
    /\ reader = "reading"
    /\ \E n \in 1..Len(pipe) :
          /\ out' = SubSeq(pipe, 1, n)
          /\ pipe' = SubSeq(pipe, n + 1, Len(pipe))
    /\ UNCHANGED <<child, lonHolds, reader, said>>

\* os.read returns what there is, up to its limit.
Read ==
    /\ reader = "reading"
    /\ \E n \in 1..Len(pipe) :
          /\ out' = out \o SubSeq(pipe, 1, n)
          /\ pipe' = SubSeq(pipe, n + 1, Len(pipe))
    /\ UNCHANGED <<child, lonHolds, reader, said>>

\* Fault: an exited child ends the loop, whatever is left to read.
EofOnExit ==
    /\ reader = "reading"
    /\ child.st = "exited"
    /\ reader' = "waiting"
    /\ UNCHANGED <<child, pipe, lonHolds, said, out>>

\* An empty read, or EIO from a terminal whose other end is closed.
Eof ==
    /\ reader = "reading"
    /\ pipe = <<>> /\ ~child.holds /\ ~lonHolds
    /\ reader' = "waiting"
    /\ UNCHANGED <<child, pipe, lonHolds, said, out>>

\* process.wait() has returned.
Reaped == reader = "waiting" /\ child.st = "exited"

StreamStep == LetGo \/ Read \/ Eof

-----------------------------------------------------------------------------
(* The docker command, and whatever it has started.                        *)

ChildSays ==
    /\ child.holds /\ child.says # <<>>
    /\ Len(pipe) < PipeSize
    /\ pipe' = Append(pipe, Head(child.says))
    /\ child' = [child EXCEPT !.says = Tail(@)]
    /\ UNCHANGED <<lonHolds, reader, said, out>>

ChildCloses ==
    /\ child.holds /\ child.says = <<>>
    /\ child' = [child EXCEPT !.holds = FALSE]
    /\ UNCHANGED <<pipe, lonHolds, reader, said, out>>

\* docker may exit before the processes it has started; a child blocked on a full
\* pipe does not.
ChildExits ==
    /\ child.st = "running"
    /\ child.says = <<>>
    /\ child' = [child EXCEPT !.st = "exited"]
    /\ UNCHANGED <<pipe, lonHolds, reader, said, out>>

ChildStep == ChildSays \/ ChildCloses \/ ChildExits
=============================================================================
