---------------------------- MODULE StdioSession ----------------------------
(***************************************************************************)
(* One exporter process talking to one `hexport --stdio` child: class      *)
(* HexportStdioClient of ida_mcp_export.py on this side of the two pipes,  *)
(* Mcp::run_stdio of mcp.cpp on the other.  Every thread of the exporter   *)
(* shares the one client, so a call is                                     *)
(*                                                                         *)
(*    take the lock; write a line; wait for a line; drop the lock          *)
(*                                                                         *)
(* and what makes it hard is that nothing ties the line read to the line   *)
(* written: a call that gives up waiting leaves its answer behind.         *)
(*                                                                         *)
(* A request is named by its position in the order of the writes, its      *)
(* ticket.  The JSON id is not modelled: the child echoes it and the       *)
(* client never looks at it.  The handshake (initialize) is over when the  *)
(* behaviour begins.                                                       *)
(***************************************************************************)
EXTENDS Integers, Sequences

CONSTANTS
  Workers,    \* export and discovery threads: joined before the interpreter exits
  Health,     \* the health monitor's daemon thread: never joined for good
  Main,       \* the main thread, which runs close() at exit
  Nobody,     \* the lock's owner when it is free
  CanTimeOut, \* --timeout > 0: waiting for a reply may be given up
  MaxCalls    \* calls made by one thread (bounds the model)

ASSUME SessionAssumption ==
  /\ Main \notin Workers /\ Health \notin Workers /\ Main # Health
  /\ Nobody \notin Workers \cup {Health, Main}
  /\ CanTimeOut \in BOOLEAN
  /\ MaxCalls \in Nat

Callers == Workers \cup {Health, Main}
Tools == {"query", "close_database"}   \* every tool that leaves the database open is a query
EOF == 0                               \* the None that _read_stdout queues at end of file
NoReply == 0                           \* a call that ended without an answer

VARIABLES
  lock,      \* client.lock: the thread inside _post's critical section
  pc,        \* where each thread is in _post
  calls,     \* calls each thread has still to make
  ticket,    \* the last request each thread wrote
  sent,      \* requests written so far
  stdin,     \* lines written and not yet read by the child
  stdout,    \* replies written by the child and not yet read
  replies,   \* client._replies: lines the reader thread has queued
  eof,       \* has the reader thread queued its sentinel?
  stdinOpen, \* is proc.stdin open?
  child,     \* the hexport process
  dbOpen,    \* does the child hold the database open?
  closing,   \* how far Main is in close(), or "bailed" after os._exit
  timeouts,  \* history: calls that gave up waiting
  last       \* history: each thread's last request and the reply it took

pipes == <<stdin, stdout, replies, eof, stdinOpen>>
vars == <<lock, pc, calls, ticket, sent, pipes, child, dbOpen, closing, timeouts, last>>

Init ==
  /\ lock = Nobody
  /\ pc = [t \in Callers |-> "idle"]
  /\ calls = [t \in Callers |-> MaxCalls]
  /\ ticket = [t \in Callers |-> 0]
  /\ sent = 0
  /\ stdin = <<>> /\ stdout = <<>> /\ replies = <<>>
  /\ eof = FALSE /\ stdinOpen = TRUE
  /\ child = "running"
  /\ dbOpen \in BOOLEAN          \* startup_open may have failed
  /\ closing = "no"
  /\ timeouts = 0
  /\ last = [t \in Callers |-> [ticket |-> 0, reply |-> NoReply]]

-----------------------------------------------------------------------------
(* The calling threads: _post.                                             *)

Running == closing # "bailed"    \* os._exit takes every thread with it

HasCall(t) ==
  \/ calls[t] > 0 /\ (t = Main => closing = "no")
  \/ t = Main /\ closing = "post"

\* Mutant: close()'s own call is counted against the thread's calls.
Acquire_CountsClose(t) ==
  /\ Running /\ pc[t] = "idle" /\ HasCall(t)
  /\ lock = Nobody
  /\ lock' = t
  /\ pc' = [pc EXCEPT ![t] = "locked"]
  /\ calls' = [calls EXCEPT ![t] = @ - 1]
  /\ UNCHANGED <<ticket, sent, pipes, child, dbOpen, closing, timeouts, last>>

Acquire(t) ==
  /\ Running /\ pc[t] = "idle" /\ HasCall(t)
  /\ lock = Nobody
  /\ lock' = t
  /\ pc' = [pc EXCEPT ![t] = "locked"]
  /\ calls' = [calls EXCEPT ![t] = IF closing = "post" /\ t = Main THEN @ ELSE @ - 1]
  /\ UNCHANGED <<ticket, sent, pipes, child, dbOpen, closing, timeouts, last>>

\* _post returns or raises: the lock goes, and the outcome is all that is left
\* of the call.  close() goes on whatever the outcome of its own call was.
Return(t, reply) ==
  /\ lock' = Nobody
  /\ pc' = [pc EXCEPT ![t] = "idle"]
  /\ last' = [last EXCEPT ![t] = [ticket |-> ticket[t], reply |-> reply]]
  /\ closing' = IF t = Main /\ closing = "post" THEN "eof" ELSE closing

Send(t) ==
  /\ Running /\ pc[t] = "locked" /\ child = "running" /\ stdinOpen
  /\ pc' = [pc EXCEPT ![t] = "waiting"]
  /\ sent' = sent + 1
  /\ ticket' = [ticket EXCEPT ![t] = sent + 1]
  /\ stdin' = Append(stdin, [ticket |-> sent + 1,
                             tool |-> IF t = Main /\ closing = "post"
                                      THEN "close_database" ELSE "query"])
  /\ UNCHANGED <<lock, calls, stdout, replies, eof, stdinOpen, child, dbOpen, closing,
                 timeouts, last>>

\* proc.poll() reports an exit, or the write fails: _died.
SendFails(t) ==
  /\ Running /\ pc[t] = "locked" /\ ~(child = "running" /\ stdinOpen)
  /\ Return(t, NoReply)
  /\ UNCHANGED <<calls, ticket, sent, pipes, child, dbOpen, timeouts>>

\* _replies.get: whatever line is first, or the sentinel, which raises _died.
Receive(t) ==
  /\ Running /\ pc[t] = "waiting" /\ replies # <<>>
  /\ Return(t, Head(replies))
  /\ replies' = Tail(replies)
  /\ UNCHANGED <<calls, ticket, sent, stdin, stdout, eof, stdinOpen, child, dbOpen, timeouts>>

\* queue.Empty: the call raises, and its reply is still to come.
GiveUp(t) ==
  /\ Running /\ CanTimeOut /\ pc[t] = "waiting" /\ replies = <<>>
  /\ Return(t, NoReply)
  /\ timeouts' = timeouts + 1
  /\ UNCHANGED <<calls, ticket, sent, pipes, child, dbOpen>>

-----------------------------------------------------------------------------
(* The reader thread: _read_stdout.                                        *)

ReadLine ==
  /\ Running /\ stdout # <<>>
  /\ replies' = Append(replies, Head(stdout))
  /\ stdout' = Tail(stdout)
  /\ UNCHANGED <<lock, pc, calls, ticket, sent, stdin, eof, stdinOpen, child, dbOpen,
                 closing, timeouts, last>>

\* Mutant: the reader thread ends without its `finally`.
ReadEof_NoSentinel ==
  /\ Running /\ stdout = <<>> /\ child # "running" /\ ~eof
  /\ eof' = TRUE
  /\ UNCHANGED <<lock, pc, calls, ticket, sent, stdin, stdout, replies, stdinOpen, child,
                 dbOpen, closing, timeouts, last>>

ReadEof ==
  /\ Running /\ stdout = <<>> /\ child # "running" /\ ~eof
  /\ replies' = Append(replies, EOF)
  /\ eof' = TRUE
  /\ UNCHANGED <<lock, pc, calls, ticket, sent, stdin, stdout, stdinOpen, child, dbOpen,
                 closing, timeouts, last>>

-----------------------------------------------------------------------------
(* The main thread: close(), and the Ctrl+C handler's os._exit.            *)

Joined == \A w \in Workers : pc[w] = "idle" /\ calls[w] = 0

\* Mutant: close() goes straight to closing the pipe, with no close_database.
BeginClose_NoPost ==
  /\ closing = "no" /\ pc[Main] = "idle" /\ Joined
  /\ closing' = IF child = "running" THEN "eof" ELSE "over"
  /\ UNCHANGED <<lock, pc, calls, ticket, sent, pipes, child, dbOpen, timeouts, last>>

BeginClose ==
  /\ closing = "no" /\ pc[Main] = "idle" /\ Joined
  /\ closing' = IF child = "running" THEN "post" ELSE "over"
  /\ UNCHANGED <<lock, pc, calls, ticket, sent, pipes, child, dbOpen, timeouts, last>>

CloseStdin ==
  /\ closing = "eof"
  /\ stdinOpen' = FALSE
  /\ closing' = "wait"
  /\ UNCHANGED <<lock, pc, calls, ticket, sent, stdin, stdout, replies, eof, child, dbOpen,
                 timeouts, last>>

WaitExit ==
  /\ closing = "wait" /\ child # "running"
  /\ closing' = "over"
  /\ UNCHANGED <<lock, pc, calls, ticket, sent, pipes, child, dbOpen, timeouts, last>>

\* Mutant: proc.wait() without its timeout.
Kill_Never == FALSE

\* proc.wait(timeout=30) expires.
Kill ==
  /\ closing = "wait" /\ child = "running"
  /\ child' = "killed"
  /\ stdin' = <<>>
  /\ closing' = "over"
  /\ UNCHANGED <<lock, pc, calls, ticket, sent, stdout, replies, eof, stdinOpen, dbOpen,
                 timeouts, last>>

\* Mutant: the process goes but its end of the pipe stays open (an inherited handle).
Bail_PipeStaysOpen ==
  /\ closing \notin {"over", "bailed"}
  /\ closing' = "bailed"
  /\ UNCHANGED <<lock, pc, calls, ticket, sent, pipes, child, dbOpen, timeouts, last>>

Bail ==
  /\ closing \notin {"over", "bailed"}
  /\ closing' = "bailed"
  /\ stdinOpen' = FALSE
  /\ UNCHANGED <<lock, pc, calls, ticket, sent, stdin, stdout, replies, eof, child, dbOpen,
                 timeouts, last>>

-----------------------------------------------------------------------------
(* The child: run_stdio, and startup_close at the end of main().           *)

\* Mutant: the child answers the newest line first.
Serve_NewestFirst ==
  /\ child = "running" /\ stdin # <<>>
  /\ stdin' = SubSeq(stdin, 1, Len(stdin) - 1)
  /\ stdout' = Append(stdout, stdin[Len(stdin)].ticket)
  /\ dbOpen' = (dbOpen /\ stdin[Len(stdin)].tool # "close_database")
  /\ UNCHANGED <<lock, pc, calls, ticket, sent, replies, eof, stdinOpen, child, closing,
                 timeouts, last>>

Serve ==
  /\ child = "running" /\ stdin # <<>>
  /\ stdin' = Tail(stdin)
  /\ stdout' = Append(stdout, Head(stdin).ticket)
  /\ dbOpen' = (dbOpen /\ Head(stdin).tool # "close_database")
  /\ UNCHANGED <<lock, pc, calls, ticket, sent, replies, eof, stdinOpen, child, closing,
                 timeouts, last>>

ChildExit ==
  /\ child = "running" /\ stdin = <<>> /\ ~stdinOpen
  /\ child' = "exited"
  /\ dbOpen' = FALSE
  /\ UNCHANGED <<lock, pc, calls, ticket, sent, pipes, closing, timeouts, last>>

Crash ==
  /\ child = "running"
  /\ child' = "crashed"
  /\ stdin' = <<>>
  /\ UNCHANGED <<lock, pc, calls, ticket, sent, stdout, replies, eof, stdinOpen, dbOpen,
                 closing, timeouts, last>>

-----------------------------------------------------------------------------
Finished == closing \in {"over", "bailed"} /\ child # "running" /\ UNCHANGED vars

Caller(t) == Acquire(t) \/ Send(t) \/ SendFails(t) \/ Receive(t) \/ GiveUp(t)
Reader == ReadLine \/ ReadEof
Closer == BeginClose \/ CloseStdin \/ WaitExit \/ Kill

Next ==
  \/ \E t \in Callers : Caller(t)
  \/ Reader \/ Closer \/ Bail
  \/ Serve \/ ChildExit \/ Crash
  \/ Finished

Spec == Init /\ [][Next]_vars

\* The exporter's threads run, but a call may be willing to wait for ever;
\* nothing is assumed of the child.
LiveSpec ==
  /\ Spec
  /\ \A t \in Callers : WF_vars(Acquire(t) \/ Send(t) \/ SendFails(t) \/ Receive(t))
  /\ WF_vars(Reader) /\ WF_vars(Closer)

\* --timeout > 0: a wait that goes on is given up.
TimeoutsRunOut == \A t \in Callers : WF_vars(GiveUp(t))

\* The child answers the line it has read and leaves at end of file.
ChildServes == WF_vars(Serve) /\ WF_vars(ChildExit)

-----------------------------------------------------------------------------
(* Properties.                                                             *)

\* Every variable keeps its type.
TypeOK ==
  /\ lock \in Callers \cup {Nobody}
  /\ pc \in [Callers -> {"idle", "locked", "waiting"}]
  /\ calls \in [Callers -> 0..MaxCalls]
  /\ ticket \in [Callers -> Nat]
  /\ sent \in Nat
  /\ stdin \in Seq([ticket : Nat, tool : Tools])
  /\ stdout \in Seq(Nat)
  /\ replies \in Seq(Nat)
  /\ eof \in BOOLEAN /\ stdinOpen \in BOOLEAN /\ dbOpen \in BOOLEAN
  /\ child \in {"running", "exited", "crashed", "killed"}
  /\ closing \in {"no", "post", "eof", "wait", "over", "bailed"}
  /\ timeouts \in Nat
  /\ last \in [Callers -> [ticket : Nat, reply : Nat]]

\* The line a waiting call will take is the answer to the request `timeouts`
\* places before its own: each call that gives up shifts every later answer by
\* one, for good (_post takes `_replies.get()` and compares no id).
ShiftedByTimeouts ==
  \A t \in Callers :
    pc[t] = "waiting" /\ replies # <<>> /\ Head(replies) # EOF
      => Head(replies) = ticket[t] - timeouts

\* Every answer a call returned is the answer to the request it wrote: what
\* the ThreadClients docstring promises of "write-then-read under a lock".
AnswersOwnRequest ==
  \A t \in Callers : last[t].reply # NoReply => last[t].reply = last[t].ticket

\* Until a call gives up at its timeout, and so for ever with --timeout 0, every
\* answer is the caller's own, whatever dies or is interrupted.
OwnUntilTimeout == timeouts = 0 => AnswersOwnRequest

QueuedAnswers ==
  IF replies # <<>> /\ replies[Len(replies)] = EOF THEN Len(replies) - 1 ELSE Len(replies)

\* What is under way in the two pipes and the queue never exceeds one line per
\* call that gave up, and one for the call that waits: a call never writes
\* while another's answer is due.
BacklogBounded == Len(stdin) + Len(stdout) + QueuedAnswers <= timeouts + 1

\* close() kills the child only after its database was closed ("Save and close
\* the database before shutting the child down").
KilledOnlyWhenClosed == child = "killed" => ~dbOpen

\* Until a call gives up, the kill at the end of close() is harmless.
ClosedUntilTimeout == timeouts = 0 => KilledOnlyWhenClosed

\* A call that waits comes back: with a timeout, whatever the child does ("a
\* hung server hits our timeout instead of blocking forever"); without one, if
\* the child serves or dies.
CallsReturn ==
  TimeoutsRunOut \/ ChildServes
    => \A t \in Callers : pc[t] = "waiting" ~> pc[t] = "idle" \/ ~Running

\* With a timeout, close() once begun ends, whatever the child does.
CloseEnds == TimeoutsRunOut => (closing # "no" ~> closing \in {"over", "bailed"})

\* A child that serves its input outlives neither close() nor os._exit.
ChildEnds == ChildServes => (closing \in {"over", "bailed"} ~> child # "running")

-----------------------------------------------------------------------------
(* The inductive invariant behind the safety properties.                   *)

Waiting == IF lock # Nobody /\ pc[lock] = "waiting" THEN 1 ELSE 0

\* The ticket of the next line to be taken from `replies`: every request
\* written has been answered to somebody, given up, or is waited for.
NextAnswer == sent - timeouts - Waiting + 1

\* The lock's owner is the one thread inside _post, and it wrote last.
LockInv ==
  \A t \in Callers : /\ pc[t] # "idle" <=> lock = t
                     /\ pc[t] = "waiting" => ticket[t] = sent

\* The queue, stdout and stdin hold consecutive tickets, in that order.
OrderInv ==
  /\ \A i \in 1..Len(replies) : replies[i] # EOF => replies[i] = NextAnswer + i - 1
  /\ \A i \in 1..Len(stdout) : stdout[i] = NextAnswer + Len(replies) + i - 1
  /\ \A i \in 1..Len(stdin) : stdin[i].ticket = NextAnswer + Len(replies) + Len(stdout) + i - 1

\* Nothing is lost while the child lives, and the sentinel is the last line.
CountInv ==
  /\ child = "running" =>
       /\ ~eof
       /\ Len(replies) + Len(stdout) + Len(stdin) = timeouts + Waiting
  /\ child # "running" =>
       /\ stdin = <<>>
       /\ ~eof => Len(replies) + Len(stdout) <= timeouts + 1
       /\ eof => QueuedAnswers <= timeouts + 1
  /\ eof => stdout = <<>>
  /\ \A i \in 1..Len(replies) : replies[i] = EOF => eof /\ i = Len(replies)
  /\ \A i \in 1..Len(stdout) : stdout[i] > 0
  /\ \A i \in 1..Len(stdin) : stdin[i].ticket > 0

\* The ordered, gapless stream of answers that one lock buys.
StreamInv == LockInv /\ OrderInv /\ CountInv

\* What close() relies on, as long as no call has given up.
CloseInv ==
  /\ ~stdinOpen => closing \in {"wait", "over", "bailed"}
  /\ child = "killed" => closing = "over"
  /\ timeouts = 0 =>
       /\ child = "running" /\ closing \in {"eof", "wait"} => ~dbOpen
       /\ child = "running" /\ closing = "post" /\ pc[Main] = "waiting" =>
            /\ stdin = <<>> => ~dbOpen
            /\ stdin # <<>> => Head(stdin).tool = "close_database"

=============================================================================
