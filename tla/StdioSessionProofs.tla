------------------------ MODULE StdioSessionProofs ------------------------
(***************************************************************************)
(* What holds of StdioSession for every number of threads, calls and       *)
(* timeouts.  The chain is TypeOK, then the stream invariant (the pipes    *)
(* and the queue hold consecutive answers), then what a caller sees of it. *)
(***************************************************************************)
EXTENDS StdioSession, TLAPS

\* Sequences: the first element and the rest, the empty sequence.
LEMMA HeadTail ==
  ASSUME NEW S, NEW s \in Seq(S), s # <<>>
  PROVE  Head(s) \in S /\ Tail(s) \in Seq(S)
  OBVIOUS

\* An appended element is the last, and the others keep their places.
LEMMA AppendLast ==
  ASSUME NEW S, NEW s \in Seq(S), NEW e \in S
  PROVE  /\ Append(s, e) \in Seq(S)
         /\ Append(s, e) # <<>>
         /\ Len(Append(s, e)) = Len(s) + 1
         /\ Append(s, e)[Len(s) + 1] = e
         /\ \A i \in 1..Len(s) : Append(s, e)[i] = s[i]
         /\ \A i \in 1..(Len(s) + 1) : i \in 1..Len(s) \/ i = Len(s) + 1
  OBVIOUS

\* Taking the only element leaves nothing.
LEMMA OneElement ==
  ASSUME NEW S, NEW s \in Seq(S), Len(s) <= 1
  PROVE  s # <<>> => Tail(s) = <<>>
  OBVIOUS

\* The empty sequence is one over any set.
LEMMA EmptySeq == ASSUME NEW S PROVE <<>> \in Seq(S)
  OBVIOUS

\* The variables of a new session have their types.
LEMMA InitTypeOK == Init => TypeOK
<1> SUFFICES ASSUME Init PROVE TypeOK
  OBVIOUS
<1>1. stdin \in Seq([ticket : Nat, tool : Tools]) /\ stdout \in Seq(Nat) /\ replies \in Seq(Nat)
  BY EmptySeq DEF Init
<1>2. eof \in BOOLEAN /\ stdinOpen \in BOOLEAN /\ dbOpen \in BOOLEAN
  BY DEF Init
<1> QED
  BY <1>1, <1>2, SessionAssumption DEF Init, TypeOK, NoReply

\* A call's outcome leaves the four variables it touches well typed.
LEMMA ReturnTypeOK ==
  ASSUME TypeOK, NEW t \in Callers, NEW r \in Nat, Return(t, r)
  PROVE  /\ lock' \in Callers \cup {Nobody}
         /\ pc' \in [Callers -> {"idle", "locked", "waiting"}]
         /\ last' \in [Callers -> [ticket : Nat, reply : Nat]]
         /\ closing' \in {"no", "post", "eof", "wait", "over", "bailed"}
  BY DEF TypeOK, Return

\* Each step of a caller, the reader thread, close() or the child keeps the types.
LEMMA NextTypeOK == TypeOK /\ [Next]_vars => TypeOK'
<1> SUFFICES ASSUME TypeOK, [Next]_vars PROVE TypeOK'
  OBVIOUS
<1> USE SessionAssumption
<1>1. ASSUME NEW t \in Callers, Acquire(t) PROVE TypeOK'
  BY <1>1 DEF TypeOK, Acquire, HasCall, pipes
<1>2. ASSUME NEW t \in Callers, Send(t) PROVE TypeOK'
  BY <1>2 DEF TypeOK, Send, Tools
<1>3. ASSUME NEW t \in Callers, SendFails(t) PROVE TypeOK'
  <2>1. Return(t, NoReply) /\ NoReply \in Nat
    BY <1>3 DEF SendFails, NoReply
  <2> QED
    BY <1>3, <2>1, ReturnTypeOK DEF TypeOK, SendFails, pipes
<1>4. ASSUME NEW t \in Callers, Receive(t) PROVE TypeOK'
  <2>1. Head(replies) \in Nat /\ Tail(replies) \in Seq(Nat) /\ Return(t, Head(replies))
    <3>1. replies \in Seq(Nat) /\ replies # <<>> /\ Return(t, Head(replies))
      BY <1>4 DEF Receive, TypeOK
    <3> QED
      BY <3>1, HeadTail
  <2> QED
    BY <1>4, <2>1, ReturnTypeOK DEF TypeOK, Receive
<1>5. ASSUME NEW t \in Callers, GiveUp(t) PROVE TypeOK'
  <2>1. Return(t, NoReply) /\ NoReply \in Nat
    BY <1>5 DEF GiveUp, NoReply
  <2>2. timeouts' \in Nat
    BY <1>5 DEF GiveUp, TypeOK
  <2>3. UNCHANGED <<calls, ticket, sent, stdin, stdout, replies, eof, stdinOpen, child, dbOpen>>
    BY <1>5 DEF GiveUp, pipes
  <2> QED
    BY <2>1, <2>2, <2>3, ReturnTypeOK DEF TypeOK
<1>6. CASE ReadLine
  <2>1. Head(stdout) \in Nat /\ Tail(stdout) \in Seq(Nat)
    BY <1>6, HeadTail DEF TypeOK, ReadLine
  <2>2. replies' \in Seq(Nat)
    BY <1>6, <2>1, AppendLast DEF TypeOK, ReadLine
  <2> QED
    BY <1>6, <2>1, <2>2 DEF TypeOK, ReadLine
<1>7. CASE ReadEof
  BY <1>7 DEF TypeOK, ReadEof, EOF
<1>8. CASE Closer
  <2>1. CASE BeginClose
    BY <2>1 DEF TypeOK, BeginClose, pipes
  <2>2. CASE CloseStdin
    BY <2>2 DEF TypeOK, CloseStdin
  <2>3. CASE WaitExit
    BY <2>3 DEF TypeOK, WaitExit, pipes
  <2>4. CASE Kill
    BY <2>4, EmptySeq DEF TypeOK, Kill
  <2> QED
    BY <1>8, <2>1, <2>2, <2>3, <2>4 DEF Closer
<1>9. CASE Bail
  BY <1>9 DEF TypeOK, Bail
<1>10. CASE Serve
  <2>1. Head(stdin) \in [ticket : Nat, tool : Tools] /\ Tail(stdin) \in Seq([ticket : Nat, tool : Tools])
    BY <1>10, HeadTail DEF TypeOK, Serve
  <2>2. stdout' \in Seq(Nat) /\ dbOpen' \in BOOLEAN
    BY <1>10, <2>1 DEF TypeOK, Serve
  <2> QED
    BY <1>10, <2>1, <2>2 DEF TypeOK, Serve
<1>11. CASE ChildExit
  BY <1>11 DEF TypeOK, ChildExit, pipes
<1>12. CASE Crash
  BY <1>12 DEF TypeOK, Crash
<1>13. CASE UNCHANGED vars
  BY <1>13 DEF TypeOK, vars, pipes
<1> QED
  BY <1>1, <1>2, <1>3, <1>4, <1>5, <1>6, <1>7, <1>8, <1>9, <1>10, <1>11, <1>12, <1>13
  DEF Next, Caller, Reader, Finished

\* Every variable keeps its type, in a session of any size.
THEOREM TypeCorrect == Spec => []TypeOK
  BY InitTypeOK, NextTypeOK, PTL DEF Spec

-----------------------------------------------------------------------------
(* The stream invariant.                                                   *)

\* The lock tells who is inside _post, so it tells whether a call waits.
LEMMA WaitingOf ==
  ASSUME TypeOK, LockInv, NEW t \in Callers, pc[t] # "idle"
  PROVE  lock = t /\ Waiting = IF pc[t] = "waiting" THEN 1 ELSE 0
  BY SessionAssumption DEF LockInv, Waiting, TypeOK, Callers

\* A call that ends leaves nobody waiting.
LEMMA ReturnWaiting ==
  ASSUME TypeOK, LockInv, NEW t \in Callers, pc[t] # "idle", NEW r, Return(t, r)
  PROVE  /\ Waiting' = 0
         /\ \A u \in Callers : pc'[u] = "idle" /\ lock' # u
<1>1. lock = t /\ lock' = Nobody /\ pc' = [pc EXCEPT ![t] = "idle"]
  BY WaitingOf DEF Return
<1>2. Nobody \notin Callers
  BY SessionAssumption DEF Callers
<1> QED
  BY <1>1, <1>2 DEF Waiting, LockInv, TypeOK

\* The steps of the child, the reader and close() do not touch the calls.
CallsUnchanged == UNCHANGED <<lock, pc, ticket, sent, timeouts>>

\* Steps that are not a caller's leave the calls as they are.
LEMMA OtherSteps ==
  ASSUME Reader \/ Closer \/ Bail \/ Serve \/ ChildExit \/ Crash \/ UNCHANGED vars
  PROVE  CallsUnchanged
<1>1. CASE Reader
  BY <1>1 DEF Reader, ReadLine, ReadEof, CallsUnchanged
<1>2. CASE Closer
  BY <1>2 DEF Closer, BeginClose, CloseStdin, WaitExit, Kill, CallsUnchanged
<1>3. CASE Bail
  BY <1>3 DEF Bail, CallsUnchanged
<1>4. CASE Serve \/ ChildExit \/ Crash
  BY <1>4 DEF Serve, ChildExit, Crash, CallsUnchanged
<1>5. CASE UNCHANGED vars
  BY <1>5 DEF vars, CallsUnchanged
<1> QED
  BY <1>1, <1>2, <1>3, <1>4, <1>5

\* The thread inside _post stays the lock's owner and the last to have written.
LEMMA NextLockInv == TypeOK /\ LockInv /\ [Next]_vars => LockInv'
<1> SUFFICES ASSUME TypeOK, LockInv, [Next]_vars PROVE LockInv'
  OBVIOUS
<1>0. Nobody \notin Callers
  BY SessionAssumption DEF Callers
<1>1. ASSUME NEW t \in Callers, Acquire(t) PROVE LockInv'
  BY <1>0, <1>1 DEF LockInv, Acquire, TypeOK
<1>2. ASSUME NEW t \in Callers, Send(t) PROVE LockInv'
  BY <1>2 DEF LockInv, Send, TypeOK
<1>3. ASSUME NEW t \in Callers, SendFails(t) \/ Receive(t) \/ GiveUp(t) PROVE LockInv'
  <2>1. pc[t] # "idle" /\ \E r : Return(t, r)
    BY <1>3 DEF SendFails, Receive, GiveUp
  <2> QED
    BY <2>1, ReturnWaiting DEF LockInv
<1>4. CASE CallsUnchanged
  BY <1>4 DEF CallsUnchanged, LockInv
<1> QED
  BY <1>1, <1>2, <1>3, <1>4, OtherSteps DEF Next, Caller, Finished

\* Receive takes the head, and the call that took it no longer waits.
LEMMA ReceiveStream ==
  ASSUME TypeOK, StreamInv, NEW t \in Callers, Receive(t)
  PROVE  OrderInv' /\ CountInv'
<1>1. Waiting = 1 /\ Waiting' = 0
  BY WaitingOf, ReturnWaiting DEF Receive, StreamInv
<1>2. /\ replies # <<>> /\ replies' = Tail(replies)
      /\ UNCHANGED <<sent, timeouts, stdin, stdout, eof, child>>
  BY DEF Receive
<1>3. /\ NextAnswer \in Int /\ NextAnswer' = NextAnswer + 1
      /\ sent \in Nat /\ timeouts \in Nat
  BY <1>1, <1>2 DEF NextAnswer, TypeOK
<1>4. /\ replies \in Seq(Nat) /\ replies' \in Seq(Nat)
      /\ Len(replies) \in Nat /\ Len(replies') = Len(replies) - 1
      /\ \A i \in 1..Len(replies') : i + 1 \in 1..Len(replies) /\ replies'[i] = replies[i + 1]
  BY <1>2 DEF TypeOK
<1>5. stdin \in Seq([ticket : Nat, tool : Tools]) /\ stdout \in Seq(Nat)
      /\ Len(stdin) \in Nat /\ Len(stdout) \in Nat
  BY DEF TypeOK
<1>6. OrderInv'
  <2>1. \A i \in 1..Len(replies') : replies'[i] # EOF => replies'[i] = NextAnswer' + i - 1
    <3> TAKE i \in 1..Len(replies')
    <3>1. i \in Int /\ i + 1 \in 1..Len(replies) /\ replies'[i] = replies[i + 1]
      <4>1. i + 1 \in 1..Len(replies) /\ replies'[i] = replies[i + 1]
        BY <1>4, Zenon
      <4> QED
        BY <4>1
    <3>2. replies[i + 1] # EOF => replies[i + 1] = NextAnswer + (i + 1) - 1
      BY <3>1 DEF StreamInv, OrderInv
    <3> QED
      BY <3>1, <3>2, <1>3
  <2>2. \A i \in 1..Len(stdout) : stdout[i] = NextAnswer' + Len(replies') + i - 1
    BY <1>3, <1>4, <1>5 DEF StreamInv, OrderInv
  <2>3. \A i \in 1..Len(stdin) :
          stdin[i].ticket = NextAnswer' + Len(replies') + Len(stdout) + i - 1
    BY <1>3, <1>4, <1>5 DEF StreamInv, OrderInv
  <2> QED
    BY <2>1, <2>2, <2>3, <1>2 DEF OrderInv
<1>7. CountInv'
  <2>1. \A i \in 1..Len(replies') : replies'[i] = EOF => eof /\ i = Len(replies')
    <3> TAKE i \in 1..Len(replies')
    <3>1. i \in Int /\ i + 1 \in 1..Len(replies) /\ replies'[i] = replies[i + 1]
      BY <1>4
    <3>2. replies[i + 1] = EOF => eof /\ i + 1 = Len(replies)
      BY <3>1 DEF StreamInv, CountInv
    <3> QED
      BY <3>1, <3>2, <1>4
  <2>2. child = "running" => Len(replies') + Len(stdout) + Len(stdin) = timeouts
    BY <1>1, <1>3, <1>4, <1>5 DEF StreamInv, CountInv
  <2>3. child # "running" /\ ~eof => Len(replies') + Len(stdout) <= timeouts + 1
    BY <1>3, <1>4, <1>5 DEF StreamInv, CountInv
  <2>4. child # "running" /\ eof => QueuedAnswers' <= timeouts + 1
    <3>1. CASE replies' = <<>>
      BY <3>1, <1>3, <1>4 DEF QueuedAnswers
    <3>2. CASE replies' # <<>>
      <4>1. Len(replies') \in 1..Len(replies') /\ replies'[Len(replies')] = replies[Len(replies)]
        BY <3>2, <1>4
      <4>2. QueuedAnswers' <= QueuedAnswers
        BY <3>2, <4>1, <1>2, <1>4 DEF QueuedAnswers
      <4>3. QueuedAnswers \in Int /\ QueuedAnswers' \in Int
        BY <1>4 DEF QueuedAnswers
      <4> QED
        BY <4>2, <4>3, <1>3 DEF StreamInv, CountInv
    <3> QED
      BY <3>1, <3>2
  <2> QED
    BY <2>1, <2>2, <2>3, <2>4, <1>1, <1>2, <1>3 DEF StreamInv, CountInv
<1> QED
  BY <1>6, <1>7

\* The lines of the two pipes and the queue, by their types.
LEMMA PipeTypes ==
  ASSUME TypeOK
  PROVE  /\ stdin \in Seq([ticket : Nat, tool : Tools]) /\ Len(stdin) \in Nat
         /\ stdout \in Seq(Nat) /\ Len(stdout) \in Nat
         /\ replies \in Seq(Nat) /\ Len(replies) \in Nat
         /\ sent \in Nat /\ timeouts \in Nat
         /\ Waiting \in 0..1 /\ NextAnswer \in Int
  BY DEF TypeOK, Waiting, NextAnswer

\* Send appends the ticket that is due next.
LEMMA SendStream ==
  ASSUME TypeOK, StreamInv, NEW t \in Callers, Send(t)
  PROVE  OrderInv' /\ CountInv'
<1>1. Waiting = 0 /\ Waiting' = 1
  <2>1. lock = t /\ Waiting = 0
    BY WaitingOf DEF Send, StreamInv
  <2>2. lock' = t /\ pc'[t] = "waiting" /\ t # Nobody
    BY <2>1, SessionAssumption DEF Send, TypeOK, Callers
  <2> QED
    BY <2>1, <2>2 DEF Waiting
<1>2. PICK r \in [ticket : Nat, tool : Tools] :
        stdin' = Append(stdin, r) /\ r.ticket = sent + 1
  <2> DEFINE r == [ticket |-> sent + 1,
                   tool |-> IF t = Main /\ closing = "post"
                            THEN "close_database" ELSE "query"]
  <2>1. stdin' = Append(stdin, r)
    BY DEF Send
  <2>2. r \in [ticket : Nat, tool : Tools] /\ r.ticket = sent + 1
    BY PipeTypes DEF Tools
  <2> QED
    BY <2>1, <2>2
<1>3. /\ child = "running" /\ sent' = sent + 1
      /\ UNCHANGED <<timeouts, stdout, replies, eof, child>>
  BY DEF Send
<1>4. NextAnswer' = NextAnswer /\ NextAnswer = sent - timeouts + 1
  BY <1>1, <1>3, PipeTypes DEF NextAnswer
<1>5. ~eof /\ Len(replies) + Len(stdout) + Len(stdin) = timeouts
  BY <1>1, <1>3, PipeTypes DEF StreamInv, CountInv
<1>6. /\ Len(stdin') = Len(stdin) + 1
      /\ \A i \in 1..Len(stdin') : \/ i \in 1..Len(stdin) /\ stdin'[i] = stdin[i]
                                   \/ i = Len(stdin) + 1 /\ stdin'[i] = r
  BY <1>2, AppendLast, PipeTypes
<1>7. OrderInv'
  <2>1. \A i \in 1..Len(stdin') :
          stdin'[i].ticket = NextAnswer + Len(replies) + Len(stdout) + i - 1
    <3> TAKE i \in 1..Len(stdin')
    <3>1. CASE i \in 1..Len(stdin) /\ stdin'[i] = stdin[i]
      BY <3>1, <1>4 DEF StreamInv, OrderInv
    <3>2. CASE i = Len(stdin) + 1 /\ stdin'[i] = r
      <4>1. stdin'[i].ticket = sent + 1
        BY <3>2, <1>2
      <4>2. i = Len(stdin) + 1
        BY <3>2
      <4>3. /\ NextAnswer = sent - timeouts + 1
            /\ Len(replies) + Len(stdout) + Len(stdin) = timeouts
            /\ sent \in Nat /\ timeouts \in Nat
            /\ Len(replies) \in Nat /\ Len(stdout) \in Nat /\ Len(stdin) \in Nat
        BY <1>4, <1>5, PipeTypes
      <4>4. NextAnswer + Len(replies) + Len(stdout) + i - 1 = sent + 1
        BY <4>2, <4>3
      <4> QED
        BY <4>1, <4>4
    <3> QED
      BY <3>1, <3>2, <1>6
  <2> QED
    BY <2>1, <1>3, <1>4 DEF StreamInv, OrderInv
<1>8. CountInv'
  <2>1. \A i \in 1..Len(stdin') : stdin'[i].ticket > 0
    <3> TAKE i \in 1..Len(stdin')
    <3>1. CASE i \in 1..Len(stdin) /\ stdin'[i] = stdin[i]
      BY <3>1 DEF StreamInv, CountInv
    <3>2. CASE i = Len(stdin) + 1 /\ stdin'[i] = r
      BY <3>2, <1>2, PipeTypes
    <3> QED
      BY <3>1, <3>2, <1>6
  <2>2. Len(replies) + Len(stdout) + Len(stdin') = timeouts + Waiting'
    BY <1>1, <1>5, <1>6, PipeTypes
  <2> QED
    BY <2>1, <2>2, <1>3, <1>5 DEF StreamInv, CountInv
<1> QED
  BY <1>7, <1>8

\* A bound holds of a larger count (used when a call gives up).
LEMMA WeakerBound ==
  ASSUME NEW u \in Nat, NEW v \in Nat, v >= u
  PROVE  \A q \in Int : q <= u + 1 => q <= v + 1
  OBVIOUS

\* A call that gives up leaves its answer in the stream; one that could not
\* write leaves nothing.
LEMMA EndStream ==
  ASSUME TypeOK, StreamInv, NEW t \in Callers, SendFails(t) \/ GiveUp(t)
  PROVE  OrderInv' /\ CountInv'
<1>1. UNCHANGED <<sent, stdin, stdout, replies, eof, child>>
  BY DEF SendFails, GiveUp, pipes
<1>2. Waiting' = 0
  BY ReturnWaiting DEF SendFails, GiveUp, StreamInv
<1>3. timeouts' \in Nat /\ timeouts' + Waiting' = timeouts + Waiting /\ timeouts' >= timeouts
  <2>1. CASE SendFails(t)
    <3>1. Waiting = 0
      BY <2>1, WaitingOf DEF SendFails, StreamInv
    <3>2. timeouts' = timeouts
      BY <2>1 DEF SendFails
    <3> QED
      BY <3>1, <3>2, <1>2, PipeTypes
  <2>2. CASE GiveUp(t)
    BY <2>2, <1>2, WaitingOf, PipeTypes DEF GiveUp, StreamInv
  <2> QED
    BY <2>1, <2>2
<1>4. NextAnswer' = NextAnswer
  BY <1>1, <1>2, <1>3, PipeTypes DEF NextAnswer
<1>5. OrderInv'
  BY <1>1, <1>4 DEF StreamInv, OrderInv
<1>6. QueuedAnswers' = QueuedAnswers /\ QueuedAnswers \in Int
  BY <1>1, PipeTypes DEF QueuedAnswers
<1>7. CountInv'
  <2>1. Len(replies) + Len(stdout) <= timeouts + 1
          => Len(replies) + Len(stdout) <= timeouts' + 1
    BY <1>3, PipeTypes
  <2>2. QueuedAnswers <= timeouts + 1 => QueuedAnswers' <= timeouts' + 1
    <3>1. timeouts \in Nat /\ timeouts' \in Nat /\ timeouts' >= timeouts
      BY <1>3, PipeTypes
    <3> QED
      BY <3>1, <1>6, WeakerBound
  <2> QED
    BY <2>1, <2>2, <1>1, <1>3 DEF StreamInv, CountInv
<1> QED
  BY <1>5, <1>7

\* With the calls as they were, only the lines' places matter.
LEMMA CallsUnchangedStream ==
  ASSUME TypeOK, CallsUnchanged
  PROVE  Waiting' = Waiting /\ NextAnswer' = NextAnswer
  BY DEF CallsUnchanged, Waiting, NextAnswer

\* The reader thread moves a line from stdout to the queue: the stream stays in order.
LEMMA ReaderStream ==
  ASSUME TypeOK, StreamInv, Reader
  PROVE  OrderInv' /\ CountInv'
<1>1. Waiting' = Waiting /\ NextAnswer' = NextAnswer
  BY OtherSteps, CallsUnchangedStream
<1>2. CASE ReadLine
  <2>1. /\ stdout # <<>> /\ replies' = Append(replies, stdout[1]) /\ stdout' = Tail(stdout)
        /\ UNCHANGED <<sent, timeouts, stdin, eof, child>>
    BY <1>2 DEF ReadLine
  <2>2. /\ Len(stdout) >= 1 /\ Len(stdout') = Len(stdout) - 1
        /\ \A i \in 1..Len(stdout') : i + 1 \in 1..Len(stdout) /\ stdout'[i] = stdout[i + 1]
    BY <2>1, PipeTypes
  <2>3. /\ Len(replies') = Len(replies) + 1
        /\ \A i \in 1..Len(replies') : \/ i \in 1..Len(replies) /\ replies'[i] = replies[i]
                                       \/ i = Len(replies) + 1 /\ replies'[i] = stdout[1]
    <3>1. stdout[1] \in Nat
      BY <2>1, PipeTypes
    <3> QED
      BY <2>1, <3>1, AppendLast, PipeTypes
  <2>4. stdout[1] = NextAnswer + Len(replies) /\ stdout[1] > 0 /\ ~eof
    <3>1. 1 \in 1..Len(stdout)
      BY <2>2, PipeTypes
    <3>2. stdout[1] = NextAnswer + Len(replies) + 1 - 1
      BY <3>1 DEF StreamInv, OrderInv
    <3>3. stdout[1] > 0 /\ ~eof
      BY <2>1, <3>1 DEF StreamInv, CountInv
    <3> QED
      BY <3>2, <3>3, PipeTypes
  <2>5. \A i \in 1..Len(replies') : replies'[i] # EOF
    <3> TAKE i \in 1..Len(replies')
    <3>1. CASE i \in 1..Len(replies) /\ replies'[i] = replies[i]
      BY <3>1, <2>4 DEF StreamInv, CountInv
    <3>2. CASE replies'[i] = stdout[1]
      BY <3>2, <2>4, PipeTypes DEF EOF
    <3> QED
      BY <3>1, <3>2, <2>3
  <2>6. OrderInv'
    <3>1. \A i \in 1..Len(replies') : replies'[i] = NextAnswer + i - 1
      <4> TAKE i \in 1..Len(replies')
      <4>1. CASE i \in 1..Len(replies) /\ replies'[i] = replies[i]
        BY <4>1, <2>5 DEF StreamInv, OrderInv
      <4>2. CASE i = Len(replies) + 1 /\ replies'[i] = stdout[1]
        BY <4>2, <2>4, PipeTypes
      <4> QED
        BY <4>1, <4>2, <2>3
    <3>2. \A i \in 1..Len(stdout') : stdout'[i] = NextAnswer + Len(replies') + i - 1
      <4> TAKE i \in 1..Len(stdout')
      <4>1. i + 1 \in 1..Len(stdout) /\ stdout'[i] = stdout[i + 1]
        BY <2>2, Zenon
      <4>2. stdout[i + 1] = NextAnswer + Len(replies) + (i + 1) - 1
        BY <4>1 DEF StreamInv, OrderInv
      <4> QED
        BY <4>1, <4>2, <2>3, PipeTypes
    <3>3. \A i \in 1..Len(stdin) :
            stdin[i].ticket = NextAnswer + Len(replies') + Len(stdout') + i - 1
      BY <2>2, <2>3, PipeTypes DEF StreamInv, OrderInv
    <3> QED
      BY <3>1, <3>2, <3>3, <2>1, <1>1 DEF OrderInv
  <2>7. CountInv'
    <3>1. Len(replies') + Len(stdout') = Len(replies) + Len(stdout)
      BY <2>2, <2>3, PipeTypes
    <3>2. \A i \in 1..Len(stdout') : stdout'[i] > 0
      BY <2>2, PipeTypes DEF StreamInv, CountInv
    <3> QED
      BY <3>1, <3>2, <2>1, <2>2, <2>3, <2>4, <2>5, <1>1, PipeTypes DEF StreamInv, CountInv
  <2> QED
    BY <2>6, <2>7
<1>3. CASE ReadEof
  <2>1. /\ stdout = <<>> /\ child # "running" /\ ~eof /\ eof'
        /\ replies' = Append(replies, EOF)
        /\ UNCHANGED <<sent, timeouts, stdin, stdout, child>>
    BY <1>3 DEF ReadEof
  <2>2. /\ Len(replies') = Len(replies) + 1
        /\ \A i \in 1..Len(replies') : \/ i \in 1..Len(replies) /\ replies'[i] = replies[i]
                                       \/ i = Len(replies) + 1 /\ replies'[i] = EOF
        /\ replies'[Len(replies')] = EOF /\ replies' # <<>>
    <3>1. EOF \in Nat
      BY DEF EOF
    <3> QED
      BY <2>1, <3>1, AppendLast, PipeTypes
  <2>3. stdin = <<>> /\ Len(replies) <= timeouts + 1
    BY <2>1, PipeTypes DEF StreamInv, CountInv
  <2>4. OrderInv'
    BY <2>1, <2>2, <2>3, <1>1, PipeTypes DEF StreamInv, OrderInv
  <2>5. QueuedAnswers' = Len(replies)
    BY <2>2, PipeTypes DEF QueuedAnswers
  <2>6. CountInv'
    BY <2>1, <2>2, <2>3, <2>5, PipeTypes DEF StreamInv, CountInv
  <2> QED
    BY <2>4, <2>6
<1> QED
  BY <1>2, <1>3 DEF Reader

\* The child turns the first request into the last reply, or the stream ends: it stays in order.
LEMMA ChildStream ==
  ASSUME TypeOK, StreamInv, Closer \/ Bail \/ Serve \/ ChildExit \/ Crash \/ UNCHANGED vars
  PROVE  OrderInv' /\ CountInv'
<1>1. Waiting' = Waiting /\ NextAnswer' = NextAnswer /\ UNCHANGED <<sent, timeouts>>
  BY OtherSteps, CallsUnchangedStream DEF CallsUnchanged
<1>2. CASE Serve
  <2>1. /\ stdin # <<>> /\ stdin' = Tail(stdin) /\ child = "running"
        /\ stdout' = Append(stdout, stdin[1].ticket)
        /\ UNCHANGED <<replies, eof, child>>
    BY <1>2 DEF Serve
  <2>2. /\ Len(stdin) >= 1 /\ Len(stdin') = Len(stdin) - 1
        /\ \A i \in 1..Len(stdin') : i + 1 \in 1..Len(stdin) /\ stdin'[i] = stdin[i + 1]
    BY <2>1, PipeTypes
  <2>3. stdin[1].ticket = NextAnswer + Len(replies) + Len(stdout) /\ stdin[1].ticket > 0
    <3>1. 1 \in 1..Len(stdin)
      BY <2>2, PipeTypes
    <3>2. stdin[1].ticket = NextAnswer + Len(replies) + Len(stdout) + 1 - 1
      BY <3>1 DEF StreamInv, OrderInv
    <3>3. stdin[1].ticket > 0
      BY <3>1 DEF StreamInv, CountInv
    <3> QED
      BY <3>2, <3>3, PipeTypes
  <2>4. stdin[1].ticket \in Nat
    <3>1. Head(stdin) \in [ticket : Nat, tool : Tools]
      BY <2>1, HeadTail, PipeTypes
    <3>2. Head(stdin) = stdin[1]
      BY <2>1, PipeTypes
    <3> QED
      BY <3>1, <3>2
  <2>5. /\ Len(stdout') = Len(stdout) + 1
        /\ \A i \in 1..Len(stdout') : \/ i \in 1..Len(stdout) /\ stdout'[i] = stdout[i]
                                      \/ i = Len(stdout) + 1 /\ stdout'[i] = stdin[1].ticket
    BY <2>1, <2>4, AppendLast, PipeTypes
  <2>6. OrderInv'
    <3>1. \A i \in 1..Len(stdout') : stdout'[i] = NextAnswer + Len(replies) + i - 1
      <4> TAKE i \in 1..Len(stdout')
      <4>1. CASE i \in 1..Len(stdout) /\ stdout'[i] = stdout[i]
        BY <4>1 DEF StreamInv, OrderInv
      <4>2. CASE i = Len(stdout) + 1 /\ stdout'[i] = stdin[1].ticket
        BY <4>2, <2>3, PipeTypes
      <4> QED
        BY <4>1, <4>2, <2>5
    <3>2. \A i \in 1..Len(stdin') :
            stdin'[i].ticket = NextAnswer + Len(replies) + Len(stdout') + i - 1
      <4> TAKE i \in 1..Len(stdin')
      <4>1. /\ i \in Int /\ stdin'[i] = stdin[i + 1]
            /\ stdin[i + 1].ticket = NextAnswer + Len(replies) + Len(stdout) + (i + 1) - 1
        BY <2>2 DEF StreamInv, OrderInv
      <4> QED
        BY <4>1, <2>5, PipeTypes
    <3> QED
      BY <3>1, <3>2, <2>1, <1>1 DEF StreamInv, OrderInv
  <2>7. CountInv'
    <3>1. ~eof /\ Len(replies) + Len(stdout') + Len(stdin') = timeouts + Waiting
      BY <2>1, <2>2, <2>5, PipeTypes DEF StreamInv, CountInv
    <3>2. \A i \in 1..Len(stdout') : stdout'[i] > 0
      BY <2>3, <2>5, PipeTypes DEF StreamInv, CountInv
    <3>3. \A i \in 1..Len(stdin') : stdin'[i].ticket > 0
      BY <2>2, PipeTypes DEF StreamInv, CountInv
    <3> QED
      BY <3>1, <3>2, <3>3, <2>1, <1>1 DEF StreamInv, CountInv
  <2> QED
    BY <2>6, <2>7
<1>3. CASE Kill \/ Crash
  <2>1. /\ child = "running" /\ child' # "running" /\ stdin' = <<>>
        /\ UNCHANGED <<stdout, replies, eof>>
    BY <1>3 DEF Kill, Crash
  <2>2. ~eof /\ Len(replies) + Len(stdout) <= timeouts + 1
    BY <2>1, PipeTypes DEF StreamInv, CountInv
  <2> QED
    BY <2>1, <2>2, <1>1 DEF StreamInv, OrderInv, CountInv
<1>4. CASE ChildExit
  <2>1. /\ child = "running" /\ child' # "running" /\ stdin = <<>>
        /\ UNCHANGED <<stdin, stdout, replies, eof>>
    BY <1>4 DEF ChildExit, pipes
  <2>2. ~eof /\ Len(replies) + Len(stdout) <= timeouts + 1
    BY <2>1, PipeTypes DEF StreamInv, CountInv
  <2> QED
    BY <2>1, <2>2, <1>1 DEF StreamInv, OrderInv, CountInv
<1>5. ASSUME UNCHANGED <<stdin, stdout, replies, eof, child>> PROVE OrderInv' /\ CountInv'
  BY <1>1, <1>5 DEF StreamInv, OrderInv, CountInv, QueuedAnswers
<1>6. CASE BeginClose \/ CloseStdin \/ WaitExit \/ Bail \/ UNCHANGED vars
  BY <1>5, <1>6 DEF BeginClose, CloseStdin, WaitExit, Bail, vars, pipes
<1> QED
  BY <1>2, <1>3, <1>4, <1>6 DEF Closer

\* The stream invariant is inductive, given the types.
LEMMA NextStreamInv == TypeOK /\ StreamInv /\ [Next]_vars => StreamInv'
<1> SUFFICES ASSUME TypeOK, StreamInv, [Next]_vars PROVE OrderInv' /\ CountInv'
  BY NextLockInv DEF StreamInv
<1>1. ASSUME NEW t \in Callers, Acquire(t) PROVE OrderInv' /\ CountInv'
  <2>1. UNCHANGED <<sent, timeouts, stdin, stdout, replies, eof, child>>
    BY <1>1 DEF Acquire, pipes
  <2>2. Waiting = 0 /\ Waiting' = 0
    BY <1>1, SessionAssumption DEF Acquire, Waiting, TypeOK, Callers
  <2>3. NextAnswer' = NextAnswer
    BY <2>1, <2>2 DEF NextAnswer
  <2> QED
    BY <2>1, <2>2, <2>3 DEF StreamInv, OrderInv, CountInv, QueuedAnswers
<1> QED
  BY <1>1, SendStream, ReceiveStream, EndStream, ReaderStream, ChildStream
  DEF Next, Caller, Finished

\* A new session's stream is empty.
LEMMA InitStreamInv == Init => StreamInv
  BY SessionAssumption DEF Init, StreamInv, LockInv, OrderInv, CountInv, Waiting, Callers

\* The pipes and the queue hold consecutive answers, whatever times out.
THEOREM StreamCorrect == Spec => []StreamInv
  BY InitTypeOK, NextTypeOK, InitStreamInv, NextStreamInv, PTL DEF Spec

-----------------------------------------------------------------------------
(* What a caller sees of the stream.                                       *)

\* The head of the queue is NextAnswer, and the waiting call wrote last.
LEMMA StreamShifted == TypeOK /\ StreamInv => ShiftedByTimeouts
<1> SUFFICES ASSUME TypeOK, StreamInv, NEW t \in Callers,
                    pc[t] = "waiting", replies # <<>>, Head(replies) # EOF
             PROVE  Head(replies) = ticket[t] - timeouts
  BY DEF ShiftedByTimeouts
<1>1. Waiting = 1 /\ ticket[t] = sent
  BY WaitingOf DEF StreamInv, LockInv
<1>2. 1 \in 1..Len(replies) /\ Head(replies) = replies[1]
  BY PipeTypes
<1>3. Head(replies) = NextAnswer + 1 - 1
  BY <1>2 DEF StreamInv, OrderInv
<1> QED
  BY <1>1, <1>3, PipeTypes DEF NextAnswer

\* A waiting call takes the answer to the request `timeouts` places before its
\* own: every call that gave up shifts all later answers by one.
THEOREM AnswersShift == Spec => []ShiftedByTimeouts
  BY TypeCorrect, StreamCorrect, StreamShifted, PTL

\* The count of the stream bounds the backlog.
LEMMA StreamBounded == TypeOK /\ StreamInv => BacklogBounded
<1> SUFFICES ASSUME TypeOK, StreamInv PROVE BacklogBounded
  OBVIOUS
<1>1. QueuedAnswers \in Int /\ QueuedAnswers <= Len(replies)
  BY PipeTypes DEF QueuedAnswers
<1>2. CASE child = "running"
  <2>1. Len(replies) + Len(stdout) + Len(stdin) <= timeouts + 1
    BY <1>2, PipeTypes DEF StreamInv, CountInv
  <2> QED
    BY <2>1, <1>1, PipeTypes DEF BacklogBounded
<1>3. CASE child # "running" /\ ~eof
  <2>1. Len(replies) + Len(stdout) <= timeouts + 1 /\ Len(stdin) = 0
    BY <1>3, PipeTypes DEF StreamInv, CountInv
  <2> QED
    BY <2>1, <1>1, PipeTypes DEF BacklogBounded
<1>4. CASE child # "running" /\ eof
  <2>1. QueuedAnswers <= timeouts + 1 /\ Len(stdin) = 0 /\ Len(stdout) = 0
    BY <1>4, PipeTypes DEF StreamInv, CountInv
  <2> QED
    BY <2>1, <1>1, PipeTypes DEF BacklogBounded
<1> QED
  BY <1>2, <1>3, <1>4

\* No more lines are under way than calls that gave up, and the one that waits.
THEOREM BacklogCorrect == Spec => []BacklogBounded
  BY TypeCorrect, StreamCorrect, StreamBounded, PTL

-----------------------------------------------------------------------------
(* Until a call gives up (with --timeout 0, for ever).                     *)

\* A count of calls that gave up never shrinks.
LEMMA TimeoutsGrow ==
  ASSUME TypeOK, [Next]_vars, timeouts' = 0
  PROVE  timeouts = 0 /\ \A t \in Callers : ~GiveUp(t)
<1>1. timeouts \in Nat
  BY PipeTypes
<1>2. ASSUME NEW t \in Callers, GiveUp(t) PROVE FALSE
  BY <1>1, <1>2 DEF GiveUp
<1>3. UNCHANGED timeouts \/ \E t \in Callers : GiveUp(t)
  <2>1. ASSUME NEW t \in Callers, Caller(t) PROVE UNCHANGED timeouts \/ GiveUp(t)
    BY <2>1 DEF Caller, Acquire, Send, SendFails, Receive
  <2>2. CASE Reader \/ Closer \/ Bail
    BY <2>2 DEF Reader, ReadLine, ReadEof, Closer, BeginClose, CloseStdin, WaitExit, Kill, Bail
  <2>3. CASE Serve \/ ChildExit \/ Crash \/ UNCHANGED vars
    BY <2>3 DEF Serve, ChildExit, Crash, vars
  <2> QED
    BY <2>1, <2>2, <2>3 DEF Next, Finished
<1> QED
  BY <1>2, <1>3

\* No call has returned in a new session.
LEMMA InitOwn == Init => OwnUntilTimeout
  BY DEF Init, OwnUntilTimeout, AnswersOwnRequest

\* A call that takes a reply before any has given up takes its own.
LEMMA NextOwn == TypeOK /\ StreamInv /\ OwnUntilTimeout /\ [Next]_vars => OwnUntilTimeout'
<1> SUFFICES ASSUME TypeOK, StreamInv, OwnUntilTimeout, [Next]_vars, timeouts' = 0
             PROVE  AnswersOwnRequest'
  BY DEF OwnUntilTimeout
<1>1. timeouts = 0 /\ \A t \in Callers : ~GiveUp(t)
  BY TimeoutsGrow
<1>2. AnswersOwnRequest
  BY <1>1 DEF OwnUntilTimeout
<1>3. ASSUME NEW t \in Callers, NEW r, Return(t, r), r # NoReply => r = ticket[t],
             ticket' = ticket
      PROVE  AnswersOwnRequest'
  <2>1. last' = [last EXCEPT ![t] = [ticket |-> ticket[t], reply |-> r]]
    BY <1>3 DEF Return
  <2> SUFFICES ASSUME NEW u \in Callers, last'[u].reply # NoReply
               PROVE  last'[u].reply = last'[u].ticket
    BY DEF AnswersOwnRequest
  <2>2. CASE u = t
    BY <2>1, <2>2, <1>3 DEF TypeOK
  <2>3. CASE u # t
    <3>1. last'[u] = last[u]
      BY <2>1, <2>3 DEF TypeOK
    <3> QED
      BY <3>1, <1>2 DEF AnswersOwnRequest
  <2> QED
    BY <2>2, <2>3
<1>4. ASSUME NEW t \in Callers, Receive(t) PROVE AnswersOwnRequest'
  <2>1. Return(t, Head(replies)) /\ pc[t] = "waiting" /\ replies # <<>> /\ ticket' = ticket
    BY <1>4 DEF Receive
  <2>2. Head(replies) # EOF => Head(replies) = ticket[t] - timeouts
    BY <2>1, StreamShifted DEF ShiftedByTimeouts
  <2>3. ticket[t] \in Nat
    BY DEF TypeOK
  <2>4. Head(replies) # NoReply => Head(replies) = ticket[t]
    BY <2>2, <2>3, <1>1 DEF EOF, NoReply
  <2> QED
    BY <2>1, <2>4, <1>3
<1>5. ASSUME NEW t \in Callers, SendFails(t) PROVE AnswersOwnRequest'
  BY <1>3, <1>5 DEF SendFails
<1>6. ASSUME UNCHANGED last PROVE AnswersOwnRequest'
  BY <1>2, <1>6 DEF AnswersOwnRequest
<1>7. ASSUME NEW t \in Callers, Acquire(t) \/ Send(t) PROVE AnswersOwnRequest'
  BY <1>6, <1>7 DEF Acquire, Send
<1>8. CASE Reader \/ Closer \/ Bail
  BY <1>6, <1>8 DEF Reader, ReadLine, ReadEof, Closer, BeginClose, CloseStdin, WaitExit, Kill, Bail
<1>9. CASE Serve \/ ChildExit \/ Crash \/ UNCHANGED vars
  BY <1>6, <1>9 DEF Serve, ChildExit, Crash, vars
<1> QED
  BY <1>1, <1>4, <1>5, <1>7, <1>8, <1>9 DEF Next, Caller, Finished

\* close() has not begun in a new session.
LEMMA InitCloseInv == Init => CloseInv
  BY SessionAssumption DEF Init, CloseInv, Callers

\* A step that ends a call: close() goes on from "post" only when its answer
\* came, and then the child has served close_database.
LEMMA ReturnCloseInv ==
  ASSUME TypeOK, StreamInv, CloseInv, NEW t \in Callers,
         SendFails(t) \/ Receive(t) \/ GiveUp(t)
  PROVE  CloseInv'
<1>1. /\ pc[t] # "idle" /\ UNCHANGED <<stdinOpen, child, dbOpen, stdin>>
      /\ closing' = IF t = Main /\ closing = "post" THEN "eof" ELSE closing
      /\ closing # "bailed"
  BY DEF SendFails, Receive, GiveUp, Return, pipes, Running
<1>2. pc'[Main] = "idle"
  BY <1>1, ReturnWaiting DEF SendFails, Receive, GiveUp, Callers, StreamInv
<1>3. timeouts' = 0 => timeouts = 0 /\ ~GiveUp(t)
  BY PipeTypes DEF SendFails, Receive, GiveUp
<1>4. timeouts' = 0 /\ child = "running" /\ t = Main /\ closing = "post" => ~dbOpen
  <2> SUFFICES ASSUME timeouts' = 0, child = "running", t = Main, closing = "post"
               PROVE  ~dbOpen
    OBVIOUS
  <2>1. Receive(t)
    BY <1>3 DEF SendFails, CloseInv
  <2>2. pc[Main] = "waiting" /\ replies # <<>> /\ Waiting = 1 /\ timeouts = 0
    BY <1>3, <2>1, WaitingOf, PipeTypes DEF Receive, StreamInv
  <2>3. Len(replies) >= 1
    BY <2>2, PipeTypes
  <2>4. Len(replies) + Len(stdout) + Len(stdin) = 1
    BY <2>2 DEF StreamInv, CountInv
  <2>5. stdin = <<>>
    BY <2>3, <2>4, PipeTypes
  <2> QED
    BY <2>2, <2>5 DEF CloseInv
<1> QED
  BY <1>1, <1>2, <1>3, <1>4 DEF CloseInv

\* close() keeps its order: the answer to close_database, end of file, the wait, the kill.
LEMMA NextCloseInv == TypeOK /\ StreamInv /\ CloseInv /\ [Next]_vars => CloseInv'
<1> SUFFICES ASSUME TypeOK, StreamInv, CloseInv, [Next]_vars PROVE CloseInv'
  OBVIOUS
<1>0. Main \in Callers
  BY DEF Callers
<1>1. ASSUME NEW t \in Callers, Acquire(t) PROVE CloseInv'
  <2>1. pc'[Main] # "waiting" \/ pc'[Main] = pc[Main]
    BY <1>0, <1>1 DEF Acquire, TypeOK
  <2> QED
    BY <1>1, <2>1 DEF Acquire, CloseInv, pipes
<1>2. ASSUME NEW t \in Callers, Send(t) PROVE CloseInv'
  <2>1. UNCHANGED <<timeouts, stdinOpen, child, closing, dbOpen>> /\ child = "running"
    BY <1>2 DEF Send
  <2>2. timeouts = 0 /\ closing = "post" /\ pc'[Main] = "waiting"
          => stdin' # <<>> /\ Head(stdin').tool = "close_database"
    <3> SUFFICES ASSUME timeouts = 0, closing = "post", pc'[Main] = "waiting"
                 PROVE  stdin' # <<>> /\ Head(stdin').tool = "close_database"
      OBVIOUS
    <3>1. lock = t /\ Waiting = 0 /\ timeouts = 0
      BY <1>2, WaitingOf, PipeTypes DEF Send, StreamInv, CloseInv
    <3>2. t = Main
      BY <1>0, <1>2, <3>1 DEF Send, StreamInv, LockInv, TypeOK
    <3>3. stdin = <<>>
      BY <1>2, <3>1, PipeTypes DEF Send, StreamInv, CountInv
    <3>4. stdin' = Append(stdin, [ticket |-> sent + 1, tool |-> "close_database"])
      BY <1>2, <3>2 DEF Send
    <3>5. [ticket |-> sent + 1, tool |-> "close_database"] \in [ticket : Nat, tool : Tools]
      BY PipeTypes DEF Tools
    <3>6. stdin' # <<>> /\ Head(stdin') = [ticket |-> sent + 1, tool |-> "close_database"]
      BY <3>3, <3>4, <3>5
    <3> QED
      BY <3>6
  <2> QED
    BY <2>1, <2>2 DEF CloseInv
<1>3. ASSUME NEW t \in Callers, SendFails(t) \/ Receive(t) \/ GiveUp(t) PROVE CloseInv'
  BY <1>3, ReturnCloseInv
<1>4. CASE Reader
  BY <1>4 DEF Reader, ReadLine, ReadEof, CloseInv
<1>5. CASE BeginClose
  BY <1>5 DEF BeginClose, CloseInv, pipes
<1>6. CASE CloseStdin \/ WaitExit \/ Kill \/ Bail
  BY <1>6 DEF CloseStdin, WaitExit, Kill, Bail, CloseInv, pipes
<1>7. CASE Serve
  <2>1. /\ child = "running" /\ stdin # <<>> /\ stdin' = Tail(stdin)
        /\ dbOpen' = (dbOpen /\ Head(stdin).tool # "close_database")
        /\ UNCHANGED <<lock, pc, timeouts, stdinOpen, child, closing>>
    BY <1>7 DEF Serve
  <2>2. timeouts = 0 /\ closing = "post" /\ pc[Main] = "waiting"
          => stdin' = <<>> /\ ~dbOpen'
    <3> SUFFICES ASSUME timeouts = 0, closing = "post", pc[Main] = "waiting"
                 PROVE  stdin' = <<>> /\ ~dbOpen'
      OBVIOUS
    <3>1. Waiting = 1 /\ timeouts = 0
      BY <1>0, WaitingOf, PipeTypes DEF StreamInv, CloseInv
    <3>2. Len(replies) + Len(stdout) + Len(stdin) = 1
      BY <2>1, <3>1, PipeTypes DEF StreamInv, CountInv
    <3>3. stdin \in Seq([ticket : Nat, tool : Tools]) /\ Len(stdin) <= 1
      BY <3>2, PipeTypes
    <3>4. stdin' = <<>>
      BY <2>1, <3>3, OneElement
    <3> QED
      BY <2>1, <3>4 DEF CloseInv
  <2> QED
    BY <2>1, <2>2 DEF CloseInv
<1>8. CASE ChildExit \/ Crash \/ UNCHANGED vars
  BY <1>8 DEF ChildExit, Crash, vars, CloseInv, pipes
<1> QED
  BY <1>1, <1>2, <1>3, <1>4, <1>5, <1>6, <1>7, <1>8 DEF Next, Caller, Closer, Finished

\* close() closes the pipe when its close_database has been answered, so that a child it waits for
\* has no database open, as long as no call has given up.
THEOREM CloseCorrect == Spec => []CloseInv
  BY InitTypeOK, NextTypeOK, InitStreamInv, NextStreamInv, InitCloseInv, NextCloseInv, PTL DEF Spec

\* Until a call gives up the lock is all it takes: every answer a call returns
\* is the answer to the request it wrote.
THEOREM OwnAnswers == Spec => []OwnUntilTimeout
  BY TypeCorrect, StreamCorrect, InitOwn, NextOwn, PTL DEF Spec

\* Only close() kills, and then CloseInv says that the database is closed.
LEMMA NextClosed ==
  TypeOK /\ CloseInv /\ ClosedUntilTimeout /\ [Next]_vars => ClosedUntilTimeout'
<1> SUFFICES ASSUME TypeOK, CloseInv, ClosedUntilTimeout, [Next]_vars,
                    timeouts' = 0, child' = "killed"
             PROVE  ~dbOpen'
  BY DEF ClosedUntilTimeout, KilledOnlyWhenClosed
<1>0. timeouts = 0
  BY TimeoutsGrow
<1>1. CASE Kill
  BY <1>0, <1>1 DEF Kill, CloseInv
<1>2. ASSUME UNCHANGED <<child, dbOpen>> PROVE ~dbOpen'
  BY <1>0, <1>2 DEF ClosedUntilTimeout, KilledOnlyWhenClosed
<1>3. ASSUME NEW t \in Callers, Caller(t) PROVE ~dbOpen'
  BY <1>2, <1>3 DEF Caller, Acquire, Send, SendFails, Receive, GiveUp
<1>4. CASE Reader \/ BeginClose \/ CloseStdin \/ WaitExit \/ Bail \/ UNCHANGED vars
  BY <1>2, <1>4 DEF Reader, ReadLine, ReadEof, BeginClose, CloseStdin, WaitExit, Bail, vars
<1>5. CASE Serve \/ ChildExit \/ Crash
  BY <1>5 DEF Serve, ChildExit, Crash
<1> QED
  BY <1>1, <1>3, <1>4, <1>5 DEF Next, Closer, Finished

\* Until a call gives up, close() kills only a child whose database is closed.
THEOREM KilledClosed == Spec => []ClosedUntilTimeout
<1>1. Init => ClosedUntilTimeout
  BY DEF Init, ClosedUntilTimeout, KilledOnlyWhenClosed
<1> QED
  BY <1>1, TypeCorrect, CloseCorrect, NextClosed, PTL DEF Spec
=============================================================================
