----------------------------- MODULE HttpServer -----------------------------
(***************************************************************************)
(* hexport --http (run_http in mcp/hexport/src/mcp.cpp, main in main.cpp): *)
(* the main thread opens the database of its command line, serves one      *)
(* connection at a time, and closes the database when told to stop.  It is *)
(* told by the console control handler, which Windows runs on a thread of  *)
(* its own for each event, and whose return ends the process for all       *)
(* events but Ctrl+C and Ctrl+Break.                                       *)
(***************************************************************************)
EXTENDS RepairBadcall

CONSTANTS
  Events,     \* control events that may come (bounds the model)
  Deadly,     \* those whose handler's return ends the process
  MaxRequests \* requests with a command (bounds the model)

ASSUME HttpAssumption == MaxRequests \in Nat /\ Deadly \subseteq Events

VARIABLES
  proc,     \* the process: "up", "exited" (main returned) or "killed"
  pc,       \* where the main thread is
  conn,     \* the connection it has accepted: "none", "silent", "sent" or "gone"
  requests, \* requests with a command so far
  socket,   \* the listening socket: "none", "open" or "closed"
  listener, \* is http_listener valid?
  stop,     \* http_stop
  closed,   \* http_closed is signalled
  handler,  \* the handler of each event: how far it is
  unpacked, \* files that were left unpacked on disk, in pieces that need not fit together
  hurried   \* history: a control event that nobody waited for, or not long enough

main == <<pc, conn, requests>>
control == <<handler, unpacked, hurried>>
vars == <<db, repair, proc, main, socket, listener, stop, closed, control>>

Init ==
  /\ DatabaseInit /\ RepairInit
  /\ proc = "up" /\ pc = "open" /\ conn = "none" /\ requests = 0
  /\ socket = "none" /\ listener = FALSE /\ stop = FALSE /\ closed = FALSE
  /\ handler = [e \in Events |-> "none"] /\ unpacked = {} /\ hurried = FALSE

(***************************************************************************)
(* The main thread                                                         *)
(***************************************************************************)

At(place) == proc = "up" /\ pc = place
Go(place) == pc' = place

\* startup_open, with a database or without one.
StartupOpen ==
  /\ At("open") /\ Go("listen")
  /\ \/ \E path \in Paths : Open(path) /\ UNCHANGED <<told, first, asked>>
     \/ UNCHANGED db
  /\ UNCHANGED <<repair, proc, conn, requests, socket, listener, stop, closed, control>>

\* The port scan, and then the handler is installed.
Listen ==
  /\ At("listen") /\ Go("loop")
  /\ socket' = "open" /\ listener' = TRUE
  /\ UNCHANGED <<db, repair, proc, conn, requests, stop, closed, control>>

\* No free port: run_http returns, with no handler installed, and main closes the database.
NoPort ==
  /\ At("listen") /\ Go("exit")
  /\ UNCHANGED <<db, repair, proc, conn, requests, socket, listener, stop, closed, control>>

\* The head of the loop.
Loop ==
  /\ At("loop") /\ Go(IF stop THEN "stopping" ELSE "accept")
  /\ UNCHANGED <<db, repair, proc, conn, requests, socket, listener, stop, closed, control>>

\* accept returns a client, or fails when the socket was closed.
Accept ==
  /\ At("accept") /\ socket = "open" /\ Go("recv") /\ conn' = "silent"
  /\ UNCHANGED <<db, repair, proc, requests, socket, listener, stop, closed, control>>
AcceptFails ==
  /\ At("accept") /\ socket = "closed" /\ Go("loop")
  /\ UNCHANGED <<db, repair, proc, conn, requests, socket, listener, stop, closed, control>>

\* The connection is over: closesocket(c).
Finished == Go("loop") /\ conn' = "none"

\* A whole request: its command is run and answered.
Dispatch ==
  /\ At("recv") /\ conn = "sent" /\ requests < MaxRequests /\ requests' = requests + 1
  /\ \/ SessionCommand /\ Finished /\ UNCHANGED repair
     \/ EditCommand /\ Finished /\ UNCHANGED repair
     \/ \E addrs \in AddrLists : BeginRepair(addrs) /\ Go("repair") /\ UNCHANGED <<conn, db>>
  /\ UNCHANGED <<proc, socket, listener, stop, closed, control>>

Repair ==
  /\ At("repair") /\ RepairStep
  /\ IF step' = "off" THEN Finished ELSE UNCHANGED <<pc, conn>>
  /\ UNCHANGED <<proc, requests, socket, listener, stop, closed, control>>

\* The client hung up before its header was whole, or sent something without a command in it
\* (another method, no Content-Length, a body cut short): nothing is done.
Nothing ==
  /\ At("recv") /\ conn \in {"sent", "gone"} /\ Finished
  /\ UNCHANGED <<db, repair, proc, requests, socket, listener, stop, closed, control>>

\* After the loop: the socket is closed, whether the handler has closed it or not.
CloseListener ==
  /\ At("stopping") /\ Go("close")
  /\ listener' = FALSE /\ socket' = "closed"
  /\ UNCHANGED <<db, repair, proc, conn, requests, stop, closed, control>>

\* Bug: the handler is released before the database is closed.
StartupClose_SignalsFirst ==
  \/ /\ At("close") /\ Go("signal") /\ closed' = TRUE
     /\ UNCHANGED <<db, repair, proc, conn, requests, socket, listener, stop, control>>
  \/ /\ At("signal") /\ Go("exit")
     /\ Close(FALSE)
     /\ UNCHANGED <<told, first, asked, closed, repair, proc, conn, requests, socket, listener, stop, control>>

\* startup_close; then SetEvent releases the handlers.
StartupClose ==
  \/ /\ At("close") /\ Go("signal")
     /\ Close(FALSE)
     /\ UNCHANGED <<told, first, asked, closed, repair, proc, conn, requests, socket, listener, stop, control>>
  \/ /\ At("signal") /\ Go("exit") /\ closed' = TRUE
     /\ UNCHANGED <<db, repair, proc, conn, requests, socket, listener, stop, control>>

\* main's own startup_close, which finds a database only when there was no port; the process ends.
Exit ==
  /\ At("exit") /\ proc' = "exited"
  /\ Close(FALSE)
  /\ UNCHANGED <<told, first, asked, repair, main, socket, listener, stop, closed, control>>

(***************************************************************************)
(* The client                                                              *)
(***************************************************************************)

ClientSends ==
  /\ At("recv") /\ conn = "silent" /\ conn' \in {"sent", "gone"}
  /\ UNCHANGED <<db, repair, proc, pc, requests, socket, listener, stop, closed, control>>

(***************************************************************************)
(* Control events                                                          *)
(***************************************************************************)

\* A database is unpacked beside its file for as long as it is open: killed, nobody packs it again.
Killed ==
  /\ proc' = "killed" /\ unpacked' = IF IsOpen THEN {FileOf[opened]} ELSE {}
  /\ UNCHANGED <<db, repair, main, socket, listener, stop, closed>>

\* An event before SetConsoleCtrlHandler ends the process at once.
EventTooEarly(e) ==
  /\ proc = "up" /\ handler[e] = "none" /\ socket = "none"
  /\ handler' = [handler EXCEPT ![e] = "returned"] /\ hurried' = TRUE
  /\ Killed

\* http_ctrl_handler, its first step: the flag.
HandlerStops(e) ==
  /\ proc = "up" /\ handler[e] = "none" /\ socket # "none"
  /\ handler' = [handler EXCEPT ![e] = "close"] /\ stop' = TRUE
  /\ UNCHANGED <<db, repair, proc, main, socket, listener, closed, unpacked, hurried>>

\* Bug: the handler leaves the socket to the main thread, which sits in accept.
HandlerCloses_Not(e) ==
  /\ proc = "up" /\ handler[e] = "close"
  /\ handler' = [handler EXCEPT ![e] = "wait"]
  /\ UNCHANGED <<db, repair, proc, main, socket, listener, stop, closed, unpacked, hurried>>

HandlerCloses(e) ==
  /\ proc = "up" /\ handler[e] = "close"
  /\ handler' = [handler EXCEPT ![e] = "wait"]
  /\ socket' = IF listener THEN "closed" ELSE socket
  /\ UNCHANGED <<db, repair, proc, main, listener, stop, closed, unpacked, hurried>>

\* The wait ends, in time or at its deadline of 30 seconds, and the handler returns.
HandlerReturns(e) ==
  /\ proc = "up" /\ handler[e] = "wait"
  /\ handler' = [handler EXCEPT ![e] = "returned"]
  /\ hurried' = (hurried \/ ~closed)
  /\ IF e \in Deadly
     THEN Killed
     ELSE UNCHANGED <<db, repair, proc, main, socket, listener, stop, closed, unpacked>>

\* Windows does not wait for ever for a handler of such an event.
Impatience(e) ==
  /\ proc = "up" /\ e \in Deadly /\ handler[e] \in {"close", "wait"}
  /\ hurried' = TRUE /\ Killed /\ UNCHANGED handler

Over == proc # "up" /\ UNCHANGED vars

MainStep ==
  \/ StartupOpen \/ Listen \/ NoPort \/ Loop \/ AcceptFails \/ Dispatch \/ Repair
  \/ Nothing \/ CloseListener \/ StartupClose \/ Exit
HandlerStep(e) == HandlerCloses(e) \/ (closed /\ HandlerReturns(e))

Next ==
  \/ MainStep \/ Accept \/ ClientSends \/ Over
  \/ \E e \in Events :
       EventTooEarly(e) \/ HandlerStops(e) \/ HandlerCloses(e) \/ HandlerReturns(e) \/ Impatience(e)

Spec == Init /\ [][Next]_vars

\* The process's threads run, and a client that has connected sends its request or hangs up.
\* A client need not connect.
FairSpec ==
  /\ Spec /\ WF_vars(MainStep) /\ WF_vars(ClientSends) /\ \A e \in Events : WF_vars(HandlerStep(e))

(***************************************************************************)
(* Properties                                                              *)
(***************************************************************************)

\* Every variable keeps its type, those of the database and of a repair in progress included.
TypeOK ==
  /\ DatabaseTypeOK /\ RepairTypeOK
  /\ proc \in {"up", "exited", "killed"}
  /\ pc \in {"open", "listen", "loop", "accept", "recv", "repair", "stopping", "close", "signal", "exit"}
  /\ conn \in {"none", "silent", "sent", "gone"} /\ requests \in 0..MaxRequests
  /\ socket \in {"none", "open", "closed"}
  /\ listener \in BOOLEAN /\ stop \in BOOLEAN /\ closed \in BOOLEAN /\ hurried \in BOOLEAN
  /\ unpacked \subseteq Files
  /\ handler \in [Events -> {"none", "close", "wait", "returned"}]

\* "killing a process that holds an open database leaves a packed .i64 unpacked": the process
\* ends with its database closed, however many events come and whatever it was doing, unless one
\* came before the handler was there or was not given the time to wait.
ClosedBeforeEnd == proc # "up" /\ ~hurried => ~IsOpen

\* "reading a database must never rewrite it": whatever is opened, edited and closed, a file differs
\* from what it was only after a client asked for it to be written.  Of a file that was left
\* unpacked nothing is known, but that is left only by the end of a process that was hurried.
DiskNeedsAsking ==
  \A f \in Files :
    IF f \in unpacked THEN proc = "killed" /\ hurried ELSE disk[f] # first[f] => f \in asked

\* "The ONLY way to stop an --http server was to kill it": once an event has been handled the server
\* ends, if clients that are connected go on.
ServerStops == stop ~> proc # "up"
=============================================================================
