-------------------------- MODULE TerminalSession ---------------------------
(***************************************************************************)
(* A shell in a container: the component that shows it                     *)
(* (frontend shared/components/shell), the SockJS connection, and the      *)
(* goroutines of backend/handler/terminal.go, which run one shell or try   *)
(* several until one succeeds.  Each access to the connection, to the map  *)
(* of sessions or to a channel is an action.                               *)
(*                                                                         *)
(* Frames from the client carry keystrokes, sizes and pings; what a shell  *)
(* prints is left out.  The keys are numbered in the order they are typed. *)
(***************************************************************************)
EXTENDS Integers, Sequences

CONSTANTS
  Shells,    \* how many shells WaitForTerminal may try
  Size,      \* the sizes a terminal can have
  NoSize,    \* the size of a shell that was not told any
  Buffer,    \* how many keys one Read can take
  Paste,     \* bound: how many keys are typed at once
  MaxTyped,  \* bound: how many keys are typed
  MaxQueue   \* bound: nobody types when so many frames are under way

ASSUME TerminalAssumption ==
  /\ Shells \in Nat \ {0} /\ Buffer \in Nat \ {0}
  /\ NoSize \notin Size /\ Size # {}
  /\ Paste \in Nat /\ MaxTyped \in Nat /\ MaxQueue \in Nat

VARIABLES
  view,      \* the flags of ShellComponent, its ping and the size of its terminal
  client,    \* the connection as the component sees it
  server,    \* the connection as the backend sees it
  toServer,  \* frames sent by the client and not received yet
  toClient,  \* and by the server
  typed,     \* how many keys were typed
  up,        \* whether the backend still runs
  entry,     \* what terminalSessions has for the session
  handler,   \* where handleTerminalSession is
  waiter,    \* where WaitForTerminal is, and at which shell
  shell,     \* the streams to the shells, each with its copy of the session
  reader     \* where the loop that Reads for each shell is, with its frame

ends == <<client, server, toServer, toClient>>
goroutines == <<up, entry, handler, waiter, shell, reader>>
vars == <<view, ends, typed, goroutines>>

Frame == [op : {"bind", "resize", "echo", "stdin"}, data : Size \cup {NoSize} \cup Seq(1 .. MaxTyped)]

bind == [op |-> "bind", data |-> NoSize]
echo == [op |-> "echo", data |-> NoSize]
resize(size) == [op |-> "resize", data |-> size]
stdin(keys) == [op |-> "stdin", data |-> keys]

\* A frame for a connection that the other side has closed is lost.
sent(frames) == IF server = "open" THEN toServer \o frames ELSE toServer

\* The server's end of the connection closes; what it did not receive is lost.
hangUp == server' = "closed" /\ toServer' = <<>>

\* A nil dereference in a goroutine ends the backend.
crash == up' = FALSE /\ hangUp

-----------------------------------------------------------------------------
(* ShellComponent.                                                         *)

\* ngAfterViewInit
Mount ==
  /\ client = "none"
  /\ client' = "asking"
  /\ view' = [view EXCEPT !.connecting = TRUE, !.closed = FALSE]
  /\ UNCHANGED <<server, toServer, toClient, typed, goroutines>>

\* setupConnection, when the session's id is there.  A component destroyed in
\* the meantime goes on.
Answered ==
  /\ client = "asking" /\ waiter.pc # "none"
  /\ client' = "opening"
  /\ UNCHANGED <<view, server, toServer, toClient, typed, goroutines>>

AskFails ==
  /\ client = "asking"
  /\ client' = "failed"
  /\ UNCHANGED <<view, server, toServer, toClient, typed, goroutines>>

\* The terminal's size is not sent.
Open_sizeless ==
  /\ client = "opening" /\ up
  /\ client' = "open" /\ server' = "open"
  /\ toServer' = <<bind>>
  /\ handler' = "recv"
  /\ view' = [view EXCEPT !.connecting = FALSE, !.connected = TRUE, !.closed = FALSE]
  /\ UNCHANGED <<toClient, typed, up, entry, waiter, shell, reader>>

\* onConnectionOpen.  The backend starts handleTerminalSession.
Open ==
  /\ client = "opening" /\ up
  /\ client' = "open" /\ server' = "open"
  /\ toServer' = <<bind, resize(view.size)>>
  /\ handler' = "recv"
  /\ view' = [view EXCEPT !.connecting = FALSE, !.connected = TRUE, !.closed = FALSE]
  /\ UNCHANGED <<toClient, typed, up, entry, waiter, shell, reader>>

\* onConnectionClose when it was never open: nothing.
OpenFails ==
  /\ client = "opening"
  /\ client' = "closed"
  /\ UNCHANGED <<view, server, toServer, toClient, typed, goroutines>>

\* onTerminalSendString
Type ==
  /\ view.connected /\ ~ view.destroyed /\ Len(toServer) < MaxQueue
  /\ \E n \in 1 .. Paste :
       /\ typed + n <= MaxTyped
       /\ typed' = typed + n
       /\ toServer' = sent(<<stdin([k \in 1 .. n |-> typed + k])>>)
  /\ UNCHANGED <<view, client, server, toClient, goroutines>>

\* fit and onTerminalResize
Resize ==
  /\ ~ view.destroyed /\ Len(toServer) < MaxQueue
  /\ \E size \in Size \ {view.size} :
       /\ view' = [view EXCEPT !.size = size]
       /\ toServer' = IF view.connected THEN sent(<<resize(size)>>) ELSE toServer
  /\ UNCHANGED <<client, server, toClient, typed, goroutines>>

\* getPing$: one ping after the other.
SendPing ==
  /\ view.connected /\ ~ view.pinging
  /\ view' = [view EXCEPT !.pinging = TRUE]
  /\ toServer' = sent(<<echo>>)
  /\ UNCHANGED <<client, server, toClient, typed, goroutines>>

\* onConnectionMessage and handleConnectionMessage.  The subjects of a component
\* that was destroyed are complete.
Receive ==
  /\ client = "open" /\ toClient # <<>>
  /\ toClient' = Tail(toClient)
  /\ view' = IF view.destroyed THEN view ELSE [view EXCEPT !.pinging = FALSE]
  /\ UNCHANGED <<client, server, toServer, typed, goroutines>>

\* onConnectionClose when connected.
closedView == [view EXCEPT !.connected = FALSE, !.connecting = FALSE, !.closed = TRUE,
                           !.pinging = FALSE]

\* The ping is given up, and nothing else.
PingFails_alone ==
  /\ view.pinging
  /\ view' = [view EXCEPT !.pinging = FALSE]
  /\ UNCHANGED <<ends, typed, goroutines>>

\* The answer does not come in time; or it cannot, since the component was
\* destroyed and first() finds a stream that is complete.
PingFails ==
  /\ view.pinging
  /\ view' = closedView
  /\ client' = IF client = "open" THEN "closing" ELSE client
  /\ UNCHANGED <<server, toServer, toClient, typed, goroutines>>

\* onclose, after the component or the server has closed.
CloseEvent ==
  /\ client = "closing" \/ (client = "open" /\ server = "closed")
  /\ client' = "closed"
  /\ view' = IF view.connected THEN closedView ELSE view
  /\ UNCHANGED <<server, toServer, toClient, typed, goroutines>>

\* ngOnDestroy
Destroy ==
  /\ client # "none" /\ ~ view.destroyed
  /\ view' = [view EXCEPT !.destroyed = TRUE]
  /\ client' = IF client = "open" /\ view.connected THEN "closing" ELSE client
  /\ UNCHANGED <<server, toServer, toClient, typed, goroutines>>

-----------------------------------------------------------------------------
(* The backend.                                                            *)

\* The network breaks, or brings the news that the client has closed.
LinkLost ==
  /\ server = "open"
  /\ hangUp
  /\ UNCHANGED <<view, client, toClient, typed, goroutines>>

\* handleExecShell
ExecShell ==
  /\ up /\ client = "asking" /\ waiter.pc = "none"
  /\ entry' = "unbound"
  /\ waiter' = [waiter EXCEPT !.pc = "wait"]
  /\ UNCHANGED <<view, ends, typed, up, handler, shell, reader>>

\* handleTerminalSession, up to the send on bound.
Handle ==
  /\ up /\ handler = "recv"
  /\ \/ /\ toServer # <<>>
        /\ toServer' = Tail(toServer)
        /\ handler' = IF Head(toServer).op = "bind" THEN "bind" ELSE "done"
     \/ /\ server = "closed"
        /\ handler' = "done"
        /\ UNCHANGED toServer
  /\ UNCHANGED <<view, client, server, toClient, typed, up, entry, waiter, shell, reader>>

\* bound has no buffer: the handler goes on, and so does WaitForTerminal.
Bound ==
  /\ up /\ handler = "bind" /\ waiter.pc = "wait"
  /\ handler' = "set"
  /\ waiter' = [pc |-> "start", n |-> 1]
  /\ UNCHANGED <<view, ends, typed, up, entry, shell, reader>>

SetSession ==
  /\ up /\ handler = "set"
  /\ entry' = "bound"
  /\ handler' = "done"
  /\ UNCHANGED <<view, ends, typed, up, waiter, shell, reader>>

\* Set and Get lock copies of the lock; a map written while it is read ends the
\* program when the runtime notices.
MapRace ==
  /\ up /\ handler = "set" /\ waiter.pc = "start"
  /\ crash
  /\ UNCHANGED <<view, client, toClient, typed, entry, handler, waiter, shell, reader>>

\* One shell more than there are.
afterShell_tooFar(n, failed) ==
  [pc |-> IF failed /\ n <= Shells THEN "start" ELSE "close",
   n  |-> IF failed /\ n <= Shells THEN n + 1 ELSE n]

\* The loop over validShells after startProcess has returned.
afterShell(n, failed) ==
  [pc |-> IF failed /\ n < Shells THEN "start" ELSE "close",
   n  |-> IF failed /\ n < Shells THEN n + 1 ELSE n]

\* startProcess: either no stream is set up, or its goroutines start with the
\* session as it is in the map now.
StartProcess ==
  LET n == waiter.n IN
  /\ up /\ waiter.pc = "start"
  /\ \/ /\ waiter' = afterShell(n, TRUE)
        /\ UNCHANGED <<shell, reader>>
     \/ /\ waiter' = [waiter EXCEPT !.pc = "run"]
        /\ shell' = [shell EXCEPT ![n] = [pc |-> "running", session |-> entry,
                                          size |-> NoSize, input |-> <<>>]]
        /\ reader' = [reader EXCEPT ![n] = [pc |-> "recv", frame |-> bind]]
  /\ UNCHANGED <<view, ends, typed, up, entry, handler>>

\* The stream ends: with the shell, with an error, or because there is none.
ShellEnds ==
  /\ up /\ waiter.pc = "run"
  /\ shell' = [shell EXCEPT ![waiter.n].pc = "ended"]
  /\ \E failed \in BOOLEAN : waiter' = afterShell(waiter.n, failed)
  /\ UNCHANGED <<view, ends, typed, up, entry, handler, reader>>

\* The session is closed only when no shell could be run.
CloseSession_onError ==
  /\ up /\ waiter.pc = "close"
  /\ waiter' = [waiter EXCEPT !.pc = "end"]
  /\ IF shell[waiter.n].pc = "none" THEN hangUp ELSE UNCHANGED <<server, toServer>>
  /\ UNCHANGED <<view, client, toClient, typed, up, entry, handler, shell, reader>>

\* Close(1) or Close(2) of whatever the map has for the session.
CloseSession ==
  /\ up /\ waiter.pc = "close"
  /\ IF entry = "bound" THEN hangUp /\ UNCHANGED up ELSE crash
  /\ waiter' = [waiter EXCEPT !.pc = "end"]
  /\ UNCHANGED <<view, client, toClient, typed, entry, handler, shell, reader>>

\* One key less than fits.
taken_short(keys) == SubSeq(keys, 1, IF Len(keys) > 1 THEN Buffer - 1 ELSE 1)

\* copy(p, msg.Data)
taken(keys) == SubSeq(keys, 1, IF Len(keys) < Buffer THEN Len(keys) ELSE Buffer)

\* Read, up to the frame it has to act on.
Read(i) ==
  /\ up /\ reader[i].pc = "recv"
  /\ \/ /\ shell[i].session # "bound"
        /\ crash
        /\ UNCHANGED <<toClient, reader>>
     \/ /\ shell[i].session = "bound" /\ server = "closed"
        /\ reader' = [reader EXCEPT ![i].pc = "done"]
        /\ UNCHANGED <<up, server, toServer, toClient>>
     \/ /\ shell[i].session = "bound" /\ toServer # <<>>
        /\ LET frame == Head(toServer) IN
             /\ toServer' = Tail(toServer)
             /\ toClient' = IF frame.op = "echo" THEN Append(toClient, echo) ELSE toClient
             /\ reader' = [reader EXCEPT ![i] =
                             CASE frame.op = "stdin"  -> [pc |-> "write", frame |-> stdin(taken(frame.data))]
                               [] frame.op = "resize" -> [pc |-> "size", frame |-> frame]
                               [] OTHER               -> @]
        /\ UNCHANGED <<up, server>>
  /\ UNCHANGED <<view, client, typed, entry, handler, waiter, shell>>

\* The old loop writes to the shell that runs now.
WriteStdin_current(i) ==
  /\ up /\ reader[i].pc = "write"
  /\ IF shell[waiter.n].pc = "running"
     THEN /\ shell' = [shell EXCEPT ![waiter.n].input = @ \o reader[i].frame.data]
          /\ reader' = [reader EXCEPT ![i] = [pc |-> "recv", frame |-> bind]]
     ELSE /\ reader' = [reader EXCEPT ![i] = [pc |-> "done", frame |-> bind]]
          /\ UNCHANGED shell
  /\ UNCHANGED <<view, ends, typed, up, entry, handler, waiter>>

\* The loop writes what it read to its own stream, and ends when that has ended.
WriteStdin(i) ==
  /\ up /\ reader[i].pc = "write"
  /\ IF shell[i].pc = "running"
     THEN /\ shell' = [shell EXCEPT ![i].input = @ \o reader[i].frame.data]
          /\ reader' = [reader EXCEPT ![i] = [pc |-> "recv", frame |-> bind]]
     ELSE /\ reader' = [reader EXCEPT ![i] = [pc |-> "done", frame |-> bind]]
          /\ UNCHANGED shell
  /\ UNCHANGED <<view, ends, typed, up, entry, handler, waiter>>

\* sizeChan has no buffer and all streams of the session share it.  The loop
\* that calls Next for a stream never ends: Next does not return nil.
PassSize(i, j) ==
  /\ up /\ reader[i].pc = "size" /\ shell[j].pc # "none"
  /\ shell' = IF shell[j].pc = "running" THEN [shell EXCEPT ![j].size = reader[i].frame.data]
                                         ELSE shell
  /\ reader' = [reader EXCEPT ![i] = [pc |-> "recv", frame |-> bind]]
  /\ UNCHANGED <<view, ends, typed, up, entry, handler, waiter>>

-----------------------------------------------------------------------------
Init ==
  /\ view \in [connecting : {FALSE}, connected : {FALSE}, closed : {FALSE},
               destroyed : {FALSE}, pinging : {FALSE}, size : Size]
  /\ client = "none" /\ server = "none"
  /\ toServer = <<>> /\ toClient = <<>>
  /\ typed = 0
  /\ up = TRUE
  /\ entry = "none"
  /\ handler = "none"
  /\ waiter = [pc |-> "none", n |-> 1]
  /\ shell = [i \in 1 .. Shells |-> [pc |-> "none", session |-> "none",
                                     size |-> NoSize, input |-> <<>>]]
  /\ reader = [i \in 1 .. Shells |-> [pc |-> "none", frame |-> bind]]

Component ==
  \/ Mount \/ Answered \/ AskFails \/ Open \/ OpenFails
  \/ Type \/ Resize \/ SendPing \/ Receive \/ PingFails \/ CloseEvent \/ Destroy

Backend ==
  \/ ExecShell \/ Handle \/ Bound \/ SetSession \/ MapRace
  \/ StartProcess \/ ShellEnds \/ CloseSession
  \/ \E i \in 1 .. Shells :
       \/ Read(i) \/ WriteStdin(i)
       \/ \E j \in 1 .. Shells : PassSize(i, j)

Next == Component \/ Backend \/ LinkLost

Spec == Init /\ [][Next]_vars

\* The timers of the browser fire, and WaitForTerminal is scheduled.  No close
\* event need ever arrive.
Fairness ==
  /\ WF_vars(SendPing) /\ WF_vars(PingFails) /\ WF_vars(Receive)
  /\ WF_vars(CloseSession)

FairSpec == Spec /\ Fairness

-----------------------------------------------------------------------------
(* Properties.                                                             *)

\* The shape of the state.
TypeOK ==
  /\ view \in [connecting : BOOLEAN, connected : BOOLEAN, closed : BOOLEAN,
               destroyed : BOOLEAN, pinging : BOOLEAN, size : Size]
  /\ client \in {"none", "asking", "failed", "opening", "open", "closing", "closed"}
  /\ server \in {"none", "open", "closed"}
  /\ toServer \in Seq(Frame) /\ toClient \in Seq({echo})
  /\ typed \in 0 .. MaxTyped
  /\ up \in BOOLEAN
  /\ entry \in {"none", "unbound", "bound"}
  /\ handler \in {"none", "recv", "bind", "set", "done"}
  /\ waiter \in [pc : {"none", "wait", "start", "run", "close", "end"}, n : 1 .. Shells]
  /\ shell \in [1 .. Shells -> [pc : {"none", "running", "ended"},
                                session : {"none", "unbound", "bound"},
                                size : Size \cup {NoSize}, input : Seq(1 .. MaxTyped)]]
  /\ reader \in [1 .. Shells -> [pc : {"none", "recv", "write", "size", "done"}, frame : Frame]]

\* The keys in some frames, in their order.
keysIn(frames) ==
  LET keys[n \in 0 .. Len(frames)] ==
        IF n = 0 THEN <<>>
        ELSE IF frames[n].op = "stdin" THEN keys[n - 1] \o frames[n].data ELSE keys[n - 1]
  IN  keys[Len(frames)]

held(i) == IF reader[i].pc = "write" THEN reader[i].frame.data ELSE <<>>

\* Until the connection or the first shell ends, every key typed is on its way
\* to that shell or has arrived, in order.
KeysArrive ==
  (up /\ server = "open" /\ shell[1].pc # "ended" /\ waiter.n = 1)
    => shell[1].input \o held(1) \o keysIn(toServer) = [k \in 1 .. typed |-> k]

\* Two loops read the frames once the first shell has failed: still no shell
\* gets a key twice, after a later one, or after a shell that was tried later.
KeysInOrder ==
  \A i, j \in 1 .. Shells :
    \A m \in 1 .. Len(shell[i].input), n \in 1 .. Len(shell[j].input) :
      (i < j \/ (i = j /\ m < n)) => shell[i].input[m] < shell[j].input[n]

\* shell.component.ts:257: the terminal has the correct display size.  The
\* first shell has it as soon as no size is under way.
FirstShellSized ==
  (/\ up /\ server = "open" /\ client = "open"
   /\ shell[1].pc = "running"
   /\ reader[1].pc # "size"
   /\ \A k \in DOMAIN toServer : toServer[k].op # "resize")
    => shell[1].size = view.size

\* terminal.go:284: WaitForTerminal waits for the session to be bound in
\* handleTerminalSession.  No shell is connected to a session without a
\* connection.
StartedBound ==
  \A i \in 1 .. Shells : shell[i].pc # "none" => shell[i].session = "bound"

\* Even if no close event ever comes, the component does not keep a connection
\* that the backend has lost, nor one that opened after it was destroyed.
DeadConnectionCloses ==
  (client = "open" /\ (server = "closed" \/ view.destroyed)) ~> client # "open"

\* When the shells have ended the user is not left with a terminal that takes
\* keys.
EndIsShown == waiter.pc = "close" ~> ~ view.connected
=============================================================================
