--------------------------- MODULE BackendProofs ----------------------------
(***************************************************************************)
(* The keys of a terminal arrive in order, and its first shell gets its    *)
(* size, for any number of shells, keys and frames under way.  The state   *)
(* of the replicas keeps its shape, and no replica overwrites a stored key *)
(* with another, for any number of replicas, keys and pollers.             *)
(***************************************************************************)
EXTENDS TerminalSession, KeySynchronizer, InductionLemmas

(* The terminal.                                                           *)

Keys == Seq(1 .. MaxTyped)

View ==
  [connecting : BOOLEAN, connected : BOOLEAN, closed : BOOLEAN,
   destroyed : BOOLEAN, pinging : BOOLEAN, size : Size]

\* What a frame of each kind carries.
Carries(frame) ==
  /\ frame \in Frame
  /\ frame.op = "stdin" => frame.data \in Keys
  /\ frame.op = "resize" => frame.data \in Size

FramesCarry ==
  /\ \A k \in 1 .. Len(toServer) : Carries(toServer[k])
  /\ \A i \in 1 .. Shells :
       /\ Carries(reader[i].frame)
       /\ reader[i].pc = "write" => reader[i].frame.op = "stdin"
       /\ reader[i].pc = "size" => reader[i].frame.op = "resize"

\* The connection opens once; until then there are no frames.
OpensOnce ==
  /\ client \in {"none", "asking", "failed", "opening"} =>
       handler = "none" /\ server = "none" /\ ~ view.connected
  /\ server = "none" =>
       typed = 0 /\ toServer = <<>> /\ handler = "none" /\ waiter.pc \in {"none", "wait"}
  /\ server # "open" => toServer = <<>>
  /\ view.connected => server # "none"
  /\ client = "open" => view.connected

\* Nothing but handleTerminalSession reads until it has seen what binds the session.
BindFirst ==
  /\ handler \in {"none", "recv", "bind"} => waiter.pc \in {"none", "wait"}
  /\ handler = "recv" /\ server = "open" => toServer # <<>> /\ Head(toServer) = bind

\* One shell after the other.
OneShell ==
  /\ waiter.pc \in {"none", "wait"} => waiter.n = 1 /\ \A i \in 1 .. Shells : shell[i].pc = "none"
  /\ waiter.pc = "start" => shell[waiter.n].pc = "none"
  /\ \A i \in 1 .. Shells :
       /\ shell[i].pc = "running" => waiter.pc = "run" /\ i = waiter.n
       /\ shell[i].pc # "none" => i <= waiter.n
       /\ shell[i].pc = "none" => reader[i].pc = "none" /\ shell[i].input = <<>>

Shape == TypeOK /\ FramesCarry /\ OpensOnce /\ BindFirst /\ OneShell

-----------------------------------------------------------------------------
LEMMA ShapeInit == Init => Shape
  <1>. SUFFICES ASSUME Init
                PROVE  Shape
    OBVIOUS
  <1>. USE TerminalAssumption DEF Init
  <1>1. bind \in Frame /\ Carries(bind)
    BY DEF bind, Frame, Carries
  <1>2. TypeOK
    <2>1. view \in View
      BY DEF View
    <2>2. 1 \in 1 .. Shells /\ <<>> \in Seq(1 .. MaxTyped)
      OBVIOUS
    <2>. QED
      BY <1>1, <2>1, <2>2 DEF TypeOK, View
  <1>3. FramesCarry
    BY <1>1 DEF FramesCarry
  <1>4. OpensOnce /\ BindFirst /\ OneShell
    BY DEF OpensOnce, BindFirst, OneShell
  <1>. QED
    BY <1>2, <1>3, <1>4 DEF Shape

LEMMA FramesOfEachKind ==
  /\ bind \in Frame /\ Carries(bind) /\ echo \in Frame /\ Carries(echo)
  /\ \A size \in Size : resize(size) \in Frame /\ Carries(resize(size))
  /\ \A keys \in Keys : stdin(keys) \in Frame /\ Carries(stdin(keys))
  BY DEF bind, echo, resize, stdin, Frame, Carries, Keys

LEMMA SentFrame ==
  ASSUME Shape, NEW frame \in Frame, Carries(frame), toServer' = sent(<<frame>>)
  PROVE  /\ toServer' \in Seq(Frame)
         /\ \A k \in 1 .. Len(toServer') : Carries(toServer'[k])
         /\ toServer' # <<>> \/ toServer = <<>>
         /\ toServer # <<>> => Head(toServer') = Head(toServer)
         /\ server # "open" => toServer' = toServer
  <1>1. toServer \in Seq(Frame) /\ \A k \in 1 .. Len(toServer) : Carries(toServer[k])
    BY DEF Shape, TypeOK, FramesCarry
  <1>2. CASE server = "open"
    <2>1. toServer' = Append(toServer, frame)
      BY <1>1, <1>2 DEF sent
    <2>. QED
      BY <1>1, <1>2, <2>1
  <1>3. CASE server # "open"
    BY <1>1, <1>3 DEF sent
  <1>. QED
    BY <1>2, <1>3

\* The component's own steps.
LEMMA ViewKeepsShape ==
  ASSUME Shape,
         \/ Mount \/ Answered \/ AskFails \/ OpenFails
         \/ Receive \/ PingFails \/ CloseEvent \/ Destroy
  PROVE  Shape'
  <1>. USE DEF Shape
  <1>1. UNCHANGED <<server, toServer, typed, up, entry, handler, waiter, shell, reader>>
    BY DEF Mount, Answered, AskFails, OpenFails, Receive, PingFails, CloseEvent, Destroy, goroutines
  <1>2. view \in View /\ toClient \in Seq({echo})
    BY DEF TypeOK, View
  <1>3. view' \in View
    <2>1. closedView \in View
      BY <1>2 DEF closedView, View
    <2>2. CASE Mount
      BY <1>2, <2>2 DEF Mount, View
    <2>3. CASE Receive
      BY <1>2, <2>3 DEF Receive, View
    <2>4. CASE Destroy
      BY <1>2, <2>4 DEF Destroy, View
    <2>. QED
      BY <1>2, <2>1, <2>2, <2>3, <2>4 DEF Answered, AskFails, OpenFails, PingFails, CloseEvent
  <1>4. client' \in {"none", "asking", "failed", "opening", "open", "closing", "closed"}
    BY DEF TypeOK, Mount, Answered, AskFails, OpenFails, Receive, PingFails, CloseEvent, Destroy
  <1>5. toClient' \in Seq({echo})
    BY <1>2 DEF Mount, Answered, AskFails, OpenFails, Receive, PingFails, CloseEvent, Destroy
  <1>6. TypeOK'
    BY <1>1, <1>3, <1>4, <1>5 DEF TypeOK, View
  <1>7. OpensOnce'
    <2>1. CASE Mount \/ Answered \/ AskFails \/ OpenFails
      BY <1>1, <1>2, <2>1 DEF Mount, Answered, AskFails, OpenFails, OpensOnce, View
    <2>2. CASE Receive \/ PingFails
      BY <1>1, <1>2, <2>2 DEF Receive, PingFails, closedView, OpensOnce, View
    <2>3. CASE CloseEvent \/ Destroy
      BY <1>1, <1>2, <2>3 DEF CloseEvent, Destroy, closedView, OpensOnce, View
    <2>. QED
      BY <2>1, <2>2, <2>3
  <1>8. FramesCarry' /\ BindFirst' /\ OneShell'
    BY <1>1 DEF FramesCarry, BindFirst, OneShell
  <1>. QED
    BY <1>6, <1>7, <1>8

LEMMA SendingKeepsShape ==
  ASSUME Shape, Type \/ Resize \/ SendPing
  PROVE  Shape'
  <1>. USE DEF Shape
  <1>1. UNCHANGED <<client, server, toClient, up, entry, handler, waiter, shell, reader>>
    BY DEF Type, Resize, SendPing, goroutines
  <1>2. PICK frame \in Frame : Carries(frame) /\ toServer' \in {sent(<<frame>>), toServer}
    <2>1. CASE Type
      <3>1. PICK n \in 1 .. Paste : /\ typed + n <= MaxTyped
                                   /\ toServer' = sent(<<stdin([k \in 1 .. n |-> typed + k])>>)
        BY <2>1 DEF Type
      <3>2. [k \in 1 .. n |-> typed + k] \in Keys
        BY <3>1, TerminalAssumption DEF TypeOK, Keys
      <3>. QED
        BY <3>1, <3>2, FramesOfEachKind
    <2>2. CASE Resize
      BY <2>2, FramesOfEachKind DEF Resize
    <2>3. CASE SendPing
      BY <2>3, FramesOfEachKind DEF SendPing
    <2>. QED
      BY <2>1, <2>2, <2>3
  <1>3. /\ toServer' \in Seq(Frame)
        /\ \A k \in 1 .. Len(toServer') : Carries(toServer'[k])
        /\ toServer' # <<>> \/ toServer = <<>>
        /\ toServer # <<>> => Head(toServer') = Head(toServer)
        /\ server # "open" => toServer' = toServer
    <2>1. CASE toServer' = sent(<<frame>>)
      BY <1>2, <2>1, SentFrame
    <2>2. CASE toServer' = toServer
      BY <2>2 DEF TypeOK, FramesCarry
    <2>. QED
      BY <1>2, <2>1, <2>2
  <1>4. view \in View /\ typed \in 0 .. MaxTyped
    BY DEF TypeOK, View
  <1>5. view' \in View /\ view'.connected = view.connected
    BY <1>4 DEF View, Type, Resize, SendPing
  <1>6. typed' \in 0 .. MaxTyped /\ (server = "none" => typed' = typed)
    <2>1. CASE Type
      BY <1>4, <2>1, TerminalAssumption DEF Type, OpensOnce, View
    <2>2. CASE Resize \/ SendPing
      BY <1>4, <2>2 DEF Resize, SendPing
    <2>. QED
      BY <2>1, <2>2
  <1>7. TypeOK'
    BY <1>1, <1>3, <1>5, <1>6 DEF TypeOK, View
  <1>8. OpensOnce' /\ BindFirst'
    BY <1>1, <1>3, <1>5, <1>6 DEF OpensOnce, BindFirst
  <1>9. FramesCarry' /\ OneShell'
    BY <1>1, <1>3 DEF FramesCarry, OneShell
  <1>. QED
    BY <1>7, <1>8, <1>9

LEMMA OpenKeepsShape ==
  ASSUME Shape, Open
  PROVE  Shape'
  <1>. USE DEF Shape
  <1>1. /\ UNCHANGED <<toClient, typed, up, entry, waiter, shell, reader>>
        /\ client' = "open" /\ server' = "open" /\ handler' = "recv"
        /\ toServer' = <<bind, resize(view.size)>> /\ client = "opening"
    BY DEF Open
  <1>2. view \in View
    BY DEF TypeOK, View
  <1>3. view' \in View /\ view'.connected
    BY <1>2 DEF Open, View
  <1>4. /\ toServer' \in Seq(Frame) /\ \A k \in 1 .. Len(toServer') : Carries(toServer'[k])
        /\ toServer' # <<>> /\ Head(toServer') = bind
    BY <1>1, <1>2, FramesOfEachKind DEF View
  <1>5. TypeOK'
    BY <1>1, <1>3, <1>4 DEF TypeOK, View
  <1>6. OpensOnce' /\ BindFirst'
    BY <1>1, <1>3, <1>4 DEF OpensOnce, BindFirst
  <1>7. FramesCarry' /\ OneShell'
    BY <1>1, <1>4 DEF FramesCarry, OneShell
  <1>. QED
    BY <1>5, <1>6, <1>7

-----------------------------------------------------------------------------
\* A connection that ends takes the frames with it.
LEMMA HangingUpKeepsShape ==
  ASSUME Shape, LinkLost \/ MapRace \/ CloseSession
  PROVE  Shape'
  <1>. USE DEF Shape
  <1>1. /\ waiter \in [pc : {"none", "wait", "start", "run", "close", "end"}, n : 1 .. Shells]
        /\ up \in BOOLEAN
    BY DEF TypeOK
  <1>2. /\ UNCHANGED <<view, client, toClient, typed, entry, handler, shell, reader>>
        /\ server' = "closed" /\ toServer' = <<>> /\ up' \in BOOLEAN
    BY <1>1 DEF LinkLost, MapRace, CloseSession, hangUp, crash, goroutines
  <1>3. waiter' = waiter \/ (waiter.pc = "close" /\ waiter' = [waiter EXCEPT !.pc = "end"])
    BY DEF LinkLost, MapRace, CloseSession, goroutines
  <1>4. /\ waiter' \in [pc : {"none", "wait", "start", "run", "close", "end"}, n : 1 .. Shells]
        /\ waiter'.n = waiter.n
        /\ waiter'.pc = waiter.pc \/ (waiter.pc = "close" /\ waiter'.pc = "end")
    BY <1>1, <1>3
  <1>5. server # "none"
    BY DEF OpensOnce, LinkLost, MapRace, CloseSession
  <1>6. TypeOK'
    BY <1>2, <1>4 DEF TypeOK
  <1>7. FramesCarry'
    BY <1>2 DEF FramesCarry
  <1>8. OpensOnce' /\ BindFirst'
    BY <1>2, <1>4, <1>5 DEF OpensOnce, BindFirst
  <1>9. OneShell'
    BY <1>2, <1>4 DEF OneShell
  <1>. QED
    BY <1>6, <1>7, <1>8, <1>9

LEMMA HandlerKeepsShape ==
  ASSUME Shape, ExecShell \/ Handle \/ Bound \/ SetSession
  PROVE  Shape'
  <1>. USE DEF Shape
  <1>1. /\ waiter \in [pc : {"none", "wait", "start", "run", "close", "end"}, n : 1 .. Shells]
        /\ toServer \in Seq(Frame) /\ \A k \in 1 .. Len(toServer) : Carries(toServer[k])
    BY DEF TypeOK, FramesCarry
  <1>2. CASE ExecShell \/ Bound \/ SetSession
    <2>1. UNCHANGED <<view, client, server, toServer, toClient, typed, up, shell, reader>>
      BY <1>2 DEF ExecShell, Bound, SetSession, ends
    <2>2. /\ waiter' \in [pc : {"none", "wait", "start", "run", "close", "end"}, n : 1 .. Shells]
          /\ entry' \in {"none", "unbound", "bound"}
          /\ handler' \in {"none", "recv", "bind", "set", "done"}
      BY <1>1, <1>2, TerminalAssumption DEF ExecShell, Bound, SetSession, TypeOK
    <2>3. TypeOK' /\ FramesCarry'
      BY <2>1, <2>2 DEF TypeOK, FramesCarry
    <2>4. OpensOnce' /\ BindFirst'
      BY <1>1, <1>2, <2>1 DEF ExecShell, Bound, SetSession, OpensOnce, BindFirst
    <2>5. OneShell'
      <3>1. CASE ExecShell
        BY <1>1, <2>1, <3>1 DEF ExecShell, OneShell
      <3>2. CASE Bound
        BY <1>1, <2>1, <3>2, TerminalAssumption DEF Bound, OneShell
      <3>3. CASE SetSession
        BY <2>1, <3>3 DEF SetSession, OneShell
      <3>. QED
        BY <1>2, <3>1, <3>2, <3>3
    <2>. QED
      BY <2>3, <2>4, <2>5
  <1>3. CASE Handle
    <2>1. UNCHANGED <<view, client, server, toClient, typed, up, entry, waiter, shell, reader>>
      BY <1>3 DEF Handle
    <2>2. handler = "recv" /\ handler' \in {"bind", "done"}
      BY <1>3 DEF Handle
    <2>3. toServer' = toServer \/ (toServer # <<>> /\ toServer' = Tail(toServer))
      BY <1>3 DEF Handle
    <2>4. /\ toServer' \in Seq(Frame) /\ \A k \in 1 .. Len(toServer') : Carries(toServer'[k])
          /\ toServer = <<>> => toServer' = <<>>
      BY <1>1, <2>3
    <2>5. TypeOK' /\ FramesCarry'
      BY <2>1, <2>2, <2>4 DEF TypeOK, FramesCarry
    <2>6. OpensOnce' /\ BindFirst' /\ OneShell'
      BY <2>1, <2>2, <2>4 DEF OpensOnce, BindFirst, OneShell
    <2>. QED
      BY <2>5, <2>6
  <1>. QED
    BY <1>2, <1>3

LEMMA ShellsKeepShape ==
  ASSUME Shape, StartProcess \/ ShellEnds
  PROVE  Shape'
  <1>. USE DEF Shape
  <1>. DEFINE Waiters == [pc : {"none", "wait", "start", "run", "close", "end"}, n : 1 .. Shells]
              Shs == [pc : {"none", "running", "ended"}, session : {"none", "unbound", "bound"},
                      size : Size \cup {NoSize}, input : Seq(1 .. MaxTyped)]
              Rds == [pc : {"none", "recv", "write", "size", "done"}, frame : Frame]
  <1>1. /\ waiter \in Waiters /\ waiter.n \in 1 .. Shells
        /\ shell \in [1 .. Shells -> Shs] /\ reader \in [1 .. Shells -> Rds]
        /\ entry \in {"none", "unbound", "bound"}
    BY DEF TypeOK
  <1>2. \A failed \in BOOLEAN :
          /\ afterShell(waiter.n, failed) \in Waiters
          /\ \/ afterShell(waiter.n, failed) = [pc |-> "close", n |-> waiter.n]
             \/ /\ waiter.n < Shells
                /\ afterShell(waiter.n, failed) = [pc |-> "start", n |-> waiter.n + 1]
    BY <1>1, TerminalAssumption DEF afterShell
  <1>3. UNCHANGED <<view, client, server, toServer, toClient, typed, up, entry, handler>>
    BY DEF StartProcess, ShellEnds, ends
  <1>4. waiter.pc \in {"start", "run"}
    BY DEF StartProcess, ShellEnds
  <1>5. ASSUME \E failed \in BOOLEAN : waiter' = afterShell(waiter.n, failed)
        PROVE  /\ waiter' \in Waiters
               /\ \/ waiter'.pc = "close" /\ waiter'.n = waiter.n
                  \/ /\ waiter'.pc = "start" /\ waiter'.n = waiter.n + 1
                     /\ waiter'.n \in 1 .. Shells
    BY <1>1, <1>2, <1>5
  <1>6. CASE waiter' = afterShell(waiter.n, TRUE) /\ UNCHANGED <<shell, reader>> /\ waiter.pc = "start"
    <2>0. \E failed \in BOOLEAN : waiter' = afterShell(waiter.n, failed)
      BY <1>6
    <2>1. /\ waiter' \in Waiters
          /\ \/ waiter'.pc = "close" /\ waiter'.n = waiter.n
             \/ /\ waiter'.pc = "start" /\ waiter'.n = waiter.n + 1
                /\ waiter'.n \in 1 .. Shells
      BY <1>5, <2>0
    <2>2. waiter.pc = "start" /\ shell' = shell /\ reader' = reader
      BY <1>6
    <2>3. TypeOK' /\ FramesCarry'
      BY <1>3, <2>1, <2>2 DEF TypeOK, FramesCarry
    <2>4. OpensOnce' /\ BindFirst'
      BY <1>3, <2>1, <2>2 DEF OpensOnce, BindFirst
    <2>5. OneShell'
      BY <1>1, <2>1, <2>2 DEF OneShell
    <2>. QED
      BY <2>3, <2>4, <2>5
  <1>7. CASE StartProcess /\ waiter' = [waiter EXCEPT !.pc = "run"]
    <2>. DEFINE new == [pc |-> "running", session |-> entry, size |-> NoSize, input |-> <<>>]
    <2>1. /\ waiter.pc = "start"
          /\ shell' = [shell EXCEPT ![waiter.n] = new]
          /\ reader' = [reader EXCEPT ![waiter.n] = [pc |-> "recv", frame |-> bind]]
      <3>1. \/ waiter' = afterShell(waiter.n, TRUE)
            \/ /\ shell' = [shell EXCEPT ![waiter.n] = new]
               /\ reader' = [reader EXCEPT ![waiter.n] = [pc |-> "recv", frame |-> bind]]
        BY <1>7 DEF StartProcess
      <3>2. afterShell(waiter.n, TRUE).pc \in {"close", "start"} /\ waiter'.pc = "run"
        BY <1>1, <1>7 DEF afterShell
      <3>. QED
        BY <1>7, <3>1, <3>2 DEF StartProcess
    <2>2. waiter' \in Waiters /\ waiter'.pc = "run" /\ waiter'.n = waiter.n
      BY <1>1, <1>7
    <2>3. new \in Shs /\ [pc |-> "recv", frame |-> bind] \in Rds
      BY <1>1, FramesOfEachKind
    <2>4. shell' \in [1 .. Shells -> Shs] /\ reader' \in [1 .. Shells -> Rds]
      BY <1>1, <2>1, <2>3
    <2>5. \A i \in 1 .. Shells :
            /\ i # waiter.n => shell'[i] = shell[i] /\ reader'[i] = reader[i]
            /\ i = waiter.n => shell'[i] = new /\ reader'[i] = [pc |-> "recv", frame |-> bind]
      BY <1>1, <2>1
    <2>6. TypeOK'
      BY <1>3, <2>2, <2>4 DEF TypeOK
    <2>7. FramesCarry'
      BY <1>3, <2>5, FramesOfEachKind DEF FramesCarry
    <2>8. OpensOnce' /\ BindFirst'
      BY <1>3, <1>4, <2>2 DEF OpensOnce, BindFirst
    <2>9. OneShell'
      BY <1>1, <2>1, <2>2, <2>5 DEF OneShell
    <2>. QED
      BY <2>6, <2>7, <2>8, <2>9
  <1>8. CASE ShellEnds
    <2>1. /\ shell' = [shell EXCEPT ![waiter.n].pc = "ended"] /\ reader' = reader
          /\ waiter.pc = "run"
          /\ \E failed \in BOOLEAN : waiter' = afterShell(waiter.n, failed)
      BY <1>8 DEF ShellEnds
    <2>2. shell' \in [1 .. Shells -> Shs]
      BY <1>1, <2>1
    <2>3. \A i \in 1 .. Shells :
            /\ i # waiter.n => shell'[i] = shell[i]
            /\ shell'[i].input = shell[i].input
            /\ i = waiter.n => shell'[i].pc = "ended"
      BY <1>1, <2>1
    <2>4. TypeOK' /\ FramesCarry'
      BY <1>3, <1>5, <2>1, <2>2 DEF TypeOK, FramesCarry
    <2>5. OpensOnce' /\ BindFirst'
      BY <1>3, <1>4, <1>5, <2>1 DEF OpensOnce, BindFirst
    <2>6. OneShell'
      BY <1>1, <1>5, <2>1, <2>3 DEF OneShell
    <2>. QED
      BY <2>4, <2>5, <2>6
  <1>. QED
    BY <1>6, <1>7, <1>8 DEF StartProcess

LEMMA TakenKeys ==
  ASSUME NEW keys \in Keys
  PROVE  /\ taken(keys) \in Keys
         /\ Len(taken(keys)) <= Len(keys)
         /\ \A k \in 1 .. Len(taken(keys)) : taken(keys)[k] = keys[k]
         /\ Len(keys) <= Buffer => taken(keys) = keys
  BY TerminalAssumption DEF taken, Keys

LEMMA ReadKeepsShape ==
  ASSUME Shape, NEW i \in 1 .. Shells, Read(i)
  PROVE  Shape'
  <1>. USE DEF Shape
  <1>. DEFINE Rds == [pc : {"none", "recv", "write", "size", "done"}, frame : Frame]
  <1>1. /\ reader \in [1 .. Shells -> Rds] /\ toServer \in Seq(Frame)
        /\ toClient \in Seq({echo}) /\ up \in BOOLEAN
    BY DEF TypeOK
  <1>2. UNCHANGED <<view, client, typed, entry, handler, waiter, shell>> /\ reader[i].pc = "recv"
    BY DEF Read
  <1>3. shell[i].pc # "none" /\ waiter.pc \notin {"none", "wait"} /\ server # "none"
    BY <1>2 DEF OneShell, OpensOnce
  <1>4. CASE crash /\ UNCHANGED <<toClient, reader>>
    <2>1. server' = "closed" /\ toServer' = <<>> /\ UNCHANGED <<toClient, reader>>
      BY <1>4 DEF crash, hangUp
    <2>2. TypeOK' /\ FramesCarry'
      <3>1. up' \in BOOLEAN
        BY <1>4, Zenon DEF crash
      <3>. QED
        BY <1>2, <2>1, <3>1 DEF TypeOK, FramesCarry
    <2>3. OpensOnce' /\ BindFirst' /\ OneShell'
      BY <1>2, <1>3, <2>1 DEF OpensOnce, BindFirst, OneShell
    <2>. QED
      BY <2>2, <2>3
  <1>5. CASE reader' = [reader EXCEPT ![i].pc = "done"] /\ UNCHANGED <<up, server, toServer, toClient>>
    <2>1. reader' \in [1 .. Shells -> Rds]
      BY <1>1, <1>5
    <2>2. \A j \in 1 .. Shells :
            /\ j # i => reader'[j] = reader[j]
            /\ reader'[j].frame = reader[j].frame
            /\ j = i => reader'[j].pc = "done"
      BY <1>1, <1>5
    <2>3. TypeOK'
      BY <1>2, <1>5, <2>1 DEF TypeOK
    <2>4. FramesCarry'
      BY <1>2, <1>5, <2>2 DEF FramesCarry
    <2>5. OpensOnce' /\ BindFirst'
      BY <1>2, <1>5 DEF OpensOnce, BindFirst
    <2>6. OneShell'
      BY <1>2, <1>3, <2>2 DEF OneShell
    <2>. QED
      BY <2>3, <2>4, <2>5, <2>6
  <1>6. CASE /\ toServer # <<>> /\ UNCHANGED <<up, server>>
             /\ LET frame == Head(toServer) IN
                  /\ toServer' = Tail(toServer)
                  /\ toClient' = IF frame.op = "echo" THEN Append(toClient, echo) ELSE toClient
                  /\ reader' = [reader EXCEPT ![i] =
                        CASE frame.op = "stdin"  -> [pc |-> "write", frame |-> stdin(taken(frame.data))]
                          [] frame.op = "resize" -> [pc |-> "size", frame |-> frame]
                          [] OTHER               -> @]
    <2>. DEFINE frame == Head(toServer)
                next == CASE frame.op = "stdin"  -> [pc |-> "write", frame |-> stdin(taken(frame.data))]
                          [] frame.op = "resize" -> [pc |-> "size", frame |-> frame]
                          [] OTHER               -> reader[i]
    <2>1. frame \in Frame /\ Carries(frame)
      BY <1>1, <1>6 DEF FramesCarry
    <2>2. /\ toServer' \in Seq(Frame) /\ \A k \in 1 .. Len(toServer') : Carries(toServer'[k])
          /\ toClient' \in Seq({echo})
      <3>1. toServer' = Tail(toServer) /\ toServer # <<>>
        BY <1>6
      <3>2. toServer' \in Seq(Frame)
        BY <1>1, <3>1
      <3>3. \A k \in 1 .. Len(toServer') : k + 1 \in 1 .. Len(toServer) /\ toServer'[k] = toServer[k + 1]
        BY <1>1, <3>1
      <3>4. toClient' \in Seq({echo})
        BY <1>1, <1>6
      <3>. QED
        BY <3>2, <3>3, <3>4 DEF FramesCarry
    <2>3. /\ next \in Rds /\ Carries(next.frame) /\ next.pc \in {"recv", "write", "size"}
          /\ next.pc = "write" => next.frame.op = "stdin"
          /\ next.pc = "size" => next.frame.op = "resize"
      <3>1. CASE frame.op = "stdin"
        <4>1. next = [pc |-> "write", frame |-> stdin(taken(frame.data))]
          BY <3>1
        <4>2. stdin(taken(frame.data)) \in Frame /\ Carries(stdin(taken(frame.data)))
          BY <2>1, <3>1, TakenKeys, FramesOfEachKind DEF Carries
        <4>3. stdin(taken(frame.data)).op = "stdin"
          BY DEF stdin
        <4>. HIDE DEF next
        <4>. QED
          BY <4>1, <4>2, <4>3
      <3>2. CASE frame.op = "resize"
        <4>1. next = [pc |-> "size", frame |-> frame]
          BY <3>2
        <4>. HIDE DEF next
        <4>. QED
          BY <2>1, <3>2, <4>1
      <3>3. CASE frame.op \notin {"stdin", "resize"}
        <4>1. next = reader[i]
          BY <3>3
        <4>. HIDE DEF next
        <4>. QED
          BY <1>1, <1>2, <4>1 DEF FramesCarry
      <3>. QED
        BY <3>1, <3>2, <3>3
    <2>4. reader' = [reader EXCEPT ![i] = next]
      BY <1>6
    <2>. HIDE DEF next
    <2>5. reader' \in [1 .. Shells -> Rds]
      BY <1>1, <2>3, <2>4
    <2>6. \A j \in 1 .. Shells : reader'[j] = IF j = i THEN next ELSE reader[j]
      BY <1>1, <2>4
    <2>7. TypeOK'
      BY <1>2, <1>6, <2>2, <2>5 DEF TypeOK
    <2>8. FramesCarry'
      BY <2>2, <2>3, <2>6 DEF FramesCarry
    <2>9. OpensOnce' /\ BindFirst'
      BY <1>2, <1>3, <1>6 DEF OpensOnce, BindFirst
    <2>10. OneShell'
      BY <1>2, <1>3, <2>6 DEF OneShell
    <2>. QED
      BY <2>7, <2>8, <2>9, <2>10
  <1>. QED
    BY <1>4, <1>5, <1>6 DEF Read

\* What a loop does with the frame it read does not start or end a shell.
ShellsKept ==
  /\ shell' \in [1 .. Shells -> [pc : {"none", "running", "ended"},
                                session : {"none", "unbound", "bound"},
                                size : Size \cup {NoSize}, input : Seq(1 .. MaxTyped)]]
  /\ \A j \in 1 .. Shells : /\ shell'[j].pc = shell[j].pc
                            /\ shell[j].pc = "none" => shell'[j] = shell[j]

LEMMA ActingOnShells ==
  ASSUME Shape, NEW i \in 1 .. Shells, WriteStdin(i) \/ \E j \in 1 .. Shells : PassSize(i, j)
  PROVE  ShellsKept
  <1>. USE DEF Shape
  <1>. DEFINE Shs == [pc : {"none", "running", "ended"}, session : {"none", "unbound", "bound"},
                      size : Size \cup {NoSize}, input : Seq(1 .. MaxTyped)]
  <1>1. shell \in [1 .. Shells -> Shs] /\ Carries(reader[i].frame)
    BY DEF TypeOK, FramesCarry
  <1>2. CASE WriteStdin(i)
    <2>1. CASE shell[i].pc = "running"
      <3>1. reader[i].frame.data \in Keys
        BY <1>1, <1>2 DEF WriteStdin, FramesCarry, Carries
      <3>2. shell' = [shell EXCEPT ![i].input = @ \o reader[i].frame.data]
        BY <1>2, <2>1 DEF WriteStdin
      <3>3. shell[i].input \o reader[i].frame.data \in Seq(1 .. MaxTyped)
        BY <1>1, <3>1 DEF Keys
      <3>. QED
        BY <1>1, <2>1, <3>2, <3>3 DEF ShellsKept
    <2>2. CASE shell[i].pc # "running"
      BY <1>1, <1>2, <2>2 DEF WriteStdin, ShellsKept
    <2>. QED
      BY <2>1, <2>2
  <1>3. ASSUME NEW j \in 1 .. Shells, PassSize(i, j)
        PROVE  ShellsKept
    <2>1. reader[i].frame.data \in Size
      BY <1>1, <1>3 DEF PassSize, FramesCarry, Carries
    <2>2. shell' = shell \/ (shell[j].pc = "running"
                             /\ shell' = [shell EXCEPT ![j].size = reader[i].frame.data])
      BY <1>3 DEF PassSize
    <2>3. CASE shell' = [shell EXCEPT ![j].size = reader[i].frame.data]
      <3>1. [shell[j] EXCEPT !.size = reader[i].frame.data] \in Shs
        BY <1>1, <2>1
      <3>. QED
        BY <1>1, <2>2, <2>3, <3>1 DEF ShellsKept
    <2>. QED
      BY <1>1, <2>2, <2>3 DEF ShellsKept
  <1>. QED
    BY <1>2, <1>3

\* The loop goes on or ends.
LEMMA ActingKeepsShape ==
  ASSUME Shape, NEW i \in 1 .. Shells, WriteStdin(i) \/ \E j \in 1 .. Shells : PassSize(i, j)
  PROVE  Shape'
  <1>. USE DEF Shape
  <1>. DEFINE Rds == [pc : {"none", "recv", "write", "size", "done"}, frame : Frame]
              Shs == [pc : {"none", "running", "ended"}, session : {"none", "unbound", "bound"},
                      size : Size \cup {NoSize}, input : Seq(1 .. MaxTyped)]
  <1>1. /\ reader \in [1 .. Shells -> Rds] /\ shell \in [1 .. Shells -> Shs]
        /\ Carries(reader[i].frame)
    BY DEF TypeOK, FramesCarry
  <1>2. UNCHANGED <<view, client, server, toServer, toClient, typed, up, entry, handler, waiter>>
    BY DEF WriteStdin, PassSize, ends
  <1>3. PICK on \in {"recv", "done"} : reader' = [reader EXCEPT ![i] = [pc |-> on, frame |-> bind]]
    BY DEF WriteStdin, PassSize
  <1>4. [pc |-> on, frame |-> bind] \in Rds /\ Carries(bind)
    BY FramesOfEachKind
  <1>5. /\ reader' \in [1 .. Shells -> Rds]
        /\ \A j \in 1 .. Shells : reader'[j] = IF j = i THEN [pc |-> on, frame |-> bind] ELSE reader[j]
    BY <1>1, <1>3, <1>4
  <1>6. reader[i].pc \in {"write", "size"}
    BY DEF WriteStdin, PassSize
  <1>7. ShellsKept
    BY ActingOnShells
  <1>8. TypeOK'
    BY <1>2, <1>5, <1>7 DEF TypeOK, ShellsKept
  <1>9. FramesCarry'
    BY <1>2, <1>4, <1>5 DEF FramesCarry
  <1>10. OpensOnce' /\ BindFirst'
    BY <1>2 DEF OpensOnce, BindFirst
  <1>11. OneShell'
    <2>1. shell[i].pc # "none"
      BY <1>6 DEF OneShell
    <2>2. \A j \in 1 .. Shells :
            /\ shell'[j].pc = shell[j].pc
            /\ shell[j].pc = "none" => reader'[j] = reader[j] /\ shell'[j] = shell[j]
      BY <1>5, <1>7, <2>1 DEF ShellsKept
    <2>3. waiter' = waiter /\ waiter.n \in 1 .. Shells /\ OneShell
      BY <1>2 DEF TypeOK
    <2>. HIDE DEF Shape
    <2>. QED
      BY <2>2, <2>3 DEF OneShell
  <1>. QED
    BY <1>8, <1>9, <1>10, <1>11

LEMMA StepKeepsShape == Shape /\ [Next]_vars => Shape'
  <1>. SUFFICES ASSUME Shape, [Next]_vars
                PROVE  Shape'
    OBVIOUS
  <1>1. CASE Component
    BY <1>1, ViewKeepsShape, SendingKeepsShape, OpenKeepsShape DEF Component
  <1>2. CASE Backend
    BY <1>2, HandlerKeepsShape, HangingUpKeepsShape, ShellsKeepShape, ReadKeepsShape,
       ActingKeepsShape DEF Backend
  <1>3. CASE LinkLost
    BY <1>3, HangingUpKeepsShape
  <1>4. CASE UNCHANGED vars
    <2>1. Shape => (Shape)'
      <3>1. TypeOK => (TypeOK)'
        BY <1>4 DEF vars, ends, goroutines, TypeOK
      <3>2. FramesCarry => (FramesCarry)'
        BY <1>4 DEF vars, ends, goroutines, FramesCarry
      <3>3. /\ OpensOnce => (OpensOnce)'
            /\ BindFirst => (BindFirst)'
            /\ OneShell => (OneShell)'
        BY <1>4 DEF vars, ends, goroutines, OpensOnce, BindFirst, OneShell
      <3>. QED
        BY <3>1, <3>2, <3>3 DEF Shape
    <2>. QED
      BY <2>1
  <1>. QED
    BY <1>1, <1>2, <1>3, <1>4 DEF Next

LEMMA ShapeHolds == Spec => []Shape
  <1>1. Init => Shape
    BY ShapeInit
  <1>2. Shape /\ [Next]_vars => Shape'
    BY StepKeepsShape
  <1>. QED
    BY <1>1, <1>2, PTL DEF Spec

\* The state of the component, of the connection and of the goroutines has the
\* shape that shell.component.ts and terminal.go give it.
THEOREM TerminalTypeCorrect == Spec => []TypeOK
  <1>1. Shape => TypeOK
    BY DEF Shape
  <1>. QED
    BY <1>1, ShapeHolds, PTL

-----------------------------------------------------------------------------
(* The keys in some frames.                                                *)

Carrying == {frames \in Seq(Frame) : \A k \in 1 .. Len(frames) : Carries(frames[k])}

\* The keys of one frame.
keysOf(frame) == IF frame.op = "stdin" THEN frame.data ELSE <<>>

\* f gathers the keys of the first frames.
Gathers(f, frames) ==
  /\ f \in [0 .. Len(frames) -> Keys]
  /\ f[0] = <<>>
  /\ \A n \in 1 .. Len(frames) : f[n] = f[n - 1] \o keysOf(frames[n])

LEMMA KeysAssociate ==
  ASSUME NEW a \in Keys, NEW b \in Keys, NEW c \in Keys
  PROVE  (a \o b) \o c = a \o (b \o c)
  BY DEF Keys

LEMMA KeysOfFrame ==
  ASSUME NEW frames \in Carrying, NEW n \in 1 .. Len(frames)
  PROVE  keysOf(frames[n]) \in Keys
  <1>1. <<>> \in Keys
    BY DEF Keys
  <1>. QED
    BY <1>1 DEF Carrying, Carries, keysOf

LEMMA KeysInGathers ==
  ASSUME NEW frames \in Carrying
  PROVE  \E f : Gathers(f, frames) /\ keysIn(frames) = f[Len(frames)]
  <1>. DEFINE L == Len(frames)
              step == [p \in Keys \X Nat |->
                         IF p[2] \in 1 .. L THEN p[1] \o keysOf(frames[p[2]]) ELSE p[1]]
              F(f) == [n \in 0 .. L |->
                         IF n = 0 THEN <<>>
                         ELSE IF frames[n].op = "stdin" THEN f[n - 1] \o frames[n].data ELSE f[n - 1]]
              c == CHOOSE f : f = F(f)
  <1>1. L \in Nat /\ <<>> \in Keys
    BY DEF Carrying, Keys
  <1>2. step \in [Keys \X Nat -> Keys]
    <2>1. ASSUME NEW p \in Keys \X Nat
          PROVE  (IF p[2] \in 1 .. L THEN p[1] \o keysOf(frames[p[2]]) ELSE p[1]) \in Keys
      <3>1. p[1] \in Keys
        OBVIOUS
      <3>2. CASE p[2] \in 1 .. L
        <4>1. keysOf(frames[p[2]]) \in Keys
          BY <3>2, KeysOfFrame
        <4>. QED
          BY <3>1, <3>2, <4>1 DEF Keys
      <3>. QED
        BY <3>1, <3>2
    <2>. QED
      BY <2>1
  <1>3. PICK g : Recursive(g, L, Keys, <<>>, step)
    <2>. HIDE DEF step, L
    <2>. QED
      BY <1>1, <1>2, RecursionExists
  <1>4. g \in [0 .. L -> Keys] /\ g[0] = <<>> /\ \A n \in 1 .. L : g[n] = step[<<g[n - 1], n>>]
    BY <1>3 DEF Recursive
  <1>5. \A n \in 1 .. L : g[n] = g[n - 1] \o keysOf(frames[n])
    <2>1. ASSUME NEW n \in 1 .. L
          PROVE  g[n] = g[n - 1] \o keysOf(frames[n])
      <3>1. <<g[n - 1], n>> \in Keys \X Nat
        BY <1>1, <1>4
      <3>2. step[<<g[n - 1], n>>] = g[n - 1] \o keysOf(frames[n])
        BY <3>1
      <3>. QED
        BY <1>4, <3>2
    <2>. QED
      BY <2>1
  <1>6. g = F(g)
    <2>1. ASSUME NEW n \in 1 .. L
          PROVE  g[n] = IF frames[n].op = "stdin" THEN g[n - 1] \o frames[n].data ELSE g[n - 1]
      <3>1. g[n - 1] \in Keys /\ g[n] = g[n - 1] \o keysOf(frames[n])
        BY <1>1, <1>4, <1>5
      <3>2. g[n - 1] \o <<>> = g[n - 1]
        BY <3>1 DEF Keys
      <3>. QED
        BY <3>1, <3>2 DEF keysOf
    <2>2. ASSUME NEW n \in 0 .. L
          PROVE  g[n] = IF n = 0 THEN <<>>
                        ELSE IF frames[n].op = "stdin" THEN g[n - 1] \o frames[n].data ELSE g[n - 1]
      <3>1. CASE n = 0
        BY <1>4, <3>1
      <3>2. CASE n \in 1 .. L
        BY <2>1, <3>2
      <3>. QED
        BY <1>1, <3>1, <3>2
    <2>. QED
      BY <1>4, <2>2
  <1>7. c = F(c)
    <2>. HIDE DEF F
    <2>. QED
      BY <1>6
  <1>8. keysIn(frames) = c[L]
    BY DEF keysIn
  <1>9. ASSUME NEW n \in 1 .. L
        PROVE  c[n] = IF frames[n].op = "stdin" THEN c[n - 1] \o frames[n].data ELSE c[n - 1]
    <2>1. n \in 0 .. L /\ n # 0
      BY <1>1
    <2>. HIDE DEF c
    <2>. QED
      BY <1>7, <2>1
  <1>10. c[0] = <<>>
    <2>. HIDE DEF c
    <2>. QED
      BY <1>1, <1>7
  <1>11. \A n \in 0 .. L : c[n] = g[n]
    <2>. DEFINE T == {n \in Nat : n <= L => c[n] = g[n]}
    <2>1. T = Nat
      <3>1. 0 \in T
        BY <1>4, <1>10
      <3>2. ASSUME NEW n \in T
            PROVE  n + 1 \in T
        <4>1. CASE n + 1 <= L
          <5>1. n \in Nat
            OBVIOUS
          <5>2. PICK m \in 1 .. L : m = n + 1 /\ m - 1 = n
            BY <1>1, <4>1, <5>1
          <5>3. c[n] = g[n]
            BY <4>1, <5>1
          <5>4. c[m] = IF frames[m].op = "stdin" THEN c[m - 1] \o frames[m].data ELSE c[m - 1]
            BY <1>9
          <5>5. g[m] = g[m - 1] \o keysOf(frames[m]) /\ g[n] \in Keys
            <6>1. n \in 0 .. L
              BY <1>1, <5>1, <5>2
            <6>. QED
              BY <1>4, <1>5, <6>1
          <5>6. g[n] \o <<>> = g[n]
            BY <5>5 DEF Keys
          <5>. HIDE DEF c
          <5>7. c[m] = g[m]
            BY <5>2, <5>3, <5>4, <5>5, <5>6 DEF keysOf
          <5>. QED
            BY <5>1, <5>2, <5>7
        <4>. QED
          BY <1>1, <4>1
      <3>. HIDE DEF T
      <3>3. T \in SUBSET Nat
        BY DEF T
      <3>. QED
        BY <3>1, <3>2, <3>3, SetInduction
    <2>. HIDE DEF c
    <2>. QED
      BY <1>1, <2>1
  <1>12. Gathers(g, frames) /\ keysIn(frames) = g[Len(frames)]
    <2>. HIDE DEF c
    <2>. QED
      BY <1>1, <1>4, <1>5, <1>8, <1>11 DEF Gathers
  <1>. QED
    BY <1>12

\* Two ways of gathering that start together and meet the same keys go on
\* together.
Alike(p, L, f, g, keys) ==
  /\ f[0] = p \o g[0]
  /\ \A n \in 0 .. L : g[n] \in Keys
  /\ \A n \in 1 .. L : /\ keys[n] \in Keys
                       /\ f[n] = f[n - 1] \o keys[n]
                       /\ g[n] = g[n - 1] \o keys[n]

LEMMA GatheredAlike ==
  ASSUME NEW p \in Keys, NEW L \in Nat, NEW f, NEW g, NEW keys, Alike(p, L, f, g, keys)
  PROVE  f[L] = p \o g[L]
  <1>. DEFINE T == {n \in Nat : n <= L => f[n] = p \o g[n]}
  <1>1. 0 \in T
    BY DEF Alike
  <1>2. ASSUME NEW n \in T
        PROVE  n + 1 \in T
    <2>1. n \in Nat /\ (n <= L => f[n] = p \o g[n])
      OBVIOUS
    <2>2. CASE n + 1 <= L
      <3>. HIDE DEF T
      <3>1. PICK m \in 1 .. L : m = n + 1 /\ m - 1 = n /\ n \in 0 .. L
        BY <2>1, <2>2
      <3>2. f[n] = p \o g[n] /\ g[n] \in Keys /\ keys[m] \in Keys
        <4>1. n <= L
          BY <2>1, <2>2
        <4>. QED
          BY <2>1, <3>1, <4>1 DEF Alike
      <3>3. f[m] = f[n] \o keys[m] /\ g[m] = g[n] \o keys[m]
        BY <3>1 DEF Alike
      <3>4. (p \o g[n]) \o keys[m] = p \o (g[n] \o keys[m])
        BY <3>2, KeysAssociate
      <3>5. f[n + 1] = p \o g[n + 1]
        BY <3>1, <3>2, <3>3, <3>4
      <3>. QED
        BY <2>1, <3>5 DEF T
    <2>. QED
      BY <2>1, <2>2
  <1>3. T = Nat
    <2>. HIDE DEF T
    <2>1. T \in SUBSET Nat
      BY DEF T
    <2>. QED
      BY <1>1, <1>2, <2>1, SetInduction
  <1>4. L \in T
    <2>. HIDE DEF T
    <2>. QED
      BY <1>3
  <1>. QED
    BY <1>4

LEMMA KeysInAppended ==
  ASSUME NEW frames \in Carrying, NEW frame \in Frame, Carries(frame)
  PROVE  /\ Append(frames, frame) \in Carrying
         /\ keysIn(Append(frames, frame)) = keysIn(frames) \o keysOf(frame)
  <1>. DEFINE L == Len(frames)
              more == Append(frames, frame)
              keys == [n \in 1 .. L |-> keysOf(frames[n])]
  <1>1. frames \in Seq(Frame) /\ L \in Nat /\ \A n \in 1 .. L : Carries(frames[n])
    BY DEF Carrying
  <1>2. /\ more \in Seq(Frame) /\ Len(more) = L + 1 /\ more[L + 1] = frame
        /\ \A n \in 1 .. L : more[n] = frames[n]
    BY <1>1
  <1>. HIDE DEF more
  <1>3. more \in Carrying
    BY <1>1, <1>2 DEF Carrying
  <1>4. PICK g : Gathers(g, frames) /\ keysIn(frames) = g[L]
    BY KeysInGathers
  <1>5. PICK f : Gathers(f, more) /\ keysIn(more) = f[L + 1]
    BY <1>2, <1>3, KeysInGathers
  <1>6. \A n \in 1 .. L : keys[n] \in Keys /\ keys[n] = keysOf(frames[n]) /\ keys[n] = keysOf(more[n])
    BY <1>2, KeysOfFrame
  <1>. HIDE DEF keys
  <1>7. <<>> \in Keys /\ <<>> \o <<>> = <<>>
    BY DEF Keys
  <1>8. Alike(<<>>, L, f, g, keys)
    <2>1. f[0] = <<>> \o g[0] /\ \A n \in 0 .. L : g[n] \in Keys
      BY <1>4, <1>5, <1>7 DEF Gathers
    <2>2. ASSUME NEW n \in 1 .. L
          PROVE  f[n] = f[n - 1] \o keys[n] /\ g[n] = g[n - 1] \o keys[n]
      <3>1. n \in 1 .. Len(more)
        BY <1>1, <1>2
      <3>. QED
        BY <1>4, <1>5, <1>6, <3>1 DEF Gathers
    <2>. QED
      BY <1>6, <2>1, <2>2 DEF Alike
  <1>9. f[L] = <<>> \o g[L]
    BY <1>1, <1>7, <1>8, GatheredAlike
  <1>10. g[L] \in Keys /\ <<>> \o g[L] = g[L]
    BY <1>1, <1>4 DEF Gathers, Keys
  <1>11. f[L + 1] = f[L] \o keysOf(frame)
    <2>1. PICK m \in 1 .. Len(more) : m = L + 1 /\ m - 1 = L
      BY <1>1, <1>2
    <2>. QED
      BY <1>2, <1>5, <2>1 DEF Gathers
  <1>. QED
    BY <1>3, <1>4, <1>5, <1>9, <1>10, <1>11 DEF more

LEMMA KeysInTail ==
  ASSUME NEW frames \in Carrying, frames # <<>>
  PROVE  /\ Tail(frames) \in Carrying
         /\ keysOf(Head(frames)) \in Keys
         /\ keysIn(frames) = keysOf(Head(frames)) \o keysIn(Tail(frames))
  <1>. DEFINE rest == Tail(frames)
              L == Len(rest)
              keys == [n \in 1 .. L |-> keysOf(rest[n])]
              first == keysOf(Head(frames))
  <1>1. frames \in Seq(Frame) /\ Len(frames) \in Nat /\ \A n \in 1 .. Len(frames) : Carries(frames[n])
    BY DEF Carrying
  <1>2. /\ rest \in Seq(Frame) /\ Len(frames) = L + 1 /\ L \in Nat /\ frames[1] = Head(frames)
        /\ \A n \in 1 .. L : rest[n] = frames[n + 1]
    BY <1>1
  <1>. HIDE DEF rest
  <1>3. rest \in Carrying
    <2>1. ASSUME NEW n \in 1 .. L
          PROVE  Carries(rest[n])
      <3>1. n + 1 \in 1 .. Len(frames)
        BY <1>2
      <3>. QED
        BY <1>1, <1>2, <3>1
    <2>. QED
      BY <1>2, <2>1 DEF Carrying
  <1>4. PICK f0 : Gathers(f0, frames) /\ keysIn(frames) = f0[L + 1]
    BY <1>2, KeysInGathers
  <1>5. PICK g : Gathers(g, rest) /\ keysIn(rest) = g[L]
    BY <1>3, KeysInGathers
  <1>. DEFINE f == [n \in 0 .. L |-> f0[n + 1]]
  <1>6. \A n \in 1 .. L : keys[n] \in Keys /\ keys[n] = keysOf(rest[n]) /\ keys[n] = keysOf(frames[n + 1])
    BY <1>2, <1>3, KeysOfFrame
  <1>. HIDE DEF keys
  <1>7. first \in Keys
    <2>1. 1 \in 1 .. Len(frames)
      BY <1>2
    <2>. QED
      BY <1>2, <2>1, KeysOfFrame
  <1>8. Alike(first, L, f, g, keys)
    <2>1. ASSUME NEW n \in 1 .. L
          PROVE  f[n] = f[n - 1] \o keys[n]
      <3>1. PICK m \in 1 .. Len(frames) : m = n + 1 /\ m - 1 = n
        BY <1>2
      <3>2. f0[m] = f0[m - 1] \o keysOf(frames[m])
        BY <1>4 DEF Gathers
      <3>3. f[n] = f0[n + 1] /\ f[n - 1] = f0[n]
        BY <1>2
      <3>. QED
        BY <1>6, <3>1, <3>2, <3>3
    <2>2. \A n \in 1 .. L : keys[n] \in Keys /\ g[n] = g[n - 1] \o keys[n]
      BY <1>5, <1>6 DEF Gathers
    <2>3. f[0] = first \o g[0]
      <3>1. PICK m \in 1 .. Len(frames) : m = 1 /\ m - 1 = 0
        BY <1>2
      <3>2. f0[m] = f0[m - 1] \o keysOf(frames[m]) /\ f0[0] = <<>> /\ g[0] = <<>>
        BY <1>4, <1>5 DEF Gathers
      <3>3. f[0] = f0[1]
        BY <1>2
      <3>4. f[0] = <<>> \o first
        BY <1>2, <3>1, <3>2, <3>3
      <3>5. <<>> \o first = first \o <<>>
        BY <1>7 DEF Keys
      <3>. QED
        BY <3>2, <3>4, <3>5
    <2>4. \A n \in 0 .. L : g[n] \in Keys
      BY <1>5 DEF Gathers
    <2>. HIDE DEF f, first
    <2>. QED
      BY <2>1, <2>2, <2>3, <2>4 DEF Alike
  <1>9. f[L] = first \o g[L]
    <2>. HIDE DEF f, first
    <2>. QED
      BY <1>2, <1>7, <1>8, GatheredAlike
  <1>10. f[L] = f0[L + 1]
    BY <1>2
  <1>. QED
    BY <1>3, <1>4, <1>5, <1>7, <1>9, <1>10 DEF rest

LEMMA KeysInNone ==
  /\ <<>> \in Carrying /\ keysIn(<<>>) = <<>>
  /\ \A frames \in Carrying : keysIn(frames) \in Keys
  <1>1. <<>> \in Carrying
    BY DEF Carrying
  <1>2. ASSUME NEW frames \in Carrying
        PROVE  keysIn(frames) \in Keys /\ (Len(frames) = 0 => keysIn(frames) = <<>>)
    <2>1. PICK f : Gathers(f, frames) /\ keysIn(frames) = f[Len(frames)]
      BY KeysInGathers
    <2>2. Len(frames) \in Nat
      BY DEF Carrying
    <2>. QED
      BY <2>1, <2>2 DEF Gathers
  <1>. QED
    BY <1>1, <1>2

-----------------------------------------------------------------------------
(* How keys move: they are typed, taken out of a frame, and written; or they *)
(* are lost with the connection.                                           *)

underWay == keysIn(toServer)

InputsSame == \A i \in 1 .. Shells : shell'[i].input = shell[i].input
HeldSame == \A i \in 1 .. Shells : held(i)' = held(i)

Typing ==
  /\ InputsSame /\ HeldSame /\ server' = server
  /\ \E n \in Nat :
       /\ n <= Paste /\ typed' = typed + n
       /\ underWay' = IF server = "open" THEN underWay \o [k \in 1 .. n |-> typed + k] ELSE underWay

Reading ==
  /\ InputsSame /\ typed' = typed
  /\ toServer # <<>>
  /\ underWay = keysOf(Head(toServer)) \o underWay'
  /\ \E i \in 1 .. Shells :
       /\ held(i) = <<>> /\ held(i)' = taken(keysOf(Head(toServer)))
       /\ shell[i].pc # "none"
       /\ \A j \in 1 .. Shells \ {i} : held(j)' = held(j)

Writing ==
  /\ underWay' = underWay /\ typed' = typed
  /\ \E i \in 1 .. Shells :
       /\ shell[i].pc # "none" /\ held(i)' = <<>>
       /\ shell'[i].input = IF shell[i].pc = "running" THEN shell[i].input \o held(i) ELSE shell[i].input
       /\ \A j \in 1 .. Shells \ {i} : held(j)' = held(j) /\ shell'[j].input = shell[j].input

Losing ==
  /\ InputsSame /\ HeldSame /\ typed' = typed
  /\ underWay' = <<>> /\ server' = "closed"

Resting == InputsSame /\ HeldSame /\ typed' = typed /\ underWay' = underWay

KeysTyped ==
  /\ toServer \in Carrying /\ underWay \in Keys
  /\ \A i \in 1 .. Shells : held(i) \in Keys /\ shell[i].input \in Keys
  /\ typed \in 0 .. MaxTyped

LEMMA KeysUnderWay == Shape => KeysTyped
  <1>. SUFFICES ASSUME Shape
                PROVE  KeysTyped
    OBVIOUS
  <1>1. toServer \in Carrying /\ typed \in 0 .. MaxTyped /\ \A i \in 1 .. Shells : shell[i].input \in Keys
    BY DEF Shape, TypeOK, FramesCarry, Carrying, Keys
  <1>2. ASSUME NEW i \in 1 .. Shells
        PROVE  held(i) \in Keys
    <2>1. reader[i].pc = "write" => reader[i].frame.data \in Keys
      BY DEF Shape, FramesCarry, Carries
    <2>2. <<>> \in Keys
      BY DEF Keys
    <2>. QED
      BY <2>1, <2>2 DEF held
  <1>. QED
    BY <1>1, <1>2, KeysInNone DEF underWay, KeysTyped

LEMMA KeysMove ==
  ASSUME Shape, [Next]_vars
  PROVE  Typing \/ Reading \/ Writing \/ Losing \/ Resting
  <1>. USE DEF Shape
  <1>0. toServer \in Carrying /\ underWay \in Keys /\ typed \in 0 .. MaxTyped
    BY KeysUnderWay DEF KeysTyped
  <1>1. ASSUME UNCHANGED <<shell, reader>>
        PROVE  InputsSame /\ HeldSame
    BY <1>1 DEF InputsSame, HeldSame, held
  <1>2. CASE UNCHANGED <<toServer, typed, shell, reader>>
    BY <1>1, <1>2 DEF Resting, underWay
  <1>3. CASE Type
    <2>1. PICK n \in 1 .. Paste : /\ typed' = typed + n /\ typed + n <= MaxTyped
                                 /\ toServer' = sent(<<stdin([k \in 1 .. n |-> typed + k])>>)
      BY <1>3 DEF Type
    <2>. DEFINE keys == [k \in 1 .. n |-> typed + k]
    <2>2. keys \in Keys /\ stdin(keys) \in Frame /\ Carries(stdin(keys)) /\ keysOf(stdin(keys)) = keys
      <3>1. keys \in Keys
        BY <1>0, <2>1, TerminalAssumption DEF Keys
      <3>. QED
        BY <3>1, FramesOfEachKind DEF keysOf, stdin
    <2>. HIDE DEF keys
    <2>3. underWay' = IF server = "open" THEN underWay \o keys ELSE underWay
      <3>1. CASE server = "open"
        <4>1. toServer' = Append(toServer, stdin(keys))
          BY <1>0, <2>1, <3>1 DEF sent, Carrying, keys
        <4>. QED
          BY <1>0, <2>2, <3>1, <4>1, KeysInAppended DEF underWay
      <3>. QED
        BY <2>1, <3>1 DEF sent, underWay
    <2>4. InputsSame /\ HeldSame /\ server' = server
      BY <1>1, <1>3 DEF Type, goroutines
    <2>5. /\ n \in Nat /\ n <= Paste /\ typed' = typed + n
          /\ underWay' = IF server = "open" THEN underWay \o [k \in 1 .. n |-> typed + k] ELSE underWay
      BY <2>1, <2>3, TerminalAssumption DEF keys
    <2>6. Typing
      BY <2>4, <2>5, Zenon DEF Typing
    <2>. QED
      BY <2>6
  <1>4. CASE Resize \/ SendPing
    <2>1. PICK frame \in Frame : Carries(frame) /\ frame.op # "stdin" /\ toServer' \in {sent(<<frame>>), toServer}
      BY <1>4, FramesOfEachKind DEF Resize, SendPing, resize, echo, TypeOK
    <2>2. UNCHANGED <<typed, shell, reader>>
      BY <1>4 DEF Resize, SendPing, goroutines
    <2>3. keysIn(toServer') = keysIn(toServer)
      <3>1. CASE toServer' = Append(toServer, frame)
        <4>1. keysIn(toServer') = keysIn(toServer) \o <<>>
          BY <1>0, <2>1, <3>1, KeysInAppended DEF keysOf
        <4>. QED
          BY <1>0, <4>1 DEF underWay, Keys
      <3>2. toServer' \in {Append(toServer, frame), toServer}
        BY <1>0, <2>1 DEF sent, Carrying
      <3>. QED
        BY <3>1, <3>2
    <2>. QED
      BY <1>1, <2>2, <2>3 DEF Resting, underWay
  <1>5. CASE Open
    <2>1. toServer = <<>> /\ UNCHANGED <<typed, shell, reader>> /\ toServer' = <<bind, resize(view.size)>>
      BY <1>5 DEF Open, OpensOnce
    <2>2. resize(view.size) \in Frame /\ Carries(resize(view.size)) /\ resize(view.size).op # "stdin"
      BY FramesOfEachKind DEF TypeOK, resize
    <2>. DEFINE size == resize(view.size)
    <2>3. /\ <<bind, size>> \in Carrying
          /\ Head(<<bind, size>>) = bind /\ Tail(<<bind, size>>) = <<size>>
          /\ Head(<<size>>) = size /\ Tail(<<size>>) = <<>>
      <3>1. ASSUME NEW a \in Frame, NEW b \in Frame, Carries(a), Carries(b)
            PROVE  /\ <<a, b>> \in Carrying
                   /\ Head(<<a, b>>) = a /\ Tail(<<a, b>>) = <<b>>
                   /\ Head(<<b>>) = b /\ Tail(<<b>>) = <<>>
        <4>1. <<a, b>> \in Seq(Frame) /\ \A k \in 1 .. Len(<<a, b>>) : Carries(<<a, b>>[k])
          BY <3>1
        <4>2. <<a, b>> \in Carrying
          BY <4>1 DEF Carrying
        <4>. QED
          BY <4>2
      <3>. HIDE DEF size
      <3>. QED
        BY <2>2, <3>1, FramesOfEachKind DEF size
    <2>4. keysOf(bind) = <<>> /\ keysOf(size) = <<>>
      BY <2>2 DEF keysOf, bind
    <2>. HIDE DEF size
    <2>5. <<size>> \in Carrying /\ keysIn(<<size>>) = <<>> \o <<>> /\ keysIn(<<bind, size>>) = <<>> \o keysIn(<<size>>)
      <3>1. <<bind, size>> # <<>> /\ <<size>> # <<>>
        OBVIOUS
      <3>2. <<size>> \in Carrying /\ keysIn(<<bind, size>>) = <<>> \o keysIn(<<size>>)
        BY <2>3, <2>4, <3>1, KeysInTail
      <3>. QED
        BY <2>3, <2>4, <3>1, <3>2, KeysInTail, KeysInNone
    <2>6. keysIn(toServer') = keysIn(toServer)
      <3>1. <<>> \o <<>> = <<>>
        BY KeysInNone DEF Keys
      <3>. QED
        BY <2>1, <2>5, <3>1, KeysInNone DEF size
    <2>. QED
      BY <1>1, <2>1, <2>6 DEF Resting, underWay
  <1>6. CASE LinkLost \/ MapRace \/ CloseSession
    <2>1. toServer' = <<>> /\ server' = "closed" /\ UNCHANGED <<typed, shell, reader>>
      BY <1>6 DEF LinkLost, MapRace, CloseSession, hangUp, crash, goroutines
    <2>. QED
      BY <1>1, <2>1, KeysInNone DEF Losing, underWay
  <1>7. CASE Handle
    <2>1. UNCHANGED <<typed, shell, reader>> /\ handler = "recv"
      BY <1>7 DEF Handle
    <2>2. CASE toServer' = toServer
      BY <1>1, <2>1, <2>2 DEF Resting, underWay
    <2>3. CASE toServer # <<>> /\ toServer' = Tail(toServer)
      <3>1. Head(toServer) = bind
        BY <2>1, <2>3 DEF OpensOnce, BindFirst
      <3>2. keysOf(bind) = <<>>
        BY DEF keysOf, bind
      <3>3. keysIn(toServer) = <<>> \o keysIn(toServer') /\ keysIn(toServer') \in Keys
        BY <1>0, <2>3, <3>1, <3>2, KeysInTail, KeysInNone
      <3>4. keysIn(toServer) = keysIn(toServer')
        BY <3>3 DEF Keys
      <3>. QED
        BY <1>1, <2>1, <3>4 DEF Resting, underWay
    <2>. QED
      BY <1>7, <2>2, <2>3 DEF Handle
  <1>8. CASE StartProcess \/ ShellEnds
    <2>1. UNCHANGED <<toServer, typed>> /\ waiter.n \in 1 .. Shells
      BY <1>8 DEF StartProcess, ShellEnds, ends, TypeOK
    <2>2. InputsSame /\ HeldSame
      <3>1. CASE UNCHANGED <<shell, reader>>
        BY <1>1, <3>1
      <3>2. CASE StartProcess /\ ~ UNCHANGED <<shell, reader>>
        <4>1. /\ shell' = [shell EXCEPT ![waiter.n] = [pc |-> "running", session |-> entry,
                                                       size |-> NoSize, input |-> <<>>]]
              /\ reader' = [reader EXCEPT ![waiter.n] = [pc |-> "recv", frame |-> bind]]
              /\ waiter.pc = "start"
          BY <3>2 DEF StartProcess
        <4>2. shell[waiter.n].input = <<>> /\ reader[waiter.n].pc = "none"
          BY <2>1, <4>1 DEF OneShell
        <4>3. \A i \in 1 .. Shells : /\ shell'[i].input = shell[i].input
                                     /\ i # waiter.n => reader'[i] = reader[i]
                                     /\ i = waiter.n => reader'[i].pc = "recv"
          BY <4>1, <4>2 DEF TypeOK
        <4>. QED
          BY <4>2, <4>3 DEF InputsSame, HeldSame, held
      <3>3. CASE ShellEnds
        <4>1. shell' = [shell EXCEPT ![waiter.n].pc = "ended"] /\ reader' = reader
          BY <3>3 DEF ShellEnds
        <4>. QED
          BY <4>1 DEF InputsSame, HeldSame, held, TypeOK
      <3>. QED
        BY <1>8, <3>1, <3>2, <3>3
    <2>. QED
      BY <2>1, <2>2 DEF Resting, underWay
  <1>9. ASSUME NEW i \in 1 .. Shells, Read(i)
        PROVE  Reading \/ Losing \/ Resting
    <2>1. UNCHANGED <<typed, shell>> /\ reader[i].pc = "recv"
      BY <1>9 DEF Read
    <2>2. InputsSame /\ held(i) = <<>>
      BY <2>1 DEF InputsSame, held
    <2>3. CASE toServer' = <<>> /\ server' = "closed" /\ reader' = reader
      BY <1>1, <2>1, <2>3, KeysInNone DEF Losing, underWay
    <2>4. CASE reader' = [reader EXCEPT ![i].pc = "done"] /\ UNCHANGED toServer
      <3>1. HeldSame
        BY <2>1, <2>4 DEF HeldSame, held, TypeOK
      <3>. QED
        BY <2>1, <2>2, <2>4, <3>1 DEF Resting, underWay
    <2>5. CASE /\ toServer # <<>> /\ toServer' = Tail(toServer)
               /\ LET frame == Head(toServer) IN
                    reader' = [reader EXCEPT ![i] =
                        CASE frame.op = "stdin"  -> [pc |-> "write", frame |-> stdin(taken(frame.data))]
                          [] frame.op = "resize" -> [pc |-> "size", frame |-> frame]
                          [] OTHER               -> @]
      <3>. DEFINE frame == Head(toServer)
                  next == CASE frame.op = "stdin"  -> [pc |-> "write", frame |-> stdin(taken(frame.data))]
                            [] frame.op = "resize" -> [pc |-> "size", frame |-> frame]
                            [] OTHER               -> reader[i]
      <3>1. reader' = [reader EXCEPT ![i] = next]
        BY <2>5
      <3>2. reader'[i] = next /\ \A j \in 1 .. Shells \ {i} : reader'[j] = reader[j]
        BY <3>1 DEF TypeOK
      <3>3. held(i)' = taken(keysOf(frame))
        <4>1. CASE frame.op = "stdin"
          <5>1. next = [pc |-> "write", frame |-> stdin(taken(frame.data))]
            BY <4>1
          <5>. QED
            BY <3>2, <4>1, <5>1 DEF held, keysOf, stdin
        <4>2. CASE frame.op # "stdin"
          <5>1. next.pc # "write"
            BY <2>1, <4>2
          <5>2. taken(<<>>) = <<>>
            BY TerminalAssumption DEF taken
          <5>. HIDE DEF next
          <5>. QED
            BY <3>2, <4>2, <5>1, <5>2 DEF held, keysOf
        <4>. QED
          BY <4>1, <4>2
      <3>4. underWay = keysOf(frame) \o underWay'
        BY <1>0, <2>5, KeysInTail DEF underWay
      <3>5. shell[i].pc # "none"
        BY <2>1 DEF OneShell
      <3>6. \A j \in 1 .. Shells \ {i} : held(j)' = held(j)
        BY <3>2 DEF held
      <3>. QED
        BY <2>1, <2>2, <2>5, <3>3, <3>4, <3>5, <3>6 DEF Reading
    <2>. QED
      BY <1>9, <2>3, <2>4, <2>5 DEF Read, crash, hangUp
  <1>10. ASSUME NEW i \in 1 .. Shells, WriteStdin(i)
         PROVE  Writing
    <2>1. /\ UNCHANGED <<toServer, typed>> /\ reader[i].pc = "write"
          /\ \E on \in {"recv", "done"} : reader' = [reader EXCEPT ![i] = [pc |-> on, frame |-> bind]]
      BY <1>10 DEF WriteStdin, ends
    <2>2. reader'[i].pc # "write" /\ \A j \in 1 .. Shells \ {i} : reader'[j] = reader[j]
      BY <2>1 DEF TypeOK
    <2>3. held(i)' = <<>> /\ held(i) = reader[i].frame.data /\ \A j \in 1 .. Shells \ {i} : held(j)' = held(j)
      BY <2>1, <2>2 DEF held
    <2>4. shell[i].pc # "none"
      BY <2>1 DEF OneShell
    <2>5. /\ shell'[i].input = IF shell[i].pc = "running" THEN shell[i].input \o held(i) ELSE shell[i].input
          /\ \A j \in 1 .. Shells \ {i} : shell'[j].input = shell[j].input
      <3>1. shell' = IF shell[i].pc = "running"
                     THEN [shell EXCEPT ![i].input = @ \o held(i)] ELSE shell
        BY <1>10, <2>3 DEF WriteStdin
      <3>2. \A j \in 1 .. Shells : j \in DOMAIN shell /\ "input" \in DOMAIN shell[j]
        BY DEF TypeOK
      <3>. QED
        BY <3>1, <3>2 DEF TypeOK
    <2>. QED
      BY <2>1, <2>3, <2>4, <2>5 DEF Writing, underWay
  <1>11. ASSUME NEW i \in 1 .. Shells, NEW j \in 1 .. Shells, PassSize(i, j)
         PROVE  Resting
    <2>1. /\ UNCHANGED <<toServer, typed>> /\ reader[i].pc = "size"
          /\ reader' = [reader EXCEPT ![i] = [pc |-> "recv", frame |-> bind]]
          /\ shell' = shell \/ shell' = [shell EXCEPT ![j].size = reader[i].frame.data]
      BY <1>11 DEF PassSize, ends
    <2>2. InputsSame /\ HeldSame
      <3>1. \A k \in 1 .. Shells : /\ k # i => reader'[k] = reader[k]
                                   /\ k = i => reader'[k].pc = "recv"
        BY <2>1 DEF TypeOK
      <3>2. \A k \in 1 .. Shells : shell'[k].input = shell[k].input
        <4>1. CASE shell' = [shell EXCEPT ![j].size = reader[i].frame.data]
          <5>. DEFINE told == [shell[j] EXCEPT !.size = reader[i].frame.data]
          <5>1. told.input = shell[j].input
            BY DEF TypeOK
          <5>. HIDE DEF told
          <5>2. \A k \in 1 .. Shells : shell'[k] = IF k = j THEN told ELSE shell[k]
            BY <4>1 DEF TypeOK, told
          <5>. QED
            BY <5>1, <5>2
        <4>. QED
          BY <2>1, <4>1
      <3>. QED
        BY <2>1, <3>1, <3>2 DEF InputsSame, HeldSame, held
    <2>. QED
      BY <2>1, <2>2 DEF Resting, underWay
  <1>12. CASE \/ Mount \/ Answered \/ AskFails \/ OpenFails \/ Receive \/ PingFails \/ CloseEvent
              \/ Destroy \/ ExecShell \/ Bound \/ SetSession \/ UNCHANGED vars
    BY <1>2, <1>12 DEF Mount, Answered, AskFails, OpenFails, Receive, PingFails, CloseEvent, Destroy,
       ExecShell, Bound, SetSession, vars, ends, goroutines
  <1>. QED
    BY <1>3, <1>4, <1>5, <1>6, <1>7, <1>8, <1>9, <1>10, <1>11, <1>12 DEF Next, Component, Backend

-----------------------------------------------------------------------------
(* Sequences of keys.                                                      *)

Increasing(s) == \A m, n \in 1 .. Len(s) : m < n => s[m] < s[n]
Before(s, t) == \A m \in 1 .. Len(s), n \in 1 .. Len(t) : s[m] < t[n]
UpTo(s, top) == \A m \in 1 .. Len(s) : s[m] <= top

LEMMA OrderOfNone ==
  /\ <<>> \in Keys /\ Increasing(<<>>)
  /\ \A top : UpTo(<<>>, top)
  /\ \A s \in Keys : Before(<<>>, s) /\ Before(s, <<>>)
  BY DEF Keys, Increasing, UpTo, Before

LEMMA OrderOfConcat ==
  ASSUME NEW s \in Keys, NEW t \in Keys
  PROVE  /\ s \o t \in Keys
         /\ Increasing(s \o t) <=> Increasing(s) /\ Increasing(t) /\ Before(s, t)
         /\ \A top : UpTo(s \o t, top) <=> UpTo(s, top) /\ UpTo(t, top)
         /\ \A u \in Keys : Before(s \o t, u) <=> Before(s, u) /\ Before(t, u)
         /\ \A u \in Keys : Before(u, s \o t) <=> Before(u, s) /\ Before(u, t)
  <1>. DEFINE c == s \o t
  <1>1. /\ c \in Keys /\ Len(c) = Len(s) + Len(t) /\ Len(s) \in Nat /\ Len(t) \in Nat
        /\ \A k \in 1 .. Len(s) : c[k] = s[k] /\ k \in 1 .. Len(c)
        /\ \A k \in 1 .. Len(t) : c[Len(s) + k] = t[k] /\ Len(s) + k \in 1 .. Len(c)
    BY DEF Keys
  <1>2. \A k \in 1 .. Len(c) : k \in 1 .. Len(s) \/ \E m \in 1 .. Len(t) : k = Len(s) + m
    <2>1. ASSUME NEW k \in 1 .. Len(c), k > Len(s)
          PROVE  \E m \in 1 .. Len(t) : k = Len(s) + m
      <3>1. k - Len(s) \in 1 .. Len(t) /\ k = Len(s) + (k - Len(s))
        BY <1>1, <2>1
      <3>. QED
        BY <3>1
    <2>2. \A k \in 1 .. Len(c) : k \in 1 .. Len(s) \/ k > Len(s)
      BY <1>1
    <2>. QED
      BY <2>1, <2>2
  <1>. HIDE DEF c
  <1>3. Increasing(c) <=> Increasing(s) /\ Increasing(t) /\ Before(s, t)
    <2>1. ASSUME Increasing(c)
          PROVE  Increasing(s) /\ Increasing(t) /\ Before(s, t)
      <3>1. Increasing(s)
        BY <1>1, <2>1 DEF Increasing
      <3>2. Increasing(t)
        <4>1. ASSUME NEW m \in 1 .. Len(t), NEW n \in 1 .. Len(t), m < n
              PROVE  t[m] < t[n]
          <5>1. Len(s) + m < Len(s) + n
            BY <1>1, <4>1
          <5>. QED
            BY <1>1, <2>1, <5>1 DEF Increasing
        <4>. QED
          BY <4>1 DEF Increasing
      <3>3. Before(s, t)
        <4>1. ASSUME NEW m \in 1 .. Len(s), NEW n \in 1 .. Len(t)
              PROVE  s[m] < t[n]
          <5>1. m < Len(s) + n
            BY <1>1
          <5>. QED
            BY <1>1, <2>1, <5>1 DEF Increasing
        <4>. QED
          BY <4>1 DEF Before
      <3>. QED
        BY <3>1, <3>2, <3>3
    <2>2. ASSUME Increasing(s), Increasing(t), Before(s, t),
                 NEW m \in 1 .. Len(c), NEW n \in 1 .. Len(c), m < n
          PROVE  c[m] < c[n]
      <3>1. CASE n \in 1 .. Len(s)
        <4>1. m \in 1 .. Len(s)
          BY <2>2, <3>1, <1>1
        <4>. QED
          BY <1>1, <2>2, <3>1, <4>1 DEF Increasing
      <3>2. CASE \E k \in 1 .. Len(t) : n = Len(s) + k
        <4>1. PICK k \in 1 .. Len(t) : n = Len(s) + k
          BY <3>2
        <4>2. CASE m \in 1 .. Len(s)
          BY <1>1, <2>2, <4>1, <4>2 DEF Before
        <4>3. CASE \E l \in 1 .. Len(t) : m = Len(s) + l
          <5>1. PICK l \in 1 .. Len(t) : m = Len(s) + l
            BY <4>3
          <5>2. l < k
            BY <1>1, <2>2, <4>1, <5>1
          <5>. QED
            BY <1>1, <2>2, <4>1, <5>1, <5>2 DEF Increasing
        <4>. QED
          BY <1>2, <4>2, <4>3
      <3>. QED
        BY <1>2, <3>1, <3>2
    <2>. QED
      BY <2>1, <2>2 DEF Increasing
  <1>4. \A top : UpTo(c, top) <=> UpTo(s, top) /\ UpTo(t, top)
    BY <1>1, <1>2 DEF UpTo
  <1>5. \A u \in Keys : Before(c, u) <=> Before(s, u) /\ Before(t, u)
    BY <1>1, <1>2 DEF Before
  <1>6. \A u \in Keys : Before(u, c) <=> Before(u, s) /\ Before(u, t)
    BY <1>1, <1>2 DEF Before
  <1>. QED
    BY <1>1, <1>3, <1>4, <1>5, <1>6 DEF c

LEMMA OrderOfTaken ==
  ASSUME NEW s \in Keys
  PROVE  /\ taken(s) \in Keys
         /\ Increasing(s) => Increasing(taken(s))
         /\ \A top : UpTo(s, top) => UpTo(taken(s), top)
         /\ \A u \in Keys : /\ Before(s, u) => Before(taken(s), u)
                            /\ Before(u, s) => Before(u, taken(s))
  <1>1. /\ taken(s) \in Keys /\ Len(taken(s)) \in Nat /\ Len(s) \in Nat /\ Len(taken(s)) <= Len(s)
        /\ \A k \in 1 .. Len(taken(s)) : k \in 1 .. Len(s) /\ taken(s)[k] = s[k]
    BY TakenKeys DEF Keys
  <1>. QED
    BY <1>1 DEF Increasing, UpTo, Before

LEMMA OrderOfTyped ==
  ASSUME NEW top \in Nat, NEW n \in Nat, top + n <= MaxTyped
  PROVE  LET new == [k \in 1 .. n |-> top + k] IN
           /\ new \in Keys /\ Increasing(new) /\ UpTo(new, top + n)
           /\ \A s \in Keys : UpTo(s, top) => UpTo(s, top + n) /\ Before(s, new)
  <1>. DEFINE new == [k \in 1 .. n |-> top + k]
  <1>1. /\ new \in Keys /\ Len(new) = n /\ \A k \in 1 .. n : new[k] = top + k
    BY TerminalAssumption DEF Keys
  <1>. HIDE DEF new
  <1>2. Increasing(new) /\ UpTo(new, top + n)
    BY <1>1 DEF Increasing, UpTo
  <1>3. ASSUME NEW s \in Keys, UpTo(s, top)
        PROVE  UpTo(s, top + n) /\ Before(s, new)
    <2>1. \A m \in 1 .. Len(s) : s[m] \in Nat /\ s[m] <= top
      BY <1>3, TerminalAssumption DEF Keys, UpTo
    <2>. QED
      BY <1>1, <2>1 DEF UpTo, Before
  <1>. QED
    BY <1>1, <1>2, <1>3 DEF new

\* Counting goes on where it stopped.
LEMMA CountOn ==
  ASSUME NEW top \in Nat, NEW n \in Nat, NEW sum \in Nat, sum = top + n
  PROVE  [k \in 1 .. top |-> k] \o [k \in 1 .. n |-> top + k] = [k \in 1 .. sum |-> k]
  OBVIOUS

-----------------------------------------------------------------------------
(* Order.                                                                  *)

\* What was typed first is written first, or held by the loop that will write it
\* to the shell that runs, or else under way behind all of these.
Ordered ==
  /\ Increasing(underWay) /\ UpTo(underWay, typed)
  /\ \A i \in 1 .. Shells :
       /\ Increasing(held(i)) /\ UpTo(held(i), typed) /\ Before(held(i), underWay)
       /\ Increasing(shell[i].input) /\ UpTo(shell[i].input, typed)
       /\ Before(shell[i].input, underWay)
       /\ \A j \in 1 .. Shells :
            /\ i < j => Before(shell[i].input, shell[j].input)
            /\ shell[i].pc = "running" => Before(shell[j].input, held(i))

\* A shell that runs now ran before or has just started.
LEMMA RunningBefore ==
  ASSUME Shape, [Next]_vars, NEW i \in 1 .. Shells, shell'[i].pc = "running"
  PROVE  shell[i].pc = "running" \/ held(i)' = <<>>
  <1>. USE DEF Shape
  <1>1. CASE shell' = shell
    BY <1>1
  <1>2. CASE StartProcess
    <2>1. waiter.n \in 1 .. Shells /\ "pc" \in DOMAIN reader[i]
      BY DEF TypeOK
    <2>2. CASE i = waiter.n
      <3>1. UNCHANGED <<shell, reader>> \/ reader' = [reader EXCEPT ![i] = [pc |-> "recv", frame |-> bind]]
        BY <1>2, <2>2 DEF StartProcess
      <3>2. CASE reader' = [reader EXCEPT ![i] = [pc |-> "recv", frame |-> bind]]
        <4>1. reader'[i] = [pc |-> "recv", frame |-> bind]
          BY <3>2 DEF TypeOK
        <4>. QED
          BY <4>1 DEF held
      <3>. QED
        BY <1>1, <3>1, <3>2
    <2>3. CASE i # waiter.n
      BY <1>2, <2>3 DEF StartProcess, TypeOK
    <2>. QED
      BY <2>2, <2>3
  <1>3. CASE ShellEnds
    BY <1>3 DEF ShellEnds, TypeOK
  <1>4. ASSUME NEW j \in 1 .. Shells, WriteStdin(j) \/ \E k \in 1 .. Shells : PassSize(j, k)
        PROVE  shell[i].pc = "running"
    BY <1>4, ActingOnShells DEF ShellsKept
  <1>. QED
    BY <1>1, <1>2, <1>3, <1>4 DEF Next, Component, Backend, Mount, Answered, AskFails, Open, OpenFails,
       Type, Resize, SendPing, Receive, PingFails, CloseEvent, Destroy, ExecShell, Handle, Bound,
       SetSession, MapRace, CloseSession, Read, LinkLost, goroutines, vars

LEMMA StepKeepsOrder ==
  ASSUME Shape, Ordered, [Next]_vars
  PROVE  Ordered'
  <1>1. KeysTyped
    BY KeysUnderWay
  <1>2. KeysTyped'
    BY StepKeepsShape, KeysUnderWay, PTL
  <1>3. /\ underWay \in Keys /\ typed \in 0 .. MaxTyped
        /\ \A i \in 1 .. Shells : held(i) \in Keys /\ shell[i].input \in Keys
        /\ underWay' \in Keys /\ typed' \in 0 .. MaxTyped
        /\ \A i \in 1 .. Shells : held(i)' \in Keys /\ shell'[i].input \in Keys
    BY <1>1, <1>2 DEF KeysTyped
  <1>4. \A i \in 1 .. Shells : shell'[i].pc = "running" => shell[i].pc = "running" \/ held(i)' = <<>>
    BY RunningBefore
  <1>5. /\ Increasing(underWay) /\ UpTo(underWay, typed)
        /\ \A i \in 1 .. Shells :
             /\ Increasing(held(i)) /\ UpTo(held(i), typed) /\ Before(held(i), underWay)
             /\ Increasing(shell[i].input) /\ UpTo(shell[i].input, typed)
             /\ Before(shell[i].input, underWay)
             /\ \A j \in 1 .. Shells :
                  /\ i < j => Before(shell[i].input, shell[j].input)
                  /\ shell[i].pc = "running" => Before(shell[j].input, held(i))
    BY DEF Ordered
  <1>6. CASE Resting \/ Losing
    <2>1. /\ typed' = typed /\ underWay' \in {underWay, <<>>}
          /\ \A i \in 1 .. Shells : held(i)' = held(i) /\ shell'[i].input = shell[i].input
      BY <1>6 DEF Resting, Losing, InputsSame, HeldSame
    <2>. QED
      BY <1>3, <1>4, <1>5, <2>1, OrderOfNone DEF Ordered
  <1>7. CASE Typing
    <2>1. PICK n \in Nat :
            /\ typed' = typed + n
            /\ underWay' = IF server = "open" THEN underWay \o [k \in 1 .. n |-> typed + k] ELSE underWay
      BY <1>7 DEF Typing
    <2>. DEFINE new == [k \in 1 .. n |-> typed + k]
    <2>2. \A i \in 1 .. Shells : held(i)' = held(i) /\ shell'[i].input = shell[i].input
      BY <1>7 DEF Typing, InputsSame, HeldSame
    <2>3. /\ new \in Keys /\ Increasing(new) /\ UpTo(new, typed')
          /\ \A s \in Keys : UpTo(s, typed) => UpTo(s, typed') /\ Before(s, new)
      <3>1. typed \in Nat /\ typed + n <= MaxTyped
        BY <1>3, <2>1, TerminalAssumption
      <3>. QED
        BY <2>1, <3>1, OrderOfTyped
    <2>4. underWay' = underWay \o new \/ underWay' = underWay
      BY <2>1
    <2>. HIDE DEF new
    <2>5. /\ Increasing(underWay') /\ UpTo(underWay', typed')
          /\ \A s \in Keys : UpTo(s, typed) /\ Before(s, underWay) => Before(s, underWay')
      <3>1. CASE underWay' = underWay \o new
        <4>1. Increasing(underWay \o new)
          BY <1>3, <1>5, <2>3, OrderOfConcat
        <4>2. UpTo(underWay \o new, typed')
          BY <1>3, <1>5, <2>3, OrderOfConcat
        <4>3. ASSUME NEW t \in Keys, UpTo(t, typed), Before(t, underWay)
              PROVE  Before(t, underWay \o new)
          BY <1>3, <2>3, <4>3, OrderOfConcat
        <4>. QED
          BY <3>1, <4>1, <4>2, <4>3
      <3>2. CASE underWay' = underWay
        BY <1>3, <1>5, <2>3, <3>2
      <3>. QED
        BY <2>4, <3>1, <3>2
    <2>. QED
      BY <1>3, <1>4, <1>5, <2>2, <2>3, <2>5, OrderOfNone DEF Ordered
  <1>8. CASE Reading
    <2>. DEFINE x == keysOf(Head(toServer))
    <2>1. PICK i \in 1 .. Shells :
            /\ held(i) = <<>> /\ held(i)' = taken(x)
            /\ \A j \in 1 .. Shells \ {i} : held(j)' = held(j)
      BY <1>8 DEF Reading
    <2>2. /\ toServer # <<>> /\ underWay = x \o underWay' /\ typed' = typed
          /\ \A j \in 1 .. Shells : shell'[j].input = shell[j].input
      BY <1>8 DEF Reading, InputsSame
    <2>3. x \in Keys
      BY <1>1, <2>2, KeysInTail DEF KeysTyped
    <2>. HIDE DEF x
    <2>4. /\ Increasing(x) /\ Increasing(underWay') /\ Before(x, underWay')
          /\ UpTo(x, typed) /\ UpTo(underWay', typed)
          /\ \A s \in Keys : Before(s, underWay) => Before(s, x) /\ Before(s, underWay')
      BY <1>3, <1>5, <2>2, <2>3, OrderOfConcat
    <2>5. /\ Increasing(held(i)') /\ UpTo(held(i)', typed) /\ Before(held(i)', underWay')
          /\ \A s \in Keys : Before(s, underWay) => Before(s, held(i)')
      BY <1>3, <2>1, <2>3, <2>4, OrderOfTaken
    <2>. QED
      BY <1>3, <1>4, <1>5, <2>1, <2>2, <2>4, <2>5, OrderOfNone DEF Ordered
  <1>9. CASE Writing
    <2>1. underWay' = underWay /\ typed' = typed
      BY <1>9 DEF Writing
    <2>2. PICK i \in 1 .. Shells :
            /\ held(i)' = <<>>
            /\ shell'[i].input = IF shell[i].pc = "running" THEN shell[i].input \o held(i) ELSE shell[i].input
            /\ \A j \in 1 .. Shells \ {i} : held(j)' = held(j) /\ shell'[j].input = shell[j].input
      BY <1>9 DEF Writing
    <2>3. CASE shell[i].pc # "running"
      <3>1. \A j \in 1 .. Shells : shell'[j].input = shell[j].input /\ held(j)' \in {held(j), <<>>}
        BY <2>2, <2>3
      <3>. QED
        BY <1>3, <1>4, <1>5, <2>1, <3>1, OrderOfNone DEF Ordered
    <2>4. CASE shell[i].pc = "running"
      <3>. DEFINE input == shell[i].input \o held(i)
      <3>1. shell'[i].input = input
        BY <2>2, <2>4
      <3>2. /\ Increasing(input) /\ UpTo(input, typed) /\ Before(input, underWay)
            /\ \A j \in 1 .. Shells : j < i => Before(shell[j].input, input)
        <4>1. Before(shell[i].input, held(i)) /\ \A j \in 1 .. Shells : Before(shell[j].input, held(i))
          BY <1>5, <2>4
        <4>2. Increasing(input)
          BY <1>3, <1>5, <4>1, OrderOfConcat
        <4>3. UpTo(input, typed)
          BY <1>3, <1>5, OrderOfConcat
        <4>0. \A u \in Keys : /\ Before(input, u) <=> Before(shell[i].input, u) /\ Before(held(i), u)
                              /\ Before(u, input) <=> Before(u, shell[i].input) /\ Before(u, held(i))
          <5>1. shell[i].input \in Keys /\ held(i) \in Keys
            BY <1>3
          <5>. QED
            BY <5>1, OrderOfConcat
        <4>. HIDE DEF input
        <4>4. Before(input, underWay)
          <5>1. underWay \in Keys /\ Before(shell[i].input, underWay) /\ Before(held(i), underWay)
            BY <1>3, <1>5
          <5>. QED
            BY <4>0, <5>1
        <4>5. ASSUME NEW j \in 1 .. Shells, j < i
              PROVE  Before(shell[j].input, input)
          BY <1>3, <1>5, <4>0, <4>1, <4>5
        <4>. QED
          BY <4>2, <4>3, <4>4, <4>5
      <3>3. \A j \in 1 .. Shells : i < j => shell[j].input = <<>>
        BY <2>4 DEF Shape, OneShell, TypeOK
      <3>4. \A j \in 1 .. Shells \ {i} : shell'[j].pc = "running" => held(j)' = <<>>
        BY <1>4, <2>4 DEF Shape, OneShell
      <3>. HIDE DEF input
      <3>5. /\ \A j \in 1 .. Shells : /\ held(j)' \in {held(j), <<>>}
                                      /\ shell'[j].pc = "running" => held(j)' = <<>>
            /\ \A j \in 1 .. Shells \ {i} : shell'[j].input = shell[j].input
        BY <2>2, <3>4
      <3>6. \A j, k \in 1 .. Shells : j < k => Before(shell'[j].input, shell'[k].input)
        <4>1. ASSUME NEW j \in 1 .. Shells, NEW k \in 1 .. Shells, j < k
              PROVE  Before(shell'[j].input, shell'[k].input)
          <5>1. CASE j = i
            <6>1. shell'[k].input = <<>>
              BY <3>3, <3>5, <4>1, <5>1
            <6>. QED
              BY <1>3, <6>1, OrderOfNone
          <5>2. CASE k = i
            BY <3>1, <3>2, <3>5, <4>1, <5>2
          <5>3. CASE j # i /\ k # i
            BY <1>5, <3>5, <4>1, <5>3
          <5>. QED
            BY <5>1, <5>2, <5>3
        <4>. QED
          BY <4>1
      <3>7. \A j \in 1 .. Shells : /\ Increasing(shell'[j].input) /\ UpTo(shell'[j].input, typed)
                                   /\ Before(shell'[j].input, underWay)
        BY <1>5, <3>1, <3>2, <3>5
      <3>. QED
        BY <1>3, <1>5, <2>1, <3>5, <3>6, <3>7, OrderOfNone DEF Ordered
    <2>. QED
      BY <2>3, <2>4
  <1>. QED
    BY <1>6, <1>7, <1>8, <1>9, KeysMove

\* Two loops read the frames of a session once its first shell has failed, each
\* for a stream of its own, and Read takes no more keys than fit.  Still no
\* shell gets a key twice, after a later one, or after a shell tried later:
\* Ordered says in addition which keys a loop of the running shell may hold.
THEOREM KeysStayInOrder == Spec => []KeysInOrder
  <1>1. Init => Ordered
    <2>1. ASSUME Init
          PROVE  /\ underWay = <<>> /\ KeysTyped
                 /\ \A i \in 1 .. Shells : held(i) = <<>> /\ shell[i].input = <<>>
      BY <2>1, ShapeInit, KeysUnderWay, KeysInNone DEF Init, underWay, held
    <2>. QED
      BY <2>1, OrderOfNone DEF Ordered
  <1>2. Shape /\ Ordered /\ [Next]_vars => Ordered'
    BY StepKeepsOrder
  <1>3. Shape /\ Ordered => KeysInOrder
    <2>. SUFFICES ASSUME Shape, Ordered, NEW i \in 1 .. Shells, NEW j \in 1 .. Shells,
                         NEW m \in 1 .. Len(shell[i].input), NEW n \in 1 .. Len(shell[j].input),
                         i < j \/ (i = j /\ m < n)
                  PROVE  shell[i].input[m] < shell[j].input[n]
      BY DEF KeysInOrder
    <2>1. CASE i < j
      BY <2>1 DEF Ordered, Before
    <2>2. CASE i = j /\ m < n
      BY <2>2 DEF Ordered, Increasing
    <2>. QED
      BY <2>1, <2>2
  <1>. QED
    BY <1>1, <1>2, <1>3, ShapeHolds, PTL DEF Spec

-----------------------------------------------------------------------------
(* Nothing is lost while the connection and the first shell last.          *)

Fits == \A k \in 1 .. Len(toServer) : Len(keysOf(toServer[k])) <= Paste

early == up /\ server # "closed" /\ shell[1].pc # "ended" /\ waiter.n = 1

Arriving ==
  early => shell[1].input \o (held(1) \o underWay) = [k \in 1 .. typed |-> k]

LEMMA StepKeepsFits == Shape /\ Fits /\ [Next]_vars => Fits'
  <1>. SUFFICES ASSUME Shape, Fits, [Next]_vars
                PROVE  Fits'
    OBVIOUS
  <1>. USE DEF Shape
  <1>1. toServer \in Seq(Frame)
    BY DEF TypeOK
  <1>2. Len(<<>>) <= Paste
    BY TerminalAssumption
  <1>3. CASE toServer' = toServer \/ toServer' = <<>> \/ (toServer # <<>> /\ toServer' = Tail(toServer))
    <2>1. CASE toServer # <<>> /\ toServer' = Tail(toServer)
      <3>1. \A k \in 1 .. Len(toServer') : toServer'[k] = toServer[k + 1] /\ k + 1 \in 1 .. Len(toServer)
        BY <1>1, <2>1
      <3>. QED
        BY <3>1 DEF Fits
    <2>. QED
      BY <1>3, <2>1 DEF Fits
  <1>4. CASE \E frame \in Frame : Len(keysOf(frame)) <= Paste /\ toServer' = sent(<<frame>>)
    <2>1. PICK frame \in Frame : Len(keysOf(frame)) <= Paste /\ toServer' = sent(<<frame>>)
      BY <1>4
    <2>2. toServer' \in {Append(toServer, frame), toServer}
      BY <1>1, <2>1 DEF sent
    <2>3. \A k \in 1 .. Len(toServer') :
            toServer'[k] = frame \/ (k \in 1 .. Len(toServer) /\ toServer'[k] = toServer[k])
      BY <1>1, <2>2
    <2>. QED
      BY <2>1, <2>3 DEF Fits
  <1>5. CASE Type
    <2>1. PICK n \in 1 .. Paste : /\ typed + n <= MaxTyped
                                 /\ toServer' = sent(<<stdin([k \in 1 .. n |-> typed + k])>>)
      BY <1>5 DEF Type
    <2>. DEFINE keys == [k \in 1 .. n |-> typed + k]
    <2>2. keys \in Keys /\ Len(keys) <= Paste
      BY <2>1, TerminalAssumption DEF TypeOK, Keys
    <2>. HIDE DEF keys
    <2>3. stdin(keys) \in Frame /\ keysOf(stdin(keys)) = keys
      BY <2>2, FramesOfEachKind DEF keysOf, stdin
    <2>. QED
      BY <1>4, <2>1, <2>2, <2>3 DEF keys
  <1>6. CASE Resize \/ SendPing
    <2>1. \/ toServer' = toServer
          \/ \E frame \in Frame : keysOf(frame) = <<>> /\ toServer' = sent(<<frame>>)
      BY <1>6, FramesOfEachKind DEF Resize, SendPing, keysOf, resize, echo, TypeOK
    <2>. QED
      BY <1>2, <1>3, <1>4, <2>1
  <1>7. CASE Open
    <2>1. toServer' = <<bind, resize(view.size)>> /\ keysOf(bind) = <<>> /\ keysOf(resize(view.size)) = <<>>
      BY <1>7 DEF Open, keysOf, bind, resize
    <2>2. ASSUME NEW k \in 1 .. Len(toServer')
          PROVE  toServer'[k] \in {bind, resize(view.size)}
      BY <2>1
    <2>. QED
      BY <1>2, <2>1, <2>2 DEF Fits
  <1>. QED
    BY <1>3, <1>5, <1>6, <1>7 DEF Next, Component, Backend, Mount, Answered, AskFails, OpenFails,
       Receive, PingFails, CloseEvent, Destroy, ExecShell, Handle, Bound, SetSession, MapRace,
       StartProcess, ShellEnds, CloseSession, Read, WriteStdin, PassSize, LinkLost, ends, goroutines,
       vars, crash, hangUp

\* What ends early never begins again.
LEMMA EarlyBefore ==
  ASSUME Shape, [Next]_vars, early'
  PROVE  early
  <1>. USE DEF Shape
  <1>1. 1 \in 1 .. Shells /\ waiter.n \in 1 .. Shells
    BY TerminalAssumption DEF TypeOK
  <1>2. up /\ server # "closed"
    BY DEF early, OpensOnce, Next, Component, Backend, Mount, Answered, AskFails, Open, OpenFails, Type,
       Resize, SendPing, Receive, PingFails, CloseEvent, Destroy, ExecShell, Handle, Bound,
       SetSession, MapRace, StartProcess, ShellEnds, CloseSession, Read, WriteStdin, PassSize,
       LinkLost, ends, goroutines, vars, crash, hangUp
  <1>3. CASE UNCHANGED <<waiter, shell>>
    BY <1>2, <1>3 DEF early
  <1>4. CASE StartProcess \/ ShellEnds
    <2>1. waiter.n = 1 \/ waiter'.n # 1
      BY <1>1, <1>4 DEF StartProcess, ShellEnds, afterShell, TypeOK
    <2>2. waiter.n = 1
      BY <2>1 DEF early
    <2>3. shell[1].pc # "ended"
      <3>1. CASE StartProcess
        BY <2>2, <3>1 DEF StartProcess, OneShell
      <3>2. CASE ShellEnds
        <4>1. shell'[1].pc = "ended"
          BY <1>1, <2>2, <3>2 DEF ShellEnds, TypeOK
        <4>. QED
          BY <4>1 DEF early
      <3>. QED
        BY <1>4, <3>1, <3>2
    <2>. QED
      BY <1>2, <2>2, <2>3 DEF early
  <1>5. ASSUME NEW i \in 1 .. Shells, WriteStdin(i) \/ \E j \in 1 .. Shells : PassSize(i, j)
        PROVE  early
    <2>1. waiter' = waiter
      BY <1>5 DEF WriteStdin, PassSize
    <2>2. shell'[1].pc = shell[1].pc
      BY <1>1, <1>5, ActingOnShells DEF ShellsKept
    <2>. QED
      BY <1>2, <2>1, <2>2 DEF early
  <1>6. CASE UNCHANGED shell /\ waiter'.n = waiter.n
    BY <1>2, <1>6 DEF early
  <1>7. CASE ExecShell \/ Bound \/ CloseSession
    BY <1>6, <1>7 DEF ExecShell, Bound, CloseSession, OneShell, TypeOK
  <1>. QED
    BY <1>3, <1>4, <1>5, <1>7 DEF Next, Component, Backend, Mount, Answered, AskFails, Open, OpenFails,
       Type, Resize, SendPing, Receive, PingFails, CloseEvent, Destroy, Handle, SetSession, MapRace,
       Read, LinkLost, goroutines, vars

LEMMA StepKeepsArriving ==
  ASSUME Paste <= Buffer, Shape, Fits, Arriving, [Next]_vars
  PROVE  Arriving'
  <1>. SUFFICES ASSUME early'
                PROVE  shell'[1].input \o (held(1)' \o underWay') = [k \in 1 .. typed' |-> k]
    BY DEF Arriving
  <1>0. 1 \in 1 .. Shells
    BY TerminalAssumption
  <1>1. early /\ shell[1].input \o (held(1) \o underWay) = [k \in 1 .. typed |-> k]
    BY EarlyBefore DEF Arriving
  <1>2. /\ underWay \in Keys /\ held(1) \in Keys /\ shell[1].input \in Keys /\ typed \in 0 .. MaxTyped
        /\ toServer \in Carrying
    BY <1>0, KeysUnderWay DEF KeysTyped
  <1>3. KeysTyped' /\ Shape'
    BY StepKeepsShape, KeysUnderWay, PTL
  <1>4. underWay' \in Keys /\ typed' \in 0 .. MaxTyped
    BY <1>3 DEF KeysTyped
  <1>5. \A i \in 1 .. Shells : shell[i].pc # "none" => i = 1
    BY <1>1 DEF early, Shape, OneShell
  <1>6. CASE Resting
    BY <1>0, <1>1, <1>6 DEF Resting, InputsSame, HeldSame
  <1>7. CASE Losing
    BY <1>7 DEF Losing, early
  <1>8. CASE Typing
    <2>1. PICK n \in Nat :
            /\ typed' = typed + n
            /\ underWay' = IF server = "open" THEN underWay \o [k \in 1 .. n |-> typed + k] ELSE underWay
      BY <1>8 DEF Typing
    <2>2. held(1)' = held(1) /\ shell'[1].input = shell[1].input /\ server' = server
      BY <1>0, <1>8 DEF Typing, InputsSame, HeldSame
    <2>. DEFINE new == [k \in 1 .. n |-> typed + k]
    <2>3. CASE server = "open"
      <3>1. new \in Keys
        <4>1. typed \in Nat /\ typed + n <= MaxTyped
          BY <1>2, <1>4, <2>1, TerminalAssumption
        <4>. QED
          BY <4>1, OrderOfTyped
      <3>2. underWay' = underWay \o new
        BY <2>1, <2>3
      <3>3. [k \in 1 .. typed |-> k] \o new = [k \in 1 .. typed' |-> k]
        BY <1>2, <1>4, <2>1, CountOn
      <3>. HIDE DEF new
      <3>4. shell[1].input \o (held(1) \o (underWay \o new)) = (shell[1].input \o (held(1) \o underWay)) \o new
        <4>1. held(1) \o underWay \in Keys
          BY <1>2, OrderOfConcat
        <4>2. (held(1) \o underWay) \o new = held(1) \o (underWay \o new)
          BY <1>2, <3>1, KeysAssociate
        <4>3. (shell[1].input \o (held(1) \o underWay)) \o new = shell[1].input \o ((held(1) \o underWay) \o new)
          BY <1>2, <3>1, <4>1, KeysAssociate
        <4>. QED
          BY <4>2, <4>3
      <3>. QED
        BY <1>1, <2>2, <3>2, <3>3, <3>4
    <2>4. CASE server # "open"
      <3>1. server = "none"
        BY <1>1, <2>4 DEF early, Shape, TypeOK
      <3>2. typed = 0 /\ typed' = 0
        BY <1>3, <2>2, <3>1 DEF Shape, OpensOnce
      <3>. QED
        BY <1>1, <2>1, <2>2, <2>4, <3>2
    <2>. QED
      BY <2>3, <2>4
  <1>9. CASE Reading
    <2>. DEFINE x == keysOf(Head(toServer))
    <2>1. /\ held(1) = <<>> /\ held(1)' = taken(x) /\ typed' = typed
          /\ toServer # <<>> /\ underWay = x \o underWay' /\ shell'[1].input = shell[1].input
      BY <1>0, <1>5, <1>9 DEF Reading, InputsSame
    <2>2. x \in Keys /\ Len(x) <= Buffer
      <3>1. Len(x) <= Paste /\ x \in Keys
        <4>1. Head(toServer) = toServer[1] /\ 1 \in 1 .. Len(toServer)
          BY <1>2, <2>1 DEF Carrying
        <4>. QED
          BY <1>2, <2>1, <4>1, KeysInTail DEF Fits
      <3>. QED
        BY <3>1, TerminalAssumption DEF Keys
    <2>. HIDE DEF x
    <2>3. taken(x) = x
      BY <2>2, TakenKeys
    <2>4. held(1) \o underWay = underWay
      <3>1. <<>> \o underWay = underWay
        BY <1>2 DEF Keys
      <3>. QED
        BY <2>1, <3>1
    <2>. QED
      BY <1>1, <2>1, <2>3, <2>4
  <1>10. CASE Writing
    <2>1. /\ underWay' = underWay /\ typed' = typed /\ held(1)' = <<>> /\ shell[1].pc # "none"
          /\ shell'[1].input = IF shell[1].pc = "running" THEN shell[1].input \o held(1) ELSE shell[1].input
      BY <1>0, <1>5, <1>10 DEF Writing
    <2>2. shell[1].pc = "running"
      BY <1>0, <1>1, <2>1 DEF early, Shape, TypeOK
    <2>3. <<>> \o underWay = underWay
      BY <1>2 DEF Keys
    <2>4. (shell[1].input \o held(1)) \o underWay = shell[1].input \o (held(1) \o underWay)
      BY <1>2, KeysAssociate
    <2>. QED
      BY <1>1, <2>1, <2>2, <2>3, <2>4
  <1>. QED
    BY <1>6, <1>7, <1>8, <1>9, <1>10, KeysMove

\* When what is typed at once fits into what one Read can take, every key typed
\* until the connection or the first shell ends is on its way to that shell or
\* has arrived, in order.
THEOREM EveryKeyArrives == Paste <= Buffer => (Spec => []KeysArrive)
  <1>. SUFFICES ASSUME Paste <= Buffer
                PROVE  Spec => []KeysArrive
    OBVIOUS
  <1>1. Init => Fits /\ Arriving
    <2>1. ASSUME Init
          PROVE  underWay = <<>> /\ held(1) = <<>> /\ shell[1].input = <<>> /\ typed = 0 /\ toServer = <<>>
      <3>1. 1 \in 1 .. Shells
        BY TerminalAssumption
      <3>. QED
        BY <2>1, <3>1, KeysInNone DEF Init, underWay, held
    <2>2. <<>> \o (<<>> \o <<>>) = [k \in 1 .. 0 |-> k]
      <3>1. <<>> \o <<>> = <<>>
        BY KeysInNone DEF Keys
      <3>. QED
        BY <3>1
    <2>. QED
      BY <2>1, <2>2 DEF Fits, Arriving
  <1>2. Shape /\ Fits /\ Arriving /\ [Next]_vars => Fits' /\ Arriving'
    BY StepKeepsFits, StepKeepsArriving
  <1>3. Shape /\ Arriving => KeysArrive
    <2>. SUFFICES ASSUME Shape, Arriving, up, server = "open", shell[1].pc # "ended", waiter.n = 1
                  PROVE  shell[1].input \o held(1) \o keysIn(toServer) = [k \in 1 .. typed |-> k]
      BY DEF KeysArrive
    <2>1. shell[1].input \o (held(1) \o underWay) = [k \in 1 .. typed |-> k]
      BY DEF Arriving, early
    <2>2. underWay \in Keys /\ held(1) \in Keys /\ shell[1].input \in Keys
      BY KeysUnderWay, TerminalAssumption DEF KeysTyped
    <2>. QED
      BY <2>1, <2>2, KeysAssociate DEF underWay
  <1>. QED
    BY <1>1, <1>2, <1>3, ShapeHolds, PTL DEF Spec

-----------------------------------------------------------------------------
(* The size of the first shell.                                            *)

NoResize(frames) == \A k \in 1 .. Len(frames) : frames[k].op # "resize"

LastResize(frames, size) ==
  \E k \in 1 .. Len(frames) :
    /\ frames[k] = resize(size)
    /\ \A m \in 1 .. Len(frames) : m > k => frames[m].op # "resize"

showing ==
  up /\ server = "open" /\ client = "open" /\ shell[1].pc # "ended" /\ waiter.n = 1

\* The size of the terminal is the last one under way; or the first loop has it;
\* or the first shell.
SizeComes ==
  showing =>
    \/ LastResize(toServer, view.size)
    \/ /\ NoResize(toServer) /\ reader[1].pc = "size"
       /\ reader[1].frame.data = view.size
    \/ /\ NoResize(toServer) /\ reader[1].pc # "size"
       /\ shell[1].pc = "running" /\ shell[1].size = view.size

LEMMA ResizesAfterAppend ==
  ASSUME NEW frames \in Seq(Frame), NEW frame \in Frame, NEW size \in Size
  PROVE  /\ frame.op # "resize" /\ NoResize(frames) => NoResize(Append(frames, frame))
         /\ frame.op # "resize" /\ LastResize(frames, size) => LastResize(Append(frames, frame), size)
         /\ frame = resize(size) => LastResize(Append(frames, frame), size)
  <1>. DEFINE more == Append(frames, frame)
  <1>1. /\ Len(more) = Len(frames) + 1 /\ Len(frames) \in Nat /\ more[Len(more)] = frame
        /\ \A k \in 1 .. Len(frames) : k \in 1 .. Len(more) /\ more[k] = frames[k]
        /\ \A k \in 1 .. Len(more) : k \in 1 .. Len(frames) \/ k = Len(more)
    OBVIOUS
  <1>. HIDE DEF more
  <1>2. ASSUME frame.op # "resize", NoResize(frames)
        PROVE  NoResize(more)
    BY <1>1, <1>2 DEF NoResize
  <1>3. ASSUME frame.op # "resize", LastResize(frames, size)
        PROVE  LastResize(more, size)
    <2>1. PICK k \in 1 .. Len(frames) :
            /\ frames[k] = resize(size)
            /\ \A m \in 1 .. Len(frames) : m > k => frames[m].op # "resize"
      BY <1>3 DEF LastResize
    <2>2. \A m \in 1 .. Len(more) : m > k => more[m].op # "resize"
      BY <1>1, <1>3, <2>1
    <2>. QED
      BY <1>1, <2>1, <2>2 DEF LastResize
  <1>4. ASSUME frame = resize(size)
        PROVE  LastResize(more, size)
    <2>1. \A m \in 1 .. Len(more) : ~ (m > Len(more))
      BY <1>1
    <2>. QED
      BY <1>1, <1>4, <2>1 DEF LastResize
  <1>. QED
    BY <1>2, <1>3, <1>4 DEF more

LEMMA ResizesAfterTail ==
  ASSUME NEW frames \in Seq(Frame), frames # <<>>, NEW size \in Size
  PROVE  /\ NoResize(frames) => Head(frames).op # "resize" /\ NoResize(Tail(frames))
         /\ LastResize(frames, size) =>
              \/ LastResize(Tail(frames), size)
              \/ NoResize(Tail(frames)) /\ Head(frames) = resize(size)
  <1>. DEFINE rest == Tail(frames)
  <1>1. /\ Len(frames) = Len(rest) + 1 /\ Len(rest) \in Nat /\ Head(frames) = frames[1]
        /\ \A k \in 1 .. Len(rest) : k + 1 \in 1 .. Len(frames) /\ rest[k] = frames[k + 1]
    OBVIOUS
  <1>. HIDE DEF rest
  <1>2. ASSUME NoResize(frames)
        PROVE  Head(frames).op # "resize" /\ NoResize(rest)
    BY <1>1, <1>2 DEF NoResize
  <1>3. ASSUME LastResize(frames, size)
        PROVE  LastResize(rest, size) \/ (NoResize(rest) /\ Head(frames) = resize(size))
    <2>1. PICK k \in 1 .. Len(frames) :
            /\ frames[k] = resize(size)
            /\ \A m \in 1 .. Len(frames) : m > k => frames[m].op # "resize"
      BY <1>3 DEF LastResize
    <2>2. CASE k = 1
      <3>1. NoResize(rest)
        BY <1>1, <2>1, <2>2 DEF NoResize
      <3>. QED
        BY <1>1, <2>1, <2>2, <3>1
    <2>3. CASE k > 1
      <3>1. PICK j \in 1 .. Len(rest) : j + 1 = k
        <4>1. k - 1 \in 1 .. Len(rest) /\ (k - 1) + 1 = k
          BY <1>1, <2>3
        <4>. QED
          BY <4>1
      <3>2. rest[j] = resize(size)
        BY <1>1, <2>1, <3>1
      <3>3. \A m \in 1 .. Len(rest) : m > j => rest[m].op # "resize"
        BY <1>1, <2>1, <3>1
      <3>. QED
        BY <3>2, <3>3 DEF LastResize
    <2>. QED
      BY <1>1, <2>2, <2>3
  <1>. QED
    BY <1>2, <1>3 DEF rest

\* Where the size is stays the same.
LEMMA SizeStays ==
  ASSUME SizeComes, showing' => showing,
         showing' => /\ view'.size = view.size
                     /\ reader'[1] = reader[1]
                     /\ shell'[1].pc = shell[1].pc /\ shell'[1].size = shell[1].size,
         showing' => /\ NoResize(toServer) => NoResize(toServer')
                     /\ LastResize(toServer, view.size) => LastResize(toServer', view.size)
  PROVE  SizeComes'
  BY DEF SizeComes

LEMMA StepKeepsSize ==
  ASSUME Shape, SizeComes, [Next]_vars
  PROVE  SizeComes'
  <1>. USE DEF Shape
  <1>1. /\ 1 \in 1 .. Shells /\ waiter.n \in 1 .. Shells /\ toServer \in Seq(Frame)
        /\ view.size \in Size /\ NoSize \notin Size /\ view \in View
    BY TerminalAssumption DEF TypeOK, View
  <1>2. CASE UNCHANGED <<toServer, reader, shell>> /\ (showing' => showing) /\ view'.size = view.size
    BY <1>2, SizeStays
  <1>3. CASE server' = "closed"
    BY <1>3 DEF SizeComes, showing
  <1>4. CASE Type \/ SendPing
    <2>1. PICK frame \in Frame : frame.op # "resize" /\ toServer' = sent(<<frame>>)
      <3>1. CASE Type
        <4>1. PICK n \in 1 .. Paste : /\ typed + n <= MaxTyped
                                     /\ toServer' = sent(<<stdin([k \in 1 .. n |-> typed + k])>>)
          BY <3>1 DEF Type
        <4>2. [k \in 1 .. n |-> typed + k] \in Keys
          <5>1. typed \in Nat /\ n \in Nat
            BY TerminalAssumption DEF TypeOK
          <5>. QED
            BY <4>1, <5>1, OrderOfTyped
        <4>3. stdin([k \in 1 .. n |-> typed + k]) \in Frame
          BY <4>2, FramesOfEachKind
        <4>. QED
          BY <4>1, <4>3 DEF stdin
      <3>2. CASE SendPing
        BY <3>2, FramesOfEachKind DEF SendPing, echo
      <3>. QED
        BY <1>4, <3>1, <3>2
    <2>2. toServer' \in {toServer, Append(toServer, frame)}
      BY <1>1, <2>1 DEF sent
    <2>3. view'.size = view.size /\ UNCHANGED <<client, server, up, waiter, shell, reader>>
      BY <1>1, <1>4 DEF Type, SendPing, goroutines, View
    <2>4. showing' => showing
      BY <2>3 DEF showing
    <2>5. /\ NoResize(toServer) => NoResize(toServer')
          /\ LastResize(toServer, view.size) => LastResize(toServer', view.size)
      BY <1>1, <2>1, <2>2, ResizesAfterAppend
    <2>. QED
      BY <2>3, <2>4, <2>5, SizeStays
  <1>5. CASE Resize
    <2>1. PICK size \in Size :
            /\ view' = [view EXCEPT !.size = size]
            /\ toServer' = IF view.connected THEN sent(<<resize(size)>>) ELSE toServer
            /\ UNCHANGED <<client, server>>
      BY <1>5 DEF Resize
    <2>2. view'.size = size
      BY <1>1, <2>1 DEF View
    <2>. SUFFICES ASSUME showing'
                  PROVE  LastResize(toServer', size)
      BY <2>2 DEF SizeComes
    <2>3. toServer' = Append(toServer, resize(size))
      BY <1>1, <2>1 DEF showing, OpensOnce, sent
    <2>. QED
      BY <1>1, <2>3, FramesOfEachKind, ResizesAfterAppend
  <1>6. CASE Open
    <2>1. toServer' = <<bind, resize(view.size)>> /\ view'.size = view.size
      BY <1>1, <1>6 DEF Open, View
    <2>2. LastResize(toServer', view.size)
      BY <2>1 DEF LastResize
    <2>. QED
      BY <2>1, <2>2 DEF SizeComes
  <1>7. CASE Handle
    <2>1. UNCHANGED <<view, client, server, up, waiter, shell, reader>> /\ handler = "recv"
      BY <1>7 DEF Handle
    <2>2. showing' => showing
      BY <2>1 DEF showing
    <2>3. ASSUME showing', toServer # <<>>, toServer' = Tail(toServer)
          PROVE  /\ NoResize(toServer) => NoResize(toServer')
                 /\ LastResize(toServer, view.size) => LastResize(toServer', view.size)
      <3>1. Head(toServer) = bind /\ bind # resize(view.size)
        BY <2>1, <2>2, <2>3 DEF showing, BindFirst, bind, resize
      <3>. QED
        BY <1>1, <2>3, <3>1, ResizesAfterTail
    <2>4. toServer' = toServer \/ (toServer # <<>> /\ toServer' = Tail(toServer))
      BY <1>7 DEF Handle
    <2>. QED
      BY <2>1, <2>2, <2>3, <2>4, SizeStays
  <1>8. CASE StartProcess \/ ShellEnds
    <2>1. UNCHANGED <<view, client, server, up, toServer>>
      BY <1>8 DEF StartProcess, ShellEnds, ends
    <2>. SUFFICES ASSUME showing'
                  PROVE  SizeComes'
      BY DEF SizeComes
    <2>2. early'
      BY DEF showing, early
    <2>3. showing
      BY <2>1, <2>2, EarlyBefore DEF showing, early
    <2>4. StartProcess /\ shell[1].pc = "none" /\ reader[1].pc = "none"
      <3>1. CASE ShellEnds
        <4>1. shell'[1].pc = "ended"
          BY <1>1, <2>3, <3>1 DEF ShellEnds, TypeOK, showing
        <4>. QED
          BY <4>1 DEF showing
      <3>2. CASE StartProcess
        BY <1>1, <2>3, <3>2 DEF StartProcess, OneShell, showing
      <3>. QED
        BY <1>8, <3>1, <3>2
    <2>5. LastResize(toServer, view.size)
      BY <2>3, <2>4 DEF SizeComes
    <2>. QED
      BY <2>1, <2>5 DEF SizeComes
  <1>9. ASSUME NEW i \in 1 .. Shells, Read(i)
        PROVE  SizeComes'
    <2>1. UNCHANGED <<view, client, waiter, shell>> /\ reader[i].pc = "recv"
      BY <1>9 DEF Read
    <2>2. CASE server' = "closed"
      BY <1>3, <2>2
    <2>3. CASE /\ toServer # <<>> /\ toServer' = Tail(toServer) /\ UNCHANGED <<up, server>>
               /\ LET frame == Head(toServer) IN
                    reader' = [reader EXCEPT ![i] =
                        CASE frame.op = "stdin"  -> [pc |-> "write", frame |-> stdin(taken(frame.data))]
                          [] frame.op = "resize" -> [pc |-> "size", frame |-> frame]
                          [] OTHER               -> @]
      <3>. SUFFICES ASSUME showing'
                    PROVE  SizeComes'
        BY DEF SizeComes
      <3>1. showing
        BY <2>1, <2>3 DEF showing
      <3>2. i = 1
        BY <1>1, <2>1, <3>1 DEF showing, OneShell
      <3>. DEFINE frame == Head(toServer)
                  next == CASE frame.op = "stdin"  -> [pc |-> "write", frame |-> stdin(taken(frame.data))]
                            [] frame.op = "resize" -> [pc |-> "size", frame |-> frame]
                            [] OTHER               -> reader[1]
      <3>3. reader'[1] = next
        BY <1>1, <2>3, <3>2 DEF TypeOK
      <3>4. CASE frame.op = "resize"
        <4>1. next = [pc |-> "size", frame |-> frame]
          BY <3>4
        <4>2. CASE LastResize(toServer', view.size)
          BY <2>1, <4>2 DEF SizeComes
        <4>3. CASE NoResize(toServer') /\ frame = resize(view.size)
          BY <2>1, <3>3, <4>1, <4>3 DEF SizeComes, resize
        <4>. QED
          BY <1>1, <2>1, <2>3, <3>1, <3>2, <3>4, <4>2, <4>3, ResizesAfterTail DEF SizeComes
      <3>5. CASE frame.op # "resize"
        <4>1. next.pc # "size"
          BY <2>1, <3>2, <3>5
        <4>2. /\ NoResize(toServer) => NoResize(toServer')
              /\ LastResize(toServer, view.size) => LastResize(toServer', view.size)
          BY <1>1, <2>3, <3>5, ResizesAfterTail DEF resize
        <4>. HIDE DEF next
        <4>. QED
          BY <2>1, <3>1, <3>2, <3>3, <4>1, <4>2 DEF SizeComes
      <3>. QED
        BY <3>4, <3>5
    <2>4. CASE reader' = [reader EXCEPT ![i].pc = "done"] /\ server = "closed" /\ server' = server
      BY <1>3, <2>4
    <2>. QED
      BY <1>9, <2>2, <2>3, <2>4 DEF Read, crash, hangUp
  <1>10. ASSUME NEW i \in 1 .. Shells, WriteStdin(i)
         PROVE  SizeComes'
    <2>1. UNCHANGED <<view, client, server, up, toServer, waiter>> /\ reader[i].pc = "write"
      BY <1>10 DEF WriteStdin, ends
    <2>2. shell'[1].pc = shell[1].pc /\ shell'[1].size = shell[1].size
      <3>1. shell' = shell \/ shell' = [shell EXCEPT ![i].input = @ \o reader[i].frame.data]
        BY <1>10 DEF WriteStdin
      <3>2. \A k \in 1 .. Shells : shell'[k].pc = shell[k].pc /\ shell'[k].size = shell[k].size
        <4>1. CASE shell' = [shell EXCEPT ![i].input = @ \o reader[i].frame.data]
          <5>. DEFINE told == [shell[i] EXCEPT !.input = @ \o reader[i].frame.data]
          <5>1. told.pc = shell[i].pc /\ told.size = shell[i].size
            BY DEF TypeOK
          <5>. HIDE DEF told
          <5>2. \A k \in 1 .. Shells : shell'[k] = IF k = i THEN told ELSE shell[k]
            BY <4>1 DEF TypeOK, told
          <5>. QED
            BY <5>1, <5>2
        <4>. QED
          BY <3>1, <4>1
      <3>. QED
        BY <1>1, <3>2
    <2>3. reader'[1] = reader[1] \/ (reader[1].pc # "size" /\ reader'[1].pc # "size")
      <3>1. \E on \in {"recv", "done"} : reader' = [reader EXCEPT ![i] = [pc |-> on, frame |-> bind]]
        BY <1>10 DEF WriteStdin
      <3>. QED
        BY <1>1, <2>1, <3>1 DEF TypeOK
    <2>4. showing' => showing
      BY <2>1, <2>2 DEF showing
    <2>. QED
      BY <2>1, <2>2, <2>3, <2>4 DEF SizeComes
  <1>11. ASSUME NEW i \in 1 .. Shells, NEW j \in 1 .. Shells, PassSize(i, j)
         PROVE  SizeComes'
    <2>1. UNCHANGED <<view, client, server, up, toServer, waiter>> /\ reader[i].pc = "size"
      BY <1>11 DEF PassSize, ends
    <2>2. shell'[1].pc = shell[1].pc
      BY <1>1, <1>11, ActingOnShells DEF ShellsKept
    <2>. SUFFICES ASSUME showing'
                  PROVE  SizeComes'
      BY DEF SizeComes
    <2>3. showing
      BY <2>1, <2>2 DEF showing
    <2>4. i = 1 /\ j = 1 /\ shell[1].pc = "running"
      BY <1>1, <1>11, <2>1, <2>3 DEF PassSize, showing, OneShell, TypeOK
    <2>5. reader'[1].pc = "recv"
      BY <1>1, <1>11, <2>4 DEF PassSize, TypeOK
    <2>6. shell' = [shell EXCEPT ![1].size = reader[1].frame.data]
      BY <1>11, <2>4 DEF PassSize
    <2>7. shell'[1].size = reader[1].frame.data
      BY <1>1, <2>6 DEF TypeOK
    <2>. QED
      BY <2>1, <2>2, <2>3, <2>4, <2>5, <2>7 DEF SizeComes
  <1>12. CASE \/ Mount \/ Answered \/ AskFails \/ OpenFails \/ Receive \/ PingFails \/ CloseEvent
              \/ Destroy \/ UNCHANGED vars
    <2>1. UNCHANGED <<server, up, toServer, waiter, reader, shell>>
      BY <1>12 DEF Mount, Answered, AskFails, OpenFails, Receive, PingFails, CloseEvent, Destroy, vars,
         ends, goroutines
    <2>2. view'.size = view.size
      BY <1>1, <1>12 DEF Mount, Answered, AskFails, OpenFails, Receive, PingFails, CloseEvent, Destroy,
         vars, closedView, View
    <2>3. client' = "open" => client = "open"
      BY <1>12 DEF Mount, Answered, AskFails, OpenFails, Receive, PingFails, CloseEvent, Destroy, vars,
         ends
    <2>. QED
      BY <1>2, <2>1, <2>2, <2>3 DEF showing
  <1>13. CASE ExecShell \/ Bound \/ SetSession
    <2>1. UNCHANGED <<view, server, up, client, toServer, reader, shell>> /\ waiter'.n = waiter.n
      BY <1>13 DEF ExecShell, Bound, SetSession, ends, OneShell, TypeOK
    <2>. QED
      BY <1>2, <2>1 DEF showing
  <1>14. CASE LinkLost \/ MapRace \/ CloseSession
    BY <1>3, <1>14 DEF LinkLost, MapRace, CloseSession, hangUp, crash
  <1>. QED
    BY <1>4, <1>5, <1>6, <1>7, <1>8, <1>9, <1>10, <1>11, <1>12, <1>13, <1>14 DEF Next, Component, Backend

\* The size the component last told, before or while the first shell starts,
\* reaches that shell: the loop that waits for a size cannot lose the last one,
\* and no other shell takes it.
THEOREM FirstShellIsSized == Spec => []FirstShellSized
  <1>1. Init => SizeComes
    BY DEF Init, SizeComes, showing
  <1>2. Shape /\ SizeComes /\ [Next]_vars => SizeComes'
    BY StepKeepsSize
  <1>3. Shape /\ SizeComes => FirstShellSized
    <2>. SUFFICES ASSUME Shape, SizeComes, up, server = "open", client = "open",
                         shell[1].pc = "running", reader[1].pc # "size",
                         \A k \in DOMAIN toServer : toServer[k].op # "resize"
                  PROVE  shell[1].size = view.size
      BY DEF FirstShellSized
    <2>1. waiter.n = 1
      BY TerminalAssumption DEF Shape, OneShell
    <2>2. ~ LastResize(toServer, view.size)
      BY DEF LastResize, resize, Shape, TypeOK
    <2>. QED
      BY <2>1, <2>2 DEF SizeComes, showing
  <1>. QED
    BY <1>1, <1>2, <1>3, ShapeHolds, PTL DEF Spec

-----------------------------------------------------------------------------
(* The replicas and their key.                                             *)

Place == {"none", "get", "repair", "create", "recv", "fail", "stop"}
PollerState == [pc : {"none", "check", "send"}, event : Secret \cup {Failed}]

USE DEF Thread, Slot

\* The secrets are pairwise different from a failure.
LEMMA SecretIsNotFailed == Failed \notin Secret /\ Nothing \in Secret /\ Tampered \in Secret
  BY KeyAssumption DEF Secret

\* goto only moves one thread of one replica.
LEMMA GotoKeepsShape ==
  ASSUME KeyTypeOK, NEW r \in Replica, NEW t \in Thread, NEW place \in Place,
         goto(r, t, place)
  PROVE  pc' \in [Replica -> [Thread -> Place]]
  <1>1. pc \in [Replica -> [Thread -> Place]]
    BY DEF KeyTypeOK, Place
  <1>2. [pc[r] EXCEPT ![t] = place] \in [Thread -> Place]
    BY <1>1
  <1>. QED
    BY <1>1, <1>2 DEF goto

\* What follows a use of the secret.
LEMMA DoneKeepsShape ==
  ASSUME KeyTypeOK, NEW r \in Replica, NEW t \in Thread, done(r, t)
  PROVE  pc' \in [Replica -> [Thread -> Place]]
  <1>1. (IF t = "sync" THEN "recv" ELSE "none") \in Place
    BY DEF Place
  <1>. QED
    BY <1>1, GotoKeepsShape DEF done

\* What is kept as the local copy.
LEMMA KeptIsSecret ==
  ASSUME KeyTypeOK, NEW r \in Replica, NEW t \in Thread, NEW s \in Secret,
         keepRead(r, t, s) \/ keepHandled(r, t, s)
  PROVE  local' \in [Replica -> Secret]
  <1>1. local \in [Replica -> Secret]
    BY DEF KeyTypeOK
  <1>2. [local EXCEPT ![r] = s] \in [Replica -> Secret]
    BY <1>1
  <1>. QED
    BY <1>1, <1>2 DEF keepRead, keepHandled

LEMMA TakeKeepsShape ==
  ASSUME KeyTypeOK, NEW r \in Replica, NEW t \in Thread, NEW s \in Secret,
         take(r, t, s)
  PROVE  /\ pc' \in [Replica -> [Thread -> Place]]
         /\ local' \in [Replica -> Secret]
         /\ key' \in [Replica -> Key \cup {Nothing}]
  <1>1. local' \in [Replica -> Secret]
    BY KeptIsSecret DEF take
  <1>2. CASE s \in Key
    <2>1. done(r, t) /\ key' = [key EXCEPT ![r] = s]
      BY <1>2 DEF take
    <2>. QED
      BY <1>1, <1>2, <2>1, DoneKeepsShape DEF KeyTypeOK
  <1>3. CASE s \notin Key
    <2>1. goto(r, t, "repair") /\ UNCHANGED key
      BY <1>3 DEF take
    <2>2. "repair" \in Place
      BY DEF Place
    <2>. QED
      BY <1>1, <2>1, <2>2, GotoKeepsShape DEF KeyTypeOK
  <1>. QED
    BY <1>2, <1>3

\* A poller of one replica changes.
LEMMA PollerKeepsShape ==
  ASSUME KeyTypeOK, NEW r \in Replica, NEW p \in Slot, NEW q \in PollerState,
         poller' = [poller EXCEPT ![r][p] = q]
  PROVE  poller' \in [Replica -> [Slot -> PollerState]]
  <1>1. poller \in [Replica -> [Slot -> PollerState]]
    BY DEF KeyTypeOK, PollerState
  <1>2. [poller[r] EXCEPT ![p] = q] \in [Slot -> PollerState]
    BY <1>1
  <1>. QED
    BY <1>1, <1>2

LEMMA StartKeepsShape ==
  ASSUME KeyTypeOK, NEW r \in Replica, start(r)
  PROVE  /\ pc' \in [Replica -> [Thread -> Place]]
         /\ poller' \in [Replica -> [Slot -> PollerState]]
  <1>1. pc' \in [Replica -> [Thread -> Place]]
    BY GotoKeepsShape, "recv" \in Place DEF start, Place
  <1>2. PICK p \in Slot : poller' = [poller EXCEPT ![r][p].pc = "check"]
    BY DEF start
  <1>3. poller \in [Replica -> [Slot -> PollerState]]
    BY DEF KeyTypeOK, PollerState
  <1>4. [poller[r][p] EXCEPT !.pc = "check"] \in PollerState
    <2>1. poller[r][p] \in PollerState
      BY <1>3
    <2>. QED
      BY <2>1 DEF PollerState
  <1>5. poller' = [poller EXCEPT ![r][p] = [poller[r][p] EXCEPT !.pc = "check"]]
    BY <1>2
  <1>. QED
    BY <1>1, <1>4, <1>5, PollerKeepsShape

\* A request that succeeds or fails is counted up to the bound.
LEMMA TroubleInBounds ==
  ASSUME KeyTypeOK, noFault \/ fault
  PROVE  trouble' \in 0 .. MaxTrouble
  BY KeyAssumption DEF noFault, fault, KeyTypeOK

-----------------------------------------------------------------------------
LEMMA InitKeepsShape == KeyInit => KeyTypeOK
  <1>. SUFFICES ASSUME KeyInit
                PROVE  KeyTypeOK
    OBVIOUS
  <1>1. noPoller \in [Slot -> PollerState]
    BY DEF noPoller, PollerState, Secret
  <1>2. secret \in Secret
    <2>1. (CHOOSE k \in Key : TRUE) \in Key
      BY KeyAssumption
    <2>. QED
      BY <2>1 DEF KeyInit, Secret
  <1>. QED
    BY <1>1, <1>2, KeyAssumption DEF KeyInit, KeyTypeOK, Secret, PollerState

\* What no action below touches keeps its shape.
LEMMA ShapeFromParts ==
  ASSUME KeyTypeOK,
         secret' \in Secret, cached' \in Secret, trouble' \in 0 .. MaxTrouble,
         fresh' \subseteq Key, alive' \in [Replica -> BOOLEAN],
         key' \in [Replica -> Key \cup {Nothing}], local' \in [Replica -> Secret],
         pc' \in [Replica -> [Thread -> Place]],
         monitor' \in [Replica -> {"none", "recv", "stuck", "sleep"}],
         stopped' \in [Replica -> BOOLEAN],
         poller' \in [Replica -> [Slot -> PollerState]]
  PROVE  KeyTypeOK'
  BY DEF KeyTypeOK, Place, PollerState

\* The same from the other side: the parts of the shape.
LEMMA PartsOfShape ==
  ASSUME KeyTypeOK
  PROVE  /\ secret \in Secret /\ cached \in Secret /\ trouble \in 0 .. MaxTrouble
         /\ fresh \subseteq Key /\ alive \in [Replica -> BOOLEAN]
         /\ key \in [Replica -> Key \cup {Nothing}] /\ local \in [Replica -> Secret]
         /\ pc \in [Replica -> [Thread -> Place]]
         /\ monitor \in [Replica -> {"none", "recv", "stuck", "sleep"}]
         /\ stopped \in [Replica -> BOOLEAN]
         /\ poller \in [Replica -> [Slot -> PollerState]]
  BY DEF KeyTypeOK, Place, PollerState

-----------------------------------------------------------------------------
(* The cluster.                                                            *)

LEMMA MeddlePreserves == KeyTypeOK /\ (Meddle \/ CacheCatchesUp) => KeyTypeOK'
  <1>. SUFFICES ASSUME KeyTypeOK, Meddle \/ CacheCatchesUp
                PROVE  KeyTypeOK'
    OBVIOUS
  <1>1. CASE Meddle
    <2>1. trouble' \in 0 .. MaxTrouble
      BY <1>1, TroubleInBounds DEF Meddle
    <2>. QED
      BY <1>1, <2>1, PartsOfShape, ShapeFromParts, SecretIsNotFailed
         DEF Meddle, replica, watcher
  <1>2. CASE CacheCatchesUp
    BY <1>2, PartsOfShape, ShapeFromParts DEF CacheCatchesUp, replica, watcher
  <1>. QED
    BY <1>1, <1>2

LEMMA BootPreserves ==
  ASSUME KeyTypeOK, NEW r \in Replica, Boot(r)
  PROVE  KeyTypeOK'
  <1>1. (CHOOSE x \in fresh : TRUE) \in Key
    BY PartsOfShape DEF Boot
  <1>2. fresh' \subseteq Key /\ key' \in [Replica -> Key \cup {Nothing}]
    BY <1>1, PartsOfShape DEF Boot
  <1>3. [init |-> "get", sync |-> "none", request |-> "none"] \in [Thread -> Place]
    BY DEF Place
  <1>4. pc' \in [Replica -> [Thread -> Place]]
    BY <1>3, PartsOfShape DEF Boot
  <1>5. noPoller \in [Slot -> PollerState]
    BY DEF noPoller, PollerState, Secret
  <1>6. poller' \in [Replica -> [Slot -> PollerState]]
    BY <1>5, PartsOfShape DEF Boot
  <1>. QED
    BY <1>2, <1>4, <1>6, PartsOfShape, ShapeFromParts, SecretIsNotFailed DEF Boot, cluster

-----------------------------------------------------------------------------
(* The threads that use the secret.                                        *)

LEMMA GetPreserves ==
  ASSUME KeyTypeOK, NEW r \in Replica, Get(r)
  PROVE  KeyTypeOK'
  <1>1. trouble' \in 0 .. MaxTrouble
    BY TroubleInBounds DEF Get
  <1>2. /\ pc' \in [Replica -> [Thread -> Place]]
        /\ local' \in [Replica -> Secret]
        /\ key' \in [Replica -> Key \cup {Nothing}]
    <2>1. CASE take(r, "init", cached)
      BY <2>1, TakeKeepsShape, PartsOfShape
    <2>2. CASE goto(r, "init", "create") /\ UNCHANGED <<key, local>>
      BY <2>2, GotoKeepsShape, PartsOfShape DEF Place
    <2>. QED
      BY <2>1, <2>2 DEF Get
  <1>. QED
    BY <1>1, <1>2, PartsOfShape, ShapeFromParts DEF Get, watcher

LEMMA RefreshPreserves ==
  ASSUME KeyTypeOK, NEW r \in Replica, Refresh(r)
  PROVE  KeyTypeOK'
  <1>1. trouble' \in 0 .. MaxTrouble
    BY TroubleInBounds DEF Refresh
  <1>2. PICK s \in Secret : take(r, "request", s)
    BY PartsOfShape DEF Refresh
  <1>3. /\ pc' \in [Replica -> [Thread -> Place]]
        /\ local' \in [Replica -> Secret]
        /\ key' \in [Replica -> Key \cup {Nothing}]
    BY <1>2, TakeKeepsShape
  <1>. QED
    BY <1>1, <1>3, PartsOfShape, ShapeFromParts DEF Refresh, watcher

LEMMA RepairPreserves ==
  ASSUME KeyTypeOK, NEW r \in Replica, NEW t \in Thread, Repair(r, t)
  PROVE  KeyTypeOK'
  <1>1. trouble' \in 0 .. MaxTrouble
    BY TroubleInBounds DEF Repair
  <1>2. pc' \in [Replica -> [Thread -> Place]] /\ local' \in [Replica -> Secret]
    BY DoneKeepsShape, KeptIsSecret, SecretIsNotFailed DEF Repair
  <1>3. secret' \in Secret
    BY PartsOfShape DEF Repair, Secret
  <1>4. alive' \in [Replica -> BOOLEAN]
    BY PartsOfShape DEF Repair, exit
  <1>. QED
    BY <1>1, <1>2, <1>3, <1>4, PartsOfShape, ShapeFromParts DEF Repair, watcher

LEMMA CreatePreserves ==
  ASSUME KeyTypeOK, NEW r \in Replica, NEW t \in Thread, Create(r, t)
  PROVE  KeyTypeOK'
  <1>1. trouble' \in 0 .. MaxTrouble
    BY TroubleInBounds DEF Create
  <1>2. pc' \in [Replica -> [Thread -> Place]] /\ local' \in [Replica -> Secret]
    BY DoneKeepsShape, KeptIsSecret, SecretIsNotFailed DEF Create
  <1>3. secret' \in Secret
    BY PartsOfShape DEF Create, Secret
  <1>4. alive' \in [Replica -> BOOLEAN]
    BY PartsOfShape DEF Create, exit
  <1>. QED
    BY <1>1, <1>2, <1>3, <1>4, PartsOfShape, ShapeFromParts DEF Create, watcher

-----------------------------------------------------------------------------
(* The synchronizer, its pollers and Overwatch.                            *)

LEMMA PollPreserves ==
  ASSUME KeyTypeOK, NEW r \in Replica, NEW p \in Slot, Poll(r, p)
  PROVE  KeyTypeOK'
  <1>1. trouble' \in 0 .. MaxTrouble
    BY TroubleInBounds DEF Poll
  <1>2. poller' \in [Replica -> [Slot -> PollerState]]
    <2>1. CASE poller' = [poller EXCEPT ![r][p].pc = "none"]
      <3>1. poller[r][p] \in PollerState
        BY PartsOfShape
      <3>2. [poller[r][p] EXCEPT !.pc = "none"] \in PollerState
        BY <3>1 DEF PollerState
      <3>3. poller' = [poller EXCEPT ![r][p] = [poller[r][p] EXCEPT !.pc = "none"]]
        BY <2>1
      <3>. QED
        BY <3>2, <3>3, PollerKeepsShape
    <2>2. CASE \E e \in Secret \cup {Failed} :
                 poller' = [poller EXCEPT ![r][p] = [pc |-> "send", event |-> e]]
      BY <2>2, PollerKeepsShape DEF PollerState
    <2>. QED
      BY <2>1, <2>2, PartsOfShape DEF Poll
  <1>. QED
    BY <1>1, <1>2, PartsOfShape, ShapeFromParts DEF Poll, replica

LEMMA HandleEventPreserves ==
  ASSUME KeyTypeOK, NEW r \in Replica, NEW p \in Slot, HandleEvent(r, p)
  PROVE  KeyTypeOK'
  <1>. DEFINE event == poller[r][p].event
  <1>1. poller' \in [Replica -> [Slot -> PollerState]]
    <2>1. [pc |-> "check", event |-> Nothing] \in PollerState
      BY SecretIsNotFailed DEF PollerState
    <2>. QED
      BY <2>1, PollerKeepsShape DEF HandleEvent
  <1>2. event \in Secret \cup {Failed}
    BY PartsOfShape, ZenonT(30) DEF PollerState
  <1>3. /\ pc' \in [Replica -> [Thread -> Place]]
        /\ local' \in [Replica -> Secret]
        /\ key' \in [Replica -> Key \cup {Nothing}]
    <2>1. CASE event \in {Nothing, Failed}
      <3>1. /\ goto(r, "sync", IF event = Failed THEN "fail" ELSE "create")
            /\ UNCHANGED <<key, local>>
        BY <2>1 DEF HandleEvent
      <3>2. (IF event = Failed THEN "fail" ELSE "create") \in Place
        BY DEF Place
      <3>. QED
        BY <3>1, <3>2, GotoKeepsShape, PartsOfShape
    <2>2. CASE event \notin {Nothing, Failed}
      <3>1. take(r, "sync", event) /\ event \in Secret
        BY <2>2, <1>2 DEF HandleEvent
      <3>. QED
        BY <3>1, TakeKeepsShape
    <2>. QED
      BY <2>1, <2>2
  <1>. QED
    BY <1>1, <1>3, PartsOfShape, ShapeFromParts DEF HandleEvent, cluster

LEMMA SynchronizerPreserves ==
  ASSUME KeyTypeOK, NEW r \in Replica, WatchEnded(r) \/ Stop(r) \/ Error(r)
  PROVE  KeyTypeOK'
  <1>1. PICK place \in Place : goto(r, "sync", place)
    BY DEF WatchEnded, Stop, Error, Place
  <1>2. pc' \in [Replica -> [Thread -> Place]]
    BY <1>1, GotoKeepsShape
  <1>3. /\ stopped' \in [Replica -> BOOLEAN]
        /\ monitor' \in [Replica -> {"none", "recv", "stuck", "sleep"}]
    BY PartsOfShape DEF WatchEnded, Stop, Error, watcher
  <1>. QED
    BY <1>2, <1>3, PartsOfShape, ShapeFromParts
       DEF WatchEnded, Stop, Error, cluster, watcher

LEMMA SendOnClosedPreserves ==
  ASSUME KeyTypeOK, NEW r \in Replica, NEW p \in Slot, SendOnClosed(r, p)
  PROVE  KeyTypeOK'
  BY PartsOfShape, ShapeFromParts DEF SendOnClosed, exit, cluster, watcher

LEMMA StartPreserves ==
  ASSUME KeyTypeOK, NEW r \in Replica, Register(r) \/ Restart(r)
  PROVE  KeyTypeOK'
  <1>1. /\ pc' \in [Replica -> [Thread -> Place]]
        /\ poller' \in [Replica -> [Slot -> PollerState]]
    BY StartKeepsShape DEF Register, Restart
  <1>2. monitor' \in [Replica -> {"none", "recv", "stuck", "sleep"}]
    BY PartsOfShape DEF Register, Restart
  <1>. QED
    BY <1>1, <1>2, PartsOfShape, ShapeFromParts DEF Register, Restart, cluster

LEMMA NextKeepsShape == KeyTypeOK /\ [KeyNext]_keyVars => KeyTypeOK'
  <1>. SUFFICES ASSUME KeyTypeOK, [KeyNext]_keyVars
                PROVE  KeyTypeOK'
    OBVIOUS
  <1>1. CASE Meddle \/ CacheCatchesUp
    BY <1>1, MeddlePreserves
  <1>2. ASSUME NEW r \in Replica, Boot(r)
        PROVE  KeyTypeOK'
    BY <1>2, BootPreserves
  <1>3. ASSUME NEW r \in Replica, HolderNext(r)
        PROVE  KeyTypeOK'
    BY <1>3, GetPreserves, RefreshPreserves, RepairPreserves, CreatePreserves DEF HolderNext
  <1>4. ASSUME NEW r \in Replica, SyncNext(r)
        PROVE  KeyTypeOK'
    BY <1>4, PollPreserves, HandleEventPreserves, SynchronizerPreserves,
       SendOnClosedPreserves, StartPreserves DEF SyncNext
  <1>5. CASE UNCHANGED keyVars
    BY <1>5, PartsOfShape, ShapeFromParts DEF keyVars, cluster, replica, watcher
  <1>. QED
    BY <1>1, <1>2, <1>3, <1>4, <1>5 DEF KeyNext

\* The state of the replicas keeps its shape: a secret that could not be read is
\* never kept as one that was (secretSynchronizer.Refresh).
THEOREM KeyTypeOKAlways == KeySpec => []KeyTypeOK
  BY InitKeepsShape, NextKeepsShape, PTL DEF KeySpec

-----------------------------------------------------------------------------
(* No replica overwrites a stored key.                                     *)

\* Repair, which writes over whatever is stored.
Repairing == \E r \in Replica, t \in Thread : at(r, t, "repair")

\* Only three steps change what is stored: the one of others leaves no key, and
\* Create leaves alone what there is.
LEMMA StepKeepsStoredKey ==
  ASSUME [KeyNext]_keyVars, secret # secret', {secret, secret'} \subseteq Key
  PROVE  Repairing
  <1>1. Nothing \notin Key /\ Tampered \notin Key
    BY KeyAssumption
  <1>2. ~ Meddle
    BY <1>1 DEF Meddle
  <1>3. ~ \E r \in Replica, t \in Thread : Create(r, t)
    BY <1>1 DEF Create
  <1>4. ASSUME NEW r \in Replica, NEW t \in Thread, Repair(r, t)
        PROVE  Repairing
    BY <1>4 DEF Repair, Repairing
  <1>5. /\ ~ CacheCatchesUp /\ ~ UNCHANGED keyVars
        /\ \A r \in Replica : ~ Boot(r) /\ ~ Get(r) /\ ~ Refresh(r) /\ ~ SyncNext(r)
    <2>1. ~ CacheCatchesUp /\ ~ UNCHANGED keyVars
      BY DEF CacheCatchesUp, keyVars, cluster
    <2>2. ASSUME NEW r \in Replica
          PROVE  ~ Boot(r) /\ ~ Get(r) /\ ~ Refresh(r)
      BY DEF Boot, Get, Refresh, cluster
    <2>3. ASSUME NEW r \in Replica
          PROVE  ~ SyncNext(r)
      BY DEF SyncNext, WatchEnded, Stop, Register, Error, Restart, Poll, HandleEvent,
             SendOnClosed, cluster
    <2>. QED
      BY <2>1, <2>2, <2>3
  <1>. QED
    BY <1>2, <1>3, <1>4, <1>5 DEF KeyNext, HolderNext

\* Replicas that start together or recreate the secret do not overwrite each
\* other's key: one stored key gives way to another only where a replica has
\* read a secret without one (rsaKeyHolder.update).
THEOREM StoredKeyStaysAlways == KeySpec => StoredKeyStays
  <1>1. [KeyNext]_keyVars =>
          [secret # secret' /\ {secret, secret'} \subseteq Key =>
             \E r \in Replica, t \in Thread : at(r, t, "repair")]_keyVars
    BY StepKeepsStoredKey DEF Repairing
  <1>. QED
    BY <1>1, PTL DEF KeySpec, StoredKeyStays

=============================================================================
