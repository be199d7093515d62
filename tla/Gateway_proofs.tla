--------------------------- MODULE Gateway_proofs ---------------------------
(***************************************************************************)
(* Theorems about Gateway, for every number of calls, connections, commands*)
(* and interventions: types, what is left when no call is under way, who   *)
(* takes the connection from its owner, who is left waiting, how the two   *)
(* locks exclude and block each other, and that a call is told of its      *)
(* command what the extension did, whatever is lost, late or repeated.     *)
(***************************************************************************)
EXTENDS Gateway, FiniteSets, FiniteSetTheorems, TLAPS

-----------------------------------------------------------------------------
(* Types.                                                                  *)

Down == [type : {"command", "cancel"}, cmd : Cmd]

TypedServer ==
    /\ pc \in [Thread -> Label] /\ on \in [Thread -> Conn \cup {NoConn}]
    /\ active \in Conn \cup {NoConn} /\ closed \subseteq Conn /\ cut \subseteq Conn
    /\ limit \in Limit

TypedTransport ==
    /\ pending \in [Cmd -> Call \cup {NoCall}]
    /\ mode \in {"disconnected", "connected", "busy", "verifying"}
    /\ used \in Int /\ used <= limit
    /\ cache \in [Cmd -> Told] /\ outcome \in [Call -> Told]
    /\ cmd \in [Call -> Cmd \cup {NoCmd}] /\ answer \in [Call -> Told]

TypedWire ==
    /\ msg \in [Conn -> Frame] /\ target \in [Conn -> Call \cup {NoCall}]
    /\ down \in [Conn -> Seq(Down)] /\ up \in [Conn -> Seq(Frame)]
    /\ socket \in Conn \cup {NoConn} /\ lost \subseteq Conn /\ inFlight \subseteq Cmd
    /\ working \in [Cmd -> Nat] /\ events \in Nat
    /\ done \in [performed : SUBSET Cmd, refused : SUBSET Cmd, withdrawn : SUBSET Cmd]

Typed == TypedServer /\ TypedTransport /\ TypedWire

\* A call that is not idle has a command, and a thread that writes or drops has
\* a connection.
Placed ==
    /\ \A t \in Thread :
          pc[t] \in {"write", "wait", "withdraw", "drop", "dropping", "reading", "handle",
                    "remember"}
          => on[t] \in Conn
    /\ \A c \in Call : pc[c] # "idle" <=> cmd[c] \in Cmd

\* An answer that is being remembered, or has found its call, is about a command.
Framed ==
    /\ \A k \in Conn : pc[k] = "remember" =>
          msg[k].type \in Report /\ msg[k].cmd \in Cmd
    /\ \A k \in Conn : pc[k] = "handle" /\ target[k] # NoCall => msg[k].cmd \in Cmd

\* A frame is sent to the extension.
LEMMA PutTyped ==
    ASSUME TypedWire, NEW k \in Conn, NEW type \in {"command", "cancel"}, NEW m \in Cmd
    PROVE  Put(down, k, type, m) \in [Conn -> Seq(Down)]
<1> DEFINE env == [type |-> type, cmd |-> m]
<1>1. env \in Down
  BY DEF Down
<1>2. down[k] \in Seq(Down)
  BY DEF TypedWire
<1> HIDE DEF env
<1>3. Append(down[k], env) \in Seq(Down)
  BY <1>1, <1>2
<1>4. Put(down, k, type, m) = [down EXCEPT ![k] = IF k \in lost THEN @ ELSE Append(@, env)]
  BY DEF Put, env
<1>5. QED
  BY <1>2, <1>3, <1>4 DEF TypedWire

\* The steps of calls keep the types.
LEMMA CallTyped ==
    ASSUME Typed, Placed, NEW c \in Call, CallStep(c)
    PROVE  Typed'
<1>1. TypedServer'
  <2> USE DEF Typed, TypedServer, Goto, Thread, Label, transport, frames, wire, extension, world
  <2>1. ASSUME StartCall(c) \/ GetState(c) \/ CheckState(c) \/ Acquire(c) \/ File(c)
        PROVE  TypedServer'
    BY <2>1 DEF StartCall, GetState, CheckState, Acquire, File, Return, server
  <2>2. ASSUME Send(c) \/ Write(c) \/ Wait(c) PROVE TypedServer'
    BY <2>2 DEF Send, Write, Wait, server
  <2>3. ASSUME Cancel(c) \/ WriteCancel(c) \/ Finish(c) PROVE TypedServer'
    BY <2>3 DEF Cancel, WriteCancel, Finish, Return, server
  <2>4. ASSUME Drop(c) \/ DropState(c) PROVE TypedServer'
    BY <2>4 DEF Drop, DropState, After, Placed
  <2>5. QED
    BY <2>1, <2>2, <2>3, <2>4 DEF CallStep
<1>2. TypedTransport'
  <2> USE GatewayAssumption
  <2> USE DEF Typed, TypedTransport, TypedServer, Told, Report, server, transport, calls
  <2>1. ASSUME StartCall(c) \/ GetState(c) \/ CheckState(c) PROVE TypedTransport'
    BY <2>1 DEF StartCall, GetState, CheckState, Return
  <2>2. ASSUME Acquire(c) \/ File(c) PROVE TypedTransport'
    BY <2>2 DEF Acquire, File, Return
  <2>3. ASSUME Send(c) \/ Write(c) \/ Cancel(c) \/ WriteCancel(c) PROVE TypedTransport'
    BY <2>3 DEF Send, Write, Cancel, WriteCancel
  <2>4. ASSUME Wait(c) \/ Finish(c) PROVE TypedTransport'
    BY <2>4 DEF Wait, Finish, PopPending, Settled, Return
  <2>5. ASSUME Drop(c) \/ DropState(c) PROVE TypedTransport'
    BY <2>5 DEF Drop, DropState, ResetPending
  <2>6. QED
    BY <2>1, <2>2, <2>3, <2>4, <2>5 DEF CallStep
<1>3. TypedWire'
  <2>1. CASE UNCHANGED <<msg, target, down, up, socket, lost, inFlight, working, events, done>>
    BY <2>1 DEF Typed, TypedWire
  <2>2. CASE Write(c)
    <3>1. cmd[c] \in Cmd
      BY <2>2 DEF Write, Placed
    <3>2. on[c] \in Conn
      BY <2>2 DEF Write, Placed, Thread
    <3>3. Put(down, on[c], "command", cmd[c]) \in [Conn -> Seq(Down)]
      BY <3>1, <3>2, PutTyped DEF Typed
    <3>4. QED
      BY <2>2, <3>3 DEF Typed, TypedWire, Write, frames, extension, world
  <2>3. CASE WriteCancel(c)
    <3>1. cmd[c] \in Cmd
      BY <2>3 DEF WriteCancel, Placed
    <3>2. on[c] \in Conn
      BY <2>3 DEF WriteCancel, Placed, Thread
    <3>3. Put(down, on[c], "cancel", cmd[c]) \in [Conn -> Seq(Down)]
      BY <3>1, <3>2, PutTyped DEF Typed
    <3>4. QED
      BY <2>3, <3>3 DEF Typed, TypedWire, WriteCancel, frames, extension, world
  <2>4. QED
    BY <2>1, <2>2, <2>3 DEF CallStep, StartCall, GetState, CheckState, Acquire, File, Send, Wait,
                            Cancel, Finish, Drop, DropState, frames, wire, extension, world
<1>4. QED
  BY <1>1, <1>2, <1>3 DEF Typed

\* So do those of connections.
LEMMA ConnTyped ==
    ASSUME Typed, Placed, Framed, NEW k \in Conn, ConnStep(k)
    PROVE  Typed'
<1>1. TypedServer'
  <2> USE DEF Typed, TypedServer, Goto, Thread, Label
  <2>1. ASSUME Register(k) \/ RegisterState(k) \/ Greet(k) PROVE TypedServer'
    BY <2>1 DEF Register, RegisterState, Greet, server
  <2>2. ASSUME ReadFrame(k) \/ HandleAnswer(k) \/ Remember(k) PROVE TypedServer'
    BY <2>2 DEF ReadFrame, HandleAnswer, Remember, BackToLoop, server
  <2>3. ASSUME HandleState(k) \/ EndLoop(k) PROVE TypedServer'
    BY <2>3 DEF HandleState, EndLoop, BackToLoop, server
  <2>4. ASSUME Drop(k) \/ DropState(k) PROVE TypedServer'
    BY <2>4 DEF Drop, DropState, After, Placed
  <2>5. QED
    BY <2>1, <2>2, <2>3, <2>4 DEF ConnStep
<1>2. TypedTransport'
  <2> USE DEF Typed, TypedTransport, TypedServer, Told, Report, server, transport, calls
  <2>1. ASSUME Register(k) \/ RegisterState(k) \/ Greet(k) PROVE TypedTransport'
    BY <2>1 DEF Register, RegisterState, Greet, ResetPending
  <2>2. ASSUME ReadFrame(k) \/ EndLoop(k) PROVE TypedTransport'
    BY <2>2 DEF ReadFrame, EndLoop
  <2>3. ASSUME HandleAnswer(k) PROVE TypedTransport'
    BY <2>3 DEF HandleAnswer, Signal
  <2>4. ASSUME Remember(k) PROVE TypedTransport'
    BY <2>4 DEF Remember, Framed
  <2>5. ASSUME HandleState(k) PROVE TypedTransport'
    BY <2>5 DEF HandleState
  <2>6. ASSUME Drop(k) \/ DropState(k) PROVE TypedTransport'
    BY <2>6 DEF Drop, DropState, ResetPending
  <2>7. QED
    BY <2>1, <2>2, <2>3, <2>4, <2>5, <2>6 DEF ConnStep
<1>3. TypedWire'
  <2>1. CASE UNCHANGED <<msg, target, down, up, socket, lost, inFlight, working, events, done>>
    BY <2>1 DEF Typed, TypedWire
  <2>2. CASE ReadFrame(k)
    <3>1. up[k] \in Seq(Frame) /\ up[k] # <<>>
      BY <2>2 DEF Typed, TypedWire, ReadFrame
    <3>2. Head(up[k]) \in Frame /\ Tail(up[k]) \in Seq(Frame)
      BY <3>1
    <3>3. Head(up[k]).cmd # NoCmd => Head(up[k]).cmd \in Cmd
      BY <3>2 DEF Frame
    <3>4. QED
      BY <2>2, <3>2, <3>3 DEF Typed, TypedWire, TypedTransport, ReadFrame, extension, world
  <2>3. CASE HandleAnswer(k) \/ Remember(k) \/ HandleState(k)
    <3>1. NoMsg \in Frame
      BY DEF NoMsg, Frame, Told, Report
    <3>2. QED
      BY <2>3, <3>1 DEF Typed, TypedWire, HandleAnswer, Remember, HandleState, BackToLoop,
                        wire, extension, world
  <2>4. QED
    BY <2>1, <2>2, <2>3 DEF ConnStep, Register, RegisterState, Greet, EndLoop, Drop, DropState,
                            frames, wire, extension, world
<1>4. QED
  BY <1>1, <1>2, <1>3 DEF Typed

\* And those of the operator and of the extension.
LEMMA OtherTyped ==
    ASSUME Typed, AdminStep \/ Rotate \/ Revoke \/ Stop \/ ExtensionStep
    PROVE  Typed'
<1> DEFINE Operator == AdminStep \/ Rotate \/ Revoke \/ Stop
<1> USE DEF Operator
<1>1. TypedServer'
  <2> USE DEF Typed, TypedServer, Goto, Thread, Label
  <2>1. CASE AdminStep
    BY <2>1 DEF AdminStep, RotateState, CloseTaken, StopState, server
  <2>2. CASE Rotate \/ Revoke \/ Stop
    BY <2>2 DEF Rotate, Revoke, Stop, TakeAway
  <2>3. CASE ExtensionStep
    BY <2>3 DEF ExtensionStep, LoseSocket, TakeCommand, Verify, Connect, Perform, Expire, server
  <2>4. QED
    BY <2>1, <2>2, <2>3
<1>2. TypedTransport'
  <2> USE DEF Typed, TypedTransport, TypedServer, Told, Report, server, transport, calls
  <2>1. CASE Operator
    BY <2>1 DEF AdminStep, RotateState, CloseTaken, StopState, ResetPending, Rotate, Revoke, Stop,
                TakeAway
  <2>2. CASE ExtensionStep
    BY <2>2 DEF ExtensionStep, LoseSocket, TakeCommand, Verify, Connect, Perform, Expire
  <2>3. QED
    BY <2>1, <2>2
<1>3. TypedWire'
  <2> USE DEF Typed, TypedWire
  <2>1. CASE Operator
    BY <2>1 DEF AdminStep, RotateState, CloseTaken, StopState, Rotate, Revoke, Stop, TakeAway,
                frames, wire, extension, world
  <2>2. ASSUME NEW type \in Told \cup {"verify", "resolved"}, NEW m \in Cmd \cup {NoCmd},
               SendUp(type, m)
        PROVE  up' \in [Conn -> Seq(Frame)]
    <3>1. [type |-> type, cmd |-> m] \in Frame
      BY DEF Frame
    <3>2. QED
      BY <2>2, <3>1 DEF SendUp
  <2>3. CASE LoseSocket
    BY <2>3 DEF LoseSocket, frames
  <2>4. CASE TakeCommand
    <3>1. down[socket] \in Seq(Down) /\ down[socket] # <<>>
      BY <2>4 DEF TakeCommand
    <3>2. Head(down[socket]) \in Down /\ Tail(down[socket]) \in Seq(Down)
      BY <3>1
    <3>3. Head(down[socket]).cmd \in Cmd
      BY <3>2 DEF Down
    <3>4. down' \in [Conn -> Seq(Down)]
      BY <2>4, <3>2 DEF TakeCommand
    <3>5. up' \in [Conn -> Seq(Frame)]
      BY <2>2, <2>4, <3>3 DEF TakeCommand, Told, Report
    <3> DEFINE m == Head(down[socket]).cmd
    <3>a. /\ working' \in {working, [working EXCEPT ![m] = @ + 1]}
          /\ inFlight' \in {inFlight, inFlight \cup {m}, inFlight \ {m}}
          /\ done' = done \/ done' = [done EXCEPT !.withdrawn = @ \cup {m}]
      BY <2>4 DEF TakeCommand
    <3> HIDE DEF m
    <3>b. m \in Cmd
      BY <3>3 DEF m
    <3>6. working' \in [Cmd -> Nat] /\ inFlight' \subseteq Cmd
      BY <3>a, <3>b
    <3>7. CASE done' = done
      BY <2>4, <3>4, <3>5, <3>6, <3>7 DEF TakeCommand, frames
    <3>8. CASE done' = [done EXCEPT !.withdrawn = @ \cup {m}]
      <4>1. done' \in [performed : SUBSET Cmd, refused : SUBSET Cmd, withdrawn : SUBSET Cmd]
        BY <3>8, <3>b
      <4>2. QED
        BY <2>4, <3>4, <3>5, <3>6, <4>1 DEF TakeCommand, frames
    <3>9. QED
      BY <3>a, <3>7, <3>8
  <2>5. CASE Verify
    <3>1. up' \in [Conn -> Seq(Frame)]
      BY <2>2, <2>5 DEF Verify
    <3>2. QED
      BY <2>5, <3>1 DEF Verify, frames
  <2>6. CASE \E k \in Conn : Connect(k)
    BY <2>6 DEF Connect, wire
  <2>7. ASSUME NEW m \in Cmd, Perform(m) PROVE TypedWire'
    <3>1. up' \in [Conn -> Seq(Frame)]
      BY <2>2, <2>7 DEF Perform, Told, Report
    <3>2. working' \in [Cmd -> Nat] /\ inFlight' \subseteq Cmd
      BY <2>7 DEF Perform
    <3>3. done' \in [performed : SUBSET Cmd, refused : SUBSET Cmd, withdrawn : SUBSET Cmd]
      BY <2>7 DEF Perform
    <3>4. QED
      BY <2>7, <3>1, <3>2, <3>3 DEF Perform, frames
  <2>8. ASSUME NEW m \in Cmd, Expire(m) PROVE TypedWire'
    <3>1. up' \in [Conn -> Seq(Frame)]
      BY <2>2, <2>8 DEF Expire, Told, Report
    <3>2. QED
      BY <2>8, <3>1 DEF Expire, frames
  <2>9. QED
    BY <2>1, <2>3, <2>4, <2>5, <2>6, <2>7, <2>8 DEF ExtensionStep
<1>4. QED
  BY <1>1, <1>2, <1>3 DEF Typed

\* Nothing that the types rest on is disturbed.
LEMMA PlacedStep ==
    ASSUME Typed, Placed, [Next]_vars
    PROVE  Placed'
<1> USE GatewayAssumption
<1> USE DEF Typed, TypedServer, TypedTransport, Placed, Thread, Goto
<1>1. ASSUME NEW c \in Call, CallStep(c) PROVE Placed'
  <2>1. CASE StartCall(c)
    BY <2>1 DEF StartCall, Return
  <2>2. CASE GetState(c) \/ CheckState(c) \/ Acquire(c) \/ File(c)
    BY <2>2 DEF GetState, CheckState, Acquire, File, Return, calls
  <2>3. CASE Send(c) \/ Write(c)
    BY <2>3 DEF Send, Write, Connected
  <2>4. CASE Wait(c) \/ Cancel(c) \/ WriteCancel(c) \/ Finish(c)
    BY <2>4 DEF Wait, Cancel, WriteCancel, Finish, Return, Connected, calls
  <2>5. CASE Drop(c) \/ DropState(c)
    BY <2>5 DEF Drop, DropState, After, calls
  <2>6. QED
    BY <1>1, <2>1, <2>2, <2>3, <2>4, <2>5 DEF CallStep
<1>2. ASSUME NEW k \in Conn, ConnStep(k) PROVE Placed'
  <2>1. CASE Register(k) \/ RegisterState(k)
    BY <2>1 DEF Register, RegisterState, calls, server
  <2>2. CASE Greet(k)
    BY <2>2 DEF Greet, calls
  <2>3. CASE ReadFrame(k) \/ EndLoop(k)
    BY <2>3 DEF ReadFrame, EndLoop, calls
  <2>4. CASE HandleAnswer(k) \/ Remember(k) \/ HandleState(k)
    BY <2>4 DEF HandleAnswer, Remember, HandleState, BackToLoop, calls
  <2>5. CASE Drop(k) \/ DropState(k)
    BY <2>5 DEF Drop, DropState, After, calls
  <2>6. QED
    BY <1>2, <2>1, <2>2, <2>3, <2>4, <2>5 DEF ConnStep
<1>3. CASE AdminStep \/ Rotate \/ Revoke \/ Stop
  BY <1>3 DEF AdminStep, RotateState, CloseTaken, StopState, Rotate, Revoke, Stop, TakeAway, calls
<1>4. CASE ExtensionStep
  BY <1>4 DEF ExtensionStep, LoseSocket, TakeCommand, Verify, Connect, Perform, Expire, calls
<1>5. CASE UNCHANGED vars
  BY <1>5 DEF vars, calls
<1>6. QED
  BY <1>1, <1>2, <1>3, <1>4, <1>5 DEF Next

\* A connection that goes back to reading has no frame in hand.
LEMMA BackFramed ==
    ASSUME Typed, Framed, NEW k \in Conn, BackToLoop(k)
    PROVE  Framed'
<1>1. pc'[k] = "reading"
  BY DEF BackToLoop, Goto, Typed, TypedServer, Thread
<1>2. \A n \in Conn : n # k => pc'[n] = pc[n]
  BY DEF BackToLoop, Goto, Typed, TypedServer, Thread
<1>3. \A n \in Conn : n # k => msg'[n] = msg[n] /\ target'[n] = target[n]
  BY DEF BackToLoop, Typed, TypedTransport, TypedWire
<1>4. QED
  BY <1>1, <1>2, <1>3 DEF Framed

LEMMA FramedStep ==
    ASSUME Typed, Framed, [Next]_vars
    PROVE  Framed'
<1> USE GatewayAssumption
<1> USE DEF Typed, TypedServer, TypedTransport, TypedWire, Framed, Thread, Goto, Label
<1>1. ASSUME NEW c \in Call, CallStep(c) PROVE Framed'
  <2>1. UNCHANGED frames /\ \A k \in Conn : pc'[k] = pc[k]
    <3>1. CASE StartCall(c) \/ GetState(c) \/ CheckState(c) \/ Acquire(c) \/ File(c)
      BY <3>1 DEF StartCall, GetState, CheckState, Acquire, File, Return
    <3>2. CASE Send(c) \/ Write(c) \/ Wait(c) \/ Cancel(c) \/ WriteCancel(c) \/ Finish(c)
      BY <3>2 DEF Send, Write, Wait, Cancel, WriteCancel, Finish, Return
    <3>3. CASE Drop(c) \/ DropState(c)
      BY <3>3 DEF Drop, DropState
    <3>4. QED
      BY <1>1, <3>1, <3>2, <3>3 DEF CallStep
  <2>2. QED
    BY <2>1 DEF frames
<1>2. ASSUME NEW k \in Conn, ConnStep(k) PROVE Framed'
  <2>1. CASE Register(k) \/ RegisterState(k) \/ Greet(k) \/ EndLoop(k)
    BY <2>1 DEF Register, RegisterState, Greet, EndLoop, frames, server
  <2>2. CASE ReadFrame(k)
    <3>1. up[k] \in Seq(Frame) /\ up[k] # <<>>
      BY <2>2 DEF ReadFrame
    <3>2. Head(up[k]) \in Frame
      BY <3>1
    <3>3. Head(up[k]).cmd # NoCmd => Head(up[k]).cmd \in Cmd
      BY <3>2 DEF Frame
    <3>4. QED
      BY <2>2, <3>3 DEF ReadFrame
  <2>3. CASE HandleAnswer(k)
    <3>1. CASE target[k] = NoCall
      <4>1. BackToLoop(k)
        BY <2>3, <3>1 DEF HandleAnswer
      <4>2. QED
        BY <4>1, BackFramed
    <3>2. CASE target[k] # NoCall
      BY <2>3, <3>2 DEF HandleAnswer
    <3>3. QED
      BY <3>1, <3>2
  <2>4. CASE Remember(k) \/ HandleState(k)
    BY <2>4, BackFramed DEF Remember, HandleState
  <2>5. CASE Drop(k) \/ DropState(k)
    BY <2>5 DEF Drop, DropState, After, frames
  <2>6. QED
    BY <1>2, <2>1, <2>2, <2>3, <2>4, <2>5 DEF ConnStep
<1>3. CASE AdminStep \/ Rotate \/ Revoke \/ Stop
  BY <1>3 DEF AdminStep, RotateState, CloseTaken, StopState, Rotate, Revoke, Stop, TakeAway, frames
<1>4. CASE ExtensionStep
  BY <1>4 DEF ExtensionStep, LoseSocket, TakeCommand, Verify, Connect, Perform, Expire, frames
<1>5. CASE UNCHANGED vars
  BY <1>5 DEF vars, frames
<1>6. QED
  BY <1>1, <1>2, <1>3, <1>4, <1>5 DEF Next

\* The types, and what they rest on, in every state.
Inv == Typed /\ Placed /\ Framed

LEMMA InvInit == Init => Inv
<1> SUFFICES ASSUME Init PROVE Inv
  OBVIOUS
<1> USE GatewayAssumption DEF Init
<1>1. TypedServer
  BY DEF TypedServer, Thread, Label
<1>2. TypedTransport
  BY DEF TypedTransport, Told, Report
<1>3. TypedWire
  <2>1. NoMsg \in Frame
    BY DEF NoMsg, Frame, Told, Report
  <2>2. QED
    BY <2>1 DEF TypedWire
<1>4. Placed /\ Framed
  BY DEF Placed, Framed, Thread
<1>5. QED
  BY <1>1, <1>2, <1>3, <1>4 DEF Inv, Typed

LEMMA InvStep == Inv /\ [Next]_vars => Inv'
<1> SUFFICES ASSUME Inv, [Next]_vars PROVE Inv'
  OBVIOUS
<1>1. CASE Next
  BY <1>1, CallTyped, ConnTyped, OtherTyped, PlacedStep, FramedStep DEF Next, Inv
<1>2. CASE UNCHANGED vars
  <2>1. TypedServer' /\ TypedTransport' /\ TypedWire'
    BY <1>2 DEF Inv, Typed, TypedServer, TypedTransport, TypedWire, vars, server, transport, calls,
                frames, wire, extension, world
  <2>2. QED
    BY <1>2, <2>1, PlacedStep, FramedStep DEF Inv, Typed
<1>3. QED
  BY <1>1, <1>2

LEMMA Invariant == Spec => []Inv
<1>1. Init => Inv
  BY InvInit
<1>2. Inv /\ [Next]_vars => Inv'
  BY InvStep
<1>3. QED
  BY <1>1, <1>2, PTL DEF Spec

-----------------------------------------------------------------------------
(* What a step may change.                                                 *)

\* A call keeps its command, and what does not start a call leaves it alone.
LEMMA CmdStays ==
    ASSUME Inv, [Next]_vars
    PROVE  /\ \A c \in Call : cmd[c] \in Cmd => cmd'[c] = cmd[c]
           /\ (\A c \in Call : ~StartCall(c)) => cmd' = cmd
<1> USE GatewayAssumption DEF Inv, Typed, TypedTransport, Placed
<1>1. ASSUME NEW c \in Call, CallStep(c), ~StartCall(c) PROVE cmd' = cmd
  BY <1>1 DEF CallStep, GetState, CheckState, Acquire, File, Send, Write, Wait, Cancel,
              WriteCancel, Finish, Drop, DropState, calls
<1>2. ASSUME NEW c \in Call, StartCall(c) PROVE \A d \in Call : cmd[d] \in Cmd => cmd'[d] = cmd[d]
  BY <1>2 DEF StartCall
<1>3. ASSUME NEW k \in Conn, ConnStep(k) PROVE cmd' = cmd
  BY <1>3 DEF ConnStep, Register, RegisterState, Greet, ReadFrame, HandleAnswer, Remember,
              HandleState, EndLoop, Drop, DropState, calls
<1>4. CASE AdminStep \/ Rotate \/ Revoke \/ Stop \/ ExtensionStep \/ UNCHANGED vars
  BY <1>4 DEF AdminStep, RotateState, CloseTaken, StopState, Rotate, Revoke, Stop, TakeAway,
              ExtensionStep, LoseSocket, TakeCommand, Verify, Connect, Perform, Expire, vars, calls
<1>5. QED
  BY <1>1, <1>2, <1>3, <1>4 DEF Next

\* The commands that wait change with a call, with an answer and with a reset.
LEMMA PendingSteps ==
    ASSUME Inv, [Next]_vars
    PROVE  \/ pending' = pending
           \/ ResetPending
           \/ \E c \in Call : File(c) /\ pending' = [pending EXCEPT ![cmd[c]] = c]
           \/ \E c \in Call : (Wait(c) \/ Finish(c))
                              /\ pending' = [pending EXCEPT ![cmd[c]] = NoCall]
<1>1. ASSUME NEW c \in Call, File(c)
      PROVE  pending' = [pending EXCEPT ![cmd[c]] = c]
  BY <1>1 DEF File
<1>2. ASSUME NEW c \in Call, Wait(c) \/ Finish(c)
      PROVE  pending' = [pending EXCEPT ![cmd[c]] = NoCall]
  BY <1>2 DEF Wait, Finish, PopPending
<1>3. ASSUME NEW c \in Call, CallStep(c), ~File(c), ~Wait(c), ~Finish(c)
      PROVE  pending' = pending \/ ResetPending
  BY <1>3 DEF CallStep, StartCall, GetState, CheckState, Acquire, Send, Write, Cancel,
              WriteCancel, Drop, DropState, transport
<1>4. ASSUME NEW k \in Conn, ConnStep(k) PROVE pending' = pending \/ ResetPending
  BY <1>4 DEF ConnStep, Register, RegisterState, Greet, ReadFrame, HandleAnswer, Remember,
              HandleState, EndLoop, Drop, DropState, transport
<1>5. CASE AdminStep \/ Rotate \/ Revoke \/ Stop \/ ExtensionStep \/ UNCHANGED vars
  BY <1>5 DEF AdminStep, RotateState, CloseTaken, StopState, Rotate, Revoke, Stop, TakeAway,
              ExtensionStep, LoseSocket, TakeCommand, Verify, Connect, Perform, Expire, vars,
              transport
<1>6. QED
  BY <1>1, <1>2, <1>3, <1>4, <1>5 DEF Next

\* A command is pending for a call that is about it.
Pending == \A m \in Cmd : pending[m] # NoCall => cmd[pending[m]] = m

LEMMA PendingStep ==
    ASSUME Inv, Pending, [Next]_vars
    PROVE  Pending'
<1> USE GatewayAssumption DEF Inv, Typed, TypedTransport, Pending
<1>1. \A c \in Call : cmd[c] \in Cmd => cmd'[c] = cmd[c]
  BY CmdStays
<1>2. CASE pending' = pending \/ ResetPending
  BY <1>1, <1>2 DEF ResetPending
<1>3. ASSUME NEW c \in Call, File(c), pending' = [pending EXCEPT ![cmd[c]] = c]
      PROVE  Pending'
  BY <1>1, <1>3 DEF Placed, File
<1>4. ASSUME NEW c \in Call, pending' = [pending EXCEPT ![cmd[c]] = NoCall]
      PROVE  Pending'
  BY <1>1, <1>4
<1>5. QED
  BY <1>2, <1>3, <1>4, PendingSteps

\* An error or an answer is signalled only to a call that waits.
LEMMA OutcomeSteps ==
    ASSUME Inv, [Next]_vars, NEW c \in Call
    PROVE  \/ outcome'[c] = outcome[c]
           \/ outcome'[c] = "reset" /\ \E m \in Cmd : pending[m] = c
           \/ \E k \in Conn : /\ target[k] = c /\ outcome'[c] = msg[k].type
                              /\ msg[k].type \in Report
<1> DEFINE Q == \/ outcome'[c] = outcome[c]
                \/ outcome'[c] = "reset" /\ \E m \in Cmd : pending[m] = c
                \/ \E k \in Conn : /\ target[k] = c /\ outcome'[c] = msg[k].type
                                   /\ msg[k].type \in Report
<1> USE DEF Inv, Typed, TypedTransport, TypedWire
<1>1. ASSUME ResetPending PROVE Q
  BY <1>1 DEF ResetPending
<1>2. ASSUME NEW k \in Conn, HandleAnswer(k) PROVE Q
  BY <1>2 DEF HandleAnswer, Signal
<1>3. ASSUME NEW d \in Call, CallStep(d) PROVE ResetPending \/ UNCHANGED outcome
  BY <1>3 DEF CallStep, StartCall, GetState, CheckState, Acquire, File, Send, Write, Wait, Cancel,
              WriteCancel, Finish, Drop, DropState, transport
<1>4. ASSUME NEW k \in Conn, ConnStep(k), ~HandleAnswer(k) PROVE ResetPending \/ UNCHANGED outcome
  BY <1>4 DEF ConnStep, Register, RegisterState, Greet, ReadFrame, Remember, HandleState, EndLoop,
              Drop, DropState, transport
<1>5. CASE AdminStep \/ Rotate \/ Revoke \/ Stop \/ ExtensionStep \/ UNCHANGED vars
  <2>1. ResetPending \/ UNCHANGED outcome
    BY <1>5 DEF AdminStep, RotateState, CloseTaken, StopState, Rotate, Revoke, Stop, TakeAway,
                ExtensionStep, LoseSocket, TakeCommand, Verify, Connect, Perform, Expire, vars,
                transport
  <2>2. QED
    BY <1>1, <2>1
<1>6. QED
  BY <1>1, <1>2, <1>3, <1>4, <1>5 DEF Next

-----------------------------------------------------------------------------
(* Permits.  The permits taken are counted by the calls between the two     *)
(* places where the semaphore is taken and given back; a command is pending *)
(* only for such a call, and without one the extension is not busy.         *)

Holding == {"filing", "send", "write", "wait", "cancel", "withdraw", "drop", "dropping", "finish"}

Holders == {c \in Call : pc[c] \in Holding}

Counted == IsFiniteSet(Holders) /\ used = Cardinality(Holders)

Attended == /\ \A m \in Cmd : pending[m] # NoCall => pending[m] \in Holders
            /\ mode = "busy" => Holders # {}

\* Holders come and go with the permits.
LEMMA HolderSteps ==
    ASSUME Inv, [Next]_vars
    PROVE  \/ Holders' = Holders /\ used' = used
           \/ \E c \in Call \ Holders :
                 Acquire(c) /\ Holders' = Holders \cup {c} /\ used' = used + 1
           \/ \E c \in Holders : Finish(c) /\ Holders' = Holders \ {c} /\ used' = used - 1
<1> USE GatewayAssumption DEF Inv, Typed, TypedServer, Thread, Holders, Holding, Goto
<1>1. ASSUME NEW c \in Call, Acquire(c)
      PROVE  \/ Holders' = Holders /\ used' = used
             \/ c \notin Holders /\ Holders' = Holders \cup {c} /\ used' = used + 1
  BY <1>1 DEF Acquire, File, Return
<1>2. ASSUME NEW c \in Call, Finish(c)
      PROVE  c \in Holders /\ Holders' = Holders \ {c} /\ used' = used - 1
  BY <1>2 DEF Finish, Return
<1>3. ASSUME NEW c \in Call, StartCall(c) \/ GetState(c) \/ CheckState(c)
      PROVE  Holders' = Holders /\ used' = used
  BY <1>3 DEF StartCall, GetState, CheckState, Return, transport
<1>4. ASSUME NEW c \in Call,
             File(c) \/ Send(c) \/ Write(c) \/ Wait(c) \/ Cancel(c) \/ WriteCancel(c)
      PROVE  Holders' = Holders /\ used' = used
  BY <1>4 DEF File, Send, Write, Wait, Cancel, WriteCancel, transport
<1>5. ASSUME NEW c \in Call, Drop(c) \/ DropState(c)
      PROVE  Holders' = Holders /\ used' = used
  BY <1>5 DEF Drop, DropState, After, transport
<1>6. ASSUME NEW k \in Conn, ConnStep(k) PROVE Holders' = Holders /\ used' = used
  <2>1. \A c \in Call : pc'[c] = pc[c]
    BY <1>6 DEF ConnStep, Register, RegisterState, Greet, ReadFrame, HandleAnswer, Remember,
                HandleState, EndLoop, Drop, DropState, After, BackToLoop
  <2>2. used' = used
    BY <1>6 DEF ConnStep, Register, RegisterState, Greet, ReadFrame, HandleAnswer, Remember,
                HandleState, EndLoop, Drop, DropState, transport
  <2>3. QED
    BY <2>1, <2>2
<1>7. ASSUME AdminStep \/ Rotate \/ Revoke \/ Stop PROVE Holders' = Holders /\ used' = used
  <2>1. \A c \in Call : pc'[c] = pc[c]
    BY <1>7 DEF AdminStep, RotateState, CloseTaken, StopState, Rotate, Revoke, Stop, TakeAway
  <2>2. used' = used
    BY <1>7 DEF AdminStep, RotateState, CloseTaken, StopState, Rotate, Revoke, Stop, TakeAway,
                transport
  <2>3. QED
    BY <2>1, <2>2
<1>8. ASSUME NEW k \in Conn, Connect(k) PROVE Holders' = Holders /\ used' = used
  BY <1>8 DEF Connect, transport
<1>9. CASE LoseSocket \/ TakeCommand \/ Verify
           \/ (\E m \in Cmd : Perform(m) \/ Expire(m)) \/ UNCHANGED vars
  <2>1. pc' = pc /\ used' = used
    BY <1>9 DEF LoseSocket, TakeCommand, Verify, Perform, Expire, vars, transport
  <2>2. QED
    BY <2>1
<1>10. QED
  BY <1>1, <1>2, <1>3, <1>4, <1>5, <1>6, <1>7, <1>8, <1>9 DEF Next, CallStep, ExtensionStep

LEMMA CountedStep ==
    ASSUME Inv, Counted, [Next]_vars
    PROVE  Counted'
<1>1. CASE Holders' = Holders /\ used' = used
  BY <1>1 DEF Counted
<1>2. ASSUME NEW c \in Call \ Holders, Holders' = Holders \cup {c}, used' = used + 1
      PROVE  Counted'
  BY <1>2, FS_AddElement DEF Counted
<1>3. ASSUME NEW c \in Holders, Holders' = Holders \ {c}, used' = used - 1
      PROVE  Counted'
  BY <1>3, FS_RemoveElement DEF Counted
<1>4. QED
  BY <1>1, <1>2, <1>3, HolderSteps

\* The state is busy from the first pending command to the last answer.
LEMMA BusySteps ==
    ASSUME Inv, [Next]_vars, mode' = "busy"
    PROVE  \/ mode = "busy" /\ \A c \in Call : Finish(c) => \E m \in Cmd : pending'[m] # NoCall
           \/ \E c \in Call : File(c)
<1> DEFINE Q == \/ mode = "busy" /\ \A c \in Call : Finish(c) => \E m \in Cmd : pending'[m] # NoCall
                \/ \E c \in Call : File(c)
<1> USE DEF Inv, Typed, TypedTransport
<1>1. ASSUME NEW c \in Call, Finish(c) PROVE mode = "busy" /\ \E m \in Cmd : pending'[m] # NoCall
  BY <1>1 DEF Finish, PopPending, Settled
<1>2. ASSUME NEW c \in Call, CallStep(c), ~File(c) PROVE mode = "busy"
  BY <1>2 DEF CallStep, StartCall, GetState, CheckState, Acquire, Send, Write, Wait, Cancel,
              WriteCancel, Finish, Drop, DropState, PopPending, Settled, transport
<1>3. ASSUME NEW k \in Conn, ConnStep(k) PROVE mode = "busy"
  BY <1>3 DEF ConnStep, Register, RegisterState, Greet, ReadFrame, HandleAnswer, Remember,
              HandleState, EndLoop, Drop, DropState, transport
<1>4. CASE AdminStep \/ Rotate \/ Revoke \/ Stop \/ ExtensionStep \/ UNCHANGED vars
  <2>1. mode = "busy"
    BY <1>4 DEF AdminStep, RotateState, CloseTaken, StopState, Rotate, Revoke, Stop, TakeAway,
                ExtensionStep, LoseSocket, TakeCommand, Verify, Connect, Perform, Expire, vars,
                transport
  <2>2. QED
    BY <1>1, <2>1
<1>5. QED
  BY <1>1, <1>2, <1>3, <1>4 DEF Next

LEMMA AttendedStep ==
    ASSUME Inv, Pending, Counted, Attended, [Next]_vars
    PROVE  Attended'
<1> USE DEF Inv, Typed, TypedTransport
<1>1. ASSUME NEW m \in Cmd, pending'[m] # NoCall PROVE pending'[m] \in Holders'
  <2>1. CASE pending'[m] = pending[m]
    <3>1. pending[m] \in Holders /\ cmd[pending[m]] = m
      BY <1>1, <2>1 DEF Attended, Pending
    <3>2. ASSUME NEW c \in Holders, Finish(c) PROVE c # pending[m]
      <4>1. cmd[c] \in Cmd
        BY <3>2 DEF Holders, Finish, Placed
      <4>2. pending'[cmd[c]] = NoCall
        BY <3>2, <4>1 DEF Finish, PopPending
      <4>3. QED
        BY <1>1, <2>1, <3>1, <4>2
    <3>3. QED
      BY <2>1, <3>1, <3>2, HolderSteps
  <2>2. ASSUME NEW c \in Call, File(c), pending' = [pending EXCEPT ![cmd[c]] = c],
               pending'[m] # pending[m]
        PROVE  pending'[m] \in Holders'
    <3>1. pending'[m] = c
      BY <2>2
    <3>2. pc'[c] = "send"
      BY <2>2 DEF File, Goto, TypedServer, Thread
    <3>3. QED
      BY <3>1, <3>2 DEF Holders, Holding
  <2>3. QED
    BY <1>1, <2>1, <2>2, PendingSteps DEF ResetPending
<1>2. ASSUME mode' = "busy" PROVE Holders' # {}
  <2>1. CASE mode = "busy" /\ \A c \in Call : Finish(c) => \E m \in Cmd : pending'[m] # NoCall
    <3>1. CASE \E c \in Call : Finish(c)
      BY <1>1, <2>1, <3>1
    <3>2. CASE \A c \in Call : ~Finish(c)
      BY <2>1, <3>2, HolderSteps DEF Attended, Holders
    <3>3. QED
      BY <3>1, <3>2
  <2>2. CASE \E c \in Call : File(c)
    <3>1. PICK c \in Call : File(c)
      BY <2>2
    <3>2. pc'[c] = "send"
      BY <3>1 DEF File, Goto, TypedServer, Thread
    <3>3. QED
      BY <3>2 DEF Holders, Holding
  <2>3. QED
    BY <1>2, <2>1, <2>2, BusySteps
<1>3. QED
  BY <1>1, <1>2 DEF Attended

LEMMA Attendance == Spec => [](Inv /\ Pending /\ Counted /\ Attended)
<1>1. Init => Counted
  <2>1. ASSUME Init PROVE Holders = {} /\ used = 0
    BY <2>1 DEF Init, Holders, Holding, Thread
  <2>2. QED
    BY <2>1, FS_EmptySet DEF Counted
<1>2. Init => Inv /\ Pending /\ Attended
  BY InvInit DEF Init, Pending, Attended
<1>3. Inv /\ Pending /\ Counted /\ Attended /\ [Next]_vars
      => (Inv /\ Pending /\ Counted /\ Attended)'
  BY InvStep, PendingStep, CountedStep, AttendedStep
<1>4. QED
  BY <1>1, <1>2, <1>3, PTL DEF Spec

\* Every variable keeps its type, and no permit is given back twice, for any
\* number of calls and connections.
THEOREM TypeCorrect == Spec => []TypeOK
<1>1. ASSUME Inv, Counted PROVE TypeOK
  <2>1. used \in 0..limit
    <3>1. used \in Nat
      BY <1>1, FS_CardinalityType DEF Counted
    <3>2. limit \in Int /\ used <= limit
      BY <1>1, GatewayAssumption DEF Inv, Typed, TypedServer, TypedTransport
    <3>3. QED
      BY <3>1, <3>2
  <2>2. Down \subseteq Frame
    BY DEF Down, Frame
  <2>3. down \in [Conn -> Seq(Frame)]
    BY <1>1, <2>2 DEF Inv, Typed, TypedWire
  <2>4. QED
    BY <1>1, <2>1, <2>3 DEF TypeOK, Inv, Typed, TypedServer, TypedTransport, TypedWire
<1>2. QED
  BY <1>1, Attendance, PTL

\* With no call under way nothing is pending, every permit is back and the
\* extension is not busy (the finally clause of execute_command).
THEOREM StateSettlesCorrect == Spec => []StateSettles
<1>1. ASSUME Inv, Counted, Attended PROVE StateSettles
  <2> SUFFICES ASSUME \A c \in Call : pc[c] \in {"idle", "state", "asking", "permit", "done"}
               PROVE  mode # "busy" /\ used = 0 /\ \A m \in Cmd : pending[m] = NoCall
    BY DEF StateSettles
  <2>1. Holders = {}
    BY DEF Holders, Holding
  <2>2. used = 0
    BY <1>1, <2>1, FS_EmptySet DEF Counted
  <2>3. QED
    BY <1>1, <2>1, <2>2 DEF Attended
<1>2. QED
  BY <1>1, Attendance, PTL

-----------------------------------------------------------------------------
(* Connections.  A thread that drops one that is not its own has found it   *)
(* closed or lost.                                                          *)

Ends ==
    /\ \A c \in Call : pc[c] = "drop" => on[c] \in lost \cup closed
    /\ \A k \in Conn : pc[k] \in {"reading", "handle", "remember", "drop", "dropping"} => on[k] = k
    /\ \A k \in Conn : pc[k] \in {"drop", "gone"} => k \in lost \cup closed

LEMMA EndsStep ==
    ASSUME Inv, Ends, [Next]_vars
    PROVE  Ends'
<1> USE GatewayAssumption DEF Inv, Typed, TypedServer, Thread, Ends, Goto
<1>1. ASSUME NEW c \in Call, CallStep(c) PROVE Ends'
  <2>1. lost' = lost
    BY <1>1 DEF CallStep, StartCall, GetState, CheckState, Acquire, File, Send, Write, Wait,
                Cancel, WriteCancel, Finish, Drop, DropState, wire, extension, world
  <2>2. CASE StartCall(c) \/ GetState(c) \/ CheckState(c) \/ Acquire(c) \/ File(c)
    BY <2>1, <2>2 DEF StartCall, GetState, CheckState, Acquire, File, Return, server
  <2>3. CASE Write(c)
    <3>1. on[c] \in Conn /\ UNCHANGED <<on, closed>>
      BY <2>3 DEF Write, Placed, server
    <3>2. pc'[c] = "drop" => on[c] \in lost \cup closed
      BY <2>3, <3>1 DEF Write, Refuses
    <3>3. QED
      BY <2>1, <2>3, <3>1, <3>2 DEF Write
  <2>4. CASE WriteCancel(c)
    <3>1. on[c] \in Conn /\ UNCHANGED <<on, closed>>
      BY <2>4 DEF WriteCancel, Placed, server
    <3>2. pc'[c] = "drop" => on[c] \in lost \cup closed
      BY <2>4, <3>1 DEF WriteCancel, Refuses
    <3>3. QED
      BY <2>1, <2>4, <3>1, <3>2 DEF WriteCancel
  <2>5. CASE Send(c) \/ Wait(c) \/ Cancel(c) \/ Finish(c)
    BY <2>1, <2>5 DEF Send, Wait, Cancel, Finish, Return, server
  <2>6. CASE Drop(c) \/ DropState(c)
    BY <2>1, <2>6 DEF Drop, DropState, After
  <2>7. QED
    BY <1>1, <2>2, <2>3, <2>4, <2>5, <2>6 DEF CallStep
<1>2. ASSUME NEW k \in Conn, ConnStep(k) PROVE Ends'
  <2>1. lost' = lost
    BY <1>2 DEF ConnStep, Register, RegisterState, Greet, ReadFrame, HandleAnswer, Remember,
                HandleState, EndLoop, Drop, DropState, wire, extension, world
  <2>2. CASE Register(k) \/ RegisterState(k) \/ Greet(k)
    BY <2>1, <2>2 DEF Register, RegisterState, Greet, server
  <2>3. CASE ReadFrame(k) \/ HandleAnswer(k) \/ Remember(k) \/ HandleState(k)
    BY <2>1, <2>3 DEF ReadFrame, HandleAnswer, Remember, HandleState, BackToLoop, server
  <2>4. CASE EndLoop(k) \/ Drop(k) \/ DropState(k)
    BY <2>1, <2>4 DEF EndLoop, Drop, DropState, After, server
  <2>5. QED
    BY <1>2, <2>2, <2>3, <2>4 DEF ConnStep
<1>3. CASE AdminStep \/ Rotate \/ Revoke \/ Stop
  BY <1>3 DEF AdminStep, RotateState, CloseTaken, StopState, Rotate, Revoke, Stop, TakeAway, server,
              wire, extension, world
<1>4. CASE ExtensionStep
  BY <1>4 DEF ExtensionStep, LoseSocket, TakeCommand, Verify, Connect, Perform, Expire, server
<1>5. CASE UNCHANGED vars
  BY <1>5 DEF vars, server, extension, world
<1>6. QED
  BY <1>1, <1>2, <1>3, <1>4, <1>5 DEF Next

\* Who changes the active connection.
LEMMA ActiveSteps ==
    ASSUME Inv, [Next]_vars
    PROVE  \/ active' = active
           \/ \E t \in Call \cup Conn : Drop(t) /\ pc[t] = "drop" /\ active = on[t]
                                        /\ pc'[t] = "dropping"
           \/ \E k \in Conn : /\ pc[k] = "handshake" /\ pc'[k] = "registering"
                              /\ active' = k /\ on'[k] = active
           \/ /\ pc[Admin] = "idle" /\ pc'[Admin] \in {"rotating", "closing", "stopping"}
              /\ pc'[Admin] = "rotating" \/ active = NoConn \/ active \in cut'
<1> USE GatewayAssumption DEF Inv, Typed, TypedServer, Thread, Goto
<1>1. ASSUME NEW c \in Call, CallStep(c), ~Drop(c) PROVE active' = active
  BY <1>1 DEF CallStep, StartCall, GetState, CheckState, Acquire, File, Send, Write, Wait, Cancel,
              WriteCancel, Finish, DropState, server
<1>2. ASSUME NEW k \in Conn, ConnStep(k), ~Drop(k), ~Register(k) PROVE active' = active
  BY <1>2 DEF ConnStep, RegisterState, Greet, ReadFrame, HandleAnswer, Remember, HandleState,
              EndLoop, DropState, server
<1>3. ASSUME NEW t \in Call \cup Conn, Drop(t)
      PROVE  active' = active \/ (pc[t] = "drop" /\ active = on[t] /\ pc'[t] = "dropping")
  BY <1>3 DEF Drop
<1>4. ASSUME NEW k \in Conn, Register(k)
      PROVE  \/ active' = active
             \/ pc[k] = "handshake" /\ pc'[k] = "registering" /\ active' = k /\ on'[k] = active
  BY <1>4 DEF Register
<1>5. ASSUME Rotate \/ Revoke \/ Stop
      PROVE  /\ pc[Admin] = "idle" /\ pc'[Admin] \in {"rotating", "closing", "stopping"}
             /\ pc'[Admin] = "rotating" \/ active = NoConn \/ active \in cut'
  BY <1>5 DEF Rotate, Revoke, Stop, TakeAway
<1>6. CASE AdminStep \/ ExtensionStep \/ UNCHANGED vars
  BY <1>6 DEF AdminStep, RotateState, CloseTaken, StopState, ExtensionStep, LoseSocket, TakeCommand,
              Verify, Connect, Perform, Expire, vars, server
<1>7. QED
  BY <1>1, <1>2, <1>3, <1>4, <1>5, <1>6 DEF Next

\* A late thread never takes the connection away from a new owner
\* (BrowserGatewayServer._unregister).
THEOREM OwnerKeptCorrect == Spec => OwnerKept
<1> DEFINE Kept == \A k \in Conn : active = k /\ active' # k =>
                      \/ k \in lost \cup closed
                      \/ active' # NoConn /\ pc[active'] = "handshake"
                      \/ pc'[Admin] # pc[Admin]
<1>1. Init => Ends
  BY GatewayAssumption DEF Init, Ends, Thread
<1>2. Inv /\ Ends /\ [Next]_vars => Ends'
  BY EndsStep
<1>3. ASSUME Inv, Ends, [Next]_vars PROVE Kept
  <2> SUFFICES ASSUME NEW k \in Conn, active = k, active' # k
               PROVE  \/ k \in lost \cup closed
                      \/ active' # NoConn /\ pc[active'] = "handshake"
                      \/ pc'[Admin] # pc[Admin]
    OBVIOUS
  <2>1. CASE \E t \in Call \cup Conn : pc[t] = "drop" /\ active = on[t]
    BY <1>3, <2>1 DEF Ends
  <2>2. CASE \E j \in Conn : pc[j] = "handshake" /\ active' = j
    BY <2>2, GatewayAssumption
  <2>3. QED
    BY <1>3, <2>1, <2>2, ActiveSteps
<1>4. QED
  BY <1>1, <1>2, <1>3, Invariant, PTL DEF Spec, OwnerKept

-----------------------------------------------------------------------------
(* Lost sockets.  A call that is about to write, or waits, without an       *)
(* answer is pending; the connection it chose is the active one, or was     *)
(* taken away by an operator who resets nothing, or a thread holds the      *)
(* server's lock and is about to reset every pending call.                  *)

Alone(c) == pc[c] \in {"send", "write", "wait"} /\ outcome[c] = "none" /\ ~Shared(c)

Waited == \A c \in Call : Alone(c) => pending[cmd[c]] = c

Resetting == \E t \in Thread : \/ pc[t] \in {"dropping", "rotating"}
                               \/ pc[t] = "registering" /\ on[t] # NoConn

Released == \A c \in Call :
    pc[c] \in {"write", "wait"} /\ Alone(c) => on[c] = active \/ on[c] \in cut \/ Resetting

\* A call that stands alone stood alone before, unless it has just been filed.
LEMMA AloneSteps ==
    ASSUME Inv, Inv', [Next]_vars, NEW c \in Call, Alone(c)'
    PROVE  /\ cmd[c] \in Cmd /\ cmd'[c] = cmd[c]
           /\ \A d \in Call \ {c} : cmd[d] # cmd[c]
           /\ Alone(c) \/ (File(c) /\ pc'[c] = "send")
<1> USE GatewayAssumption
<1>1. outcome[c] = "none"
  BY OutcomeSteps DEF Alone, Report
<1>2. \/ pc[c] \in {"send", "write", "wait"}
      \/ File(c) /\ pc'[c] = "send"
  <2> USE DEF Inv, Typed, TypedServer, Thread, Goto
  <2>1. pc'[c] \in {"send", "write", "wait"}
    BY DEF Alone
  <2>2. ASSUME CallStep(c), ~File(c) PROVE pc[c] \in {"send", "write", "wait"}
    BY <2>1, <2>2 DEF CallStep, StartCall, GetState, CheckState, Acquire, Send, Write, Wait,
                      Cancel, WriteCancel, Finish, Drop, DropState, After, Return
  <2>3. ASSUME File(c) PROVE pc'[c] = "send"
    BY <2>3 DEF File
  <2>4. ASSUME NEW d \in Call \ {c}, CallStep(d) PROVE pc[c] = pc'[c]
    BY <2>4 DEF CallStep, StartCall, GetState, CheckState, Acquire, File, Send, Write, Wait,
                Cancel, WriteCancel, Finish, Drop, DropState, After, Return
  <2>5. ASSUME NEW k \in Conn, ConnStep(k) PROVE pc[c] = pc'[c]
    BY <2>5 DEF ConnStep, Register, RegisterState, Greet, ReadFrame, HandleAnswer, Remember,
                HandleState, EndLoop, Drop, DropState, After, BackToLoop
  <2>6. ASSUME AdminStep \/ Rotate \/ Revoke \/ Stop PROVE pc[c] = pc'[c]
    BY <2>6 DEF AdminStep, RotateState, CloseTaken, StopState, Rotate, Revoke, Stop, TakeAway
  <2>7. ASSUME NEW k \in Conn, Connect(k) PROVE pc[c] = pc'[c]
    BY <2>7 DEF Connect
  <2>8. ASSUME LoseSocket \/ TakeCommand \/ Verify
               \/ (\E m \in Cmd : Perform(m) \/ Expire(m)) \/ UNCHANGED vars
        PROVE  pc[c] = pc'[c]
    BY <2>8 DEF LoseSocket, TakeCommand, Verify, Perform, Expire, vars
  <2>9. QED
    BY <2>1, <2>2, <2>3, <2>4, <2>5, <2>6, <2>7, <2>8 DEF Next, ExtensionStep
<1>3. cmd[c] \in Cmd
  BY <1>2 DEF Inv, Placed, File
<1>4. \A d \in Call : cmd[d] \in Cmd => cmd'[d] = cmd[d]
  BY CmdStays
<1>5. \A d \in Call \ {c} : cmd'[d] # cmd'[c]
  BY DEF Alone, Shared
<1>6. \A d \in Call \ {c} : cmd[d] # cmd[c]
  BY <1>3, <1>4, <1>5
<1>7. ~Shared(c)
  BY <1>6 DEF Shared
<1>8. QED
  BY <1>1, <1>2, <1>3, <1>4, <1>6, <1>7 DEF Alone

LEMMA WaitedStep ==
    ASSUME Inv, Inv', Waited, [Next]_vars
    PROVE  Waited'
<1> USE GatewayAssumption
<1> SUFFICES ASSUME NEW c \in Call, Alone(c)' PROVE pending'[cmd'[c]] = c
  BY DEF Waited
<1>1. /\ cmd[c] \in Cmd /\ cmd'[c] = cmd[c]
      /\ \A d \in Call \ {c} : cmd[d] # cmd[c]
      /\ Alone(c) \/ (File(c) /\ pc'[c] = "send")
  BY AloneSteps
<1> USE DEF Inv, Typed, TypedTransport
<1>2. CASE File(c) /\ pc'[c] = "send"
  BY <1>1, <1>2 DEF File
<1>3. CASE Alone(c)
  <2>1. pending[cmd[c]] = c
    BY <1>3 DEF Waited
  <2>2. CASE ResetPending
    BY <1>1, <2>1, <2>2 DEF ResetPending, Alone
  <2>3. ASSUME NEW d \in Call, File(d), pending' = [pending EXCEPT ![cmd[d]] = d]
        PROVE  pending'[cmd[c]] = c
    BY <1>1, <2>1, <2>3
  <2>4. ASSUME NEW d \in Call, Wait(d) \/ Finish(d), pending' = [pending EXCEPT ![cmd[d]] = NoCall]
        PROVE  pending'[cmd[c]] = c
    <3>1. CASE d = c
      BY <2>4, <3>1 DEF Wait, Finish, Return, Goto, Alone, TypedServer, Thread
    <3>2. CASE d # c
      BY <1>1, <2>1, <2>4, <3>2
    <3>3. QED
      BY <3>1, <3>2
  <2>5. QED
    BY <1>1, <2>1, <2>2, <2>3, <2>4, PendingSteps
<1>4. QED
  BY <1>1, <1>2, <1>3

\* A thread that has taken the connection away resets what is pending.
LEMMA ResettingSteps ==
    ASSUME Inv, Resetting, [Next]_vars
    PROVE  Resetting' \/ ResetPending
<1> USE GatewayAssumption DEF Inv, Typed, TypedServer, Thread, Goto
<1> SUFFICES ASSUME NEW t \in Thread,
                    pc[t] \in {"dropping", "rotating"} \/ (pc[t] = "registering" /\ on[t] # NoConn),
                    ~ResetPending
             PROVE  pc'[t] = pc[t] /\ on'[t] = on[t]
  BY DEF Resetting
<1>1. ASSUME NEW c \in Call, CallStep(c) PROVE pc'[t] = pc[t] /\ on'[t] = on[t]
  <2>1. CASE c = t
    BY <1>1, <2>1 DEF CallStep, StartCall, GetState, CheckState, Acquire, File, Send, Write, Wait,
                      Cancel, WriteCancel, Finish, Drop, DropState
  <2>2. CASE c # t
    BY <1>1, <2>2 DEF CallStep, StartCall, GetState, CheckState, Acquire, File, Send, Write, Wait,
                      Cancel, WriteCancel, Finish, Drop, DropState, After, Return
  <2>3. QED
    BY <2>1, <2>2
<1>2. ASSUME NEW k \in Conn, ConnStep(k) PROVE pc'[t] = pc[t] /\ on'[t] = on[t]
  <2>1. CASE k = t
    BY <1>2, <2>1 DEF ConnStep, Register, RegisterState, Greet, ReadFrame, HandleAnswer, Remember,
                      HandleState, EndLoop, Drop, DropState
  <2>2. CASE k # t
    BY <1>2, <2>2 DEF ConnStep, Register, RegisterState, Greet, ReadFrame, HandleAnswer, Remember,
                      HandleState, EndLoop, Drop, DropState, After, BackToLoop
  <2>3. QED
    BY <2>1, <2>2
<1>3. ASSUME AdminStep \/ Rotate \/ Revoke \/ Stop PROVE pc'[t] = pc[t] /\ on'[t] = on[t]
  BY <1>3 DEF AdminStep, RotateState, CloseTaken, StopState, Rotate, Revoke, Stop, TakeAway
<1>4. ASSUME NEW k \in Conn, Connect(k) PROVE pc'[t] = pc[t] /\ on'[t] = on[t]
  BY <1>4 DEF Connect
<1>5. CASE LoseSocket \/ TakeCommand \/ Verify
           \/ (\E m \in Cmd : Perform(m) \/ Expire(m)) \/ UNCHANGED vars
  BY <1>5 DEF LoseSocket, TakeCommand, Verify, Perform, Expire, vars
<1>6. QED
  BY <1>1, <1>2, <1>3, <1>4, <1>5 DEF Next, ExtensionStep

\* A call chooses its connection once, and cut connections stay cut.
LEMMA ChoiceSteps ==
    ASSUME Inv, [Next]_vars, NEW c \in Call
    PROVE  /\ cut \subseteq cut'
           /\ pc[c] = "send" /\ pc'[c] \in {"write", "wait"} => on'[c] = active /\ active' = active
           /\ pc[c] \in {"write", "wait"} /\ pc'[c] \in {"write", "wait"} => on'[c] = on[c]
<1> USE GatewayAssumption DEF Inv, Typed, TypedServer, Thread, Goto
<1>1. cut \subseteq cut'
  <2>1. ASSUME NEW d \in Call, CallStep(d) PROVE cut' = cut
    BY <2>1 DEF CallStep, StartCall, GetState, CheckState, Acquire, File, Send, Write, Wait,
                Cancel, WriteCancel, Finish, Drop, DropState, server
  <2>2. ASSUME NEW k \in Conn, ConnStep(k) PROVE cut' = cut
    BY <2>2 DEF ConnStep, Register, RegisterState, Greet, ReadFrame, HandleAnswer, Remember,
                HandleState, EndLoop, Drop, DropState, server
  <2>3. CASE AdminStep \/ Rotate \/ Revoke \/ Stop \/ ExtensionStep \/ UNCHANGED vars
    BY <2>3 DEF AdminStep, RotateState, CloseTaken, StopState, Rotate, Revoke, Stop, TakeAway,
                ExtensionStep, LoseSocket, TakeCommand, Verify, Connect, Perform, Expire, vars,
                server
  <2>4. QED
    BY <2>1, <2>2, <2>3 DEF Next
<1> DEFINE Q == /\ pc[c] = "send" /\ pc'[c] \in {"write", "wait"}
                   => on'[c] = active /\ active' = active
                /\ pc[c] \in {"write", "wait"} /\ pc'[c] \in {"write", "wait"} => on'[c] = on[c]
<1>2. ASSUME CallStep(c) PROVE Q
  BY <1>2 DEF CallStep, StartCall, GetState, CheckState, Acquire, File, Send, Write, Wait, Cancel,
              WriteCancel, Finish, Drop, DropState, server
<1>3. ASSUME NEW d \in Call \ {c}, CallStep(d) PROVE pc'[c] = pc[c] /\ on'[c] = on[c]
  BY <1>3 DEF CallStep, StartCall, GetState, CheckState, Acquire, File, Send, Write, Wait, Cancel,
              WriteCancel, Finish, Drop, DropState, After, Return
<1>4. ASSUME NEW k \in Conn, ConnStep(k) PROVE pc'[c] = pc[c] /\ on'[c] = on[c]
  BY <1>4 DEF ConnStep, Register, RegisterState, Greet, ReadFrame, HandleAnswer, Remember,
              HandleState, EndLoop, Drop, DropState, After, BackToLoop
<1>5. ASSUME AdminStep \/ Rotate \/ Revoke \/ Stop PROVE pc'[c] = pc[c] /\ on'[c] = on[c]
  BY <1>5 DEF AdminStep, RotateState, CloseTaken, StopState, Rotate, Revoke, Stop, TakeAway
<1>6. ASSUME NEW k \in Conn, Connect(k) PROVE pc'[c] = pc[c] /\ on'[c] = on[c]
  BY <1>6 DEF Connect
<1>7. ASSUME LoseSocket \/ TakeCommand \/ Verify
             \/ (\E m \in Cmd : Perform(m) \/ Expire(m)) \/ UNCHANGED vars
      PROVE  pc'[c] = pc[c] /\ on'[c] = on[c]
  BY <1>7 DEF LoseSocket, TakeCommand, Verify, Perform, Expire, vars
<1>8. Q
  BY <1>2, <1>3, <1>4, <1>5, <1>6, <1>7 DEF Next, ExtensionStep
<1>9. QED
  BY <1>1, <1>8

LEMMA ReleasedStep ==
    ASSUME Inv, Inv', Waited, Released, [Next]_vars
    PROVE  Released'
<1> USE GatewayAssumption
<1> SUFFICES ASSUME NEW c \in Call, pc'[c] \in {"write", "wait"}, Alone(c)'
             PROVE  on'[c] = active' \/ on'[c] \in cut' \/ Resetting'
  BY DEF Released
<1>1. Alone(c) /\ cmd[c] \in Cmd
  BY AloneSteps
<1>2. CASE pc[c] = "send"
  BY <1>2, ChoiceSteps
<1>3. CASE pc[c] # "send"
  <2>1. pc[c] \in {"write", "wait"} /\ on'[c] = on[c] /\ on[c] \in Conn
    BY <1>1, <1>3, ChoiceSteps DEF Alone, Inv, Placed, Thread
  <2>2. CASE on[c] \in cut
    BY <2>1, <2>2, ChoiceSteps
  <2>3. CASE Resetting
    <3>1. CASE ResetPending
      <4>1. pending[cmd[c]] = c
        BY <1>1 DEF Waited
      <4>2. outcome'[c] = "reset"
        BY <1>1, <3>1, <4>1 DEF ResetPending
      <4>3. QED
        BY <4>2 DEF Alone
    <3>2. QED
      BY <2>3, <3>1, ResettingSteps
  <2>4. CASE on[c] = active
    <3>1. CASE active' = active
      BY <2>1, <2>4, <3>1
    <3>2. CASE \E t \in Call \cup Conn : pc'[t] = "dropping"
      BY <3>2 DEF Resetting, Thread
    <3>3. CASE \E k \in Conn : pc'[k] = "registering" /\ on'[k] = active
      BY <2>1, <2>4, <3>3 DEF Resetting, Thread
    <3>4. CASE pc'[Admin] = "rotating" \/ active = NoConn \/ active \in cut'
      BY <2>1, <2>4, <3>4 DEF Resetting, Thread
    <3>5. QED
      BY <3>1, <3>2, <3>3, <3>4, ActiveSteps
  <2>5. QED
    BY <1>1, <2>1, <2>2, <2>3, <2>4 DEF Released
<1>4. QED
  BY <1>2, <1>3

\* "Socket loss must release the caller immediately": whoever waits without an
\* answer has chosen a connection that is still the active one, or one that was
\* revoked or stopped (reset_pending, in _register, _unregister and rotate_token).
THEOREM SocketLossReleasesCorrect == Spec => []SocketLossReleases
<1>1. Init => Waited /\ Released
  BY DEF Init, Waited, Released, Alone, Thread
<1>2. Inv /\ Inv' /\ Waited /\ Released /\ [Next]_vars => (Waited /\ Released)'
  BY WaitedStep, ReleasedStep
<1>3. ASSUME Inv, Released PROVE SocketLossReleases
  <2>1. ServerFree => ~Resetting
    BY DEF ServerFree, ServerHeld, Resetting
  <2>2. QED
    BY <1>3, <2>1 DEF SocketLossReleases, Released, Alone
<1>4. QED
  BY <1>1, <1>2, <1>3, Invariant, PTL DEF Spec
-----------------------------------------------------------------------------
(* The two locks.                                                          *)

\* Each lock has one holder, though its critical sections span several steps.
Exclusive ==
    \A t, u \in Thread :
        \/ pc[t] \in ServerHeld /\ pc[u] \in ServerHeld
        \/ pc[t] \in TransportHeld /\ pc[u] \in TransportHeld
        => t = u

\* A thread enters a critical section when nobody is in one of the same lock, leaves it
\* when nobody holds the other lock; a call is answered under one of the two, but for
\* those that Escape.
Escape == {"idle", "permit"}

Moves(t, label) ==
    /\ Goto(t, label)
    /\ pc[t] \in ServerHeld \/ label \in TransportHeld => TransportFree
    /\ pc[t] \in TransportHeld \/ label \in ServerHeld => ServerFree
    /\ t \in Call /\ label = "done" => ServerFree \/ TransportFree \/ pc[t] \in Escape
    /\ t \in Call /\ label \in Escape => ServerFree

LEMMA LockSteps ==
    ASSUME [Next]_vars
    PROVE  UNCHANGED pc \/ \E t \in Thread, label \in Label : Moves(t, label)
<1> USE GatewayAssumption
<1> USE DEF Thread, ServerHeld, TransportHeld, Label, Moves, Escape
<1>1. ASSUME NEW c \in Call, CallStep(c)
      PROVE  \E label \in Label : Moves(c, label)
  <2>1. CASE StartCall(c) \/ GetState(c) \/ CheckState(c) \/ Acquire(c) \/ File(c) \/ Finish(c)
    BY <2>1 DEF StartCall, GetState, CheckState, Acquire, File, Finish, Return
  <2>2. CASE Send(c) \/ Write(c) \/ Wait(c) \/ Cancel(c) \/ WriteCancel(c)
    BY <2>2 DEF Send, Write, Wait, Cancel, WriteCancel
  <2>3. CASE Drop(c) \/ DropState(c)
    BY <2>3 DEF Drop, DropState, After
  <2>4. QED
    BY <1>1, <2>1, <2>2, <2>3 DEF CallStep
<1>2. ASSUME NEW k \in Conn, ConnStep(k)
      PROVE  \E label \in Label : Moves(k, label)
  <2>1. CASE Register(k) \/ RegisterState(k) \/ Greet(k) \/ EndLoop(k) \/ ReadFrame(k)
    BY <2>1 DEF Register, RegisterState, Greet, EndLoop, ReadFrame
  <2>2. CASE HandleAnswer(k) \/ Remember(k) \/ HandleState(k)
    BY <2>2 DEF HandleAnswer, Remember, HandleState, BackToLoop
  <2>3. CASE Drop(k) \/ DropState(k)
    BY <2>3 DEF Drop, DropState, After
  <2>4. QED
    BY <1>2, <2>1, <2>2, <2>3 DEF ConnStep
<1>3. CASE AdminStep \/ Rotate \/ Revoke \/ Stop
  <2>1. \E label \in Label : Moves(Admin, label)
    BY <1>3 DEF AdminStep, RotateState, CloseTaken, StopState, Rotate, Revoke, Stop, TakeAway
  <2>2. QED
    BY <2>1
<1>4. CASE ExtensionStep
  <2>1. UNCHANGED pc \/ \E k \in Conn : pc[k] = "idle" /\ Goto(k, "handshake")
    BY <1>4 DEF ExtensionStep, LoseSocket, TakeCommand, Verify, Perform, Expire, Connect
  <2>2. QED
    BY <2>1
<1>5. CASE UNCHANGED vars
  BY <1>5 DEF vars
<1>6. QED
  <2>1. ASSUME NEW t \in Call \cup Conn, NEW label \in Label, Moves(t, label)
        PROVE  \E u \in Thread, l \in Label : Moves(u, l)
    BY <2>1 DEF Thread
  <2>2. QED
    BY <1>1, <1>2, <1>3, <1>4, <1>5, <2>1 DEF Next

\* No two threads are in the critical sections of one lock, the server's or the
\* transport's, though they lie in different functions of two modules.
THEOREM LocksExclusive == Spec => []Exclusive
<1>1. Init => Exclusive
  BY DEF Init, Exclusive, ServerHeld, TransportHeld
<1>2. Inv /\ Exclusive /\ [Next]_vars => Exclusive'
  <2> SUFFICES ASSUME Inv, Exclusive, [Next]_vars, NEW t \in Thread, NEW u \in Thread, t # u
               PROVE  /\ ~(pc'[t] \in ServerHeld /\ pc'[u] \in ServerHeld)
                      /\ ~(pc'[t] \in TransportHeld /\ pc'[u] \in TransportHeld)
    BY DEF Exclusive, ServerHeld, TransportHeld
  <2>1. CASE UNCHANGED pc
    BY <2>1 DEF Exclusive
  <2>2. ASSUME NEW w \in Thread, NEW label \in Label, Moves(w, label)
        PROVE  /\ ~(pc'[t] \in ServerHeld /\ pc'[u] \in ServerHeld)
               /\ ~(pc'[t] \in TransportHeld /\ pc'[u] \in TransportHeld)
    <3>1. \A x \in Thread : pc'[x] = IF x = w THEN label ELSE pc[x]
      BY <2>2 DEF Moves, Goto, Inv, Typed, TypedServer
    <3>2. QED
      BY <2>2, <3>1 DEF Moves, Exclusive, ServerFree, TransportFree
  <2>3. QED
    BY <2>1, <2>2, LockSteps
<1>3. QED
  BY <1>1, <1>2, Invariant, PTL DEF Spec

\* A call that can return without a lock, or has returned.
Out(c) == pc[c] \in Escape \cup {"done"}

\* Inside the cycle the holders stay where they are, and no call gets out.
LEMMA CycleStep ==
    ASSUME Inv, LockCycle, [Next]_vars
    PROVE  LockCycle' /\ \A c \in Call : Out(c)' => Out(c)
<1>1. PICK t \in Thread : pc[t] \in ServerHeld
  BY DEF LockCycle
<1>2. PICK u \in Thread : pc[u] \in TransportHeld
  BY DEF LockCycle
<1>3. ~ServerFree /\ ~TransportFree
  BY <1>1, <1>2 DEF ServerFree, TransportFree
<1>4. /\ pc'[t] = pc[t] /\ pc'[u] = pc[u]
      /\ \A c \in Call : Out(c)' => Out(c)
  <2>1. CASE UNCHANGED pc
    BY <2>1 DEF Out
  <2>2. ASSUME NEW w \in Thread, NEW label \in Label, Moves(w, label)
        PROVE  /\ pc'[t] = pc[t] /\ pc'[u] = pc[u]
               /\ \A c \in Call : Out(c)' => Out(c)
    <3>1. \A x \in Thread : pc'[x] = IF x = w THEN label ELSE pc[x]
      BY <2>2 DEF Moves, Goto, Inv, Typed, TypedServer
    <3>2. w # t /\ w # u
      BY <1>1, <1>2, <1>3, <2>2 DEF Moves
    <3>3. w \in Call /\ label \in Escape \cup {"done"} => pc[w] \in Escape
      BY <1>3, <2>2 DEF Moves
    <3>4. QED
      BY <3>1, <3>2, <3>3 DEF Thread, Out
  <2>3. QED
    BY <2>1, <2>2, LockSteps
<1>5. QED
  BY <1>1, <1>2, <1>4 DEF LockCycle, ServerHeld, TransportHeld

\* The two locks taken in opposite orders are never released again: no deadline of a
\* call, no lost socket and no operator gets a thread out.
THEOREM CycleForEver == Spec => [](LockCycle => []LockCycle)
<1>1. Inv /\ LockCycle /\ [Next]_vars => LockCycle'
  BY CycleStep
<1>2. QED
  BY <1>1, Invariant, PTL DEF Spec

\* From then on a call of execute_command returns only if its answer is in the cache,
\* or it waited for a permit and got none: one that holds a permit, and so keeps it
\* from the others, or has asked for the state, never does, whatever deadline it has.
THEOREM CycleKeepsCalls ==
    ASSUME NEW c \in Call
    PROVE  Spec => [](LockCycle /\ ~Out(c) => [](~Out(c)))
<1>1. Inv /\ LockCycle /\ ~Out(c) /\ [Next]_vars => (LockCycle /\ ~Out(c))'
  BY CycleStep
<1>2. QED
  BY <1>1, Invariant, PTL DEF Spec

-----------------------------------------------------------------------------
(* Answers.  What the gateway keeps of a command anywhere (a frame on its   *)
(* way, one being handled, the cache, what a waiting call was signalled,    *)
(* what it will return) is something the extension did; and a call is       *)
(* signalled about its own command.                                         *)

\* A caller who is told this of command m is told the truth.
True(told, m) ==
    /\ told = "ok" => m \in done.performed
    /\ told = "failed" => m \in done.refused
    /\ told = "cancelled" => m \in done.withdrawn

TrueFrames ==
    /\ \A k \in Conn : \A i \in 1..Len(up[k]) : True(up[k][i].type, up[k][i].cmd)
    /\ \A k \in Conn : True(msg[k].type, msg[k].cmd)

TrueCalls ==
    /\ \A m \in Cmd : True(cache[m], m)
    /\ \A c \in Call : True(outcome[c], cmd[c]) /\ True(answer[c], cmd[c])

Found == \A k \in Conn : target[k] # NoCall => cmd[target[k]] = msg[k].cmd /\ msg[k].cmd \in Cmd

Fresh == \A c \in Call : pc[c] = "idle" => answer[c] = "none" /\ outcome[c] = "none"

\* What the extension has done stays done.
LEMMA DoneGrows ==
    ASSUME Inv, [Next]_vars
    PROVE  /\ done.performed \subseteq done'.performed
           /\ done.refused \subseteq done'.refused
           /\ done.withdrawn \subseteq done'.withdrawn
<1> USE DEF Inv, Typed, TypedWire
<1>1. CASE UNCHANGED done
  BY <1>1
<1>2. ASSUME NEW m \in Cmd, Perform(m)
      PROVE  /\ done.performed \subseteq done'.performed
             /\ done.refused \subseteq done'.refused
             /\ done.withdrawn \subseteq done'.withdrawn
  BY <1>2 DEF Perform
<1>3. CASE TakeCommand
  BY <1>3 DEF TakeCommand
<1>4. ASSUME NEW c \in Call, CallStep(c) PROVE UNCHANGED done
  BY <1>4 DEF CallStep, StartCall, GetState, CheckState, Acquire, File, Send, Write, Wait, Cancel,
              WriteCancel, Finish, Drop, DropState, wire, extension, world
<1>5. ASSUME NEW k \in Conn, ConnStep(k) PROVE UNCHANGED done
  BY <1>5 DEF ConnStep, Register, RegisterState, Greet, ReadFrame, HandleAnswer, Remember,
              HandleState, EndLoop, Drop, DropState, wire, extension, world
<1>6. CASE AdminStep \/ Rotate \/ Revoke \/ Stop \/ LoseSocket \/ Verify
           \/ (\E k \in Conn : Connect(k)) \/ (\E m \in Cmd : Expire(m)) \/ UNCHANGED vars
  BY <1>6 DEF AdminStep, RotateState, CloseTaken, StopState, Rotate, Revoke, Stop, TakeAway,
              LoseSocket, Verify, Connect, Expire, vars, wire, extension, world
<1>7. QED
  BY <1>1, <1>2, <1>3, <1>4, <1>5, <1>6 DEF Next, ExtensionStep

\* A frame that is handled, and the call it found, stay together.
LEMMA FoundSteps ==
    ASSUME Inv, [Next]_vars, NEW k \in Conn
    PROVE  \/ msg'[k] = msg[k] /\ target'[k] = target[k]
           \/ target'[k] = NoCall
           \/ /\ target'[k] = pending[msg'[k].cmd] /\ msg'[k].cmd \in Cmd
<1> USE DEF Inv, Typed, TypedWire
<1>1. ASSUME NEW c \in Call, CallStep(c) PROVE UNCHANGED frames
  BY <1>1 DEF CallStep, StartCall, GetState, CheckState, Acquire, File, Send, Write, Wait, Cancel,
              WriteCancel, Finish, Drop, DropState
<1>2. ASSUME NEW j \in Conn, ReadFrame(j)
      PROVE  \/ msg'[k] = msg[k] /\ target'[k] = target[k]
             \/ target'[k] = NoCall
             \/ target'[k] = pending[msg'[k].cmd] /\ msg'[k].cmd \in Cmd
  <2>1. Head(up[j]) \in Frame
    BY <1>2 DEF ReadFrame
  <2>2. Head(up[j]).cmd # NoCmd => Head(up[j]).cmd \in Cmd
    BY <2>1 DEF Frame
  <2>3. QED
    BY <1>2, <2>2 DEF ReadFrame
<1>3. ASSUME NEW j \in Conn, HandleAnswer(j) \/ Remember(j) \/ HandleState(j)
      PROVE  \/ msg'[k] = msg[k] /\ target'[k] = target[k]
             \/ target'[k] = NoCall
  BY <1>3 DEF HandleAnswer, Remember, HandleState, BackToLoop
<1>4. ASSUME NEW j \in Conn, ConnStep(j), ~ReadFrame(j), ~HandleAnswer(j), ~Remember(j),
             ~HandleState(j)
      PROVE  UNCHANGED frames
  BY <1>4 DEF ConnStep, Register, RegisterState, Greet, EndLoop, Drop, DropState
<1>5. CASE AdminStep \/ Rotate \/ Revoke \/ Stop \/ ExtensionStep \/ UNCHANGED vars
  BY <1>5 DEF AdminStep, RotateState, CloseTaken, StopState, Rotate, Revoke, Stop, TakeAway,
              ExtensionStep, LoseSocket, TakeCommand, Verify, Connect, Perform, Expire, vars, frames
<1>6. QED
  BY <1>1, <1>2, <1>3, <1>4, <1>5 DEF Next, frames

LEMMA FoundStep ==
    ASSUME Inv, Pending, Found, [Next]_vars
    PROVE  Found'
<1> USE GatewayAssumption DEF Inv, Typed, TypedTransport, TypedWire
<1>1. \A c \in Call : cmd[c] \in Cmd => cmd'[c] = cmd[c]
  BY CmdStays
<1> SUFFICES ASSUME NEW k \in Conn, target'[k] # NoCall
             PROVE  cmd'[target'[k]] = msg'[k].cmd /\ msg'[k].cmd \in Cmd
  BY DEF Found
<1>2. CASE msg'[k] = msg[k] /\ target'[k] = target[k]
  BY <1>1, <1>2 DEF Found
<1>3. CASE target'[k] = pending[msg'[k].cmd] /\ msg'[k].cmd \in Cmd
  BY <1>1, <1>3 DEF Pending
<1>4. QED
  BY <1>2, <1>3, FoundSteps

\* What a call is told it is told at once, on a deadline or a failure, or
\* because it was signalled.
LEMMA AnswerSteps ==
    ASSUME Inv, [Next]_vars, NEW c \in Call
    PROVE  \/ answer'[c] = answer[c]
           \/ StartCall(c) /\ \E m \in Cmd : cmd'[c] = m /\ answer'[c] = cache[m]
           \/ answer'[c] \notin Report
           \/ answer'[c] = outcome[c] /\ cmd' = cmd
<1> DEFINE Q == \/ answer'[c] = answer[c]
                \/ StartCall(c) /\ \E m \in Cmd : cmd'[c] = m /\ answer'[c] = cache[m]
                \/ answer'[c] \notin Report
                \/ answer'[c] = outcome[c] /\ cmd' = cmd
<1> USE DEF Inv, Typed, TypedTransport, Report
<1>1. ASSUME NEW d \in Call, StartCall(d) PROVE Q
  BY <1>1 DEF StartCall, Return
<1>2. ASSUME NEW d \in Call,
             \/ GetState(d) \/ CheckState(d) \/ Acquire(d) \/ File(d)
             \/ Send(d) \/ Write(d)
      PROVE  Q
  BY <1>2 DEF GetState, CheckState, Acquire, File, Send, Write, Return, calls
<1>3. ASSUME NEW d \in Call,
             \/ Wait(d) \/ Cancel(d) \/ WriteCancel(d) \/ Finish(d)
             \/ Drop(d) \/ DropState(d)
      PROVE  Q
  BY <1>3 DEF Wait, Cancel, WriteCancel, Finish, Drop, DropState, Return, calls
<1>4. ASSUME NEW k \in Conn, ConnStep(k) PROVE answer' = answer
  BY <1>4 DEF ConnStep, Register, RegisterState, Greet, ReadFrame, HandleAnswer, Remember,
              HandleState, EndLoop, Drop, DropState, calls
<1>5. CASE AdminStep \/ Rotate \/ Revoke \/ Stop \/ ExtensionStep \/ UNCHANGED vars
  BY <1>5 DEF AdminStep, RotateState, CloseTaken, StopState, Rotate, Revoke, Stop, TakeAway,
              ExtensionStep, LoseSocket, TakeCommand, Verify, Connect, Perform, Expire, vars, calls
<1>6. QED
  BY <1>1, <1>2, <1>3, <1>4, <1>5 DEF Next, CallStep

\* The cache keeps answers that were handled.
LEMMA CacheSteps ==
    ASSUME Inv, [Next]_vars, NEW m \in Cmd
    PROVE  cache'[m] = cache[m] \/ \E k \in Conn : msg[k].cmd = m /\ cache'[m] = msg[k].type
<1> USE DEF Inv, Typed, TypedTransport
<1>1. ASSUME NEW c \in Call, CallStep(c) PROVE cache' = cache
  BY <1>1 DEF CallStep, StartCall, GetState, CheckState, Acquire, File, Send, Write, Wait, Cancel,
              WriteCancel, Finish, Drop, DropState, transport
<1>2. ASSUME NEW k \in Conn, Remember(k)
      PROVE  cache'[m] = cache[m] \/ (msg[k].cmd = m /\ cache'[m] = msg[k].type)
  BY <1>2 DEF Remember
<1>3. ASSUME NEW k \in Conn, ConnStep(k), ~Remember(k) PROVE cache' = cache
  BY <1>3 DEF ConnStep, Register, RegisterState, Greet, ReadFrame, HandleAnswer, HandleState,
              EndLoop, Drop, DropState, transport
<1>4. CASE AdminStep \/ Rotate \/ Revoke \/ Stop \/ ExtensionStep \/ UNCHANGED vars
  BY <1>4 DEF AdminStep, RotateState, CloseTaken, StopState, Rotate, Revoke, Stop, TakeAway,
              ExtensionStep, LoseSocket, TakeCommand, Verify, Connect, Perform, Expire, vars,
              transport
<1>5. QED
  BY <1>1, <1>2, <1>3, <1>4 DEF Next

\* A call that has not begun has nothing.
LEMMA FreshStep ==
    ASSUME Inv, Pending, Found, Fresh, [Next]_vars
    PROVE  Fresh'
<1> USE GatewayAssumption
<1> SUFFICES ASSUME NEW c \in Call, pc'[c] = "idle"
             PROVE  answer'[c] = "none" /\ outcome'[c] = "none"
  BY DEF Fresh
<1>1. pc[c] = "idle" /\ ~CallStep(c)
  <2> USE DEF Inv, Typed, TypedServer, Thread, Goto
  <2>1. ASSUME CallStep(c) PROVE FALSE
    BY <2>1 DEF CallStep, StartCall, GetState, CheckState, Acquire, File, Send, Write, Wait,
                Cancel, WriteCancel, Finish, Drop, DropState, After, Return
  <2>2. ASSUME NEW d \in Call, d # c, CallStep(d) PROVE pc[c] = "idle"
    BY <2>2 DEF CallStep, StartCall, GetState, CheckState, Acquire, File, Send, Write, Wait,
                Cancel, WriteCancel, Finish, Drop, DropState, After, Return
  <2>3. ASSUME NEW k \in Conn, ConnStep(k) PROVE pc[c] = "idle"
    BY <2>3 DEF ConnStep, Register, RegisterState, Greet, ReadFrame, HandleAnswer, Remember,
                HandleState, EndLoop, Drop, DropState, After, BackToLoop
  <2>4. ASSUME AdminStep \/ Rotate \/ Revoke \/ Stop PROVE pc[c] = "idle"
    BY <2>4 DEF AdminStep, RotateState, CloseTaken, StopState, Rotate, Revoke, Stop, TakeAway
  <2>5. ASSUME NEW k \in Conn, Connect(k) PROVE pc[c] = "idle"
    BY <2>5 DEF Connect
  <2>6. ASSUME LoseSocket \/ TakeCommand \/ Verify
               \/ (\E m \in Cmd : Perform(m) \/ Expire(m)) \/ UNCHANGED vars
        PROVE  pc[c] = "idle"
    BY <2>6 DEF LoseSocket, TakeCommand, Verify, Perform, Expire, vars
  <2>7. QED
    BY <2>1, <2>2, <2>3, <2>4, <2>5, <2>6 DEF Next, ExtensionStep
<1>2. cmd[c] \notin Cmd
  BY <1>1 DEF Inv, Placed
<1>3. outcome'[c] = outcome[c]
  BY <1>2, OutcomeSteps DEF Pending, Found
<1>4. answer'[c] = answer[c]
  <2>1. ASSUME NEW d \in Call, d # c, CallStep(d) PROVE answer'[c] = answer[c]
    BY <2>1 DEF CallStep, StartCall, GetState, CheckState, Acquire, File, Send, Write, Wait,
                Cancel, WriteCancel, Finish, Drop, DropState, Return, calls, Inv, Typed,
                TypedTransport
  <2>2. ASSUME NEW k \in Conn, ConnStep(k) PROVE answer' = answer
    BY <2>2 DEF ConnStep, Register, RegisterState, Greet, ReadFrame, HandleAnswer, Remember,
                HandleState, EndLoop, Drop, DropState, calls
  <2>3. CASE AdminStep \/ Rotate \/ Revoke \/ Stop \/ ExtensionStep \/ UNCHANGED vars
    BY <2>3 DEF AdminStep, RotateState, CloseTaken, StopState, Rotate, Revoke, Stop, TakeAway,
                ExtensionStep, LoseSocket, TakeCommand, Verify, Connect, Perform, Expire, vars,
                calls
  <2>4. QED
    BY <1>1, <2>1, <2>2, <2>3 DEF Next
<1>5. QED
  BY <1>1, <1>3, <1>4 DEF Fresh

LEMMA TrueCallsStep ==
    ASSUME Inv, Pending, Found, Fresh, TrueFrames, TrueCalls, [Next]_vars
    PROVE  TrueCalls'
<1> USE GatewayAssumption
<1>1. \A c \in Call : cmd[c] \in Cmd => cmd'[c] = cmd[c]
  BY CmdStays
<1>2. ASSUME NEW m \in Cmd PROVE True(cache[m], m)'
  <2>1. True(cache'[m], m)
    BY CacheSteps DEF TrueFrames, TrueCalls
  <2>2. QED
    BY <2>1, DoneGrows DEF True
<1>3. ASSUME NEW c \in Call PROVE True(outcome[c], cmd[c])'
  <2>1. True(outcome'[c], cmd'[c])
    <3>1. CASE cmd[c] \in Cmd
      <4>1. \A k \in Conn : target[k] = c => msg[k].cmd = cmd[c]
        BY DEF Found
      <4>2. QED
        BY <1>1, <3>1, <4>1, OutcomeSteps DEF TrueFrames, TrueCalls, True
    <3>2. CASE cmd[c] \notin Cmd
      <4>1. outcome[c] = "none"
        BY <3>2 DEF Inv, Placed, Fresh
      <4>2. QED
        BY <3>2, <4>1, OutcomeSteps DEF Pending, Found, True
    <3>3. QED
      BY <3>1, <3>2
  <2>2. QED
    BY <2>1, DoneGrows DEF True
<1>4. ASSUME NEW c \in Call PROVE True(answer[c], cmd[c])'
  <2>1. True(answer'[c], cmd'[c])
    <3>1. CASE answer'[c] = answer[c]
      <4>1. CASE cmd[c] \in Cmd
        BY <1>1, <3>1, <4>1 DEF TrueCalls
      <4>2. CASE cmd[c] \notin Cmd
        BY <3>1, <4>2 DEF Inv, Placed, Fresh, True
      <4>3. QED
        BY <4>1, <4>2
    <3>2. CASE StartCall(c) /\ \E m \in Cmd : cmd'[c] = m /\ answer'[c] = cache[m]
      BY <3>2 DEF TrueCalls
    <3>3. CASE answer'[c] \notin Report
      BY <3>3 DEF True, Report
    <3>4. CASE answer'[c] = outcome[c] /\ cmd' = cmd
      BY <3>4 DEF TrueCalls
    <3>5. QED
      BY <3>1, <3>2, <3>3, <3>4, AnswerSteps
  <2>2. QED
    BY <2>1, DoneGrows DEF True
<1>5. QED
  BY <1>2, <1>3, <1>4 DEF TrueCalls

\* A frame from the extension tells what it has done.
LEMMA UpSteps ==
    ASSUME Inv, [Next]_vars, NEW k \in Conn
    PROVE  \/ up'[k] = up[k]
           \/ up[k] # <<>> /\ up'[k] = Tail(up[k])
           \/ \E type \in Told \cup {"verify", "resolved"}, m \in Cmd \cup {NoCmd} :
                 /\ up'[k] = Append(up[k], [type |-> type, cmd |-> m])
                 /\ True(type, m)'
<1> DEFINE Sent == \/ up'[k] = up[k]
                   \/ \E type \in Told \cup {"verify", "resolved"}, m \in Cmd \cup {NoCmd} :
                         /\ up'[k] = Append(up[k], [type |-> type, cmd |-> m])
                         /\ True(type, m)'
<1> USE DEF Inv, Typed, TypedWire
<1>1. ASSUME NEW c \in Call, CallStep(c) PROVE up' = up
  BY <1>1 DEF CallStep, StartCall, GetState, CheckState, Acquire, File, Send, Write, Wait, Cancel,
              WriteCancel, Finish, Drop, DropState, wire
<1>2. ASSUME NEW j \in Conn, ConnStep(j)
      PROVE  up'[k] = up[k] \/ (up[k] # <<>> /\ up'[k] = Tail(up[k]))
  BY <1>2 DEF ConnStep, Register, RegisterState, Greet, ReadFrame, HandleAnswer, Remember,
              HandleState, EndLoop, Drop, DropState, wire
<1>3. ASSUME NEW type \in Told \cup {"verify", "resolved"}, NEW m \in Cmd \cup {NoCmd},
             SendUp(type, m), True(type, m)'
      PROVE  Sent
  BY <1>3 DEF SendUp
<1>4. ASSUME TakeCommand PROVE Sent
  <2>1. down[socket] \in Seq(Down) /\ down[socket] # <<>>
    BY <1>4 DEF TakeCommand
  <2>2. Head(down[socket]) \in Down
    BY <2>1
  <2>3. Head(down[socket]).cmd \in Cmd
    BY <2>2 DEF Down
  <2>4. CASE up' = up
    BY <2>4
  <2>5. CASE up' # up
    <3>1. PICK m \in Cmd : SendUp("cancelled", m) /\ done' = [done EXCEPT !.withdrawn = @ \cup {m}]
      BY <1>4, <2>3, <2>5 DEF TakeCommand
    <3>2. True("cancelled", m)'
      BY <3>1 DEF True
    <3>3. QED
      BY <1>3, <3>1, <3>2 DEF Told, Report
  <2>6. QED
    BY <2>4, <2>5
<1>5. ASSUME Verify PROVE Sent
  <2>1. \A type \in {"verify", "resolved"} : True(type, NoCmd)'
    BY DEF True
  <2>2. PICK type \in {"verify", "resolved"} : SendUp(type, NoCmd)
    BY <1>5 DEF Verify
  <2>3. QED
    BY <1>3, <2>1, <2>2
<1>6. ASSUME NEW m \in Cmd, Perform(m) PROVE Sent
  <2>1. CASE done' = [done EXCEPT !.performed = @ \cup {m}] /\ (SendUp("ok", m) \/ up' = up)
    <3>1. True("ok", m)'
      BY <2>1 DEF True
    <3>2. QED
      BY <1>3, <2>1, <3>1 DEF Told, Report
  <2>2. CASE done' = [done EXCEPT !.refused = @ \cup {m}] /\ (SendUp("failed", m) \/ up' = up)
    <3>1. True("failed", m)'
      BY <2>2 DEF True
    <3>2. QED
      BY <1>3, <2>2, <3>1 DEF Told, Report
  <2>3. QED
    BY <1>6, <2>1, <2>2 DEF Perform
<1>7. ASSUME NEW m \in Cmd, Expire(m) PROVE Sent
  <2>1. True("expired", m)'
    BY DEF True
  <2>2. QED
    BY <1>3, <1>7, <2>1 DEF Expire, Told, Report
<1>8. CASE AdminStep \/ Rotate \/ Revoke \/ Stop
  BY <1>8 DEF AdminStep, RotateState, CloseTaken, StopState, Rotate, Revoke, Stop, TakeAway, wire
<1>9. CASE LoseSocket \/ (\E j \in Conn : Connect(j)) \/ UNCHANGED vars
  BY <1>9 DEF LoseSocket, Connect, vars, wire
<1>10. QED
  BY <1>1, <1>2, <1>4, <1>5, <1>6, <1>7, <1>8, <1>9 DEF Next, ExtensionStep

LEMMA MsgSteps ==
    ASSUME Inv, [Next]_vars, NEW k \in Conn
    PROVE  msg'[k] = msg[k] \/ msg'[k] = NoMsg \/ (up[k] # <<>> /\ msg'[k] = Head(up[k]))
<1> USE DEF Inv, Typed, TypedWire
<1>1. ASSUME NEW c \in Call, CallStep(c) PROVE UNCHANGED frames
  BY <1>1 DEF CallStep, StartCall, GetState, CheckState, Acquire, File, Send, Write, Wait, Cancel,
              WriteCancel, Finish, Drop, DropState
<1>2. ASSUME NEW j \in Conn, ReadFrame(j) \/ HandleAnswer(j) \/ Remember(j) \/ HandleState(j)
      PROVE  msg'[k] = msg[k] \/ msg'[k] = NoMsg \/ (up[k] # <<>> /\ msg'[k] = Head(up[k]))
  BY <1>2 DEF ReadFrame, HandleAnswer, Remember, HandleState, BackToLoop
<1>3. ASSUME NEW j \in Conn, Register(j) \/ RegisterState(j) \/ Greet(j) \/ EndLoop(j) \/ Drop(j)
                             \/ DropState(j)
      PROVE  UNCHANGED frames
  BY <1>3 DEF Register, RegisterState, Greet, EndLoop, Drop, DropState
<1>4. CASE AdminStep \/ Rotate \/ Revoke \/ Stop \/ ExtensionStep \/ UNCHANGED vars
  BY <1>4 DEF AdminStep, RotateState, CloseTaken, StopState, Rotate, Revoke, Stop, TakeAway,
              ExtensionStep, LoseSocket, TakeCommand, Verify, Connect, Perform, Expire, vars, frames
<1>5. QED
  BY <1>1, <1>2, <1>3, <1>4 DEF Next, ConnStep, frames

LEMMA TrueFramesStep ==
    ASSUME Inv, TrueFrames, [Next]_vars
    PROVE  TrueFrames'
<1>1. ASSUME NEW k \in Conn, NEW i \in 1..Len(up'[k])
      PROVE  True(up[k][i].type, up[k][i].cmd)'
  <2> USE DEF Inv, Typed, TypedWire
  <2>1. up[k] \in Seq(Frame)
    OBVIOUS
  <2>2. CASE up'[k] = up[k]
    BY <1>1, <2>2, DoneGrows DEF TrueFrames, True
  <2>3. CASE up[k] # <<>> /\ up'[k] = Tail(up[k])
    <3>1. i + 1 \in 1..Len(up[k]) /\ up'[k][i] = up[k][i + 1]
      BY <1>1, <2>1, <2>3
    <3>2. QED
      BY <3>1, DoneGrows DEF TrueFrames, True
  <2>4. ASSUME NEW type \in Told \cup {"verify", "resolved"}, NEW m \in Cmd \cup {NoCmd},
               up'[k] = Append(up[k], [type |-> type, cmd |-> m]), True(type, m)'
        PROVE  True(up[k][i].type, up[k][i].cmd)'
    <3> DEFINE f == [type |-> type, cmd |-> m]
    <3>1. f \in Frame /\ f.type = type /\ f.cmd = m
      BY DEF Frame
    <3> HIDE DEF f
    <3>2. up'[k] = Append(up[k], f)
      BY <2>4 DEF f
    <3>3. \/ i \in 1..Len(up[k]) /\ up'[k][i] = up[k][i]
          \/ up'[k][i] = f
      BY <1>1, <2>1, <3>1, <3>2
    <3>4. QED
      BY <2>4, <3>1, <3>3, DoneGrows DEF TrueFrames, True
  <2>5. QED
    BY <2>2, <2>3, <2>4, UpSteps
<1>2. ASSUME NEW k \in Conn PROVE True(msg[k].type, msg[k].cmd)'
  <2>1. up[k] # <<>> => 1 \in 1..Len(up[k]) /\ Head(up[k]) = up[k][1]
    BY DEF Inv, Typed, TypedWire
  <2>2. True(msg'[k].type, msg'[k].cmd)
    BY <2>1, MsgSteps DEF TrueFrames, True, NoMsg
  <2>3. QED
    BY <2>2, DoneGrows DEF True
<1>3. QED
  BY <1>1, <1>2 DEF TrueFrames

\* All of it is inductive.
Honest == Inv /\ Pending /\ Found /\ Fresh /\ TrueFrames /\ TrueCalls

LEMMA Honesty == Spec => []Honest
<1>1. Init => Honest
  BY InvInit DEF Init, Honest, Pending, Found, Fresh, TrueFrames, TrueCalls, True, NoMsg
<1>2. Honest /\ [Next]_vars => Honest'
  BY InvStep, PendingStep, FoundStep, FreshStep, TrueFramesStep, TrueCallsStep DEF Honest
<1>3. QED
  BY <1>1, <1>2, PTL DEF Spec

-----------------------------------------------------------------------------
(* The gateway implements CommandOutcome.                                   *)

AllGiven == [c \in Call |-> Given(c)]

\* A step of one call answers that call at most.
LEMMA GivenSteps ==
    ASSUME Inv, NEW c \in Call, CallStep(c)
    PROVE  /\ Given(c) = "none"
           /\ AllGiven' = [AllGiven EXCEPT ![c] = Given(c)']
<1> USE GatewayAssumption DEF Inv, Typed, TypedServer, TypedTransport, Thread
<1>1. pc[c] # "done"
  BY DEF CallStep, StartCall, GetState, CheckState, Acquire, File, Send, Write, Wait, Cancel,
         WriteCancel, Finish, Drop, DropState
<1>2. ASSUME NEW d \in Call \ {c} PROVE pc'[d] = pc[d] /\ answer'[d] = answer[d]
  BY DEF CallStep, StartCall, GetState, CheckState, Acquire, File, Send, Write, Wait, Cancel,
         WriteCancel, Finish, Drop, DropState, Return, Goto, calls
<1>3. \A d \in Call \ {c} : Given(d)' = Given(d)
  BY <1>2 DEF Given
<1>4. AllGiven' = [AllGiven EXCEPT ![c] = Given(c)']
  BY <1>3 DEF AllGiven
<1>5. Given(c) = "none"
  BY <1>1 DEF Given
<1>6. QED
  BY <1>4, <1>5

\* Every other step leaves the answers alone.
LEMMA GivenStays ==
    ASSUME Inv, [Next]_vars, \A c \in Call : ~CallStep(c)
    PROVE  AllGiven' = AllGiven
<1> USE GatewayAssumption DEF Inv, Typed, TypedServer, Thread
<1>1. \A c \in Call : (pc'[c] = "done" <=> pc[c] = "done")
  <2>1. ASSUME NEW k \in Conn, ConnStep(k), NEW c \in Call PROVE pc'[c] = pc[c]
    BY <2>1 DEF ConnStep, Register, RegisterState, Greet, ReadFrame, HandleAnswer, Remember,
                HandleState, EndLoop, Drop, DropState, After, BackToLoop, Goto
  <2>2. ASSUME AdminStep \/ Rotate \/ Revoke \/ Stop, NEW c \in Call PROVE pc'[c] = pc[c]
    BY <2>2 DEF AdminStep, RotateState, CloseTaken, StopState, Rotate, Revoke, Stop, TakeAway, Goto
  <2>3. ASSUME NEW k \in Conn, Connect(k), NEW c \in Call PROVE pc'[c] = pc[c]
    BY <2>3 DEF Connect, Goto
  <2>4. ASSUME LoseSocket \/ TakeCommand \/ Verify
               \/ (\E m \in Cmd : Perform(m) \/ Expire(m)) \/ UNCHANGED vars
        PROVE  pc' = pc
    BY <2>4 DEF LoseSocket, TakeCommand, Verify, Perform, Expire, vars
  <2>5. QED
    BY <2>1, <2>2, <2>3, <2>4 DEF Next, ExtensionStep
<1>2. answer' = answer
  <2>1. ASSUME NEW k \in Conn, ConnStep(k) PROVE answer' = answer
    BY <2>1 DEF ConnStep, Register, RegisterState, Greet, ReadFrame, HandleAnswer, Remember,
                HandleState, EndLoop, Drop, DropState, calls
  <2>2. ASSUME AdminStep \/ Rotate \/ Revoke \/ Stop \/ ExtensionStep \/ UNCHANGED vars
        PROVE  answer' = answer
    BY <2>2 DEF AdminStep, RotateState, CloseTaken, StopState, Rotate, Revoke, Stop, TakeAway,
                ExtensionStep, LoseSocket, TakeCommand, Verify, Connect, Perform, Expire, vars,
                calls
  <2>3. QED
    BY <2>1, <2>2 DEF Next
<1>3. \A c \in Call : Given(c)' = Given(c)
  BY <1>1, <1>2 DEF Given
<1>4. QED
  BY <1>3 DEF AllGiven

\* A call may be told what it is told.
LEMMA ToldIsTrue ==
    ASSUME Honest', NEW c \in Call, Given(c)' # "none"
    PROVE  Given(c)' \in {"unknown"} \cup (IF cmd'[c] \in done'.performed THEN {"ok"} ELSE {})
                         \cup (IF cmd'[c] \in done'.refused THEN {"failed"} ELSE {})
                         \cup (IF cmd'[c] \in done'.withdrawn THEN {"cancelled"} ELSE {})
BY DEF Given, Honest, TrueCalls, True

LEMMA OutcomeStep ==
    ASSUME Honest, Honest', [Next]_vars
    PROVE  [Outcome!Next]_<<cmd, done.performed, done.refused, done.withdrawn, AllGiven>>
<1> USE GatewayAssumption
<1> DEFINE Shadow == <<cmd, done.performed, done.refused, done.withdrawn, AllGiven>>
<1>0. Inv
  BY DEF Honest
<1>1. ASSUME NEW c \in Call, StartCall(c) PROVE Outcome!Ask(c)
  <2>1. cmd[c] = NoCmd /\ cmd'[c] \in Cmd
    BY <1>0, <1>1 DEF StartCall, Inv, Typed, TypedTransport, Placed
  <2>2. cmd' = [cmd EXCEPT ![c] = cmd'[c]]
    BY <1>0, <1>1 DEF StartCall, Inv, Typed, TypedTransport
  <2>3. Given(c) = "none" /\ AllGiven' = [AllGiven EXCEPT ![c] = Given(c)']
    BY <1>0, <1>1, GivenSteps DEF CallStep
  <2>4. UNCHANGED done
    BY <1>1 DEF StartCall, extension, world
  <2>5. QED
    BY <2>1, <2>2, <2>3, <2>4, ToldIsTrue DEF Outcome!Ask, Outcome!MayTell, AllGiven
<1>2. ASSUME NEW c \in Call, CallStep(c), ~StartCall(c) PROVE Outcome!Answer(c) \/ UNCHANGED Shadow
  <2>1. cmd' = cmd /\ cmd[c] \in Cmd /\ done' = done
    BY <1>0, <1>2 DEF CallStep, GetState, CheckState, Acquire, File, Send, Write, Wait, Cancel,
                      WriteCancel, Finish, Drop, DropState, calls, wire, extension, world, Inv,
                      Placed
  <2>2. Given(c) = "none" /\ AllGiven' = [AllGiven EXCEPT ![c] = Given(c)']
    BY <1>0, <1>2, GivenSteps
  <2>3. CASE Given(c)' = "none"
    BY <2>1, <2>2, <2>3 DEF AllGiven
  <2>4. CASE Given(c)' # "none"
    BY <2>1, <2>2, <2>4, ToldIsTrue DEF Outcome!Answer, Outcome!MayTell, AllGiven
  <2>5. QED
    BY <2>3, <2>4
<1>3. CASE \A c \in Call : ~CallStep(c)
  <2>1. AllGiven' = AllGiven
    BY <1>0, <1>3, GivenStays
  <2>2. cmd' = cmd
    BY <1>0, <1>3, CmdStays DEF CallStep
  <2>3. ASSUME NEW m \in Cmd, Perform(m) PROVE Outcome!Perform(m) \/ Outcome!Refuse(m)
    BY <1>0, <2>1, <2>2, <2>3 DEF Perform, Outcome!Perform, Outcome!Refuse, AllGiven, Inv, Typed,
                                  TypedWire
  <2>4. ASSUME TakeCommand PROVE (\E m \in Cmd : Outcome!Withdraw(m)) \/ UNCHANGED Shadow
    <3>1. down[socket] \in Seq(Down) /\ down[socket] # <<>>
      BY <1>0, <2>4 DEF TakeCommand, Inv, Typed, TypedWire
    <3>2. Head(down[socket]) \in Down
      BY <3>1
    <3>3. Head(down[socket]).cmd \in Cmd
      BY <3>2 DEF Down
    <3>4. done' = done \/ \E m \in Cmd : done' = [done EXCEPT !.withdrawn = @ \cup {m}]
      BY <2>4, <3>3 DEF TakeCommand
    <3>5. ASSUME NEW m \in Cmd, done' = [done EXCEPT !.withdrawn = @ \cup {m}]
          PROVE  Outcome!Withdraw(m)
      BY <1>0, <2>1, <2>2, <3>5 DEF Outcome!Withdraw, AllGiven, Inv, Typed, TypedWire
    <3>6. QED
      BY <2>1, <2>2, <3>4, <3>5
  <2>5. ASSUME NEW k \in Conn, ConnStep(k) PROVE done' = done
    BY <2>5 DEF ConnStep, Register, RegisterState, Greet, ReadFrame, HandleAnswer, Remember,
                HandleState, EndLoop, Drop, DropState, wire, extension, world
  <2>6. ASSUME AdminStep \/ Rotate \/ Revoke \/ Stop \/ LoseSocket \/ Verify
               \/ (\E k \in Conn : Connect(k)) \/ (\E m \in Cmd : Expire(m)) \/ UNCHANGED vars
        PROVE  done' = done
    BY <2>6 DEF AdminStep, RotateState, CloseTaken, StopState, Rotate, Revoke, Stop, TakeAway,
                LoseSocket, Verify, Connect, Expire, vars, wire, extension, world
  <2>7. QED
    BY <1>3, <2>1, <2>2, <2>3, <2>4, <2>5, <2>6 DEF Next, ExtensionStep, Outcome!Next
<1>4. QED
  BY <1>1, <1>2, <1>3 DEF Outcome!Next, CallStep

\* Whatever is lost, delayed, repeated or taken over, a call is answered once, and
\* told that the extension carried out, failed at or withdrew its command only if
\* the extension did (WebSocketTransport.execute_command).
THEOREM GatewayImplementsOutcome == Spec => OutcomeSpec
<1>1. Init => Outcome!Init
  <2>1. Init => AllGiven = [c \in Call |-> "none"]
    BY DEF Init, AllGiven, Given, Thread
  <2>2. QED
    BY <2>1 DEF Init, Outcome!Init, AllGiven
<1>2. Honest /\ Honest' /\ [Next]_vars
      => [Outcome!Next]_<<cmd, done.performed, done.refused, done.withdrawn, AllGiven>>
  BY OutcomeStep
<1>3. QED
  BY <1>1, <1>2, Honesty, PTL DEF Spec, OutcomeSpec, Outcome!Spec, AllGiven
=============================================================================
