------------------------------ MODULE Gateway ------------------------------
(***************************************************************************)
(* The browser gateway (browser_bridge/server.py and transport.py) and the *)
(* extension it commands.  Threads: one for each caller of execute_command,*)
(* one for each connection of the extension, one for the operator.  The    *)
(* server's lock and the transport's lock nest in both orders, so a step   *)
(* ends where a thread that holds one of them asks for the other.          *)
(***************************************************************************)
EXTENDS Integers, Sequences

CONSTANTS
    Call,        \* calls of execute_command
    Conn,        \* connections, in the order of their numbers
    Admin,       \* the operator's thread
    Cmd,         \* command ids; a call with an id used before is a retry
    Exempt,      \* commands allowed during verification
    Limit,       \* values max_concurrency may have
    Event,       \* bound: of "rotate", "revoke", "stop" and "verify", those that happen
    MaxEvent,    \* bound: how many of them
    NoCall, NoConn, NoCmd

ASSUME GatewayAssumption ==
    /\ Conn \subseteq Nat /\ NoConn \notin Conn /\ NoCall \notin Call /\ NoCmd \notin Cmd
    /\ Call \cap Conn = {} /\ Admin \notin Call \cup Conn
    /\ Exempt \subseteq Cmd
    /\ Limit \subseteq Nat \ {0} /\ MaxEvent \in Nat

Thread == Call \cup Conn \cup {Admin}

VARIABLES
    pc,          \* where each thread stands
    on,          \* the connection a thread is about to write to or to drop
    active,      \* BrowserGatewayServer._active_conn
    closed,      \* connections closed by the server
    pending,     \* _pending: the call that waits for each command
    mode,        \* _state
    limit, used, \* permits of the semaphore, and how many are taken
    cache,       \* _idempotency_cache: the answer kept of each command
    cmd,         \* the command of each call
    outcome,     \* the result or error of its _PendingCommand
    answer,      \* what the call returns
    msg, target, \* the frame a connection is handling, and the call it found
    down, up,    \* frames on their way to the extension and back
    socket,      \* the extension's bridgeSocket
    lost,        \* connections the extension has no longer
    inFlight,    \* its inFlightCommands
    working,     \* how many executions of each command it has under way
    done,        \* the commands carried out, refused and withdrawn there
    cut,         \* connections dropped by revocation or a stop (history variable)
    events       \* how many of those there were

server    == <<active, closed, cut, limit>>
transport == <<pending, mode, used, cache, outcome>>
calls     == <<cmd, answer>>
frames    == <<msg, target>>
wire      == <<down, up>>
world     == <<socket, lost, inFlight, working, done>>
extension == <<world, events>>
vars == <<pc, on, server, transport, calls, frames, wire, extension>>

NoMsg == [type |-> "none", cmd |-> NoCmd]

Init ==
    /\ pc = [t \in Thread |-> "idle"]
    /\ on = [t \in Thread |-> IF t \in Conn THEN t ELSE NoConn]
    /\ active = NoConn /\ closed = {} /\ cut = {}
    /\ pending = [m \in Cmd |-> NoCall] /\ mode = "disconnected" /\ used = 0 /\ limit \in Limit
    /\ cache = [m \in Cmd |-> "none"] /\ outcome = [c \in Call |-> "none"]
    /\ cmd = [c \in Call |-> NoCmd] /\ answer = [c \in Call |-> "none"]
    /\ msg = [k \in Conn |-> NoMsg] /\ target = [k \in Conn |-> NoCall]
    /\ down = [k \in Conn |-> <<>>] /\ up = [k \in Conn |-> <<>>]
    /\ socket = NoConn /\ lost = {} /\ inFlight = {}
    /\ working = [m \in Cmd |-> 0] /\ events = 0
    /\ done = [performed |-> {}, refused |-> {}, withdrawn |-> {}]

-----------------------------------------------------------------------------
(* The two locks.                                                          *)

\* Labels at which a thread holds the server's lock and wants the transport's,
\* and at which it holds the transport's and wants the server's.
ServerHeld    == {"registering", "dropping", "rotating"}
TransportHeld == {"asking"}

ServerFree    == \A t \in Thread : pc[t] \notin ServerHeld
TransportFree == \A t \in Thread : pc[t] \notin TransportHeld

Goto(t, label) == pc' = [pc EXCEPT ![t] = label]

\* is_connected, under the server's lock.
Connected == active # NoConn /\ active \notin closed

\* reset_pending: every waiting call gets an error.
ResetPending ==
    /\ pending' = [m \in Cmd |-> NoCall]
    /\ outcome' = [c \in Call |-> IF \E m \in Cmd : pending[m] = c THEN "reset" ELSE outcome[c]]

\* The state once nothing is pending any more.
Settled(waiting) ==
    IF mode = "busy" /\ \A m \in Cmd : waiting[m] = NoCall THEN "connected" ELSE mode

\* The call's command is no longer pending, whoever waits for it.
PopPending(c) ==
    /\ pending' = [pending EXCEPT ![cmd[c]] = NoCall]
    /\ mode' = Settled(pending')

\* What the extension reports of a command; "expired": its deadline passed there.
Report == {"ok", "failed", "cancelled", "expired"}

-----------------------------------------------------------------------------
(* execute_command.                                                        *)

Return(c, told) == answer' = [answer EXCEPT ![c] = told] /\ Goto(c, "done")

\* The cache is asked first (an answer is kept 300 s, if there is room), then
\* the connection, which takes the server's lock.
StartCall(c) ==
    /\ pc[c] = "idle"
    /\ \E m \in Cmd :
          /\ cmd' = [cmd EXCEPT ![c] = m]
          /\ \/ cache[m] # "none" /\ Return(c, cache[m])
             \/ ServerFree /\ ~Connected /\ Return(c, "offline")
             \/ ServerFree /\ Connected /\ Goto(c, "state") /\ UNCHANGED answer
    /\ UNCHANGED <<on, server, transport, frames, wire, extension>>

\* get_state takes the transport's lock, and then asks the server.
GetState(c) ==
    /\ pc[c] = "state" /\ TransportFree
    /\ Goto(c, "asking")
    /\ UNCHANGED <<on, server, transport, calls, frames, wire, extension>>

CheckState(c) ==
    /\ pc[c] = "asking" /\ ServerFree
    /\ IF Connected /\ mode = "verifying" /\ cmd[c] \notin Exempt
       THEN Return(c, "paused") ELSE Goto(c, "permit") /\ UNCHANGED answer
    /\ UNCHANGED <<on, server, transport, cmd, frames, wire, extension>>

\* Mutant: a call that got no permit in time goes on.
AcquireAnyway(c) ==
    /\ pc[c] = "permit"
    /\ used' = used + 1 /\ Goto(c, "filing")
    /\ UNCHANGED <<on, server, pending, mode, cache, outcome, calls, frames, wire, extension>>

\* Backpressure: without a permit for two seconds the call gives up.
Acquire(c) ==
    /\ pc[c] = "permit"
    /\ \/ used < limit /\ used' = used + 1 /\ Goto(c, "filing") /\ UNCHANGED answer
       \/ used = limit /\ Return(c, "limit") /\ UNCHANGED used
    /\ UNCHANGED <<on, server, pending, mode, cache, outcome, cmd, frames, wire, extension>>

\* The pending command replaces one with the same id.
File(c) ==
    /\ pc[c] = "filing" /\ TransportFree
    /\ pending' = [pending EXCEPT ![cmd[c]] = c]
    /\ mode' = IF mode = "connected" THEN "busy" ELSE mode
    /\ Goto(c, "send")
    /\ UNCHANGED <<on, server, used, cache, outcome, calls, frames, wire, extension>>

\* broadcast_or_send reads the connection under the lock and writes without it.
Send(c) ==
    /\ pc[c] = "send" /\ ServerFree
    /\ IF Connected
       THEN on' = [on EXCEPT ![c] = active] /\ Goto(c, "write") /\ UNCHANGED answer
       ELSE answer' = [answer EXCEPT ![c] = "unsent"] /\ Goto(c, "finish") /\ UNCHANGED on
    /\ UNCHANGED <<server, transport, cmd, frames, wire, extension>>

\* A socket closed on this side refuses; one that was lost may still accept.
Refuses(k) == k \in closed \/ pc[k] = "gone"
Put(queue, k, type, m) ==
    [queue EXCEPT ![k] = IF k \in lost THEN @ ELSE Append(@, [type |-> type, cmd |-> m])]

Write(c) ==
    /\ pc[c] = "write"
    /\ \/ /\ ~Refuses(on[c])
          /\ down' = Put(down, on[c], "command", cmd[c])
          /\ Goto(c, "wait") /\ UNCHANGED answer
       \/ /\ Refuses(on[c]) \/ on[c] \in lost
          /\ answer' = [answer EXCEPT ![c] = "unsent"]
          /\ Goto(c, "drop") /\ UNCHANGED down
    /\ UNCHANGED <<on, server, transport, cmd, frames, up, extension>>

\* Mutant: the wait has no deadline.
WaitForever(c) ==
    /\ pc[c] = "wait" /\ TransportFree
    /\ outcome[c] # "none" /\ UNCHANGED answer /\ Goto(c, "finish")
    /\ PopPending(c)
    /\ UNCHANGED <<on, server, used, cache, outcome, cmd, frames, wire, extension>>

\* The event is set, or the deadline passes; nothing is pending then.
Wait(c) ==
    /\ pc[c] = "wait" /\ TransportFree
    /\ \/ outcome[c] # "none" /\ UNCHANGED answer /\ Goto(c, "finish")
       \/ /\ outcome[c] = "none"
          /\ answer' = [answer EXCEPT ![c] = "timeout"] /\ Goto(c, "cancel")
    /\ PopPending(c)
    /\ UNCHANGED <<on, server, used, cache, outcome, cmd, frames, wire, extension>>

\* cancel_command: whatever connection is active by now is read under the lock, and
\* written to without it.
Cancel(c) ==
    /\ pc[c] = "cancel" /\ ServerFree
    /\ IF Connected
       THEN on' = [on EXCEPT ![c] = active] /\ Goto(c, "withdraw")
       ELSE Goto(c, "finish") /\ UNCHANGED on
    /\ UNCHANGED <<server, transport, calls, frames, wire, extension>>

WriteCancel(c) ==
    /\ pc[c] = "withdraw"
    /\ \/ /\ ~Refuses(on[c])
          /\ down' = Put(down, on[c], "cancel", cmd[c])
          /\ Goto(c, "finish")
       \/ /\ Refuses(on[c]) \/ on[c] \in lost
          /\ Goto(c, "drop") /\ UNCHANGED down
    /\ UNCHANGED <<on, server, transport, calls, frames, up, extension>>

\* Mutant: the finally clause leaves the command pending.
FinishPending(c) ==
    /\ pc[c] = "finish" /\ TransportFree
    /\ UNCHANGED <<pending, mode>>
    /\ used' = used - 1
    /\ Return(c, IF answer[c] = "none" THEN outcome[c] ELSE answer[c])
    /\ on' = [on EXCEPT ![c] = NoConn]
    /\ UNCHANGED <<server, cache, outcome, cmd, frames, wire, extension>>

\* The finally clause, and the answer.
Finish(c) ==
    /\ pc[c] = "finish" /\ TransportFree
    /\ PopPending(c)
    /\ used' = used - 1
    /\ Return(c, IF answer[c] = "none" THEN outcome[c] ELSE answer[c])
    /\ on' = [on EXCEPT ![c] = NoConn]
    /\ UNCHANGED <<server, cache, outcome, cmd, frames, wire, extension>>

-----------------------------------------------------------------------------
(* Connections.                                                            *)

\* Mutant: any thread that drops a connection clears the active one.
DropAny(t) ==
    /\ pc[t] = "drop" /\ ServerFree
    /\ active' = NoConn /\ Goto(t, "dropping") /\ UNCHANGED closed
    /\ UNCHANGED <<on, cut, limit, transport, calls, frames, wire, extension>>

After(t) == IF t \in Conn THEN "gone" ELSE "finish"

\* _unregister, by the connection's thread or by a call that could not write:
\* only the owner's connection clears _active_conn.
Drop(t) ==
    /\ pc[t] = "drop" /\ ServerFree
    /\ \/ /\ active = on[t]
          /\ active' = NoConn /\ Goto(t, "dropping") /\ UNCHANGED closed
       \/ /\ active # on[t]
          /\ closed' = closed \cup {on[t]} /\ Goto(t, After(t)) /\ UNCHANGED active
    /\ UNCHANGED <<on, cut, limit, transport, calls, frames, wire, extension>>

\* Mutant: a disconnection does not touch the pending commands.
DropQuietly(t) ==
    /\ pc[t] = "dropping" /\ TransportFree
    /\ mode' = "disconnected" /\ UNCHANGED <<pending, outcome>>
    /\ closed' = closed \cup {on[t]}
    /\ Goto(t, After(t))
    /\ UNCHANGED <<on, active, cut, limit, used, cache, calls, frames, wire, extension>>

\* set_state, reset_pending, and the socket is closed.
DropState(t) ==
    /\ pc[t] = "dropping" /\ TransportFree
    /\ mode' = "disconnected" /\ ResetPending
    /\ closed' = closed \cup {on[t]}
    /\ Goto(t, After(t))
    /\ UNCHANGED <<on, active, cut, limit, used, cache, calls, frames, wire, extension>>

\* _register: while another connection is open only one with takeover=1 gets in.
Register(k) ==
    /\ pc[k] = "handshake" /\ ServerFree
    /\ \/ /\ Connected
          /\ closed' = closed \cup {k} /\ Goto(k, "gone")
          /\ UNCHANGED <<active, on>>
       \/ /\ on' = [on EXCEPT ![k] = active]
          /\ active' = k /\ Goto(k, "registering")
          /\ UNCHANGED closed
    /\ UNCHANGED <<cut, limit, transport, calls, frames, wire, extension>>

RegisterState(k) ==
    /\ pc[k] = "registering" /\ TransportFree
    /\ IF on[k] # NoConn THEN ResetPending ELSE UNCHANGED <<pending, outcome>>
    /\ mode' = "connected"
    /\ Goto(k, "greet")
    /\ UNCHANGED <<on, server, used, cache, calls, frames, wire, extension>>

\* Mutant: the connection taken over stays open.
GreetOnly(k) ==
    /\ pc[k] = "greet"
    /\ on' = [on EXCEPT ![k] = k]
    /\ Goto(k, IF k \in closed \cup lost THEN "gone" ELSE "reading")
    /\ UNCHANGED <<server, transport, calls, frames, wire, extension>>

\* The previous connection is closed, and the new one greeted.  When that
\* raises the thread ends, and the connection stays the active one.
Greet(k) ==
    /\ pc[k] = "greet"
    /\ closed' = IF on[k] = NoConn THEN closed ELSE closed \cup {on[k]}
    /\ on' = [on EXCEPT ![k] = k]
    /\ \/ k \notin closed /\ Goto(k, "reading")
       \/ k \in closed \cup lost /\ Goto(k, "gone")
    /\ UNCHANGED <<active, cut, limit, transport, calls, frames, wire, extension>>

\* The next frame, and the pending command it is about.
ReadFrame(k) ==
    /\ pc[k] = "reading" /\ up[k] # <<>> /\ TransportFree
    /\ msg' = [msg EXCEPT ![k] = Head(up[k])]
    /\ target' = [target EXCEPT ![k] = IF Head(up[k]).cmd = NoCmd THEN NoCall
                                       ELSE pending[Head(up[k]).cmd]]
    /\ up' = [up EXCEPT ![k] = Tail(@)]
    /\ Goto(k, "handle")
    /\ UNCHANGED <<on, server, transport, calls, down, extension>>

\* A PendingCommand that has both a result and an error is one with an error.
Signal(c, told) ==
    outcome' = [outcome EXCEPT ![c] = IF told = "ok" /\ @ # "none" THEN @ ELSE told]

\* The frame has been handled.
BackToLoop(k) ==
    /\ Goto(k, "reading")
    /\ msg' = [msg EXCEPT ![k] = NoMsg] /\ target' = [target EXCEPT ![k] = NoCall]

\* RESULT and ERROR: what nobody waits for is dropped.
HandleAnswer(k) ==
    /\ pc[k] = "handle" /\ msg[k].type \in Report
    /\ \/ target[k] = NoCall /\ BackToLoop(k) /\ UNCHANGED outcome
       \/ /\ target[k] # NoCall
          /\ Signal(target[k], msg[k].type)
          /\ Goto(k, "remember") /\ UNCHANGED <<msg, target>>
    /\ UNCHANGED <<on, server, pending, mode, used, cache, calls, wire, extension>>

\* The caller has its answer before the cache has.
Remember(k) ==
    /\ pc[k] = "remember"
    /\ cache' = [cache EXCEPT ![msg[k].cmd] = msg[k].type]
    /\ BackToLoop(k)
    /\ UNCHANGED <<on, server, pending, mode, used, outcome, calls, wire, extension>>

\* VERIFICATION_REQUIRED and VERIFICATION_RESOLVED, which name no command.
HandleState(k) ==
    /\ pc[k] = "handle" /\ TransportFree
    /\ \/ msg[k].type = "verify" /\ mode' = "verifying"
       \/ msg[k].type = "resolved"
          /\ mode' = IF mode = "verifying" THEN "connected" ELSE mode
    /\ BackToLoop(k)
    /\ UNCHANGED <<on, server, pending, used, cache, outcome, calls, wire, extension>>

\* The frame loop ends with the socket.
EndLoop(k) ==
    /\ pc[k] = "reading"
    /\ k \in closed \/ (k \in lost /\ up[k] = <<>>)
    /\ Goto(k, "drop")
    /\ UNCHANGED <<on, server, transport, calls, frames, wire, extension>>

-----------------------------------------------------------------------------
(* The operator.                                                           *)

\* rotate_token, revoke_token and stop all take the active connection away.
TakeAway(label) ==
    /\ pc[Admin] = "idle" /\ events < MaxEvent /\ ServerFree
    /\ events' = events + 1
    /\ on' = [on EXCEPT ![Admin] = active]
    /\ active' = NoConn
    /\ Goto(Admin, label)
    /\ UNCHANGED <<closed, limit, transport, calls, frames, wire, world>>

Rotate == "rotate" \in Event /\ TakeAway("rotating") /\ UNCHANGED cut

\* The pending commands are not reset.
Revoke == /\ "revoke" \in Event /\ TakeAway("closing")
          /\ cut' = IF active = NoConn THEN cut ELSE cut \cup {active}
Stop   == /\ "stop" \in Event /\ TakeAway("stopping")
          /\ cut' = IF active = NoConn THEN cut ELSE cut \cup {active}

RotateState ==
    /\ pc[Admin] = "rotating" /\ TransportFree
    /\ ResetPending
    /\ Goto(Admin, "closing")
    /\ UNCHANGED <<on, server, mode, used, cache, calls, frames, wire, extension>>

CloseTaken ==
    /\ pc[Admin] \in {"closing", "stopping"}
    /\ closed' = IF on[Admin] = NoConn THEN closed ELSE closed \cup {on[Admin]}
    /\ on' = [on EXCEPT ![Admin] = NoConn]
    /\ Goto(Admin, IF pc[Admin] = "closing" THEN "idle" ELSE "stopped")
    /\ UNCHANGED <<active, cut, limit, transport, calls, frames, wire, extension>>

StopState ==
    /\ pc[Admin] = "stopped" /\ TransportFree
    /\ mode' = "disconnected"
    /\ Goto(Admin, "idle")
    /\ UNCHANGED <<on, server, pending, used, cache, outcome, calls, frames, wire, extension>>

-----------------------------------------------------------------------------
(* The extension (browser-extension/background.js).                        *)

\* connectBridge.
Connect(k) ==
    /\ socket = NoConn /\ pc[k] = "idle"
    /\ \A j \in Conn : j < k => pc[j] # "idle"
    /\ socket' = k
    /\ Goto(k, "handshake")
    /\ UNCHANGED <<on, server, transport, calls, msg, target, wire, lost, inFlight, working,
                   done, events>>

\* The socket is lost, and with the service worker what it had under way.
LoseSocket ==
    /\ socket # NoConn
    /\ socket' = NoConn /\ lost' = lost \cup {socket}
    /\ down' = [down EXCEPT ![socket] = <<>>]
    /\ \/ UNCHANGED <<inFlight, working>>
       \/ inFlight' = {} /\ working' = [m \in Cmd |-> 0]
    /\ UNCHANGED <<pc, on, server, transport, calls, frames, up, done, events>>

\* bridgeSend.
SendUp(type, m) ==
    up' = IF socket = NoConn THEN up
          ELSE [up EXCEPT ![socket] = Append(@, [type |-> type, cmd |-> m])]

\* dispatchEnvelope.  A command is taken up again under an id in flight.
TakeCommand ==
    /\ socket # NoConn /\ down[socket] # <<>>
    /\ LET env == Head(down[socket])
       IN /\ down' = [down EXCEPT ![socket] = Tail(@)]
          /\ \/ /\ env.type = "command"
                /\ inFlight' = inFlight \cup {env.cmd}
                /\ working' = [working EXCEPT ![env.cmd] = @ + 1]
                /\ UNCHANGED <<up, done>>
             \/ /\ env.type = "cancel" /\ env.cmd \in inFlight
                /\ inFlight' = inFlight \ {env.cmd}
                /\ SendUp("cancelled", env.cmd)
                /\ done' = [done EXCEPT !.withdrawn = @ \cup {env.cmd}]
                /\ UNCHANGED working
             \/ /\ env.type = "cancel" /\ env.cmd \notin inFlight
                /\ UNCHANGED <<inFlight, working, up, done>>
    /\ UNCHANGED <<pc, on, server, transport, calls, frames, socket, lost, events>>

\* handleAction ends, or fails; it is reported unless the command was withdrawn, or
\* its deadline has been reported.
Perform(m) ==
    /\ working[m] > 0
    /\ working' = [working EXCEPT ![m] = @ - 1]
    /\ inFlight' = inFlight \ {m}
    /\ \/ /\ done' = [done EXCEPT !.performed = @ \cup {m}]
          /\ IF m \in inFlight THEN SendUp("ok", m) ELSE UNCHANGED up
       \/ /\ done' = [done EXCEPT !.refused = @ \cup {m}]
          /\ IF m \in inFlight THEN SendUp("failed", m) ELSE UNCHANGED up
    /\ UNCHANGED <<pc, on, server, transport, calls, frames, down, socket, lost, events>>

\* Mutant: the deadline is reported as a failure of the action.
ExpireFailed(m) ==
    /\ m \in inFlight
    /\ inFlight' = inFlight \ {m}
    /\ SendUp("failed", m)
    /\ UNCHANGED <<pc, on, server, transport, calls, frames, down, socket, lost, working,
                   done, events>>

\* The deadline passes in the extension: an error is sent, and the action goes on.
Expire(m) ==
    /\ m \in inFlight
    /\ inFlight' = inFlight \ {m}
    /\ SendUp("expired", m)
    /\ UNCHANGED <<pc, on, server, transport, calls, frames, down, socket, lost, working,
                   done, events>>

\* A page asks for a human, and has got one.
Verify ==
    /\ socket # NoConn /\ "verify" \in Event /\ events < MaxEvent
    /\ events' = events + 1
    /\ \E type \in {"verify", "resolved"} : SendUp(type, NoCmd)
    /\ UNCHANGED <<pc, on, server, transport, calls, frames, down, socket, lost, inFlight,
                   working, done>>

-----------------------------------------------------------------------------
CallStep(c) ==
    \/ StartCall(c) \/ GetState(c) \/ CheckState(c) \/ Acquire(c) \/ File(c)
    \/ Send(c) \/ Write(c) \/ Wait(c) \/ Cancel(c) \/ WriteCancel(c) \/ Finish(c)
    \/ Drop(c) \/ DropState(c)

ConnStep(k) ==
    \/ Register(k) \/ RegisterState(k) \/ Greet(k) \/ ReadFrame(k) \/ HandleAnswer(k)
    \/ Remember(k) \/ HandleState(k) \/ EndLoop(k) \/ Drop(k) \/ DropState(k)

AdminStep == RotateState \/ CloseTaken \/ StopState

ExtensionStep ==
    \/ LoseSocket \/ TakeCommand \/ Verify
    \/ \E k \in Conn : Connect(k)
    \/ \E m \in Cmd : Perform(m) \/ Expire(m)

Next ==
    \/ \E c \in Call : CallStep(c)
    \/ \E k \in Conn : ConnStep(k)
    \/ AdminStep \/ Rotate \/ Revoke \/ Stop
    \/ ExtensionStep

Spec == Init /\ [][Next]_vars

\* Threads go on, deadlines pass, and a closed socket is noticed.
Fairness ==
    /\ \A c \in Call : WF_vars(pc[c] # "idle" /\ CallStep(c))
    /\ \A k \in Conn : WF_vars(ConnStep(k))
    /\ WF_vars(AdminStep)

FairSpec == Spec /\ Fairness

-----------------------------------------------------------------------------
Label == {"idle", "state", "asking", "permit", "filing", "send", "write", "wait",
          "cancel", "withdraw", "drop", "dropping", "finish", "done",
          "handshake", "registering", "greet", "reading", "handle", "remember", "gone",
          "rotating", "closing", "stopping", "stopped"}
Told == Report \cup {"none", "reset", "timeout", "offline", "paused", "limit", "unsent"}
Frame == [type : Told \cup {"command", "cancel", "verify", "resolved"}, cmd : Cmd \cup {NoCmd}]

\* Every variable has its type, and the permits taken are those of the semaphore.
TypeOK ==
    /\ pc \in [Thread -> Label] /\ on \in [Thread -> Conn \cup {NoConn}]
    /\ active \in Conn \cup {NoConn} /\ closed \subseteq Conn /\ cut \subseteq Conn
    /\ pending \in [Cmd -> Call \cup {NoCall}]
    /\ mode \in {"disconnected", "connected", "busy", "verifying"}
    /\ used \in 0..limit /\ limit \in Limit
    /\ cache \in [Cmd -> Told] /\ outcome \in [Call -> Told]
    /\ cmd \in [Call -> Cmd \cup {NoCmd}] /\ answer \in [Call -> Told]
    /\ msg \in [Conn -> Frame] /\ target \in [Conn -> Call \cup {NoCall}]
    /\ down \in [Conn -> Seq(Frame)] /\ up \in [Conn -> Seq(Frame)]
    /\ socket \in Conn \cup {NoConn} /\ lost \subseteq Conn /\ inFlight \subseteq Cmd
    /\ working \in [Cmd -> Nat] /\ events \in Nat
    /\ done \in [performed : SUBSET Cmd, refused : SUBSET Cmd, withdrawn : SUBSET Cmd]

\* Another call uses, or once used, the same command id.
Shared(c) == \E d \in Call \ {c} : cmd[d] = cmd[c]

\* "Socket loss must release the caller immediately" (test_browser_bridge_e2e.py):
\* nobody waits for an answer from a connection that is gone, unless it was revoked
\* or stopped, it could not be greeted, or the command's id was used twice.
SocketLossReleases ==
    \A c \in Call :
        pc[c] = "wait" /\ outcome[c] = "none" /\ pc[on[c]] = "gone" /\ ServerFree
        => on[c] \in cut \/ on[c] = active \/ Shared(c)

\* With no call under way nothing is pending and the extension is not busy.
StateSettles ==
    (\A c \in Call : pc[c] \in {"idle", "state", "asking", "permit", "done"})
    => mode # "busy" /\ used = 0 /\ \A m \in Cmd : pending[m] = NoCall

\* A late thread never takes the connection away from a new owner.
OwnerKept ==
    [][\A k \in Conn : active = k /\ active' # k =>
           \/ k \in lost \cup closed
           \/ active' # NoConn /\ pc[active'] = "handshake"
           \/ pc'[Admin] # pc[Admin]]_vars

\* Two threads hold one lock each and want the other's.
LockCycle ==
    /\ \E t \in Thread : pc[t] \in ServerHeld
    /\ \E t \in Thread : pc[t] \in TransportHeld

\* Every command gets an answer by its deadline.
CommandsReturn == \A c \in Call : pc[c] = "state" ~> pc[c] = "done"

\* The same, unless threads have taken the two locks in opposite orders.
OnlyLocksBlock == \A c \in Call : pc[c] = "state" ~> (pc[c] = "done" \/ LockCycle)

\* A connection that was taken over, rotated or revoked comes to its end.
ReplacedEnds ==
    \A k \in Conn : (pc[k] = "reading" /\ active # k) ~> (pc[k] = "gone" \/ LockCycle)

\* The answer a call has been given, for a caller who does not see the gateway: after a
\* deadline, here or in the extension, the command may still be carried out.
Given(c) == IF pc[c] # "done" THEN "none"
            ELSE IF answer[c] \in {"ok", "failed", "cancelled"} THEN answer[c] ELSE "unknown"

Outcome == INSTANCE CommandOutcome
    WITH performed <- done.performed, refused <- done.refused, withdrawn <- done.withdrawn,
         answer <- [c \in Call |-> Given(c)]

\* A call is answered once, and what it is told of its command the extension did.
OutcomeSpec == Outcome!Spec
=============================================================================
