------------------------------ MODULE Connection ------------------------------
(***************************************************************************)
(* The one WebSocket between the gateway and the daemon of one computer:   *)
(* the handshake (serve in hub.py, serve in client.ts), a new connection   *)
(* that supersedes the old one, what tells either side that the other is   *)
(* gone, the row that shows the computer as connected, and the callers of  *)
(* send_instr that wait for an answer.                                     *)
(*                                                                         *)
(* Sockets are numbered in the order in which the daemon opened them. On   *)
(* the server each has a coroutine, which may still be running when that   *)
(* of a later one begins. A silent wire carries nothing and tells nobody;  *)
(* of a broken one each side learns when it looks.                         *)
(*                                                                         *)
(* What every module of this project has is called Link... here, so that   *)
(* AgentRuntime, whose instructions arrive this way, can be read beside it. *)
(***************************************************************************)
EXTENDS Integers

CONSTANTS
  MaxSocks,              \* how many sockets the daemon may open
  Calls,                 \* callers of send_instr, all for one agent
  Kinds, Budget          \* the faults that occur, and how many of them in all

\* "slow": a peer that takes longer than the other one's timer;
\* "write": a transaction of the gateway that fails; "exit": the daemon's end.
Faults == {"cut", "silent", "slow", "write", "restart", "exit"}

ASSUME ConnectionAssumption ==
  /\ MaxSocks \in Nat
  /\ Kinds \subseteq Faults /\ Budget \in Nat

Socks == 1..MaxSocks
None  == 0

VARIABLES
  phase,                 \* where the server's coroutine for a socket stands
  old,                   \* the connection it has taken out of the table
  registered,            \* DaemonHub._conns for this computer
  superseded,            \* connections whose flag says so
  row,                   \* computers.status
  wire, hello, acked,    \* the sockets; those that carried a hello, a hello_ack
  daemon, mine,          \* the daemon's main loop and its transport
  call,                  \* callers: how far they are, on which connection
  late,                  \* a handshake was continued after a later one had begun
  stale,                 \* what took the connection away did not reach the row
  left                   \* the remaining fault budget

serverVars == <<phase, old, registered, superseded, row>>
wireVars   == <<wire, hello, acked>>
daemonVars == <<daemon, mine>>
linkVars == <<serverVars, wireVars, daemonVars, call, late, stale, left>>

Phases == {"none", "asking", "closing", "hello", "acking", "serving", "ended"}
Begun  == {"closing", "hello", "acking", "serving"}

Spend(fault) ==
  /\ fault \in Kinds /\ left > 0
  /\ left' = left - 1

LinkInit ==
  /\ phase = [c \in Socks |-> "none"] /\ old = [c \in Socks |-> None]
  /\ registered = None /\ superseded = {} /\ row = "offline"
  /\ wire = [c \in Socks |-> "up"] /\ hello = {} /\ acked = {}
  /\ daemon = "down" /\ mine = None
  /\ call = [k \in Calls |-> [at |-> "idle", on |-> None]]
  /\ late = FALSE /\ stale = FALSE /\ left = Budget

Enter(c, p) == phase' = [phase EXCEPT ![c] = p]

\* The coroutine of c goes on although that of a later socket has begun.
Later(c)    == \E d \in Socks : d > c /\ phase[d] \in Begun
Overtake(c) == late' = (late \/ Later(c))

\* Closing a wire that carries something reaches the other side.
Shut(c) == [wire EXCEPT ![c] = IF @ = "up" THEN "broken" ELSE @]

-----------------------------------------------------------------------------
(* The coroutine serve(c) *)

\* Up to the first await: the key is looked up and the old connection is taken
\* out of the table.
Begin(c) ==
  /\ phase[c] = "asking"
  /\ Enter(c, "closing")
  /\ old' = [old EXCEPT ![c] = registered]
  /\ superseded' = superseded \cup ({registered} \ {None})
  /\ registered' = None
  /\ Overtake(c)
  /\ UNCHANGED <<row, wireVars, daemonVars, call, stale, left>>

\* The old socket is closed, however that ends, and the new one accepted.
Accept(c) ==
  /\ phase[c] = "closing"
  /\ Enter(c, "hello")
  /\ wire' = IF old[c] = None THEN wire ELSE Shut(old[c])
  /\ UNCHANGED <<old, registered, superseded, row, hello, acked, daemonVars,
                 call, late, stale, left>>

\* A handshake that ends unregistered has nothing to tear down: the row keeps
\* showing the connection that it took away.
Drop(c) ==
  /\ Enter(c, "ended")
  /\ wire' = Shut(c)
  /\ stale' = (stale \/ (row = "connected" /\ registered = None))
  /\ UNCHANGED <<old, registered, superseded, row, hello, acked, daemonVars, call, late>>

\* _recv_hello and _register_hello, whose transaction may fail.
ReadHello(c) ==
  /\ phase[c] = "hello" /\ c \in hello
  /\ \/ /\ Enter(c, "acking")
        /\ row' = "connected"
        /\ Overtake(c)
        /\ UNCHANGED <<old, registered, superseded, wireVars, daemonVars, call, stale, left>>
     \/ Spend("write") /\ Drop(c)

\* hello_ack, then the entry in the table; the send may raise on a broken wire.
Register(c) ==
  /\ phase[c] = "acking"
  /\ \/ /\ Enter(c, "serving")
        /\ registered' = c
        /\ acked' = IF wire[c] = "up" THEN acked \cup {c} ELSE acked
        /\ stale' = FALSE
        /\ Overtake(c)
        /\ UNCHANGED <<old, superseded, row, wire, hello, daemonVars, call, left>>
     \/ wire[c] = "broken" /\ Drop(c) /\ UNCHANGED left

\* A caller that has its answer, or an error.
Back == [at |-> "back", on |-> None]

\* The callers that wait on c get an error.
Failed(c) ==
  [k \in Calls |-> IF call[k].at = "waiting" /\ call[k].on = c THEN Back ELSE call[k]]

\* (mutant) any connection that ends shows the computer as offline
Teardown_Any(c) ==
  /\ Enter(c, "ended")
  /\ wire' = Shut(c)
  /\ \/ registered' = None /\ row' = "offline" /\ call' = Failed(c) /\ UNCHANGED <<stale, left>>
     \/ /\ registered = c /\ Spend("write")
        /\ registered' = None /\ stale' = TRUE /\ UNCHANGED <<row, call>>
  /\ UNCHANGED <<old, superseded, hello, acked, daemonVars, late>>

\* (mutant) the connection stays in the table
Teardown_NoPop(c) ==
  /\ Enter(c, "ended")
  /\ wire' = Shut(c) /\ call' = Failed(c)
  /\ row' = IF registered = c THEN "offline" ELSE row
  /\ UNCHANGED <<registered, old, superseded, hello, acked, daemonVars, late, stale, left>>

\* _teardown: only the registered connection changes the row, in a transaction
\* whose failure also keeps the waiting callers from being told.
Teardown(c) ==
  /\ Enter(c, "ended")
  /\ wire' = Shut(c)
  /\ \/ /\ registered # c /\ call' = Failed(c)
        /\ UNCHANGED <<registered, row, stale, left>>
     \/ /\ registered = c /\ registered' = None
        /\ row' = "offline" /\ call' = Failed(c)
        /\ UNCHANGED <<stale, left>>
     \/ /\ registered = c /\ registered' = None
        /\ Spend("write") /\ stale' = TRUE
        /\ UNCHANGED <<row, call>>
  /\ UNCHANGED <<old, superseded, hello, acked, daemonVars, late>>

\* (mutant) nobody misses the pings of a silent daemon
Notice_NoHeartbeat(c) ==
  /\ wire[c] = "broken"
  /\ \/ phase[c] = "hello" /\ Drop(c) /\ UNCHANGED left
     \/ phase[c] = "serving" /\ Teardown(c)

\* The read of a broken wire ends; a silent one is closed by the heartbeat loop
\* (60 s without a ping) or the WebSocket library's keepalive.
Notice(c) ==
  /\ wire[c] # "up"
  /\ \/ phase[c] = "hello" /\ Drop(c) /\ UNCHANGED left
     \/ phase[c] = "serving" /\ Teardown(c)

Serve(c) == Begin(c) \/ Accept(c) \/ ReadHello(c) \/ Register(c) \/ Notice(c)

-----------------------------------------------------------------------------
(* The daemon's main loop *)

\* The next socket, for ever (backoff only delays it).
Connect(c) ==
  /\ daemon = "down" /\ phase[c] = "none" /\ \A d \in 1..(c - 1) : phase[d] # "none"
  /\ daemon' = "opening" /\ mine' = c
  /\ Enter(c, "asking")
  /\ UNCHANGED <<old, registered, superseded, row, wireVars, call, late, stale, left>>

\* The transport is given up and closed.
Leave == daemon' = "down" /\ mine' = None

\* No open event within 10 s.
OpenTimeout ==
  /\ daemon = "opening"
  /\ \/ wire[mine] = "silent" /\ UNCHANGED left
     \/ Spend("slow")
  /\ Leave /\ wire' = Shut(mine)
  /\ UNCHANGED <<serverVars, hello, acked, call, late, stale>>

\* The open event.
Opened ==
  /\ daemon = "opening" /\ phase[mine] = "hello" /\ wire[mine] = "up"
  /\ daemon' = "open"
  /\ UNCHANGED <<serverVars, wireVars, mine, call, late, stale, left>>

\* After the probe of the runtimes; into nothing if the wire is silent by then.
SayHello ==
  /\ daemon = "open" /\ wire[mine] # "broken"
  /\ daemon' = "hello"
  /\ hello' = IF wire[mine] = "up" THEN hello \cup {mine} ELSE hello
  /\ UNCHANGED <<serverVars, wire, acked, mine, call, late, stale, left>>

GotAck ==
  /\ daemon = "hello" /\ mine \in acked
  /\ daemon' = "connected"
  /\ UNCHANGED <<serverVars, wireVars, mine, call, late, stale, left>>

\* The close event; of a silent wire that was closed it comes when the system
\* gives the connection up.
Closed ==
  /\ daemon \in {"opening", "open", "hello", "connected", "closing"}
  /\ wire[mine] = "broken" \/ (wire[mine] = "silent" /\ daemon = "closing")
  /\ Leave
  /\ UNCHANGED <<serverVars, wireVars, call, late, stale, left>>

\* (mutant) a missing pong is only logged
PongTimeout_Logged ==
  /\ daemon = "connected" /\ Spend("slow")
  /\ UNCHANGED <<serverVars, wireVars, daemonVars, call, late, stale>>

\* No pong within the timeout: the close of the transport begins, and the reader
\* goes on waiting for its event.
PongTimeout ==
  /\ daemon = "connected"
  /\ \/ wire[mine] = "silent" /\ UNCHANGED left
     \/ Spend("slow")
  /\ daemon' = "closing" /\ wire' = Shut(mine)
  /\ UNCHANGED <<serverVars, hello, acked, mine, call, late, stale>>

Daemon ==
  \/ \E c \in Socks : Connect(c)
  \/ OpenTimeout \/ Opened \/ SayHello \/ GotAck \/ Closed \/ PongTimeout

-----------------------------------------------------------------------------
(* Callers of send_instr *)

At(k, step) == call[k].at = step
Return(k) == call' = [call EXCEPT ![k] = Back]

\* The caller looks the connection up, then waits for the agent's lock on it.
Take(k) ==
  /\ At(k, "idle") /\ registered # None
  /\ call' = [call EXCEPT ![k] = [at |-> "queued", on |-> registered]]
  /\ UNCHANGED <<serverVars, wireVars, daemonVars, late, stale, left>>

Busy(c)  == \E k \in Calls : At(k, "waiting") /\ call[k].on = c
Usable(c) == phase[c] = "serving" /\ \A d \in Socks : old[d] = c => phase[d] = "closing"

\* With the lock: the frame is sent, unless the socket is known to be closed.
Send(k) ==
  /\ At(k, "queued") /\ ~Busy(call[k].on)
  /\ \/ Usable(call[k].on) /\ call' = [call EXCEPT ![k].at = "waiting"]
     \/ (~Usable(call[k].on) \/ wire[call[k].on] = "broken") /\ Return(k)
  /\ UNCHANGED <<serverVars, wireVars, daemonVars, late, stale, left>>

\* The daemon, whose handlers all end, answers.
Answer(k) ==
  /\ At(k, "waiting")
  /\ daemon = "connected" /\ mine = call[k].on
  /\ wire[mine] = "up" /\ phase[mine] = "serving"
  /\ Return(k)
  /\ UNCHANGED <<serverVars, wireVars, daemonVars, late, stale, left>>

\* (mutant) only a superseded connection ends the retries
Expire_SupersededOnly(k) ==
  /\ At(k, "waiting") /\ call[k].on \in superseded
  /\ Return(k)
  /\ UNCHANGED <<serverVars, wireVars, daemonVars, late, stale, left>>

\* The 10 s timer: the frame is sent again, which changes nothing here, unless
\* the connection is superseded or closed.
Expire(k) ==
  /\ At(k, "waiting")
  /\ call[k].on \in superseded \/ phase[call[k].on] = "ended"
  /\ Return(k)
  /\ UNCHANGED <<serverVars, wireVars, daemonVars, late, stale, left>>

Caller(k) == Send(k) \/ Answer(k) \/ Expire(k)

-----------------------------------------------------------------------------
(* Faults *)

Fail ==
  /\ mine # None /\ wire[mine] = "up"
  /\ \E fault \in {"cut", "silent"} :
       /\ Spend(fault)
       /\ wire' = [wire EXCEPT ![mine] = IF fault = "cut" THEN "broken" ELSE "silent"]
  /\ UNCHANGED <<serverVars, hello, acked, daemonVars, call, late, stale>>

\* The server is killed and starts again: coroutines and callers are gone, the
\* row stays.
ServerRestart ==
  /\ Spend("restart")
  /\ phase' = [c \in Socks |-> IF phase[c] = "none" THEN "none" ELSE "ended"]
  /\ wire' = [c \in Socks |-> IF phase[c] # "none" /\ wire[c] = "up" THEN "broken" ELSE wire[c]]
  /\ registered' = None
  /\ stale' = (stale \/ row = "connected")
  /\ call' = [k \in Calls |-> IF call[k].at \in {"queued", "waiting"} THEN Back ELSE call[k]]
  /\ UNCHANGED <<old, superseded, row, hello, acked, daemonVars, late>>

\* The daemon exits for good.
Exit ==
  /\ daemon # "exited" /\ Spend("exit")
  /\ daemon' = "exited" /\ mine' = None
  /\ wire' = IF mine = None THEN wire ELSE Shut(mine)
  /\ UNCHANGED <<serverVars, hello, acked, call, late, stale>>

LinkNext ==
  \/ \E c \in Socks : Serve(c)
  \/ Daemon
  \/ \E k \in Calls : Take(k) \/ Caller(k)
  \/ Fail \/ ServerRestart \/ Exit

LinkSpec == LinkInit /\ [][LinkNext]_linkVars

\* The event loop schedules every coroutine, a dead peer is noticed, the daemon
\* reconnects for ever and its timers fire. Nobody has to call.
LinkFairness ==
  /\ \A c \in Socks : WF_linkVars(Serve(c))
  /\ WF_linkVars(Daemon)
  /\ \A k \in Calls : WF_linkVars(Caller(k))

LinkFairSpec == LinkSpec /\ LinkFairness

-----------------------------------------------------------------------------
(* Properties *)

ServerTypes ==
  /\ phase \in [Socks -> Phases] /\ old \in [Socks -> Socks \cup {None}]
  /\ registered \in Socks \cup {None} /\ superseded \subseteq Socks
  /\ row \in {"offline", "connected"}

DaemonTypes ==
  /\ wire \in [Socks -> {"up", "silent", "broken"}]
  /\ hello \subseteq Socks /\ acked \subseteq hello
  /\ daemon \in {"down", "opening", "open", "hello", "connected", "closing", "exited"}
  /\ mine \in Socks \cup {None} /\ (mine = None <=> daemon \in {"down", "exited"})

\* Every variable keeps its type; only a connection that is served is in the
\* table, and only one that said hello was acknowledged.
LinkTypeInv ==
  /\ ServerTypes /\ DaemonTypes
  /\ registered # None => phase[registered] = "serving"
  /\ call \in [Calls -> [at : {"idle", "queued", "waiting", "back"}, on : Socks \cup {None}]]
  /\ late \in BOOLEAN /\ stale \in BOOLEAN /\ left \in Nat

\* One live connection per computer (class DaemonHub, _teardown): a daemon that is
\* connected over a working wire is in the table and shown as connected, whatever
\* older connections do meanwhile, and whoever else is still served knows that it
\* is superseded - unless a handshake went on after a later one had begun.
OneLive ==
  ~late =>
    /\ daemon = "connected" /\ wire[mine] = "up" => registered = mine /\ row = "connected"
    /\ \A c \in Socks : phase[c] = "serving" => c = registered \/ c \in superseded

\* A computer whose daemon has exited is shown offline in the end, unless what
\* took its last connection away failed before it reached the row (a handshake,
\* the teardown's transaction, the server itself).
PresenceSettles == []<>(daemon # "exited" \/ row = "offline" \/ stale \/ late)

\* After the faults the computer is connected again, on both sides, unless the
\* wire went silent between the open event and hello_ack, which has no timeout.
Together == daemon = "connected" /\ registered = mine /\ row = "connected"
Stuck    == daemon = "hello" /\ wire[mine] = "silent"
Reconnects == []<>(Together \/ Stuck \/ daemon = "exited" \/ late)

\* Every caller of send_instr returns: no lost answer, superseded connection or
\* failed teardown leaves one waiting, or the lock taken for the next.
CallersReturn ==
  \A k \in Calls : []<>(call[k].at \notin {"queued", "waiting"})
=============================================================================
