-------------------------- MODULE MeshRustClient --------------------------
(***************************************************************************)
(* The gateway's client of the Rust bridge (src/gateway/mesh-rust-client.ts)*)
(* composed with the WebSocket connections it opens and the request half   *)
(* of the bridge that answers on them (packages/core-rust/ws_bridge.rs).   *)
(*                                                                         *)
(* The client is a process-wide singleton.  connect() and stop() are       *)
(* called by the gateway's start and close; everything else is a callback: *)
(* socket events, the 5 s reconnect interval, the 5 s request timeouts.    *)
(* JavaScript runs each callback to completion, so each is one action.     *)
(***************************************************************************)
EXTENDS Naturals, FiniteSets

CONSTANTS
  Sockets,      \* identities of the WebSocket objects the client may create
  Requests,     \* identities of query()/listPeers() calls (ids "q-1", "p-2", ..)
  NoSocket,     \* this.ws === null
  MaxStops,     \* bound: how often the gateway is closed in one process
  MaxDrops      \* bound: how often a connection attempt or a connection fails

ASSUME NoSocketAssumption == NoSocket \notin Sockets
ASSUME BoundsAssumption == MaxStops \in Nat /\ MaxDrops \in Nat

VARIABLES
  ws,        \* this.ws
  timer,     \* this.reconnectTimer: null, a live interval, or a handle already cleared
  pending,   \* keys of this.pendingRequests
  settled,   \* what the promise of each call resolved to, "open" before that
  sock,      \* state of each WebSocket object (external: the ws library)
  asked,     \* requests written to a socket and not yet read by the bridge
  replies,   \* replies written by the bridge and not yet read by the client
  started,   \* the gateway is running (between startGatewayServer and close)
  stops,     \* bound counter for stop()
  drops      \* bound counter for failures

rustClientVars == <<ws, timer, pending, settled, sock, asked, replies, started, stops, drops>>
clientVars == <<ws, timer, pending, settled>>
wireVars == <<asked, replies>>
boundVars == <<stops, drops>>

SocketStates == {"unused", "connecting", "open", "closing", "closed"}
Outcomes == {"uncalled", "open", "value", "null"}

ClientInit ==
  /\ ws = NoSocket
  /\ timer = "null"
  /\ pending = {}
  /\ settled = [r \in Requests |-> "uncalled"]
  /\ sock = [s \in Sockets |-> "unused"]
  /\ asked = [s \in Sockets |-> {}]
  /\ replies = [s \in Sockets |-> {}]
  /\ started = FALSE
  /\ stops = 0
  /\ drops = 0

-----------------------------------------------------------------------------
\* isConnected(), and the first test of query() and listPeers().
IsConnected == ws # NoSocket /\ sock[ws] = "open"

\* Fault: connect() only looks for an open connection.
ConnectUnlessOpen ==
  IF IsConnected
  THEN UNCHANGED <<ws, sock>>
  ELSE \E s \in Sockets :
         /\ sock[s] = "unused"
         /\ ws' = s
         /\ sock' = [sock EXCEPT ![s] = "connecting"]

\* connect(): nothing while this.ws is set, otherwise a new WebSocket.
Connect ==
  IF ws # NoSocket
  THEN UNCHANGED <<ws, sock>>
  ELSE \E s \in Sockets :
         /\ sock[s] = "unused"
         /\ ws' = s
         /\ sock' = [sock EXCEPT ![s] = "connecting"]

\* startGatewayServer() calls connect() when the mesh is enabled.
GatewayStarts ==
  /\ ~started
  /\ started' = TRUE
  /\ Connect
  /\ UNCHANGED <<timer, pending, settled, wireVars, boundVars>>

\* The reconnect interval fires: connect() again.
ReconnectTick ==
  /\ timer = "running"
  /\ Connect
  /\ UNCHANGED <<timer, pending, settled, wireVars, started, boundVars>>

\* Fault: the "open" handler clears the interval but keeps its handle.
OnOpenKeepsHandle(s) ==
  /\ sock[s] = "connecting"
  /\ sock' = [sock EXCEPT ![s] = "open"]
  /\ timer' = IF timer = "running" THEN "stale" ELSE timer
  /\ UNCHANGED <<ws, pending, settled, wireVars, started, boundVars>>

\* The "open" handler: an interval still stored is cleared and forgotten.
OnOpen(s) ==
  /\ sock[s] = "connecting"
  /\ sock' = [sock EXCEPT ![s] = "open"]
  /\ timer' = "null"
  /\ UNCHANGED <<ws, pending, settled, wireVars, started, boundVars>>

\* The network or the Rust process drops a connection or refuses an attempt.
Drop(s) ==
  /\ sock[s] \in {"connecting", "open"}
  /\ drops < MaxDrops
  /\ drops' = drops + 1
  /\ sock' = [sock EXCEPT ![s] = "closing"]
  /\ UNCHANGED <<clientVars, wireVars, started, stops>>

\* The "close" handler: this.ws is cleared whichever socket closed, and an
\* interval is started unless a handle is already stored.
OnClose(s) ==
  /\ sock[s] = "closing"
  /\ sock' = [sock EXCEPT ![s] = "closed"]
  /\ ws' = NoSocket
  /\ timer' = IF timer = "null" THEN "running" ELSE timer
  /\ asked' = [asked EXCEPT ![s] = {}]
  /\ replies' = [replies EXCEPT ![s] = {}]
  /\ UNCHANGED <<pending, settled, started, boundVars>>

\* query(key) and listPeers(): null (or []) at once without a connection,
\* otherwise the request is stored with its timeout and sent.
Call(r) ==
  /\ settled[r] = "uncalled"
  /\ IF IsConnected
     THEN /\ settled' = [settled EXCEPT ![r] = "open"]
          /\ pending' = pending \cup {r}
          /\ asked' = [asked EXCEPT ![ws] = @ \cup {r}]
     ELSE /\ settled' = [settled EXCEPT ![r] = "null"]
          /\ UNCHANGED <<pending, asked>>
  /\ UNCHANGED <<ws, timer, sock, replies, started, boundVars>>

\* ws_bridge.rs: the connection's task reads one request and replies on the
\* same connection.
BridgeReply(s, r) ==
  /\ sock[s] = "open"
  /\ r \in asked[s]
  /\ asked' = [asked EXCEPT ![s] = @ \ {r}]
  /\ replies' = [replies EXCEPT ![s] = @ \cup {r}]
  /\ UNCHANGED <<clientVars, sock, started, boundVars>>

\* The "message" handler on a reply: it settles a request that is still
\* stored; a reply to a request no longer stored is emitted as a mesh message.
OnReply(s, r) ==
  /\ sock[s] \in {"open", "closing"}
  /\ r \in replies[s]
  /\ replies' = [replies EXCEPT ![s] = @ \ {r}]
  /\ IF r \in pending
     THEN /\ settled' = [settled EXCEPT ![r] = "value"]
          /\ pending' = pending \ {r}
     ELSE UNCHANGED <<settled, pending>>
  /\ UNCHANGED <<ws, timer, sock, asked, started, boundVars>>

\* Fault: the timeout counts only as long as there is a connection.
OnTimeoutConnected(r) ==
  /\ r \in pending /\ IsConnected
  /\ pending' = pending \ {r}
  /\ settled' = [settled EXCEPT ![r] = "null"]
  /\ UNCHANGED <<ws, timer, sock, wireVars, started, boundVars>>

\* The 5 s timeout of a request; the reply handler clears it.
OnTimeout(r) ==
  /\ r \in pending
  /\ pending' = pending \ {r}
  /\ settled' = [settled EXCEPT ![r] = "null"]
  /\ UNCHANGED <<ws, timer, sock, wireVars, started, boundVars>>

\* stop(), from the gateway's close(): the interval is cleared but its handle
\* stays stored, the socket is told to close and forgotten.
GatewayCloses ==
  /\ started
  /\ stops < MaxStops
  /\ stops' = stops + 1
  /\ started' = FALSE
  /\ timer' = IF timer = "running" THEN "stale" ELSE timer
  /\ sock' = IF ws # NoSocket /\ sock[ws] \in {"connecting", "open"}
             THEN [sock EXCEPT ![ws] = "closing"]
             ELSE sock
  /\ ws' = NoSocket
  /\ UNCHANGED <<pending, settled, wireVars, drops>>

SocketStep(s) ==
  \/ OnOpen(s)
  \/ Drop(s)
  \/ OnClose(s)
  \/ \E r \in Requests : BridgeReply(s, r) \/ OnReply(s, r)

ClientNext ==
  \/ GatewayStarts
  \/ GatewayCloses
  \/ ReconnectTick
  \/ \E s \in Sockets : SocketStep(s)
  \/ \E r \in Requests : Call(r) \/ OnTimeout(r)

\* Timers fire, and the ws library opens or fails every attempt and reports
\* every close; nobody has to call, start or stop anything.
ClientFairness ==
  /\ WF_rustClientVars(ReconnectTick)
  /\ \A s \in Sockets : WF_rustClientVars(OnOpen(s)) /\ WF_rustClientVars(OnClose(s))
  /\ \A r \in Requests : WF_rustClientVars(OnTimeout(r))

ClientSpec == ClientInit /\ [][ClientNext]_rustClientVars /\ ClientFairness

-----------------------------------------------------------------------------
\* Types, and the pieces of client state that must agree: a request is stored
\* exactly while its promise is unsettled.
ClientTypeOK ==
  /\ ws \in Sockets \cup {NoSocket}
  /\ timer \in {"null", "running", "stale"}
  /\ pending \subseteq Requests
  /\ settled \in [Requests -> Outcomes]
  /\ sock \in [Sockets -> SocketStates]
  /\ asked \in [Sockets -> SUBSET Requests]
  /\ replies \in [Sockets -> SUBSET Requests]
  /\ started \in BOOLEAN
  /\ stops \in 0..MaxStops
  /\ drops \in 0..MaxDrops

\* query() keeps an entry in pendingRequests exactly as long as its promise is
\* unsettled: a reply, a timeout, a lost connection or a restart of the client
\* in any order leaves neither a leaked entry nor a caller without a timeout.
PendingMatchesPromises == \A r \in Requests : r \in pending <=> settled[r] = "open"

\* The promises that query() and listPeers() return, as OneShot has them.
Promise ==
  [r \in Requests |-> CASE settled[r] = "value" -> "answered"
                        [] settled[r] = "null" -> "refused"
                        [] OTHER -> settled[r]]

Promises == INSTANCE OneShot WITH Calls <- Requests, promise <- Promise

\* A call of query() or listPeers() ends exactly once, whatever the order of
\* its reply, its timeout, the loss of the connection and the restart of the
\* client: no caller waits for ever, and a late reply changes nothing.
KeepsPromises == Promises!Spec

\* While the gateway has never been closed, the client has at most one
\* connection it could receive on, and it is this.ws: the interval, failed
\* attempts and drops never make a second one that delivers events twice.
OneLiveSocket ==
  stops = 0 => \A s \in Sockets : sock[s] \in {"connecting", "open"} => ws = s

\* While the gateway runs and is never closed, the client ends up connected
\* after any finite number of refused and lost connections.
Reconnects == <>started /\ [](stops = 0) => <>[]IsConnected
=============================================================================
