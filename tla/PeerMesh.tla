------------------------------- MODULE PeerMesh -------------------------------
(* The client's libp2p node and what the main process keeps about it: the   *)
(* node is started when the WebSocket connects and by startMesh, and        *)
(* stopped by stopMesh and by a start that finds one; peers are asked for   *)
(* through the WebSocket, with one slot for whoever waits for the answer; a *)
(* peer that is lost is dialled again by a chain of timers, and the         *)
(* directory is asked when the chain gives up.  The dev panel, its interval *)
(* and the counts it shows are left out.                                    *)
(*                                                                          *)
(* libp2p is external: a node is up from its creation until stop, closes    *)
(* its connections while it stops, and tells its listeners of every peer    *)
(* that comes and goes.  The messages on the topics are left out.           *)
EXTENDS ClientSocket, Naturals, FiniteSets

CONSTANTS
  Peers,
  Channels,
  MaxNodes,  \* bound on the nodes started
  MaxChains, \* bound on the retry chains alive at one time
  MaxTries   \* MAX_RECONNECT_BEFORE_DIRECTORY

ASSUME MeshAssumption ==
  /\ MaxNodes \in Nat /\ MaxChains \in Nat
  /\ MaxTries \in Nat \ {0}

VARIABLES
  current,     \* p2pNode, 0 for null
  serverId,    \* serverPeerIdStr is known
  fingerprint, \* serverFingerprint is known
  channels,    \* currentChannelIds
  node,        \* the libp2p nodes
  start,       \* the calls of startP2PNode, by the node each makes
  stops,       \* the calls of stopP2PNode that wait
  slot,        \* pendingDirectoryResolve: who waits, if anyone
  asked,       \* the callers whose question has neither answer nor timeout
  lostPeers,   \* reconnectStates: the chain of each peer, 0 for none
  chain        \* the retry chains

nodeVars == <<current, serverId, node, start, stops>>
askVars == <<slot, asked>>
retryVars == <<lostPeers, chain>>
meshVars == <<nodeVars, fingerprint, channels, askVars, retryVars>>
vars == <<socketVars, meshVars>>

Nodes == 1..MaxNodes
Chains == 1..MaxChains

(* Who asks: the start of a node, or a call nobody waits for (at most one   *)
(* of these at a time).                                                     *)
Askers == 0..MaxNodes

NoNode == [life |-> "none", topics |-> {}, linked |-> {}, listeners |-> 0]
NotStarted == [at |-> "no", mesh |-> FALSE, of |-> 0]
Over == [at |-> "over", mesh |-> FALSE, of |-> 0]
NoChain == [at |-> "none", node |-> 0, peer |-> 0, try |-> 0]

MeshInit ==
  /\ current = 0 /\ serverId = FALSE /\ fingerprint = FALSE
  /\ channels = {}
  /\ node = [n \in Nodes |-> NoNode]
  /\ start = [n \in Nodes |-> NotStarted]
  /\ stops = {}
  /\ slot = {} /\ asked = {}
  /\ lostPeers = [p \in Peers |-> 0]
  /\ chain = [c \in Chains |-> NoChain]

Init == SocketInit /\ MeshInit

------------------------------------------------------------------------------
(* Stopping.                                                                *)

(* node.stop() of the node there is: the first call closes it, a later one  *)
(* returns at once.                                                         *)
StopCalled(by) ==
  /\ stops' = stops \cup {[by |-> by, of |-> current, first |-> node[current].life = "up"]}
  /\ node' = [node EXCEPT ![current].life = IF @ = "up" THEN "stopping" ELSE @]

(* libp2p has closed every connection.                                      *)
NodeStops(n) ==
  /\ node[n].life = "stopping" /\ node[n].linked = {}
  /\ node' = [node EXCEPT ![n] = [NoNode EXCEPT !.life = "down"]]
  /\ UNCHANGED <<socketVars, current, serverId, start, stops, fingerprint, channels,
                 askVars, retryVars>>

(* stopP2PNode goes on: whatever node there is now is forgotten, and the    *)
(* start that called it, if one did, goes on.                               *)
StopReturns(s) ==
  /\ s \in stops
  /\ s.first => node[s.of].life = "down"
  /\ stops' = stops \ {s}
  /\ current' = 0 /\ serverId' = FALSE
  /\ start' = IF s.by = 0 THEN start ELSE [start EXCEPT ![s.by].at = "info"]
  /\ UNCHANGED <<socketVars, node, fingerprint, channels, askVars, retryVars>>

(* clearReconnectionState: the timers of the chains that reconnectStates    *)
(* holds; one that is dialling goes on.                                     *)
ClearReconnectionState ==
  /\ lostPeers' = [p \in Peers |-> 0]
  /\ chain' = [c \in Chains |->
                 IF chain[c].at = "waiting" /\ \E p \in Peers : lostPeers[p] = c
                 THEN NoChain ELSE chain[c]]

(* stopMesh; at most one call of it waits at a time.                        *)
StopMesh ==
  /\ \A s \in stops : s.by # 0
  /\ ClearReconnectionState
  /\ IF current = 0 THEN UNCHANGED <<stops, node>> ELSE StopCalled(0)
  /\ UNCHANGED <<socketVars, current, serverId, start, fingerprint, channels, askVars>>

------------------------------------------------------------------------------
(* Starting.                                                                *)

(* startP2PNode, up to its first await.                                     *)
Started(n, mesh) ==
  /\ start[n].at = "no" /\ \A m \in 1..(n - 1) : start[m].at # "no"
  /\ IF current = 0
     THEN /\ start' = [start EXCEPT ![n] = [at |-> "info", mesh |-> mesh, of |-> 0]]
          /\ UNCHANGED <<stops, node>>
     ELSE /\ start' = [start EXCEPT ![n] = [at |-> "stopping", mesh |-> mesh, of |-> 0]]
          /\ StopCalled(n)

(* The listener of the socket's status: connected, and no node yet.         *)
AutoStart ==
  IF status # "connected" /\ current = 0
  THEN \/ \E n \in Nodes : Started(n, FALSE)
       \/ (\A n \in Nodes : start[n].at # "no") /\ UNCHANGED <<start, stops, node>>
  ELSE UNCHANGED <<start, stops, node>>

(* startMesh.                                                               *)
StartMesh(n) ==
  /\ Started(n, TRUE)
  /\ UNCHANGED <<socketVars, current, serverId, fingerprint, channels, askVars,
                 retryVars>>

(* The identity is locked, the server's answer or the creation failed.      *)
StartFails(n) ==
  /\ start[n].at \in {"info", "creating"}
  /\ start' = [start EXCEPT ![n] = Over]
  /\ UNCHANGED <<socketVars, current, serverId, node, stops, fingerprint, channels,
                 askVars, retryVars>>

(* The server's address.                                                    *)
InfoArrives(n) ==
  /\ start[n].at = "info"
  /\ start' = [start EXCEPT ![n].at = "creating"]
  /\ serverId' = TRUE
  /\ UNCHANGED <<socketVars, current, node, stops, fingerprint, channels, askVars,
                 retryVars>>

(* The node runs and is the one from now on; the server is dialled.         *)
NodeCreated(n) ==
  /\ start[n].at = "creating"
  /\ start' = [start EXCEPT ![n].at = "dialling"]
  /\ node' = [node EXCEPT ![n].life = "up"]
  /\ current' = n
  /\ UNCHANGED <<socketVars, serverId, stops, fingerprint, channels, askVars, retryVars>>

(* Dialled, or not: an automatic start ends here.                           *)
AutoStartEnds(n) ==
  /\ start[n].at = "dialling" /\ ~start[n].mesh
  /\ start' = [start EXCEPT ![n] = Over]
  /\ UNCHANGED <<socketVars, current, serverId, node, stops, fingerprint, channels,
                 askVars, retryVars>>

------------------------------------------------------------------------------
(* Questions to the server.                                                 *)

(* The one slot is taken, whoever waits in it; if the socket is not open    *)
(* the caller fails at once and the slot is empty.                          *)
Ask(by) ==
  IF CanSend
  THEN /\ by \notin asked
       /\ slot' = {by}
       /\ asked' = asked \cup {by}
  ELSE /\ slot' = {}
       /\ UNCHANGED asked

(* An answer, be it to an earlier question, goes to whoever is in the slot. *)
Answered ==
  /\ slot # {} /\ CanSend
  /\ asked' = asked \ slot
  /\ slot' = {}
  /\ UNCHANGED <<socketVars, nodeVars, fingerprint, channels, retryVars>>

(* Altered: the slot keeps the caller that gave up.                         *)
TimedOutStays(by) ==
  /\ by \in asked
  /\ asked' = asked \ {by}
  /\ UNCHANGED <<socketVars, nodeVars, fingerprint, channels, slot, retryVars>>

(* Altered: only the caller in the slot is told.                            *)
TimedOutInSlot(by) ==
  /\ by \in asked /\ slot = {by}
  /\ asked' = asked \ {by}
  /\ slot' = {}
  /\ UNCHANGED <<socketVars, nodeVars, fingerprint, channels, retryVars>>

(* The ten seconds of a caller are over: it fails, and the slot is emptied  *)
(* of whoever is in it.                                                     *)
TimedOut(by) ==
  /\ by \in asked
  /\ asked' = asked \ {by}
  /\ slot' = {}
  /\ UNCHANGED <<socketVars, nodeVars, fingerprint, channels, retryVars>>

(* subscribeToChannels and unsubscribeFromChannel, on the node there is.    *)
Subscribe(chs) == node' = [node EXCEPT ![current].topics = @ \cup chs]
Unsubscribe(ch) == node' = [node EXCEPT ![current].topics = @ \ {ch}]

(* startMesh after startP2PNode: the topics of the node there is now, then  *)
(* the directory.                                                           *)
JoinTopics(n) ==
  /\ start[n].at = "dialling" /\ start[n].mesh
  /\ IF current = 0
     THEN /\ start' = [start EXCEPT ![n] = Over]
          /\ UNCHANGED <<fingerprint, node, askVars>>
     ELSE /\ start' = [start EXCEPT ![n].at = "asking", ![n].of = current]
          /\ fingerprint' = serverId
          /\ IF serverId
             THEN Subscribe(channels)
             ELSE UNCHANGED node
          /\ Ask(n)
  /\ UNCHANGED <<socketVars, current, serverId, stops, channels, retryVars>>

(* The directory has answered, or not: the peer id is registered, a second  *)
(* question with a slot and a time-out of its own, which are left out.      *)
Register(n) ==
  /\ start[n].at = "asking" /\ n \notin asked
  /\ start' = [start EXCEPT ![n].at = "registering"]
  /\ UNCHANGED <<socketVars, current, serverId, node, stops, fingerprint, channels, askVars,
                 retryVars>>

(* Registered, or not: the listeners are added to the node; one that is     *)
(* down will tell them nothing.                                             *)
MeshStarted(n) ==
  /\ start[n].at = "registering"
  /\ start' = [start EXCEPT ![n] = Over]
  /\ node' = [node EXCEPT ![start[n].of].listeners =
                IF node[start[n].of].life = "down" THEN 0 ELSE @ + 1]
  /\ UNCHANGED <<socketVars, current, serverId, stops, fingerprint, channels, askVars,
                 retryVars>>

------------------------------------------------------------------------------
(* Peers.                                                                   *)

Free == {c \in Chains : chain[c].at = "none" /\ \A p \in Peers : lostPeers[p] # c}

(* The peer:connect listener: the chain reconnectStates has for the peer is *)
(* forgotten, with its timer.                                               *)
PeerConnected(n, p, chains) ==
  LET c == lostPeers[p] IN
  IF node[n].listeners = 0 \/ c = 0
  THEN chain' = chains /\ UNCHANGED lostPeers
  ELSE /\ lostPeers' = [lostPeers EXCEPT ![p] = 0]
       /\ chain' = IF chains[c].at = "waiting" THEN [chains EXCEPT ![c] = NoChain] ELSE chains

(* The peer is dialled from the directory's list, or dials us.              *)
Meet(n, p) ==
  /\ node[n].life = "up" /\ p \notin node[n].linked
  /\ node' = [node EXCEPT ![n].linked = @ \cup {p}]
  /\ PeerConnected(n, p, chain)
  /\ UNCHANGED <<socketVars, current, serverId, start, stops, fingerprint, channels,
                 askVars>>

(* The peer:disconnect listeners: each starts a chain of its own if the     *)
(* node has a topic, and the last one's is the one reconnectStates holds.   *)
Part(n, p) ==
  /\ p \in node[n].linked
  /\ node' = [node EXCEPT ![n].linked = @ \ {p}]
  /\ IF node[n].topics = {} \/ node[n].listeners = 0
     THEN UNCHANGED retryVars
     ELSE \E new \in SUBSET Free :
            /\ Cardinality(new) = node[n].listeners
            /\ chain' = [c \in Chains |->
                           IF c \in new THEN [at |-> "waiting", node |-> n, peer |-> p, try |-> 0]
                           ELSE chain[c]]
            /\ \E c \in new : lostPeers' = [lostPeers EXCEPT ![p] = c]
  /\ UNCHANGED <<socketVars, current, serverId, start, stops, fingerprint, channels,
                 askVars>>

(* The timer of a chain.                                                    *)
DialAgain(c) ==
  /\ chain[c].at = "waiting"
  /\ chain' = [chain EXCEPT ![c].at = "dialling"]
  /\ UNCHANGED <<socketVars, nodeVars, fingerprint, channels, askVars, lostPeers>>

(* An address answers: the chain is over.                                   *)
DialSucceeds(c) ==
  LET n == chain[c].node  p == chain[c].peer  over == [chain EXCEPT ![c] = NoChain] IN
  /\ chain[c].at = "dialling" /\ node[n].life = "up"
  /\ node' = [node EXCEPT ![n].linked = @ \cup {p}]
  /\ IF p \in node[n].linked THEN chain' = over /\ UNCHANGED lostPeers
     ELSE PeerConnected(n, p, over)
  /\ UNCHANGED <<socketVars, current, serverId, start, stops, fingerprint, channels,
                 askVars>>

(* Altered: the attempt is not counted.                                     *)
DialFailsUncounted(c) ==
  /\ chain[c].at = "dialling"
  /\ IF chain[c].try >= MaxTries
     THEN /\ chain' = [chain EXCEPT ![c] = NoChain]
          /\ lostPeers' = [lostPeers EXCEPT ![chain[c].peer] = 0]
          /\ Ask(0)
     ELSE /\ chain' = [chain EXCEPT ![c].at = "waiting"]
          /\ UNCHANGED <<lostPeers, askVars>>
  /\ UNCHANGED <<socketVars, nodeVars, fingerprint, channels>>

(* None does: the next attempt, or, after the last one, the directory; the  *)
(* peer's entry is deleted, whichever chain it names.                       *)
DialFails(c) ==
  /\ chain[c].at = "dialling"
  /\ IF chain[c].try + 1 >= MaxTries
     THEN /\ chain' = [chain EXCEPT ![c] = NoChain]
          /\ lostPeers' = [lostPeers EXCEPT ![chain[c].peer] = 0]
          /\ Ask(0)
     ELSE /\ chain' = [chain EXCEPT ![c].at = "waiting", ![c].try = @ + 1]
          /\ UNCHANGED <<lostPeers, askVars>>
  /\ UNCHANGED <<socketVars, nodeVars, fingerprint, channels>>

(* The panel's button, once the connections are closed (each by Part).      *)
ForceReconnect ==
  /\ current # 0
  /\ node[current].linked = {}
  /\ Ask(0)
  /\ UNCHANGED <<socketVars, nodeVars, fingerprint, channels, retryVars>>

------------------------------------------------------------------------------
(* Channels.                                                                *)

(* The channel list is fetched: the topics are not touched.                 *)
SetChannelIds(cs) ==
  /\ channels' = cs
  /\ UNCHANGED <<socketVars, nodeVars, fingerprint, askVars, retryVars>>

OnChannelCreated(ch) ==
  /\ channels' = channels \cup {ch}
  /\ IF current # 0 /\ fingerprint
     THEN Subscribe({ch})
     ELSE UNCHANGED node
  /\ UNCHANGED <<socketVars, current, serverId, start, stops, fingerprint, askVars, retryVars>>

OnChannelDeleted(ch) ==
  /\ channels' = channels \ {ch}
  /\ IF current # 0 /\ fingerprint
     THEN Unsubscribe(ch)
     ELSE UNCHANGED node
  /\ UNCHANGED <<socketVars, current, serverId, start, stops, fingerprint, askVars, retryVars>>

------------------------------------------------------------------------------
(* The socket, with what hangs on it.                                       *)

SocketOpens ==
  /\ Opened
  /\ AutoStart
  /\ UNCHANGED <<current, serverId, fingerprint, channels, askVars, retryVars>>

SocketChanges ==
  /\ \/ FirstConnect \/ Retry \/ Lost \/ ClosedForGood \/ ClosedExpired \/ Refreshed
     \/ RefreshFails
  /\ UNCHANGED <<nodeVars, fingerprint, channels, askVars, retryVars>>

StartStep(n) ==
  \/ InfoArrives(n) \/ NodeCreated(n) \/ AutoStartEnds(n) \/ JoinTopics(n)
  \/ Register(n) \/ MeshStarted(n)

ChainStep(c) == DialAgain(c) \/ DialSucceeds(c) \/ DialFails(c)

Next ==
  \/ SocketOpens \/ SocketChanges
  \/ \E n \in Nodes : StartMesh(n) \/ StartFails(n) \/ StartStep(n) \/ NodeStops(n)
  \/ StopMesh \/ \E s \in stops : StopReturns(s)
  \/ Answered \/ \E by \in Askers : TimedOut(by)
  \/ \E n \in Nodes, p \in Peers : Meet(n, p) \/ Part(n, p)
  \/ \E c \in Chains : ChainStep(c)
  \/ ForceReconnect
  \/ \E cs \in SUBSET Channels : SetChannelIds(cs)
  \/ \E ch \in Channels : OnChannelCreated(ch) \/ OnChannelDeleted(ch)

Spec == Init /\ [][Next]_vars

(* Promises and timers go on: the server's answers to fetch, the creation   *)
(* of a node and the dials end, libp2p closes the connections of a node     *)
(* that stops, the ten seconds and the back-off pass.  Nothing is assumed   *)
(* of the user, the peers and the socket.                                   *)
Fairness ==
  /\ \A n \in Nodes : /\ WF_vars(StartStep(n)) /\ WF_vars(NodeStops(n))
                      /\ \A p \in Peers : WF_vars(node[n].life = "stopping" /\ Part(n, p))
  /\ \A by \in 0..MaxNodes : WF_vars(\E s \in stops : s.by = by /\ StopReturns(s))
  /\ \A by \in Askers : WF_vars(TimedOut(by))
  /\ \A c \in Chains : WF_vars(ChainStep(c))

FairSpec == Spec /\ Fairness

------------------------------------------------------------------------------
TypeOK ==
  /\ SocketTypeOK
  /\ current \in 0..MaxNodes
  /\ serverId \in BOOLEAN /\ fingerprint \in BOOLEAN
  /\ channels \subseteq Channels
  /\ node \in [Nodes -> [life : {"none", "up", "stopping", "down"}, topics : SUBSET Channels,
                         linked : SUBSET Peers, listeners : 0..MaxNodes]]
  /\ start \in [Nodes -> [at : {"no", "stopping", "info", "creating", "dialling", "asking",
                                "registering", "over"},
                          mesh : BOOLEAN, of : 0..MaxNodes]]
  /\ stops \subseteq [by : 0..MaxNodes, of : Nodes, first : BOOLEAN]
  /\ slot \in {{}} \cup {{by} : by \in Askers} /\ asked \subseteq Askers
  /\ lostPeers \in [Peers -> 0..MaxChains]
  /\ chain \in [Chains -> {NoChain} \cup
                 [at : {"waiting", "dialling"}, node : Nodes, peer : Peers, try : 0..MaxTries]]

(* Who is in a slot is still waiting: an answer never goes to a caller that *)
(* was told of its timeout, while another waits for it in vain.             *)
SlotsWait == slot \subseteq asked

(* A call of startP2PNode or startMesh ends, also when another call stops   *)
(* the node under it or takes the slot it waits in.                         *)
StartsEnd == \A n \in Nodes :
  start[n].at \notin {"no", "over"} ~> start[n].at = "over"

(* The attempts to reach a lost peer come to an end, also on a node that    *)
(* was stopped in the meantime.                                             *)
ChainsEnd == \A c \in Chains : chain[c].at # "none" ~> chain[c].at = "none"

(* A node that runs is the one the process knows, or is about to be stopped *)
(* ("Auto-start P2P mesh when WS connects (if not already running)").       *)
NoNodeIsLost == \A n \in Nodes : node[n].life = "up" => current = n

==============================================================================
