---------------------------- MODULE PeerMesh_proofs ----------------------------
(* Theorems about the two parts of the client's main process that talk to   *)
(* other devices, which share nothing.  The mesh (PeerMesh), for any number *)
(* of peers, channels, nodes and retry chains: the socket under it always   *)
(* has exactly one way back, and the one slot for the directory's answer    *)
(* never keeps a caller that gave up; every start and every chain ends.     *)
(* The move of an identity (Transfer), for any number of devices, sessions  *)
(* and tries: a server that accepts is armed, a revoked code stays dead,    *)
(* and every attempt to receive ends.                                       *)
EXTENDS PeerMesh, Transfer, FiniteSetTheorems, TLAPS

(* What the socket's handlers rely on: a socket that is being made or open  *)
(* has no retry beside it, and a session that goes on without a socket has. *)
OneWay ==
  /\ socket # "none" => ~retryTimer
  /\ (status # "disconnected" /\ socket = "none") => retryTimer

LEMMA OneWaySuffices == OneWay => OneWayBack
  BY DEF OneWay, OneWayBack

(* The socket's own handlers keep it, whatever the nodes do.                *)
LEMMA SocketKeepsOneWay ==
  ASSUME OneWay,
         \/ FirstConnect \/ Retry \/ Opened \/ Lost \/ ClosedForGood \/ ClosedExpired
         \/ Refreshed \/ RefreshFails
  PROVE  OneWay'
<1>1. CASE FirstConnect
  BY <1>1 DEF OneWay, FirstConnect, DoConnect, ScheduleReconnect
<1>2. CASE Retry
  BY <1>2 DEF OneWay, Retry, DoConnect, ScheduleReconnect
<1>3. CASE Opened
  BY <1>3 DEF OneWay, Opened
<1>4. CASE Lost
  BY <1>4 DEF OneWay, Lost, ScheduleReconnect
<1>5. CASE ClosedForGood
  BY <1>5 DEF OneWay, ClosedForGood
<1>6. CASE ClosedExpired
  BY <1>6 DEF OneWay, ClosedExpired, ScheduleReconnect
<1>7. CASE Refreshed
  BY <1>7 DEF OneWay, Refreshed, DoConnect, ScheduleReconnect
<1>8. CASE RefreshFails
  BY <1>8 DEF OneWay, RefreshFails
<1>9. QED
  BY <1>1, <1>2, <1>3, <1>4, <1>5, <1>6, <1>7, <1>8

(* A node, its peers, the directory and the channels leave the socket       *)
(* alone.                                                                   *)
LEMMA MeshLeavesSocket ==
  ASSUME [Next]_vars
  PROVE  \/ SocketOpens \/ SocketChanges
         \/ UNCHANGED socketVars
<1>1. ASSUME NEW n \in Nodes,
             StartMesh(n) \/ StartFails(n) \/ StartStep(n) \/ NodeStops(n)
      PROVE  UNCHANGED socketVars
  BY <1>1 DEF StartMesh, StartFails, StartStep, InfoArrives, NodeCreated, AutoStartEnds,
              JoinTopics, Register, MeshStarted, NodeStops
<1>2. ASSUME StopMesh \/ (\E s \in stops : StopReturns(s))
      PROVE  UNCHANGED socketVars
  BY <1>2 DEF StopMesh, StopReturns
<1>3. ASSUME Answered \/ (\E by \in Askers : TimedOut(by)) \/ ForceReconnect
      PROVE  UNCHANGED socketVars
  BY <1>3 DEF Answered, TimedOut, ForceReconnect
<1>4. ASSUME NEW n \in Nodes, NEW p \in Peers, Meet(n, p) \/ Part(n, p)
      PROVE  UNCHANGED socketVars
  BY <1>4 DEF Meet, Part
<1>5. ASSUME NEW c \in Chains, ChainStep(c)
      PROVE  UNCHANGED socketVars
  BY <1>5 DEF ChainStep, DialAgain, DialSucceeds, DialFails
<1>6. ASSUME \/ \E cs \in SUBSET Channels : SetChannelIds(cs)
             \/ \E ch \in Channels : OnChannelCreated(ch) \/ OnChannelDeleted(ch)
      PROVE  UNCHANGED socketVars
  BY <1>6 DEF SetChannelIds, OnChannelCreated, OnChannelDeleted
<1>7. ASSUME UNCHANGED vars
      PROVE  UNCHANGED socketVars
  BY <1>7 DEF vars
<1>8. QED
  BY <1>1, <1>2, <1>3, <1>4, <1>5, <1>6, <1>7 DEF Next

(* WsClient never has two ways back to the server, nor none while it says   *)
(* that it is connected or reconnecting: not with a refresh of the tokens   *)
(* that connects beside the retries, and not with a mesh that starts.       *)
THEOREM OneWayAlways == Spec => []OneWayBack
<1>1. Init => OneWay
  BY DEF Init, SocketInit, OneWay
<1>2. OneWay /\ [Next]_vars => OneWay'
  <2> SUFFICES ASSUME OneWay, [Next]_vars PROVE OneWay'
    OBVIOUS
  <2>1. CASE SocketOpens
    BY <2>1, SocketKeepsOneWay DEF SocketOpens
  <2>2. CASE SocketChanges
    BY <2>2, SocketKeepsOneWay DEF SocketChanges
  <2>3. CASE UNCHANGED socketVars
    BY <2>3 DEF OneWay, socketVars
  <2>4. QED
    BY <2>1, <2>2, <2>3, MeshLeavesSocket
<1>3. QED
  BY <1>1, <1>2, OneWaySuffices, PTL DEF Spec

------------------------------------------------------------------------------
(* The slot.                                                                *)

LEMMA AskKeepsSlot ==
  ASSUME SlotsWait, NEW by, Ask(by)
  PROVE  SlotsWait'
  BY DEF SlotsWait, Ask

(* requestPeerDirectory's slot is emptied by the ten seconds of any caller, *)
(* taken over by a later one and answered once: whoever is in it is a       *)
(* caller that still waits.                                                 *)
THEOREM SlotsAlwaysWait == Spec => []SlotsWait
<1>1. Init => SlotsWait
  BY DEF Init, MeshInit, SlotsWait
<1>2. SlotsWait /\ [Next]_vars => SlotsWait'
  <2> SUFFICES ASSUME SlotsWait, [Next]_vars PROVE SlotsWait'
    OBVIOUS
  <2>0. ASSUME UNCHANGED askVars PROVE SlotsWait'
    BY <2>0 DEF SlotsWait, askVars
  <2>1. CASE SocketOpens \/ SocketChanges
    BY <2>0, <2>1 DEF SocketOpens, SocketChanges
  <2>2. ASSUME NEW n \in Nodes, JoinTopics(n) PROVE SlotsWait'
    BY <2>0, <2>2, AskKeepsSlot DEF JoinTopics
  <2>3. ASSUME NEW n \in Nodes,
               \/ StartMesh(n) \/ StartFails(n) \/ NodeStops(n) \/ InfoArrives(n)
               \/ NodeCreated(n) \/ AutoStartEnds(n) \/ Register(n) \/ MeshStarted(n)
        PROVE  SlotsWait'
    BY <2>0, <2>3 DEF StartMesh, StartFails, NodeStops, InfoArrives, NodeCreated,
                      AutoStartEnds, Register, MeshStarted
  <2>4. CASE StopMesh \/ \E s \in stops : StopReturns(s)
    BY <2>0, <2>4 DEF StopMesh, StopReturns
  <2>5. CASE Answered
    BY <2>5 DEF Answered, SlotsWait
  <2>6. ASSUME NEW by \in Askers, TimedOut(by) PROVE SlotsWait'
    BY <2>6 DEF TimedOut, SlotsWait
  <2>7. ASSUME NEW n \in Nodes, NEW p \in Peers, Meet(n, p) \/ Part(n, p)
        PROVE  SlotsWait'
    BY <2>0, <2>7 DEF Meet, Part
  <2>8. ASSUME NEW c \in Chains, DialFails(c) PROVE SlotsWait'
    BY <2>0, <2>8, AskKeepsSlot DEF DialFails
  <2>9. ASSUME NEW c \in Chains, DialAgain(c) \/ DialSucceeds(c) PROVE SlotsWait'
    BY <2>0, <2>9 DEF DialAgain, DialSucceeds
  <2>10. CASE ForceReconnect
    BY <2>10, AskKeepsSlot DEF ForceReconnect
  <2>11. CASE \/ \E cs \in SUBSET Channels : SetChannelIds(cs)
              \/ \E ch \in Channels : OnChannelCreated(ch) \/ OnChannelDeleted(ch)
    BY <2>0, <2>11 DEF SetChannelIds, OnChannelCreated, OnChannelDeleted
  <2>12. CASE UNCHANGED vars
    BY <2>0, <2>12 DEF vars, meshVars
  <2>13. QED
    BY <2>1, <2>2, <2>3, <2>4, <2>5, <2>6, <2>7, <2>8, <2>9, <2>10, <2>11, <2>12
       DEF Next, StartStep, ChainStep
<1>3. QED
  BY <1>1, <1>2, PTL DEF Spec

------------------------------------------------------------------------------
(* The nodes and the calls that start and stop them.                        *)

Lives == [life : {"none", "up", "stopping", "down"}, topics : SUBSET Channels,
          linked : SUBSET Peers, listeners : Nat]
Calls == [at : {"no", "stopping", "info", "creating", "dialling", "asking",
                "registering", "over"},
          mesh : BOOLEAN, of : 0..MaxNodes]
Stops == [by : 0..MaxNodes, of : Nodes, first : BOOLEAN]
Tries == {NoChain} \cup
         [at : {"waiting", "dialling"}, node : Nodes, peer : Peers, try : 0..MaxTries]

NodesOK ==
  /\ current \in 0..MaxNodes /\ serverId \in BOOLEAN
  /\ node \in [Nodes -> Lives] /\ start \in [Nodes -> Calls] /\ stops \subseteq Stops
TopicsOK == fingerprint \in BOOLEAN /\ channels \subseteq Channels
AsksOK == slot \in {{}} \cup {{by} : by \in Askers} /\ asked \subseteq Askers
ChainsOK == lostPeers \in [Peers -> 0..MaxChains] /\ chain \in [Chains -> Tries]

LEMMA LifeChanges ==
  ASSUME NEW r \in Lives
  PROVE  /\ \A x \in {"none", "up", "stopping", "down"} : [r EXCEPT !.life = x] \in Lives
         /\ \A x \in SUBSET Channels : [r EXCEPT !.topics = x] \in Lives
         /\ \A x \in SUBSET Peers : [r EXCEPT !.linked = x] \in Lives
         /\ \A x \in Nat : [r EXCEPT !.listeners = x] \in Lives
         /\ r.topics \subseteq Channels /\ r.linked \subseteq Peers /\ r.listeners \in Nat
  BY DEF Lives

LEMMA CallChanges ==
  ASSUME NEW r \in Calls
  PROVE  /\ \A x \in {"info", "creating", "dialling", "registering"} :
              [r EXCEPT !.at = x] \in Calls
         /\ \A x \in 0..MaxNodes : [r EXCEPT !.at = "asking", !.of = x] \in Calls
         /\ Over \in Calls /\ NotStarted \in Calls
         /\ \A x \in {"info", "stopping"}, mesh \in BOOLEAN :
              [at |-> x, mesh |-> mesh, of |-> 0] \in Calls
<1>1. 0 \in 0..MaxNodes
  BY MeshAssumption
<1>2. \A x \in {"info", "creating", "dialling", "registering"} : [r EXCEPT !.at = x] \in Calls
  BY DEF Calls
<1>3. ASSUME NEW x \in 0..MaxNodes PROVE [r EXCEPT !.at = "asking", !.of = x] \in Calls
  BY DEF Calls
<1>4. Over \in Calls /\ NotStarted \in Calls
  BY <1>1 DEF Calls, Over, NotStarted
<1>5. ASSUME NEW x \in {"info", "stopping"}, NEW mesh \in BOOLEAN
      PROVE  [at |-> x, mesh |-> mesh, of |-> 0] \in Calls
  BY <1>1 DEF Calls
<1> QED
  BY <1>2, <1>3, <1>4, <1>5

LEMMA TryChanges ==
  ASSUME NEW r \in Tries, r.at # "none"
  PROVE  /\ r.node \in Nodes /\ r.peer \in Peers /\ r.try \in 0..MaxTries
         /\ [r EXCEPT !.at = "dialling"] \in Tries
         /\ r.try + 1 < MaxTries => [r EXCEPT !.at = "waiting", !.try = @ + 1] \in Tries
<1> DEFINE Try == [at : {"waiting", "dialling"}, node : Nodes, peer : Peers, try : 0..MaxTries]
<1>1. r \in Try
  BY DEF Tries, NoChain
<1>2. r.node \in Nodes /\ r.peer \in Peers /\ r.try \in 0..MaxTries
  BY <1>1
<1>3. [r EXCEPT !.at = "dialling"] \in Try
  BY <1>1
<1>4. ASSUME r.try + 1 < MaxTries PROVE [r EXCEPT !.at = "waiting", !.try = @ + 1] \in Try
  <2> DEFINE next == r.try + 1
  <2>1. next \in 0..MaxTries
    BY <1>2, <1>4, MeshAssumption
  <2> HIDE DEF next
  <2>2. [r EXCEPT !.at = "waiting", !.try = next] \in Try
    BY <1>1, <2>1
  <2> QED
    BY <2>2 DEF next
<1> QED
  BY <1>2, <1>3, <1>4 DEF Tries

LEMMA StopCalledOK ==
  ASSUME NodesOK, NEW by \in 0..MaxNodes, current # 0, StopCalled(by)
  PROVE  node' \in [Nodes -> Lives] /\ stops' \subseteq Stops
<1>1. current \in Nodes /\ node[current] \in Lives
  BY MeshAssumption DEF NodesOK, Nodes
<1> DEFINE first == node[current].life = "up"
<1>2. stops' \subseteq Stops
  <2>1. [by |-> by, of |-> current, first |-> first] \in Stops
    <3>1. first \in BOOLEAN
      OBVIOUS
    <3> HIDE DEF first
    <3> QED
      BY <1>1, <3>1 DEF Stops
  <2> QED
    BY <2>1 DEF NodesOK, StopCalled
<1> HIDE DEF first
<1>3. \A r \in Lives : r.life \in {"none", "up", "stopping", "down"}
  BY DEF Lives
<1> QED
  BY <1>1, <1>2, <1>3, LifeChanges DEF NodesOK, StopCalled

LEMMA StartedOK ==
  ASSUME NodesOK, NEW n \in Nodes, NEW mesh \in BOOLEAN, Started(n, mesh)
  PROVE  node' \in [Nodes -> Lives] /\ start' \in [Nodes -> Calls] /\ stops' \subseteq Stops
<1>1. n \in 0..MaxNodes
  BY DEF Nodes
<1>2. start' \in [Nodes -> Calls]
  BY CallChanges DEF NodesOK, Started
<1> QED
  BY <1>1, <1>2, StopCalledOK DEF Started, NodesOK

LEMMA NodesInit == MeshInit => NodesOK
<1>1. NoNode \in Lives
  BY DEF NoNode, Lives
<1>2. NotStarted \in Calls /\ 0 \in 0..MaxNodes
  BY MeshAssumption DEF NotStarted, Calls
<1> QED
  BY <1>1, <1>2 DEF MeshInit, NodesOK

(* A node's record changes in one field, a call's in its place.             *)
LEMMA NodesStep ==
  ASSUME NodesOK, TopicsOK, ChainsOK, [Next]_vars
  PROVE  NodesOK'
<1>0. /\ current \in 0..MaxNodes /\ serverId \in BOOLEAN
      /\ node \in [Nodes -> Lives] /\ start \in [Nodes -> Calls] /\ stops \subseteq Stops
      /\ 0 \in 0..MaxNodes /\ (current # 0 => current \in Nodes)
      /\ \A n \in Nodes : n \in 0..MaxNodes
  BY MeshAssumption DEF NodesOK, Nodes
<1>a. ASSUME UNCHANGED <<current, serverId>>, node' \in [Nodes -> Lives],
             start' \in [Nodes -> Calls], stops' \subseteq Stops
      PROVE  NodesOK'
  BY <1>0, <1>a DEF NodesOK
<1>b. ASSUME UNCHANGED nodeVars PROVE NodesOK'
  BY <1>0, <1>a, <1>b DEF nodeVars
<1>1. CASE SocketOpens
  <2>1. CASE \E n \in Nodes : Started(n, FALSE)
    BY <1>0, <1>1, <1>a, <2>1, StartedOK DEF SocketOpens
  <2>2. CASE UNCHANGED <<start, stops, node>>
    BY <1>0, <1>1, <1>a, <2>2 DEF SocketOpens
  <2> QED
    BY <1>1, <2>1, <2>2 DEF SocketOpens, AutoStart
<1>2. CASE SocketChanges
  BY <1>2, <1>b DEF SocketChanges
<1>3. ASSUME NEW n \in Nodes, StartMesh(n) PROVE NodesOK'
  BY <1>0, <1>3, <1>a, StartedOK DEF StartMesh
<1>4. ASSUME NEW n \in Nodes, StartFails(n) \/ AutoStartEnds(n) PROVE NodesOK'
  <2>1. Over \in Calls
    BY <1>0, CallChanges
  <2> QED
    BY <1>0, <1>4, <1>a, <2>1 DEF StartFails, AutoStartEnds
<1>5. ASSUME NEW n \in Nodes, InfoArrives(n) PROVE NodesOK'
  <2>1. start' \in [Nodes -> Calls]
    BY <1>0, <1>5, CallChanges DEF InfoArrives
  <2> QED
    BY <1>0, <1>5, <2>1 DEF InfoArrives, NodesOK
<1>6. ASSUME NEW n \in Nodes, NodeCreated(n) PROVE NodesOK'
  <2>1. start' \in [Nodes -> Calls]
    BY <1>0, <1>6, CallChanges DEF NodeCreated
  <2>2. node' \in [Nodes -> Lives]
    BY <1>0, <1>6, LifeChanges DEF NodeCreated
  <2> QED
    BY <1>0, <1>6, <2>1, <2>2 DEF NodeCreated, NodesOK
<1>7. ASSUME NEW n \in Nodes, JoinTopics(n) PROVE NodesOK'
  <2>1. CASE current = 0
    <3>1. Over \in Calls
      BY <1>0, CallChanges
    <3> QED
      BY <1>0, <1>7, <1>a, <2>1, <3>1 DEF JoinTopics
  <2>2. CASE current # 0
    <3>1. start' = [start EXCEPT ![n].at = "asking", ![n].of = current]
      BY <1>7, <2>2 DEF JoinTopics
    <3>2. start[n] \in Calls
      BY <1>0
    <3>3. [start[n] EXCEPT !.at = "asking", !.of = current] \in Calls
      BY <1>0, <3>2, CallChanges
    <3>4. start' \in [Nodes -> Calls]
      BY <1>0, <3>1, <3>3
    <3>5. node' \in [Nodes -> Lives]
      <4>1. \/ UNCHANGED node
            \/ node' = [node EXCEPT ![current].topics = @ \cup channels]
        BY <1>7, <2>2 DEF JoinTopics, Subscribe
      <4>2. node[current] \in Lives /\ channels \subseteq Channels
        BY <1>0, <2>2 DEF TopicsOK
      <4>3. node[current].topics \cup channels \in SUBSET Channels
        BY <4>2, LifeChanges
      <4> QED
        BY <1>0, <2>2, <4>1, <4>2, <4>3, LifeChanges
    <3> QED
      BY <1>0, <1>7, <1>a, <3>4, <3>5 DEF JoinTopics
  <2> QED
    BY <2>1, <2>2
<1>8. ASSUME NEW n \in Nodes, Register(n) PROVE NodesOK'
  BY <1>0, <1>8, <1>a, CallChanges DEF Register
<1>9. ASSUME NEW n \in Nodes, MeshStarted(n) PROVE NodesOK'
  <2>1. Over \in Calls
    BY <1>0, CallChanges
  <2>2. \A m \in Nodes : /\ [node[m] EXCEPT !.listeners = 0] \in Lives
                         /\ [node[m] EXCEPT !.listeners = @ + 1] \in Lives
    <3> TAKE m \in Nodes
    <3>1. node[m] \in Lives
      BY <1>0
    <3>2. node[m].listeners + 1 \in Nat /\ 0 \in Nat
      <4>1. node[m].listeners \in Nat
        BY <3>1, LifeChanges
      <4> QED
        BY <4>1
    <3> QED
      BY <3>1, <3>2, LifeChanges
  <2>3. node' \in [Nodes -> Lives]
    <3> DEFINE m == start[n].of
               l == IF node[m].life = "down" THEN 0 ELSE node[m].listeners + 1
    <3>1. node' = [node EXCEPT ![m] = [node[m] EXCEPT !.listeners = l]]
      BY <1>0, <1>9 DEF MeshStarted
    <3>2. m \in Nodes => [node[m] EXCEPT !.listeners = l] \in Lives
      BY <2>2
    <3> HIDE DEF m, l
    <3> QED
      BY <1>0, <3>1, <3>2
  <2> QED
    BY <1>0, <1>9, <1>a, <2>1, <2>3 DEF MeshStarted
<1>10. ASSUME NEW n \in Nodes, NodeStops(n) PROVE NodesOK'
  <2>1. [NoNode EXCEPT !.life = "down"] \in Lives
    BY DEF NoNode, Lives
  <2> QED
    BY <1>0, <1>10, <1>a, <2>1 DEF NodeStops
<1>11. CASE StopMesh
  BY <1>0, <1>11, <1>a, StopCalledOK DEF StopMesh
<1>12. ASSUME NEW s \in stops, StopReturns(s) PROVE NodesOK'
  <2>1. start' \in [Nodes -> Calls]
    BY <1>0, <1>12, CallChanges DEF StopReturns
  <2> QED
    BY <1>0, <1>12, <2>1 DEF StopReturns, NodesOK
<1>13. CASE Answered \/ (\E by \in Askers : TimedOut(by)) \/ ForceReconnect
  BY <1>13, <1>b DEF Answered, TimedOut, ForceReconnect
<1>14. ASSUME NEW n \in Nodes, NEW l \in SUBSET Peers,
              node' = [node EXCEPT ![n].linked = l],
              UNCHANGED <<current, serverId, start, stops>>
       PROVE  NodesOK'
  BY <1>0, <1>14, <1>a, LifeChanges
<1>15. ASSUME NEW n \in Nodes, NEW p \in Peers, Meet(n, p) \/ Part(n, p) PROVE NodesOK'
  <2>1. node[n].linked \subseteq Peers
    BY <1>0, LifeChanges
  <2>2. node[n].linked \cup {p} \in SUBSET Peers /\ node[n].linked \ {p} \in SUBSET Peers
    BY <2>1
  <2>3. UNCHANGED <<current, serverId, start, stops>>
    BY <1>15 DEF Meet, Part
  <2>4. \/ node' = [node EXCEPT ![n].linked = node[n].linked \cup {p}]
        \/ node' = [node EXCEPT ![n].linked = node[n].linked \ {p}]
    BY <1>15 DEF Meet, Part
  <2> QED
    BY <1>14, <2>2, <2>3, <2>4
<1>16. ASSUME NEW c \in Chains, ChainStep(c) PROVE NodesOK'
  <2>1. CASE DialAgain(c) \/ DialFails(c)
    BY <1>b, <2>1 DEF DialAgain, DialFails
  <2>2. CASE DialSucceeds(c)
    <3>1. chain[c] \in Tries /\ chain[c].at # "none"
      BY <2>2 DEF DialSucceeds, ChainsOK
    <3>2. chain[c].node \in Nodes /\ chain[c].peer \in Peers
      BY <3>1, TryChanges
    <3>3. node[chain[c].node].linked \cup {chain[c].peer} \in SUBSET Peers
      BY <1>0, <3>2, LifeChanges
    <3>4. /\ node' = [node EXCEPT ![chain[c].node].linked
                                   = node[chain[c].node].linked \cup {chain[c].peer}]
          /\ UNCHANGED <<current, serverId, start, stops>>
      BY <2>2 DEF DialSucceeds
    <3> QED
      BY <1>14, <3>2, <3>3, <3>4
  <2> QED
    BY <1>16, <2>1, <2>2 DEF ChainStep
<1>17. ASSUME NEW cs \in SUBSET Channels, SetChannelIds(cs) PROVE NodesOK'
  BY <1>17, <1>b DEF SetChannelIds
<1>18. ASSUME NEW ch \in Channels, OnChannelCreated(ch) \/ OnChannelDeleted(ch)
       PROVE  NodesOK'
  <2>1. UNCHANGED <<current, serverId, start, stops>>
    BY <1>18 DEF OnChannelCreated, OnChannelDeleted
  <2>2. CASE UNCHANGED node
    BY <1>0, <1>a, <2>1, <2>2
  <2>3. CASE current # 0 /\ ~UNCHANGED node
    <3>1. \E t \in {node[current].topics \cup {ch}, node[current].topics \ {ch}} :
            node' = [node EXCEPT ![current].topics = t]
      BY <1>18, <2>3 DEF OnChannelCreated, OnChannelDeleted, Subscribe, Unsubscribe
    <3>2. node[current] \in Lives
      BY <1>0, <2>3
    <3>3. \A t \in {node[current].topics \cup {ch}, node[current].topics \ {ch}} :
            t \in SUBSET Channels
      BY <3>2, LifeChanges
    <3> QED
      BY <1>0, <1>a, <2>1, <2>3, <3>1, <3>2, <3>3, LifeChanges
  <2> QED
    BY <1>18, <2>2, <2>3 DEF OnChannelCreated, OnChannelDeleted
<1>19. CASE UNCHANGED vars
  BY <1>19, <1>b DEF vars, meshVars
<1>20. QED
  BY <1>1, <1>2, <1>3, <1>4, <1>5, <1>6, <1>7, <1>8, <1>9, <1>10, <1>11, <1>12, <1>13,
     <1>15, <1>16, <1>17, <1>18, <1>19 DEF Next, StartStep

LEMMA TopicsStep ==
  ASSUME NodesOK, TopicsOK, [Next]_vars
  PROVE  TopicsOK'
<1>1. ASSUME UNCHANGED <<fingerprint, channels>> PROVE TopicsOK'
  BY <1>1 DEF TopicsOK
<1>2. CASE SocketOpens \/ SocketChanges
  BY <1>1, <1>2 DEF SocketOpens, SocketChanges
<1>3. ASSUME NEW n \in Nodes, JoinTopics(n) PROVE TopicsOK'
  BY <1>3 DEF JoinTopics, TopicsOK, NodesOK
<1>4. ASSUME NEW n \in Nodes,
             \/ StartMesh(n) \/ StartFails(n) \/ NodeStops(n) \/ InfoArrives(n)
             \/ NodeCreated(n) \/ AutoStartEnds(n) \/ Register(n) \/ MeshStarted(n)
      PROVE  TopicsOK'
  BY <1>1, <1>4 DEF StartMesh, StartFails, NodeStops, InfoArrives, NodeCreated,
                    AutoStartEnds, Register, MeshStarted
<1>5. CASE StopMesh \/ (\E s \in stops : StopReturns(s))
  BY <1>1, <1>5 DEF StopMesh, StopReturns
<1>6. CASE Answered \/ (\E by \in Askers : TimedOut(by)) \/ ForceReconnect
  BY <1>1, <1>6 DEF Answered, TimedOut, ForceReconnect
<1>7. ASSUME NEW n \in Nodes, NEW p \in Peers, Meet(n, p) \/ Part(n, p) PROVE TopicsOK'
  BY <1>1, <1>7 DEF Meet, Part
<1>8. ASSUME NEW c \in Chains, ChainStep(c) PROVE TopicsOK'
  BY <1>1, <1>8 DEF ChainStep, DialAgain, DialSucceeds, DialFails
<1>9. ASSUME NEW cs \in SUBSET Channels, SetChannelIds(cs) PROVE TopicsOK'
  BY <1>9 DEF SetChannelIds, TopicsOK
<1>10. ASSUME NEW ch \in Channels, OnChannelCreated(ch) \/ OnChannelDeleted(ch)
       PROVE  TopicsOK'
  BY <1>10 DEF OnChannelCreated, OnChannelDeleted, TopicsOK
<1>11. CASE UNCHANGED vars
  BY <1>1, <1>11 DEF vars, meshVars
<1> QED
  BY <1>2, <1>3, <1>4, <1>5, <1>6, <1>7, <1>8, <1>9, <1>10, <1>11 DEF Next, StartStep

LEMMA AskOK ==
  ASSUME AsksOK, NEW by \in Askers, Ask(by)
  PROVE  AsksOK'
  BY DEF AsksOK, Ask

LEMMA AsksStep ==
  ASSUME AsksOK, [Next]_vars
  PROVE  AsksOK'
<1>0. 0 \in Askers /\ \A n \in Nodes : n \in Askers
  BY MeshAssumption DEF Askers, Nodes
<1>1. ASSUME UNCHANGED askVars PROVE AsksOK'
  BY <1>1 DEF AsksOK, askVars
<1>2. CASE SocketOpens \/ SocketChanges
  BY <1>1, <1>2 DEF SocketOpens, SocketChanges
<1>3. ASSUME NEW n \in Nodes, JoinTopics(n) PROVE AsksOK'
  BY <1>0, <1>1, <1>3, AskOK DEF JoinTopics
<1>4. ASSUME NEW n \in Nodes,
             \/ StartMesh(n) \/ StartFails(n) \/ NodeStops(n) \/ InfoArrives(n)
             \/ NodeCreated(n) \/ AutoStartEnds(n) \/ Register(n) \/ MeshStarted(n)
      PROVE  AsksOK'
  BY <1>1, <1>4 DEF StartMesh, StartFails, NodeStops, InfoArrives, NodeCreated,
                    AutoStartEnds, Register, MeshStarted
<1>5. CASE StopMesh \/ (\E s \in stops : StopReturns(s))
  BY <1>1, <1>5 DEF StopMesh, StopReturns
<1>6. CASE Answered \/ (\E by \in Askers : TimedOut(by))
  BY <1>6 DEF Answered, TimedOut, AsksOK
<1>7. CASE ForceReconnect
  BY <1>0, <1>7, AskOK DEF ForceReconnect
<1>8. ASSUME NEW n \in Nodes, NEW p \in Peers, Meet(n, p) \/ Part(n, p) PROVE AsksOK'
  BY <1>1, <1>8 DEF Meet, Part
<1>9. ASSUME NEW c \in Chains, ChainStep(c) PROVE AsksOK'
  BY <1>0, <1>1, <1>9, AskOK DEF ChainStep, DialAgain, DialSucceeds, DialFails
<1>10. CASE \/ \E cs \in SUBSET Channels : SetChannelIds(cs)
            \/ \E ch \in Channels : OnChannelCreated(ch) \/ OnChannelDeleted(ch)
  BY <1>1, <1>10 DEF SetChannelIds, OnChannelCreated, OnChannelDeleted
<1>11. CASE UNCHANGED vars
  BY <1>1, <1>11 DEF vars, meshVars
<1> QED
  BY <1>2, <1>3, <1>4, <1>5, <1>6, <1>7, <1>8, <1>9, <1>10, <1>11 DEF Next, StartStep

(* The chain of a peer that is back is forgotten.                           *)
LEMMA PeerConnectedOK ==
  ASSUME ChainsOK, NEW n, NEW p \in Peers, NEW chains \in [Chains -> Tries],
         PeerConnected(n, p, chains)
  PROVE  ChainsOK'
<1>1. NoChain \in Tries /\ 0 \in 0..MaxChains
  BY MeshAssumption DEF Tries
<1> QED
  BY <1>1 DEF PeerConnected, ChainsOK

LEMMA ChainsStep ==
  ASSUME ChainsOK, [Next]_vars
  PROVE  ChainsOK'
<1>0. /\ NoChain \in Tries /\ 0 \in 0..MaxChains
      /\ \A c \in Chains : c \in 0..MaxChains /\ chain[c] \in Tries
  BY MeshAssumption DEF Tries, ChainsOK, Chains
<1>1. ASSUME UNCHANGED retryVars PROVE ChainsOK'
  BY <1>1 DEF ChainsOK, retryVars
<1>2. CASE SocketOpens \/ SocketChanges
  BY <1>1, <1>2 DEF SocketOpens, SocketChanges
<1>3. ASSUME NEW n \in Nodes,
             \/ StartMesh(n) \/ StartFails(n) \/ StartStep(n) \/ NodeStops(n)
      PROVE  ChainsOK'
  BY <1>1, <1>3 DEF StartMesh, StartFails, NodeStops, StartStep, InfoArrives, NodeCreated,
                    AutoStartEnds, JoinTopics, Register, MeshStarted
<1>4. CASE StopMesh
  <2>1. ClearReconnectionState
    BY <1>4 DEF StopMesh
  <2> QED
    BY <1>0, <2>1 DEF ClearReconnectionState, ChainsOK
<1>5. CASE \/ \E s \in stops : StopReturns(s)
           \/ Answered \/ (\E by \in Askers : TimedOut(by)) \/ ForceReconnect
  BY <1>1, <1>5 DEF StopReturns, Answered, TimedOut, ForceReconnect
<1>6. ASSUME NEW n \in Nodes, NEW p \in Peers, Meet(n, p) PROVE ChainsOK'
  BY <1>6, PeerConnectedOK DEF Meet, ChainsOK
<1>7. ASSUME NEW n \in Nodes, NEW p \in Peers, Part(n, p) PROVE ChainsOK'
  <2> DEFINE first == [at |-> "waiting", node |-> n, peer |-> p, try |-> 0]
  <2>1. first \in Tries
    <3>1. 0 \in 0..MaxTries
      BY MeshAssumption
    <3> QED
      BY <3>1 DEF Tries
  <2>2. CASE UNCHANGED retryVars
    BY <1>1, <2>2
  <2>3. CASE ~UNCHANGED retryVars
    <3>1. PICK new \in SUBSET Free :
            /\ chain' = [c \in Chains |-> IF c \in new THEN first ELSE chain[c]]
            /\ \E c \in new : lostPeers' = [lostPeers EXCEPT ![p] = c]
      BY <1>7, <2>3 DEF Part
    <3>2. \A c \in new : c \in Chains
      BY DEF Free
    <3> HIDE DEF first
    <3>3. chain' \in [Chains -> Tries]
      BY <1>0, <2>1, <3>1
    <3>4. lostPeers' \in [Peers -> 0..MaxChains]
      BY <1>0, <3>1, <3>2 DEF ChainsOK
    <3> QED
      BY <3>3, <3>4 DEF ChainsOK
  <2> QED
    BY <2>2, <2>3
<1>8. ASSUME NEW c \in Chains, DialAgain(c) PROVE ChainsOK'
  <2>1. chain[c].at # "none"
    BY <1>8 DEF DialAgain
  <2>2. [chain[c] EXCEPT !.at = "dialling"] \in Tries
    BY <1>0, <2>1, TryChanges
  <2> QED
    BY <1>8, <2>2 DEF DialAgain, ChainsOK
<1>9. ASSUME NEW c \in Chains, DialSucceeds(c) PROVE ChainsOK'
  <2>1. [chain EXCEPT ![c] = NoChain] \in [Chains -> Tries]
    BY <1>0 DEF ChainsOK
  <2>2. chain[c].at # "none"
    BY <1>9 DEF DialSucceeds
  <2>3. chain[c].peer \in Peers
    BY <1>0, <2>2, TryChanges
  <2>4. CASE chain' = [chain EXCEPT ![c] = NoChain] /\ UNCHANGED lostPeers
    BY <2>1, <2>4 DEF ChainsOK
  <2>5. CASE PeerConnected(chain[c].node, chain[c].peer, [chain EXCEPT ![c] = NoChain])
    BY <2>1, <2>3, <2>5, PeerConnectedOK
  <2> QED
    BY <1>9, <2>4, <2>5 DEF DialSucceeds
<1>10. ASSUME NEW c \in Chains, DialFails(c) PROVE ChainsOK'
  <2>1. chain[c].at # "none"
    BY <1>10 DEF DialFails
  <2>2. /\ chain[c].peer \in Peers
        /\ chain[c].try + 1 < MaxTries =>
             [chain[c] EXCEPT !.at = "waiting", !.try = @ + 1] \in Tries
    BY <1>0, <2>1, TryChanges
  <2>3. CASE chain[c].try + 1 >= MaxTries
    <3>1. /\ chain' = [chain EXCEPT ![c] = NoChain]
          /\ lostPeers' = [lostPeers EXCEPT ![chain[c].peer] = 0]
      BY <1>10, <2>3 DEF DialFails
    <3> QED
      BY <1>0, <2>2, <3>1 DEF ChainsOK
  <2>4. CASE ~(chain[c].try + 1 >= MaxTries)
    <3>1. chain[c].try + 1 < MaxTries
      <4>1. chain[c].try \in 0..MaxTries
        BY <1>0, <2>1, TryChanges
      <4> QED
        BY <2>4, <4>1, MeshAssumption
    <3>2. chain' = [chain EXCEPT ![c].at = "waiting", ![c].try = @ + 1] /\ UNCHANGED lostPeers
      BY <1>10, <2>4 DEF DialFails
    <3>3. chain' = [chain EXCEPT ![c] = [chain[c] EXCEPT !.at = "waiting", !.try = @ + 1]]
      BY <3>2 DEF ChainsOK
    <3> QED
      BY <2>2, <3>1, <3>2, <3>3 DEF ChainsOK
  <2> QED
    BY <2>3, <2>4
<1>11. CASE \/ \E cs \in SUBSET Channels : SetChannelIds(cs)
            \/ \E ch \in Channels : OnChannelCreated(ch) \/ OnChannelDeleted(ch)
  BY <1>1, <1>11 DEF SetChannelIds, OnChannelCreated, OnChannelDeleted
<1>12. CASE UNCHANGED vars
  BY <1>1, <1>12 DEF vars, meshVars
<1> QED
  BY <1>2, <1>3, <1>4, <1>5, <1>6, <1>7, <1>8, <1>9, <1>10, <1>11, <1>12
     DEF Next, ChainStep

------------------------------------------------------------------------------
(* The starts, and who waits for what.                                      *)

(* A start asks once and waits for its own question; it waits for one stop, *)
(* and goes on when that returns.                                           *)
StartsOK ==
  /\ \A n \in Nodes : n \in asked => start[n].at = "asking"
  /\ \A s \in stops : s.by # 0 => start[s.by].at = "stopping"
  /\ \A s, t \in stops : s.by = t.by /\ s.by # 0 => s = t
  /\ \A n \in Nodes : start[n].at = "stopping" => \E s \in stops : s.by = n

(* How far a step may take a start.                                         *)
GoesOn(n) ==
  \/ start'[n].at = start[n].at
  \/ start[n].at = "no" /\ start'[n].at \in {"info", "stopping"}
  \/ start[n].at = "stopping" /\ start'[n].at = "info"
  \/ start[n].at = "info" /\ start'[n].at \in {"creating", "over"}
  \/ start[n].at = "creating" /\ start'[n].at \in {"dialling", "over"}
  \/ start[n].at = "dialling" /\ start'[n].at \in {"asking", "over"}
  \/ start[n].at = "asking" /\ n \notin asked /\ start'[n].at = "registering"
  \/ start[n].at = "registering" /\ start'[n].at = "over"

(* One start moves, and neither starts nor ends a wait for a stop.          *)
LEMMA MovesOn ==
  ASSUME NodesOK, StartsOK, NEW n \in Nodes, NEW r,
         start' = [start EXCEPT ![n] = r],
         start[n].at # "stopping", r.at # "stopping",
         n \in asked' => r.at = "asking",
         \A m \in Nodes \ {n} : m \in asked' => m \in asked,
         UNCHANGED stops
  PROVE  StartsOK'
<1>1. start'[n] = r /\ \A m \in Nodes \ {n} : start'[m] = start[m]
  BY DEF NodesOK
<1>2. \A m \in Nodes : start'[m].at = "stopping" <=> start[m].at = "stopping"
  BY <1>1
<1>3. \A m \in Nodes : m \in asked' => start'[m].at = "asking"
  BY <1>1 DEF StartsOK
<1>4. \A s \in stops : s.by # 0 => s.by \in Nodes
  BY DEF NodesOK, Stops, Nodes
<1> QED
  BY <1>2, <1>3, <1>4 DEF StartsOK

(* No start moves.                                                          *)
LEMMA StaysPut ==
  ASSUME StartsOK, UNCHANGED start, \A m \in Nodes : m \in asked' => m \in asked,
         stops \subseteq stops', \A s \in stops' \ stops : s.by = 0
  PROVE  StartsOK' /\ \A m \in Nodes : GoesOn(m)
<1>1. \A s \in stops' : s.by # 0 => s \in stops
  OBVIOUS
<1>2. \A n \in Nodes : n \in asked' => start'[n].at = "asking"
  BY DEF StartsOK
<1>3. \A s \in stops' : s.by # 0 => start'[s.by].at = "stopping"
  BY <1>1 DEF StartsOK
<1>4. \A s, t \in stops' : s.by = t.by /\ s.by # 0 => s = t
  BY <1>1 DEF StartsOK
<1>5. \A n \in Nodes : start'[n].at = "stopping" => \E s \in stops' : s.by = n
  BY <1>1 DEF StartsOK
<1>6. \A m \in Nodes : GoesOn(m)
  BY DEF GoesOn
<1> QED
  BY <1>2, <1>3, <1>4, <1>5, <1>6 DEF StartsOK

(* A start begins, beside a node there is or not.                           *)
LEMMA Begins ==
  ASSUME NodesOK, StartsOK, NEW n \in Nodes, NEW mesh \in BOOLEAN, Started(n, mesh),
         UNCHANGED askVars
  PROVE  StartsOK' /\ \A m \in Nodes : GoesOn(m)
<1>0. start[n].at = "no" /\ asked' = asked
  BY DEF Started, askVars
<1>1. CASE current = 0
  <2> DEFINE r == [at |-> "info", mesh |-> mesh, of |-> 0]
  <2>1. start' = [start EXCEPT ![n] = r] /\ UNCHANGED stops
    BY <1>1 DEF Started
  <2>2. r.at = "info" /\ n \notin asked
    BY <1>0 DEF StartsOK
  <2>3. \A m \in Nodes : GoesOn(m)
    BY <1>0, <2>1, <2>2 DEF GoesOn, NodesOK
  <2> HIDE DEF r
  <2> QED
    BY <1>0, <2>1, <2>2, <2>3, MovesOn
<1>2. CASE current # 0
  <2> DEFINE r == [at |-> "stopping", mesh |-> mesh, of |-> 0]
             s == [by |-> n, of |-> current, first |-> node[current].life = "up"]
  <2>1. start' = [start EXCEPT ![n] = r] /\ stops' = stops \cup {s} /\ s.by = n
    BY <1>2 DEF Started, StopCalled
  <2>2. r.at = "stopping"
    OBVIOUS
  <2> HIDE DEF r, s
  <2>3. start'[n] = r /\ \A m \in Nodes \ {n} : start'[m] = start[m]
    BY <2>1 DEF NodesOK
  <2>4. \A m \in Nodes : GoesOn(m)
    BY <1>0, <2>2, <2>3 DEF GoesOn
  <2>5. \A t \in stops : t.by # n /\ (t.by # 0 => t.by \in Nodes \ {n})
    <3>1. \A t \in stops : t.by # n
      BY <1>0 DEF StartsOK, Nodes
    <3> QED
      BY <3>1 DEF NodesOK, Stops, Nodes
  <2>6. \A m \in Nodes : m \in asked' => start'[m].at = "asking"
    BY <1>0, <2>3 DEF StartsOK
  <2>7. \A t \in stops' : t.by # 0 => start'[t.by].at = "stopping"
    BY <2>1, <2>2, <2>3, <2>5 DEF StartsOK
  <2>8. \A t, u \in stops' : t.by = u.by /\ t.by # 0 => t = u
    BY <2>1, <2>5 DEF StartsOK
  <2>9. \A m \in Nodes : start'[m].at = "stopping" => \E t \in stops' : t.by = m
    BY <2>1, <2>3 DEF StartsOK
  <2> QED
    BY <2>4, <2>6, <2>7, <2>8, <2>9 DEF StartsOK
<1> QED
  BY <1>1, <1>2

LEMMA StartsStep ==
  ASSUME NodesOK, StartsOK, [Next]_vars
  PROVE  StartsOK' /\ \A m \in Nodes : GoesOn(m)
<1>0. /\ start \in [Nodes -> Calls]
      /\ \A n \in Nodes : n # 0
  BY DEF NodesOK, Nodes
<1>e. ASSUME UNCHANGED <<start, stops>>, asked' \subseteq asked \cup {0}
      PROVE  StartsOK' /\ \A m \in Nodes : GoesOn(m)
  <2>1. \A m \in Nodes : m \in asked' => m \in asked
    BY <1>0, <1>e
  <2>2. stops \subseteq stops' /\ \A s \in stops' \ stops : s.by = 0
    BY <1>e
  <2> QED
    BY <1>e, <2>1, <2>2, StaysPut
<1>b. ASSUME UNCHANGED <<start, stops, asked>>
      PROVE  StartsOK' /\ \A m \in Nodes : GoesOn(m)
  BY <1>b, <1>e
<1>c. ASSUME NEW n \in Nodes, NEW r, start' = [start EXCEPT ![n] = r], UNCHANGED <<stops, asked>>,
             \/ start[n].at = "info" /\ r.at \in {"creating", "over"}
             \/ start[n].at = "creating" /\ r.at \in {"dialling", "over"}
             \/ start[n].at = "dialling" /\ r.at = "over"
             \/ start[n].at = "asking" /\ n \notin asked /\ r.at = "registering"
             \/ start[n].at = "registering" /\ r.at = "over"
      PROVE  StartsOK' /\ \A m \in Nodes : GoesOn(m)
  <2>1. \A m \in Nodes : GoesOn(m)
    BY <1>0, <1>c DEF GoesOn
  <2>2. start[n].at # "stopping" /\ r.at # "stopping" /\ n \notin asked
    BY <1>c DEF StartsOK
  <2> QED
    BY <1>c, <2>1, <2>2, MovesOn
<1>d. Over.at = "over"
  BY DEF Over
<1>1. CASE SocketOpens
  <2>1. CASE \E n \in Nodes : Started(n, FALSE)
    BY <1>1, <2>1, Begins DEF SocketOpens
  <2>2. CASE UNCHANGED <<start, stops, node>>
    BY <1>1, <1>b, <2>2 DEF SocketOpens, askVars
  <2> QED
    BY <1>1, <2>1, <2>2 DEF SocketOpens, AutoStart
<1>2. CASE SocketChanges
  BY <1>2, <1>b DEF SocketChanges, nodeVars, askVars
<1>3. ASSUME NEW n \in Nodes, StartMesh(n)
      PROVE  StartsOK' /\ \A m \in Nodes : GoesOn(m)
  BY <1>3, Begins DEF StartMesh
<1>4. ASSUME NEW n \in Nodes, StartFails(n) \/ AutoStartEnds(n) \/ MeshStarted(n)
      PROVE  StartsOK' /\ \A m \in Nodes : GoesOn(m)
  <2>1. start' = [start EXCEPT ![n] = Over] /\ UNCHANGED <<stops, asked>>
    BY <1>4 DEF StartFails, AutoStartEnds, MeshStarted, askVars
  <2>2. start[n].at \in {"info", "creating", "dialling", "registering"}
    BY <1>4 DEF StartFails, AutoStartEnds, MeshStarted
  <2> QED
    BY <1>c, <1>d, <2>1, <2>2
<1>5. ASSUME NEW n \in Nodes, InfoArrives(n) \/ NodeCreated(n) \/ Register(n)
      PROVE  StartsOK' /\ \A m \in Nodes : GoesOn(m)
  <2>1. PICK x \in {"creating", "dialling", "registering"} :
          /\ start' = [start EXCEPT ![n].at = x] /\ UNCHANGED <<stops, asked>>
          /\ \/ start[n].at = "info" /\ x = "creating"
             \/ start[n].at = "creating" /\ x = "dialling"
             \/ start[n].at = "asking" /\ n \notin asked /\ x = "registering"
    BY <1>5 DEF InfoArrives, NodeCreated, Register, askVars
  <2> DEFINE r == [start[n] EXCEPT !.at = x]
  <2>2. start' = [start EXCEPT ![n] = r]
    BY <2>1
  <2>3. r.at = x
    BY <1>0 DEF Calls
  <2> HIDE DEF r
  <2> QED
    BY <1>c, <2>1, <2>2, <2>3
<1>6. ASSUME NEW n \in Nodes, JoinTopics(n)
      PROVE  StartsOK' /\ \A m \in Nodes : GoesOn(m)
  <2>0. start[n].at = "dialling" /\ UNCHANGED stops
    BY <1>6 DEF JoinTopics
  <2>1. CASE current = 0
    BY <1>6, <1>c, <1>d, <2>0, <2>1 DEF JoinTopics, askVars
  <2>2. CASE current # 0
    <3> DEFINE r == [start[n] EXCEPT !.at = "asking", !.of = current]
    <3>1. start' = [start EXCEPT ![n] = r]
      BY <1>0, <1>6, <2>2 DEF JoinTopics
    <3>2. r.at = "asking"
      BY <1>0 DEF Calls
    <3>3. \A m \in Nodes \ {n} : m \in asked' => m \in asked
      BY <1>6, <2>2 DEF JoinTopics, Ask
    <3> HIDE DEF r
    <3>4. \A m \in Nodes : GoesOn(m)
      BY <1>0, <2>0, <3>1, <3>2 DEF GoesOn
    <3> QED
      BY <2>0, <3>1, <3>2, <3>3, <3>4, MovesOn
  <2> QED
    BY <2>1, <2>2
<1>7. ASSUME NEW n \in Nodes, NodeStops(n)
      PROVE  StartsOK' /\ \A m \in Nodes : GoesOn(m)
  BY <1>7, <1>b DEF NodeStops, askVars
<1>8. CASE StopMesh
  <2>1. UNCHANGED <<start, asked>>
    BY <1>8 DEF StopMesh, askVars
  <2>2. CASE UNCHANGED stops
    BY <1>b, <2>1, <2>2
  <2>3. CASE StopCalled(0)
    <3> DEFINE s == [by |-> 0, of |-> current, first |-> node[current].life = "up"]
    <3>1. stops' = stops \cup {s} /\ s.by = 0
      BY <2>3 DEF StopCalled
    <3> HIDE DEF s
    <3>2. stops \subseteq stops' /\ \A t \in stops' \ stops : t.by = 0
      BY <3>1
    <3> QED
      BY <2>1, <3>2, StaysPut
  <2> QED
    BY <1>8, <2>2, <2>3 DEF StopMesh
<1>9. ASSUME NEW s \in stops, StopReturns(s)
      PROVE  StartsOK' /\ \A m \in Nodes : GoesOn(m)
  <2>0. stops' = stops \ {s} /\ asked' = asked
    BY <1>9 DEF StopReturns, askVars
  <2>1. CASE s.by = 0
    <3>1. UNCHANGED start
      BY <1>9, <2>1 DEF StopReturns
    <3> QED
      <4>1. \A m \in Nodes : GoesOn(m)
        BY <3>1 DEF GoesOn
      <4>2. \A n \in Nodes : start'[n].at = "stopping" => \E t \in stops' : t.by = n
        BY <1>0, <2>0, <2>1, <3>1 DEF StartsOK
      <4> QED
        BY <2>0, <3>1, <4>1, <4>2 DEF StartsOK
  <2>2. CASE s.by # 0
    <3> DEFINE n == s.by
    <3>1. n \in Nodes /\ start[n].at = "stopping"
      BY <2>2 DEF StartsOK, NodesOK, Stops, Nodes
    <3>2. start' = [start EXCEPT ![n].at = "info"]
      BY <1>9, <2>2 DEF StopReturns
    <3>3. start'[n].at = "info" /\ \A m \in Nodes \ {n} : start'[m] = start[m]
      BY <1>0, <3>1, <3>2 DEF Calls
    <3>4. \A m \in Nodes : GoesOn(m)
      BY <3>1, <3>3 DEF GoesOn
    <3>5. \A t \in stops' : t.by # n /\ (t.by # 0 => t.by \in Nodes \ {n})
      <4>1. \A t \in stops' : t.by # n
        BY <2>0, <2>2 DEF StartsOK
      <4> QED
        BY <2>0, <4>1 DEF NodesOK, Stops, Nodes
    <3>6. \A m \in Nodes : m \in asked' => start'[m].at = "asking"
      BY <2>0, <3>1, <3>3 DEF StartsOK
    <3>7. \A t \in stops' : t.by # 0 => start'[t.by].at = "stopping"
      BY <2>0, <3>3, <3>5 DEF StartsOK
    <3>8. \A t, u \in stops' : t.by = u.by /\ t.by # 0 => t = u
      BY <2>0 DEF StartsOK
    <3>9. \A m \in Nodes : start'[m].at = "stopping" => \E t \in stops' : t.by = m
      BY <2>0, <3>3 DEF StartsOK
    <3> QED
      BY <3>4, <3>6, <3>7, <3>8, <3>9 DEF StartsOK
  <2> QED
    BY <2>1, <2>2
<1>10. CASE Answered \/ (\E by \in Askers : TimedOut(by)) \/ ForceReconnect
  BY <1>10, <1>e DEF Answered, TimedOut, ForceReconnect, Ask, nodeVars
<1>11. ASSUME NEW n \in Nodes, NEW p \in Peers, Meet(n, p) \/ Part(n, p)
       PROVE  StartsOK' /\ \A m \in Nodes : GoesOn(m)
  BY <1>11, <1>b DEF Meet, Part, askVars
<1>12. ASSUME NEW c \in Chains, ChainStep(c)
       PROVE  StartsOK' /\ \A m \in Nodes : GoesOn(m)
  BY <1>12, <1>e DEF ChainStep, DialAgain, DialSucceeds, DialFails, Ask, nodeVars, askVars
<1>13. CASE \/ \E cs \in SUBSET Channels : SetChannelIds(cs)
            \/ \E ch \in Channels : OnChannelCreated(ch) \/ OnChannelDeleted(ch)
  BY <1>13, <1>b DEF SetChannelIds, OnChannelCreated, OnChannelDeleted, nodeVars, askVars
<1>14. CASE UNCHANGED vars
  BY <1>14, <1>b DEF vars, meshVars, nodeVars, askVars
<1> QED
  BY <1>1, <1>2, <1>3, <1>4, <1>5, <1>6, <1>7, <1>8, <1>9, <1>10, <1>11, <1>12, <1>13,
     <1>14 DEF Next, StartStep

(* A start adds one listener to one node, and ends with it.                 *)
Ended == {n \in Nodes : start[n].at = "over"}

ListenersOK == \A n \in Nodes : node[n].listeners <= Cardinality(Ended)

LEMMA EndedCount ==
  ASSUME NEW S \in SUBSET Nodes, NEW T \in SUBSET Nodes, S \subseteq T
  PROVE  /\ Cardinality(S) \in Nat /\ Cardinality(T) \in Nat
         /\ Cardinality(S) <= Cardinality(T) /\ Cardinality(T) <= MaxNodes
         /\ S # T => Cardinality(S) < Cardinality(T)
<1>1. IsFiniteSet(Nodes) /\ Cardinality(Nodes) = MaxNodes
  BY FS_Interval, MeshAssumption DEF Nodes
<1>2. IsFiniteSet(T) /\ Cardinality(T) <= Cardinality(Nodes)
  BY <1>1, FS_Subset
<1>3. IsFiniteSet(S) /\ Cardinality(S) <= Cardinality(T) /\ (S # T => Cardinality(S) < Cardinality(T))
  <2>1. /\ IsFiniteSet(S) /\ Cardinality(S) <= Cardinality(T)
        /\ Cardinality(T) = Cardinality(S) => T = S
    BY <1>2, FS_Subset
  <2>2. Cardinality(S) \in Nat /\ Cardinality(T) \in Nat
    BY <1>2, <2>1, FS_CardinalityType
  <2> QED
    BY <2>1, <2>2
<1> QED
  BY <1>1, <1>2, <1>3, FS_CardinalityType

(* Nothing but the end of startMesh adds a listener.                        *)
LEMMA ListenersStay ==
  ASSUME NodesOK, TopicsOK, ChainsOK, [Next]_vars
  PROVE  \/ \A m \in Nodes : node'[m].listeners \in {node[m].listeners, 0}
         \/ \E n \in Nodes : MeshStarted(n)
<1> DEFINE Kept == \A m \in Nodes : node'[m].listeners \in {node[m].listeners, 0}
<1> SUFFICES ASSUME ~\E n \in Nodes : MeshStarted(n) PROVE Kept
  OBVIOUS
<1>0. node \in [Nodes -> Lives] /\ (current # 0 => current \in Nodes)
  BY MeshAssumption DEF NodesOK, Nodes
<1>a. ASSUME UNCHANGED node PROVE Kept
  BY <1>a
<1>b. ASSUME NEW n, NEW x, \/ node' = [node EXCEPT ![n].life = x]
                          \/ node' = [node EXCEPT ![n].topics = x]
                          \/ node' = [node EXCEPT ![n].linked = x]
      PROVE  Kept
  BY <1>0, <1>b DEF Lives
<1>c. ASSUME NEW n \in Nodes, NodeStops(n) PROVE Kept
  BY <1>0, <1>c DEF NodeStops, NoNode
<1> HIDE DEF Kept
<1>1. ASSUME NEW by, StopCalled(by) PROVE Kept
  BY <1>1, <1>b DEF StopCalled
<1>2. CASE SocketOpens \/ SocketChanges
  BY <1>1, <1>2, <1>a DEF SocketOpens, SocketChanges, AutoStart, Started, nodeVars
<1>3. ASSUME NEW n \in Nodes, StartMesh(n) \/ StartFails(n) \/ InfoArrives(n) \/ AutoStartEnds(n)
                              \/ Register(n)
      PROVE  Kept
  BY <1>1, <1>3, <1>a DEF StartMesh, Started, StartFails, InfoArrives, AutoStartEnds, Register
<1>4. ASSUME NEW n \in Nodes, NodeCreated(n) \/ JoinTopics(n) PROVE Kept
  BY <1>4, <1>a, <1>b DEF NodeCreated, JoinTopics, Subscribe
<1>5. CASE StopMesh \/ (\E s \in stops : StopReturns(s))
  BY <1>1, <1>5, <1>a DEF StopMesh, StopReturns
<1>6. CASE Answered \/ (\E by \in Askers : TimedOut(by)) \/ ForceReconnect
  BY <1>6, <1>a DEF Answered, TimedOut, ForceReconnect, nodeVars
<1>7. ASSUME NEW n \in Nodes, NEW p \in Peers, Meet(n, p) \/ Part(n, p) PROVE Kept
  BY <1>7, <1>b DEF Meet, Part
<1>8. ASSUME NEW c \in Chains, ChainStep(c) PROVE Kept
  BY <1>8, <1>a, <1>b DEF ChainStep, DialAgain, DialSucceeds, DialFails, nodeVars
<1>9. ASSUME NEW ch \in Channels, OnChannelCreated(ch) \/ OnChannelDeleted(ch) PROVE Kept
  BY <1>9, <1>a, <1>b DEF OnChannelCreated, OnChannelDeleted, Subscribe, Unsubscribe
<1>10. CASE (\E cs \in SUBSET Channels : SetChannelIds(cs)) \/ UNCHANGED vars
  BY <1>10, <1>a DEF SetChannelIds, vars, meshVars, nodeVars
<1> QED
  BY <1>c, <1>2, <1>3, <1>4, <1>5, <1>6, <1>7, <1>8, <1>9, <1>10
     DEF Next, StartStep

LEMMA ListenersStep ==
  ASSUME NodesOK, TopicsOK, ChainsOK, StartsOK, ListenersOK, [Next]_vars
  PROVE  ListenersOK'
<1>1. NodesOK' /\ \A m \in Nodes : GoesOn(m)
  BY NodesStep, StartsStep
<1>2. Ended \in SUBSET Nodes /\ Ended' \in SUBSET Nodes /\ Ended \subseteq Ended'
  BY <1>1 DEF Ended, GoesOn
<1>3. /\ Cardinality(Ended) \in Nat /\ Cardinality(Ended') \in Nat
      /\ Cardinality(Ended) <= Cardinality(Ended')
      /\ Ended # Ended' => Cardinality(Ended) < Cardinality(Ended')
  BY <1>2, EndedCount
<1>4. /\ \A m \in Nodes : node[m].listeners \in Nat
      /\ \A m \in Nodes : node[m].listeners <= Cardinality(Ended)
  BY LifeChanges DEF NodesOK, ListenersOK
<1>5. CASE \A m \in Nodes : node'[m].listeners \in {node[m].listeners, 0}
  <2> SUFFICES ASSUME NEW m \in Nodes PROVE node'[m].listeners <= Cardinality(Ended')
    BY DEF ListenersOK
  <2> DEFINE a == Cardinality(Ended)  b == Cardinality(Ended')  l == node[m].listeners
             k == node'[m].listeners
  <2>1. a \in Nat /\ b \in Nat /\ a <= b /\ l \in Nat /\ l <= a /\ (k = l \/ k = 0)
    BY <1>3, <1>4, <1>5
  <2> HIDE DEF a, b, l, k
  <2>2. k <= b
    BY <2>1
  <2> QED
    BY <2>2 DEF k, b
<1>6. ASSUME NEW n \in Nodes, MeshStarted(n) PROVE ListenersOK'
  <2>1. n \in Ended' /\ n \notin Ended
    <3>1. start[n].at = "registering" /\ start' = [start EXCEPT ![n] = Over]
      BY <1>6 DEF MeshStarted
    <3> QED
      BY <3>1 DEF Ended, NodesOK, Over
  <2> SUFFICES ASSUME NEW m \in Nodes PROVE node'[m].listeners <= Cardinality(Ended')
    BY DEF ListenersOK
  <2> DEFINE a == Cardinality(Ended)  b == Cardinality(Ended')  l == node[m].listeners
             k == node'[m].listeners
  <2>2. k \in {0, l, l + 1}
    BY <1>6 DEF MeshStarted, NodesOK, Lives
  <2>3. a \in Nat /\ b \in Nat /\ a < b /\ l \in Nat /\ l <= a
    BY <1>3, <1>4, <2>1
  <2> HIDE DEF a, b, l, k
  <2>4. k <= b
    BY <2>2, <2>3
  <2> QED
    BY <2>4 DEF k, b
<1> QED
  BY <1>5, <1>6, ListenersStay

------------------------------------------------------------------------------
(* What the handlers of the mesh rely on together.                          *)
MeshInv == NodesOK /\ TopicsOK /\ AsksOK /\ ChainsOK /\ StartsOK /\ ListenersOK /\ SocketTypeOK

LEMMA SocketTypeStep ==
  ASSUME SocketTypeOK, [Next]_vars
  PROVE  SocketTypeOK'
<1> USE DEF SocketTypeOK
<1>1. CASE SocketOpens
  BY <1>1 DEF SocketOpens, Opened
<1>2. CASE SocketChanges
  BY <1>2 DEF SocketChanges, FirstConnect, Retry, Lost, ClosedForGood, ClosedExpired, Refreshed,
              RefreshFails, DoConnect, ScheduleReconnect
<1>3. CASE UNCHANGED socketVars
  BY <1>3 DEF socketVars
<1> QED
  BY <1>1, <1>2, <1>3, MeshLeavesSocket

LEMMA MeshInvInit == Init => MeshInv
<1> SUFFICES ASSUME Init PROVE MeshInv
  OBVIOUS
<1>1. NodesOK
  BY NodesInit DEF Init
<1>2. TopicsOK /\ AsksOK /\ SocketTypeOK
  BY DEF Init, MeshInit, SocketInit, TopicsOK, AsksOK, SocketTypeOK
<1>3. ChainsOK
  BY MeshAssumption DEF Init, MeshInit, ChainsOK, Tries
<1>4. StartsOK
  BY DEF Init, MeshInit, StartsOK, NotStarted
<1>5. ListenersOK
  <2>1. Ended \in SUBSET Nodes
    BY DEF Ended
  <2>2. Cardinality(Ended) \in Nat
    BY <2>1, EndedCount
  <2>3. \A n \in Nodes : node[n].listeners = 0
    BY DEF Init, MeshInit, NoNode
  <2> QED
    BY <2>2, <2>3 DEF ListenersOK
<1> QED
  BY <1>1, <1>2, <1>3, <1>4, <1>5 DEF MeshInv

LEMMA MeshInvStep == MeshInv /\ [Next]_vars => MeshInv'
  BY NodesStep, TopicsStep, AsksStep, ChainsStep, StartsStep, ListenersStep, SocketTypeStep
     DEF MeshInv

LEMMA MeshInvHolds == Spec => []MeshInv
  BY MeshInvInit, MeshInvStep, PTL DEF Spec

LEMMA MeshInvTypes == MeshInv => TypeOK
<1> SUFFICES ASSUME MeshInv PROVE TypeOK
  OBVIOUS
<1> DEFINE Bounded == [life : {"none", "up", "stopping", "down"}, topics : SUBSET Channels,
                       linked : SUBSET Peers, listeners : 0..MaxNodes]
<1>1. ASSUME NEW n \in Nodes PROVE node[n] \in Bounded
  <2>1. Ended \in SUBSET Nodes
    BY DEF Ended
  <2>2. Cardinality(Ended) \in Nat /\ Cardinality(Ended) <= MaxNodes
    BY <2>1, EndedCount
  <2>3. node[n] \in Lives /\ node[n].listeners <= Cardinality(Ended)
    BY DEF MeshInv, NodesOK, ListenersOK
  <2>4. node[n].listeners \in 0..MaxNodes
    <3>1. node[n].listeners \in Nat
      BY <2>3, LifeChanges
    <3> DEFINE l == node[n].listeners  k == Cardinality(Ended)
    <3>2. l \in Nat /\ k \in Nat /\ l <= k /\ k <= MaxNodes
      BY <2>2, <2>3, <3>1
    <3> HIDE DEF l, k
    <3>3. l \in 0..MaxNodes
      BY <3>2, MeshAssumption
    <3> QED
      BY <3>3 DEF l
  <2> QED
    BY <2>3, <2>4 DEF Lives
<1>2. node \in [Nodes -> Bounded]
  <2>1. node \in [Nodes -> Lives]
    BY DEF MeshInv, NodesOK
  <2> HIDE DEF Bounded
  <2> QED
    BY <1>1, <2>1
<1>3. NodesOK /\ TopicsOK /\ AsksOK /\ ChainsOK /\ SocketTypeOK
  BY DEF MeshInv
<1>4. stops \subseteq [by : 0..MaxNodes, of : Nodes, first : BOOLEAN]
  BY <1>3 DEF NodesOK, Stops
<1>5. start \in [Nodes -> Calls] /\ current \in 0..MaxNodes /\ serverId \in BOOLEAN
  BY <1>3 DEF NodesOK
<1>6. lostPeers \in [Peers -> 0..MaxChains] /\ chain \in [Chains -> Tries]
  BY <1>3 DEF ChainsOK
<1> QED
  BY <1>2, <1>3, <1>4, <1>5, <1>6 DEF TypeOK, TopicsOK, AsksOK, Calls, Tries

(* Type correctness of the mesh: in particular a node never has more        *)
(* listeners than there were starts that ended.                             *)
THEOREM NodesTypeCorrect == Spec => []TypeOK
  BY MeshInvHolds, MeshInvTypes, PTL

------------------------------------------------------------------------------
(* Every start ends.                                                        *)

(* A node comes up once, for the start that made it, and never again after  *)
(* it was stopped.                                                          *)
LivesOK == \A n \in Nodes :
  start[n].at \in {"no", "stopping", "info", "creating"} => node[n].life = "none"

LEMMA LivesMove ==
  ASSUME NodesOK, [Next]_vars
  PROVE  \A m \in Nodes : \/ node'[m].life = node[m].life
                          \/ NodeCreated(m)
                          \/ node[m].life = "up" /\ node'[m].life = "stopping"
                          \/ node[m].life = "stopping" /\ node'[m].life = "down"
<1> SUFFICES ASSUME NEW m \in Nodes
             PROVE  \/ node'[m].life = node[m].life
                    \/ NodeCreated(m)
                    \/ node[m].life = "up" /\ node'[m].life = "stopping"
                    \/ node[m].life = "stopping" /\ node'[m].life = "down"
  OBVIOUS
<1> DEFINE Moves == \/ node'[m].life = node[m].life
                    \/ NodeCreated(m)
                    \/ node[m].life = "up" /\ node'[m].life = "stopping"
                    \/ node[m].life = "stopping" /\ node'[m].life = "down"
<1> SUFFICES Moves
  OBVIOUS
<1>0. node \in [Nodes -> Lives]
  BY DEF NodesOK
<1>a. ASSUME UNCHANGED node PROVE Moves
  BY <1>a
<1>b. ASSUME NEW n, NEW x, \/ node' = [node EXCEPT ![n].topics = x]
                          \/ node' = [node EXCEPT ![n].linked = x]
                          \/ node' = [node EXCEPT ![n].listeners = x]
      PROVE  Moves
  BY <1>0, <1>b DEF Lives
<1>c. ASSUME NEW n \in Nodes, NodeStops(n) PROVE Moves
  BY <1>0, <1>c DEF NodeStops, NoNode
<1>d. ASSUME NEW n \in Nodes, NodeCreated(n) PROVE Moves
  BY <1>0, <1>d DEF NodeCreated, Lives
<1>1. ASSUME NEW by, StopCalled(by) PROVE Moves
  <2>1. node[m] \in Lives
    BY <1>0
  <2> QED
    BY <1>0, <1>1, <2>1 DEF StopCalled, Lives
<1> HIDE DEF Moves
<1>2. CASE SocketOpens \/ SocketChanges
  BY <1>1, <1>2, <1>a DEF SocketOpens, SocketChanges, AutoStart, Started, nodeVars
<1>3. ASSUME NEW n \in Nodes, StartMesh(n) \/ StartFails(n) \/ InfoArrives(n) \/ AutoStartEnds(n)
                              \/ Register(n)
      PROVE  Moves
  BY <1>1, <1>3, <1>a DEF StartMesh, Started, StartFails, InfoArrives, AutoStartEnds, Register
<1>4. ASSUME NEW n \in Nodes, JoinTopics(n) \/ MeshStarted(n) PROVE Moves
  BY <1>4, <1>a, <1>b DEF JoinTopics, Subscribe, MeshStarted
<1>5. CASE StopMesh \/ (\E s \in stops : StopReturns(s))
  BY <1>1, <1>5, <1>a DEF StopMesh, StopReturns
<1>6. CASE Answered \/ (\E by \in Askers : TimedOut(by)) \/ ForceReconnect
  BY <1>6, <1>a DEF Answered, TimedOut, ForceReconnect, nodeVars
<1>7. ASSUME NEW n \in Nodes, NEW p \in Peers, Meet(n, p) \/ Part(n, p) PROVE Moves
  BY <1>7, <1>b DEF Meet, Part
<1>8. ASSUME NEW c \in Chains, ChainStep(c) PROVE Moves
  BY <1>8, <1>a, <1>b DEF ChainStep, DialAgain, DialSucceeds, DialFails, nodeVars
<1>9. ASSUME NEW ch \in Channels, OnChannelCreated(ch) \/ OnChannelDeleted(ch) PROVE Moves
  BY <1>9, <1>a, <1>b DEF OnChannelCreated, OnChannelDeleted, Subscribe, Unsubscribe
<1>10. CASE (\E cs \in SUBSET Channels : SetChannelIds(cs)) \/ UNCHANGED vars
  BY <1>10, <1>a DEF SetChannelIds, vars, meshVars, nodeVars
<1> QED
  BY <1>c, <1>d, <1>2, <1>3, <1>4, <1>5, <1>6, <1>7, <1>8, <1>9, <1>10 DEF Next, StartStep

LEMMA LivesStep == MeshInv /\ LivesOK /\ [Next]_vars => LivesOK'
<1> SUFFICES ASSUME MeshInv, LivesOK, [Next]_vars, NEW n \in Nodes,
                    start'[n].at \in {"no", "stopping", "info", "creating"}
             PROVE  node'[n].life = "none"
  BY DEF LivesOK
<1>1. NodesOK /\ StartsOK
  BY DEF MeshInv
<1>2. GoesOn(n)
  BY <1>1, StartsStep
<1>3. start[n].at \in {"no", "stopping", "info", "creating"} /\ node[n].life = "none"
  BY <1>2 DEF GoesOn, LivesOK
<1>4. ~NodeCreated(n)
  BY <1>1 DEF NodeCreated, NodesOK, Calls
<1> QED
  BY <1>1, <1>3, <1>4, LivesMove

LEMMA LivesHold == Spec => []LivesOK
<1>1. Init => LivesOK
  BY DEF Init, MeshInit, LivesOK, NoNode
<1> QED
  BY <1>1, LivesStep, MeshInvHolds, PTL DEF Spec

(* node.stop() has resolved for the start that waits for it.                *)
Resolved(n) == \E s \in stops : s.by = n /\ (s.first => node[s.of].life = "down")

(* A start whose node.stop() has resolved, a caller that asks and a start   *)
(* that waits for nobody: what each waits for lasts until it goes on.       *)
LEMMA StartsWait ==
  ASSUME MeshInv, LivesOK, [Next]_vars, NEW n \in Nodes
  PROVE  /\ GoesOn(n)
         /\ start[n].at = "stopping" /\ start'[n].at = "stopping" /\ Resolved(n) => Resolved(n)'
         /\ start[n].at = "asking" /\ n \notin asked => n \notin asked'
<1>0. NodesOK /\ StartsOK /\ LivesOK /\ LivesOK'
  BY LivesStep DEF MeshInv
<1>1. GoesOn(n)
  BY <1>0, StartsStep
<1>2. ASSUME start[n].at = "stopping", start'[n].at = "stopping",
             NEW s \in stops, s.by = n, s.first => node[s.of].life = "down"
      PROVE  s \in stops' /\ (s.first => node'[s.of].life = "down")
  <2>1. s.of \in Nodes /\ n # 0
    BY <1>0 DEF NodesOK, Stops, Nodes
  <2>2. node[s.of].life = "down" => node'[s.of].life = "down"
    <3>1. node[s.of].life = "down" => ~NodeCreated(s.of)
      BY <1>0, <2>1 DEF LivesOK, NodeCreated
    <3> QED
      BY <1>0, <2>1, <3>1, LivesMove
  <2>3. s \in stops'
    <3>1. ~StopReturns(s)
      BY <1>0, <1>2, <2>1 DEF StopReturns, NodesOK, Calls
    <3>2. ASSUME NEW t \in stops, StopReturns(t) PROVE s \in stops'
      BY <3>1, <3>2 DEF StopReturns
    <3>3. ASSUME stops \subseteq stops' PROVE s \in stops'
      BY <3>3
    <3>4. ASSUME NEW by, StopCalled(by) PROVE s \in stops'
      BY <3>4 DEF StopCalled
    <3>5. CASE SocketOpens \/ SocketChanges \/ StopMesh
      BY <3>3, <3>4, <3>5 DEF SocketOpens, SocketChanges, StopMesh, AutoStart, Started, nodeVars
    <3>6. ASSUME NEW m \in Nodes, StartMesh(m) \/ StartFails(m) \/ StartStep(m) \/ NodeStops(m)
          PROVE  s \in stops'
      BY <3>3, <3>4, <3>6
         DEF StartMesh, Started, StartFails, StartStep, InfoArrives, NodeCreated, AutoStartEnds,
             JoinTopics, Register, MeshStarted, NodeStops
    <3>7. CASE Answered \/ (\E by \in Askers : TimedOut(by)) \/ ForceReconnect
      BY <3>7 DEF Answered, TimedOut, ForceReconnect, nodeVars
    <3>8. ASSUME NEW m \in Nodes, NEW p \in Peers, Meet(m, p) \/ Part(m, p) PROVE s \in stops'
      BY <3>8 DEF Meet, Part
    <3>9. ASSUME NEW c \in Chains, ChainStep(c) PROVE s \in stops'
      BY <3>9 DEF ChainStep, DialAgain, DialSucceeds, DialFails, nodeVars
    <3>10. CASE \/ \E cs \in SUBSET Channels : SetChannelIds(cs)
                \/ \E ch \in Channels : OnChannelCreated(ch) \/ OnChannelDeleted(ch)
                \/ UNCHANGED vars
      BY <3>10 DEF SetChannelIds, OnChannelCreated, OnChannelDeleted, vars, meshVars, nodeVars
    <3> QED
      BY <3>2, <3>5, <3>6, <3>7, <3>8, <3>9, <3>10 DEF Next
  <2> QED
    BY <1>2, <2>2, <2>3
<1>3. ASSUME start[n].at = "asking", n \notin asked
      PROVE  n \notin asked'
  <2>0. n # 0
    BY DEF Nodes
  <2>1. ASSUME NEW by, by # n, Ask(by) PROVE n \notin asked'
    BY <1>3, <2>1 DEF Ask
  <2>2. ASSUME NEW m \in Nodes, JoinTopics(m) PROVE n \notin asked'
    BY <1>3, <2>1, <2>2 DEF JoinTopics, askVars
  <2>3. ASSUME UNCHANGED asked PROVE n \notin asked'
    BY <1>3, <2>3
  <2>4. CASE SocketOpens \/ SocketChanges \/ StopMesh \/ (\E s \in stops : StopReturns(s))
    BY <2>3, <2>4 DEF SocketOpens, SocketChanges, StopMesh, StopReturns, askVars
  <2>5. ASSUME NEW m \in Nodes,
               \/ StartMesh(m) \/ StartFails(m) \/ NodeStops(m) \/ InfoArrives(m)
               \/ NodeCreated(m) \/ AutoStartEnds(m) \/ Register(m) \/ MeshStarted(m)
        PROVE  n \notin asked'
    BY <2>3, <2>5 DEF StartMesh, StartFails, NodeStops, InfoArrives, NodeCreated,
                      AutoStartEnds, Register, MeshStarted, askVars
  <2>6. CASE Answered \/ (\E by \in Askers : TimedOut(by))
    BY <1>3, <2>6 DEF Answered, TimedOut
  <2>7. CASE ForceReconnect \/ (\E c \in Chains : ChainStep(c))
    BY <2>0, <2>1, <2>3, <2>7
       DEF ForceReconnect, ChainStep, DialAgain, DialSucceeds, DialFails, askVars
  <2>8. ASSUME NEW m \in Nodes, NEW p \in Peers, Meet(m, p) \/ Part(m, p) PROVE n \notin asked'
    BY <2>3, <2>8 DEF Meet, Part, askVars
  <2>9. CASE \/ \E cs \in SUBSET Channels : SetChannelIds(cs)
             \/ \E ch \in Channels : OnChannelCreated(ch) \/ OnChannelDeleted(ch)
             \/ UNCHANGED vars
    BY <2>3, <2>9 DEF SetChannelIds, OnChannelCreated, OnChannelDeleted, vars, meshVars, askVars
  <2> QED
    BY <2>2, <2>4, <2>5, <2>6, <2>7, <2>8, <2>9 DEF Next, StartStep
<1> QED
  BY <1>1, <1>2, <1>3 DEF Resolved

(* The steps of a start take it on.                                         *)
StopReturnsFor(n) == \E s \in stops : s.by = n /\ StopReturns(s)

LEMMA StartsMove ==
  ASSUME MeshInv, NEW n \in Nodes
  PROVE  /\ StartStep(n) => start'[n].at # start[n].at
         /\ StopReturnsFor(n) => start'[n].at = "info"
         /\ TimedOut(n) => n \notin asked' /\ start' = start
<1>1. start \in [Nodes -> Calls] /\ n # 0
  BY DEF MeshInv, NodesOK, Nodes
<1>2. ASSUME InfoArrives(n) \/ NodeCreated(n) \/ Register(n)
      PROVE  start'[n].at # start[n].at
  BY <1>1, <1>2 DEF InfoArrives, NodeCreated, Register, Calls
<1>3. ASSUME AutoStartEnds(n) \/ MeshStarted(n)
      PROVE  start'[n].at # start[n].at
  BY <1>1, <1>3 DEF AutoStartEnds, MeshStarted, Over
<1>4. ASSUME JoinTopics(n)
      PROVE  start'[n].at # start[n].at
  BY <1>1, <1>4 DEF JoinTopics, Over, Calls
<1>5. StopReturnsFor(n) => start'[n].at = "info"
  BY <1>1 DEF StopReturnsFor, StopReturns, Calls
<1>6. TimedOut(n) => n \notin asked' /\ start' = start
  BY DEF TimedOut, nodeVars
<1> QED
  BY <1>2, <1>3, <1>4, <1>5, <1>6 DEF StartStep

(* Weak fairness of what a start does, with its guards spelled out; that    *)
(* libp2p's stop resolves, whose wait for the peers is outside the program, *)
(* is assumed as it is.                                                     *)
Ready(n) ==
  \/ start[n].at \in {"info", "creating", "dialling", "registering"}
  \/ start[n].at = "asking" /\ n \notin asked

StartGoesOn(n) ==
  /\ []<>~Ready(n) \/ []<><<StartStep(n)>>_vars
  /\ []<>(n \notin asked) \/ []<><<TimedOut(n)>>_vars
  /\ []<>~Resolved(n) \/ []<><<StopReturnsFor(n)>>_vars
  /\ start[n].at = "stopping" ~> Resolved(n) \/ start[n].at # "stopping"

TimedStartSpec == Spec /\ \A n \in Nodes : StartGoesOn(n)

(* A call of startP2PNode or startMesh ends, although another call may stop *)
(* the node under it, take its slot for the directory's answer, or be       *)
(* waiting for the same node to stop.                                       *)
THEOREM StartsAlwaysEnd == TimedStartSpec => StartsEnd
<1> SUFFICES ASSUME NEW n \in Nodes
             PROVE  TimedStartSpec =>
                      (start[n].at \notin {"no", "over"} ~> start[n].at = "over")
  BY DEF StartsEnd
<1> DEFINE Safe == MeshInv /\ LivesOK
           At(x) == start[n].at = x
           Stopping == At("stopping")
           Stopped == At("stopping") /\ Resolved(n)
           Info == At("info")
           Creating == At("creating")
           Dialling == At("dialling")
           Asking == At("asking")
           Told == At("asking") /\ n \notin asked
           Registering == At("registering")
           Done == At("over")
           Running == start[n].at \notin {"no", "over"}
<1>1. Spec => []Safe
  BY MeshInvHolds, LivesHold, PTL
<1>2. Safe /\ Running
        => Stopping \/ Info \/ Creating \/ Dialling \/ Asking \/ Registering
  BY DEF MeshInv, NodesOK, Calls
<1>3. ASSUME Safe, [Next]_vars
      PROVE  /\ Stopping => Stopping' \/ Info'
             /\ Stopped => Stopped' \/ Info'
             /\ Info => Info' \/ Creating' \/ Done'
             /\ Creating => Creating' \/ Dialling' \/ Done'
             /\ Dialling => Dialling' \/ Asking' \/ Done'
             /\ Asking => Asking' \/ Registering'
             /\ Told => Told' \/ Registering'
             /\ Registering => Registering' \/ Done'
  <2>1. /\ GoesOn(n)
        /\ Stopping /\ Stopping' /\ Resolved(n) => Resolved(n)'
        /\ Told => n \notin asked'
    BY <1>3, StartsWait
  <2> QED
    BY <2>1 DEF GoesOn
<1>4. ASSUME Safe, <<StartStep(n)>>_vars
      PROVE  ~UNCHANGED start[n].at
  BY <1>4, StartsMove
<1>5. ASSUME Safe, <<StopReturnsFor(n)>>_vars
      PROVE  Info'
  BY <1>5, StartsMove
<1>6. ASSUME Safe, <<TimedOut(n)>>_vars
      PROVE  Asking => Told'
  BY <1>6, StartsMove
<1>7. ASSUME Safe, [Next]_vars, <<StartStep(n)>>_vars
      PROVE  /\ Info => Creating' \/ Done'
             /\ Creating => Dialling' \/ Done'
             /\ Dialling => Asking' \/ Done'
             /\ Told => Registering'
             /\ Registering => Done'
  BY <1>3, <1>4, <1>7
<1>8. Info \/ Creating \/ Dialling \/ Told \/ Registering => Ready(n)
  BY DEF Ready
<1>9. /\ Stopped => Resolved(n)
      /\ Stopping /\ Resolved(n) => Stopped
      /\ Told => Asking
      /\ Asking /\ n \notin asked => Told
  OBVIOUS
<1> HIDE DEF Safe, Stopping, Stopped, Info, Creating, Dialling, Asking, Told, Registering, Done,
             Running
<1>10. Spec /\ StartGoesOn(n) => (Registering ~> Done)
  BY <1>1, <1>3, <1>7, <1>8, PTL DEF Spec, StartGoesOn
<1>11. Spec /\ StartGoesOn(n) => (Told ~> Registering)
  BY <1>1, <1>3, <1>7, <1>8, PTL DEF Spec, StartGoesOn
<1>12. Spec /\ StartGoesOn(n) => (Asking ~> Told \/ Registering)
  BY <1>1, <1>3, <1>6, <1>9, PTL DEF Spec, StartGoesOn
<1>13. Spec /\ StartGoesOn(n) => (Dialling ~> Asking \/ Done)
  BY <1>1, <1>3, <1>7, <1>8, PTL DEF Spec, StartGoesOn
<1>14. Spec /\ StartGoesOn(n) => (Creating ~> Dialling \/ Done)
  BY <1>1, <1>3, <1>7, <1>8, PTL DEF Spec, StartGoesOn
<1>15. Spec /\ StartGoesOn(n) => (Info ~> Creating \/ Done)
  BY <1>1, <1>3, <1>7, <1>8, PTL DEF Spec, StartGoesOn
<1>16. Spec /\ StartGoesOn(n) => (Stopped ~> Info)
  BY <1>1, <1>3, <1>5, <1>9, PTL DEF Spec, StartGoesOn
<1>17. Spec /\ StartGoesOn(n) => (Stopping ~> Stopped \/ Info)
  <2>1. /\ Stopping <=> start[n].at = "stopping"
        /\ start[n].at # "stopping" <=> ~Stopping
    BY DEF Stopping
  <2> QED
    BY <1>1, <1>3, <1>9, <2>1, PTL DEF Spec, StartGoesOn
<1>18. Spec /\ StartGoesOn(n) => (Running ~> Done)
  BY <1>1, <1>2, <1>10, <1>11, <1>12, <1>13, <1>14, <1>15, <1>16, <1>17, PTL
<1>19. Spec /\ StartGoesOn(n)
         => (start[n].at \notin {"no", "over"} ~> start[n].at = "over")
  <2>1. (start[n].at \notin {"no", "over"} <=> Running) /\ (start[n].at = "over" <=> Done)
    BY DEF Running, Done
  <2> QED
    BY <1>18, <2>1, PTL
<1>20. TimedStartSpec => Spec /\ StartGoesOn(n)
  BY DEF TimedStartSpec
<1> QED
  BY <1>19, <1>20

------------------------------------------------------------------------------
(* Every retry chain ends.                                                  *)

Attempting(c, at, k) == chain[c].at = at /\ chain[c].try = k

TriesOK == \A c \in Chains : chain[c].at # "none" => chain[c].try < MaxTries

(* A chain waits, dials, and waits for the next attempt or is over; it is   *)
(* over when its timer is cleared, too.                                     *)
ChainMoves(c) ==
  \/ chain'[c] = chain[c]
  \/ chain'[c].at = "none"
  \/ chain[c].at = "none" /\ chain'[c].at = "waiting" /\ chain'[c].try = 0
  \/ chain[c].at = "waiting" /\ chain'[c].at = "dialling" /\ chain'[c].try = chain[c].try
  \/ /\ chain[c].at = "dialling" /\ chain'[c].at = "waiting"
     /\ chain'[c].try = chain[c].try + 1 /\ chain'[c].try < MaxTries

LEMMA ChainsMove ==
  ASSUME ChainsOK, [Next]_vars, NEW c \in Chains
  PROVE  ChainMoves(c)
<1>0. chain \in [Chains -> Tries] /\ NoChain.at = "none"
  BY DEF ChainsOK, NoChain
<1>a. ASSUME UNCHANGED chain PROVE ChainMoves(c)
  BY <1>a DEF ChainMoves
<1>b. ASSUME NEW d, chain' = [chain EXCEPT ![d] = NoChain] PROVE ChainMoves(c)
  BY <1>0, <1>b DEF ChainMoves
<1>c. ASSUME NEW n, NEW p, NEW d, PeerConnected(n, p, [chain EXCEPT ![d] = NoChain])
      PROVE  ChainMoves(c)
  BY <1>0, <1>c DEF PeerConnected, ChainMoves
<1>1. CASE SocketOpens \/ SocketChanges
  BY <1>1, <1>a DEF SocketOpens, SocketChanges, retryVars
<1>2. ASSUME NEW n \in Nodes, StartMesh(n) \/ StartFails(n) \/ StartStep(n) \/ NodeStops(n)
      PROVE  ChainMoves(c)
  BY <1>2, <1>a
     DEF StartMesh, StartFails, StartStep, InfoArrives, NodeCreated, AutoStartEnds, JoinTopics,
         Register, MeshStarted, NodeStops, retryVars
<1>3. CASE StopMesh
  <2>1. chain'[c] = NoChain \/ chain'[c] = chain[c]
    BY <1>3 DEF StopMesh, ClearReconnectionState
  <2> QED
    BY <1>0, <2>1 DEF ChainMoves
<1>4. CASE \/ \E s \in stops : StopReturns(s)
           \/ Answered \/ (\E by \in Askers : TimedOut(by)) \/ ForceReconnect
  BY <1>4, <1>a DEF StopReturns, Answered, TimedOut, ForceReconnect, retryVars
<1>5. ASSUME NEW n \in Nodes, NEW p \in Peers, Meet(n, p) PROVE ChainMoves(c)
  BY <1>0, <1>5 DEF Meet, PeerConnected, ChainMoves
<1>6. ASSUME NEW n \in Nodes, NEW p \in Peers, Part(n, p) PROVE ChainMoves(c)
  <2> DEFINE first == [at |-> "waiting", node |-> n, peer |-> p, try |-> 0]
  <2>1. \/ chain'[c] = chain[c]
        \/ c \in Free /\ chain'[c] = first
    BY <1>6 DEF Part, retryVars
  <2>2. first.at = "waiting" /\ first.try = 0
    OBVIOUS
  <2> HIDE DEF first
  <2> QED
    BY <2>1, <2>2 DEF ChainMoves, Free
<1>7. ASSUME NEW d \in Chains, DialAgain(d) PROVE ChainMoves(c)
  <2>1. CASE d = c
    <3>1. chain[c] \in Tries /\ chain[c].at = "waiting"
      BY <1>0, <1>7, <2>1 DEF DialAgain
    <3>2. chain'[c] = [chain[c] EXCEPT !.at = "dialling"]
      BY <1>0, <1>7, <2>1 DEF DialAgain
    <3>3. chain'[c].at = "dialling" /\ chain'[c].try = chain[c].try
      BY <3>1, <3>2 DEF Tries, NoChain
    <3> QED
      BY <3>1, <3>3 DEF ChainMoves
  <2>2. CASE d # c
    BY <1>0, <1>7, <2>2 DEF DialAgain, ChainMoves
  <2> QED
    BY <2>1, <2>2
<1>8. ASSUME NEW d \in Chains, DialSucceeds(d) PROVE ChainMoves(c)
  BY <1>8, <1>b, <1>c DEF DialSucceeds
<1>9. ASSUME NEW d \in Chains, DialFails(d) PROVE ChainMoves(c)
  <2>1. CASE chain' = [chain EXCEPT ![d] = NoChain]
    BY <1>b, <2>1
  <2>2. CASE /\ ~(chain[d].try + 1 >= MaxTries)
             /\ chain' = [chain EXCEPT ![d].at = "waiting", ![d].try = @ + 1]
    <3>1. CASE d # c
      BY <1>0, <2>2, <3>1 DEF ChainMoves
    <3>2. CASE d = c
      <4>1. chain[c] \in Tries /\ chain[c].at = "dialling"
        BY <1>0, <1>9, <3>2 DEF DialFails
      <4> DEFINE next == chain[c].try + 1
      <4>2. chain'[c] = [chain[c] EXCEPT !.at = "waiting", !.try = next]
        BY <1>0, <2>2, <3>2
      <4>3. chain'[c].at = "waiting" /\ chain'[c].try = next
        <5> HIDE DEF next
        <5> QED
          BY <4>1, <4>2 DEF Tries, NoChain
      <4>4. chain[c].try \in 0..MaxTries
        BY <4>1, TryChanges
      <4>5. next < MaxTries
        BY <2>2, <3>2, <4>4, MeshAssumption
      <4> QED
        BY <4>1, <4>3, <4>5 DEF ChainMoves
    <3> QED
      BY <3>1, <3>2
  <2> QED
    BY <1>9, <2>1, <2>2 DEF DialFails
<1>10. CASE \/ \E cs \in SUBSET Channels : SetChannelIds(cs)
            \/ \E ch \in Channels : OnChannelCreated(ch) \/ OnChannelDeleted(ch)
            \/ UNCHANGED vars
  BY <1>10, <1>a DEF SetChannelIds, OnChannelCreated, OnChannelDeleted, vars, meshVars, retryVars
<1> QED
  BY <1>1, <1>2, <1>3, <1>4, <1>5, <1>6, <1>7, <1>8, <1>9, <1>10 DEF Next, ChainStep

LEMMA TriesHold == Spec => []TriesOK
<1>1. Init => TriesOK
  BY DEF Init, MeshInit, TriesOK, NoChain
<1>2. MeshInv /\ TriesOK /\ [Next]_vars => TriesOK'
  <2> SUFFICES ASSUME MeshInv, TriesOK, [Next]_vars, NEW c \in Chains, chain'[c].at # "none"
               PROVE  chain'[c].try < MaxTries
    BY DEF TriesOK
  <2>1. ChainMoves(c)
    BY ChainsMove DEF MeshInv
  <2> QED
    BY <2>1, MeshAssumption DEF ChainMoves, TriesOK
<1> QED
  BY <1>1, <1>2, MeshInvHolds, PTL DEF Spec

(* Weak fairness of a chain's timer, with its guard spelled out; that a     *)
(* dial succeeds or fails is libp2p's, and is assumed as it is.             *)
ChainGoesOn(c) ==
  /\ []<>(chain[c].at # "waiting") \/ []<><<DialAgain(c)>>_vars
  /\ chain[c].at = "dialling" ~> chain[c].at # "dialling"

TimedChainSpec == Spec /\ \A c \in Chains : ChainGoesOn(c)

(* A step leaves an attempt as it is, takes it further or ends the chain.   *)
LEMMA NextAttempt ==
  ASSUME MeshInv, [Next]_vars, NEW c \in Chains, NEW k \in Nat, NEW l \in Nat, l = k + 1
  PROVE  /\ Attempting(c, "waiting", k)
              => \/ Attempting(c, "waiting", k)' \/ Attempting(c, "dialling", k)'
                 \/ (chain[c].at = "none")'
         /\ Attempting(c, "dialling", k)
              => \/ Attempting(c, "dialling", k)' \/ Attempting(c, "waiting", l)'
                 \/ (chain[c].at = "none")'
<1>1. ChainMoves(c)
  BY ChainsMove DEF MeshInv
<1> QED
  BY <1>1 DEF ChainMoves, Attempting

(* With the code's seven attempts, or fewer, every chain of attempts ends:  *)
(* also on a node that was stopped, for a peer that another chain replaced, *)
(* and when the directory cannot be asked.                                  *)
THEOREM ChainsAlwaysEnd ==
  ASSUME MaxTries <= 7
  PROVE  TimedChainSpec => ChainsEnd
<1> SUFFICES ASSUME NEW c \in Chains
             PROVE  TimedChainSpec => (chain[c].at # "none" ~> chain[c].at = "none")
  BY DEF ChainsEnd
<1> DEFINE W(k) == Attempting(c, "waiting", k)
           D(k) == Attempting(c, "dialling", k)
           None0 == chain[c].at = "none"
<1>1. MeshInv /\ TriesOK => /\ ~W(7)
                           /\ \/ None0
                              \/ W(0) \/ W(1) \/ W(2) \/ W(3) \/ W(4) \/ W(5) \/ W(6)
                              \/ D(0) \/ D(1) \/ D(2) \/ D(3) \/ D(4) \/ D(5) \/ D(6)
  <2> SUFFICES ASSUME MeshInv, TriesOK, chain[c].at # "none"
               PROVE  /\ chain[c].at \in {"waiting", "dialling"}
                      /\ chain[c].try \in {0, 1, 2, 3, 4, 5, 6}
    BY DEF Attempting
  <2>1. chain[c] \in Tries
    BY DEF MeshInv, ChainsOK
  <2>2. chain[c].at \in {"waiting", "dialling"}
    BY <2>1 DEF Tries, NoChain
  <2>3. chain[c].try \in 0..MaxTries
    BY <2>1, TryChanges
  <2>4. chain[c].try < MaxTries
    BY DEF TriesOK
  <2>5. \A x \in 0..MaxTries : x < MaxTries => x \in {0, 1, 2, 3, 4, 5, 6}
    BY MeshAssumption, MaxTries <= 7
  <2> QED
    BY <2>2, <2>3, <2>4, <2>5
<1>2. ASSUME MeshInv, [Next]_vars, DialAgain(c)
      PROVE  chain'[c].at = "dialling"
  BY <1>2 DEF DialAgain, MeshInv, ChainsOK, Tries, NoChain
<1> DEFINE Waiting == chain[c].at = "waiting"
           Dialling == chain[c].at = "dialling"
<1>3. /\ chain[c].at # "waiting" <=> ~Waiting
      /\ chain[c].at # "dialling" <=> ~Dialling
      /\ chain[c].at = "dialling" <=> Dialling
      /\ chain[c].at # "none" <=> ~None0
      /\ chain[c].at = "none" <=> None0
  OBVIOUS
<1>4. ASSUME NEW k \in Nat
      PROVE  (W(k) => Waiting) /\ (D(k) => Dialling)
  BY DEF Attempting
<1>5. ASSUME MeshInv, [Next]_vars, NEW k \in Nat, NEW l \in Nat, l = k + 1
      PROVE  (W(k) => W(k)' \/ D(k)' \/ None0') /\ (D(k) => D(k)' \/ W(l)' \/ None0')
  BY <1>5, NextAttempt
<1>6. MeshInv /\ [Next]_vars /\ DialAgain(c) => ~Waiting'
  BY <1>2
<1> HIDE DEF W, D, None0, Waiting, Dialling
<1>7. Spec /\ ChainGoesOn(c) => (W(0) \/ D(0) ~> W(1) \/ None0)
  <2>1. (W(0) => Waiting) /\ (D(0) => Dialling)
    BY <1>4
  <2>2. MeshInv /\ [Next]_vars => (W(0) => W(0)' \/ D(0)' \/ None0') /\ (D(0) => D(0)' \/ W(1)' \/ None0')
    BY <1>5
  <2>3. MeshInv' => (W(0)' => Waiting')
    BY <2>1, PTL
  <2> QED
    BY <1>3, <1>6, <2>1, <2>2, MeshInvHolds, PTL
       DEF Spec, ChainGoesOn
<1>8. Spec /\ ChainGoesOn(c) => (W(1) \/ D(1) ~> W(2) \/ None0)
  <2>1. (W(1) => Waiting) /\ (D(1) => Dialling)
    BY <1>4
  <2>2. MeshInv /\ [Next]_vars => (W(1) => W(1)' \/ D(1)' \/ None0') /\ (D(1) => D(1)' \/ W(2)' \/ None0')
    BY <1>5
  <2>3. MeshInv' => (W(1)' => Waiting')
    BY <2>1, PTL
  <2> QED
    BY <1>3, <1>6, <2>1, <2>2, MeshInvHolds, PTL
       DEF Spec, ChainGoesOn
<1>9. Spec /\ ChainGoesOn(c) => (W(2) \/ D(2) ~> W(3) \/ None0)
  <2>1. (W(2) => Waiting) /\ (D(2) => Dialling)
    BY <1>4
  <2>2. MeshInv /\ [Next]_vars => (W(2) => W(2)' \/ D(2)' \/ None0') /\ (D(2) => D(2)' \/ W(3)' \/ None0')
    BY <1>5
  <2>3. MeshInv' => (W(2)' => Waiting')
    BY <2>1, PTL
  <2> QED
    BY <1>3, <1>6, <2>1, <2>2, MeshInvHolds, PTL
       DEF Spec, ChainGoesOn
<1>10. Spec /\ ChainGoesOn(c) => (W(3) \/ D(3) ~> W(4) \/ None0)
  <2>1. (W(3) => Waiting) /\ (D(3) => Dialling)
    BY <1>4
  <2>2. MeshInv /\ [Next]_vars => (W(3) => W(3)' \/ D(3)' \/ None0') /\ (D(3) => D(3)' \/ W(4)' \/ None0')
    BY <1>5
  <2>3. MeshInv' => (W(3)' => Waiting')
    BY <2>1, PTL
  <2> QED
    BY <1>3, <1>6, <2>1, <2>2, MeshInvHolds, PTL
       DEF Spec, ChainGoesOn
<1>11. Spec /\ ChainGoesOn(c) => (W(4) \/ D(4) ~> W(5) \/ None0)
  <2>1. (W(4) => Waiting) /\ (D(4) => Dialling)
    BY <1>4
  <2>2. MeshInv /\ [Next]_vars => (W(4) => W(4)' \/ D(4)' \/ None0') /\ (D(4) => D(4)' \/ W(5)' \/ None0')
    BY <1>5
  <2>3. MeshInv' => (W(4)' => Waiting')
    BY <2>1, PTL
  <2> QED
    BY <1>3, <1>6, <2>1, <2>2, MeshInvHolds, PTL
       DEF Spec, ChainGoesOn
<1>12. Spec /\ ChainGoesOn(c) => (W(5) \/ D(5) ~> W(6) \/ None0)
  <2>1. (W(5) => Waiting) /\ (D(5) => Dialling)
    BY <1>4
  <2>2. MeshInv /\ [Next]_vars => (W(5) => W(5)' \/ D(5)' \/ None0') /\ (D(5) => D(5)' \/ W(6)' \/ None0')
    BY <1>5
  <2>3. MeshInv' => (W(5)' => Waiting')
    BY <2>1, PTL
  <2> QED
    BY <1>3, <1>6, <2>1, <2>2, MeshInvHolds, PTL
       DEF Spec, ChainGoesOn
<1>13. Spec /\ ChainGoesOn(c) => (W(6) \/ D(6) ~> W(7) \/ None0)
  <2>1. (W(6) => Waiting) /\ (D(6) => Dialling)
    BY <1>4
  <2>2. MeshInv /\ [Next]_vars => (W(6) => W(6)' \/ D(6)' \/ None0') /\ (D(6) => D(6)' \/ W(7)' \/ None0')
    BY <1>5
  <2>3. MeshInv' => (W(6)' => Waiting')
    BY <2>1, PTL
  <2> QED
    BY <1>3, <1>6, <2>1, <2>2, MeshInvHolds, PTL
       DEF Spec, ChainGoesOn
<1>14. Spec /\ ChainGoesOn(c) => []<>None0
  BY <1>1, <1>7, <1>8, <1>9, <1>10, <1>11, <1>12, <1>13, MeshInvHolds, TriesHold, PTL
<1>15. Spec /\ ChainGoesOn(c) => (chain[c].at # "none" ~> chain[c].at = "none")
  BY <1>3, <1>14, PTL
<1>16. TimedChainSpec => Spec /\ ChainGoesOn(c)
  BY DEF TimedChainSpec
<1> QED
  BY <1>15, <1>16

------------------------------------------------------------------------------
(* The move of an identity.                                                 *)

USE SessionsAssumption, TriesAssumption

Ends == [here : {"none", "open", "sent", "closing", "closed"},
         there : {"none", "open", "closed"}, up : {"nothing", "pub", "hmac"},
         down : Keys]

(* The key is expected on a new connection, the confirmation after it.      *)
Expected(end) ==
  /\ end.up = "pub" => end.here = "open"
  /\ end.up = "hmac" => end.here = "sent"

(* One end of one connection changes.                                       *)
LEMMA OneConnection ==
  ASSUME TransferTypeOK, NEW n \in Sessions, NEW d \in Devices,
         NEW end \in Ends, Expected(end), conn' = [conn EXCEPT ![n][d] = end]
  PROVE  /\ conn' \in [Sessions -> [Devices -> Ends]]
         /\ \A m \in Sessions, e \in Devices : Expected(conn'[m][e])
         /\ conn'[n][d] = end
         /\ \A m \in Sessions, e \in Devices :
              m # n \/ e # d => conn'[m][e] = conn[m][e]
<1>1. conn \in [Sessions -> [Devices -> Ends]]
  BY DEF TransferTypeOK, Ends
<1>2. conn'[n] = [conn[n] EXCEPT ![d] = end] /\ \A m \in Sessions \ {n} : conn'[m] = conn[m]
  BY <1>1
<1>3. conn'[n][d] = end /\ \A e \in Devices \ {d} : conn'[n][e] = conn[n][e]
  BY <1>1, <1>2
<1>4. \A m \in Sessions, e \in Devices : m # n \/ e # d => conn'[m][e] = conn[m][e]
  BY <1>2, <1>3
<1>5. conn' \in [Sessions -> [Devices -> Ends]]
  BY <1>1, <1>2
<1>6. \A m \in Sessions, e \in Devices : Expected(conn[m][e])
  BY DEF TransferTypeOK, Expected
<1> QED
  BY <1>3, <1>4, <1>5, <1>6

(* What the sender does to its end of the connection.                       *)
LEMMA SenderEnd ==
  ASSUME TransferTypeOK, NEW n \in Sessions, NEW d \in Devices,
         SenderStep(n, d)
  PROVE  \E end \in Ends : /\ Expected(end) /\ conn' = [conn EXCEPT ![n][d] = end]
                           /\ end.down \in {conn[n][d].down, key}
                           /\ end.there = conn[n][d].there
<1> DEFINE c == conn[n][d]
<1>1. c \in Ends /\ Expected(c) /\ key \in Keys
  BY DEF TransferTypeOK, Ends, Expected
<1>2. CASE OnPublicKey(n, d)
  <2> DEFINE end == IF key = 0 THEN [c EXCEPT !.here = "closing", !.up = "nothing"]
                    ELSE [c EXCEPT !.here = "sent", !.up = "nothing", !.down = key]
  <2>1. /\ end \in Ends /\ Expected(end) /\ end.down \in {c.down, key}
        /\ end.there = c.there
    BY <1>1 DEF Ends, Expected
  <2>2. conn' = [conn EXCEPT ![n][d] = end]
    BY <1>2 DEF OnPublicKey
  <2> QED
    BY <2>1, <2>2
<1>3. CASE OnConfirmation(n, d) \/ OnClose(n, d)
  <2> DEFINE end(here) == [c EXCEPT !.here = here, !.up = "nothing"]
  <2>1. \A here \in {"closing", "closed"} :
          /\ end(here) \in Ends /\ Expected(end(here))
          /\ end(here).down = c.down /\ end(here).there = c.there
    BY <1>1 DEF Ends, Expected
  <2>2. CASE OnConfirmation(n, d)
    <3>1. conn' = [conn EXCEPT ![n][d] = end("closing")]
      BY <2>2 DEF OnConfirmation
    <3> QED
      BY <2>1, <3>1
  <2>3. CASE OnClose(n, d)
    <3>1. conn' = [conn EXCEPT ![n][d] = end("closed")]
      BY <2>3 DEF OnClose
    <3> QED
      BY <2>1, <3>1
  <2> QED
    BY <1>3, <2>2, <2>3
<1> QED
  BY <1>2, <1>3 DEF SenderStep

(* What a device does to its end of the connection.                         *)
LEMMA DeviceEnd ==
  ASSUME TransferTypeOK, NEW d \in Devices, NEW n \in Sessions,
         DeviceStep(d, n) \/ GiveUp(d, n)
  PROVE  \E end \in Ends : /\ Expected(end) /\ conn' = [conn EXCEPT ![n][d] = end]
                           /\ end.down \in {conn[n][d].down, 0}
<1> DEFINE c == conn[n][d]
           Off(up) == [c EXCEPT !.there = "closed", !.down = 0, !.up = up]
<1>1. c \in Ends /\ Expected(c) /\ 0 \in Keys
  BY DEF TransferTypeOK, Ends, Expected, Keys
<1>2. conn \in [Sessions -> [Devices -> Ends]]
  BY DEF TransferTypeOK, Ends
<1>3. CASE OnPayload(d, n) \/ OnPayloadNotStored(d, n)
  <2> DEFINE up == IF c.here = "sent" THEN "hmac" ELSE "nothing"
  <2>1. Off(up) \in Ends /\ Expected(Off(up)) /\ Off(up).down = 0
    <3> HIDE DEF c
    <3> QED
      BY <1>1 DEF Ends, Expected
  <2>2. conn' = [conn EXCEPT ![n][d].there = "closed", ![n][d].down = 0, ![n][d].up = up]
    BY <1>3 DEF OnPayload, OnPayloadNotStored
  <2>3. [conn EXCEPT ![n][d].there = "closed", ![n][d].down = 0, ![n][d].up = up]
          = [conn EXCEPT ![n][d] = Off(up)]
    <3> HIDE DEF up
    <3> QED
      BY <1>2
  <2> QED
    BY <2>1, <2>2, <2>3
<1>4. CASE OnForeignPayload(d, n) \/ GiveUp(d, n)
  <2>1. Off(c.up) \in Ends /\ Expected(Off(c.up)) /\ Off(c.up).down = 0
    <3> HIDE DEF c
    <3> QED
      BY <1>1 DEF Ends, Expected
  <2>2. Off(c.up) = [c EXCEPT !.there = "closed", !.down = 0]
    <3> HIDE DEF c
    <3> QED
      BY <1>1 DEF Ends
  <2>3. conn' = [conn EXCEPT ![n][d] = [c EXCEPT !.there = "closed", !.down = 0]]
    BY <1>2, <1>4 DEF OnForeignPayload, GiveUp
  <2> HIDE DEF c
  <2> QED
    BY <2>1, <2>2, <2>3
<1>5. CASE OnError(d, n)
  <2>1. /\ [c EXCEPT !.there = "closed"] \in Ends /\ Expected([c EXCEPT !.there = "closed"])
        /\ [c EXCEPT !.there = "closed"].down = c.down
    <3> HIDE DEF c
    <3> QED
      BY <1>1 DEF Ends, Expected
  <2>2. conn' = [conn EXCEPT ![n][d] = [c EXCEPT !.there = "closed"]]
    BY <1>2, <1>5 DEF OnError
  <2> QED
    BY <2>1, <2>2
<1> QED
  BY <1>3, <1>4, <1>5 DEF DeviceStep

LEMMA TransferTypeStep ==
  ASSUME TransferTypeOK, [TransferNext]_transferVars
  PROVE  TransferTypeOK'
<1> DEFINE ConnOK == /\ conn \in [Sessions -> [Devices -> Ends]]
                     /\ \A m \in Sessions, e \in Devices : Expected(conn[m][e])
           RestOK == /\ server \in Keys /\ timer \in Keys /\ key \in Keys
                     /\ open \subseteq Sessions /\ last \in Keys
                     /\ screen \in {"idle", "waiting", "timeout", "error"}
                     /\ tries \in [Devices -> 0..Attempts]
                     /\ receiveStatus \in [Devices -> {"idle", "connecting", "complete", "error"}]
                     /\ code \in [Devices -> Keys] /\ stored \in [Devices -> Keys]
<1>0. ConnOK /\ RestOK
  BY DEF TransferTypeOK, Ends, Expected
<1>1. ConnOK' /\ RestOK' => TransferTypeOK'
  BY DEF TransferTypeOK, Ends, Expected, Keys, Sessions
<1> USE DEF Sessions, Keys
<1>2. UNCHANGED conn => ConnOK'
  BY <1>0
<1>3. ASSUME Start \/ BindFails \/ Cancel \/ CountedDown
             \/ TryAgain \/ TimeoutFires \/ UNCHANGED transferVars
      PROVE  ConnOK' /\ RestOK'
  <2>1. CASE Start
    BY <1>0, <1>2, <2>1 DEF Start, device
  <2>2. Cleanup => /\ server' \in Keys /\ timer' \in Keys
                          /\ key' \in Keys /\ open' \subseteq Sessions
    BY <1>0 DEF Cleanup
  <2>4. CASE BindFails
    BY <1>0, <1>2, <2>2, <2>4 DEF BindFails, device
  <2>5. CASE Cancel
    BY <1>0, <1>2, <2>2, <2>5 DEF Cancel, device
  <2>6. CASE TimeoutFires
    BY <1>0, <1>2, <2>2, <2>6 DEF TimeoutFires, device
  <2>3. CASE CountedDown \/ TryAgain \/ UNCHANGED transferVars
    BY <1>0, <1>2, <2>3
       DEF CountedDown, TryAgain, main, device, transferVars
  <2> QED
    BY <1>3, <2>1, <2>3, <2>4, <2>5, <2>6
<1>4. ASSUME NEW d \in Devices, NEW n \in Sessions, ConnectFails(d, n)
      PROVE  ConnOK' /\ RestOK'
  BY <1>0, <1>2, <1>4 DEF ConnectFails, Trying, main
<1> HIDE DEF ConnOK
<1>5. ASSUME NEW d \in Devices, NEW n \in Sessions, NEW end \in Ends, Expected(end),
             conn' = [conn EXCEPT ![n][d] = end]
      PROVE  ConnOK'
  BY <1>5, OneConnection DEF ConnOK
<1>6. ASSUME NEW d \in Devices, NEW n \in Sessions
      PROVE  conn[n][d] \in Ends /\ Expected(conn[n][d])
  BY <1>0 DEF ConnOK
<1>7. ASSUME NEW d \in Devices, NEW n \in Sessions, Connect(d, n)
      PROVE  ConnOK' /\ RestOK'
  <2>1. Accepted \in Ends /\ Expected(Accepted)
    BY DEF Accepted, Ends, Expected
  <2>2. ConnOK'
    BY <1>5, <1>7, <2>1 DEF Connect
  <2> QED
    BY <1>0, <1>7, <2>2 DEF Connect, Trying
<1>8. ASSUME NEW d \in Devices, NEW n \in Sessions, SenderStep(n, d)
      PROVE  ConnOK' /\ RestOK'
  <2>1. PICK end \in Ends : Expected(end) /\ conn' = [conn EXCEPT ![n][d] = end]
    BY <1>8, SenderEnd
  <2>2. ConnOK'
    BY <1>5, <2>1
  <2>3. UNCHANGED <<last, screen, tries, receiveStatus, code, stored>> /\ (UNCHANGED main \/ Cleanup)
    BY <1>8 DEF SenderStep, OnPublicKey, OnConfirmation, OnClose, device
  <2>4. server' \in Keys /\ timer' \in Keys /\ key' \in Keys
    BY <1>0, <2>3 DEF Cleanup, main
  <2>5. open' \subseteq Sessions
    BY <1>0, <2>3 DEF Cleanup, main
  <2> QED
    BY <1>0, <2>2, <2>3, <2>4, <2>5
<1>9. ASSUME NEW d \in Devices, NEW n \in Sessions,
             DeviceStep(d, n) \/ GiveUp(d, n)
      PROVE  ConnOK' /\ RestOK'
  <2>1. PICK end \in Ends : Expected(end) /\ conn' = [conn EXCEPT ![n][d] = end]
    BY <1>9, DeviceEnd
  <2>2. ConnOK'
    BY <1>5, <2>1
  <2>3. UNCHANGED <<server, timer, key, open, last, screen>>
    BY <1>9 DEF DeviceStep, OnPayload, OnPayloadNotStored,
                OnForeignPayload, OnError, GiveUp, main
  <2>4. /\ tries' = tries /\ code' = code
        /\ \/ stored' = stored \/ stored' = [stored EXCEPT ![d] = n]
        /\ \E to \in {"complete", "error"} : receiveStatus' = [receiveStatus EXCEPT ![d] = to]
    BY <1>9 DEF DeviceStep, OnPayload, OnPayloadNotStored,
                OnForeignPayload, OnError, GiveUp
  <2> QED
    BY <1>0, <2>2, <2>3, <2>4
<1> HIDE DEF RestOK
<1> QED
  BY <1>1, <1>3, <1>4, <1>7, <1>8, <1>9 DEF TransferNext, UserStep

LEMMA TransferTypeInit ==
  ASSUME TransferInit PROVE TransferTypeOK
<1>1. /\ NoConnection \in Ends /\ Expected(NoConnection)
      /\ NoConnection.up = "nothing"
  BY DEF NoConnection, Ends, Expected, Keys
<1>2. conn \in [Sessions -> [Devices -> Ends]]
  BY <1>1 DEF TransferInit
<1>3. \A m \in Sessions, e \in Devices : Expected(conn[m][e])
  BY <1>1 DEF TransferInit
<1>4. /\ server \in Keys /\ timer \in Keys /\ key \in Keys
      /\ open \subseteq Sessions /\ last \in Keys
      /\ code \in [Devices -> Keys] /\ stored \in [Devices -> Keys]
  BY DEF TransferInit, Keys
<1>5. /\ screen \in {"idle", "waiting", "timeout", "error"}
      /\ tries \in [Devices -> 0..Attempts]
      /\ receiveStatus \in [Devices -> {"idle", "connecting", "complete", "error"}]
  BY DEF TransferInit
<1> QED
  BY <1>2, <1>3, <1>4, <1>5 DEF TransferTypeOK, Ends, Expected

(* Type correctness of the move of an identity, with what each end of a     *)
(* connection expects next.                                                 *)
THEOREM TransferTypeCorrect ==
  TransferSpec => []TransferTypeOK
  BY TransferTypeInit, TransferTypeStep, PTL DEF TransferSpec

(* A server that accepts is the active one, with its timer running and its  *)
(* key in place, whichever callbacks of older sessions run in between.      *)
THEOREM ListenerArmed ==
  TransferSpec => []ListenerIsArmed
<1>1. TransferInit => ListenerIsArmed
  BY DEF TransferInit, ListenerIsArmed
<1>2. TransferTypeOK /\ ListenerIsArmed /\ [TransferNext]_transferVars
        => ListenerIsArmed'
  <2> SUFFICES ASSUME TransferTypeOK, ListenerIsArmed, [TransferNext]_transferVars
               PROVE  ListenerIsArmed'
    OBVIOUS
  <2> USE DEF ListenerIsArmed
  <2>1. CASE Start
    BY <2>1 DEF Start
  <2>2. Cleanup => ListenerIsArmed'
    BY DEF Cleanup
  <2>3. CASE BindFails \/ Cancel \/ TimeoutFires
    BY <2>2, <2>3 DEF BindFails, Cancel, TimeoutFires
  <2>4. CASE UNCHANGED main
    BY <2>4 DEF main
  <2>5. CASE CountedDown \/ TryAgain \/ UNCHANGED transferVars
    BY <2>4, <2>5 DEF CountedDown, TryAgain, transferVars, main
  <2>6. ASSUME NEW d \in Devices, NEW n \in Sessions, SenderStep(n, d)
        PROVE  ListenerIsArmed'
    BY <2>2, <2>4, <2>6
       DEF SenderStep, OnPublicKey, OnConfirmation, OnClose
  <2>7. ASSUME NEW d \in Devices, NEW n \in Sessions,
               DeviceStep(d, n) \/ GiveUp(d, n) \/ ConnectFails(d, n)
        PROVE  ListenerIsArmed'
    BY <2>4, <2>7
       DEF DeviceStep, OnPayload, OnPayloadNotStored,
           OnForeignPayload, OnError, GiveUp, ConnectFails
  <2>8. ASSUME NEW d \in Devices, NEW n \in Sessions, Connect(d, n)
        PROVE  ListenerIsArmed'
    BY <2>8 DEF Connect
  <2> QED
    BY <2>1, <2>3, <2>5, <2>6, <2>7, <2>8 DEF TransferNext, UserStep
<1> QED
  BY <1>1, <1>2, TransferTypeCorrect, PTL DEF TransferSpec

(* Once a session's key is gone and nothing under it is on its way, no step *)
(* sends, delivers or stores anything under it: keys are only ever younger. *)
LEMMA RevokedStays ==
  ASSUME NEW m \in Sessions, TransferTypeOK, Revoked(m), [TransferNext]_transferVars
  PROVE  Revoked(m)'
<1> DEFINE Down(e) == conn[m][e].down # m
<1>0. /\ m \in Nat \ {0} /\ m <= last /\ last \in Nat /\ key # m
      /\ stored \in [Devices -> Keys]
      /\ \A e \in Devices : Down(e) /\ stored[e] # m
  BY DEF TransferTypeOK, Revoked, Sessions, Keys
<1>1. ASSUME last' \in {last, last + 1}, key' \in {key, 0, last + 1},
             UNCHANGED conn, UNCHANGED stored
      PROVE  Revoked(m)'
  <2>1. m <= last' /\ key' # m
    BY <1>0, <1>1
  <2> QED
    BY <1>0, <1>1, <2>1 DEF Revoked
<1>2. CASE \/ Start \/ BindFails \/ Cancel \/ TimeoutFires
           \/ CountedDown \/ TryAgain \/ UNCHANGED transferVars
  BY <1>1, <1>2
     DEF Start, BindFails, Cancel, TimeoutFires, Cleanup,
         CountedDown, TryAgain, main, device, transferVars
<1>3. ASSUME NEW d \in Devices, NEW n \in Sessions, NEW end \in Ends, Expected(end),
             conn' = [conn EXCEPT ![n][d] = end],
             end.down # m \/ n # m,
             UNCHANGED last, key' \in {key, 0},
             \/ UNCHANGED stored
             \/ stored' = [stored EXCEPT ![d] = n] /\ n # m
      PROVE  Revoked(m)'
  <2>1. \A e \in Devices : conn'[m][e].down # m
    BY <1>0, <1>3, OneConnection
  <2>2. \A e \in Devices : stored'[e] # m
    BY <1>0, <1>3
  <2> QED
    BY <1>0, <1>3, <2>1, <2>2 DEF Revoked
<1>4. ASSUME NEW d \in Devices, NEW n \in Sessions, ConnectFails(d, n)
      PROVE  Revoked(m)'
  BY <1>1, <1>4 DEF ConnectFails, main
<1>5. ASSUME NEW d \in Devices, NEW n \in Sessions, Connect(d, n)
      PROVE  Revoked(m)'
  <2>1. Accepted \in Ends /\ Expected(Accepted) /\ Accepted.down = 0
    BY DEF Accepted, Ends, Expected, Keys
  <2> QED
    BY <1>0, <1>3, <1>5, <2>1 DEF Connect
<1>6. ASSUME NEW d \in Devices, NEW n \in Sessions, SenderStep(n, d)
      PROVE  Revoked(m)'
  <2>1. PICK end \in Ends : /\ Expected(end) /\ conn' = [conn EXCEPT ![n][d] = end]
                            /\ end.down \in {conn[n][d].down, key}
    BY <1>6, SenderEnd
  <2>2. UNCHANGED <<last, stored>> /\ key' \in {key, 0}
    BY <1>6 DEF SenderStep, OnPublicKey, OnConfirmation, OnClose,
                Cleanup, main, device
  <2> QED
    BY <1>0, <1>3, <2>1, <2>2
<1>7. ASSUME NEW d \in Devices, NEW n \in Sessions,
             DeviceStep(d, n) \/ GiveUp(d, n)
      PROVE  Revoked(m)'
  <2>1. PICK end \in Ends : /\ Expected(end) /\ conn' = [conn EXCEPT ![n][d] = end]
                            /\ end.down \in {conn[n][d].down, 0}
    BY <1>7, DeviceEnd
  <2>2. UNCHANGED last /\ key' = key
    BY <1>7 DEF DeviceStep, OnPayload, OnPayloadNotStored,
                OnForeignPayload, OnError, GiveUp, main
  <2>3. \/ UNCHANGED stored
        \/ stored' = [stored EXCEPT ![d] = n] /\ conn[n][d].down = n
    BY <1>7 DEF DeviceStep, OnPayload, OnPayloadNotStored,
                OnForeignPayload, OnError, GiveUp
  <2> QED
    BY <1>0, <1>3, <2>1, <2>2, <2>3
<1> QED
  BY <1>2, <1>4, <1>5, <1>6, <1>7 DEF TransferNext, UserStep

LEMMA RevokedForGood ==
  \A n \in Sessions :
    TransferSpec => [](Revoked(n) => [](\A d \in Devices : stored[d] # n))
<1> TAKE n \in Sessions
<1>1. TransferTypeOK /\ Revoked(n) /\ [TransferNext]_transferVars => Revoked(n)'
  BY RevokedStays
<1>2. Revoked(n) => \A d \in Devices : stored[d] # n
  BY DEF Revoked
<1> QED
  BY <1>1, <1>2, TransferTypeCorrect, PTL DEF TransferSpec

(* A session whose key was cleaned up before the identity went out under it *)
(* gives the identity to nobody, for the rest of the run.                   *)
THEOREM RevokedAreDead ==
  TransferSpec => RevokedCodesAreDead
<1>1. TransferSpec => \A n \in Sessions :
        [](Revoked(n) => [](\A d \in Devices : stored[d] # n))
  BY RevokedForGood
<1> QED
  BY <1>1 DEF RevokedCodesAreDead

------------------------------------------------------------------------------
(* An attempt to receive.                                                   *)

(* A device that receives has its end of the connection it made open: no    *)
(* step of the sender or of another device closes it.                       *)
Attempt(d) ==
  receiveStatus[d] = "connecting" => \E n \in Sessions : Receiving(d, n)

LEMMA AttemptStep ==
  ASSUME NEW e \in Devices, TransferTypeOK, Attempt(e), [TransferNext]_transferVars
  PROVE  /\ Attempt(e)'
         /\ receiveStatus[e] = "connecting" =>
              receiveStatus'[e] \in {"connecting", "complete", "error"}
<1>0. /\ code \in [Devices -> Keys] /\ conn \in [Sessions -> [Devices -> Ends]]
      /\ receiveStatus \in [Devices -> {"idle", "connecting", "complete", "error"}]
  BY DEF TransferTypeOK, Ends
<1> USE DEF Attempt, Receiving
<1>1. ASSUME UNCHANGED <<receiveStatus, code, conn>>
      PROVE  Attempt(e)' /\ receiveStatus'[e] = receiveStatus[e]
  BY <1>1
<1>2. CASE \/ Start \/ BindFails \/ Cancel \/ TimeoutFires
           \/ CountedDown \/ TryAgain \/ UNCHANGED transferVars
  BY <1>0, <1>1, <1>2
     DEF Start, BindFails, Cancel, TimeoutFires, CountedDown, TryAgain, device, transferVars
<1>3. ASSUME NEW d \in Devices, NEW n \in Sessions, NEW end \in Ends, Expected(end),
             conn' = [conn EXCEPT ![n][d] = end],
             UNCHANGED <<receiveStatus[e], code[e]>>,
             d = e => end.there = conn[n][d].there
      PROVE  Attempt(e)'
  <2>1. \A m \in Sessions : conn'[m][e].there = conn[m][e].there
    BY <1>3, OneConnection
  <2> QED
    BY <1>3, <2>1
<1>4. ASSUME NEW d \in Devices, NEW n \in Sessions, ConnectFails(d, n)
      PROVE  /\ Attempt(e)'
             /\ receiveStatus[e] = "connecting" => receiveStatus'[e] = "connecting"
  BY <1>0, <1>4 DEF ConnectFails, Trying
<1>5. ASSUME NEW d \in Devices, NEW n \in Sessions, Connect(d, n)
      PROVE  /\ Attempt(e)'
             /\ receiveStatus[e] = "connecting" => receiveStatus'[e] = "connecting"
  <2>1. Accepted \in Ends /\ Expected(Accepted) /\ Accepted.there = "open"
    BY DEF Accepted, Ends, Expected, Keys
  <2>2. CASE d = e
    <3>1. conn'[n][e].there = "open"
      BY <1>5, <2>1, <2>2, OneConnection DEF Connect
    <3>2. code'[e] = n /\ receiveStatus[e] # "connecting"
      BY <1>0, <1>5, <2>2 DEF Connect, Trying
    <3> QED
      BY <3>1, <3>2
  <2>3. CASE d # e
    <3>1. UNCHANGED <<receiveStatus[e], code[e]>>
      BY <1>0, <1>5, <2>3 DEF Connect, Trying
    <3>2. conn' = [conn EXCEPT ![n][d] = Accepted]
      BY <1>5 DEF Connect
    <3> QED
      BY <1>3, <2>1, <2>3, <3>1, <3>2
  <2> QED
    BY <2>2, <2>3
<1>6. ASSUME NEW d \in Devices, NEW n \in Sessions, SenderStep(n, d)
      PROVE  Attempt(e)' /\ receiveStatus'[e] = receiveStatus[e]
  <2>1. PICK end \in Ends : /\ Expected(end) /\ conn' = [conn EXCEPT ![n][d] = end]
                            /\ end.there = conn[n][d].there
    BY <1>6, SenderEnd
  <2>2. UNCHANGED <<receiveStatus, code>>
    BY <1>6 DEF SenderStep, OnPublicKey, OnConfirmation, OnClose, device
  <2> QED
    BY <1>3, <2>1, <2>2
<1>7. ASSUME NEW d \in Devices, NEW n \in Sessions, DeviceStep(d, n) \/ GiveUp(d, n)
      PROVE  /\ Attempt(e)'
             /\ receiveStatus'[e] \in {receiveStatus[e], "complete", "error"}
  <2>1. PICK end \in Ends : Expected(end) /\ conn' = [conn EXCEPT ![n][d] = end]
    BY <1>7, DeviceEnd
  <2>2. /\ code' = code
        /\ \E to \in {"complete", "error"} : receiveStatus' = [receiveStatus EXCEPT ![d] = to]
    BY <1>7 DEF DeviceStep, OnPayload, OnPayloadNotStored,
                OnForeignPayload, OnError, GiveUp
  <2>3. CASE d = e
    BY <1>0, <2>2, <2>3
  <2>4. CASE d # e
    BY <1>0, <1>3, <2>1, <2>2, <2>4
  <2> QED
    BY <2>3, <2>4
<1> HIDE DEF Attempt, Receiving
<1> QED
  BY <1>0, <1>2, <1>4, <1>5, <1>6, <1>7 DEF TransferNext, UserStep

(* Thirty seconds pass for a device that receives.                          *)
GivesUp(d) == \E n \in Sessions : GiveUp(d, n)

(* Weak fairness of it, with its guard spelled out: the time-out runs while *)
(* the device receives.                                                     *)
TimedReceive(d) ==
  \/ []<>~(\E n \in Sessions : Receiving(d, n))
  \/ []<><<GivesUp(d)>>_transferVars

TimedTransferSpec == TransferSpec /\ \A d \in Devices : TimedReceive(d)

(* Every attempt to receive ends, on every branch of the protocol and       *)
(* whatever the sender and the other devices do, although the receiver does *)
(* not hear of a connection that is closed: its own time-out is enough.     *)
THEOREM ReceiveAlwaysEnds == TimedTransferSpec => ReceiveEnds
<1> SUFFICES ASSUME NEW d \in Devices
             PROVE  TimedTransferSpec =>
                      (receiveStatus[d] = "connecting"
                         ~> receiveStatus[d] \in {"complete", "error"})
  BY DEF ReceiveEnds
<1> DEFINE Connecting == receiveStatus[d] = "connecting"
           Settled == receiveStatus[d] \in {"complete", "error"}
           Waits == \E n \in Sessions : Receiving(d, n)
<1>1. TransferInit => Attempt(d)
  BY DEF TransferInit, Attempt
<1>2. TransferTypeOK /\ Attempt(d) /\ [TransferNext]_transferVars => Attempt(d)'
  BY AttemptStep
<1>3. TransferSpec => []Attempt(d)
  BY <1>1, <1>2, TransferTypeCorrect, PTL DEF TransferSpec
<1>4. TransferTypeOK /\ Attempt(d) /\ Connecting /\ [TransferNext]_transferVars => Connecting' \/ Settled'
  BY AttemptStep
<1>5. Attempt(d) /\ Connecting => Waits
  BY DEF Attempt
<1>6. TransferTypeOK /\ <<GivesUp(d)>>_transferVars => Settled'
  BY DEF GivesUp, GiveUp, TransferTypeOK
<1>7. TransferSpec /\ TimedReceive(d) => (Connecting ~> Settled)
  <2> HIDE DEF Connecting, Settled
  <2> QED
    BY <1>3, <1>4, <1>5, <1>6, TransferTypeCorrect, PTL DEF TransferSpec, TimedReceive
<1>8. TimedTransferSpec => TransferSpec /\ TimedReceive(d)
  BY DEF TimedTransferSpec
<1> QED
  BY <1>7, <1>8
==============================================================================
