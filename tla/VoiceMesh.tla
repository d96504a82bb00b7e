------------------------------ MODULE VoiceMesh ------------------------------
(* Voice clients and the server's signaling between them.  A client asks to *)
(* join a room, sets up its audio when the answer comes, and agrees with    *)
(* every other member on a WebRTC connection by an offer and an answer that *)
(* the server relays.  The server works off each client's requests in       *)
(* order, but several clients' at once; what it sends to a client arrives   *)
(* in order.  A change of voiceChannelId and the effects of useVoice are    *)
(* one step: the store is read through useSyncExternalStore, whose renders  *)
(* and effects are synchronous.                                             *)
(*                                                                          *)
(* Of the WebRTC connections only the signaling state is kept.  They may    *)
(* fail, and so may the socket of a client, the server's look-up of a user  *)
(* who joins, and the audio.                                                *)
EXTENDS Integers, Sequences, FiniteSets, SequencesExt

CONSTANTS
  Clients,    \* by their user ids, compared as the code compares their strings
  Nameless,   \* clients in the session they registered in: no localUserId yet
  Rooms,      \* the voice channels
  Nowhere,    \* no channel
  Seats,      \* max_participants of each channel, 0 for none
  Joins,      \* bound on the joins of each user
  Leaves,     \* bound on the leaves of each user
  Mishaps     \* bound on the things that go wrong

ASSUME ClientsAssumption == Clients \subseteq Nat /\ 0 \notin Clients /\ IsFiniteSet(Clients)
ASSUME NamelessAssumption == Nameless \subseteq Clients
ASSUME RoomsAssumption == Nowhere \notin Rooms
ASSUME SeatsAssumption == Seats \in [Rooms -> Nat]
ASSUME JoinsAssumption == Joins \in [Clients -> Nat]
ASSUME LeavesAssumption == Leaves \in [Clients -> Nat]
ASSUME MishapsAssumption == Mishaps \in Nat

VARIABLES
  room,      \* the server's participants of each channel
  handler,   \* what the server is doing with a join of each user
  outbox,    \* requests of each client the server has not worked off
  inbox,     \* events for each client it has not handled
  chan,      \* voiceChannelId
  roster,    \* voiceParticipants
  setup,     \* the handlers of join responses: one per join of each client
  manager,   \* managerRef and audioRef: the setup they came from, or 0
  links,     \* the peers of each setup's manager: their signaling state
  wire,      \* the client's socket is open
  astray,    \* history: clients whose socket was lost, or whose join was
             \* answered by a failed look-up, and no join of theirs since begun
  mishaps,   \* history: how often a socket, a look-up, a connection, the start
             \* of the audio or the microphone has failed
  joinsLeft, \* bound: joins left to each user
  leavesLeft \* bound: leaves left to each user

server == <<room, handler>>
view == <<chan, roster>>
call == <<setup, manager, links>>
bounds == <<joinsLeft, leavesLeft>>
luck == <<wire, astray, mishaps, bounds>>
meshVars == <<room, handler, outbox, inbox, chan, roster, setup, manager, links,
              wire, astray, mishaps, joinsLeft, leavesLeft>>

Setups == UNION {1..Joins[u] : u \in Clients}

(* "restarting" is have-local-offer of a connection that has failed.        *)
LinkStates == {"none", "stable", "have-local-offer", "new", "restarting"}
Setup == [stage : {"none", "init", "mic", "open", "denied", "failed", "spent"},
          known : SUBSET Clients]
Handling == [step : {"idle", "swept", "entered"}, channel : Rooms \cup {Nowhere},
             others : SUBSET Clients]
Request == [type : {"join", "leave", "offer", "answer"}, channel : Rooms \cup {Nowhere},
            to : Clients \cup {0}]
VoiceEvent ==
  [type : {"response"}, from : {0}, known : SUBSET Clients]
    \cup [type : {"joined", "left", "offer", "answer"}, from : Clients, known : {{}}]

NoSetup == [stage |-> "none", known |-> {}]
Spent == [stage |-> "spent", known |-> {}]
NoLinks == [v \in Clients |-> "none"]
NoRequest == [step |-> "idle", channel |-> Nowhere, others |-> {}]

JoinRequest(ch) == [type |-> "join", channel |-> ch, to |-> 0]
(* Altered: the leave request names the channel the client is in.           *)
LeaveRequestNamed(u) == [type |-> "leave", channel |-> chan'[u], to |-> 0]

(* VOICE_LEAVE names no channel.                                            *)
LeaveRequest(u) == [type |-> "leave", channel |-> Nowhere, to |-> 0]
Signal(kind, v) == [type |-> kind, channel |-> Nowhere, to |-> v]

Event(kind, v) == [type |-> kind, from |-> v, known |-> {}]
Response(others) == [type |-> "response", from |-> 0, known |-> others]

MeshInit ==
  /\ room = [ch \in Rooms |-> {}]
  /\ handler = [u \in Clients |-> NoRequest]
  /\ outbox = [u \in Clients |-> <<>>]
  /\ inbox = [u \in Clients |-> <<>>]
  /\ chan = [u \in Clients |-> Nowhere]
  /\ roster = [u \in Clients |-> {}]
  /\ setup = [u \in Clients |-> [n \in Setups |-> NoSetup]]
  /\ manager = [u \in Clients |-> 0]
  /\ links = [u \in Clients |-> [n \in Setups |-> NoLinks]]
  /\ wire = [u \in Clients |-> TRUE]
  /\ astray = {}
  /\ mishaps = 0
  /\ joinsLeft = Joins
  /\ leavesLeft = Leaves

GoesWrong == mishaps < Mishaps /\ mishaps' = mishaps + 1

------------------------------------------------------------------------------
(* The server.                                                              *)

(* send_to_user finds no sender for who is not connected.                   *)
Notify(who, event) ==
  inbox' = [v \in Clients |-> IF v \in who /\ wire[v] THEN Append(inbox[v], event)
                             ELSE inbox[v]]

Reading(u, kinds) ==
  /\ handler[u].step = "idle"
  /\ outbox[u] # <<>>
  /\ Head(outbox[u]).type \in kinds

Done(u) == outbox' = [outbox EXCEPT ![u] = Tail(@)]

(* handle_voice_join does not find the user, or cannot read: the error it   *)
(* answers has no listener, and the client stays in the room it was in.     *)
LookUpFails(u) ==
  /\ Reading(u, {"join"})
  /\ GoesWrong
  /\ astray' = astray \cup {u}
  /\ Done(u)
  /\ UNCHANGED <<server, inbox, view, call, wire, bounds>>

(* handle_voice_join: leave all rooms and tell those who stay.              *)
Sweep(u) ==
  /\ Reading(u, {"join"})
  /\ room' = [ch \in Rooms |-> room[ch] \ {u}]
  /\ Notify(UNION {room'[ch] : ch \in {x \in Rooms : u \in room[x]}}, Event("left", u))
  /\ handler' = [handler EXCEPT ![u] = [step |-> "swept", channel |-> Head(outbox[u]).channel,
                                        others |-> {}]]
  /\ astray' = astray \ {u}
  /\ UNCHANGED <<outbox, view, call, wire, mishaps, bounds>>

IsFull(ch) == Seats[ch] > 0 /\ Cardinality(room[ch]) >= Seats[ch]

(* join_channel gives the members there are before the join.  A full one    *)
(* is entered, too, when its limit could not be read.                       *)
Enter(u) ==
  LET ch == handler[u].channel IN
  /\ handler[u].step = "swept"
  /\ handler' = [handler EXCEPT ![u].step = "entered", ![u].others = room[ch] \ {u}]
  /\ room' = [room EXCEPT ![ch] = @ \cup {u}]
  /\ IF IsFull(ch) THEN GoesWrong ELSE UNCHANGED mishaps
  /\ UNCHANGED <<outbox, inbox, view, call, wire, astray, bounds>>

(* A full channel is answered with an error, which no client listens to.    *)
Refuse(u) ==
  /\ handler[u].step = "swept" /\ IsFull(handler[u].channel)
  /\ handler' = [handler EXCEPT ![u] = NoRequest]
  /\ Done(u)
  /\ UNCHANGED <<room, inbox, view, call, luck>>

(* The response, and the news to the members of a moment ago.               *)
Reply(u) ==
  LET others == handler[u].others IN
  /\ handler[u].step = "entered"
  /\ inbox' = [v \in Clients |->
       IF v = u THEN Append(inbox[v], Response(others))
       ELSE IF v \in others /\ wire[v] THEN Append(inbox[v], Event("joined", u))
       ELSE inbox[v]]
  /\ handler' = [handler EXCEPT ![u] = NoRequest]
  /\ Done(u)
  /\ UNCHANGED <<room, view, call, luck>>

(* handle_voice_leave works on the channel the request names.               *)
LeaveRoom(u) ==
  LET named == {Head(outbox[u]).channel} \cap Rooms IN
  /\ Reading(u, {"leave"})
  /\ room' = [ch \in Rooms |-> IF ch \in named THEN room[ch] \ {u} ELSE room[ch]]
  /\ Notify(UNION {room'[ch] : ch \in named}, Event("left", u))
  /\ Done(u)
  /\ UNCHANGED <<handler, view, call, luck>>

(* Offers and answers go to their addressee, wherever he is.                *)
Relay(u) ==
  LET signal == Head(outbox[u]) IN
  /\ Reading(u, {"offer", "answer"})
  /\ Notify({signal.to}, Event(signal.type, u))
  /\ Done(u)
  /\ UNCHANGED <<server, view, call, luck>>

------------------------------------------------------------------------------
(* The peers of one manager.                                                *)

(* Altered: whoever hears of another offers; the larger id offers.          *)
ShouldOfferAlways(u, v) == u # v
ShouldOfferDown(u, v) == u > v

(* The smaller id offers, the other waits.  No id is the smallest.          *)
ShouldOffer(u, v) == u \in Nameless \/ u < v

OffersTo(u, who) ==
  LET to == SetToSeq({v \in who : ShouldOffer(u, v)})
  IN  [i \in DOMAIN to |-> Signal("offer", to[i])]

(* What is sent without a socket throws, and the offers, answers and leaves *)
(* of the voice module are not repeated.                                    *)
Sent(u, requests) ==
  outbox' = [outbox EXCEPT ![u] = @ \o (IF wire[u] THEN requests ELSE <<>>)]

(* createPeerConnection for each of who, in place of what was there.        *)
Created(u, old, who) ==
  [v \in Clients |-> IF v \notin who THEN old[v]
                   ELSE IF ShouldOffer(u, v) THEN "have-local-offer" ELSE "new"]

(* The cleanup of useVoice's effect: the manager's peers are closed and a   *)
(* leave request follows whatever was sent before.  A setup that still      *)
(* waits for the microphone goes on.                                        *)
CleanUp(u) ==
  LET n == manager[u] IN
  /\ manager' = [manager EXCEPT ![u] = 0]
  /\ links' = IF n = 0 THEN links ELSE [links EXCEPT ![u][n] = NoLinks]
  /\ setup' = IF n = 0 \/ setup[u][n].stage = "mic" THEN setup
              ELSE [setup EXCEPT ![u][n] = Spent]

Farewell(u) == IF manager[u] = 0 THEN <<>> ELSE <<LeaveRequest(u)>>

------------------------------------------------------------------------------
(* The client.                                                              *)

(* joinVoiceChannel from outside or from another channel; without a socket  *)
(* it throws before it changes anything.                                    *)
JoinVoice(u, ch) ==
  /\ wire[u] /\ chan[u] # ch
  /\ joinsLeft[u] > 0 /\ joinsLeft' = [joinsLeft EXCEPT ![u] = @ - 1]
  /\ chan' = [chan EXCEPT ![u] = ch]
  /\ roster' = [roster EXCEPT ![u] = {}]
  /\ Sent(u, <<JoinRequest(ch)>> \o Farewell(u))
  /\ CleanUp(u)
  /\ UNCHANGED <<server, inbox, wire, astray, mishaps, leavesLeft>>

LeaveVoice(u) ==
  /\ chan[u] # Nowhere
  /\ leavesLeft[u] > 0 /\ leavesLeft' = [leavesLeft EXCEPT ![u] = @ - 1]
  /\ chan' = [chan EXCEPT ![u] = Nowhere]
  /\ roster' = [roster EXCEPT ![u] = {}]
  /\ Sent(u, <<LeaveRequest(u)>> \o Farewell(u))
  /\ CleanUp(u)
  /\ UNCHANGED <<server, inbox, wire, astray, mishaps, joinsLeft>>

(* An event of the given kind is next, and there are handlers for it.       *)
Arrives(u, kind) ==
  /\ inbox[u] # <<>>
  /\ Head(inbox[u]).type = kind
  /\ chan[u] # Nowhere
  /\ inbox' = [inbox EXCEPT ![u] = Tail(@)]

(* The closure of the next answer to a join.                                *)
NextSetup(u) == CHOOSE n \in 1..Joins[u] : setup[u][n].stage = "none"

(* Outside of any channel events fall on the floor.                         *)
Ignore(u) ==
  /\ inbox[u] # <<>> /\ chan[u] = Nowhere
  /\ inbox' = [inbox EXCEPT ![u] = Tail(@)]
  /\ setup' = IF Head(inbox[u]).type # "response" THEN setup
              ELSE [setup EXCEPT ![u][NextSetup(u)] = Spent]
  /\ UNCHANGED <<server, outbox, view, manager, links, luck>>

(* onJoinResponse up to audio.init().                                       *)
OnResponse(u) ==
  /\ Arrives(u, "response")
  /\ setup' = [setup EXCEPT ![u][NextSetup(u)] =
                 [NoSetup EXCEPT !.stage = "init", !.known = Head(inbox[u]).known]]
  /\ UNCHANGED <<server, outbox, view, manager, links, luck>>

(* The audio context runs: the refs are set, the members shown, and the     *)
(* microphone asked for.                                                    *)
AudioReady(u, n) ==
  /\ setup[u][n].stage = "init"
  /\ setup' = [setup EXCEPT ![u][n].stage = "mic"]
  /\ manager' = [manager EXCEPT ![u] = n]
  /\ roster' = [roster EXCEPT ![u] = @ \cup setup[u][n].known]
  /\ UNCHANGED <<server, outbox, inbox, chan, links, luck>>

(* The audio context does not start: the rest of the handler is not run.    *)
AudioFails(u, n) ==
  /\ setup[u][n].stage = "init"
  /\ GoesWrong
  /\ setup' = [setup EXCEPT ![u][n].stage = "failed"]
  /\ UNCHANGED <<server, outbox, inbox, view, manager, links, wire, astray, bounds>>

(* getUserMedia gives a stream, its track enabled, and joinChannel connects *)
(* to all members of the response, whatever has happened meanwhile.         *)
MicReady(u, n) ==
  LET known == setup[u][n].known \ {u} IN
  /\ setup[u][n].stage = "mic"
  /\ setup' = [setup EXCEPT ![u][n] = [stage |-> "open", known |-> {}]]
  /\ links' = [links EXCEPT ![u][n] = Created(u, @, known)]
  /\ Sent(u, OffersTo(u, known))
  /\ UNCHANGED <<server, inbox, view, manager, luck>>

MicDenied(u, n) ==
  /\ setup[u][n].stage = "mic"
  /\ GoesWrong
  /\ setup' = [setup EXCEPT ![u][n] = [stage |-> "denied", known |-> {}]]
  /\ UNCHANGED <<server, outbox, inbox, view, manager, links, wire, astray, bounds>>

(* Altered: a member who joins while the audio is set up is not shown.      *)
OnJoinedWhenReady(u) ==
  LET v == Head(inbox[u]).from
      n == manager[u] IN
  /\ Arrives(u, "joined")
  /\ roster' = IF n = 0 THEN roster ELSE [roster EXCEPT ![u] = @ \cup {v}]
  /\ IF n # 0 /\ links[u][n][v] = "none"
     THEN /\ links' = [links EXCEPT ![u][n] = Created(u, @, {v})]
          /\ Sent(u, OffersTo(u, {v}))
     ELSE UNCHANGED <<links, outbox>>
  /\ UNCHANGED <<server, chan, setup, manager, luck>>

(* A member more, and a connection to him if the manager has none.          *)
OnJoined(u) ==
  LET v == Head(inbox[u]).from
      n == manager[u] IN
  /\ Arrives(u, "joined")
  /\ roster' = [roster EXCEPT ![u] = @ \cup {v}]
  /\ IF n # 0 /\ links[u][n][v] = "none"
     THEN /\ links' = [links EXCEPT ![u][n] = Created(u, @, {v})]
          /\ Sent(u, OffersTo(u, {v}))
     ELSE UNCHANGED <<links, outbox>>
  /\ UNCHANGED <<server, chan, setup, manager, luck>>

OnLeft(u) ==
  LET v == Head(inbox[u]).from
      n == manager[u] IN
  /\ Arrives(u, "left")
  /\ roster' = [roster EXCEPT ![u] = @ \ {v}]
  /\ links' = IF n = 0 THEN links ELSE [links EXCEPT ![u][n][v] = "none"]
  /\ UNCHANGED <<server, outbox, chan, setup, manager, luck>>

(* An offer makes a connection if there is none, and is answered; before    *)
(* the manager exists nobody hears it.                                      *)
OnOffer(u) ==
  LET v == Head(inbox[u]).from
      n == manager[u] IN
  /\ Arrives(u, "offer")
  /\ IF n # 0
     THEN /\ links' = [links EXCEPT ![u][n][v] = "stable"]
          /\ Sent(u, <<Signal("answer", v)>>)
     ELSE UNCHANGED <<links, outbox>>
  /\ UNCHANGED <<server, view, setup, manager, luck>>

(* An answer where no offer is open is refused by the connection.           *)
OnAnswer(u) ==
  LET v == Head(inbox[u]).from
      n == manager[u] IN
  /\ Arrives(u, "answer")
  /\ links' = IF n # 0 /\ links[u][n][v] \in {"have-local-offer", "restarting"}
              THEN [links EXCEPT ![u][n][v] = "stable"] ELSE links
  /\ UNCHANGED <<server, outbox, view, setup, manager, luck>>

------------------------------------------------------------------------------
(* What goes wrong between them.                                            *)

(* The socket is lost with all that was on its way, and the server's task,  *)
(* when it is through with the request at hand, sweeps the user.  What the  *)
(* client sends between its loss and the sweep is lost the same as what it  *)
(* sent just before, and so is what the server sends it.                    *)
SocketLost(u) ==
  /\ wire[u] /\ handler[u].step = "idle"
  /\ GoesWrong
  /\ wire' = [wire EXCEPT ![u] = FALSE]
  /\ astray' = astray \cup {u}
  /\ room' = [ch \in Rooms |-> room[ch] \ {u}]
  /\ outbox' = [outbox EXCEPT ![u] = <<>>]
  /\ inbox' = [v \in Clients |->
       IF v = u THEN <<>>
       ELSE IF wire[v] /\ \E ch \in Rooms : {u, v} \subseteq room[ch]
            THEN Append(inbox[v], Event("left", u)) ELSE inbox[v]]
  /\ UNCHANGED <<handler, view, call, bounds>>

(* The client reconnects: its voice module takes no notice, and it does not *)
(* join again.                                                              *)
SocketBack(u) ==
  /\ ~ wire[u]
  /\ wire' = [wire EXCEPT ![u] = TRUE]
  /\ UNCHANGED <<server, outbox, inbox, view, call, astray, mishaps, bounds>>

(* iceConnectionState is failed, after both descriptions were set: this end *)
(* restarts and offers, whoever of the two is to; the other may do the same.*)
IceFails(u, n, v) ==
  /\ links[u][n][v] = "stable"
  /\ GoesWrong
  /\ links' = [links EXCEPT ![u][n][v] = "restarting"]
  /\ Sent(u, <<Signal("offer", v)>>)
  /\ UNCHANGED <<server, inbox, view, setup, manager, wire, astray, bounds>>

(* iceConnectionState was disconnected and the timer runs out.              *)
PeerGone(u, n, v) ==
  /\ links[u][n][v] \in {"stable", "restarting"}
  /\ GoesWrong
  /\ links' = [links EXCEPT ![u][n][v] = "none"]
  /\ UNCHANGED <<server, outbox, inbox, view, setup, manager, wire, astray, bounds>>

ServerStep(u) ==
  LookUpFails(u) \/ Sweep(u) \/ Enter(u) \/ Refuse(u) \/ Reply(u) \/ LeaveRoom(u)
    \/ Relay(u)

ClientStep(u) ==
  \/ Ignore(u) \/ OnResponse(u) \/ OnJoined(u) \/ OnLeft(u) \/ OnOffer(u) \/ OnAnswer(u)
  \/ \E n \in Setups : AudioReady(u, n) \/ AudioFails(u, n) \/ MicReady(u, n) \/ MicDenied(u, n)

UserStep(u) == LeaveVoice(u) \/ \E ch \in Rooms : JoinVoice(u, ch)

Mishap(u) ==
  \/ SocketLost(u) \/ SocketBack(u)
  \/ \E n \in Setups, v \in Clients : IceFails(u, n, v) \/ PeerGone(u, n, v)

MeshNext == \E u \in Clients : ServerStep(u) \/ ClientStep(u) \/ UserStep(u) \/ Mishap(u)

MeshSpec == MeshInit /\ [][MeshNext]_meshVars

(* The server's tasks run, the sockets deliver, and the browser's promises  *)
(* settle while the programs are up.                                        *)
FairMeshSpec ==
  MeshSpec /\ WF_meshVars(\E u \in Clients : ServerStep(u) \/ ClientStep(u))

------------------------------------------------------------------------------
(* Properties.                                                              *)

(* Every message is one the protocol has and every connection is in a       *)
(* signaling state a peer of the manager's map may be in.                   *)
MeshTypeOK ==
  /\ room \in [Rooms -> SUBSET Clients]
  /\ handler \in [Clients -> Handling]
  /\ outbox \in [Clients -> Seq(Request)]
  /\ inbox \in [Clients -> Seq(VoiceEvent)]
  /\ chan \in [Clients -> Rooms \cup {Nowhere}]
  /\ roster \in [Clients -> SUBSET Clients]
  /\ setup \in [Clients -> [Setups -> Setup]]
  /\ manager \in [Clients -> Setups \cup {0}]
  /\ links \in [Clients -> [Setups -> [Clients -> LinkStates]]]
  /\ wire \in [Clients -> BOOLEAN]
  /\ astray \subseteq Clients
  /\ mishaps \in 0..Mishaps
  /\ joinsLeft \in [Clients -> Nat]
  /\ leavesLeft \in [Clients -> Nat]

(* Nothing is on its way and no handler is at work.                         *)
Quiet ==
  /\ \A u \in Clients : outbox[u] = <<>> /\ inbox[u] = <<>> /\ handler[u].step = "idle"
  /\ \A u \in Clients, n \in Setups : setup[u][n].stage \notin {"init", "mic"}

LinkOf(u, v) == IF manager[u] = 0 THEN "none" ELSE links[u][manager[u]][v]
Awaits(u, v) == LinkOf(u, v) \in {"have-local-offer", "restarting"}

(* Two clients wait for the answers to their offers to each other only if   *)
(* the connection of one has failed, provided only the smallest is without  *)
(* an id: who of the two offers first is settled, who restarts is not.      *)
NoGlare ==
  \A u, v \in Clients : u # v /\ Awaits(u, v) /\ Awaits(v, u) =>
    "restarting" \in {LinkOf(u, v), LinkOf(v, u)}

(* Whom the responses named whose audio did not start.                      *)
Unheard(u) == UNION {setup[u][n].known : n \in {m \in Setups : setup[u][m].stage = "failed"}}

(* Once all messages are handled a client the server has where it is shows  *)
(* every other member of its room: whoever the response missed was          *)
(* announced, and neither the announcement nor the response undoes the      *)
(* other.  Not so after a failed look-up or start of the audio.             *)
RosterComplete ==
  Quiet => \A u \in Clients \ astray :
    (chan[u] # Nowhere /\ u \in room[chan[u]]) =>
      room[chan[u]] \ {u} \subseteq roster[u] \cup Unheard(u)

(* The leave requests a move sends after its join request do not undo it:   *)
(* in the end the server has the client where the client is, or nowhere if  *)
(* that channel has a limit.  Client and server stay apart only if the last *)
(* join's look-up failed or the socket was lost after it.                   *)
RoomFollowsClient ==
  Quiet => \A u \in Clients \ astray : chan[u] # Nowhere =>
    \A ch \in Rooms : IF ch = chan[u] THEN u \in room[ch] \/ Seats[ch] > 0
                         ELSE u \notin room[ch]

Linked(u, v) == LinkOf(u, v) = "stable" /\ LinkOf(v, u) = "stable"

Settled(u) == manager[u] # 0 /\ setup[u][manager[u]].stage = "open"

(* No answer to a join is on its way to the client or being worked on: a    *)
(* second one would replace the manager.                                    *)
Count(messages, kind) == Cardinality({i \in DOMAIN messages : messages[i].type = kind})

Unhurried(u) ==
  /\ Count(inbox[u], "response") = 0
  /\ \A n \in Setups : setup[u][n].stage \notin {"init", "mic"}

SetUp(u) == Settled(u) /\ Unhurried(u) /\ Count(outbox[u], "join") = 0

(* A newcomer and a member who is through with his setup get connected, if  *)
(* the newcomer has the smaller id, is given the microphone, both stay, and *)
(* nothing fails.                                                           *)
(* The newcomer has one join under way: of two, the audio of the earlier    *)
(* may be ready last, and its manager takes the place of the one connected. *)
NewcomerLinks ==
  \A u, v \in Clients : u < v =>
    ( /\ handler[u].step = "entered"
      /\ v \in handler[u].others \cap room[handler[u].channel]
      /\ Unhurried(u) /\ Count(outbox[u], "join") = 1
      /\ SetUp(v) )
      ~> (\/ Linked(u, v) \/ chan[u] = Nowhere \/ chan[u] # chan[v]
          \/ mishaps > 0)

(* VoiceManager is a "Full-mesh WebRTC voice connection manager" that keeps *)
(* a connection for each participant: members of one room who have their    *)
(* microphones are connected.  A newcomer's larger id has the member offer  *)
(* at once, while the newcomer still sets up his audio: the offer is lost   *)
(* (no manager yet) or its connection replaced (joinChannel).               *)
MeshIsFull ==
  Quiet => \A u, v \in Clients :
    (/\ u # v /\ Settled(u) /\ Settled(v) /\ mishaps = 0
     /\ \E ch \in Rooms : {u, v} \subseteq room[ch] /\ chan[u] = ch /\ chan[v] = ch)
      => Linked(u, v)
==============================================================================
