---------------------------- MODULE VoiceChannels ----------------------------
(***************************************************************************)
(* The server's voice rooms (server/src/voice/state.rs), driven by the join *)
(* and leave handlers of voice/signaling.rs and by the clean-up of a closed *)
(* connection (ws/actor.rs).                                               *)
(*                                                                         *)
(* The rooms are a DashMap: what happens under the guard of one entry is    *)
(* one step, and the guard is given up before an entry found empty is       *)
(* removed.  A connection handles its messages one at a time and cleans up  *)
(* after the last one, so each connection is at one place of one handler.   *)
(* What is said to the clients (the reply, the joined and left events) and  *)
(* the mute flags of a member are left out.                                 *)
(***************************************************************************)
EXTENDS Naturals, FiniteSets

CONSTANTS Users, Conns, Channels,
          UserOf,       \* the user of a connection
          Limit,        \* channels.max_participants; 0 stands for NULL and 0
          NoChannel

ASSUME UserOfAssumption    == UserOf \in [Conns -> Users]
ASSUME LimitAssumption     == Limit \in [Channels -> Nat]
ASSUME NoChannelAssumption == NoChannel \notin Channels

VARIABLES
  pc,            \* where each connection is
  target,        \* the channel its join is for; NoChannel while it disconnects
  todo,          \* leave_all_channels: the collected ids still to visit
  removing,      \* the id whose entry it found empty and is about to remove
  participants,  \* the members of each room
  keys,          \* the rooms that have an entry in the map, empty or not
  unread         \* history: the members who entered a room that was full,
                 \* because its limit could not be read

vars == <<pc, target, todo, removing, participants, keys, unread>>

VoicePC == {"idle", "live", "sweeping", "sweepRemove", "joining", "leaveRemove",
            "gone"}

Voices(c) == pc[c] \notin {"idle", "gone"}

TypeOK ==
  /\ pc \in [Conns -> VoicePC]
  /\ target \in [Conns -> Channels \cup {NoChannel}]
  /\ todo \in [Conns -> SUBSET Channels]
  /\ removing \in [Conns -> Channels \cup {NoChannel}]
  /\ participants \in [Channels -> SUBSET Users]
  /\ keys \in SUBSET Channels
  /\ unread \in [Channels -> SUBSET Users]

Init ==
  /\ pc = [c \in Conns |-> "idle"]
  /\ target = [c \in Conns |-> NoChannel]
  /\ todo = [c \in Conns |-> {}]
  /\ removing = [c \in Conns |-> NoChannel]
  /\ participants = [ch \in Channels |-> {}]
  /\ keys = {}
  /\ unread = [ch \in Channels |-> {}]

-----------------------------------------------------------------------------
Connect(c) ==
  /\ pc[c] = "idle"
  /\ pc' = [pc EXCEPT ![c] = "live"]
  /\ UNCHANGED <<target, todo, removing, participants, keys, unread>>

(* Altered: a join no longer leaves the other rooms first.                   *)
JoinWithoutSweep(c, ch) ==
  /\ pc[c] = "live"
  /\ pc' = [pc EXCEPT ![c] = "sweeping"]
  /\ target' = [target EXCEPT ![c] = ch]
  /\ todo' = [todo EXCEPT ![c] = IF ch = NoChannel THEN keys ELSE {}]
  /\ UNCHANGED <<removing, participants, keys, unread>>

(* Altered: a disconnect leaves no room.                                     *)
DisconnectWithoutSweep(c, ch) ==
  /\ pc[c] = "live"
  /\ pc' = [pc EXCEPT ![c] = "sweeping"]
  /\ target' = [target EXCEPT ![c] = ch]
  /\ todo' = [todo EXCEPT ![c] = IF ch = NoChannel THEN {} ELSE keys]
  /\ UNCHANGED <<removing, participants, keys, unread>>

(* leave_all_channels, on behalf of a join (ch is the channel asked for) or  *)
(* of a connection that closed (ch is NoChannel): the ids are collected      *)
(* first.                                                                    *)
StartSweep(c, ch) ==
  /\ pc[c] = "live"
  /\ pc' = [pc EXCEPT ![c] = "sweeping"]
  /\ target' = [target EXCEPT ![c] = ch]
  /\ todo' = [todo EXCEPT ![c] = keys]
  /\ UNCHANGED <<removing, participants, keys, unread>>

DropUser(c, ch) ==
  /\ participants' = [participants EXCEPT ![ch] = @ \ {UserOf[c]}]
  /\ unread' = [unread EXCEPT ![ch] = @ \ {UserOf[c]}]

(* One round of its loop, under get_mut: drop the user; an entry that is     *)
(* empty, whoever emptied it, is removed once the guard is given up.         *)
SweepChannel(c, ch) ==
  /\ pc[c] = "sweeping"
  /\ ch \in todo[c]
  /\ todo' = [todo EXCEPT ![c] = @ \ {ch}]
  /\ DropUser(c, ch)
  /\ IF ch \in keys /\ participants'[ch] = {}
     THEN /\ pc' = [pc EXCEPT ![c] = "sweepRemove"]
          /\ removing' = [removing EXCEPT ![c] = ch]
     ELSE UNCHANGED <<pc, removing>>
  /\ UNCHANGED <<target, keys>>

(* channels.remove(&channel_id): the room goes with whoever is in it by now. *)
RemoveRoom(c, next) ==
  /\ participants' = [participants EXCEPT ![removing[c]] = {}]
  /\ unread' = [unread EXCEPT ![removing[c]] = {}]
  /\ keys' = keys \ {removing[c]}
  /\ removing' = [removing EXCEPT ![c] = NoChannel]
  /\ pc' = [pc EXCEPT ![c] = next]
  /\ UNCHANGED <<target, todo>>

SweepRemove(c) ==
  /\ pc[c] = "sweepRemove"
  /\ RemoveRoom(c, "sweeping")

(* The loop is over: a join goes on to read max_participants from the        *)
(* database, a disconnect has nothing left to do here.                       *)
SweepDone(c) ==
  /\ pc[c] = "sweeping"
  /\ todo[c] = {}
  /\ pc' = [pc EXCEPT ![c] = IF target[c] = NoChannel THEN "gone" ELSE "joining"]
  /\ UNCHANGED <<target, todo, removing, participants, keys, unread>>

(* Altered: one too many.                                                    *)
FullWhenExceeded(ch) == Limit[ch] > 0 /\ Cardinality(participants[ch]) > Limit[ch]

Full(ch) == Limit[ch] > 0 /\ Cardinality(participants[ch]) >= Limit[ch]

(* join_channel under entry().or_default(), which makes the entry even for a *)
(* join that is then refused.  A limit that could not be read (the database  *)
(* fails, the row is gone, the task panics) is taken for none.               *)
Join(c) ==
  /\ pc[c] = "joining"
  /\ keys' = keys \cup {target[c]}
  /\ \/ Full(target[c]) /\ UNCHANGED <<participants, unread>>
     \/ /\ participants' = [participants EXCEPT ![target[c]] = @ \cup {UserOf[c]}]
        /\ unread' = [unread EXCEPT ![target[c]] =
                        IF Full(target[c]) THEN @ \cup {UserOf[c]} ELSE @ \ {UserOf[c]}]
  /\ pc' = [pc EXCEPT ![c] = "live"]
  /\ UNCHANGED <<target, todo, removing>>

(* handle_voice_leave, for any channel id the client sends.                  *)
Leave(c, ch) ==
  /\ pc[c] = "live"
  /\ DropUser(c, ch)
  /\ IF ch \in keys /\ participants'[ch] = {}
     THEN /\ pc' = [pc EXCEPT ![c] = "leaveRemove"]
          /\ removing' = [removing EXCEPT ![c] = ch]
     ELSE UNCHANGED <<pc, removing>>
  /\ UNCHANGED <<target, todo, keys>>

LeaveRemove(c) ==
  /\ pc[c] = "leaveRemove"
  /\ RemoveRoom(c, "live")

-----------------------------------------------------------------------------
(* The rest of a handler that has started.                                   *)
Continue(c) ==
  \/ \E ch \in Channels : SweepChannel(c, ch)
  \/ SweepRemove(c)
  \/ SweepDone(c)
  \/ Join(c)
  \/ LeaveRemove(c)

Next ==
  \E c \in Conns :
    \/ Connect(c)
    \/ \E ch \in Channels \cup {NoChannel} : StartSweep(c, ch)
    \/ \E ch \in Channels : Leave(c, ch)
    \/ Continue(c)

Spec == Init /\ [][Next]_vars

(* A handler runs to its end: nothing in it waits for another handler.       *)
FairSpec == Spec /\ \A c \in Conns : WF_vars(Continue(c))

-----------------------------------------------------------------------------
(* Properties.                                                               *)

(* A room holds only users one of whose connections will still sweep it: no  *)
(* order of joins, moves and disconnects of any connections leaves a ghost.  *)
NoGhostParticipants ==
  \A ch \in Channels : \A u \in participants[ch] :
    \E c \in Conns : UserOf[c] = u /\ Voices(c)

(* join_channel's check holds up although the limit was read before it and   *)
(* other joins ran in between: a room holds more than its limit only by      *)
(* those for whom the limit could not be read, however many they are and     *)
(* whoever comes and goes after them.                                        *)
CapacityRespected ==
  \A ch \in Channels :
    Limit[ch] > 0 => Cardinality(participants[ch] \ unread[ch]) <= Limit[ch]

(* No other connection speaks for the user of this one.                      *)
Alone(c) == \A d \in Conns : UserOf[d] = UserOf[c] => d = c

(* The sweep before a join keeps a user who has one connection out of a      *)
(* second room, although the database is awaited between the two and the     *)
(* other users make and remove rooms meanwhile.                              *)
OneChannelPerUser ==
  \A c \in Conns : Alone(c) =>
    \A ch1, ch2 \in Channels :
      UserOf[c] \in participants[ch1] /\ UserOf[c] \in participants[ch2] => ch1 = ch2

(* signaling.rs:15 "If the user is already in another voice channel, they    *)
(* are auto-disconnected from it first", of any user: two connections of one *)
(* user may sweep before either joins.                                       *)
OneChannelOfAnyUser ==
  \A u \in Users : \A ch1, ch2 \in Channels :
    u \in participants[ch1] /\ u \in participants[ch2] => ch1 = ch2

(* A disconnect takes the user out of every room, for good when the user had *)
(* no other connection, whatever rooms others make and remove meanwhile.     *)
DepartedIsOut ==
  \A c \in Conns :
    Alone(c) =>
      ((pc[c] \in {"sweeping", "sweepRemove"} /\ target[c] = NoChannel)
         ~> [](\A ch \in Channels : UserOf[c] \notin participants[ch]))
==============================================================================
